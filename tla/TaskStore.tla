----------------------------- MODULE TaskStore ------------------------------
(***************************************************************************)
(* The rows of a background task: its job, which carries the outcome that  *)
(* is delivered, and the task itself, which says how the command ended.    *)
(* Each operator below is one transaction of src/store.rs; the two rows    *)
(* are often written by different transactions, so a task can be left      *)
(* open although its job is decided.                                       *)
(***************************************************************************)
EXTENDS Naturals

CONSTANTS
  Task,        \* task ids; the job of a task is identified with it
  Daemon,      \* daemon endpoints: the default socket and one per generation
  NoDaemon     \* supervisor of a task that has no row

ASSUME NoDaemonAssumption == NoDaemon \notin Daemon

VARIABLE tasks      \* [Task -> TaskRecord]

Ends == {"succeeded", "failed", "cancelled", "timed_out", "lost"}

(* What a job's failure_reason says; "error" is a text that names no status. *)
Reasons == {"failed", "cancelled", "timed_out", "lost", "error"}

TaskRecord ==
  [ job     : {"absent", "pending", "completed", "failed"},
    reason  : Reasons \union {"none"},
    status  : {"absent", "queued", "running"} \union Ends,
    pid     : BOOLEAN,       \* pid and pid_identity are recorded
    cancel  : BOOLEAN,       \* cancel_requested_at is set
    owner   : Daemon \union {NoDaemon},   \* supervisor_daemon_generation
    batches : Nat ]          \* batches inserted for the job

NoTask == [ job |-> "absent", reason |-> "none", status |-> "absent", pid |-> FALSE,
            cancel |-> FALSE, owner |-> NoDaemon, batches |-> 0 ]

(* ensure_task_not_terminal, and status IN ('queued', 'running') *)
IsOpenTask(t) == tasks[t].status \in {"queued", "running"}

IsPending(t) == tasks[t].job = "pending"

(* create_task_with_job_for_supervisor_generation *)
CreateRow(t, d) ==
  tasks' = [tasks EXCEPT ![t] = [NoTask EXCEPT !.job = "pending", !.status = "queued",
                                               !.owner = d]]

(* delete_unstarted_task_with_job: refused once anything happened to the rows. *)
DeleteRow(t) ==
  tasks' = IF tasks[t].status = "queued" /\ IsPending(t)
           THEN [tasks EXCEPT ![t] = NoTask] ELSE tasks

(* A slip for the mutation runs: the process is not recorded. *)
MarkStartedOnly(t) ==
  /\ IsOpenTask(t)
  /\ tasks' = [tasks EXCEPT ![t].status = "running"]

(* mark_task_started *)
MarkStarted(t) ==
  /\ IsOpenTask(t)
  /\ tasks' = [tasks EXCEPT ![t].status = "running", ![t].pid = TRUE]

(* request_task_cancel: a terminal task is left as it is. *)
RecordCancel(t) ==
  /\ tasks[t].status # "absent"
  /\ tasks' = IF IsOpenTask(t) THEN [tasks EXCEPT ![t].cancel = TRUE] ELSE tasks

DecidedRow(r, job, reason) ==
  [r EXCEPT !.job = job, !.reason = reason, !.batches = @ + 1]

(* complete_job *)
CompleteJob(t) ==
  /\ IsPending(t)
  /\ tasks' = [tasks EXCEPT ![t] = DecidedRow(@, "completed", "none")]

(* fail_job and fail_job_with_artifact *)
FailJob(t, reason) ==
  /\ IsPending(t)
  /\ tasks' = [tasks EXCEPT ![t] = DecidedRow(@, "failed", reason)]

(* task_status_from_failure_reason *)
StatusOfReason(reason, fallback) ==
  IF reason \in Ends THEN reason ELSE fallback

(* finish_task *)
FinishTask(t, status) ==
  /\ IsOpenTask(t)
  /\ tasks' = [tasks EXCEPT ![t].status = status]

(* task_status_for_supervised_job_terminal *)
StatusOfJob(r, fallback) ==
  IF r.job = "completed" THEN "succeeded"
  ELSE StatusOfReason(r.reason, fallback)

(* A slip for the mutation runs: the task takes the caller's status although *)
(* the job was decided already.                                              *)
FailTaskWithJobAsTold(t, status, reason) ==
  LET r == IF IsPending(t) THEN DecidedRow(tasks[t], "failed", reason) ELSE tasks[t]
  IN  tasks' = [tasks EXCEPT ![t] =
                  IF IsOpenTask(t) THEN [r EXCEPT !.status = status] ELSE r]

(* fail_supervised_task_with_job: whichever of the two rows is still open is *)
(* closed, the task in agreement with the job.                               *)
FailTaskWithJob(t, status, reason) ==
  LET r == IF IsPending(t) THEN DecidedRow(tasks[t], "failed", reason) ELSE tasks[t]
  IN  tasks' = [tasks EXCEPT ![t] =
                  IF IsOpenTask(t) THEN [r EXCEPT !.status = StatusOfJob(r, status)] ELSE r]
=============================================================================
