--------------------------- MODULE TaskSupervisor ---------------------------
(***************************************************************************)
(* The daemon's supervision of background tasks: a worker thread per task  *)
(* spawns the command behind a gate, releases the gate unless the task was *)
(* cancelled, waits for the process group to end, and closes job and task. *)
(* Cancel requests, the shutdown of the daemon, its death at any moment    *)
(* and the recovery of what it left behind interleave with the worker.     *)
(*                                                                         *)
(* In-memory state (the SupervisedTaskControl of a task, its worker, the   *)
(* requests that work on it) dies with the daemon; rows and processes do   *)
(* not.                                                                    *)
(***************************************************************************)
EXTENDS TaskStore, FiniteSets

CONSTANTS
  Default,       \* the daemon of the default socket, whose tasks are unowned
  Version,       \* [Daemon -> version], current_daemon_generation_id
  Timed,         \* tasks submitted with a timeout
  OperatorCalls, \* subset of {"complete", "fail"}: job commands on a task's job
  Recoverer,     \* recoveries one daemon may run at a time
  StartupRecoverer, \* the one daemon_serve runs before it accepts clients
  MaxTasks,      \* MAX_SUPERVISED_TASKS
  MaxStops       \* bound: stops and crashes of daemons

ASSUME DaemonAssumption == /\ Default \in Daemon /\ DOMAIN Version = Daemon
                           /\ StartupRecoverer \in Recoverer
ASSUME TaskAssumption == /\ Timed \subseteq Task /\ OperatorCalls \subseteq {"complete", "fail"}
                         /\ MaxTasks \in Nat /\ MaxStops \in Nat

VARIABLES
  procs,        \* [Task -> ProcRecord], the process group of the task
  controls,     \* [Task -> ControlRecord], SupervisedTaskControl
  workers,      \* [Task -> WorkerRecord], the worker thread
  cancels,      \* [Task -> [Canceller -> position of a request]]
  daemons,      \* [Daemon -> {"down", "starting", "up", "stopping"}]
  recoveries,   \* [Daemon -> [Recoverer -> RecoveryRecord]]
  stops         \* stops and crashes so far

vars == <<tasks, procs, controls, workers, cancels, daemons, recoveries, stops>>

Canceller == {"client", "shutdown"}

(* The group is gated until the gate script execs the command; orphans are   *)
(* members that outlive their leader. code is the leader's exit status.      *)
ProcRecord == [ state : {"none", "gated", "live", "orphans", "gone"},
                code  : {"none", "unrun", "zero", "nonzero"} ]

ControlRecord ==
  [ host             : Daemon \union {NoDaemon},   \* whose supervised_tasks has it
    process          : {"Pending", "Running", "Completing"},
    gate             : {"free", "worker", "client"},   \* holder of spawn_gate
    blocked          : BOOLEAN,     \* exec_release_blocked
    cancel_requested : BOOLEAN,
    signal_sent      : BOOLEAN ]    \* cancel_signal_sent

WorkerRecord ==
  [ pc        : {"none", "admitted", "created", "discard", "queued", "gated", "started",
                 "waiting", "exited", "reaped", "closed", "unspawned", "unspawned_closed",
                 "failing", "done"},
    cancelled : BOOLEAN,
    timed_out : BOOLEAN,
    result    : Ends \union {"none"} ]

(* seen is what the SELECT of fail_lost_tasks returned for each task, turned *)
(* into what it is going to write; current is the task between its two rows. *)
RecoveryRecord ==
  [ pc      : {"idle", "signal", "owners", "select", "fail", "finish"},
    owners  : SUBSET Daemon,
    seen    : [Task -> {"none", "lost", "cancelled", "completed", "failed"}],
    current : SUBSET Task ]

NoProc == [state |-> "none", code |-> "none"]
NoControl == [host |-> NoDaemon, process |-> "Pending", gate |-> "free", blocked |-> FALSE,
              cancel_requested |-> FALSE, signal_sent |-> FALSE]
NoWorker == [pc |-> "none", cancelled |-> FALSE, timed_out |-> FALSE, result |-> "none"]
NoRecovery == [pc |-> "idle", owners |-> {}, seen |-> [t \in Task |-> "none"], current |-> {}]
NoCancel == [c \in Canceller |-> "idle"]

TypeOK == /\ tasks \in [Task -> TaskRecord]
          /\ procs \in [Task -> ProcRecord]
          /\ controls \in [Task -> ControlRecord]
          /\ workers \in [Task -> WorkerRecord]
          /\ cancels \in [Task -> [Canceller -> {"idle", "intent", "lock", "save", "flag", "signal"}]]
          /\ daemons \in [Daemon -> {"down", "starting", "up", "stopping"}]
          /\ recoveries \in [Daemon -> [Recoverer -> RecoveryRecord]]
          /\ stops \in Nat

Init == /\ tasks = [t \in Task |-> NoTask]
        /\ procs = [t \in Task |-> NoProc]
        /\ controls = [t \in Task |-> NoControl]
        /\ workers = [t \in Task |-> NoWorker]
        /\ cancels = [t \in Task |-> NoCancel]
        /\ daemons = [d \in Daemon |-> "down"]
        /\ recoveries = [d \in Daemon |-> [k \in Recoverer |-> NoRecovery]]
        /\ stops = 0

-----------------------------------------------------------------------------
(* Guards and updates that the actions share. *)

At(t, pc) == workers[t].pc = pc
Goto(t, pc) == [workers EXCEPT ![t].pc = pc]

IsRegistered(t, d) == controls[t].host = d
RegisteredAt(d) == {t \in Task : IsRegistered(t, d)}

(* The worker's daemon is shutting down: ensure_daemon_not_stopping fails. *)
HostStops(t) == \E d \in Daemon : controls[t].host = d /\ daemons[d] = "stopping"

(* supervised_task_cancel_in_flight: some request holds a cancel intent. *)
CancelInFlight(t) == \E c \in Canceller : cancels[t][c] # "idle"

HasMembers(p) == p.state \in {"gated", "live", "orphans"}

(* SIGKILL to the group; a command that did not end by itself ends badly. *)
Killed(p) == CASE p.state = "gated" -> [state |-> "gone", code |-> "unrun"]
               [] p.state = "live"  -> [state |-> "gone", code |-> "nonzero"]
               [] OTHER             -> [p EXCEPT !.state = IF @ = "none" THEN @ ELSE "gone"]

(* The worker is done: its control leaves supervised_tasks. *)
WorkerLeaves(t) == /\ workers' = Goto(t, "done")
                   /\ controls' = [controls EXCEPT ![t] = [@ EXCEPT !.host = NoDaemon,
                                                                    !.gate = "free"]]

-----------------------------------------------------------------------------
(* start_supervised_task. *)

(* The registry entry comes first, under the hand-off lock. *)
Admit(d, t) ==
  /\ daemons[d] = "up" /\ At(t, "none")
  /\ Cardinality(RegisteredAt(d)) < MaxTasks
  /\ controls' = [controls EXCEPT ![t] = [NoControl EXCEPT !.host = d]]
  /\ workers' = Goto(t, "admitted")
  /\ UNCHANGED <<tasks, procs, cancels, daemons, recoveries, stops>>

CreateTask(t) ==
  /\ At(t, "admitted") /\ ~HostStops(t)
  /\ CreateRow(t, controls[t].host)
  /\ workers' = Goto(t, "created")
  /\ UNCHANGED <<procs, controls, cancels, daemons, recoveries, stops>>

(* The store cannot be opened or written, or the daemon is stopping. *)
RefuseStart(t) ==
  /\ At(t, "admitted")
  /\ WorkerLeaves(t)
  /\ UNCHANGED <<tasks, procs, cancels, daemons, recoveries, stops>>

(* The start signal to the worker: from here on the caller has its task. *)
SendStart(t) ==
  /\ At(t, "created") /\ ~HostStops(t)
  /\ workers' = Goto(t, "queued")
  /\ UNCHANGED <<tasks, procs, controls, cancels, daemons, recoveries, stops>>

(* The daemon began to stop after the row was created: take it back. *)
WithdrawStart(t) ==
  /\ At(t, "created") /\ HostStops(t)
  /\ controls' = [controls EXCEPT ![t].host = NoDaemon]
  /\ workers' = Goto(t, "discard")
  /\ UNCHANGED <<tasks, procs, cancels, daemons, recoveries, stops>>

DiscardTask(t) ==
  /\ At(t, "discard")
  /\ DeleteRow(t)
  /\ workers' = Goto(t, "done")
  /\ UNCHANGED <<procs, controls, cancels, daemons, recoveries, stops>>

-----------------------------------------------------------------------------
(* run_supervised_task_worker, up to the release of the exec gate. *)

(* The spawn gate is won after a cancellation: nothing is spawned, and the   *)
(* gate stays taken until the rows are closed.                               *)
SpawnCancelled(t) ==
  /\ At(t, "queued") /\ controls[t].gate = "free" /\ controls[t].cancel_requested
  /\ controls' = [controls EXCEPT ![t].gate = "worker"]
  /\ workers' = Goto(t, "unspawned")
  /\ UNCHANGED <<tasks, procs, cancels, daemons, recoveries, stops>>

(* The shell is spawned behind the exec gate and its identity remembered. *)
Spawn(t) ==
  /\ At(t, "queued") /\ controls[t].gate = "free" /\ ~controls[t].cancel_requested
  /\ procs' = [procs EXCEPT ![t].state = "gated"]
  /\ controls' = [controls EXCEPT ![t] = [@ EXCEPT !.gate = "worker", !.process = "Running"]]
  /\ workers' = Goto(t, "gated")
  /\ UNCHANGED <<tasks, cancels, daemons, recoveries, stops>>

RecordStart(t) ==
  /\ At(t, "gated")
  /\ MarkStarted(t)
  /\ controls' = [controls EXCEPT ![t].gate = "free"]
  /\ workers' = Goto(t, "started")
  /\ UNCHANGED <<procs, cancels, daemons, recoveries, stops>>

(* A slip for the mutation runs: a cancel under way is not waited for. *)
ReleaseWithoutWaiting(t) ==
  /\ At(t, "started") /\ procs[t].state = "gated"
  /\ ~controls[t].blocked /\ ~controls[t].cancel_requested
  /\ procs' = [procs EXCEPT ![t].state = "live"]
  /\ workers' = Goto(t, "waiting")
  /\ UNCHANGED <<tasks, controls, cancels, daemons, recoveries, stops>>

(* acquire_supervised_task_exec_release, then "go" is written: one step, for *)
(* intents are begun under the exec_release_decision lock held meanwhile,    *)
(* and the other flags are only set by who has an intent.                    *)
ReleaseGate(t) ==
  /\ At(t, "started") /\ procs[t].state = "gated"
  /\ ~CancelInFlight(t) /\ ~controls[t].blocked /\ ~controls[t].cancel_requested
  /\ procs' = [procs EXCEPT ![t].state = "live"]
  /\ workers' = Goto(t, "waiting")
  /\ UNCHANGED <<tasks, controls, cancels, daemons, recoveries, stops>>

(* finish_cancelled_before_exec_gate_release *)
CancelBeforeRelease(t) ==
  /\ At(t, "started") /\ controls[t].cancel_requested
  /\ procs' = [procs EXCEPT ![t] = Killed(@)]
  /\ controls' = [controls EXCEPT ![t].process = "Completing"]
  /\ workers' = Goto(t, "unspawned")
  /\ UNCHANGED <<tasks, cancels, daemons, recoveries, stops>>

(* finish_unspawned_cancelled_task: two transactions. *)
FailUnspawnedJob(t) ==
  /\ At(t, "unspawned")
  /\ FailJob(t, "cancelled")
  /\ workers' = Goto(t, "unspawned_closed")
  /\ UNCHANGED <<procs, controls, cancels, daemons, recoveries, stops>>

FinishUnspawned(t) ==
  /\ At(t, "unspawned_closed")
  /\ FinishTask(t, "cancelled")
  /\ WorkerLeaves(t)
  /\ UNCHANGED <<procs, cancels, daemons, recoveries, stops>>

-----------------------------------------------------------------------------
(* run_supervised_spawned_task. *)

SeenCancelled(t) ==
  workers[t].cancelled \/ (~workers[t].timed_out /\ controls[t].signal_sent)

(* The leader is seen to have exited; a signal sent for a cancellation makes *)
(* it a cancelled end, whatever the exit status.                             *)
ObserveExit(t) ==
  /\ At(t, "waiting") /\ procs[t].state \in {"orphans", "gone"}
  /\ workers' = [workers EXCEPT ![t] =
       [@ EXCEPT !.pc = "exited", !.cancelled = SeenCancelled(t)]]
  /\ UNCHANGED <<tasks, procs, controls, cancels, daemons, recoveries, stops>>

(* join_task_stream_spools_with_control_state: members of the group outlive  *)
(* their leader and may hold its pipes; a spool that does not end makes the  *)
(* worker fail.                                                              *)
Drains(t) == At(t, "exited") /\ procs[t].state = "orphans"

(* A slip for the mutation runs: cancellations are left to the requests. *)
TermForNothing(t) == FALSE

(* SIGTERM for a cancellation, while waiting for the leader or its group. *)
TermForCancel(t) ==
  /\ \/ At(t, "waiting") /\ ~workers[t].cancelled
     \/ Drains(t)
  /\ ~workers[t].timed_out /\ controls[t].cancel_requested
  /\ workers' = [workers EXCEPT ![t].cancelled = TRUE]
  /\ controls' = [controls EXCEPT ![t].signal_sent = TRUE]
  /\ UNCHANGED <<tasks, procs, cancels, daemons, recoveries, stops>>

TermForTimeout(t) ==
  /\ t \in Timed
  /\ \/ At(t, "waiting") /\ procs[t].state = "live" /\ ~workers[t].cancelled
     \/ Drains(t)
  /\ ~workers[t].timed_out
  /\ workers' = [workers EXCEPT ![t].timed_out = TRUE]
  /\ UNCHANGED <<tasks, procs, controls, cancels, daemons, recoveries, stops>>

(* The grace after a SIGTERM is over. Members that outlive their leader are  *)
(* given the same treatment when nobody asked for it.                        *)
KillGroup(t) ==
  /\ \/ At(t, "waiting") /\ (workers[t].cancelled \/ workers[t].timed_out)
     \/ At(t, "exited")
  /\ HasMembers(procs[t])
  /\ procs' = [procs EXCEPT ![t] = Killed(@)]
  /\ UNCHANGED <<tasks, controls, workers, cancels, daemons, recoveries, stops>>

(* task_status_for_exit *)
ResultOf(t, cancelled) ==
  IF workers[t].timed_out THEN "timed_out"
  ELSE IF cancelled THEN "cancelled"
  ELSE IF procs[t].code = "zero" THEN "succeeded" ELSE "failed"

(* Streams drained, group gone: the leader is reaped and the end decided. *)
Reap(t) ==
  /\ At(t, "exited") /\ procs[t].state = "gone"
  /\ controls' = [controls EXCEPT ![t].process = "Completing"]
  /\ workers' = [workers EXCEPT ![t] = [@ EXCEPT !.pc = "reaped", !.cancelled = SeenCancelled(t),
                                                 !.result = ResultOf(t, SeenCancelled(t))]]
  /\ UNCHANGED <<tasks, procs, cancels, daemons, recoveries, stops>>

(* close_task_job_with_result *)
CloseJob(t) ==
  /\ At(t, "reaped")
  /\ IF workers[t].result = "succeeded" THEN CompleteJob(t) ELSE FailJob(t, workers[t].result)
  /\ workers' = Goto(t, "closed")
  /\ UNCHANGED <<procs, controls, cancels, daemons, recoveries, stops>>

FinishRun(t) ==
  /\ At(t, "closed")
  /\ FinishTask(t, workers[t].result)
  /\ WorkerLeaves(t)
  /\ UNCHANGED <<procs, cancels, daemons, recoveries, stops>>

-----------------------------------------------------------------------------
(* When a step of the worker fails. *)

HasChild(t) == workers[t].pc \in {"gated", "started", "waiting", "exited"}

WorkerUnlocks(t) ==
  IF controls[t].gate = "worker" THEN "free" ELSE controls[t].gate

(* A slip for the mutation runs: the child is left to itself. *)
AbandonChild(t) ==
  /\ controls' = [controls EXCEPT ![t].gate = WorkerUnlocks(t)]
  /\ workers' = Goto(t, "failing")
  /\ UNCHANGED <<tasks, procs, cancels, daemons, recoveries, stops>>

(* The child is terminated and waited for before the error is reported. *)
AbandonRun(t) ==
  /\ procs' = IF HasChild(t) THEN [procs EXCEPT ![t] = Killed(@)] ELSE procs
  /\ controls' = [controls EXCEPT ![t] =
       [@ EXCEPT !.gate = WorkerUnlocks(t),
                 !.process = IF HasChild(t) THEN "Completing" ELSE controls[t].process]]
  /\ workers' = Goto(t, "failing")
  /\ UNCHANGED <<tasks, cancels, daemons, recoveries, stops>>

(* An operating-system or store error, at any step. *)
WorkerFails(t) ==
  /\ workers[t].pc \in {"queued", "gated", "started", "waiting", "exited", "reaped", "closed",
                        "unspawned", "unspawned_closed"}
  /\ AbandonRun(t)

(* The shell died behind the gate, or a transaction finds its row settled. *)
WorkerRefused(t) ==
  /\ \/ At(t, "started") /\ procs[t].state = "gone" /\ ~controls[t].cancel_requested
     \/ workers[t].pc \in {"gated", "closed", "unspawned_closed"} /\ ~IsOpenTask(t)
     \/ workers[t].pc \in {"reaped", "unspawned"} /\ ~IsPending(t)
  /\ AbandonRun(t)

(* terminalize_supervised_task_error *)
Terminalize(t) ==
  /\ At(t, "failing") /\ tasks[t].status # "absent"
  /\ IF controls[t].cancel_requested THEN FailTaskWithJob(t, "cancelled", "cancelled")
                                     ELSE FailTaskWithJob(t, "failed", "error")
  /\ WorkerLeaves(t)
  /\ UNCHANGED <<procs, cancels, daemons, recoveries, stops>>

(* The store stayed busy for TASK_STORE_COMPLETION_RETRY_TIMEOUT. *)
GiveUp(t) ==
  /\ At(t, "failing")
  /\ WorkerLeaves(t)
  /\ UNCHANGED <<tasks, procs, cancels, daemons, recoveries, stops>>

-----------------------------------------------------------------------------
(* cancel_supervised_task, for a task in the registry, and the part of       *)
(* stop_all_supervised_tasks that cancels one task. Both hold an intent from *)
(* their first step to their last.                                           *)

CancelGoes(t, c, pos) == cancels' = [cancels EXCEPT ![t][c] = pos]

(* The group has ended, as far as a look from outside the worker can tell. *)
LooksEnded(t) == ~HasMembers(procs[t])

BeginCancel(t) ==
  /\ cancels[t]["client"] = "idle"
  /\ \E d \in Daemon : IsRegistered(t, d) /\ daemons[d] \in {"up", "stopping"}
  /\ CancelGoes(t, "client", "intent")
  /\ UNCHANGED <<tasks, procs, controls, workers, daemons, recoveries, stops>>

(* What is done depends on how far the process has come; a group that ended, *)
(* or is being completed, is left alone.                                     *)
LookAtProcess(t) ==
  /\ cancels[t]["client"] = "intent"
  /\ CancelGoes(t, "client",
       CASE controls[t].process = "Pending"    -> "lock"
         [] controls[t].process = "Completing" -> "idle"
         [] controls[t].process = "Running"    -> IF LooksEnded(t) THEN "idle" ELSE "save")
  /\ UNCHANGED <<tasks, procs, controls, workers, daemons, recoveries, stops>>

LockSpawnGate(t) ==
  /\ cancels[t]["client"] = "lock" /\ controls[t].gate = "free"
  /\ controls' = [controls EXCEPT ![t].gate = "client"]
  /\ CancelGoes(t, "client", "save")
  /\ UNCHANGED <<tasks, procs, workers, daemons, recoveries, stops>>

(* supervised_task_should_request_stop_cancel *)
ShouldStop(t) == \/ controls[t].process = "Pending"
                 \/ controls[t].process = "Running" /\ ~LooksEnded(t)

(* The shutdown blocks the gate before it tries to record the cancellation. *)
BeginStop(t) ==
  /\ HostStops(t) /\ cancels[t]["shutdown"] = "idle" /\ ShouldStop(t)
  /\ controls' = [controls EXCEPT ![t].blocked = TRUE]
  /\ CancelGoes(t, "shutdown", "save")
  /\ UNCHANGED <<tasks, procs, workers, daemons, recoveries, stops>>

RequestCancel(t) ==
  controls' = [controls EXCEPT ![t] = [@ EXCEPT !.blocked = TRUE, !.cancel_requested = TRUE]]

(* durably_request_supervised_task_cancel: the row first, then the flags. *)
SaveCancel(t, c) ==
  /\ cancels[t][c] = "save"
  /\ RecordCancel(t)
  /\ CancelGoes(t, c, "flag")
  /\ UNCHANGED <<procs, controls, workers, daemons, recoveries, stops>>

FlagCancel(t, c) ==
  /\ cancels[t][c] = "flag"
  /\ RequestCancel(t)
  /\ CancelGoes(t, c, "signal")
  /\ UNCHANGED <<tasks, procs, workers, daemons, recoveries, stops>>

ClientUnlocks(t, c) ==
  IF c = "client" /\ controls[t].gate = "client" THEN "free" ELSE controls[t].gate

(* A slip for the mutation runs: the flags were set before the row. *)
CancelNotSavedOnly(t, c) ==
  /\ cancels[t][c] = "save"
  /\ controls' = [controls EXCEPT ![t] = [@ EXCEPT !.gate = ClientUnlocks(t, c),
                                                   !.cancel_requested = TRUE]]
  /\ CancelGoes(t, c, "idle")
  /\ UNCHANGED <<tasks, procs, workers, daemons, recoveries, stops>>

(* The row could not be written: the client is told, the shutdown tries      *)
(* again. The gate of the latter stays blocked.                              *)
CancelNotSaved(t, c) ==
  /\ cancels[t][c] = "save"
  /\ controls' = [controls EXCEPT ![t].gate = ClientUnlocks(t, c)]
  /\ CancelGoes(t, c, "idle")
  /\ UNCHANGED <<tasks, procs, workers, daemons, recoveries, stops>>

(* After TASK_SHUTDOWN_UNPERSISTED_CANCEL_GRACE the shutdown goes on without. *)
ForceStop(t) ==
  /\ cancels[t]["shutdown"] = "save"
  /\ RequestCancel(t)
  /\ CancelGoes(t, "shutdown", "signal")
  /\ UNCHANGED <<tasks, procs, workers, daemons, recoveries, stops>>

(* signal_current_supervised_task_process_group. A SIGTERM may or may not    *)
(* end anything (see LeaderExits); one to a leader that ended and was not    *)
(* reaped succeeds or fails, depending on the platform. The shutdown sends   *)
(* SIGKILL once its own grace is over.                                       *)
SignalCancel(t, c) ==
  /\ cancels[t][c] = "signal"
  /\ \E sent \in BOOLEAN, kill \in BOOLEAN :
       /\ sent => controls[t].process = "Running"
       /\ controls[t].process = "Running" /\ HasMembers(procs[t]) => sent
       /\ kill => sent /\ c = "shutdown"
       /\ controls' = [controls EXCEPT ![t] =
            [@ EXCEPT !.signal_sent = controls[t].signal_sent \/ sent,
                      !.gate = ClientUnlocks(t, c)]]
       /\ procs' = IF kill THEN [procs EXCEPT ![t] = Killed(@)] ELSE procs
  /\ CancelGoes(t, c, "idle")
  /\ UNCHANGED <<tasks, workers, daemons, recoveries, stops>>

(* A task that no registry has: its owner is gone, or gave it up. The cancel *)
(* is recorded, and a recovery follows.                                      *)
CancelUnregistered(d, t) ==
  /\ daemons[d] = "up" /\ ~IsRegistered(t, d)
  /\ IsOpenTask(t)
  /\ tasks[t].owner = d \/ daemons[tasks[t].owner] = "down"
  /\ RecordCancel(t)
  /\ UNCHANGED <<procs, controls, workers, cancels, daemons, recoveries, stops>>

-----------------------------------------------------------------------------
(* The life of a daemon. *)

Listens(d) == daemons[d] # "down"

(* task_recovery_owners_for_scope: its own tasks, and those of generations   *)
(* whose socket nobody listens to.                                           *)
Recoverable(d) ==
  {d} \union {g \in Daemon \ {Default, d} :
                /\ Version[g] # Version[d] /\ ~Listens(g)
                /\ \E t \in Task : IsOpenTask(t) /\ tasks[t].owner = g}

(* daemon_serve binds the socket, then recovers before it accepts clients. *)
StartDaemon(d) ==
  /\ daemons[d] = "down"
  /\ daemons' = [daemons EXCEPT ![d] = "starting"]
  /\ recoveries' = [recoveries EXCEPT ![d][StartupRecoverer] =
                      [NoRecovery EXCEPT !.pc = "signal", !.owners = Recoverable(d)]]
  /\ UNCHANGED <<tasks, procs, controls, workers, cancels, stops>>

StopDaemon(d) ==
  /\ daemons[d] = "up" /\ stops < MaxStops
  /\ daemons' = [daemons EXCEPT ![d] = "stopping"]
  /\ stops' = stops + 1
  /\ UNCHANGED <<tasks, procs, controls, workers, cancels, recoveries>>

(* The tasks whose control, worker or cancel requests live in d. *)
HeldBy(d) == RegisteredAt(d) \union {t \in Task : At(t, "discard") /\ tasks[t].owner = d}

(* The process of the daemon ends. A shell behind its gate reads the end of  *)
(* the pipe and exits; commands that run keep running.                       *)
DaemonEnds(d) ==
  /\ controls' = [t \in Task |-> IF t \in HeldBy(d) THEN NoControl ELSE controls[t]]
  /\ cancels' = [t \in Task |-> IF t \in HeldBy(d) THEN NoCancel ELSE cancels[t]]
  /\ workers' = [t \in Task |-> IF t \in HeldBy(d) THEN [NoWorker EXCEPT !.pc = "done"]
                                                   ELSE workers[t]]
  /\ procs' = [t \in Task |-> IF t \in HeldBy(d) /\ procs[t].state = "gated"
                              THEN Killed(procs[t]) ELSE procs[t]]
  /\ recoveries' = [recoveries EXCEPT ![d] = [k \in Recoverer |-> NoRecovery]]
  /\ daemons' = [daemons EXCEPT ![d] = "down"]
  /\ UNCHANGED tasks

Crash(d) == /\ daemons[d] # "down" /\ stops < MaxStops
            /\ stops' = stops + 1
            /\ DaemonEnds(d)

(* The shutdown is over, because nothing is registered or its graces are. *)
ExitDaemon(d) == daemons[d] = "stopping" /\ DaemonEnds(d) /\ UNCHANGED stops

-----------------------------------------------------------------------------
(* Recovery of lost tasks: at start-up, by the maintenance thread, and after *)
(* a cancel request for an unregistered task.                                *)

Recovery(d, k) == recoveries[d][k]
RecoveryGoes(d, k, r) == recoveries' = [recoveries EXCEPT ![d][k] = r]

BeginRecovery(d, k) ==
  /\ daemons[d] = "up" /\ Recovery(d, k).pc = "idle"
  /\ \E t \in Task : IsOpenTask(t)
  /\ RecoveryGoes(d, k, [NoRecovery EXCEPT !.pc = "signal", !.owners = Recoverable(d)])
  /\ UNCHANGED <<tasks, procs, controls, workers, cancels, daemons, stops>>

(* A slip for the mutation runs: a cancelled task is taken to be stopped. *)
LostProcessesUncancelled(d, owners) ==
  {t \in Task : /\ IsOpenTask(t) /\ ~tasks[t].cancel /\ tasks[t].pid
                /\ tasks[t].owner \in owners /\ ~IsRegistered(t, d)}

(* lost_pending_task_processes_for_recovery_owners, less the active ones *)
LostProcesses(d, owners) ==
  {t \in Task : /\ IsOpenTask(t) /\ tasks[t].pid /\ tasks[t].owner \in owners
                /\ ~IsRegistered(t, d)}

(* SIGTERM, then SIGKILL, and only while the leader has the identity that    *)
(* was recorded: members without their leader are left alone. Only start-up  *)
(* keeps its first choice of owners for what follows.                        *)
SignalLost(d, k) ==
  /\ Recovery(d, k).pc = "signal"
  /\ procs' = [t \in Task |-> IF /\ t \in LostProcesses(d, Recovery(d, k).owners)
                                 /\ procs[t].state \in {"gated", "live"}
                              THEN Killed(procs[t]) ELSE procs[t]]
  /\ RecoveryGoes(d, k, [Recovery(d, k) EXCEPT !.pc = IF daemons[d] = "starting"
                                                      THEN "select" ELSE "owners"])
  /\ UNCHANGED <<tasks, controls, workers, cancels, daemons, stops>>

ChooseOwners(d, k) ==
  /\ Recovery(d, k).pc = "owners"
  /\ RecoveryGoes(d, k, [Recovery(d, k) EXCEPT !.pc = "select", !.owners = Recoverable(d)])
  /\ UNCHANGED <<tasks, procs, controls, workers, cancels, daemons, stops>>

(* A slip for the mutation runs: only tasks with an open job are looked for. *)
SeenPendingOnly(t, owners) ==
  IF ~IsOpenTask(t) \/ tasks[t].owner \notin owners \/ ~IsPending(t) THEN "none"
  ELSE IF tasks[t].cancel THEN "cancelled" ELSE "lost"

(* The rows fail_lost_tasks_matching_excluding_with selects. *)
Seen(t, owners) ==
  IF ~IsOpenTask(t) \/ tasks[t].owner \notin owners THEN "none"
  ELSE IF IsPending(t) THEN IF tasks[t].cancel THEN "cancelled" ELSE "lost"
  ELSE tasks[t].job

SelectLost(d, k) ==
  /\ Recovery(d, k).pc = "select"
  /\ RecoveryGoes(d, k, [Recovery(d, k) EXCEPT !.pc = "fail",
                           !.seen = [t \in Task |-> Seen(t, Recovery(d, k).owners)]])
  /\ UNCHANGED <<tasks, procs, controls, workers, cancels, daemons, stops>>

Forget(r, t) == [r EXCEPT !.pc = "fail", !.seen[t] = "none", !.current = {}]

SkipActive(d, k, t) ==
  /\ Recovery(d, k).pc = "fail" /\ Recovery(d, k).seen[t] # "none" /\ IsRegistered(t, d)
  /\ RecoveryGoes(d, k, Forget(Recovery(d, k), t))
  /\ UNCHANGED <<tasks, procs, controls, workers, cancels, daemons, stops>>

Chosen(d, k, t) == /\ Recovery(d, k).pc = "fail"
                   /\ ~IsRegistered(t, d)

(* The job was pending: fail_job, and in a second transaction finish_task. *)
FailLostJob(d, k, t) ==
  /\ Chosen(d, k, t) /\ Recovery(d, k).seen[t] \in {"lost", "cancelled"}
  /\ FailJob(t, Recovery(d, k).seen[t])
  /\ RecoveryGoes(d, k, [Recovery(d, k) EXCEPT !.pc = "finish", !.current = {t}])
  /\ UNCHANGED <<procs, controls, workers, cancels, daemons, stops>>

FinishLostTask(d, k, t) ==
  /\ Recovery(d, k).pc = "finish" /\ t \in Recovery(d, k).current
  /\ FinishTask(t, Recovery(d, k).seen[t])
  /\ RecoveryGoes(d, k, Forget(Recovery(d, k), t))
  /\ UNCHANGED <<procs, controls, workers, cancels, daemons, stops>>

(* The job was decided: the task follows it. *)
SettleLostTask(d, k, t) ==
  /\ Chosen(d, k, t) /\ Recovery(d, k).seen[t] \in {"completed", "failed"}
  /\ FinishTask(t, StatusOfJob(tasks[t], "failed"))
  /\ RecoveryGoes(d, k, Forget(Recovery(d, k), t))
  /\ UNCHANGED <<procs, controls, workers, cancels, daemons, stops>>

(* A row was settled in between: the transaction fails, and the recovery     *)
(* with it; a daemon that is starting does not come up.                      *)
AbortRecovery(d, k) ==
  /\ \E t \in Task :
       \/ Chosen(d, k, t) /\ Recovery(d, k).seen[t] \in {"lost", "cancelled"} /\ ~IsPending(t)
       \/ Chosen(d, k, t) /\ Recovery(d, k).seen[t] \in {"completed", "failed"} /\ ~IsOpenTask(t)
       \/ Recovery(d, k).pc = "finish" /\ t \in Recovery(d, k).current /\ ~IsOpenTask(t)
  /\ RecoveryGoes(d, k, NoRecovery)
  /\ daemons' = IF daemons[d] = "starting" THEN [daemons EXCEPT ![d] = "down"] ELSE daemons
  /\ UNCHANGED <<tasks, procs, controls, workers, cancels, stops>>

EndRecovery(d, k) ==
  /\ Recovery(d, k).pc = "fail" /\ \A t \in Task : Recovery(d, k).seen[t] = "none"
  /\ RecoveryGoes(d, k, NoRecovery)
  /\ daemons' = IF daemons[d] = "starting" THEN [daemons EXCEPT ![d] = "up"] ELSE daemons
  /\ UNCHANGED <<tasks, procs, controls, workers, cancels, stops>>

-----------------------------------------------------------------------------
(* What the daemon does not control. *)

(* The command ends, or a SIGTERM ends it; its descendants may live on. *)
LeaderExits(t) ==
  /\ procs[t].state = "live"
  /\ \E code \in {"zero", "nonzero"}, state \in {"orphans", "gone"} :
       procs' = [procs EXCEPT ![t] = [state |-> state, code |-> code]]
  /\ UNCHANGED <<tasks, controls, workers, cancels, daemons, recoveries, stops>>

(* A SIGTERM reaches the shell behind its gate, or the last descendant ends. *)
GroupEnds(t) ==
  /\ procs[t].state \in {"gated", "orphans"}
  /\ procs' = [procs EXCEPT ![t] = Killed(@)]
  /\ UNCHANGED <<tasks, controls, workers, cancels, daemons, recoveries, stops>>

(* `cbth job complete` and `cbth job fail` accept the job of a task. *)
OperatorEndsJob(t) ==
  /\ \/ "complete" \in OperatorCalls /\ CompleteJob(t)
     \/ "fail" \in OperatorCalls /\ FailJob(t, "error")
  /\ UNCHANGED <<procs, controls, workers, cancels, daemons, recoveries, stops>>

-----------------------------------------------------------------------------
StartNext(t) == \/ \E d \in Daemon : Admit(d, t)
                \/ RefuseStart(t)
                \/ WorkerFails(t)
                \/ GiveUp(t)

WorkerNext(t) ==
  \/ CreateTask(t) \/ SendStart(t) \/ WithdrawStart(t) \/ DiscardTask(t)
  \/ SpawnCancelled(t) \/ Spawn(t) \/ RecordStart(t) \/ ReleaseGate(t)
  \/ CancelBeforeRelease(t) \/ FailUnspawnedJob(t) \/ FinishUnspawned(t)
  \/ ObserveExit(t) \/ TermForCancel(t) \/ TermForTimeout(t) \/ KillGroup(t)
  \/ Reap(t) \/ CloseJob(t) \/ FinishRun(t) \/ WorkerRefused(t) \/ Terminalize(t)

ClientNext(t) == \/ BeginCancel(t) \/ BeginStop(t) \/ ForceStop(t)
                 \/ \E c \in Canceller : CancelNotSaved(t, c)
                 \/ \E d \in Daemon : CancelUnregistered(d, t)

CancelNext(t) == \/ LookAtProcess(t) \/ LockSpawnGate(t)
                 \/ \E c \in Canceller : SaveCancel(t, c) \/ FlagCancel(t, c) \/ SignalCancel(t, c)

RecoveryNext(d, k) ==
  \/ BeginRecovery(d, k) \/ SignalLost(d, k) \/ ChooseOwners(d, k) \/ SelectLost(d, k)
  \/ \E t \in Task : \/ SkipActive(d, k, t) \/ FailLostJob(d, k, t)
                     \/ FinishLostTask(d, k, t) \/ SettleLostTask(d, k, t)
  \/ AbortRecovery(d, k) \/ EndRecovery(d, k)

DaemonNext(d) == StopDaemon(d) \/ Crash(d)

WorldNext(t) == LeaderExits(t) \/ GroupEnds(t) \/ OperatorEndsJob(t)

Next == \/ \E t \in Task : \/ StartNext(t) \/ WorkerNext(t) \/ ClientNext(t)
                           \/ CancelNext(t) \/ WorldNext(t)
        \/ \E d \in Daemon : \/ StartDaemon(d) \/ ExitDaemon(d) \/ DaemonNext(d)
                             \/ \E k \in Recoverer : RecoveryNext(d, k)

Spec == Init /\ [][Next]_vars

(* The worker does its next step, and gets the spawn gate, a mutex, however  *)
(* many requests take it in turn; requests already begun go on, daemons that *)
(* are shutting down exit and recoveries proceed. No fairness for commands,  *)
(* which may run for ever, for errors, for anyone's requests, or for the     *)
(* start of a daemon, which waits for a client to need one.                  *)
Fairness ==
  /\ \A t \in Task : /\ WF_vars(WorkerNext(t)) /\ WF_vars(CancelNext(t))
                     /\ SF_vars(Spawn(t) \/ SpawnCancelled(t))
  /\ \A d \in Daemon : /\ WF_vars(ExitDaemon(d))
                       /\ \A k \in Recoverer : WF_vars(RecoveryNext(d, k))

FairSpec == Spec /\ Fairness

-----------------------------------------------------------------------------
(* Safety. *)

IsEnded(t) == tasks[t].status \in Ends

(* The task and its job agree on the end: a task has succeeded exactly when  *)
(* its job completed, and bears the status the job's reason names. Worker,   *)
(* error path and recovery close the two rows in separate transactions and   *)
(* take over from each other between them.                                   *)
OutcomeAgrees == \A t \in Task : IsEnded(t) =>
  /\ tasks[t].job \in {"completed", "failed"}
  /\ tasks[t].status = "succeeded" <=> tasks[t].job = "completed"
  /\ tasks[t].reason \in Ends => tasks[t].status = tasks[t].reason

(* A task's result enters the delivery queue exactly once, however many of   *)
(* worker, recoveries and operator try to close its job.                     *)
OneBatchPerJob == \A t \in Task :
  tasks[t].batches = IF tasks[t].job \in {"completed", "failed"} THEN 1 ELSE 0

(* The command of an ended task does not run: nothing reports an end, and no *)
(* recovery writes a task off, before the leader was stopped.                *)
NoOrphanedCommand == \A t \in Task : IsEnded(t) => procs[t].state # "live"

(* A spawned command is known to the store before it can run, so a recovery  *)
(* can find it; and it was registered all the while, so none does too early. *)
RunsOnRecord == \A t \in Task :
  procs[t].state = "live" => tasks[t].pid /\ tasks[t].status # "absent"

(* Once a cancellation is on record the gate is not opened any more: the     *)
(* command of a task that was cancelled in time is never executed, although  *)
(* request and worker use different locks and the record is not read back.   *)
NoRunAfterCancel ==
  [][\A t \in Task : procs[t].state # "live" /\ procs'[t].state = "live" =>
       ~tasks[t].cancel]_vars

(* A job is closed as cancelled only if that was asked for: by a request on  *)
(* record, or by a shutdown that could not record its own and is under way.  *)
CancelledWasAsked ==
  [][\A t \in Task : tasks[t].reason # "cancelled" /\ tasks'[t].reason = "cancelled" =>
       tasks[t].cancel \/ HostStops(t)]_vars

-----------------------------------------------------------------------------
(* Liveness under FairSpec. *)

OwnerDown(t) == tasks[t].owner = NoDaemon \/ daemons[tasks[t].owner] = "down"

(* A recorded cancellation takes effect: the task ends, although its command *)
(* ignores SIGTERM, or its daemon dies first, and then see LostResolves.     *)
CancelResolves == \A t \in Task : tasks[t].cancel ~> (~IsOpenTask(t) \/ OwnerDown(t))

(* What a dead daemon left behind is ended by the next one that starts, if   *)
(* that does not die as well.                                                *)
LostResolves == \A t \in Task :
  (~OwnerDown(t) /\ daemons[tasks[t].owner] = "starting") ~> (~IsOpenTask(t) \/ OwnerDown(t))

-----------------------------------------------------------------------------
(* The supervisor keeps the promise of BackgroundTask. *)
CommandOf(t) ==
  CASE procs[t].code = "unrun" \/ procs[t].state \in {"none", "gated"} -> "idle"
    [] procs[t].state = "live" -> "running"
    [] OTHER -> "stopped"

Promise == INSTANCE BackgroundTask WITH
  outcome   <- [t \in Task |-> tasks[t].job],
  command   <- [t \in Task |-> CommandOf(t)],
  cancelled <- {t \in Task : tasks[t].cancel}

(* Whatever daemons, workers, cancellations and recoveries do, a task is     *)
(* what BackgroundTask says, as long as nobody closes its job by hand.       *)
KeepsPromise == Promise!TaskSpec
=============================================================================
