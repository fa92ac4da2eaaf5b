-------------------------- MODULE TaskSafetyProofs --------------------------
(***************************************************************************)
(* Types and safety of the task supervisor, for any number of tasks,       *)
(* daemons and recoveries. First the types: what the transactions of       *)
(* TaskStore leave in the rows, then one lemma per part of the supervisor. *)
(* Then the outcome: task and job agree on the end, which is final, and    *)
(* the job enters the delivery queue once. Then the command: it runs only  *)
(* when the store knows of it, and never after a recorded cancellation.    *)
(* Then the cancellation: only what was asked for ends a task that way.    *)
(* Then the ended command: it is stopped before its task is ended, by who  *)
(* alone recovers it. Each part has its inductive invariant, CloseInv,     *)
(* RunInv, AskedInv and OrphanInv, beside TypeInv. Together they make the  *)
(* supervisor an implementation of BackgroundTask.                         *)
(***************************************************************************)
EXTENDS TaskSupervisor, TLAPS

(* A row has a job when it has a task. *)
Row == {r \in TaskRecord : r.job = "absent" <=> r.status = "absent"}

(* Deciding a row's job keeps the row well formed. *)
LEMMA DecidedRowType ==
  ASSUME NEW r \in Row, r.job # "absent", NEW job \in {"completed", "failed"},
         NEW reason \in Reasons \union {"none"}
  PROVE  DecidedRow(r, job, reason) \in Row
<1>1. r.batches + 1 \in Nat BY DEF TaskRecord, Row
<1>2. ASSUME NEW n \in Nat
      PROVE  [r EXCEPT !.job = job, !.reason = reason, !.batches = n] \in Row
  BY DEF TaskRecord, Row
<1>. QED BY <1>1, <1>2 DEF DecidedRow

(* The status that follows from a job is one of the ends of a task. *)
LEMMA StatusOfJobType ==
  ASSUME NEW r, NEW fallback \in Ends PROVE StatusOfJob(r, fallback) \in Ends
BY DEF StatusOfJob, StatusOfReason, Ends

(* Updates of single fields of a row that is not absent. *)
LEMMA RowUpdates ==
  ASSUME NEW r \in Row, r.status # "absent", NEW status \in Ends
  PROVE  /\ [r EXCEPT !.status = status] \in Row
         /\ [r EXCEPT !.cancel = TRUE] \in Row
         /\ [r EXCEPT !.status = "running", !.pid = TRUE] \in Row
<1>1. [r EXCEPT !.status = status] \in Row BY DEF TaskRecord, Row, Ends
<1>2. [r EXCEPT !.cancel = TRUE] \in Row BY DEF TaskRecord, Row
<1>3. [r EXCEPT !.status = "running", !.pid = TRUE] \in Row BY DEF TaskRecord, Row
<1>. QED BY <1>1, <1>2, <1>3

(* A new row, and no row. *)
LEMMA NewRowType ==
  ASSUME NEW d \in Daemon \union {NoDaemon}
  PROVE  /\ [NoTask EXCEPT !.job = "pending", !.status = "queued", !.owner = d] \in Row
         /\ NoTask \in Row
BY DEF NoTask, TaskRecord, Row

(* Who comes to write the end of a task, and with which status. *)
Finishes(t, status) ==
  \/ At(t, "closed") /\ status = workers[t].result
  \/ At(t, "unspawned_closed") /\ status = "cancelled"
  \/ \E d \in Daemon, k \in Recoverer :
       \/ t \in recoveries[d][k].current /\ status = recoveries[d][k].seen[t]
       \/ /\ recoveries[d][k].seen[t] \in {"completed", "failed"}
          /\ status = StatusOfJob(tasks[t], "failed")

(* Who comes to record a cancellation. *)
Records(t) ==
  \/ \E c \in Canceller : cancels'[t][c] = "flag"
  \/ \E d \in Daemon : /\ daemons[d] = "up" /\ ~IsRegistered(t, d)
                       /\ tasks[t].owner = d \/ daemons[tasks[t].owner] = "down"

(* What a step may do to the rows: nothing, or one transaction on one task.  *)
Transaction(t) ==
  \/ At(t, "admitted") /\ At(t, "created")' /\ CreateRow(t, controls[t].host)
  \/ At(t, "discard") /\ DeleteRow(t)
  \/ MarkStarted(t)
  \/ Records(t) /\ RecordCancel(t)
  \/ CompleteJob(t)
  \/ \E reason \in Reasons : FailJob(t, reason)
  \/ \E status \in Ends : Finishes(t, status) /\ FinishTask(t, status)
  \/ \E status \in {"failed", "cancelled"}, reason \in Reasons :
       FailTaskWithJob(t, status, reason)

(* Every transaction keeps the table well formed. *)
LEMMA TransactionType ==
  ASSUME tasks \in [Task -> Row], controls \in [Task -> ControlRecord],
         NEW t \in Task, Transaction(t)
  PROVE  tasks' \in [Task -> Row]
<1>. tasks[t] \in Row OBVIOUS
<1>0. /\ IsOpenTask(t) => tasks[t].status # "absent"
      /\ IsPending(t) => tasks[t].job # "absent"
  BY DEF IsOpenTask, IsPending
<1>1. CASE CreateRow(t, controls[t].host)
  <2>1. controls[t].host \in Daemon \union {NoDaemon} BY DEF ControlRecord
  <2>. QED BY <1>1, <2>1, NewRowType DEF CreateRow
<1>2. CASE DeleteRow(t)
  BY <1>2, NewRowType DEF DeleteRow
<1>3. CASE MarkStarted(t)
  <2>1. [tasks[t] EXCEPT !.status = "running", !.pid = TRUE] \in Row
    BY <1>0, <1>3, RowUpdates DEF MarkStarted, Ends
  <2>. QED BY <1>3, <2>1 DEF MarkStarted
<1>4. CASE RecordCancel(t)
  <2>1. [tasks[t] EXCEPT !.cancel = TRUE] \in Row
    BY <1>4, RowUpdates DEF RecordCancel, Ends
  <2>. QED BY <1>4, <2>1 DEF RecordCancel
<1>5. CASE CompleteJob(t)
  BY <1>0, <1>5, DecidedRowType DEF CompleteJob
<1>6. CASE \E reason \in Reasons : FailJob(t, reason)
  BY <1>0, <1>6, DecidedRowType DEF FailJob
<1>7. CASE \E status \in Ends : FinishTask(t, status)
  <2>1. PICK status \in Ends : FinishTask(t, status) BY <1>7
  <2>2. [tasks[t] EXCEPT !.status = status] \in Row
    BY <1>0, <2>1, RowUpdates DEF FinishTask
  <2>. QED BY <2>1, <2>2 DEF FinishTask
<1>8. CASE \E status \in {"failed", "cancelled"}, reason \in Reasons :
              FailTaskWithJob(t, status, reason)
  <2>1. PICK status \in {"failed", "cancelled"}, reason \in Reasons :
               FailTaskWithJob(t, status, reason)
    BY <1>8
  <2>0. status \in Ends BY DEF Ends
  <2>. DEFINE r == IF IsPending(t) THEN DecidedRow(tasks[t], "failed", reason) ELSE tasks[t]
  <2>2. r \in Row BY <1>0, DecidedRowType
  <2>3. StatusOfJob(r, status) \in Ends BY <2>0, StatusOfJobType
  <2>4. tasks' = [tasks EXCEPT ![t] =
                    IF IsOpenTask(t) THEN [r EXCEPT !.status = StatusOfJob(r, status)] ELSE r]
    BY <2>1 DEF FailTaskWithJob
  <2>5. r.status = tasks[t].status BY DEF DecidedRow, Row, TaskRecord
  <2>. HIDE DEF r
  <2>6. IsOpenTask(t) => [r EXCEPT !.status = StatusOfJob(r, status)] \in Row
    BY <1>0, <2>2, <2>3, <2>5, RowUpdates
  <2>. QED BY <2>2, <2>4, <2>6
<1>. QED BY <1>1, <1>2, <1>3, <1>4, <1>5, <1>6, <1>7, <1>8 DEF Transaction

-----------------------------------------------------------------------------
(* TypeOK is not inductive: the status a task is given must be known to be   *)
(* an end when the worker, or a recovery, comes to write it, and a recovery  *)
(* that follows a decided job must find one.                                 *)

(* The positions of a worker. *)
Pcs == {"none", "admitted", "created", "discard", "queued", "gated", "started",
        "waiting", "exited", "reaped", "closed", "unspawned", "unspawned_closed",
        "failing", "done"}

RowsOK       == tasks \in [Task -> Row]
ProcsOK      == procs \in [Task -> ProcRecord]
ControlsOK   == controls \in [Task -> ControlRecord]
WorkersOK    == /\ workers \in [Task -> WorkerRecord]
                /\ \A t \in Task : workers[t].pc \in {"reaped", "closed"} =>
                                     workers[t].result \in Ends
CancelsOK    == cancels \in [Task -> [Canceller -> {"idle", "intent", "lock", "save", "flag", "signal"}]]
DaemonsOK    == daemons \in [Daemon -> {"down", "starting", "up", "stopping"}]
ClosesLost(r) == \A t \in r.current : r.pc = "finish" /\ r.seen[t] \in {"lost", "cancelled"}
RecoveriesOK == /\ recoveries \in [Daemon -> [Recoverer -> RecoveryRecord]]
                /\ \A d \in Daemon, k \in Recoverer : ClosesLost(recoveries[d][k])

MemoryOK == /\ ProcsOK /\ ControlsOK /\ WorkersOK /\ CancelsOK /\ DaemonsOK
            /\ RecoveriesOK /\ stops \in Nat

TypeInv == RowsOK /\ MemoryOK

(* The steps of a worker in two groups, and those of a daemon. *)
WorkerStarts(t) ==
  \/ CreateTask(t) \/ SendStart(t) \/ WithdrawStart(t) \/ DiscardTask(t)
  \/ SpawnCancelled(t) \/ Spawn(t) \/ RecordStart(t) \/ ReleaseGate(t)
  \/ CancelBeforeRelease(t) \/ FailUnspawnedJob(t) \/ FinishUnspawned(t)

WorkerEnds(t) ==
  \/ ObserveExit(t) \/ TermForCancel(t) \/ TermForTimeout(t) \/ KillGroup(t)
  \/ Reap(t) \/ CloseJob(t) \/ FinishRun(t) \/ WorkerRefused(t) \/ Terminalize(t)

DaemonLife(d) == StartDaemon(d) \/ ExitDaemon(d) \/ DaemonNext(d)

(* The groups the lemmas below go by are all there is. *)
LEMMA NextParts ==
  Next <=> \/ \E t \in Task : \/ StartNext(t) \/ WorkerStarts(t) \/ WorkerEnds(t)
                                \/ ClientNext(t) \/ CancelNext(t) \/ WorldNext(t)
           \/ \E d \in Daemon : \/ DaemonLife(d)
                                  \/ \E k \in Recoverer : RecoveryNext(d, k)
BY Zenon DEF Next, WorkerNext, WorkerStarts, WorkerEnds, DaemonLife

(* What SIGKILL leaves of a process group. *)
LEMMA KilledType == ASSUME NEW p \in ProcRecord PROVE Killed(p) \in ProcRecord
BY DEF Killed, ProcRecord

(* A worker moves on; its result is known from "reaped" on. *)
LEMMA GotoType ==
  ASSUME WorkersOK, NEW t \in Task, NEW pc \in Pcs, workers' = Goto(t, pc),
         pc \in {"reaped", "closed"} => workers[t].result \in Ends
  PROVE  WorkersOK'
<1>1. [workers[t] EXCEPT !.pc = pc] \in WorkerRecord
  BY DEF WorkersOK, WorkerRecord, Pcs
<1>2. workers' = [workers EXCEPT ![t] = [workers[t] EXCEPT !.pc = pc]] BY DEF Goto
<1>3. [workers[t] EXCEPT !.pc = pc].pc = pc /\ [workers[t] EXCEPT !.pc = pc].result = workers[t].result
  BY DEF WorkersOK, WorkerRecord
<1>. QED BY <1>1, <1>2, <1>3 DEF WorkersOK

(* A request moves on. *)
LEMMA CancelGoesType ==
  ASSUME CancelsOK, NEW t \in Task, NEW c \in Canceller,
         NEW pos \in {"idle", "intent", "lock", "save", "flag", "signal"}, CancelGoes(t, c, pos)
  PROVE  CancelsOK'
BY DEF CancelsOK, CancelGoes

(* A recovery moves on. *)
LEMMA RecoveryGoesType ==
  ASSUME RecoveriesOK, NEW d \in Daemon, NEW k \in Recoverer, NEW r \in RecoveryRecord,
         ClosesLost(r), RecoveryGoes(d, k, r)
  PROVE  RecoveriesOK'
BY DEF RecoveriesOK, RecoveryGoes

(* A worker that leaves. *)
LEMMA LeavesType ==
  ASSUME ControlsOK, WorkersOK, NEW t \in Task, WorkerLeaves(t)
  PROVE  ControlsOK' /\ WorkersOK'
<1>1. WorkersOK' BY GotoType DEF WorkerLeaves, Pcs
<1>2. [controls[t] EXCEPT !.host = NoDaemon, !.gate = "free"] \in ControlRecord
  BY DEF ControlsOK, ControlRecord
<1>. QED BY <1>1, <1>2 DEF ControlsOK, WorkerLeaves

(* What a step that changes only some of the parts leaves alone. *)
LEMMA Untouched ==
  /\ UNCHANGED procs /\ ProcsOK => ProcsOK'
  /\ UNCHANGED controls /\ ControlsOK => ControlsOK'
  /\ UNCHANGED workers /\ WorkersOK => WorkersOK'
  /\ UNCHANGED cancels /\ CancelsOK => CancelsOK'
  /\ UNCHANGED daemons /\ DaemonsOK => DaemonsOK'
  /\ UNCHANGED recoveries /\ RecoveriesOK => RecoveriesOK'
BY DEF ProcsOK, ControlsOK, WorkersOK, CancelsOK, DaemonsOK, RecoveriesOK

(* An error of the worker. *)
LEMMA AbandonType ==
  ASSUME MemoryOK, NEW t \in Task, AbandonRun(t)
  PROVE  MemoryOK'
<1>. USE Untouched DEF MemoryOK
<1>1. ProcsOK' BY KilledType DEF AbandonRun, ProcsOK
<1>2. WorkersOK' BY GotoType DEF AbandonRun, Pcs
<1>3. [controls[t] EXCEPT !.gate = WorkerUnlocks(t),
                          !.process = IF HasChild(t) THEN "Completing" ELSE controls[t].process]
          \in ControlRecord
  BY DEF ControlsOK, ControlRecord, WorkerUnlocks
<1>4. ControlsOK' BY <1>3 DEF AbandonRun, ControlsOK
<1>. QED BY <1>1, <1>2, <1>4 DEF AbandonRun

(* Admission, and errors of the start and of the worker. *)
LEMMA StartType ==
  ASSUME MemoryOK, NEW t \in Task, StartNext(t)
  PROVE  MemoryOK'
<1>. USE Untouched DEF MemoryOK
<1>1. ASSUME NEW d \in Daemon, Admit(d, t) PROVE MemoryOK'
  <2>1. [NoControl EXCEPT !.host = d] \in ControlRecord
    BY DEF NoControl, ControlRecord
  <2>2. ControlsOK' BY <1>1, <2>1 DEF Admit, ControlsOK
  <2>3. WorkersOK' BY <1>1, GotoType DEF Admit, Pcs
  <2>. QED BY <1>1, <2>2, <2>3 DEF Admit
<1>2. CASE RefuseStart(t)
  BY <1>2, LeavesType DEF RefuseStart
<1>3. CASE WorkerFails(t)
  BY <1>3, AbandonType DEF WorkerFails
<1>4. CASE GiveUp(t)
  BY <1>4, LeavesType DEF GiveUp
<1>. QED BY ONLY <1>1, <1>2, <1>3, <1>4, StartNext(t) DEF StartNext

(* The worker, up to the release of the gate. *)
LEMMA WorkerStartType ==
  ASSUME MemoryOK, NEW t \in Task, WorkerStarts(t)
  PROVE  MemoryOK'
<1>. USE Untouched DEF MemoryOK
<1>1. CASE CreateTask(t)
  BY <1>1, GotoType DEF CreateTask, Pcs
<1>2. CASE SendStart(t)
  BY <1>2, GotoType DEF SendStart, Pcs
<1>3. CASE WithdrawStart(t)
  <2>1. [controls[t] EXCEPT !.host = NoDaemon] \in ControlRecord
    BY DEF ControlsOK, ControlRecord
  <2>2. ControlsOK' BY <1>3, <2>1 DEF WithdrawStart, ControlsOK
  <2>3. WorkersOK' BY <1>3, GotoType DEF WithdrawStart, Pcs
  <2>. QED BY <1>3, <2>2, <2>3 DEF WithdrawStart
<1>4. CASE DiscardTask(t)
  BY <1>4, GotoType DEF DiscardTask, Pcs
<1>5. CASE SpawnCancelled(t)
  <2>1. [controls[t] EXCEPT !.gate = "worker"] \in ControlRecord
    BY DEF ControlsOK, ControlRecord
  <2>2. ControlsOK' BY <1>5, <2>1 DEF SpawnCancelled, ControlsOK
  <2>3. WorkersOK' BY <1>5, GotoType DEF SpawnCancelled, Pcs
  <2>. QED BY <1>5, <2>2, <2>3 DEF SpawnCancelled
<1>6. CASE Spawn(t)
  <2>1. [controls[t] EXCEPT !.gate = "worker", !.process = "Running"] \in ControlRecord
    BY DEF ControlsOK, ControlRecord
  <2>2. ControlsOK' BY <1>6, <2>1 DEF Spawn, ControlsOK
  <2>3. WorkersOK' BY <1>6, GotoType DEF Spawn, Pcs
  <2>4. ProcsOK' BY <1>6 DEF Spawn, ProcsOK, ProcRecord
  <2>. QED BY <1>6, <2>2, <2>3, <2>4 DEF Spawn
<1>7. CASE RecordStart(t)
  <2>1. [controls[t] EXCEPT !.gate = "free"] \in ControlRecord
    BY DEF ControlsOK, ControlRecord
  <2>2. ControlsOK' BY <1>7, <2>1 DEF RecordStart, ControlsOK
  <2>3. WorkersOK' BY <1>7, GotoType DEF RecordStart, Pcs
  <2>. QED BY <1>7, <2>2, <2>3 DEF RecordStart
<1>8. CASE ReleaseGate(t)
  <2>1. ProcsOK' BY <1>8 DEF ReleaseGate, ProcsOK, ProcRecord
  <2>. QED BY <1>8, <2>1, GotoType DEF ReleaseGate, Pcs
<1>9. CASE CancelBeforeRelease(t)
  <2>1. [controls[t] EXCEPT !.process = "Completing"] \in ControlRecord
    BY DEF ControlsOK, ControlRecord
  <2>2. ControlsOK' BY <1>9, <2>1 DEF CancelBeforeRelease, ControlsOK
  <2>3. WorkersOK' BY <1>9, GotoType DEF CancelBeforeRelease, Pcs
  <2>4. ProcsOK' BY <1>9, KilledType DEF CancelBeforeRelease, ProcsOK
  <2>. QED BY <1>9, <2>2, <2>3, <2>4 DEF CancelBeforeRelease
<1>10. CASE FailUnspawnedJob(t)
  BY <1>10, GotoType DEF FailUnspawnedJob, Pcs
<1>11. CASE FinishUnspawned(t)
  BY <1>11, LeavesType DEF FinishUnspawned
<1>. QED
  BY ONLY <1>1, <1>2, <1>3, <1>4, <1>5, <1>6, <1>7, <1>8, <1>9, <1>10, <1>11, WorkerStarts(t)
     DEF WorkerStarts

(* The worker, from the release of the gate. *)
LEMMA WorkerEndType ==
  ASSUME MemoryOK, NEW t \in Task, WorkerEnds(t)
  PROVE  MemoryOK'
<1>. USE Untouched DEF MemoryOK
<1>1. CASE ObserveExit(t)
  <2>. DEFINE cancelled == SeenCancelled(t)
              w == [workers[t] EXCEPT !.pc = "exited", !.cancelled = cancelled]
  <2>1. cancelled \in BOOLEAN BY DEF SeenCancelled
  <2>. HIDE DEF cancelled
  <2>2. w \in WorkerRecord /\ w.pc = "exited" BY <2>1 DEF WorkersOK, WorkerRecord
  <2>3. workers' = [workers EXCEPT ![t] = w] BY <1>1 DEF ObserveExit, cancelled
  <2>. HIDE DEF w
  <2>4. WorkersOK' BY <2>2, <2>3 DEF WorkersOK
  <2>. QED BY <1>1, <2>4 DEF ObserveExit
<1>2. CASE TermForCancel(t)
  <2>1. [controls[t] EXCEPT !.signal_sent = TRUE] \in ControlRecord
    BY DEF ControlsOK, ControlRecord
  <2>2. ControlsOK' BY <1>2, <2>1 DEF TermForCancel, Drains, ControlsOK
  <2>3. WorkersOK' BY <1>2 DEF TermForCancel, Drains, WorkersOK, WorkerRecord, At
  <2>. QED BY <1>2, <2>2, <2>3 DEF TermForCancel
<1>3. CASE TermForTimeout(t)
  <2>1. WorkersOK' BY <1>3 DEF TermForTimeout, Drains, WorkersOK, WorkerRecord, At
  <2>. QED BY <1>3, <2>1 DEF TermForTimeout
<1>4. CASE KillGroup(t)
  <2>1. ProcsOK' BY <1>4, KilledType DEF KillGroup, ProcsOK
  <2>. QED BY <1>4, <2>1 DEF KillGroup
<1>5. CASE Reap(t)
  <2>. DEFINE cancelled == SeenCancelled(t)
              result == ResultOf(t, cancelled)
              w == [workers[t] EXCEPT !.pc = "reaped", !.cancelled = cancelled, !.result = result]
  <2>1. cancelled \in BOOLEAN /\ result \in Ends
    BY DEF SeenCancelled, ResultOf, Ends
  <2>2. [controls[t] EXCEPT !.process = "Completing"] \in ControlRecord
    BY DEF ControlsOK, ControlRecord
  <2>3. ControlsOK' BY <1>5, <2>2 DEF Reap, ControlsOK
  <2>4. workers' = [workers EXCEPT ![t] = w] BY <1>5 DEF Reap
  <2>. HIDE DEF cancelled, result
  <2>5. w \in WorkerRecord /\ w.result \in Ends BY ZenonT(60), <2>1 DEF WorkersOK, WorkerRecord
  <2>. HIDE DEF w
  <2>6. WorkersOK' BY <2>4, <2>5 DEF WorkersOK
  <2>. QED BY <1>5, <2>3, <2>6 DEF Reap
<1>6. CASE CloseJob(t)
  BY <1>6, GotoType DEF CloseJob, Pcs, At, WorkersOK
<1>7. CASE FinishRun(t)
  BY <1>7, LeavesType DEF FinishRun
<1>8. CASE WorkerRefused(t)
  BY <1>8, AbandonType DEF WorkerRefused
<1>9. CASE Terminalize(t)
  BY <1>9, LeavesType DEF Terminalize
<1>. QED
  BY ONLY <1>1, <1>2, <1>3, <1>4, <1>5, <1>6, <1>7, <1>8, <1>9, WorkerEnds(t)
     DEF WorkerEnds

(* Requests. *)
LEMMA ClientType ==
  ASSUME MemoryOK, NEW t \in Task, ClientNext(t)
  PROVE  MemoryOK'
<1>. USE Untouched DEF MemoryOK
<1>1. CASE BeginCancel(t)
  BY <1>1, CancelGoesType DEF BeginCancel, Canceller
<1>2. CASE BeginStop(t)
  <2>1. [controls[t] EXCEPT !.blocked = TRUE] \in ControlRecord
    BY DEF ControlsOK, ControlRecord, ClientUnlocks
  <2>2. ControlsOK' BY <1>2, <2>1 DEF BeginStop, ControlsOK, RequestCancel
  <2>. QED BY <1>2, <2>2, CancelGoesType DEF BeginStop, Canceller
<1>3. CASE ForceStop(t)
  <2>1. [controls[t] EXCEPT !.blocked = TRUE, !.cancel_requested = TRUE] \in ControlRecord
    BY DEF ControlsOK, ControlRecord, ClientUnlocks
  <2>2. ControlsOK' BY <1>3, <2>1 DEF ForceStop, ControlsOK, RequestCancel
  <2>. QED BY <1>3, <2>2, CancelGoesType DEF ForceStop, Canceller
<1>4. ASSUME NEW c \in Canceller, CancelNotSaved(t, c) PROVE MemoryOK'
  <2>1. [controls[t] EXCEPT !.gate = ClientUnlocks(t, c)] \in ControlRecord
    BY DEF ControlsOK, ControlRecord, ClientUnlocks
  <2>2. ControlsOK' BY <1>4, <2>1 DEF CancelNotSaved, ControlsOK, RequestCancel
  <2>. QED BY <1>4, <2>2, CancelGoesType DEF CancelNotSaved, Canceller
<1>5. ASSUME NEW d \in Daemon, CancelUnregistered(d, t) PROVE MemoryOK'
  BY <1>5 DEF CancelUnregistered
<1>. QED BY ONLY <1>1, <1>2, <1>3, <1>4, <1>5, ClientNext(t) DEF ClientNext

(* Requests that go on. *)
LEMMA CancelType ==
  ASSUME MemoryOK, NEW t \in Task, CancelNext(t)
  PROVE  MemoryOK'
<1>. USE Untouched DEF MemoryOK
<1>1. CASE LookAtProcess(t)
  <2>1. PICK pos \in {"lock", "idle", "save"} : CancelGoes(t, "client", pos)
    <3>1. controls[t].process \in {"Pending", "Running", "Completing"}
      BY DEF ControlsOK, ControlRecord
    <3>2. CASE controls[t].process = "Pending" BY <1>1, <3>2 DEF LookAtProcess
    <3>3. CASE controls[t].process = "Completing" BY <1>1, <3>3 DEF LookAtProcess
    <3>4. CASE controls[t].process = "Running" BY <1>1, <3>4 DEF LookAtProcess
    <3>. QED BY <3>1, <3>2, <3>3, <3>4
  <2>. QED BY <1>1, <2>1, CancelGoesType DEF LookAtProcess, Canceller
<1>2. CASE LockSpawnGate(t)
  <2>1. [controls[t] EXCEPT !.gate = "client"] \in ControlRecord
    BY DEF ControlsOK, ControlRecord, ClientUnlocks
  <2>2. ControlsOK' BY <1>2, <2>1 DEF LockSpawnGate, ControlsOK, RequestCancel
  <2>. QED BY <1>2, <2>2, CancelGoesType DEF LockSpawnGate, Canceller
<1>3. ASSUME NEW c \in Canceller, SaveCancel(t, c) PROVE MemoryOK'
  BY <1>3, CancelGoesType DEF SaveCancel
<1>4. ASSUME NEW c \in Canceller, FlagCancel(t, c) PROVE MemoryOK'
  <2>1. [controls[t] EXCEPT !.blocked = TRUE, !.cancel_requested = TRUE] \in ControlRecord
    BY DEF ControlsOK, ControlRecord, ClientUnlocks
  <2>2. ControlsOK' BY <1>4, <2>1 DEF FlagCancel, ControlsOK, RequestCancel
  <2>. QED BY <1>4, <2>2, CancelGoesType DEF FlagCancel, Canceller
<1>5. ASSUME NEW c \in Canceller, SignalCancel(t, c) PROVE MemoryOK'
  <2>1. PICK sent \in BOOLEAN, kill \in BOOLEAN :
          /\ controls' = [controls EXCEPT ![t] = 
               [@ EXCEPT !.signal_sent = controls[t].signal_sent \/ sent,
                         !.gate = ClientUnlocks(t, c)]]
          /\ procs' = IF kill THEN [procs EXCEPT ![t] = Killed(@)] ELSE procs
    BY <1>5 DEF SignalCancel
  <2>. DEFINE flag == controls[t].signal_sent \/ sent
  <2>2. flag \in BOOLEAN OBVIOUS
  <2>3. controls' = [controls EXCEPT ![t] = [controls[t] EXCEPT !.signal_sent = flag,
                                                                !.gate = ClientUnlocks(t, c)]]
    BY <2>1
  <2>. HIDE DEF flag
  <2>4. [controls[t] EXCEPT !.signal_sent = flag, !.gate = ClientUnlocks(t, c)] \in ControlRecord
    BY <2>2 DEF ControlsOK, ControlRecord, ClientUnlocks
  <2>5. ControlsOK' BY <2>3, <2>4 DEF ControlsOK
  <2>6. ProcsOK' BY <2>1, KilledType DEF ProcsOK
  <2>. QED BY <1>5, <2>5, <2>6, CancelGoesType DEF SignalCancel
<1>. QED BY ONLY <1>1, <1>2, <1>3, <1>4, <1>5, CancelNext(t) DEF CancelNext

(* A new recovery, and one that chose its owners. *)
LEMMA NewRecoveryType ==
  ASSUME NEW owners \in SUBSET Daemon, NEW pc \in {"idle", "signal", "owners", "select", "fail", "finish"}
  PROVE  /\ NoRecovery \in RecoveryRecord /\ ClosesLost(NoRecovery)
         /\ [NoRecovery EXCEPT !.pc = pc, !.owners = owners] \in RecoveryRecord
         /\ ClosesLost([NoRecovery EXCEPT !.pc = pc, !.owners = owners])
BY DEF NoRecovery, RecoveryRecord, ClosesLost

(* The owners a recovery may look after. *)
LEMMA RecoverableType == ASSUME NEW d \in Daemon PROVE Recoverable(d) \in SUBSET Daemon
BY DEF Recoverable

(* The end of a daemon. *)
LEMMA DaemonEndsType ==
  ASSUME MemoryOK, NEW d \in Daemon, DaemonEnds(d), stops' \in Nat
  PROVE  MemoryOK'
<1>1. ProcsOK' BY KilledType DEF DaemonEnds, MemoryOK, ProcsOK
<1>2. ControlsOK'
  <2>1. NoControl \in ControlRecord BY DEF NoControl, ControlRecord
  <2>. QED BY <2>1 DEF DaemonEnds, MemoryOK, ControlsOK
<1>3. WorkersOK'
  <2>1. [NoWorker EXCEPT !.pc = "done"] \in WorkerRecord /\ [NoWorker EXCEPT !.pc = "done"].pc = "done"
    BY DEF NoWorker, WorkerRecord
  <2>. QED BY <2>1 DEF DaemonEnds, MemoryOK, WorkersOK
<1>4. CancelsOK' BY DEF DaemonEnds, MemoryOK, CancelsOK, NoCancel
<1>5. DaemonsOK' BY DEF DaemonEnds, MemoryOK, DaemonsOK
<1>6. RecoveriesOK'
  <2>1. NoRecovery \in RecoveryRecord /\ ClosesLost(NoRecovery)
    BY DEF NoRecovery, RecoveryRecord, ClosesLost
  <2>. QED BY <2>1 DEF DaemonEnds, MemoryOK, RecoveriesOK
<1>. QED BY <1>1, <1>2, <1>3, <1>4, <1>5, <1>6 DEF MemoryOK

(* The life of a daemon. *)
LEMMA DaemonType ==
  ASSUME MemoryOK, NEW d \in Daemon, DaemonLife(d)
  PROVE  MemoryOK'
<1>. USE Untouched DEF MemoryOK
<1>1. CASE StartDaemon(d)
  <2>1. [NoRecovery EXCEPT !.pc = "signal", !.owners = Recoverable(d)] \in RecoveryRecord
    BY NewRecoveryType, RecoverableType
  <2>2. ClosesLost([NoRecovery EXCEPT !.pc = "signal", !.owners = Recoverable(d)])
    BY NewRecoveryType, RecoverableType
  <2>3. RecoveriesOK'
    BY <1>1, <2>1, <2>2, DaemonAssumption, RecoveryGoesType DEF StartDaemon, RecoveryGoes
  <2>. QED BY <1>1, <2>3 DEF StartDaemon, DaemonsOK
<1>2. CASE StopDaemon(d) BY <1>2 DEF StopDaemon, DaemonsOK
<1>3. CASE Crash(d) BY <1>3, DaemonEndsType DEF Crash
<1>4. CASE ExitDaemon(d) BY <1>4, DaemonEndsType DEF ExitDaemon
<1>. QED BY ONLY <1>1, <1>2, <1>3, <1>4, DaemonLife(d) DEF DaemonLife, DaemonNext

(* A recovery that is through with a task. *)
LEMMA ForgetType ==
  ASSUME NEW r \in RecoveryRecord, NEW t \in Task
  PROVE  Forget(r, t) \in RecoveryRecord /\ ClosesLost(Forget(r, t))
<1>. DEFINE seen == [r.seen EXCEPT ![t] = "none"]
<1>1. seen \in [Task -> {"none", "lost", "cancelled", "completed", "failed"}]
  BY DEF RecoveryRecord
<1>2. Forget(r, t) = [r EXCEPT !.pc = "fail", !.seen = seen, !.current = {}]
  BY DEF Forget, RecoveryRecord
<1>. HIDE DEF seen
<1>. QED BY <1>1, <1>2 DEF RecoveryRecord, ClosesLost

(* Recoveries. *)
LEMMA RecoveryType ==
  ASSUME MemoryOK, RowsOK, NEW d \in Daemon, NEW k \in Recoverer, RecoveryNext(d, k)
  PROVE  MemoryOK'
<1>. USE Untouched DEF MemoryOK
<1>. DEFINE r == recoveries[d][k]
<1>r. r \in RecoveryRecord /\ ClosesLost(r) BY DEF RecoveriesOK
<1>. HIDE DEF r
<1>1. CASE BeginRecovery(d, k)
  <2>1. [NoRecovery EXCEPT !.pc = "signal", !.owners = Recoverable(d)] \in RecoveryRecord
    BY NewRecoveryType, RecoverableType
  <2>2. ClosesLost([NoRecovery EXCEPT !.pc = "signal", !.owners = Recoverable(d)])
    BY NewRecoveryType, RecoverableType
  <2>. QED BY <1>1, <2>1, <2>2, RecoveryGoesType DEF BeginRecovery
<1>2. CASE SignalLost(d, k)
  <2>0. r.current = {}
    BY <1>2, <1>r DEF SignalLost, Recovery, r, RecoveryRecord, ClosesLost
  <2>1. PICK pc \in {"select", "owners"} : RecoveryGoes(d, k, [r EXCEPT !.pc = pc])
    BY <1>2 DEF SignalLost, Recovery, r
  <2>2. [r EXCEPT !.pc = pc] \in RecoveryRecord /\ ClosesLost([r EXCEPT !.pc = pc])
    BY <1>r, <2>0 DEF RecoveryRecord, ClosesLost
  <2>3. RecoveriesOK' BY <2>1, <2>2, RecoveryGoesType
  <2>4. ProcsOK' BY <1>2, KilledType DEF SignalLost, ProcsOK
  <2>. QED BY <1>2, <2>3, <2>4 DEF SignalLost
<1>3. CASE ChooseOwners(d, k)
  <2>0. r.current = {}
    BY <1>3, <1>r DEF ChooseOwners, Recovery, r, RecoveryRecord, ClosesLost
  <2>1. RecoveryGoes(d, k, [r EXCEPT !.pc = "select", !.owners = Recoverable(d)])
    BY <1>3 DEF ChooseOwners, Recovery, r
  <2>2. [r EXCEPT !.pc = "select", !.owners = Recoverable(d)] \in RecoveryRecord
    BY <1>3, <1>r, RecoverableType DEF RecoveryRecord
  <2>3. ClosesLost([r EXCEPT !.pc = "select", !.owners = Recoverable(d)])
    BY <1>r, <2>0, RecoverableType DEF RecoveryRecord, ClosesLost
  <2>. QED BY <1>3, <2>1, <2>2, <2>3, RecoveryGoesType DEF ChooseOwners
<1>4. CASE SelectLost(d, k)
  <2>. DEFINE seen == [t \in Task |-> Seen(t, r.owners)]
  <2>1. seen \in [Task -> {"none", "lost", "cancelled", "completed", "failed"}]
    BY <1>r DEF Seen, RowsOK, Row, TaskRecord, IsOpenTask, IsPending
  <2>2. RecoveryGoes(d, k, [r EXCEPT !.pc = "fail", !.seen = seen])
    BY <1>4 DEF SelectLost, Recovery, r
  <2>3. r.current = {}
    BY <1>4, <1>r DEF SelectLost, Recovery, r, RecoveryRecord, ClosesLost
  <2>. HIDE DEF seen
  <2>4. [r EXCEPT !.pc = "fail", !.seen = seen] \in RecoveryRecord
    BY <2>1, <1>r DEF RecoveryRecord
  <2>5. ClosesLost([r EXCEPT !.pc = "fail", !.seen = seen])
    BY <2>3, <1>r DEF RecoveryRecord, ClosesLost
  <2>. QED BY <1>4, <2>2, <2>4, <2>5, RecoveryGoesType DEF SelectLost
<1>5. ASSUME NEW t \in Task, SkipActive(d, k, t) PROVE MemoryOK'
  <2>1. RecoveryGoes(d, k, Forget(r, t)) BY <1>5 DEF SkipActive, Recovery, r
  <2>. QED BY <1>5, <2>1, ForgetType, <1>r, RecoveryGoesType DEF SkipActive
<1>6. ASSUME NEW t \in Task, FailLostJob(d, k, t) PROVE MemoryOK'
  <2>1. RecoveryGoes(d, k, [r EXCEPT !.pc = "finish", !.current = {t}])
    BY <1>6 DEF FailLostJob, Recovery, r
  <2>2. r.seen[t] \in {"lost", "cancelled"} BY <1>6 DEF FailLostJob, Recovery, r
  <2>3. [r EXCEPT !.pc = "finish", !.current = {t}] \in RecoveryRecord
    BY <1>r DEF RecoveryRecord
  <2>4. ClosesLost([r EXCEPT !.pc = "finish", !.current = {t}])
    BY <1>r, <2>2 DEF RecoveryRecord, ClosesLost
  <2>. QED BY <1>6, <2>1, <2>3, <2>4, RecoveryGoesType DEF FailLostJob
<1>7. ASSUME NEW t \in Task, FinishLostTask(d, k, t) PROVE MemoryOK'
  <2>1. RecoveryGoes(d, k, Forget(r, t)) BY <1>7 DEF FinishLostTask, Recovery, r
  <2>. QED BY <1>7, <2>1, ForgetType, <1>r, RecoveryGoesType DEF FinishLostTask
<1>8. ASSUME NEW t \in Task, SettleLostTask(d, k, t) PROVE MemoryOK'
  <2>1. RecoveryGoes(d, k, Forget(r, t)) BY <1>8 DEF SettleLostTask, Recovery, r
  <2>. QED BY <1>8, <2>1, ForgetType, <1>r, RecoveryGoesType DEF SettleLostTask
<1>9. CASE AbortRecovery(d, k)
  <2>1. RecoveriesOK' BY <1>9, NewRecoveryType, RecoveryGoesType DEF AbortRecovery
  <2>2. DaemonsOK' BY <1>9 DEF AbortRecovery, DaemonsOK
  <2>. QED BY <1>9, <2>1, <2>2 DEF AbortRecovery
<1>10. CASE EndRecovery(d, k)
  <2>1. RecoveriesOK' BY <1>10, NewRecoveryType, RecoveryGoesType DEF EndRecovery
  <2>2. DaemonsOK' BY <1>10 DEF EndRecovery, DaemonsOK
  <2>. QED BY <1>10, <2>1, <2>2 DEF EndRecovery
<1>. QED
  BY ONLY <1>1, <1>2, <1>3, <1>4, <1>5, <1>6, <1>7, <1>8, <1>9, <1>10, RecoveryNext(d, k)
     DEF RecoveryNext

(* The environment. *)
LEMMA WorldType ==
  ASSUME MemoryOK, NEW t \in Task, WorldNext(t)
  PROVE  MemoryOK'
<1>. USE Untouched DEF MemoryOK
<1>1. CASE LeaderExits(t)
  <2>1. ProcsOK' BY <1>1 DEF LeaderExits, ProcsOK, ProcRecord
  <2>. QED BY <1>1, <2>1 DEF LeaderExits
<1>2. CASE GroupEnds(t)
  <2>1. ProcsOK' BY <1>2, KilledType DEF GroupEnds, ProcsOK
  <2>. QED BY <1>2, <2>1 DEF GroupEnds
<1>3. CASE OperatorEndsJob(t)
  BY <1>3 DEF OperatorEndsJob
<1>. QED BY ONLY <1>1, <1>2, <1>3, WorldNext(t) DEF WorldNext

-----------------------------------------------------------------------------
(* Every step leaves the rows alone or is one transaction on one task, which *)
(* closes a task only with one of its ends.                                  *)
LEMMA RowsStep ==
  ASSUME TypeInv, [Next]_vars
  PROVE  UNCHANGED tasks \/ \E t \in Task : Transaction(t)
<1>. USE DEF TypeInv, MemoryOK
<1>1. ASSUME NEW t \in Task, StartNext(t)
      PROVE  UNCHANGED tasks
  BY <1>1 DEF StartNext, Admit, RefuseStart, WorkerFails, AbandonRun, GiveUp
<1>2. ASSUME NEW t \in Task, WorkerStarts(t)
      PROVE  UNCHANGED tasks \/ Transaction(t)
  <2>1. Goto(t, "created")[t].pc = "created" BY DEF Goto, WorkersOK, WorkerRecord
  <2>2. CASE CreateTask(t) BY <2>1, <2>2 DEF CreateTask, Transaction, At
  <2>3. CASE DiscardTask(t) BY <2>3 DEF DiscardTask, Transaction
  <2>4. CASE RecordStart(t) BY <2>4 DEF RecordStart, Transaction
  <2>5. CASE FailUnspawnedJob(t) BY <2>5 DEF FailUnspawnedJob, Transaction, Reasons
  <2>6. CASE FinishUnspawned(t)
    BY <2>6 DEF FinishUnspawned, Transaction, Finishes, Ends
  <2>7. CASE SendStart(t) \/ WithdrawStart(t) \/ SpawnCancelled(t) \/ Spawn(t) \/ ReleaseGate(t)
              \/ CancelBeforeRelease(t)
    BY <2>7 DEF SendStart, WithdrawStart, SpawnCancelled, Spawn, ReleaseGate, CancelBeforeRelease
  <2>. QED BY <1>2, <2>2, <2>3, <2>4, <2>5, <2>6, <2>7 DEF WorkerStarts
<1>3. ASSUME NEW t \in Task, WorkerEnds(t)
      PROVE  UNCHANGED tasks \/ Transaction(t)
  <2>1. At(t, "reaped") \/ At(t, "closed") => workers[t].result \in Ends
    BY DEF WorkersOK, At
  <2>2. CASE CloseJob(t)
    <3>1. workers[t].result \in Ends BY <2>1, <2>2 DEF CloseJob
    <3>2. workers[t].result # "succeeded" => workers[t].result \in Reasons
      BY <3>1 DEF Ends, Reasons
    <3>. QED BY <2>2, <3>2 DEF CloseJob, Transaction
  <2>3. CASE FinishRun(t) BY <2>1, <2>3 DEF FinishRun, Transaction, Finishes
  <2>4. CASE Terminalize(t) BY <2>4 DEF Terminalize, Transaction, Ends, Reasons
  <2>5. CASE ObserveExit(t) \/ TermForCancel(t) \/ TermForTimeout(t) \/ KillGroup(t) \/ Reap(t)
              \/ WorkerRefused(t)
    BY <2>5 DEF ObserveExit, TermForCancel, TermForTimeout, Drains, KillGroup, Reap, WorkerRefused, AbandonRun
  <2>. QED BY <1>3, <2>2, <2>3, <2>4, <2>5 DEF WorkerEnds
<1>4. ASSUME NEW t \in Task, ClientNext(t) \/ CancelNext(t)
      PROVE  UNCHANGED tasks \/ Transaction(t)
  <2>1. CASE \E d \in Daemon : CancelUnregistered(d, t)
    BY <2>1 DEF CancelUnregistered, Transaction, Records
  <2>2. CASE \E c \in Canceller : SaveCancel(t, c)
    BY <2>2 DEF SaveCancel, CancelGoes, CancelsOK, Transaction, Records
  <2>3. CASE BeginCancel(t) \/ BeginStop(t) \/ ForceStop(t) \/ LookAtProcess(t) \/ LockSpawnGate(t)
    BY <2>3 DEF BeginCancel, BeginStop, ForceStop, LookAtProcess, LockSpawnGate
  <2>4. CASE \E c \in Canceller : CancelNotSaved(t, c) \/ FlagCancel(t, c) \/ SignalCancel(t, c)
    BY <2>4 DEF CancelNotSaved, FlagCancel, SignalCancel
  <2>. QED BY <1>4, <2>1, <2>2, <2>3, <2>4 DEF ClientNext, CancelNext
<1>5. ASSUME NEW t \in Task, WorldNext(t)
      PROVE  UNCHANGED tasks \/ Transaction(t)
  BY <1>5 DEF WorldNext, LeaderExits, GroupEnds, OperatorEndsJob, Transaction, Reasons
<1>6. ASSUME NEW d \in Daemon, DaemonLife(d)
      PROVE  UNCHANGED tasks
  BY <1>6 DEF DaemonLife, DaemonNext, StartDaemon, ExitDaemon, StopDaemon, Crash, DaemonEnds
<1>7. ASSUME NEW d \in Daemon, NEW k \in Recoverer, RecoveryNext(d, k)
      PROVE  UNCHANGED tasks \/ \E t \in Task : Transaction(t)
  <2>1. ASSUME NEW t \in Task, FailLostJob(d, k, t) PROVE Transaction(t)
    BY <2>1 DEF FailLostJob, Transaction, Reasons
  <2>2. ASSUME NEW t \in Task, FinishLostTask(d, k, t) PROVE Transaction(t)
    <3>1. Recovery(d, k).seen[t] \in {"lost", "cancelled"}
      BY <2>2 DEF FinishLostTask, RecoveriesOK, ClosesLost, Recovery
    <3>. QED BY <2>2, <3>1 DEF FinishLostTask, Transaction, Finishes, Recovery, Ends
  <2>3. ASSUME NEW t \in Task, SettleLostTask(d, k, t) PROVE Transaction(t)
    <3>1. StatusOfJob(tasks[t], "failed") \in Ends BY StatusOfJobType DEF Ends
    <3>. QED BY <2>3, <3>1 DEF SettleLostTask, Transaction, Finishes, Recovery
  <2>4. CASE BeginRecovery(d, k) \/ SignalLost(d, k) \/ ChooseOwners(d, k) \/ SelectLost(d, k)
              \/ AbortRecovery(d, k) \/ EndRecovery(d, k)
    BY <2>4 DEF BeginRecovery, SignalLost, ChooseOwners, SelectLost, AbortRecovery, EndRecovery
  <2>5. ASSUME NEW t \in Task, SkipActive(d, k, t) PROVE UNCHANGED tasks
    BY <2>5 DEF SkipActive
  <2>. QED BY <1>7, <2>1, <2>2, <2>3, <2>4, <2>5 DEF RecoveryNext
<1>8. CASE UNCHANGED vars BY <1>8 DEF vars
<1>. QED
  BY <1>1, <1>2, <1>3, <1>4, <1>5, <1>6, <1>7, <1>8, NextParts

(* The type invariant is inductive. *)
LEMMA TypeInvStep ==
  ASSUME TypeInv, [Next]_vars PROVE TypeInv'
<1>1. RowsOK'
  BY RowsStep, TransactionType DEF TypeInv, MemoryOK, ControlsOK, RowsOK
<1>2. MemoryOK'
  <2>1. RowsOK /\ MemoryOK BY DEF TypeInv
  <2>2. CASE UNCHANGED vars BY <2>1, <2>2, Untouched DEF vars, MemoryOK
  <2>. QED
    BY <2>1, <2>2, StartType, WorkerStartType, WorkerEndType, ClientType, CancelType, WorldType,
       DaemonType, RecoveryType, NextParts
<1>. QED BY <1>1, <1>2 DEF TypeInv

(* The initial state has the invariant. *)
LEMMA TypeInvInit == Init => TypeInv
<1>. SUFFICES ASSUME Init PROVE TypeInv OBVIOUS
<1>1. RowsOK BY NewRowType DEF Init, RowsOK
<1>2. ProcsOK /\ ControlsOK
  BY DEF Init, ProcsOK, ControlsOK, NoProc, ProcRecord, NoControl, ControlRecord
<1>3. WorkersOK /\ CancelsOK
  BY DEF Init, WorkersOK, CancelsOK, NoWorker, WorkerRecord, NoCancel
<1>4. DaemonsOK /\ RecoveriesOK BY NewRecoveryType DEF Init, DaemonsOK, RecoveriesOK
<1>. QED BY <1>1, <1>2, <1>3, <1>4 DEF Init, TypeInv, MemoryOK

(* Every variable keeps its type: rows, processes, controls, workers, cancel *)
(* requests, daemons and recoveries, whatever their number (MCTask checks    *)
(* the same on one instance).                                                *)
THEOREM TypeCorrect == Spec => []TypeOK
<1>1. TypeInv => TypeOK
  BY DEF TypeInv, MemoryOK, TypeOK, RowsOK, Row, ProcsOK, ControlsOK, WorkersOK, CancelsOK,
     DaemonsOK, RecoveriesOK
<1>. QED BY <1>1, TypeInvInit, TypeInvStep, PTL DEF Spec

(***************************************************************************)
(* The outcome of a task and of its job.                                   *)
(***************************************************************************)

(* A status that agrees with the outcome of a job. *)
Agrees(r, status) ==
  /\ r.job \in {"completed", "failed"}
  /\ status = "succeeded" <=> r.job = "completed"
  /\ r.reason \in Ends => status = r.reason

IsDecided(t) == tasks[t].job \in {"completed", "failed"}

(* One batch for a decided job, a reason only for a failed one, and an ended *)
(* task that agrees with its job.                                            *)
RowFine(r) ==
  /\ r.batches = IF r.job \in {"completed", "failed"} THEN 1 ELSE 0
  /\ r.job # "failed" => r.reason = "none"
  /\ r.status \in Ends => Agrees(r, r.status)

RowsFine == \A t \in Task : RowFine(tasks[t])

(* Nothing is in the store for a task that was not created yet. *)
Fresh == \A t \in Task : workers[t].pc \in {"none", "admitted"} => tasks[t].status = "absent"

(* Between the two transactions of a worker, of a recovery, the job is       *)
(* decided in agreement with what is going to be written to the task.        *)
WorkerCloses == \A t \in Task :
  /\ At(t, "closed") => Agrees(tasks[t], workers[t].result)
  /\ At(t, "unspawned_closed") => Agrees(tasks[t], "cancelled")
RecoveryCloses == \A d \in Daemon, k \in Recoverer, t \in Task :
  /\ t \in recoveries[d][k].current => Agrees(tasks[t], recoveries[d][k].seen[t])
  /\ recoveries[d][k].seen[t] \in {"completed", "failed"} => IsDecided(t)

CloseInv == RowsFine /\ Fresh /\ WorkerCloses /\ RecoveryCloses

(* Deciding a pending job leaves a good row, of a task that is not ended.    *)
LEMMA DecidedRowFine ==
  ASSUME NEW r \in Row, RowFine(r), r.job = "pending",
         NEW job \in {"completed", "failed"}, NEW reason \in Reasons \union {"none"},
         job = "completed" <=> reason = "none"
  PROVE  LET q == DecidedRow(r, job, reason)
         IN  /\ RowFine(q) /\ q.job = job /\ q.reason = reason /\ q.status = r.status
             /\ q.status \notin Ends
<1>. DEFINE q == DecidedRow(r, job, reason)
<1>1. r.batches = 0 /\ r.status \notin Ends BY DEF RowFine, Agrees
<1>2. q.batches = r.batches + 1 /\ q.job = job /\ q.reason = reason /\ q.status = r.status
  BY DEF DecidedRow, Row, TaskRecord
<1>3. q.batches = 1 BY <1>1, <1>2
<1>. HIDE DEF q
<1>. QED BY <1>1, <1>2, <1>3 DEF RowFine, q

(* task_status_for_supervised_job_terminal agrees with the job it looks at.  *)
LEMMA StatusAgrees ==
  ASSUME NEW r \in Row, RowFine(r), r.job \in {"completed", "failed"},
         NEW fallback \in {"failed", "cancelled"}
  PROVE  Agrees(r, StatusOfJob(r, fallback))
BY DEF Agrees, StatusOfJob, StatusOfReason, RowFine, Row, TaskRecord, Reasons, Ends

(* A transaction leaves a good row, does not change a decided job, and does  *)
(* not create a row except that of the task being admitted.                  *)
LEMMA TransactionFine ==
  ASSUME TypeInv, CloseInv, NEW t \in Task, Transaction(t)
  PROVE  /\ RowFine(tasks[t]')
         /\ IsDecided(t) => tasks[t]'.job = tasks[t].job /\ tasks[t]'.reason = tasks[t].reason
         /\ tasks[t].status = "absent" => tasks[t]'.status = "absent" \/ At(t, "created")'
         /\ \A u \in Task \ {t} : tasks[u]' = tasks[u]
<1>. USE DEF IsDecided
<1>0. /\ tasks[t] \in Row /\ RowFine(tasks[t]) /\ tasks \in [Task -> Row]
      /\ tasks[t] \in TaskRecord
      /\ controls[t].host \in Daemon \union {NoDaemon}
  BY DEF TypeInv, RowsOK, CloseInv, RowsFine, Row, MemoryOK, ControlsOK, ControlRecord
<1>1. CASE At(t, "admitted") /\ At(t, "created")' /\ CreateRow(t, controls[t].host)
  <2>1. tasks[t].job = "absent"
    BY <1>0, <1>1 DEF CloseInv, Fresh, At, Row
  <2>. DEFINE q == [NoTask EXCEPT !.job = "pending", !.status = "queued", !.owner = controls[t].host]
  <2>2. RowFine(q) BY DEF NoTask, RowFine, Ends
  <2>3. tasks[t]' = q /\ \A u \in Task \ {t} : tasks[u]' = tasks[u]
    BY <1>0, <1>1 DEF CreateRow
  <2>. HIDE DEF q
  <2>. QED BY <1>1, <2>1, <2>2, <2>3
<1>2. CASE At(t, "discard") /\ DeleteRow(t)
  BY <1>0, <1>2 DEF DeleteRow, NoTask, RowFine, Ends, IsPending
<1>3. CASE MarkStarted(t)
  BY <1>0, <1>3 DEF MarkStarted, IsOpenTask, RowFine, Ends, Agrees, TaskRecord
<1>4. CASE RecordCancel(t)
  BY <1>0, <1>4 DEF RecordCancel, IsOpenTask, RowFine, Ends, Agrees, TaskRecord
<1>5. CASE CompleteJob(t)
  BY <1>0, <1>5, DecidedRowFine DEF CompleteJob, IsPending, Reasons, Row
<1>6. CASE \E reason \in Reasons : FailJob(t, reason)
  BY <1>0, <1>6, DecidedRowFine DEF FailJob, IsPending, Reasons, Row
<1>7. CASE \E status \in Ends : Finishes(t, status) /\ FinishTask(t, status)
  <2>1. PICK status \in Ends : Finishes(t, status) /\ FinishTask(t, status) BY <1>7
  <2>2. Agrees(tasks[t], status)
    <3>1. CASE \E d \in Daemon, k \in Recoverer :
                 /\ recoveries[d][k].seen[t] \in {"completed", "failed"}
                 /\ status = StatusOfJob(tasks[t], "failed")
      <4>1. IsDecided(t) BY <3>1 DEF CloseInv, RecoveryCloses
      <4>. QED BY <1>0, <3>1, <4>1, StatusAgrees
    <3>2. CASE \E d \in Daemon, k \in Recoverer :
                 t \in recoveries[d][k].current /\ status = recoveries[d][k].seen[t]
      BY <3>2 DEF CloseInv, RecoveryCloses
    <3>3. CASE \/ At(t, "closed") /\ status = workers[t].result
               \/ At(t, "unspawned_closed") /\ status = "cancelled"
      BY <3>3 DEF CloseInv, WorkerCloses
    <3>. QED BY <2>1, <3>1, <3>2, <3>3 DEF Finishes
  <2>3. tasks' = [tasks EXCEPT ![t] = [tasks[t] EXCEPT !.status = status]] /\ IsOpenTask(t)
    BY <1>0, <2>1 DEF FinishTask
  <2>. DEFINE q == [tasks[t] EXCEPT !.status = status]
  <2>4. /\ q.status = status /\ q.job = tasks[t].job /\ q.reason = tasks[t].reason
        /\ q.batches = tasks[t].batches
    BY <1>0 DEF TaskRecord
  <2>5. tasks[t]' = q /\ \A u \in Task \ {t} : tasks[u]' = tasks[u] BY <1>0, <2>3
  <2>. HIDE DEF q
  <2>6. RowFine(q) BY <1>0, <2>2, <2>4 DEF RowFine, Agrees
  <2>. QED BY <2>3, <2>4, <2>5, <2>6 DEF IsOpenTask
<1>8. CASE \E status \in {"failed", "cancelled"}, reason \in Reasons :
              FailTaskWithJob(t, status, reason)
  <2>1. PICK status \in {"failed", "cancelled"}, reason \in Reasons :
               FailTaskWithJob(t, status, reason)
    BY <1>8
  <2>. DEFINE r == IF IsPending(t) THEN DecidedRow(tasks[t], "failed", reason) ELSE tasks[t]
              q == [r EXCEPT !.status = StatusOfJob(r, status)]
  <2>2. /\ r \in Row /\ RowFine(r) /\ r.status = tasks[t].status
        /\ IsDecided(t) => r = tasks[t]
        /\ r.job \in {"completed", "failed"} \/ r.job = "absent"
    BY <1>0, DecidedRowFine, DecidedRowType DEF IsPending, Reasons, Row, TaskRecord
  <2>3. tasks[t]' = (IF IsOpenTask(t) THEN q ELSE r) /\ \A u \in Task \ {t} : tasks[u]' = tasks[u]
    BY <1>0, <2>1 DEF FailTaskWithJob
  <2>. HIDE DEF r
  <2>4. /\ q.status = StatusOfJob(r, status) /\ q.job = r.job /\ q.reason = r.reason
        /\ q.batches = r.batches
    BY <2>2 DEF Row, TaskRecord
  <2>. HIDE DEF q
  <2>5. ASSUME IsOpenTask(t) PROVE RowFine(q)
    <3>1. r.job \in {"completed", "failed"} BY <2>2, <2>5 DEF IsOpenTask, Row
    <3>2. Agrees(r, q.status) BY <2>2, <2>4, <3>1, StatusAgrees
    <3>. QED BY <2>2, <2>4, <3>2 DEF RowFine, Agrees
  <2>. QED BY <2>2, <2>3, <2>4, <2>5 DEF IsOpenTask
<1>. QED
  BY <1>1, <1>2, <1>3, <1>4, <1>5, <1>6, <1>7, <1>8 DEF Transaction

(* What a step may do to the workers, as far as their position goes. *)
Moves(t) ==
  \/ At(t, "none") /\ workers' = Goto(t, "admitted")
  \/ CloseJob(t)
  \/ FailUnspawnedJob(t)
  \/ Reap(t)
  \/ \E pc \in Pcs \ {"none", "admitted", "reaped", "closed", "unspawned_closed"} :
       workers' = Goto(t, pc)
  \/ /\ workers[t]'.pc \in {"waiting", "exited"}
     /\ \A u \in Task \ {t} : workers[u]' = workers[u]

(* These are all the ways in which workers move. *)
LEMMA WorkersStep ==
  ASSUME TypeInv, [Next]_vars
  PROVE  \/ UNCHANGED workers
         \/ \E t \in Task : Moves(t)
         \/ \E d \in Daemon : DaemonEnds(d)
<1>. DEFINE Later == Pcs \ {"none", "admitted", "reaped", "closed", "unspawned_closed"}
<1>0. /\ workers \in [Task -> WorkerRecord]
      /\ {"created", "queued", "gated", "started", "waiting", "discard", "unspawned", "failing",
          "done"} \subseteq Later
  BY DEF TypeInv, MemoryOK, WorkersOK, Pcs
<1>m. ASSUME NEW t \in Task, NEW pc \in Later, workers' = Goto(t, pc) PROVE Moves(t)
  BY <1>m DEF Moves
<1>. HIDE DEF Later
<1>1. ASSUME NEW t \in Task, StartNext(t) PROVE Moves(t)
  <2>1. ASSUME NEW d \in Daemon, Admit(d, t) PROVE Moves(t) BY <2>1 DEF Admit, Moves
  <2>2. CASE RefuseStart(t) \/ WorkerFails(t) \/ GiveUp(t)
    BY <1>0, <1>m, <2>2 DEF RefuseStart, WorkerFails, AbandonRun, GiveUp, WorkerLeaves
  <2>. QED BY <1>1, <2>1, <2>2 DEF StartNext
<1>2. ASSUME NEW t \in Task, WorkerStarts(t) PROVE Moves(t)
  <2>1. CASE FailUnspawnedJob(t) BY <2>1 DEF Moves
  <2>2. CASE CreateTask(t) \/ SendStart(t) \/ WithdrawStart(t) \/ DiscardTask(t) \/ SpawnCancelled(t)
    BY <1>0, <1>m, <2>2 DEF CreateTask, SendStart, WithdrawStart, DiscardTask, SpawnCancelled
  <2>3. CASE \/ Spawn(t) \/ RecordStart(t) \/ ReleaseGate(t) \/ CancelBeforeRelease(t)
             \/ FinishUnspawned(t)
    BY <1>0, <1>m, <2>3
       DEF Spawn, RecordStart, ReleaseGate, CancelBeforeRelease, FinishUnspawned, WorkerLeaves
  <2>. QED BY <1>2, <2>1, <2>2, <2>3 DEF WorkerStarts
<1>3. ASSUME NEW t \in Task, WorkerEnds(t) PROVE UNCHANGED workers \/ Moves(t)
  <2>1. CASE CloseJob(t) BY <2>1 DEF Moves
  <2>2. CASE WorkerRefused(t) \/ FinishRun(t) \/ Terminalize(t)
    BY <1>0, <1>m, <2>2 DEF WorkerRefused, AbandonRun, FinishRun, Terminalize, WorkerLeaves
  <2>3. CASE ObserveExit(t) BY <1>0, <2>3 DEF ObserveExit, Moves, WorkerRecord
  <2>4. CASE TermForCancel(t)
    BY <1>0, <2>4 DEF TermForCancel, Drains, Moves, WorkerRecord, At
  <2>5. CASE TermForTimeout(t)
    BY <1>0, <2>5 DEF TermForTimeout, Drains, Moves, WorkerRecord, At
  <2>6. CASE Reap(t) BY <2>6 DEF Moves
  <2>7. CASE KillGroup(t) BY <2>7 DEF KillGroup
  <2>. QED BY <1>3, <2>1, <2>2, <2>3, <2>4, <2>5, <2>6, <2>7 DEF WorkerEnds
<1>4. ASSUME NEW t \in Task, ClientNext(t) \/ CancelNext(t) \/ WorldNext(t) PROVE UNCHANGED workers
  BY <1>4 DEF ClientNext, BeginCancel, BeginStop, ForceStop, CancelNotSaved, CancelUnregistered,
       CancelNext, LookAtProcess, LockSpawnGate, SaveCancel, FlagCancel, SignalCancel,
       WorldNext, LeaderExits, GroupEnds, OperatorEndsJob
<1>5. ASSUME NEW d \in Daemon, DaemonLife(d) PROVE UNCHANGED workers \/ DaemonEnds(d)
  BY <1>5 DEF DaemonLife, DaemonNext, StartDaemon, ExitDaemon, StopDaemon, Crash
<1>6. ASSUME NEW d \in Daemon, NEW k \in Recoverer, RecoveryNext(d, k) PROVE UNCHANGED workers
  BY <1>6 DEF RecoveryNext, BeginRecovery, SignalLost, ChooseOwners, SelectLost, SkipActive,
       FailLostJob, FinishLostTask, SettleLostTask, AbortRecovery, EndRecovery
<1>7. CASE UNCHANGED vars BY <1>7 DEF vars
<1>. QED BY <1>1, <1>2, <1>3, <1>4, <1>5, <1>6, <1>7, NextParts

(* How a worker comes to where it closes its task. *)
LEMMA PcHistory ==
  ASSUME TypeInv, [Next]_vars, NEW t \in Task
  PROVE  /\ workers[t]'.pc \in {"none", "admitted"} => workers[t].pc \in {"none", "admitted"}
         /\ At(t, "closed")' => /\ At(t, "closed") \/ CloseJob(t)
                               /\ workers[t]'.result = workers[t].result
         /\ At(t, "unspawned_closed")' => At(t, "unspawned_closed") \/ FailUnspawnedJob(t)
         /\ At(t, "reaped")' => UNCHANGED workers[t] \/ Reap(t)
<1>0. workers \in [Task -> WorkerRecord] BY DEF TypeInv, MemoryOK, WorkersOK
<1>1. ASSUME NEW u \in Task, NEW pc \in Pcs, workers' = Goto(u, pc)
      PROVE  /\ workers[u]'.pc = pc /\ workers[u]'.result = workers[u].result
             /\ \A v \in Task \ {u} : workers[v]' = workers[v]
  BY <1>0, <1>1 DEF Goto, WorkerRecord, Pcs
<1>2. ASSUME NEW u \in Task, Moves(u)
      PROVE  \/ workers[t]' = workers[t]
             \/ u = t /\ At(t, "none") /\ workers[t]'.pc = "admitted"
             \/ /\ u = t /\ CloseJob(t) /\ workers[t]'.pc = "closed"
                /\ workers[t]'.result = workers[t].result
             \/ u = t /\ FailUnspawnedJob(t) /\ workers[t]'.pc = "unspawned_closed"
             \/ u = t /\ Reap(t) /\ workers[t]'.pc = "reaped"
             \/ workers[t]'.pc \notin {"none", "admitted", "reaped", "closed", "unspawned_closed"}
  <2>1. CASE At(u, "none") /\ workers' = Goto(u, "admitted") BY <1>1, <2>1 DEF Pcs
  <2>2. CASE CloseJob(u) BY <1>1, <2>2 DEF Pcs, CloseJob
  <2>3. CASE FailUnspawnedJob(u) BY <1>1, <2>3 DEF Pcs, FailUnspawnedJob
  <2>4. CASE \E pc \in Pcs \ {"none", "admitted", "reaped", "closed", "unspawned_closed"} :
                workers' = Goto(u, pc)
    BY <1>1, <2>4
  <2>5. CASE /\ workers[u]'.pc \in {"waiting", "exited"}
             /\ \A v \in Task \ {u} : workers[v]' = workers[v]
    BY <2>5
  <2>6. CASE Reap(u)
    <3>1. workers[u]'.pc = "reaped" /\ \A v \in Task \ {u} : workers[v]' = workers[v]
      BY <1>0, <2>6 DEF Reap, WorkerRecord
    <3>. QED BY <2>6, <3>1
  <2>. QED BY <1>2, <2>1, <2>2, <2>3, <2>4, <2>5, <2>6 DEF Moves
<1>3. ASSUME NEW d \in Daemon, DaemonEnds(d)
      PROVE  workers[t]' = workers[t] \/ workers[t]'.pc = "done"
  BY <1>3 DEF DaemonEnds, NoWorker
<1>. QED BY <1>2, <1>3, WorkersStep DEF At

(* What a step may do to a recovery. *)
Proceeds(d, k, q) ==
  LET r == recoveries[d][k]
  IN  \/ q \in {r, NoRecovery, [NoRecovery EXCEPT !.pc = "signal", !.owners = Recoverable(d)]}
      \/ SignalLost(d, k) /\ \E pc \in {"owners", "select"} : q = [r EXCEPT !.pc = pc]
      \/ ChooseOwners(d, k) /\ q = [r EXCEPT !.pc = "select", !.owners = Recoverable(d)]
      \/ /\ SelectLost(d, k)
         /\ q = [r EXCEPT !.pc = "fail", !.seen = [t \in Task |-> Seen(t, r.owners)]]
      \/ \E t \in Task : FailLostJob(d, k, t) /\ q = [r EXCEPT !.pc = "finish", !.current = {t}]
      \/ r.pc \in {"fail", "finish"} /\ \E t \in Task : q = Forget(r, t)

(* Every step makes every recovery proceed, in one of these ways or not at all. *)
LEMMA RecoveryStep ==
  ASSUME TypeInv, [Next]_vars, NEW d \in Daemon, NEW k \in Recoverer
  PROVE  Proceeds(d, k, recoveries'[d][k])
<1>. DEFINE r == recoveries[d][k]
            q == recoveries'[d][k]
<1>0. recoveries \in [Daemon -> [Recoverer -> RecoveryRecord]]
  BY DEF TypeInv, MemoryOK, RecoveriesOK
<1>1. ASSUME NEW e \in Daemon, NEW j \in Recoverer, NEW new, RecoveryGoes(e, j, new)
      PROVE  IF e = d /\ j = k THEN q = new ELSE q = r
  BY <1>0, <1>1 DEF RecoveryGoes
<1>2. Proceeds(d, k, r) /\ Proceeds(d, k, NoRecovery)
      /\ Proceeds(d, k, [NoRecovery EXCEPT !.pc = "signal", !.owners = Recoverable(d)])
  BY Zenon DEF Proceeds
<1>3. ASSUME RecoveryNext(d, k) PROVE Proceeds(d, k, q)
  <2>. USE DEF Recovery
  <2>. HIDE DEF q
  <2>1. CASE BeginRecovery(d, k) \/ AbortRecovery(d, k) \/ EndRecovery(d, k)
    BY <1>1, <1>2, <2>1 DEF BeginRecovery, AbortRecovery, EndRecovery
  <2>2. CASE SignalLost(d, k)
    <3>1. PICK pc \in {"owners", "select"} : RecoveryGoes(d, k, [r EXCEPT !.pc = pc])
      BY <2>2 DEF SignalLost
    <3>2. q = [r EXCEPT !.pc = pc] BY <1>1, <3>1
    <3>. QED BY Zenon, <2>2, <3>2 DEF Proceeds
  <2>3. CASE ChooseOwners(d, k)
    <3>1. q = [r EXCEPT !.pc = "select", !.owners = Recoverable(d)]
      BY <1>1, <2>3 DEF ChooseOwners
    <3>. QED BY Zenon, <2>3, <3>1 DEF Proceeds
  <2>4. CASE SelectLost(d, k)
    <3>1. q = [r EXCEPT !.pc = "fail", !.seen = [t \in Task |-> Seen(t, r.owners)]]
      BY <1>1, <2>4 DEF SelectLost
    <3>. QED BY Zenon, <2>4, <3>1 DEF Proceeds
  <2>5. ASSUME NEW t \in Task, FailLostJob(d, k, t) PROVE Proceeds(d, k, q)
    <3>1. q = [r EXCEPT !.pc = "finish", !.current = {t}] BY <1>1, <2>5 DEF FailLostJob
    <3>. QED BY Zenon, <2>5, <3>1 DEF Proceeds
  <2>6. ASSUME NEW t \in Task, SkipActive(d, k, t) \/ FinishLostTask(d, k, t) \/ SettleLostTask(d, k, t)
        PROVE  Proceeds(d, k, q)
    <3>1. r.pc \in {"fail", "finish"} /\ RecoveryGoes(d, k, Forget(r, t))
      BY <2>6 DEF SkipActive, FinishLostTask, SettleLostTask, Chosen
    <3>2. q = Forget(r, t) BY <1>1, <3>1
    <3>. QED BY Zenon, <3>1, <3>2 DEF Proceeds
  <2>. QED BY <1>3, <2>1, <2>2, <2>3, <2>4, <2>5, <2>6 DEF RecoveryNext
<1>. HIDE DEF r, q
<1>4. ASSUME NEW e \in Daemon, NEW j \in Recoverer, RecoveryNext(e, j)
      PROVE  Proceeds(d, k, q)
  <2>1. \E new : RecoveryGoes(e, j, new)
    BY <1>4 DEF RecoveryNext, BeginRecovery, SignalLost, ChooseOwners, SelectLost, SkipActive,
         FailLostJob, FinishLostTask, SettleLostTask, AbortRecovery, EndRecovery
  <2>2. q = r \/ (e = d /\ j = k) BY <1>1, <2>1
  <2>. QED BY <1>2, <1>3, <1>4, <2>2 DEF r
<1>5. ASSUME NEW e \in Daemon, DaemonLife(e)
      PROVE  Proceeds(d, k, q)
  <2>1. CASE StartDaemon(e)
    <3>1. RecoveryGoes(e, StartupRecoverer,
                       [NoRecovery EXCEPT !.pc = "signal", !.owners = Recoverable(e)])
      BY <2>1 DEF StartDaemon, RecoveryGoes
    <3>. QED BY <1>1, <1>2, <3>1, DaemonAssumption DEF r
  <2>2. CASE DaemonEnds(e) BY <1>0, <1>2, <2>2 DEF DaemonEnds, r, q
  <2>3. CASE StopDaemon(e) BY <1>2, <2>3 DEF StopDaemon, r, q
  <2>. QED BY <1>5, <2>1, <2>2, <2>3 DEF DaemonLife, DaemonNext, ExitDaemon, Crash
<1>6. ASSUME UNCHANGED recoveries PROVE Proceeds(d, k, q)
  BY <1>2, <1>6 DEF r, q
<1>7. ASSUME NEW u \in Task,
             \/ StartNext(u) \/ WorkerStarts(u) \/ WorkerEnds(u)
             \/ ClientNext(u) \/ CancelNext(u) \/ WorldNext(u)
      PROVE  UNCHANGED recoveries
  BY <1>7 DEF StartNext, Admit, RefuseStart, WorkerFails, AbandonRun, GiveUp, WorkerStarts,
       CreateTask, SendStart, WithdrawStart, DiscardTask, SpawnCancelled, Spawn, RecordStart,
       ReleaseGate, CancelBeforeRelease, FailUnspawnedJob, FinishUnspawned, WorkerEnds,
       ObserveExit, TermForCancel, TermForTimeout, Drains, KillGroup, Reap, CloseJob, FinishRun,
       WorkerRefused, Terminalize, ClientNext, BeginCancel, BeginStop, ForceStop,
       CancelNotSaved, CancelUnregistered, CancelNext, LookAtProcess, LockSpawnGate,
       SaveCancel, FlagCancel, SignalCancel, WorldNext, LeaderExits, GroupEnds, OperatorEndsJob
<1>8. CASE UNCHANGED vars BY <1>6, <1>8 DEF vars, q
<1>9. CASE Next BY <1>4, <1>5, <1>6, <1>7, <1>9, NextParts DEF q
<1>. QED BY <1>8, <1>9

(* What a step may do to what a recovery knows of a task. *)
Learns(d, k, t, q) ==
  LET r == recoveries[d][k]
  IN  /\ t \in q.current => /\ q.seen[t] = r.seen[t]
                            /\ t \in r.current \/ FailLostJob(d, k, t)
      /\ \/ q.seen[t] \in {"none", r.seen[t]}
         \/ SelectLost(d, k) /\ q.seen[t] = Seen(t, r.owners)

(* How a recovery comes to know what it does about a task. *)
LEMMA RecoveryHistory ==
  ASSUME TypeInv, [Next]_vars, NEW d \in Daemon, NEW k \in Recoverer, NEW t \in Task
  PROVE  Learns(d, k, t, recoveries'[d][k])
<1>. DEFINE r == recoveries[d][k]
            q == recoveries'[d][k]
<1>1. r \in RecoveryRecord /\ ClosesLost(r)
  BY DEF TypeInv, MemoryOK, RecoveriesOK
<1>2. Proceeds(d, k, q) BY RecoveryStep
<1>a. ASSUME NEW u \in Task PROVE Learns(d, k, t, Forget(r, u))
  BY <1>1 DEF Learns, Forget, RecoveryRecord
<1>b. /\ Learns(d, k, t, r) /\ Learns(d, k, t, NoRecovery)
      /\ \A owners \in SUBSET Daemon : Learns(d, k, t, [NoRecovery EXCEPT !.pc = "signal", !.owners = owners])
  BY DEF Learns, NoRecovery
<1>c. /\ \A pc : Learns(d, k, t, [r EXCEPT !.pc = pc])
      /\ \A pc, owners : Learns(d, k, t, [r EXCEPT !.pc = pc, !.owners = owners])
  BY <1>1 DEF Learns, RecoveryRecord
<1>d. ASSUME SelectLost(d, k)
      PROVE  Learns(d, k, t, [r EXCEPT !.pc = "fail", !.seen = [u \in Task |-> Seen(u, r.owners)]])
  <2>. DEFINE seen == [u \in Task |-> Seen(u, r.owners)]
  <2>1. r.pc = "select" BY <1>d DEF SelectLost, Recovery
  <2>2. r.current = {} BY <1>1, <2>1 DEF ClosesLost, RecoveryRecord
  <2>3. seen[t] = Seen(t, r.owners) OBVIOUS
  <2>. HIDE DEF seen
  <2>4. Learns(d, k, t, [r EXCEPT !.pc = "fail", !.seen = seen])
    BY <1>1, <1>d, <2>2, <2>3 DEF Learns, RecoveryRecord
  <2>. QED BY <2>4 DEF seen
<1>e. ASSUME NEW u \in Task, FailLostJob(d, k, u)
      PROVE  Learns(d, k, t, [r EXCEPT !.pc = "finish", !.current = {u}])
  BY <1>1, <1>e DEF Learns, RecoveryRecord
<1>. HIDE DEF r, q
<1>3. ASSUME q \in {r, NoRecovery, [NoRecovery EXCEPT !.pc = "signal", !.owners = Recoverable(d)]}
      PROVE  Learns(d, k, t, q)
  BY <1>3, <1>b, RecoverableType
<1>4. ASSUME NEW pc, q = [r EXCEPT !.pc = pc] PROVE Learns(d, k, t, q)
  BY <1>4, <1>c
<1>5. ASSUME NEW pc, NEW owners, q = [r EXCEPT !.pc = pc, !.owners = owners] PROVE Learns(d, k, t, q)
  BY Zenon, <1>5, <1>c
<1>6. Learns(d, k, t, q) BY <1>2, <1>3, <1>4, <1>5, <1>a, <1>d, <1>e DEF Proceeds, r
<1>. QED BY <1>6 DEF q

(* Every step preserves the invariant of the outcome. *)
LEMMA CloseInvStep ==
  ASSUME TypeInv, CloseInv, [Next]_vars PROVE CloseInv'
<1>1. ASSUME NEW t \in Task
      PROVE  /\ RowFine(tasks[t]')
             /\ IsDecided(t) => tasks[t]'.job = tasks[t].job /\ tasks[t]'.reason = tasks[t].reason
             /\ tasks[t].status = "absent" => tasks[t]'.status = "absent" \/ At(t, "created")'
  <2>1. CASE UNCHANGED tasks BY <2>1 DEF CloseInv, RowsFine
  <2>2. CASE \E u \in Task : Transaction(u)
    <3>1. PICK u \in Task : Transaction(u) BY <2>2
    <3>2. CASE u = t BY <3>1, <3>2, TransactionFine
    <3>3. CASE u # t
      <4>1. tasks[t]' = tasks[t] BY <3>1, <3>3, TransactionFine
      <4>. QED BY <4>1 DEF CloseInv, RowsFine
    <3>. QED BY <3>2, <3>3
  <2>. QED BY <2>1, <2>2, RowsStep
<1>2. ASSUME NEW t \in Task, NEW status, Agrees(tasks[t], status) PROVE Agrees(tasks[t]', status)
  BY <1>1, <1>2 DEF Agrees, IsDecided
<1>3. RowsFine' BY <1>1 DEF RowsFine
<1>4. Fresh'
  BY <1>1, PcHistory DEF CloseInv, Fresh, At
<1>5. WorkerCloses'
  <2>. SUFFICES ASSUME NEW t \in Task
                PROVE  /\ At(t, "closed")' => Agrees(tasks[t]', workers[t]'.result)
                       /\ At(t, "unspawned_closed")' => Agrees(tasks[t]', "cancelled")
    BY DEF WorkerCloses
  <2>0. tasks \in [Task -> Row] /\ tasks[t] \in Row BY DEF TypeInv, RowsOK
  <2>1. CASE CloseJob(t)
    <3>1. CASE workers[t].result = "succeeded" /\ CompleteJob(t)
      <4>1. tasks[t]'.job = "completed" /\ tasks[t]'.reason = "none"
        BY <2>0, <3>1 DEF CompleteJob, DecidedRow, Row, TaskRecord
      <4>2. ~FailUnspawnedJob(t) /\ ~At(t, "unspawned_closed")
        BY <2>1 DEF CloseJob, FailUnspawnedJob, At
      <4>. QED BY <3>1, <4>1, <4>2, PcHistory DEF Agrees, Ends
    <3>2. CASE workers[t].result # "succeeded" /\ FailJob(t, workers[t].result)
      <4>1. tasks[t]'.job = "failed" /\ tasks[t]'.reason = workers[t].result
        BY <2>0, <3>2 DEF FailJob, DecidedRow, Row, TaskRecord
      <4>2. ~FailUnspawnedJob(t) /\ ~At(t, "unspawned_closed")
        BY <2>1 DEF CloseJob, FailUnspawnedJob, At
      <4>. QED BY <3>2, <4>1, <4>2, PcHistory DEF Agrees, Ends
    <3>. QED BY <2>1, <3>1, <3>2 DEF CloseJob
  <2>2. CASE FailUnspawnedJob(t)
    <3>1. tasks[t]'.job = "failed" /\ tasks[t]'.reason = "cancelled"
      BY <2>0, <2>2 DEF FailUnspawnedJob, FailJob, DecidedRow, Row, TaskRecord
    <3>2. ~CloseJob(t) /\ ~At(t, "closed")
      BY <2>2 DEF FailUnspawnedJob, CloseJob, At
    <3>. QED BY <3>1, <3>2, PcHistory DEF Agrees
  <2>3. CASE ~CloseJob(t) /\ ~FailUnspawnedJob(t)
    BY <1>2, <2>3, PcHistory DEF CloseInv, WorkerCloses
  <2>. QED BY <2>1, <2>2, <2>3
<1>6. RecoveryCloses'
  <2>. SUFFICES ASSUME NEW d \in Daemon, NEW k \in Recoverer, NEW t \in Task
                PROVE  /\ t \in recoveries'[d][k].current =>
                            Agrees(tasks'[t], recoveries'[d][k].seen[t])
                       /\ recoveries'[d][k].seen[t] \in {"completed", "failed"} =>
                            tasks'[t].job \in {"completed", "failed"}
    BY DEF RecoveryCloses, IsDecided
  <2>. DEFINE r == recoveries[d][k]
              q == recoveries'[d][k]
  <2>0. tasks \in [Task -> Row] /\ tasks[t] \in Row BY DEF TypeInv, RowsOK
  <2>1. Learns(d, k, t, q) BY RecoveryHistory
  <2>2. ASSUME t \in q.current PROVE Agrees(tasks'[t], q.seen[t])
    <3>1. q.seen[t] = r.seen[t] BY <2>1, <2>2 DEF Learns
    <3>2. CASE t \in r.current
      BY <1>2, <3>1, <3>2 DEF CloseInv, RecoveryCloses
    <3>3. CASE FailLostJob(d, k, t)
      <4>1. /\ r.seen[t] \in {"lost", "cancelled"}
            /\ tasks'[t].job = "failed" /\ tasks'[t].reason = r.seen[t]
        BY <2>0, <3>3 DEF FailLostJob, Recovery, FailJob, DecidedRow, Row, TaskRecord
      <4>. QED BY <3>1, <4>1 DEF Agrees
    <3>. QED BY <2>1, <2>2, <3>2, <3>3 DEF Learns
  <2>3. ASSUME q.seen[t] \in {"completed", "failed"} PROVE tasks'[t].job \in {"completed", "failed"}
    <3>1. CASE SelectLost(d, k) /\ q.seen[t] = Seen(t, r.owners)
      BY <2>0, <2>3, <3>1 DEF SelectLost, Seen, Row, TaskRecord, IsOpenTask, IsPending
    <3>2. CASE q.seen[t] = r.seen[t]
      BY <1>1, <2>3, <3>2 DEF CloseInv, RecoveryCloses, IsDecided
    <3>. QED BY <2>1, <2>3, <3>1, <3>2 DEF Learns
  <2>. QED BY <2>2, <2>3
<1>. QED BY <1>3, <1>4, <1>5, <1>6 DEF CloseInv

(* The invariant of the outcome holds of every reachable state. *)
LEMMA CloseCorrect == Spec => [](TypeInv /\ CloseInv)
<1>1. Init => TypeInv /\ CloseInv
  <2>. SUFFICES ASSUME Init PROVE CloseInv BY TypeInvInit
  <2>1. RowsFine /\ Fresh BY DEF Init, RowsFine, RowFine, Fresh, NoTask, Ends
  <2>2. WorkerCloses /\ RecoveryCloses
    BY DEF Init, WorkerCloses, RecoveryCloses, At, NoWorker, NoRecovery
  <2>. QED BY <2>1, <2>2 DEF CloseInv
<1>2. (TypeInv /\ CloseInv) /\ [Next]_vars => (TypeInv /\ CloseInv)'
  BY TypeInvStep, CloseInvStep
<1>. QED BY <1>1, <1>2, PTL DEF Spec

(* A task that ended agrees with its job on how: worker, error path and      *)
(* recoveries, which close the two rows in separate transactions, never      *)
(* leave a succeeded task with a failed job or a status its reason belies.   *)
THEOREM OutcomeAgreesAlways == Spec => []OutcomeAgrees
<1>1. CloseInv => OutcomeAgrees
  BY DEF CloseInv, RowsFine, RowFine, Agrees, OutcomeAgrees, IsEnded
<1>. QED BY <1>1, CloseCorrect, PTL

(* However many workers, recoveries and operators try to close a job, it     *)
(* enters the delivery queue exactly once, when it is decided.               *)
THEOREM OneBatchPerJobAlways == Spec => []OneBatchPerJob
<1>1. CloseInv => OneBatchPerJob
  BY DEF CloseInv, RowsFine, RowFine, OneBatchPerJob
<1>. QED BY <1>1, CloseCorrect, PTL

(* Once a task ended its row and its job's stay what they are: no worker, no *)
(* late cancellation, no recovery that selected the task before and no       *)
(* operator writes to them again, nor inserts another batch for the job.     *)
THEOREM EndIsFinal == Spec => [][\A t \in Task : IsEnded(t) => tasks'[t] = tasks[t]]_vars
<1>1. ASSUME TypeInv, CloseInv, [Next]_vars, NEW t \in Task, IsEnded(t) PROVE tasks'[t] = tasks[t]
  <2>0. tasks \in [Task -> TaskRecord] BY <1>1 DEF TypeInv, RowsOK, Row
  <2>1. ~IsOpenTask(t) /\ ~IsPending(t) /\ tasks[t].status \notin {"absent", "queued"}
    BY <1>1 DEF IsEnded, IsOpenTask, IsPending, Ends, CloseInv, RowsFine, RowFine, Agrees
  <2>2. ~At(t, "admitted") BY <1>1, <2>1 DEF CloseInv, Fresh, At
  <2>3. ASSUME NEW u \in Task, Transaction(u), u # t PROVE tasks'[t] = tasks[t]
    BY <2>0, <2>3 DEF Transaction, CreateRow, DeleteRow, MarkStarted, RecordCancel, CompleteJob,
                      FailJob, FinishTask, FailTaskWithJob
  <2>4. ASSUME Transaction(t) PROVE tasks'[t] = tasks[t]
    BY <2>0, <2>1, <2>2, <2>4
       DEF Transaction, DeleteRow, MarkStarted, RecordCancel, CompleteJob, FailJob, FinishTask,
           FailTaskWithJob
  <2>. QED BY <1>1, <2>3, <2>4, RowsStep
<1>2. TypeInv /\ CloseInv /\ [Next]_vars =>
        [\A t \in Task : IsEnded(t) => tasks'[t] = tasks[t]]_vars
  BY <1>1
<1>. QED BY <1>2, CloseCorrect, PTL DEF Spec

-----------------------------------------------------------------------------
(* The command. *)

BeforeRun == {"created", "queued", "gated", "started"}
Unspawned == {"none", "admitted", "created", "discard", "queued"}
Active == {"admitted", "created", "queued", "gated", "started", "waiting", "exited", "reaped",
           "closed", "unspawned", "unspawned_closed", "failing"}

(* A control is in the registry of a daemon that is up, as long as there is  *)
(* a worker, and the row of a task that is to run names that daemon.         *)
HostsUp == \A t \in Task, d \in Daemon : IsRegistered(t, d) => daemons[d] \in {"up", "stopping"}
Hosted == \A t \in Task :
  /\ workers[t].pc \in Active <=> controls[t].host \in Daemon
  /\ workers[t].pc \in BeforeRun => tasks[t].owner = controls[t].host

(* A cancellation on record is known to the control, or to the request that  *)
(* is about to tell it: what ReleaseGate looks at.                           *)
CancelKnown == \A t \in Task : workers[t].pc \in BeforeRun /\ tasks[t].cancel =>
  controls[t].cancel_requested \/ \E c \in Canceller : cancels[t][c] = "flag"

(* What was spawned has left the phase in which rows are created and taken   *)
(* back, and is recorded from "started" on.                                  *)
Recorded == \A t \in Task :
  /\ procs[t].state # "none" => workers[t].pc \notin Unspawned
  /\ At(t, "started") \/ procs[t].state = "live" => tasks[t].pid /\ tasks[t].status # "absent"

RunInv == HostsUp /\ Hosted /\ CancelKnown /\ Recorded

(* The registry keeps the task, and the flags of its control are not reset.  *)
Keeps(t) ==
  /\ controls'[t].host = controls[t].host
  /\ controls[t].cancel_requested => controls'[t].cancel_requested
  /\ \A c \in Canceller : cancels[t][c] = "flag" =>
       cancels'[t][c] = "flag" \/ controls'[t].cancel_requested

(* How the worker of a task moves, and its control with it.                  *)
Stays(t) == workers'[t].pc = workers[t].pc /\ Keeps(t)
Enters(t) == /\ At(t, "none") /\ workers'[t].pc = "admitted"
             /\ \E d \in Daemon : controls'[t].host = d /\ daemons[d] = "up"
GoesOn(t) == /\ Keeps(t)
             /\ workers[t].pc \in Active /\ workers'[t].pc \in Active \ {"admitted"}
             /\ workers'[t].pc \in BeforeRun => workers[t].pc \in BeforeRun \/ CreateTask(t)
             /\ workers'[t].pc \in Unspawned => workers[t].pc \in Unspawned
             /\ workers'[t].pc = "started" => RecordStart(t)
Leaves(t) == /\ workers'[t].pc \in {"discard", "done"}
             /\ workers'[t].pc = "discard" => At(t, "created")
             /\ controls'[t].host = NoDaemon \/ (At(t, "discard") /\ Keeps(t))
MovesOn(t) == Stays(t) \/ Enters(t) \/ GoesOn(t) \/ Leaves(t)

(* Nothing happens to the worker of a task, its control and its requests. *)
Same(t) == workers'[t] = workers[t] /\ controls'[t] = controls[t] /\ cancels'[t] = cancels[t]

(* What happens to another task lets this one stay. *)
LEMMA SameStays == ASSUME NEW t \in Task, Same(t) PROVE MovesOn(t)
BY DEF Same, MovesOn, Stays, Keeps

(* Where a worker goes; the others stay where they are. *)
LEMMA GotoPc ==
  ASSUME TypeInv, NEW t \in Task, NEW pc \in Pcs, workers' = Goto(t, pc)
  PROVE  workers'[t].pc = pc /\ \A u \in Task \ {t} : workers'[u] = workers[u]
BY DEF TypeInv, MemoryOK, WorkersOK, WorkerRecord, Goto, Pcs

(* The types, variable by variable. *)
LEMMA Types ==
  ASSUME TypeInv
  PROVE  /\ workers \in [Task -> WorkerRecord] /\ controls \in [Task -> ControlRecord]
         /\ cancels \in [Task -> [Canceller -> {"idle", "intent", "lock", "save", "flag", "signal"}]]
         /\ procs \in [Task -> ProcRecord]
         /\ daemons \in [Daemon -> {"down", "starting", "up", "stopping"}]
BY DEF TypeInv, MemoryOK, WorkersOK, ControlsOK, CancelsOK, ProcsOK, DaemonsOK

(* A worker that leaves takes its control out of the registry. *)
LEMMA LeavesMoves ==
  ASSUME TypeInv, NEW t \in Task, WorkerLeaves(t), UNCHANGED cancels
  PROVE  Leaves(t) /\ \A u \in Task \ {t} : Same(u)
<1>1. workers'[t].pc = "done" /\ \A u \in Task \ {t} : workers'[u] = workers[u]
  BY GotoPc DEF WorkerLeaves, Pcs
<1>2. controls'[t].host = NoDaemon /\ \A u \in Task \ {t} : controls'[u] = controls[u]
  BY Types DEF WorkerLeaves, ControlRecord
<1>. QED BY <1>1, <1>2 DEF Leaves, Same

(* A worker that failed keeps its control until the rows are closed. *)
LEMMA AbandonMoves ==
  ASSUME TypeInv, NEW t \in Task, workers[t].pc \in Active, AbandonRun(t)
  PROVE  GoesOn(t) /\ \A u \in Task \ {t} : Same(u)
<1>1. workers'[t].pc = "failing" /\ \A u \in Task \ {t} : workers'[u] = workers[u]
  BY GotoPc DEF AbandonRun, Pcs
<1>2. /\ controls'[t].host = controls[t].host
      /\ controls'[t].cancel_requested = controls[t].cancel_requested
      /\ \A u \in Task \ {t} : controls'[u] = controls[u]
  BY Types DEF AbandonRun, ControlRecord
<1>3. UNCHANGED cancels BY DEF AbandonRun
<1>. QED BY <1>1, <1>2, <1>3 DEF GoesOn, Keeps, Same, Active, BeforeRun, Unspawned

(* Admission, and errors of the start and of the worker. *)
LEMMA StartMoves ==
  ASSUME TypeInv, NEW t \in Task, StartNext(t)
  PROVE  MovesOn(t) /\ \A u \in Task \ {t} : Same(u)
<1>1. ASSUME NEW d \in Daemon, Admit(d, t)
      PROVE  Enters(t) /\ \A u \in Task \ {t} : Same(u)
  <2>1. workers'[t].pc = "admitted" /\ \A u \in Task \ {t} : workers'[u] = workers[u]
    BY <1>1, GotoPc DEF Admit, Pcs
  <2>2. controls'[t].host = d /\ \A u \in Task \ {t} : controls'[u] = controls[u]
    BY <1>1, Types DEF Admit, NoControl
  <2>. QED BY <1>1, <2>1, <2>2 DEF Admit, Enters, Same
<1>2. CASE RefuseStart(t) \/ GiveUp(t)
  BY <1>2, LeavesMoves DEF RefuseStart, GiveUp, MovesOn
<1>3. CASE WorkerFails(t)
  BY <1>3, AbandonMoves DEF WorkerFails, Active, MovesOn
<1>. QED BY <1>1, <1>2, <1>3 DEF StartNext, MovesOn

(* The worker, up to the release of the gate. *)
LEMMA WorkerStartMoves ==
  ASSUME TypeInv, NEW t \in Task, WorkerStarts(t)
  PROVE  MovesOn(t) /\ \A u \in Task \ {t} : Same(u)
<1>. USE DEF MovesOn, Pcs, At
<1>1. CASE CreateTask(t)
  BY <1>1, GotoPc DEF CreateTask, GoesOn, Keeps, Same, Active, BeforeRun, Unspawned
<1>2. CASE SendStart(t)
  BY <1>2, GotoPc DEF SendStart, GoesOn, Keeps, Same, Active, BeforeRun, Unspawned
<1>3. CASE WithdrawStart(t)
  <2>1. workers'[t].pc = "discard" /\ \A u \in Task \ {t} : workers'[u] = workers[u]
    BY <1>3, GotoPc DEF WithdrawStart
  <2>2. controls' = [controls EXCEPT ![t] = [controls[t] EXCEPT !.host = NoDaemon]]
    BY <1>3 DEF WithdrawStart
  <2>3. [controls[t] EXCEPT !.host = NoDaemon].host = NoDaemon
    BY Types DEF ControlRecord
  <2>4. controls'[t].host = NoDaemon /\ \A u \in Task \ {t} : controls'[u] = controls[u]
    BY <2>2, <2>3, Types
  <2>. QED BY <1>3, <2>1, <2>4 DEF WithdrawStart, Leaves, Same
<1>4. CASE DiscardTask(t)
  BY <1>4, GotoPc DEF DiscardTask, Leaves, Keeps, Same
<1>5. CASE SpawnCancelled(t) \/ Spawn(t) \/ RecordStart(t)
  <2>1. /\ controls'[t].host = controls[t].host
        /\ controls'[t].cancel_requested = controls[t].cancel_requested
        /\ \A u \in Task \ {t} : controls'[u] = controls[u]
    <3>1. CASE SpawnCancelled(t) BY <3>1, Types DEF SpawnCancelled, ControlRecord
    <3>2. CASE Spawn(t) BY <3>2, Types DEF Spawn, ControlRecord
    <3>3. CASE RecordStart(t) BY <3>3, Types DEF RecordStart, ControlRecord
    <3>. QED BY <1>5, <3>1, <3>2, <3>3
  <2>2. CASE SpawnCancelled(t)
    BY <2>1, <2>2, GotoPc DEF SpawnCancelled, GoesOn, Keeps, Same, Active, BeforeRun, Unspawned
  <2>3. CASE Spawn(t)
    BY <2>1, <2>3, GotoPc DEF Spawn, GoesOn, Keeps, Same, Active, BeforeRun, Unspawned
  <2>4. CASE RecordStart(t)
    <3>1. workers'[t].pc = "started" /\ \A u \in Task \ {t} : workers'[u] = workers[u]
      BY <2>4, GotoPc DEF RecordStart
    <3>2. UNCHANGED cancels /\ workers[t].pc = "gated" BY <2>4 DEF RecordStart
    <3>. QED
      BY <2>1, <2>4, <3>1, <3>2 DEF GoesOn, Keeps, Same, Active, BeforeRun, Unspawned
  <2>. QED BY <1>5, <2>2, <2>3, <2>4
<1>6. CASE ReleaseGate(t) \/ FailUnspawnedJob(t)
  BY <1>6, GotoPc DEF ReleaseGate, FailUnspawnedJob, GoesOn, Keeps, Same, Active, BeforeRun, Unspawned
<1>7. CASE CancelBeforeRelease(t)
  <2>1. /\ controls'[t].host = controls[t].host
        /\ controls'[t].cancel_requested = controls[t].cancel_requested
        /\ \A u \in Task \ {t} : controls'[u] = controls[u]
    BY <1>7, Types DEF CancelBeforeRelease, ControlRecord
  <2>. QED
    BY <1>7, <2>1, GotoPc DEF CancelBeforeRelease, GoesOn, Keeps, Same, Active, BeforeRun, Unspawned
<1>8. CASE FinishUnspawned(t)
  BY <1>8, LeavesMoves DEF FinishUnspawned
<1>. QED BY <1>1, <1>2, <1>3, <1>4, <1>5, <1>6, <1>7, <1>8 DEF WorkerStarts

(* The worker, from the release of the gate. *)
LEMMA WorkerEndMoves ==
  ASSUME TypeInv, NEW t \in Task, WorkerEnds(t)
  PROVE  MovesOn(t) /\ \A u \in Task \ {t} : Same(u)
<1>. USE DEF MovesOn, Pcs, At
<1>1. CASE ObserveExit(t) \/ TermForTimeout(t)
  <2>1. /\ workers[t].pc \in {"waiting", "exited"} /\ workers'[t].pc \in {"waiting", "exited"}
        /\ \A u \in Task \ {t} : workers'[u] = workers[u]
    BY <1>1, Types DEF ObserveExit, TermForTimeout, Drains, WorkerRecord
  <2>. QED BY <1>1, <2>1
       DEF ObserveExit, TermForTimeout, Drains, GoesOn, Keeps, Same, Active, BeforeRun, Unspawned
<1>2. CASE TermForCancel(t) \/ Reap(t)
  <2>1. /\ workers[t].pc \in {"waiting", "exited"}
        /\ workers'[t].pc \in {"waiting", "exited", "reaped"}
        /\ \A u \in Task \ {t} : workers'[u] = workers[u]
    BY ZenonT(60), <1>2, Types DEF TermForCancel, Drains, Reap, WorkerRecord
  <2>2. /\ controls'[t].host = controls[t].host
        /\ controls'[t].cancel_requested = controls[t].cancel_requested
        /\ \A u \in Task \ {t} : controls'[u] = controls[u]
    BY <1>2, Types DEF TermForCancel, Drains, Reap, ControlRecord
  <2>. QED BY <1>2, <2>1, <2>2
       DEF TermForCancel, Drains, Reap, GoesOn, Keeps, Same, Active, BeforeRun, Unspawned
<1>3. CASE KillGroup(t) BY <1>3, SameStays DEF KillGroup, Same
<1>4. CASE CloseJob(t)
  BY <1>4, GotoPc DEF CloseJob, GoesOn, Keeps, Same, Active, BeforeRun, Unspawned
<1>5. CASE FinishRun(t) \/ Terminalize(t)
  BY <1>5, LeavesMoves DEF FinishRun, Terminalize
<1>6. CASE WorkerRefused(t)
  BY <1>6, AbandonMoves DEF WorkerRefused, Active
<1>. QED BY <1>1, <1>2, <1>3, <1>4, <1>5, <1>6 DEF WorkerEnds

(* Cancel requests: what they flag stays flagged. *)
LEMMA RequestMoves ==
  ASSUME TypeInv, NEW t \in Task, ClientNext(t) \/ CancelNext(t)
  PROVE  MovesOn(t) /\ \A u \in Task \ {t} : Same(u)
<1>. USE DEF MovesOn, Canceller
<1>1. CASE BeginCancel(t) \/ LookAtProcess(t)
  BY <1>1, Types DEF BeginCancel, LookAtProcess, CancelGoes, Stays, Keeps, Same
<1>2. CASE BeginStop(t)
  BY <1>2, Types DEF BeginStop, CancelGoes, Stays, Keeps, Same, ControlRecord
<1>3. CASE LockSpawnGate(t)
  BY <1>3, Types DEF LockSpawnGate, CancelGoes, Stays, Keeps, Same, ControlRecord
<1>4. CASE ForceStop(t)
  BY <1>4, Types DEF ForceStop, RequestCancel, CancelGoes, Stays, Keeps, Same, ControlRecord
<1>5. ASSUME NEW c \in Canceller, CancelNotSaved(t, c)
      PROVE  MovesOn(t) /\ \A u \in Task \ {t} : Same(u)
  BY <1>5, Types DEF CancelNotSaved, CancelGoes, Stays, Keeps, Same, ControlRecord
<1>6. ASSUME NEW c \in Canceller, SaveCancel(t, c)
      PROVE  MovesOn(t) /\ \A u \in Task \ {t} : Same(u)
  BY <1>6, Types DEF SaveCancel, CancelGoes, Stays, Keeps, Same
<1>7. ASSUME NEW c \in Canceller, FlagCancel(t, c)
      PROVE  MovesOn(t) /\ \A u \in Task \ {t} : Same(u)
  BY <1>7, Types DEF FlagCancel, RequestCancel, CancelGoes, Stays, Keeps, Same, ControlRecord
<1>8. ASSUME NEW c \in Canceller, SignalCancel(t, c)
      PROVE  MovesOn(t) /\ \A u \in Task \ {t} : Same(u)
  <2>1. /\ controls'[t].host = controls[t].host
        /\ controls'[t].cancel_requested = controls[t].cancel_requested
        /\ \A u \in Task \ {t} : controls'[u] = controls[u]
    BY <1>8, Types DEF SignalCancel, ControlRecord
  <2>. QED BY <1>8, <2>1, Types DEF SignalCancel, CancelGoes, Stays, Keeps, Same
<1>9. ASSUME NEW d \in Daemon, CancelUnregistered(d, t)
      PROVE  MovesOn(t) /\ \A u \in Task \ {t} : Same(u)
  BY <1>9, SameStays DEF CancelUnregistered, Same
<1>. QED
  BY <1>1, <1>2, <1>3, <1>4, <1>5, <1>6, <1>7, <1>8, <1>9 DEF ClientNext, CancelNext

(* Every step lets every task stay, enter, go on or leave. *)
LEMMA MovesStep ==
  ASSUME TypeInv, [Next]_vars, NEW t \in Task
  PROVE  MovesOn(t)
<1>1. ASSUME NEW u \in Task, \/ StartNext(u) \/ WorkerStarts(u) \/ WorkerEnds(u)
                             \/ ClientNext(u) \/ CancelNext(u)
      PROVE  MovesOn(t)
  BY <1>1, StartMoves, WorkerStartMoves, WorkerEndMoves, RequestMoves, SameStays
<1>2. ASSUME NEW u \in Task, WorldNext(u) PROVE MovesOn(t)
  BY <1>2, SameStays DEF WorldNext, LeaderExits, GroupEnds, OperatorEndsJob, Same
<1>3. ASSUME NEW d \in Daemon, DaemonLife(d) PROVE MovesOn(t)
  <2>1. CASE DaemonEnds(d)
    <3>1. CASE t \in HeldBy(d)
      BY <2>1, <3>1 DEF DaemonEnds, NoControl, NoWorker, Leaves, MovesOn
    <3>2. CASE t \notin HeldBy(d) BY <2>1, <3>2, SameStays DEF DaemonEnds, Same
    <3>. QED BY <3>1, <3>2
  <2>2. CASE StartDaemon(d) \/ StopDaemon(d)
    BY <2>2, SameStays DEF StartDaemon, StopDaemon, Same
  <2>. QED BY <1>3, <2>1, <2>2 DEF DaemonLife, DaemonNext, ExitDaemon, Crash
<1>4. ASSUME NEW d \in Daemon, NEW k \in Recoverer, RecoveryNext(d, k) PROVE MovesOn(t)
  <2>1. UNCHANGED <<workers, controls, cancels>>
    BY <1>4 DEF RecoveryNext, BeginRecovery, SignalLost, ChooseOwners, SelectLost, SkipActive,
         FailLostJob, FinishLostTask, SettleLostTask, AbortRecovery, EndRecovery
  <2>. QED BY <2>1, SameStays DEF Same
<1>5. CASE UNCHANGED vars BY <1>5, SameStays DEF vars, Same
<1>. QED BY <1>1, <1>2, <1>3, <1>4, <1>5, NextParts

(* A row keeps its owner and what was recorded; a cancellation is only added *)
(* by who may.                                                               *)
KeptRow(t) ==
  /\ tasks'[t].owner = tasks[t].owner
  /\ tasks[t].pid => tasks'[t].pid
  /\ tasks[t].status # "absent" => tasks'[t].status # "absent"
  /\ tasks[t].status \in Ends => tasks'[t].status \in Ends
  /\ tasks[t].job # "pending" => tasks'[t].job # "pending"
  /\ tasks[t].cancel => tasks'[t].cancel
  /\ tasks'[t].cancel => tasks[t].cancel \/ (Records(t) /\ IsOpenTask(t))

(* So it does, unless it is being created, until it is taken back.           *)
LEMMA RowHistory ==
  ASSUME TypeInv, [Next]_vars, NEW t \in Task, ~At(t, "admitted")
  PROVE  KeptRow(t) \/ (At(t, "discard") /\ tasks'[t] = NoTask)
<1>. USE DEF KeptRow
<1>0. tasks \in [Task -> TaskRecord] BY DEF TypeInv, RowsOK, Row
<1>1. ASSUME NEW u \in Task, Transaction(u), u # t PROVE tasks'[t] = tasks[t]
  BY <1>0, <1>1 DEF Transaction, CreateRow, DeleteRow, MarkStarted, RecordCancel, CompleteJob,
                    FailJob, FinishTask, FailTaskWithJob
<1>2. CASE Transaction(t)
  <2>0. CASE At(t, "discard") /\ DeleteRow(t) BY <1>0, <2>0 DEF DeleteRow
  <2>1. CASE MarkStarted(t) BY <1>0, <2>1 DEF MarkStarted, TaskRecord, IsOpenTask, Ends
  <2>2. CASE Records(t) /\ RecordCancel(t)
    BY <1>0, <2>2 DEF RecordCancel, TaskRecord
  <2>3. CASE CompleteJob(t) BY <1>0, <2>3 DEF CompleteJob, DecidedRow, TaskRecord
  <2>4. CASE \E reason \in Reasons : FailJob(t, reason)
    BY <1>0, <2>4 DEF FailJob, DecidedRow, TaskRecord
  <2>5. CASE \E status \in Ends : Finishes(t, status) /\ FinishTask(t, status)
    BY <1>0, <2>5 DEF FinishTask, TaskRecord, Ends
  <2>6. CASE \E status \in {"failed", "cancelled"}, reason \in Reasons :
                FailTaskWithJob(t, status, reason)
    <3>1. PICK status \in {"failed", "cancelled"}, reason \in Reasons :
                 FailTaskWithJob(t, status, reason)
      BY <2>6
    <3>. DEFINE r == IF IsPending(t) THEN DecidedRow(tasks[t], "failed", reason) ELSE tasks[t]
                end == StatusOfJob(r, status)
    <3>2. /\ r.owner = tasks[t].owner /\ r.pid = tasks[t].pid /\ r.status = tasks[t].status
          /\ r.cancel = tasks[t].cancel /\ (tasks[t].job # "pending" => r.job # "pending")
      BY <1>0 DEF DecidedRow, TaskRecord, IsPending
    <3>3. /\ [r EXCEPT !.status = end].owner = r.owner
          /\ [r EXCEPT !.status = end].pid = r.pid
          /\ [r EXCEPT !.status = end].cancel = r.cancel
          /\ [r EXCEPT !.status = end].status = end
          /\ [r EXCEPT !.status = end].job = r.job
      BY <1>0 DEF DecidedRow, TaskRecord
    <3>4. end # "absent" /\ end \in Ends BY StatusOfJobType DEF Ends
    <3>5. tasks'[t] = IF IsOpenTask(t) THEN [r EXCEPT !.status = end] ELSE r
      BY <1>0, <3>1 DEF FailTaskWithJob
    <3>. HIDE DEF r, end
    <3>. QED BY <3>2, <3>3, <3>4, <3>5
  <2>. QED BY <1>2, <2>0, <2>1, <2>2, <2>3, <2>4, <2>5, <2>6 DEF Transaction
<1>. QED BY <1>1, <1>2, RowsStep

(* While a task is neither being created nor taken back.                     *)
LEMMA RowKept ==
  ASSUME TypeInv, [Next]_vars, NEW t \in Task, ~At(t, "admitted"), ~At(t, "discard")
  PROVE  KeptRow(t)
BY RowHistory

(* A daemon that is up stays so until it stops or ends, and then stops until *)
(* it ends.                                                                  *)
LEMMA DaemonsStep ==
  ASSUME TypeInv, [Next]_vars, NEW d \in Daemon, daemons[d] \in {"up", "stopping"}
  PROVE  \/ daemons'[d] \in {"up", "stopping"} /\ (daemons[d] = "stopping" => daemons'[d] = "stopping")
         \/ DaemonEnds(d)
<1>0. daemons \in [Daemon -> {"down", "starting", "up", "stopping"}] BY Types
<1>1. ASSUME NEW t \in Task, \/ StartNext(t) \/ WorkerStarts(t) \/ WorkerEnds(t)
                             \/ ClientNext(t) \/ CancelNext(t) \/ WorldNext(t)
      PROVE  UNCHANGED daemons
  <2>1. CASE StartNext(t)
    BY <2>1 DEF StartNext, Admit, RefuseStart, WorkerFails, AbandonRun, GiveUp
  <2>2. CASE WorkerStarts(t)
    BY <2>2 DEF WorkerStarts, CreateTask, SendStart, WithdrawStart, DiscardTask, SpawnCancelled,
         Spawn, RecordStart, ReleaseGate, CancelBeforeRelease, FailUnspawnedJob, FinishUnspawned
  <2>3. CASE WorkerEnds(t)
    BY <2>3 DEF WorkerEnds, ObserveExit, TermForCancel, TermForTimeout, Drains, KillGroup, Reap,
         CloseJob, FinishRun, WorkerRefused, AbandonRun, Terminalize
  <2>4. CASE ClientNext(t)
    BY <2>4 DEF ClientNext, BeginCancel, BeginStop, ForceStop, CancelNotSaved, CancelUnregistered
  <2>5. CASE CancelNext(t)
    BY <2>5 DEF CancelNext, LookAtProcess, LockSpawnGate, SaveCancel, FlagCancel, SignalCancel
  <2>6. CASE WorldNext(t) BY <2>6 DEF WorldNext, LeaderExits, GroupEnds, OperatorEndsJob
  <2>. QED BY ONLY <1>1, <2>1, <2>2, <2>3, <2>4, <2>5, <2>6
<1>2. ASSUME NEW e \in Daemon, DaemonLife(e)
      PROVE  \/ daemons'[d] \in {"up", "stopping"} /\ (daemons[d] = "stopping" => daemons'[d] = "stopping")
             \/ DaemonEnds(d)
  <2>1. CASE DaemonEnds(e) /\ e # d BY <1>0, <2>1 DEF DaemonEnds
  <2>2. CASE StartDaemon(e) \/ StopDaemon(e)
    BY <1>0, <2>2 DEF StartDaemon, StopDaemon
  <2>. QED BY <1>2, <2>1, <2>2 DEF DaemonLife, DaemonNext, ExitDaemon, Crash
<1>3. ASSUME NEW e \in Daemon, NEW k \in Recoverer, RecoveryNext(e, k)
      PROVE  daemons'[d] = daemons[d]
  BY <1>0, <1>3 DEF RecoveryNext, BeginRecovery, SignalLost, ChooseOwners, SelectLost, SkipActive,
       FailLostJob, FinishLostTask, SettleLostTask, AbortRecovery, EndRecovery
<1>4. CASE UNCHANGED vars BY <1>4 DEF vars
<1>. QED BY <1>1, <1>2, <1>3, <1>4, NextParts

(* What a step may do to a process group.                                    *)
ProcMoves(t) ==
  \/ procs'[t] \in {procs[t], Killed(procs[t])}
  \/ Spawn(t) \/ ReleaseGate(t) \/ LeaderExits(t)

LEMMA ProcHistory ==
  ASSUME TypeInv, [Next]_vars, NEW t \in Task
  PROVE  ProcMoves(t)
<1>0. procs \in [Task -> ProcRecord] /\ procs[t] \in ProcRecord BY Types
<1>. DEFINE EndsOnly == procs'[t] = procs[t] \/ procs'[t] = Killed(procs[t])
<1>2. ASSUME NEW u \in Task, StartNext(u) PROVE EndsOnly
  BY <1>0, <1>2 DEF StartNext, Admit, RefuseStart, WorkerFails, AbandonRun, GiveUp
<1>3. ASSUME NEW u \in Task, WorkerStarts(u) PROVE EndsOnly \/ (u = t /\ (Spawn(u) \/ ReleaseGate(u)))
  <2>1. CASE Spawn(u) \/ ReleaseGate(u)
    <3>1. u # t => procs'[t] = procs[t] BY <1>0, <2>1 DEF Spawn, ReleaseGate
    <3>. QED BY <2>1, <3>1
  <2>2. CASE CancelBeforeRelease(u) BY <1>0, <2>2 DEF CancelBeforeRelease
  <2>3. CASE ~Spawn(u) /\ ~ReleaseGate(u) /\ ~CancelBeforeRelease(u)
    BY <1>3, <2>3 DEF WorkerStarts, CreateTask, SendStart, WithdrawStart, DiscardTask,
         SpawnCancelled, RecordStart, FailUnspawnedJob, FinishUnspawned
  <2>. QED BY <2>1, <2>2, <2>3
<1>4. ASSUME NEW u \in Task, WorkerEnds(u) PROVE EndsOnly
  <2>1. CASE KillGroup(u) BY <1>0, <2>1 DEF KillGroup
  <2>2. CASE WorkerRefused(u) BY <1>0, <2>2 DEF WorkerRefused, AbandonRun
  <2>. QED
    BY <1>4, <2>1, <2>2 DEF WorkerEnds, ObserveExit, TermForCancel, TermForTimeout, Drains, Reap,
                                   CloseJob, FinishRun, Terminalize
<1>5. ASSUME NEW u \in Task, ClientNext(u) \/ CancelNext(u) PROVE EndsOnly
  <2>1. ASSUME NEW c \in Canceller, SignalCancel(u, c) PROVE EndsOnly
    BY <1>0, <2>1 DEF SignalCancel
  <2>. QED
    BY <1>5, <2>1 DEF ClientNext, BeginCancel, BeginStop, ForceStop, CancelNotSaved,
         CancelUnregistered, CancelNext, LookAtProcess, LockSpawnGate, SaveCancel, FlagCancel
<1>6. ASSUME NEW u \in Task, WorldNext(u)
      PROVE  EndsOnly \/ (u = t /\ LeaderExits(u))
  <2>1. CASE LeaderExits(u)
    <3>1. u # t => procs'[t] = procs[t] BY <1>0, <2>1 DEF LeaderExits
    <3>. QED BY <2>1, <3>1
  <2>2. CASE GroupEnds(u) BY <1>0, <2>2 DEF GroupEnds
  <2>. QED BY <1>6, <2>1, <2>2 DEF WorldNext, OperatorEndsJob
<1>7. ASSUME NEW d \in Daemon, DaemonLife(d) PROVE EndsOnly
  BY <1>0, <1>7 DEF DaemonLife, DaemonNext, StartDaemon, ExitDaemon, StopDaemon, Crash, DaemonEnds
<1>8. ASSUME NEW d \in Daemon, NEW k \in Recoverer, RecoveryNext(d, k) PROVE EndsOnly
  <2>1. CASE SignalLost(d, k) BY <1>0, <2>1 DEF SignalLost
  <2>. QED
    BY <1>8, <2>1 DEF RecoveryNext, BeginRecovery, ChooseOwners, SelectLost, SkipActive,
       FailLostJob, FinishLostTask, SettleLostTask, AbortRecovery, EndRecovery
<1>9. ASSUME UNCHANGED vars PROVE EndsOnly BY <1>9 DEF vars
<1>10. EndsOnly => ProcMoves(t) BY DEF ProcMoves
<1>11. Spawn(t) \/ ReleaseGate(t) \/ LeaderExits(t) => ProcMoves(t) BY DEF ProcMoves
<1>. HIDE DEF EndsOnly
<1>. QED BY <1>2, <1>3, <1>4, <1>5, <1>6, <1>7, <1>8, <1>9, <1>10, <1>11, NextParts

(* A process exists only since Spawn, and is live only since ReleaseGate.    *)
LEMMA ProcsStep ==
  ASSUME TypeInv, [Next]_vars, NEW t \in Task
  PROVE  /\ procs'[t].state # "none" => procs[t].state # "none" \/ Spawn(t)
         /\ procs'[t].state = "live" => procs[t].state = "live" \/ ReleaseGate(t)
<1>0. procs \in [Task -> ProcRecord] /\ procs[t] \in ProcRecord BY Types
<1>1. /\ Killed(procs[t]).state # "none" => procs[t].state # "none"
      /\ Killed(procs[t]).state # "live"
  BY <1>0 DEF Killed, ProcRecord
<1>2. /\ Spawn(t) => procs'[t].state = "gated"
      /\ ReleaseGate(t) => procs[t].state = "gated"
      /\ LeaderExits(t) => procs[t].state = "live" /\ procs'[t].state # "live"
  BY <1>0 DEF Spawn, ReleaseGate, LeaderExits, ProcRecord
<1>. QED BY <1>1, <1>2, ProcHistory DEF ProcMoves

-----------------------------------------------------------------------------
(* Every step preserves the invariant of the command. *)
LEMMA RunInvStep ==
  ASSUME TypeInv, RunInv, [Next]_vars PROVE RunInv'
<1>. USE DEF RunInv
<1>0. \A t \in Task : controls[t].host \in Daemon \union {NoDaemon} /\ workers[t].pc \in Pcs
  BY Types DEF ControlRecord, WorkerRecord, Pcs
<1>1. ASSUME NEW t \in Task PROVE MovesOn(t) BY MovesStep
<1>2. HostsUp'
  <2>. SUFFICES ASSUME NEW t \in Task, NEW d \in Daemon, controls'[t].host = d
                PROVE  daemons'[d] \in {"up", "stopping"}
    BY DEF HostsUp, IsRegistered
  <2>1. daemons[d] \in {"up", "stopping"}
    <3>1. CASE controls[t].host = d BY <3>1 DEF HostsUp, IsRegistered
    <3>2. CASE Enters(t) BY <3>2 DEF Enters
    <3>3. controls'[t].host # NoDaemon BY NoDaemonAssumption
    <3>. QED BY <1>1, <3>1, <3>2, <3>3 DEF MovesOn, Stays, GoesOn, Leaves, Keeps
  <2>2. ~DaemonEnds(d)
    <3>1. ASSUME DaemonEnds(d) PROVE controls'[t].host # d
      BY <3>1, Types, NoDaemonAssumption
         DEF DaemonEnds, HeldBy, RegisteredAt, IsRegistered, NoControl
    <3>. QED BY <3>1
  <2>. QED BY <2>1, <2>2, DaemonsStep
<1>3. Hosted'
  <2>. SUFFICES ASSUME NEW t \in Task
                PROVE  /\ workers'[t].pc \in Active <=> controls'[t].host \in Daemon
                       /\ workers'[t].pc \in BeforeRun => tasks'[t].owner = controls'[t].host
    BY DEF Hosted
  <2>1. /\ workers[t].pc \in Active <=> controls[t].host \in Daemon
        /\ workers[t].pc \in BeforeRun => tasks[t].owner = controls[t].host
    BY DEF Hosted
  <2>2. ASSUME workers[t].pc \in BeforeRun PROVE tasks'[t].owner = tasks[t].owner
    BY <2>2, RowKept DEF KeptRow, BeforeRun, At
  <2>3. CASE Stays(t) BY <2>1, <2>2, <2>3 DEF Stays, Keeps
  <2>4. CASE Enters(t) BY <2>4 DEF Enters, Active, BeforeRun
  <2>5. CASE GoesOn(t)
    <3>1. CASE CreateTask(t)
      <4>1. tasks'[t].owner = controls[t].host
        BY <3>1 DEF CreateTask, CreateRow, NoTask, TypeInv, RowsOK
      <4>. QED BY <2>1, <2>5, <4>1 DEF GoesOn, Keeps
    <3>2. CASE ~CreateTask(t) BY <2>1, <2>2, <2>5, <3>2 DEF GoesOn, Keeps
    <3>. QED BY <3>1, <3>2
  <2>6. CASE Leaves(t)
    BY <1>0, <2>1, <2>6, NoDaemonAssumption DEF Leaves, Keeps, Active, BeforeRun, At
  <2>. QED BY <1>1, <2>3, <2>4, <2>5, <2>6 DEF MovesOn
<1>4. CancelKnown'
  <2>. SUFFICES ASSUME NEW t \in Task, workers'[t].pc \in BeforeRun, tasks'[t].cancel
                PROVE  controls'[t].cancel_requested \/ \E c \in Canceller : cancels'[t][c] = "flag"
    BY DEF CancelKnown
  <2>1. ~CreateTask(t)
    BY DEF CreateTask, CreateRow, NoTask, TypeInv, RowsOK
  <2>2. workers[t].pc \in BeforeRun /\ Keeps(t)
    BY <1>1, <2>1 DEF MovesOn, Stays, Enters, GoesOn, Leaves, BeforeRun
  <2>3. CASE tasks[t].cancel
    <3>1. controls[t].cancel_requested \/ \E c \in Canceller : cancels[t][c] = "flag"
      BY <2>2, <2>3 DEF CancelKnown
    <3>. QED BY <2>2, <3>1 DEF Keeps
  <2>4. CASE ~tasks[t].cancel
    <3>1. Records(t) BY <2>2, <2>4, RowKept DEF KeptRow, BeforeRun, At
    <3>2. tasks[t].owner = controls[t].host /\ controls[t].host \in Daemon
      BY <2>2 DEF Hosted, BeforeRun, Active
    <3>3. daemons[controls[t].host] \in {"up", "stopping"}
      BY <3>2 DEF HostsUp, IsRegistered
    <3>. QED BY <3>1, <3>2, <3>3 DEF Records, IsRegistered
  <2>. QED BY <2>3, <2>4
<1>5. Recorded'
  <2>. SUFFICES ASSUME NEW t \in Task
                PROVE  /\ procs'[t].state # "none" => workers'[t].pc \notin Unspawned
                       /\ workers'[t].pc = "started" \/ procs'[t].state = "live" =>
                             tasks'[t].pid /\ tasks'[t].status # "absent"
    BY DEF Recorded, At
  <2>1. ASSUME procs'[t].state # "none" PROVE workers'[t].pc \notin Unspawned
    <3>1. CASE Spawn(t) BY <3>1, GotoPc DEF Spawn, Pcs, Unspawned
    <3>2. CASE procs[t].state # "none"
      <4>1. workers[t].pc \notin Unspawned BY <3>2 DEF Recorded
      <4>. QED
        BY <1>1, <4>1 DEF MovesOn, Stays, Enters, GoesOn, Leaves, Unspawned, At
    <3>. QED BY <2>1, <3>1, <3>2, ProcsStep
  <2>2. ASSUME tasks[t].pid, tasks[t].status # "absent", workers[t].pc \notin {"admitted", "discard"}
        PROVE  tasks'[t].pid /\ tasks'[t].status # "absent"
    BY <2>2, RowKept DEF KeptRow, At
  <2>3. ASSUME workers[t].pc = "started" \/ procs[t].state = "live"
        PROVE  tasks'[t].pid /\ tasks'[t].status # "absent"
    BY <2>2, <2>3 DEF Recorded, At, Unspawned
  <2>4. ASSUME procs'[t].state = "live" PROVE procs[t].state = "live" \/ workers[t].pc = "started"
    BY <2>4, ProcsStep DEF ReleaseGate, At
  <2>5. ASSUME workers'[t].pc = "started" PROVE workers[t].pc = "started" \/ RecordStart(t)
    BY <1>1, <2>5 DEF MovesOn, Stays, Enters, GoesOn, Leaves
  <2>6. ASSUME RecordStart(t) PROVE tasks'[t].pid /\ tasks'[t].status # "absent"
    <3>1. tasks[t] \in TaskRecord /\ tasks \in [Task -> TaskRecord]
      BY DEF TypeInv, RowsOK, Row
    <3>. QED BY <2>6, <3>1 DEF RecordStart, MarkStarted, TaskRecord
  <2>. QED BY <2>1, <2>3, <2>4, <2>5, <2>6
<1>. QED BY <1>2, <1>3, <1>4, <1>5

(* The invariant of the command holds of every reachable state. *)
LEMMA RunCorrect == Spec => [](TypeInv /\ RunInv)
<1>1. Init => TypeInv /\ RunInv
  <2>. SUFFICES ASSUME Init PROVE RunInv BY TypeInvInit
  <2>1. HostsUp /\ Hosted
    BY NoDaemonAssumption
       DEF Init, HostsUp, IsRegistered, Hosted, NoControl, NoWorker, Active, BeforeRun
  <2>2. CancelKnown /\ Recorded
    BY DEF Init, CancelKnown, Recorded, NoWorker, NoProc, BeforeRun, At
  <2>. QED BY <2>1, <2>2 DEF RunInv
<1>2. (TypeInv /\ RunInv) /\ [Next]_vars => (TypeInv /\ RunInv)'
  BY TypeInvStep, RunInvStep
<1>. QED BY <1>1, <1>2, PTL DEF Spec

(* A command that runs is on record with its process, so that whoever        *)
(* recovers the task can find it.                                            *)
THEOREM RunsOnRecordAlways == Spec => []RunsOnRecord
<1>1. RunInv => RunsOnRecord BY DEF RunInv, Recorded, RunsOnRecord
<1>. QED BY <1>1, RunCorrect, PTL

(* No step opens the exec gate of a task whose cancellation is on record,    *)
(* for any interleaving of worker, requests, shutdown, crash and recovery.   *)
THEOREM NeverRunAfterCancel == Spec => NoRunAfterCancel
<1>1. ASSUME TypeInv, RunInv, [Next]_vars, NEW t \in Task,
             procs[t].state # "live", procs'[t].state = "live"
      PROVE  ~tasks[t].cancel
  <2>1. ReleaseGate(t) BY <1>1, ProcsStep
  <2>. QED
    BY <1>1, <2>1 DEF ReleaseGate, CancelInFlight, RunInv, CancelKnown, BeforeRun, At
<1>2. TypeInv /\ RunInv /\ [Next]_vars =>
        [\A t \in Task : procs[t].state # "live" /\ procs'[t].state = "live" => ~tasks[t].cancel]_vars
  BY <1>1
<1>. QED BY <1>2, RunCorrect, PTL DEF Spec, NoRunAfterCancel

-----------------------------------------------------------------------------
(* The cancellation. *)

(* What worker, control and requests of a task know of a cancellation.       *)
Heard(w, r, q) ==
  \/ r.cancel_requested \/ r.signal_sent
  \/ w.cancelled \/ w.result = "cancelled" \/ w.pc \in {"unspawned", "unspawned_closed"}
  \/ \E c \in Canceller : q[c] \in {"flag", "signal"}
  \/ q["shutdown"] # "idle"

Hears(t) == Heard(workers[t], controls[t], cancels[t])

(* It was asked for: it is on record, or a shutdown is under way.            *)
Asked(t) == tasks[t].cancel \/ HostStops(t)

(* While a task is registered, what is heard was asked for, or came too late *)
(* to be recorded; nothing is heard of a task that is not there yet; and a   *)
(* recovery has read it in a row that still says so, if the job is open.     *)
HearsOfRequest == \A t \in Task :
  Hears(t) /\ controls[t].host \in Daemon => Asked(t) \/ tasks[t].status \in Ends
Unheard == \A t \in Task :
  /\ At(t, "none") => ~Hears(t)
  /\ workers[t].pc \in {"none", "admitted"} => ~tasks[t].cancel
SeesRequest == \A d \in Daemon, k \in Recoverer, t \in Task :
  recoveries[d][k].seen[t] = "cancelled" =>
    /\ workers[t].pc \notin {"none", "admitted"}
    /\ tasks[t].cancel \/ tasks[t].job # "pending"

AskedInv == HearsOfRequest /\ Unheard /\ SeesRequest

(* Nothing is heard that was not heard before.                               *)
Deaf(t) == Heard(workers'[t], controls'[t], cancels'[t])
           => Heard(workers[t], controls[t], cancels[t])

(* What does not change hears nothing.                                       *)
LEMMA SameDeaf == ASSUME NEW t \in Task, Same(t) PROVE Deaf(t)
BY DEF Same, Deaf

(* A worker that only goes somewhere else. *)
LEMMA GotoDeaf ==
  ASSUME TypeInv, NEW t \in Task, NEW pc \in Pcs \ {"unspawned", "unspawned_closed"},
         workers' = Goto(t, pc), UNCHANGED cancels,
         controls'[t].cancel_requested => controls[t].cancel_requested,
         controls'[t].signal_sent => controls[t].signal_sent,
         \A u \in Task \ {t} : controls'[u] = controls[u]
  PROVE  \A u \in Task : Deaf(u)
<1>1. /\ workers'[t].pc = pc /\ workers'[t].cancelled = workers[t].cancelled
      /\ workers'[t].result = workers[t].result
      /\ \A u \in Task \ {t} : workers'[u] = workers[u]
  BY Types DEF Goto, WorkerRecord
<1>2. Deaf(t) BY <1>1 DEF Deaf, Heard
<1>. QED BY <1>1, <1>2, SameDeaf DEF Same

(* A worker that leaves. *)
LEMMA LeavesDeaf ==
  ASSUME TypeInv, NEW t \in Task, WorkerLeaves(t), UNCHANGED cancels
  PROVE  \A u \in Task : Deaf(u)
<1>1. /\ controls'[t].cancel_requested = controls[t].cancel_requested
      /\ controls'[t].signal_sent = controls[t].signal_sent
      /\ \A u \in Task \ {t} : controls'[u] = controls[u]
  BY Types DEF WorkerLeaves, ControlRecord
<1>. QED BY <1>1, GotoDeaf DEF WorkerLeaves, Pcs

(* A worker that failed. *)
LEMMA AbandonDeaf ==
  ASSUME TypeInv, NEW t \in Task, AbandonRun(t)
  PROVE  \A u \in Task : Deaf(u)
<1>1. /\ controls'[t].cancel_requested = controls[t].cancel_requested
      /\ controls'[t].signal_sent = controls[t].signal_sent
      /\ \A u \in Task \ {t} : controls'[u] = controls[u]
  BY Types DEF AbandonRun, ControlRecord
<1>. QED BY <1>1, GotoDeaf DEF AbandonRun, Pcs

(* Admission, and errors of the start and of the worker. *)
LEMMA StartDeaf ==
  ASSUME TypeInv, NEW t \in Task, StartNext(t) PROVE \A u \in Task : Deaf(u)
<1>1. ASSUME NEW d \in Daemon, Admit(d, t) PROVE \A u \in Task : Deaf(u)
  <2>1. /\ ~controls'[t].cancel_requested /\ ~controls'[t].signal_sent
        /\ \A u \in Task \ {t} : controls'[u] = controls[u]
    BY <1>1, Types DEF Admit, NoControl
  <2>. QED BY <1>1, <2>1, GotoDeaf DEF Admit, Pcs
<1>2. CASE RefuseStart(t) \/ GiveUp(t) BY <1>2, LeavesDeaf DEF RefuseStart, GiveUp
<1>3. CASE WorkerFails(t) BY <1>3, AbandonDeaf DEF WorkerFails
<1>. QED BY <1>1, <1>2, <1>3 DEF StartNext

(* The worker, up to the release of the gate. *)
LEMMA WorkerStartDeaf ==
  ASSUME TypeInv, NEW t \in Task, WorkerStarts(t) PROVE \A u \in Task : Deaf(u)
<1>1. CASE CreateTask(t) \/ SendStart(t) \/ DiscardTask(t) \/ ReleaseGate(t)
  BY <1>1, GotoDeaf DEF CreateTask, SendStart, DiscardTask, ReleaseGate, Pcs
<1>2. CASE WithdrawStart(t) \/ Spawn(t) \/ RecordStart(t)
  <2>1. /\ controls'[t].cancel_requested = controls[t].cancel_requested
        /\ controls'[t].signal_sent = controls[t].signal_sent
        /\ \A u \in Task \ {t} : controls'[u] = controls[u]
    <3>1. CASE WithdrawStart(t) BY <3>1, Types DEF WithdrawStart, ControlRecord
    <3>2. CASE Spawn(t) BY <3>2, Types DEF Spawn, ControlRecord
    <3>3. CASE RecordStart(t) BY <3>3, Types DEF RecordStart, ControlRecord
    <3>. QED BY <1>2, <3>1, <3>2, <3>3
  <2>. QED BY <1>2, <2>1, GotoDeaf DEF WithdrawStart, Spawn, RecordStart, Pcs
<1>3. CASE SpawnCancelled(t) \/ CancelBeforeRelease(t) \/ FailUnspawnedJob(t)
  <2>1. Heard(workers[t], controls[t], cancels[t])
    BY <1>3 DEF SpawnCancelled, CancelBeforeRelease, FailUnspawnedJob, At, Heard
  <2>2. \A u \in Task \ {t} : controls'[u] = controls[u]
    BY <1>3, Types DEF SpawnCancelled, CancelBeforeRelease, FailUnspawnedJob
  <2>3. \A u \in Task \ {t} : workers'[u] = workers[u] /\ cancels'[u] = cancels[u]
    BY <1>3, GotoPc DEF SpawnCancelled, CancelBeforeRelease, FailUnspawnedJob, Pcs
  <2>. QED BY <2>1, <2>2, <2>3, SameDeaf DEF Deaf, Same
<1>4. CASE FinishUnspawned(t) BY <1>4, LeavesDeaf DEF FinishUnspawned
<1>. QED BY <1>1, <1>2, <1>3, <1>4 DEF WorkerStarts

(* The worker, from the release of the gate. *)
LEMMA WorkerEndDeaf ==
  ASSUME TypeInv, NEW t \in Task, WorkerEnds(t) PROVE \A u \in Task : Deaf(u)
<1>1. CASE ObserveExit(t)
  <2>1. /\ workers'[t].cancelled = SeenCancelled(t) /\ workers'[t].result = workers[t].result
        /\ workers'[t].pc = "exited"
        /\ \A u \in Task \ {t} : workers'[u] = workers[u]
    BY <1>1, Types DEF ObserveExit, WorkerRecord
  <2>2. Deaf(t) BY <1>1, <2>1 DEF ObserveExit, SeenCancelled, Deaf, Heard
  <2>. QED BY <1>1, <2>1, <2>2, SameDeaf DEF ObserveExit, Same
<1>2. CASE Reap(t)
  <2>1. /\ workers'[t].cancelled = SeenCancelled(t)
        /\ workers'[t].result = ResultOf(t, SeenCancelled(t))
        /\ workers'[t].pc = "reaped"
        /\ \A u \in Task \ {t} : workers'[u] = workers[u]
    BY <1>2, Types DEF Reap, WorkerRecord
  <2>2. /\ controls'[t].cancel_requested = controls[t].cancel_requested
        /\ controls'[t].signal_sent = controls[t].signal_sent
        /\ \A u \in Task \ {t} : controls'[u] = controls[u]
    BY <1>2, Types DEF Reap, ControlRecord
  <2>3. ResultOf(t, SeenCancelled(t)) = "cancelled" => SeenCancelled(t) BY DEF ResultOf
  <2>4. SeenCancelled(t) => workers[t].cancelled \/ controls[t].signal_sent BY DEF SeenCancelled
  <2>5. cancels'[t] = cancels[t] BY <1>2 DEF Reap
  <2>6. Deaf(t) BY <2>1, <2>2, <2>3, <2>4, <2>5 DEF Deaf, Heard
  <2>. QED BY <1>2, <2>1, <2>2, <2>6, SameDeaf DEF Reap, Same
<1>3. CASE TermForCancel(t)
  <2>1. Heard(workers[t], controls[t], cancels[t]) BY <1>3 DEF TermForCancel, Heard
  <2>2. \A u \in Task \ {t} : Same(u) BY <1>3, Types DEF TermForCancel, Same
  <2>. QED BY <2>1, <2>2, SameDeaf DEF Deaf
<1>4. CASE TermForTimeout(t)
  <2>1. /\ workers'[t].cancelled = workers[t].cancelled /\ workers'[t].result = workers[t].result
        /\ workers'[t].pc = workers[t].pc
        /\ \A u \in Task \ {t} : workers'[u] = workers[u]
    BY <1>4, Types DEF TermForTimeout, WorkerRecord
  <2>2. Deaf(t) BY <1>4, <2>1 DEF TermForTimeout, Deaf, Heard
  <2>. QED BY <1>4, <2>1, <2>2, SameDeaf DEF TermForTimeout, Same
<1>5. CASE KillGroup(t) BY <1>5, SameDeaf DEF KillGroup, Same
<1>6. CASE CloseJob(t) BY <1>6, GotoDeaf DEF CloseJob, Pcs
<1>7. CASE FinishRun(t) \/ Terminalize(t) BY <1>7, LeavesDeaf DEF FinishRun, Terminalize
<1>8. CASE WorkerRefused(t) BY <1>8, AbandonDeaf DEF WorkerRefused
<1>. QED BY <1>1, <1>2, <1>3, <1>4, <1>5, <1>6, <1>7, <1>8 DEF WorkerEnds

(* A request is heard of when it was recorded, or of a daemon that stops.    *)
LEMMA RequestDeaf ==
  ASSUME TypeInv, NEW t \in Task, ClientNext(t) \/ CancelNext(t)
  PROVE  /\ Deaf(t) \/ BeginStop(t) \/ \E c \in Canceller : SaveCancel(t, c)
         /\ \A u \in Task \ {t} : Deaf(u)
<1>0. ASSUME NEW c \in Canceller, NEW pos, CancelGoes(t, c, pos)
      PROVE  /\ cancels'[t][c] = pos /\ \A e \in Canceller \ {c} : cancels'[t][e] = cancels[t][e]
             /\ \A u \in Task \ {t} : cancels'[u] = cancels[u]
  BY <1>0, Types DEF CancelGoes
<1>. USE DEF Canceller
<1>1. CASE BeginCancel(t) \/ LookAtProcess(t)
  <2>1. PICK pos \in {"intent", "lock", "idle", "save"} : CancelGoes(t, "client", pos)
    BY <1>1, Types DEF BeginCancel, LookAtProcess, ControlRecord
  <2>2. Deaf(t) BY <1>0, <1>1, <2>1 DEF BeginCancel, LookAtProcess, Deaf, Heard
  <2>. QED BY <1>0, <1>1, <2>1, <2>2, SameDeaf DEF BeginCancel, LookAtProcess, Same
<1>2. CASE BeginStop(t)
  BY <1>0, <1>2, Types, SameDeaf DEF BeginStop, Same
<1>3. CASE LockSpawnGate(t) \/ \E c \in Canceller : CancelNotSaved(t, c)
  <2>1. /\ controls'[t].cancel_requested = controls[t].cancel_requested
        /\ controls'[t].signal_sent = controls[t].signal_sent
        /\ \A u \in Task \ {t} : controls'[u] = controls[u]
    BY <1>3, Types DEF LockSpawnGate, CancelNotSaved, ControlRecord
  <2>2. PICK c \in Canceller, pos \in {"idle", "save"} :
               CancelGoes(t, c, pos) /\ (c = "client" \/ pos = "idle")
    BY <1>3 DEF LockSpawnGate, CancelNotSaved
  <2>3. Deaf(t) BY <1>0, <1>3, <2>1, <2>2 DEF LockSpawnGate, CancelNotSaved, Deaf, Heard
  <2>. QED
    BY <1>0, <1>3, <2>1, <2>2, <2>3, SameDeaf DEF LockSpawnGate, CancelNotSaved, Same
<1>4. CASE ForceStop(t) \/ \E c \in Canceller : FlagCancel(t, c) \/ SignalCancel(t, c)
  <2>1. Heard(workers[t], controls[t], cancels[t])
    BY <1>4 DEF ForceStop, FlagCancel, SignalCancel, Heard
  <2>2. \A u \in Task \ {t} : controls'[u] = controls[u]
    BY <1>4, Types DEF ForceStop, FlagCancel, RequestCancel, SignalCancel
  <2>3. PICK c \in Canceller, pos \in {"signal", "idle"} : CancelGoes(t, c, pos)
    BY <1>4 DEF ForceStop, FlagCancel, SignalCancel
  <2>. QED
    BY <1>0, <1>4, <2>1, <2>2, <2>3, SameDeaf DEF ForceStop, FlagCancel, SignalCancel, Deaf, Same
<1>5. ASSUME NEW c \in Canceller, SaveCancel(t, c) PROVE \A u \in Task \ {t} : Deaf(u)
  BY <1>0, <1>5, SameDeaf DEF SaveCancel, Same
<1>6. CASE \E d \in Daemon : CancelUnregistered(d, t)
  BY <1>6, SameDeaf DEF CancelUnregistered, Same
<1>. QED BY <1>1, <1>2, <1>3, <1>4, <1>5, <1>6 DEF ClientNext, CancelNext

(* Every step.                                                               *)
LEMMA HearsStep ==
  ASSUME TypeInv, [Next]_vars, NEW t \in Task
  PROVE  Deaf(t) \/ BeginStop(t) \/ \E c \in Canceller : SaveCancel(t, c)
<1>1. ASSUME NEW u \in Task, StartNext(u) \/ WorkerStarts(u) \/ WorkerEnds(u) PROVE Deaf(t)
  BY <1>1, StartDeaf, WorkerStartDeaf, WorkerEndDeaf
<1>2. ASSUME NEW u \in Task, ClientNext(u) \/ CancelNext(u)
      PROVE  Deaf(t) \/ BeginStop(t) \/ \E c \in Canceller : SaveCancel(t, c)
  BY <1>2, RequestDeaf
<1>3. ASSUME NEW u \in Task, WorldNext(u) PROVE Deaf(t)
  BY <1>3, SameDeaf DEF WorldNext, LeaderExits, GroupEnds, OperatorEndsJob, Same
<1>4. ASSUME NEW d \in Daemon, DaemonLife(d) PROVE Deaf(t)
  <2>1. CASE DaemonEnds(d)
    <3>1. CASE t \in HeldBy(d)
      BY <2>1, <3>1 DEF DaemonEnds, NoControl, NoWorker, NoCancel, Deaf, Heard, Canceller
    <3>2. CASE t \notin HeldBy(d) BY <2>1, <3>2, SameDeaf DEF DaemonEnds, Same
    <3>. QED BY <3>1, <3>2
  <2>2. CASE StartDaemon(d) \/ StopDaemon(d)
    BY <2>2, SameDeaf DEF StartDaemon, StopDaemon, Same
  <2>. QED BY <1>4, <2>1, <2>2 DEF DaemonLife, DaemonNext, ExitDaemon, Crash
<1>5. ASSUME NEW d \in Daemon, NEW k \in Recoverer, RecoveryNext(d, k) PROVE Deaf(t)
  <2>1. UNCHANGED <<workers, controls, cancels>>
    BY <1>5 DEF RecoveryNext, BeginRecovery, SignalLost, ChooseOwners, SelectLost, SkipActive,
         FailLostJob, FinishLostTask, SettleLostTask, AbortRecovery, EndRecovery
  <2>. QED BY <2>1, SameDeaf DEF Same
<1>6. CASE UNCHANGED vars BY <1>6, SameDeaf DEF vars, Same
<1>. QED BY <1>1, <1>2, <1>3, <1>4, <1>5, <1>6, NextParts
-----------------------------------------------------------------------------
(* Every step preserves the invariant of the cancellation.                   *)

(* What was asked for, or came too late, stays so while the registry has it. *)
LEMMA AskedStays ==
  ASSUME TypeInv, CloseInv, RunInv, AskedInv, [Next]_vars, NEW t \in Task, Hears(t),
         controls[t].host \in Daemon, controls'[t].host = controls[t].host
  PROVE  (Asked(t) \/ tasks[t].status \in Ends)'
<1>1. Asked(t) \/ tasks[t].status \in Ends BY DEF AskedInv, HearsOfRequest
<1>2. workers[t].pc \in Active BY DEF RunInv, Hosted
<1>3. ASSUME HostStops(t) PROVE HostStops(t)'
  <2>1. PICK d \in Daemon : controls[t].host = d /\ daemons[d] = "stopping" BY <1>3 DEF HostStops
  <2>2. ASSUME DaemonEnds(d) PROVE controls'[t].host # d
    BY <2>1, <2>2, NoDaemonAssumption DEF DaemonEnds, HeldBy, RegisteredAt, IsRegistered, NoControl
  <2>. QED BY <2>1, <2>2, DaemonsStep DEF HostStops
<1>4. CASE At(t, "admitted")
  <2>1. ~tasks[t].cancel /\ tasks[t].status \notin Ends
    BY <1>4 DEF AskedInv, Unheard, CloseInv, Fresh, At, Ends
  <2>. QED BY <1>1, <1>3, <2>1 DEF Asked
<1>5. CASE ~At(t, "admitted")
  <2>1. KeptRow(t) BY <1>2, <1>5, RowKept DEF Active, At
  <2>. QED BY <1>1, <1>3, <2>1 DEF Asked, KeptRow
<1>. QED BY <1>4, <1>5

(* It is heard of when it is recorded, or the shutdown begins, and then stays *)
(* asked for; a task that is admitted starts without it.                     *)
LEMMA HearsOfRequestStep ==
  ASSUME TypeInv, CloseInv, RunInv, AskedInv, [Next]_vars PROVE HearsOfRequest'
<1>. SUFFICES ASSUME NEW t \in Task, Hears(t)', controls'[t].host \in Daemon
              PROVE  (Asked(t) \/ tasks[t].status \in Ends)'
  BY DEF HearsOfRequest
<1>0. tasks \in [Task -> TaskRecord] BY DEF TypeInv, RowsOK, Row
<1>1. ASSUME NEW c \in Canceller, SaveCancel(t, c) PROVE (Asked(t) \/ tasks[t].status \in Ends)'
  <2>1. tasks[t].status # "absent" /\ RecordCancel(t) BY <1>1 DEF SaveCancel, RecordCancel
  <2>2. CASE IsOpenTask(t)
    BY <1>0, <2>1, <2>2 DEF RecordCancel, Asked, TaskRecord
  <2>3. CASE ~IsOpenTask(t)
    BY <1>0, <2>1, <2>3 DEF RecordCancel, IsOpenTask, TaskRecord, Ends
  <2>. QED BY <2>2, <2>3
<1>2. CASE BeginStop(t)
  <2>1. PICK d \in Daemon : controls[t].host = d /\ daemons[d] = "stopping"
    BY <1>2 DEF BeginStop, HostStops
  <2>2. controls'[t].host = controls[t].host BY <1>2, Types DEF BeginStop, ControlRecord
  <2>. QED BY <1>2, <2>1, <2>2 DEF BeginStop, Asked, HostStops
<1>3. CASE Deaf(t)
  <2>1. Hears(t) BY <1>3 DEF Deaf, Hears
  <2>2. ~At(t, "none") BY <2>1 DEF AskedInv, Unheard
  <2>3. controls[t].host \in Daemon /\ controls'[t].host = controls[t].host
    <3>1. workers[t].pc \in Active <=> controls[t].host \in Daemon BY DEF RunInv, Hosted
    <3>2. controls'[t].host # NoDaemon BY NoDaemonAssumption
    <3>3. ~Enters(t) BY <2>2 DEF Enters
    <3>4. CASE Stays(t) \/ GoesOn(t) BY <3>1, <3>4 DEF Stays, GoesOn, Keeps
    <3>5. CASE Leaves(t)
      BY <3>1, <3>2, <3>5 DEF Leaves, Keeps, Active, At
    <3>. QED BY <3>3, <3>4, <3>5, MovesStep DEF MovesOn
  <2>. QED BY <2>1, <2>3, AskedStays
<1>. QED BY <1>1, <1>2, <1>3, HearsStep

(* A row that does not exist does not become a cancelled one.                *)
LEMMA AbsentRow ==
  ASSUME TypeInv, [Next]_vars, NEW t \in Task, tasks[t].status = "absent", ~tasks[t].cancel
  PROVE  ~tasks'[t].cancel
<1>0. tasks \in [Task -> TaskRecord] /\ tasks[t].job = "absent" BY DEF TypeInv, RowsOK, Row
<1>1. ~IsOpenTask(t) /\ ~IsPending(t) BY <1>0 DEF IsOpenTask, IsPending
<1>2. ASSUME NEW u \in Task, Transaction(u), u # t PROVE tasks'[t] = tasks[t]
  BY <1>0, <1>2 DEF Transaction, CreateRow, DeleteRow, MarkStarted, RecordCancel, CompleteJob,
                    FailJob, FinishTask, FailTaskWithJob
<1>3. CASE Transaction(t)
  <2>1. CASE CreateRow(t, controls[t].host) \/ DeleteRow(t)
    BY <1>0, <2>1 DEF CreateRow, DeleteRow, NoTask
  <2>2. CASE \E status \in {"failed", "cancelled"}, reason \in Reasons :
                FailTaskWithJob(t, status, reason)
    BY <1>0, <1>1, <2>2 DEF FailTaskWithJob
  <2>. QED
    BY <1>1, <1>3, <2>1, <2>2
       DEF Transaction, MarkStarted, RecordCancel, CompleteJob, FailJob, FinishTask
<1>. QED BY <1>2, <1>3, RowsStep

(* Nothing is asked of a task that is not there: no registry has it, and its *)
(* row cannot be marked.                                                     *)
LEMMA UnheardStep ==
  ASSUME TypeInv, CloseInv, RunInv, AskedInv, [Next]_vars PROVE Unheard'
<1>. SUFFICES ASSUME NEW t \in Task, workers'[t].pc \in {"none", "admitted"}
              PROVE  /\ ~tasks'[t].cancel
                     /\ workers'[t].pc = "none" => ~Hears(t)'
  BY DEF Unheard, At
<1>1. workers[t].pc \in {"none", "admitted"} BY PcHistory
<1>2. tasks[t].status = "absent" /\ ~tasks[t].cancel
  BY <1>1 DEF CloseInv, Fresh, AskedInv, Unheard
<1>3. ~tasks'[t].cancel BY <1>2, AbsentRow
<1>4. ASSUME workers'[t].pc = "none" PROVE ~Hears(t)'
  <2>1. workers[t].pc = "none"
    <3>1. ~Enters(t) /\ ~GoesOn(t) /\ ~Leaves(t)
      BY <1>4 DEF Enters, GoesOn, Leaves, Active
    <3>. QED BY <1>4, <3>1, MovesStep DEF MovesOn, Stays
  <2>2. ~Hears(t) BY <2>1 DEF AskedInv, Unheard, At
  <2>3. ~BeginStop(t)
    <3>1. controls[t].host \notin Daemon BY <2>1 DEF RunInv, Hosted, Active
    <3>. QED BY <3>1 DEF BeginStop, HostStops
  <2>4. ~\E c \in Canceller : SaveCancel(t, c) BY <1>2 DEF SaveCancel, RecordCancel
  <2>. QED BY <2>2, <2>3, <2>4, HearsStep DEF Deaf, Hears
<1>. QED BY <1>3, <1>4

(* What a recovery has read stays in the row, until the job is decided or    *)
(* the row taken back.                                                       *)
LEMMA SeesRequestStep ==
  ASSUME TypeInv, CloseInv, AskedInv, [Next]_vars PROVE SeesRequest'
<1>. SUFFICES ASSUME NEW d \in Daemon, NEW k \in Recoverer, NEW t \in Task,
                     recoveries'[d][k].seen[t] = "cancelled"
              PROVE  /\ workers'[t].pc \notin {"none", "admitted"}
                     /\ tasks'[t].cancel \/ tasks'[t].job # "pending"
  BY DEF SeesRequest
<1>1. /\ workers[t].pc \notin {"none", "admitted"}
      /\ tasks[t].cancel \/ tasks[t].job # "pending"
  <2>1. Learns(d, k, t, recoveries'[d][k]) BY RecoveryHistory
  <2>2. CASE recoveries[d][k].seen[t] = "cancelled" BY <2>2 DEF AskedInv, SeesRequest
  <2>3. CASE Seen(t, recoveries[d][k].owners) = "cancelled"
    <3>1. tasks[t].job \in {"absent", "pending", "completed", "failed"}
      BY DEF TypeInv, RowsOK, Row, TaskRecord
    <3>2. IsOpenTask(t) /\ tasks[t].cancel BY <2>3, <3>1 DEF Seen
    <3>. QED BY <3>2 DEF CloseInv, Fresh, IsOpenTask
  <2>. QED BY <2>1, <2>2, <2>3 DEF Learns
<1>2. workers'[t].pc \notin {"none", "admitted"} BY <1>1, PcHistory
<1>3. tasks'[t].cancel \/ tasks'[t].job # "pending"
  BY <1>1, RowHistory DEF KeptRow, NoTask, At
<1>. QED BY <1>2, <1>3

(* The invariant of the cancellation holds of every reachable state.         *)
LEMMA AskedCorrect == Spec => [](TypeInv /\ CloseInv /\ RunInv /\ AskedInv)
<1>1. Init => AskedInv
  BY NoDaemonAssumption
     DEF Init, AskedInv, HearsOfRequest, Unheard, SeesRequest, Hears, Heard, At, NoControl, NoWorker,
         NoTask, NoCancel, NoRecovery, Canceller
<1>2. TypeInv /\ CloseInv /\ RunInv /\ AskedInv /\ [Next]_vars => AskedInv'
  BY HearsOfRequestStep, UnheardStep, SeesRequestStep DEF AskedInv
<1>. QED BY <1>1, <1>2, CloseCorrect, RunCorrect, PTL DEF Spec

(* Who fails a job as cancelled.                                             *)
Cancels(t) ==
  \/ FailUnspawnedJob(t)
  \/ CloseJob(t) /\ workers[t].result = "cancelled"
  \/ Terminalize(t) /\ controls[t].cancel_requested
  \/ \E d \in Daemon, k \in Recoverer : FailLostJob(d, k, t) /\ recoveries[d][k].seen[t] = "cancelled"

(* These are all who do, and the job is pending when they do.                *)
LEMMA ReasonStep ==
  ASSUME TypeInv, [Next]_vars, NEW t \in Task,
         tasks[t].reason # "cancelled", tasks'[t].reason = "cancelled"
  PROVE  Cancels(t) /\ IsPending(t)
<1>0. tasks \in [Task -> TaskRecord] BY DEF TypeInv, RowsOK, Row
<1>1. ASSUME NEW u \in Task, NEW job, NEW reason,
             tasks' = [tasks EXCEPT ![u] = DecidedRow(@, job, reason)]
      PROVE  t = u /\ reason = "cancelled"
  <2>. DEFINE q == DecidedRow(tasks[u], job, reason)
  <2>1. q.reason = reason BY <1>0 DEF DecidedRow, TaskRecord
  <2>2. tasks' = [tasks EXCEPT ![u] = q] BY <1>1
  <2>. HIDE DEF q
  <2>. QED BY <1>0, <2>1, <2>2
<1>2. ASSUME NEW u \in Task, FinishTask(u, workers[u].result) \/ MarkStarted(u) \/ RecordCancel(u)
                              \/ \E status : FinishTask(u, status)
      PROVE  FALSE
  BY <1>0, <1>2 DEF FinishTask, MarkStarted, RecordCancel, TaskRecord
<1>3. ASSUME NEW u \in Task, CreateRow(u, controls[u].host) \/ DeleteRow(u) PROVE FALSE
  <2>. DEFINE new == [NoTask EXCEPT !.job = "pending", !.status = "queued", !.owner = controls[u].host]
  <2>1. new.reason = "none" /\ NoTask.reason = "none" BY DEF NoTask
  <2>2. tasks' \in {[tasks EXCEPT ![u] = new], [tasks EXCEPT ![u] = NoTask], tasks}
    BY <1>3 DEF CreateRow, DeleteRow
  <2>. HIDE DEF new
  <2>. QED BY <1>0, <2>1, <2>2
<1>4. ASSUME NEW u \in Task, NEW status, NEW reason, FailTaskWithJob(u, status, reason)
      PROVE  t = u /\ reason = "cancelled" /\ IsPending(t)
  <2>. DEFINE r == IF IsPending(u) THEN DecidedRow(tasks[u], "failed", reason) ELSE tasks[u]
              q == [r EXCEPT !.status = StatusOfJob(r, status)]
  <2>1. r.reason = IF IsPending(u) THEN reason ELSE tasks[u].reason
    BY <1>0 DEF DecidedRow, TaskRecord
  <2>2. q.reason = r.reason BY <1>0 DEF DecidedRow, TaskRecord
  <2>3. tasks' = [tasks EXCEPT ![u] = IF IsOpenTask(u) THEN q ELSE r] BY <1>4 DEF FailTaskWithJob
  <2>. HIDE DEF q, r
  <2>4. t = u BY <1>0, <2>3
  <2>5. tasks'[t].reason = IF IsPending(u) THEN reason ELSE tasks[u].reason
    BY <1>0, <2>1, <2>2, <2>3, <2>4
  <2>. QED BY <2>4, <2>5
<1>5. ASSUME NEW u \in Task, StartNext(u) PROVE FALSE
  BY <1>5 DEF StartNext, Admit, RefuseStart, WorkerFails, AbandonRun, GiveUp
<1>6. ASSUME NEW u \in Task, WorkerStarts(u) PROVE Cancels(t) /\ IsPending(t)
  <2>1. CASE FailUnspawnedJob(u) BY <1>1, <2>1 DEF FailUnspawnedJob, FailJob, Cancels
  <2>2. ~CreateTask(u) /\ ~DiscardTask(u) BY <1>3 DEF CreateTask, DiscardTask
  <2>3. ~RecordStart(u) /\ ~FinishUnspawned(u) BY <1>2 DEF RecordStart, FinishUnspawned
  <2>. QED
    BY <1>6, <2>1, <2>2, <2>3 DEF WorkerStarts, SendStart, WithdrawStart, SpawnCancelled, Spawn,
       ReleaseGate, CancelBeforeRelease
<1>7. ASSUME NEW u \in Task, WorkerEnds(u) PROVE Cancels(t) /\ IsPending(t)
  <2>1. CASE CloseJob(u)
    <3>1. CASE CompleteJob(u) BY <1>1, <3>1 DEF CompleteJob
    <3>2. CASE FailJob(u, workers[u].result) BY <1>1, <2>1, <3>2 DEF FailJob, Cancels
    <3>. QED BY <2>1, <3>1, <3>2 DEF CloseJob
  <2>2. CASE Terminalize(u) BY <1>4, <2>2 DEF Terminalize, Cancels
  <2>3. ~FinishRun(u) BY <1>2 DEF FinishRun
  <2>. QED
    BY <1>7, <2>1, <2>2, <2>3 DEF WorkerEnds, ObserveExit, TermForCancel, TermForTimeout, Drains,
       KillGroup, Reap, WorkerRefused, AbandonRun
<1>8. ASSUME NEW u \in Task, ClientNext(u) \/ CancelNext(u) PROVE FALSE
  <2>1. \A c \in Canceller : ~SaveCancel(u, c) BY <1>2 DEF SaveCancel
  <2>2. \A d \in Daemon : ~CancelUnregistered(d, u) BY <1>2 DEF CancelUnregistered
  <2>. QED
    BY <1>8, <2>1, <2>2 DEF ClientNext, BeginCancel, BeginStop, ForceStop, CancelNotSaved,
       CancelNext, LookAtProcess, LockSpawnGate, FlagCancel, SignalCancel
<1>9. ASSUME NEW u \in Task, WorldNext(u) PROVE FALSE
  BY <1>1, <1>9 DEF WorldNext, LeaderExits, GroupEnds, OperatorEndsJob, CompleteJob, FailJob
<1>10. ASSUME NEW d \in Daemon, DaemonLife(d) PROVE FALSE
  BY <1>10 DEF DaemonLife, DaemonNext, StartDaemon, ExitDaemon, StopDaemon, Crash, DaemonEnds
<1>11. ASSUME NEW d \in Daemon, NEW k \in Recoverer, RecoveryNext(d, k)
       PROVE  Cancels(t) /\ IsPending(t)
  <2>1. ASSUME NEW u \in Task, FailLostJob(d, k, u) PROVE Cancels(t) /\ IsPending(t)
    BY <1>1, <2>1 DEF FailLostJob, FailJob, Recovery, Cancels
  <2>2. \A u \in Task : ~FinishLostTask(d, k, u) /\ ~SettleLostTask(d, k, u)
    BY <1>2 DEF FinishLostTask, SettleLostTask
  <2>. QED
    BY <1>11, <2>1, <2>2 DEF RecoveryNext, BeginRecovery, SignalLost, ChooseOwners, SelectLost,
       SkipActive, AbortRecovery, EndRecovery
<1>12. ~UNCHANGED vars BY DEF vars
<1>. QED BY <1>5, <1>6, <1>7, <1>8, <1>9, <1>10, <1>11, <1>12, NextParts

(* A job is failed as cancelled, by worker, error path or recovery, only     *)
(* while the cancellation is on record or the shutdown that asked for it is  *)
(* under way.                                                                *)
THEOREM CancelledWasAskedAlways == Spec => CancelledWasAsked
<1>1. ASSUME TypeInv, CloseInv, RunInv, AskedInv, [Next]_vars, NEW t \in Task,
             tasks[t].reason # "cancelled", tasks'[t].reason = "cancelled"
      PROVE  Asked(t)
  <2>1. Cancels(t) /\ IsPending(t) BY <1>1, ReasonStep
  <2>2. tasks[t].status \notin Ends
    BY <1>1, <2>1 DEF CloseInv, RowsFine, RowFine, Agrees, IsPending
  <2>3. CASE \E d \in Daemon, k \in Recoverer : recoveries[d][k].seen[t] = "cancelled"
    BY <1>1, <2>1, <2>3 DEF AskedInv, SeesRequest, IsPending, Asked
  <2>4. CASE \/ FailUnspawnedJob(t)
             \/ CloseJob(t) /\ workers[t].result = "cancelled"
             \/ Terminalize(t) /\ controls[t].cancel_requested
    <3>1. Hears(t) /\ workers[t].pc \in Active
      BY <2>4 DEF FailUnspawnedJob, CloseJob, Terminalize, At, Hears, Heard, Active
    <3>2. controls[t].host \in Daemon BY <1>1, <3>1 DEF RunInv, Hosted
    <3>. QED BY <1>1, <2>2, <3>1, <3>2 DEF AskedInv, HearsOfRequest
  <2>. QED BY <2>1, <2>3, <2>4 DEF Cancels
<1>2. TypeInv /\ CloseInv /\ RunInv /\ AskedInv /\ [Next]_vars =>
        [\A t \in Task : tasks[t].reason # "cancelled" /\ tasks'[t].reason = "cancelled" =>
           tasks[t].cancel \/ HostStops(t)]_vars
  BY <1>1 DEF Asked
<1>. QED BY <1>2, AskedCorrect, PTL DEF Spec, CancelledWasAsked

-----------------------------------------------------------------------------
(* The command of an ended task. Whether a command can be left behind is a   *)
(* matter of who recovers its task: a daemon signals the processes of the    *)
(* owners it chose first, and fails the tasks of those it chooses then. The  *)
(* two agree on an owner that nobody but itself recovers: the daemon of the  *)
(* default socket, and every daemon of a version that is the only one.       *)
SoleOwner == {o \in Daemon : \A d \in Daemon \ {o} : o = Default \/ Version[o] = Version[d]}

(* Who writes the rows of a task.                                            *)
Writes(t) ==
  \/ CreateTask(t) \/ DiscardTask(t) \/ RecordStart(t)
  \/ FailUnspawnedJob(t) \/ CloseJob(t) \/ OperatorEndsJob(t)
  \/ FinishUnspawned(t) \/ FinishRun(t) \/ Terminalize(t)
  \/ \E c \in Canceller : SaveCancel(t, c)
  \/ \E d \in Daemon : CancelUnregistered(d, t)
  \/ \E d \in Daemon, k \in Recoverer :
       FailLostJob(d, k, t) \/ FinishLostTask(d, k, t) \/ SettleLostTask(d, k, t)

(* Nobody else does.                                                         *)
LEMMA WritersStep ==
  ASSUME [Next]_vars PROVE UNCHANGED tasks \/ \E t \in Task : Writes(t)
<1>1. ASSUME NEW t \in Task, StartNext(t) PROVE UNCHANGED tasks
  BY <1>1 DEF StartNext, Admit, RefuseStart, WorkerFails, AbandonRun, GiveUp
<1>2. ASSUME NEW t \in Task, WorkerStarts(t) PROVE UNCHANGED tasks \/ Writes(t)
  BY <1>2 DEF WorkerStarts, Writes, SendStart, WithdrawStart, SpawnCancelled, Spawn, ReleaseGate,
       CancelBeforeRelease
<1>3. ASSUME NEW t \in Task, WorkerEnds(t) PROVE UNCHANGED tasks \/ Writes(t)
  BY <1>3 DEF WorkerEnds, Writes, ObserveExit, TermForCancel, TermForTimeout, KillGroup, Reap,
       WorkerRefused, AbandonRun
<1>4. ASSUME NEW t \in Task, ClientNext(t) \/ CancelNext(t) PROVE UNCHANGED tasks \/ Writes(t)
  BY <1>4 DEF ClientNext, CancelNext, Writes, BeginCancel, BeginStop, ForceStop, CancelNotSaved,
       LookAtProcess, LockSpawnGate, FlagCancel, SignalCancel
<1>5. ASSUME NEW t \in Task, WorldNext(t) PROVE UNCHANGED tasks \/ Writes(t)
  BY <1>5 DEF WorldNext, Writes, LeaderExits, GroupEnds
<1>6. ASSUME NEW d \in Daemon, DaemonLife(d) PROVE UNCHANGED tasks
  BY <1>6 DEF DaemonLife, DaemonNext, StartDaemon, ExitDaemon, StopDaemon, Crash, DaemonEnds
<1>7. ASSUME NEW d \in Daemon, NEW k \in Recoverer, RecoveryNext(d, k)
      PROVE  UNCHANGED tasks \/ \E t \in Task : Writes(t)
  BY <1>7 DEF RecoveryNext, Writes, BeginRecovery, SignalLost, ChooseOwners, SelectLost,
       SkipActive, AbortRecovery, EndRecovery
<1>8. CASE UNCHANGED vars BY <1>8 DEF vars
<1>. QED BY <1>1, <1>2, <1>3, <1>4, <1>5, <1>6, <1>7, <1>8, NextParts

(* What each transaction does to the job, the status and the cancellation in *)
(* its row.                                                                  *)
Leaves3(t, job, status, cancel) ==
  /\ tasks'[t].job = job /\ tasks'[t].status = status /\ tasks'[t].cancel = cancel
  /\ \A u \in Task \ {t} : tasks'[u] = tasks[u]

LEMMA TransactionEffects ==
  ASSUME TypeInv, NEW t \in Task
  PROVE  /\ CreateTask(t) => Leaves3(t, "pending", "queued", FALSE)
         /\ MarkStarted(t) => Leaves3(t, tasks[t].job, "running", tasks[t].cancel)
         /\ RecordCancel(t) => \E cancel \in {tasks[t].cancel, TRUE} :
                                 Leaves3(t, tasks[t].job, tasks[t].status, cancel)
         /\ CompleteJob(t) => Leaves3(t, "completed", tasks[t].status, tasks[t].cancel)
         /\ \A reason : FailJob(t, reason) =>
              Leaves3(t, "failed", tasks[t].status, tasks[t].cancel)
         /\ \A status : FinishTask(t, status) => Leaves3(t, tasks[t].job, status, tasks[t].cancel)
         /\ \A status, reason : FailTaskWithJob(t, status, reason) =>
              \E new : Leaves3(t, IF IsPending(t) THEN "failed" ELSE tasks[t].job, new,
                               tasks[t].cancel)
<1>0. tasks \in [Task -> TaskRecord] BY DEF TypeInv, RowsOK, Row
<1>. USE DEF Leaves3
<1>1. ASSUME CreateTask(t) PROVE Leaves3(t, "pending", "queued", FALSE)
  <2>. DEFINE new == [NoTask EXCEPT !.job = "pending", !.status = "queued", !.owner = controls[t].host]
  <2>1. new.job = "pending" /\ new.status = "queued" /\ new.cancel = FALSE BY DEF NoTask
  <2>2. tasks' = [tasks EXCEPT ![t] = new] BY <1>1 DEF CreateTask, CreateRow
  <2>. HIDE DEF new
  <2>. QED BY <1>0, <2>1, <2>2
<1>2. MarkStarted(t) => Leaves3(t, tasks[t].job, "running", tasks[t].cancel)
  BY <1>0 DEF MarkStarted, TaskRecord
<1>3. RecordCancel(t) => \E cancel \in {tasks[t].cancel, TRUE} :
                           Leaves3(t, tasks[t].job, tasks[t].status, cancel)
  BY <1>0 DEF RecordCancel, TaskRecord
<1>4. ASSUME NEW job, NEW reason, tasks' = [tasks EXCEPT ![t] = DecidedRow(@, job, reason)]
      PROVE  Leaves3(t, job, tasks[t].status, tasks[t].cancel)
  BY <1>0, <1>4 DEF DecidedRow, TaskRecord
<1>5. ASSUME NEW status, FinishTask(t, status)
      PROVE  Leaves3(t, tasks[t].job, status, tasks[t].cancel)
  BY <1>0, <1>5 DEF FinishTask, TaskRecord
<1>6. ASSUME NEW status, NEW reason, FailTaskWithJob(t, status, reason)
      PROVE  \E new : Leaves3(t, IF IsPending(t) THEN "failed" ELSE tasks[t].job, new,
                              tasks[t].cancel)
  <2>. DEFINE r == IF IsPending(t) THEN DecidedRow(tasks[t], "failed", reason) ELSE tasks[t]
              q == [r EXCEPT !.status = StatusOfJob(r, status)]
  <2>1. /\ r.job = IF IsPending(t) THEN "failed" ELSE tasks[t].job
        /\ r.cancel = tasks[t].cancel
    BY <1>0 DEF DecidedRow, TaskRecord
  <2>2. q.job = r.job /\ q.cancel = r.cancel BY <1>0 DEF DecidedRow, TaskRecord
  <2>3. tasks' = [tasks EXCEPT ![t] = IF IsOpenTask(t) THEN q ELSE r]
    BY <1>6 DEF FailTaskWithJob
  <2>. HIDE DEF r, q
  <2>4. PICK row \in {q, r} : tasks' = [tasks EXCEPT ![t] = row] BY <2>3
  <2>5. tasks'[t] = row /\ \A u \in Task \ {t} : tasks'[u] = tasks[u] BY <1>0, <2>4
  <2>6. Leaves3(t, row.job, row.status, row.cancel) BY <2>5
  <2>. QED BY <2>1, <2>2, <2>6
<1>. QED BY <1>1, <1>2, <1>3, <1>4, <1>5, <1>6 DEF CompleteJob, FailJob

(* Who writes a row leaves processes and other rows alone.                   *)
LEMMA WritesOneRow ==
  ASSUME TypeInv, NEW t \in Task, Writes(t)
  PROVE  UNCHANGED procs /\ \A u \in Task \ {t} : tasks'[u] = tasks[u]
<1>1. UNCHANGED procs
  BY DEF Writes, CreateTask, DiscardTask, RecordStart, FailUnspawnedJob, CloseJob, OperatorEndsJob,
         FinishUnspawned, FinishRun, Terminalize, SaveCancel, CancelUnregistered, FailLostJob,
         FinishLostTask, SettleLostTask
<1>2. ASSUME NEW u \in Task \ {t} PROVE tasks'[u] = tasks[u]
  <2>1. tasks \in [Task -> TaskRecord] BY DEF TypeInv, RowsOK, Row
  <2>. QED
    BY <2>1 DEF Writes, CreateTask, CreateRow, DiscardTask, DeleteRow, RecordStart, MarkStarted,
         FailUnspawnedJob, CloseJob, OperatorEndsJob, CompleteJob, FailJob, FinishUnspawned,
         FinishRun, FinishTask, Terminalize, FailTaskWithJob, SaveCancel, CancelUnregistered,
         RecordCancel, FailLostJob, FinishLostTask, SettleLostTask
<1>. QED BY <1>1, <1>2

(* A running command has a worker that waits for it, or lost its daemon.     *)
RunsInHand == \A t \in Task : procs[t].state = "live" => workers[t].pc \in {"waiting", "done"}

(* A recovery takes its own tasks in, and among the owners that nobody else  *)
(* recovers only its own daemon; the tasks it has selected are of its owners *)
(* or were taken back; it works on none that its daemon has registered.      *)
OwnersChosen == \A d \in Daemon, k \in Recoverer :
  /\ recoveries[d][k].pc # "idle" => d \in recoveries[d][k].owners
  /\ recoveries[d][k].owners \cap SoleOwner \subseteq {d}
OwnersSeen == \A d \in Daemon, k \in Recoverer, t \in Task :
  /\ recoveries[d][k].seen[t] # "none" =>
       /\ recoveries[d][k].pc \in {"fail", "finish"}
       /\ workers[t].pc \notin {"none", "admitted"}
       /\ tasks[t].owner \in recoveries[d][k].owners \union {NoDaemon}
  /\ t \in recoveries[d][k].current => ~IsRegistered(t, d)

(* Once a recovery has signalled, the commands that run for its daemon are   *)
(* the registered ones.                                                      *)
Signalled == \A d \in SoleOwner, k \in Recoverer, t \in Task :
  /\ recoveries[d][k].pc \in {"owners", "select", "fail", "finish"}
  /\ tasks[t].owner = d /\ procs[t].state = "live"
  => IsRegistered(t, d)

(* Nobody ends a task whose owner is the only one to recover it before the   *)
(* worker comes to wait, nor, later, while its command runs; nor is its job  *)
(* decided by anyone but an operator.                                        *)
NotEndedEarly == \A t \in Task : tasks[t].owner \in SoleOwner =>
  /\ workers[t].pc \in BeforeRun => IsOpenTask(t)
  /\ workers[t].pc \in BeforeRun /\ OperatorCalls = {} => IsPending(t)
  /\ IsEnded(t) => procs[t].state # "live"

(* A row has an owner.                                                       *)
Owned == \A t \in Task : tasks[t].status # "absent" => tasks[t].owner \in Daemon

OrphanInv == Owned /\ RunsInHand /\ OwnersChosen /\ OwnersSeen /\ Signalled /\ NotEndedEarly

(* While its command runs, a worker that waits goes on waiting, unless its   *)
(* daemon ends.                                                              *)
LEMMA WaitingStep ==
  ASSUME TypeInv, [Next]_vars, NEW t \in Task, At(t, "waiting"),
         procs[t].state = "live", procs'[t].state = "live"
  PROVE  \/ workers'[t].pc = "waiting" /\ controls'[t].host = controls[t].host
         \/ /\ workers'[t].pc = "done"
            /\ \E d \in Daemon : DaemonEnds(d) /\ IsRegistered(t, d)
<1>. DEFINE Waits == workers'[t].pc = "waiting" /\ controls'[t].host = controls[t].host
<1>0. /\ workers[t].pc = "waiting" /\ procs \in [Task -> ProcRecord] /\ procs[t] \in ProcRecord
      /\ workers \in [Task -> WorkerRecord] /\ controls \in [Task -> ControlRecord]
  BY Types DEF At
<1>1. \A u \in Task \ {t} : Same(t) => Waits BY <1>0 DEF Same
<1>2. ~AbandonRun(t)
  <2>1. SUFFICES ASSUME AbandonRun(t) PROVE FALSE OBVIOUS
  <2>2. HasChild(t) BY <1>0 DEF HasChild
  <2>3. procs' = [procs EXCEPT ![t] = Killed(@)] BY <2>1, <2>2 DEF AbandonRun
  <2>. QED BY <1>0, <2>3 DEF Killed, ProcRecord
<1>3. ~StartNext(t)
  BY <1>0, <1>2 DEF StartNext, Admit, RefuseStart, WorkerFails, GiveUp, At
<1>4. ~WorkerStarts(t)
  BY <1>0 DEF WorkerStarts, CreateTask, SendStart, WithdrawStart, DiscardTask, SpawnCancelled,
       Spawn, RecordStart, ReleaseGate, CancelBeforeRelease, FailUnspawnedJob, FinishUnspawned, At
<1>5. ASSUME WorkerEnds(t) PROVE Waits
  <2>1. CASE TermForTimeout(t)
    <3>1. workers'[t].pc = "waiting" BY <1>0, <2>1 DEF TermForTimeout, WorkerRecord
    <3>. QED BY <2>1, <3>1 DEF TermForTimeout
  <2>2. CASE TermForCancel(t)
    <3>1. workers'[t].pc = "waiting" BY <1>0, <2>2 DEF TermForCancel, WorkerRecord
    <3>2. controls'[t].host = controls[t].host
      BY <1>0, <2>2 DEF TermForCancel, ControlRecord
    <3>. QED BY <3>1, <3>2
  <2>3. CASE KillGroup(t) BY <1>0, <2>3 DEF KillGroup
  <2>4. ~ObserveExit(t) BY <1>0 DEF ObserveExit
  <2>. QED
    BY <1>0, <1>2, <1>5, <2>1, <2>2, <2>3, <2>4
       DEF WorkerEnds, Reap, CloseJob, FinishRun, WorkerRefused, Terminalize, At
<1>6. ASSUME NEW u \in Task, StartNext(u) \/ WorkerStarts(u) \/ WorkerEnds(u) PROVE Waits
  <2>1. CASE u = t BY <1>3, <1>4, <1>5, <1>6, <2>1
  <2>2. CASE u # t BY <1>0, <1>6, <2>2, StartMoves, WorkerStartMoves, WorkerEndMoves DEF Same
  <2>. QED BY <2>1, <2>2
<1>7. ASSUME NEW u \in Task, ClientNext(u) \/ CancelNext(u) PROVE Waits
  <2>1. UNCHANGED workers
    BY <1>7 DEF ClientNext, BeginCancel, BeginStop, ForceStop, CancelNotSaved, CancelUnregistered,
         CancelNext, LookAtProcess, LockSpawnGate, SaveCancel, FlagCancel, SignalCancel
  <2>2. MovesOn(t) BY MovesStep
  <2>3. controls'[t].host = controls[t].host
    BY <1>0, <2>1, <2>2 DEF MovesOn, Stays, Enters, GoesOn, Leaves, Keeps, At
  <2>. QED BY <1>0, <2>1, <2>3
<1>8. ASSUME NEW u \in Task, WorldNext(u) PROVE Waits
  BY <1>0, <1>8 DEF WorldNext, LeaderExits, GroupEnds, OperatorEndsJob
<1>9. ASSUME NEW d \in Daemon, DaemonLife(d)
      PROVE  Waits \/ (workers'[t].pc = "done" /\ DaemonEnds(d) /\ IsRegistered(t, d))
  <2>1. CASE DaemonEnds(d)
    <3>1. CASE t \in HeldBy(d)
      BY <1>0, <2>1, <3>1 DEF DaemonEnds, HeldBy, RegisteredAt, At, NoWorker
    <3>2. CASE t \notin HeldBy(d) BY <1>0, <2>1, <3>2 DEF DaemonEnds
    <3>. QED BY <3>1, <3>2
  <2>2. CASE StartDaemon(d) \/ StopDaemon(d) BY <1>0, <2>2 DEF StartDaemon, StopDaemon
  <2>. QED BY <1>9, <2>1, <2>2 DEF DaemonLife, DaemonNext, ExitDaemon, Crash
<1>10. ASSUME NEW d \in Daemon, NEW k \in Recoverer, RecoveryNext(d, k) PROVE Waits
  BY <1>0, <1>10 DEF RecoveryNext, BeginRecovery, SignalLost, ChooseOwners, SelectLost, SkipActive,
         FailLostJob, FinishLostTask, SettleLostTask, AbortRecovery, EndRecovery
<1>11. CASE UNCHANGED vars BY <1>0, <1>11 DEF vars
<1>. HIDE DEF Waits
<1>12. \/ Waits
       \/ \E d \in Daemon : workers'[t].pc = "done" /\ DaemonEnds(d) /\ IsRegistered(t, d)
  <2>1. CASE Next BY <1>6, <1>7, <1>8, <1>9, <1>10, <2>1, NextParts
  <2>2. CASE UNCHANGED vars BY <1>0, <2>2 DEF vars, Waits
  <2>. QED BY <2>1, <2>2
<1>. QED BY <1>12 DEF Waits

(* A running command stays in hand.                                          *)
LEMMA RunsInHandStep ==
  ASSUME TypeInv, RunsInHand, [Next]_vars PROVE RunsInHand'
<1>. SUFFICES ASSUME NEW t \in Task, procs'[t].state = "live"
              PROVE  workers'[t].pc \in {"waiting", "done"}
  BY DEF RunsInHand
<1>1. CASE ReleaseGate(t) BY <1>1, GotoPc DEF ReleaseGate, Pcs
<1>2. CASE procs[t].state = "live"
  <2>1. CASE At(t, "waiting") BY <1>2, <2>1, WaitingStep
  <2>2. CASE At(t, "done")
    BY <2>2, MovesStep DEF MovesOn, Stays, Enters, GoesOn, Leaves, Active, At
  <2>. QED BY <1>2, <2>1, <2>2 DEF RunsInHand, At
<1>. QED BY <1>1, <1>2, ProcsStep

(* Whom a daemon may recover.                                                *)
LEMMA RecoverableOwners ==
  ASSUME NEW d \in Daemon
  PROVE  d \in Recoverable(d) /\ Recoverable(d) \cap SoleOwner \subseteq {d}
BY DEF Recoverable, SoleOwner

(* The fields of a recovery, as it proceeds.                                 *)
Unseen(q) == q.current = {} /\ \A t \in Task : q.seen[t] = "none"
Advances(d, k, r, q) ==
  \/ q = r
  \/ q.pc = "idle" /\ q.owners = {} /\ Unseen(q)
  \/ q.pc = "signal" /\ q.owners = Recoverable(d) /\ Unseen(q)
  \/ /\ SignalLost(d, k) /\ q.pc \in {"owners", "select"}
     /\ q.owners = r.owners /\ q.seen = r.seen
  \/ /\ r.pc = "owners" /\ q.pc = "select"
     /\ q.owners = Recoverable(d) /\ q.seen = r.seen
  \/ /\ r.pc = "select" /\ q.pc = "fail"
     /\ q.owners = r.owners /\ \A t \in Task : q.seen[t] = Seen(t, r.owners)
  \/ /\ r.pc \in {"fail", "finish"} /\ q.pc \in {"fail", "finish"}
     /\ q.owners = r.owners /\ \A t \in Task : q.seen[t] \in {"none", r.seen[t]}

LEMMA RecoveryFields ==
  ASSUME TypeInv, [Next]_vars, NEW d \in Daemon, NEW k \in Recoverer
  PROVE  Advances(d, k, recoveries[d][k], recoveries'[d][k])
<1>. DEFINE r == recoveries[d][k]
            q == recoveries'[d][k]
<1>1. r \in RecoveryRecord BY DEF TypeInv, MemoryOK, RecoveriesOK
<1>2. Proceeds(d, k, q) BY RecoveryStep
<1>3. /\ Advances(d, k, r, r) /\ Advances(d, k, r, NoRecovery)
      /\ Advances(d, k, r, [NoRecovery EXCEPT !.pc = "signal", !.owners = Recoverable(d)])
  BY DEF Advances, NoRecovery, Unseen
<1>4. ASSUME NEW pc \in {"owners", "select"}, SignalLost(d, k)
      PROVE  Advances(d, k, r, [r EXCEPT !.pc = pc])
  BY <1>1, <1>4 DEF Advances, RecoveryRecord
<1>5. ASSUME ChooseOwners(d, k)
      PROVE  Advances(d, k, r, [r EXCEPT !.pc = "select", !.owners = Recoverable(d)])
  <2>1. r.pc = "owners" BY <1>5 DEF ChooseOwners, Recovery
  <2>. QED BY <1>1, <2>1 DEF Advances, RecoveryRecord
<1>6. ASSUME SelectLost(d, k)
      PROVE  Advances(d, k, r, [r EXCEPT !.pc = "fail", !.seen = [t \in Task |-> Seen(t, r.owners)]])
  <2>1. r.pc = "select" BY <1>6 DEF SelectLost, Recovery
  <2>. DEFINE seen == [t \in Task |-> Seen(t, r.owners)]
  <2>2. \A t \in Task : seen[t] = Seen(t, r.owners) OBVIOUS
  <2>. HIDE DEF seen
  <2>3. Advances(d, k, r, [r EXCEPT !.pc = "fail", !.seen = seen])
    BY <1>1, <2>1, <2>2 DEF Advances, RecoveryRecord
  <2>. QED BY <2>3 DEF seen
<1>7. ASSUME NEW t \in Task, FailLostJob(d, k, t)
      PROVE  Advances(d, k, r, [r EXCEPT !.pc = "finish", !.current = {t}])
  <2>1. r.pc = "fail" BY <1>7 DEF FailLostJob, Chosen, Recovery
  <2>. QED BY <1>1, <2>1 DEF Advances, RecoveryRecord
<1>8. ASSUME NEW t \in Task, r.pc \in {"fail", "finish"}
      PROVE  Advances(d, k, r, Forget(r, t))
  BY <1>1, <1>8 DEF Advances, Forget, RecoveryRecord
<1>. HIDE DEF r, q
<1>9. Advances(d, k, r, q)
  BY Zenon, <1>2, <1>3, <1>4, <1>5, <1>6, <1>7, <1>8 DEF Proceeds, r
<1>. QED BY <1>9 DEF r, q

(* A recovery that knows of a task knows whose it is.                        *)
LEMMA OwnersChosenStep ==
  ASSUME TypeInv, OwnersChosen, [Next]_vars PROVE OwnersChosen'
<1>. SUFFICES ASSUME NEW d \in Daemon, NEW k \in Recoverer
              PROVE  /\ recoveries'[d][k].pc # "idle" => d \in recoveries'[d][k].owners
                     /\ recoveries'[d][k].owners \cap SoleOwner \subseteq {d}
  BY DEF OwnersChosen
<1>. DEFINE r == recoveries[d][k]
            q == recoveries'[d][k]
<1>1. Advances(d, k, r, q) BY RecoveryFields
<1>2. (r.pc # "idle" => d \in r.owners) /\ r.owners \cap SoleOwner \subseteq {d}
  BY DEF OwnersChosen
<1>3. SignalLost(d, k) => r.pc = "signal" BY DEF SignalLost, Recovery
<1>. HIDE DEF r, q
<1>4. (q.pc # "idle" => d \in q.owners) /\ q.owners \cap SoleOwner \subseteq {d}
  BY <1>1, <1>2, <1>3, RecoverableOwners DEF Advances
<1>. QED BY <1>4 DEF q

LEMMA OwnersSeenStep ==
  ASSUME TypeInv, CloseInv, OwnersSeen, [Next]_vars PROVE OwnersSeen'
<1>. SUFFICES ASSUME NEW d \in Daemon, NEW k \in Recoverer, NEW t \in Task
              PROVE  /\ recoveries'[d][k].seen[t] # "none" =>
                          /\ recoveries'[d][k].pc \in {"fail", "finish"}
                          /\ workers'[t].pc \notin {"none", "admitted"}
                          /\ tasks'[t].owner \in recoveries'[d][k].owners \union {NoDaemon}
                     /\ t \in recoveries'[d][k].current => ~(controls'[t].host = d)
  BY DEF OwnersSeen, IsRegistered
<1>. DEFINE r == recoveries[d][k]
            q == recoveries'[d][k]
<1>1. Advances(d, k, r, q) BY RecoveryFields
<1>2. Learns(d, k, t, q) BY RecoveryHistory
<1>3. ClosesLost(r) BY DEF TypeInv, MemoryOK, RecoveriesOK
<1>4. r.seen[t] # "none" =>
        /\ r.pc \in {"fail", "finish"} /\ workers[t].pc \notin {"none", "admitted"}
        /\ tasks[t].owner \in r.owners \union {NoDaemon}
  BY DEF OwnersSeen
<1>5. ASSUME r.pc = "select", Seen(t, r.owners) # "none"
      PROVE  workers[t].pc \notin {"none", "admitted"} /\ tasks[t].owner \in r.owners
  BY <1>5 DEF Seen, CloseInv, Fresh, IsOpenTask
<1>6. ASSUME workers[t].pc \notin {"none", "admitted"}
      PROVE  /\ workers'[t].pc \notin {"none", "admitted"}
             /\ tasks'[t].owner \in {tasks[t].owner, NoDaemon}
  BY <1>6, PcHistory, RowHistory DEF KeptRow, NoTask, At
<1>. HIDE DEF r, q
<1>7. ASSUME q.seen[t] # "none"
      PROVE  /\ q.pc \in {"fail", "finish"}
             /\ workers'[t].pc \notin {"none", "admitted"}
             /\ tasks'[t].owner \in q.owners \union {NoDaemon}
  <2>1. SignalLost(d, k) => r.pc = "signal" BY DEF SignalLost, Recovery, r
  <2>. QED BY <1>1, <1>4, <1>5, <1>6, <1>7, <2>1 DEF Advances, Unseen
<1>8. ASSUME t \in q.current PROVE ~(controls'[t].host = d)
  <2>1. controls[t].host # d /\ r.seen[t] # "none"
    <3>1. CASE t \in r.current BY <1>3, <3>1 DEF OwnersSeen, IsRegistered, ClosesLost, r
    <3>2. CASE FailLostJob(d, k, t)
      BY <3>2 DEF FailLostJob, Chosen, IsRegistered, Recovery, r
    <3>. QED BY <1>2, <1>8, <3>1, <3>2 DEF Learns, r
  <2>2. controls'[t].host \in {controls[t].host, NoDaemon}
    BY <1>4, <2>1, MovesStep DEF MovesOn, Stays, Enters, GoesOn, Leaves, Keeps, At
  <2>. QED BY <2>1, <2>2, NoDaemonAssumption
<1>. QED BY <1>7, <1>8 DEF q

(* Whatever has a row has an owner.                                          *)
LEMMA OwnedStep ==
  ASSUME TypeInv, CloseInv, RunInv, Owned, [Next]_vars PROVE Owned'
<1>. SUFFICES ASSUME NEW t \in Task, tasks'[t].status # "absent"
              PROVE  tasks'[t].owner \in Daemon
  BY DEF Owned
<1>1. CASE CreateTask(t)
  <2>1. tasks'[t].owner = controls[t].host
    BY <1>1 DEF CreateTask, CreateRow, NoTask, TypeInv, RowsOK
  <2>. QED BY <1>1, <2>1 DEF CreateTask, RunInv, Hosted, Active, At
<1>2. CASE ~CreateTask(t)
  <2>1. tasks[t].status # "absent"
    <3>. SUFFICES ASSUME tasks[t].status = "absent" PROVE FALSE OBVIOUS
    <3>1. ~IsOpenTask(t) /\ ~IsPending(t)
      BY DEF TypeInv, RowsOK, Row, IsOpenTask, IsPending
    <3>2. ~Writes(t) \/ DiscardTask(t)
      BY <1>2, <3>1 DEF Writes, RecordStart, MarkStarted, FailUnspawnedJob, CloseJob,
           OperatorEndsJob, CompleteJob, FailJob, FinishUnspawned, FinishRun, FinishTask,
           Terminalize, SaveCancel, CancelUnregistered, RecordCancel, FailLostJob, FinishLostTask,
           SettleLostTask
    <3>3. ~DiscardTask(t) BY DEF DiscardTask, DeleteRow
    <3>. QED BY <3>2, <3>3, WritersStep, WritesOneRow
  <2>. QED BY <2>1, RowHistory DEF KeptRow, NoTask, Owned, CloseInv, Fresh, At
<1>. QED BY <1>1, <1>2

(* Whatever becomes live unsignalled is registered.                          *)
LEMMA SignalledStep ==
  ASSUME TypeInv, CloseInv, RunInv, OrphanInv, [Next]_vars PROVE Signalled'
<1>. USE DEF OrphanInv
<1>. SUFFICES ASSUME NEW d \in SoleOwner, NEW k \in Recoverer, NEW t \in Task,
                     recoveries'[d][k].pc \in {"owners", "select", "fail", "finish"},
                     tasks'[t].owner = d, procs'[t].state = "live"
              PROVE  controls'[t].host = d
  BY DEF Signalled, IsRegistered
<1>. DEFINE r == recoveries[d][k]
            q == recoveries'[d][k]
<1>0. d \in Daemon BY DEF SoleOwner
<1>1. Advances(d, k, r, q) BY <1>0, RecoveryFields
<1>2. procs[t].state = "live" \/ ReleaseGate(t) BY ProcsStep
<1>3. CASE ReleaseGate(t)
  <2>1. workers[t].pc = "started" /\ UNCHANGED <<tasks, controls>> BY <1>3 DEF ReleaseGate, At
  <2>. QED BY <2>1 DEF RunInv, Hosted, BeforeRun
<1>4. CASE procs[t].state = "live"
  <2>1. workers[t].pc \in {"waiting", "done"} BY <1>4 DEF RunsInHand
  <2>2. tasks[t].owner = d BY <2>1, RowKept DEF KeptRow, At
  <2>3. IsOpenTask(t) /\ tasks[t].pid
    <3>1. tasks[t].pid /\ tasks[t].status # "absent" BY <1>4 DEF RunInv, Recorded
    <3>2. tasks[t].status \notin Ends BY <1>4, <2>2 DEF NotEndedEarly, IsEnded
    <3>3. tasks[t].status \in {"absent", "queued", "running"} \union Ends
      BY DEF TypeInv, RowsOK, Row, TaskRecord
    <3>. QED BY <3>1, <3>2, <3>3 DEF IsOpenTask
  <2>4. controls[t].host = d
    <3>1. CASE SignalLost(d, k)
      <4>1. d \in r.owners BY <1>0, <3>1 DEF SignalLost, Recovery, OwnersChosen
      <4>2. procs \in [Task -> ProcRecord] BY Types
      <4>3. Killed(procs[t]).state # "live" BY <4>2 DEF Killed, ProcRecord
      <4>4. t \notin LostProcesses(d, r.owners)
        BY <1>4, <3>1, <4>3 DEF SignalLost, Recovery
      <4>. QED BY <2>2, <2>3, <4>1, <4>4 DEF LostProcesses, IsRegistered
    <3>2. CASE ~SignalLost(d, k)
      <4>1. r.pc \in {"owners", "select", "fail", "finish"} BY <1>1, <3>2 DEF Advances
      <4>. QED BY <1>4, <2>2, <4>1 DEF Signalled, IsRegistered
    <3>. QED BY <3>1, <3>2
  <2>5. workers[t].pc = "waiting"
    BY <1>0, <2>1, <2>4 DEF RunInv, Hosted, Active
  <2>6. ASSUME NEW e \in Daemon, DaemonEnds(e), IsRegistered(t, e) PROVE FALSE
    <3>1. e = d BY <2>4, <2>6 DEF IsRegistered
    <3>2. recoveries' = [recoveries EXCEPT ![d] = [j \in Recoverer |-> NoRecovery]]
      BY <2>6, <3>1 DEF DaemonEnds
    <3>3. recoveries \in [Daemon -> [Recoverer -> RecoveryRecord]]
      BY DEF TypeInv, MemoryOK, RecoveriesOK
    <3>4. q.pc = "idle" BY <1>0, <3>2, <3>3 DEF NoRecovery
    <3>. QED BY <3>4
  <2>. QED BY <1>4, <2>4, <2>5, <2>6, WaitingStep DEF At
<1>. QED BY <1>2, <1>3, <1>4

(* A recovery that closes a task which nobody else recovers finds it         *)
(* unregistered and stopped.                                                 *)
LEMMA LostAreStopped ==
  ASSUME TypeInv, CloseInv, RunInv, OrphanInv,
         NEW d \in Daemon, NEW k \in Recoverer, NEW t \in Task, tasks[t].owner \in SoleOwner,
         recoveries[d][k].seen[t] # "none",
         ~IsRegistered(t, d) \/ t \in recoveries[d][k].current
  PROVE  tasks[t].owner = d /\ ~IsRegistered(t, d) /\ procs[t].state # "live"
<1>. USE DEF OrphanInv
<1>1. ~IsRegistered(t, d) BY DEF OwnersSeen
<1>2. /\ recoveries[d][k].pc \in {"fail", "finish"}
      /\ tasks[t].owner \in recoveries[d][k].owners \union {NoDaemon}
  BY DEF OwnersSeen
<1>3. tasks[t].owner = d
  BY <1>2, NoDaemonAssumption DEF OwnersChosen, SoleOwner
<1>. QED BY <1>1, <1>2, <1>3 DEF Signalled

(* Nobody but its worker ends a task whose owner alone recovers it while its *)
(* command runs, nor closes it before.                                       *)
LEMMA WritesInTime ==
  ASSUME TypeInv, CloseInv, RunInv, OrphanInv, NEW t \in Task, Writes(t), ~CreateTask(t),
         tasks[t].owner \in SoleOwner
  PROVE  /\ tasks'[t].status \in Ends => procs[t].state # "live"
         /\ workers[t].pc \in BeforeRun =>
              /\ IsOpenTask(t)'
              /\ OperatorCalls = {} => IsPending(t)'
<1>. USE DEF Leaves3
<1>1. /\ tasks[t].status \in Ends => procs[t].state # "live"
      /\ workers[t].pc \in BeforeRun =>
           /\ tasks[t].status \in {"queued", "running"}
           /\ OperatorCalls = {} => tasks[t].job = "pending"
  BY DEF OrphanInv, NotEndedEarly, IsEnded, IsOpenTask, IsPending
<1>2. workers[t].pc \notin {"waiting", "done"} => procs[t].state # "live"
  BY DEF OrphanInv, RunsInHand
<1>3. ASSUME NEW d \in Daemon, NEW k \in Recoverer,
             FailLostJob(d, k, t) \/ FinishLostTask(d, k, t) \/ SettleLostTask(d, k, t)
      PROVE  workers[t].pc \notin BeforeRun /\ procs[t].state # "live"
  <2>1. /\ recoveries[d][k].seen[t] # "none"
        /\ ~IsRegistered(t, d) \/ t \in recoveries[d][k].current
    BY <1>3 DEF FailLostJob, FinishLostTask, SettleLostTask, Chosen, Recovery, TypeInv, MemoryOK,
         RecoveriesOK, ClosesLost
  <2>2. tasks[t].owner = d /\ ~IsRegistered(t, d) /\ procs[t].state # "live"
    BY <2>1, LostAreStopped
  <2>. QED BY <2>2 DEF RunInv, Hosted, IsRegistered
<1>4. CASE DiscardTask(t)
  <2>1. tasks'[t] \in {tasks[t], NoTask} BY <1>4 DEF DiscardTask, DeleteRow, TypeInv, RowsOK
  <2>2. workers[t].pc \notin BeforeRun BY <1>4 DEF DiscardTask, At, BeforeRun
  <2>. QED BY <1>1, <2>1, <2>2 DEF NoTask, Ends
<1>5. CASE RecordStart(t) \/ OperatorEndsJob(t)
  <2>1. CASE RecordStart(t)
    BY <1>1, <2>1, TransactionEffects DEF RecordStart, Ends, IsOpenTask, IsPending
  <2>2. CASE OperatorEndsJob(t)
    BY <1>1, <2>2, TransactionEffects DEF OperatorEndsJob, IsOpenTask
  <2>. QED BY <1>5, <2>1, <2>2
<1>6. CASE FailUnspawnedJob(t) \/ CloseJob(t) \/ FinishUnspawned(t) \/ FinishRun(t) \/ Terminalize(t)
  BY <1>2, <1>6 DEF FailUnspawnedJob, CloseJob, FinishUnspawned, FinishRun, Terminalize, At, BeforeRun
<1>7. CASE (\E c \in Canceller : SaveCancel(t, c)) \/ \E d \in Daemon : CancelUnregistered(d, t)
  BY <1>1, <1>7, TransactionEffects DEF SaveCancel, CancelUnregistered, IsOpenTask, IsPending
<1>8. CASE \E d \in Daemon, k \in Recoverer :
             FailLostJob(d, k, t) \/ FinishLostTask(d, k, t) \/ SettleLostTask(d, k, t)
  BY <1>3, <1>8
<1>. QED BY <1>4, <1>5, <1>6, <1>7, <1>8 DEF Writes

(* Every step keeps tasks from being ended early.                            *)
LEMMA NotEndedEarlyStep ==
  ASSUME TypeInv, CloseInv, RunInv, OrphanInv, [Next]_vars PROVE NotEndedEarly'
<1>. SUFFICES ASSUME NEW t \in Task, tasks'[t].owner \in SoleOwner
              PROVE  /\ workers'[t].pc \in BeforeRun =>
                          /\ IsOpenTask(t)'
                          /\ OperatorCalls = {} => IsPending(t)'
                     /\ tasks'[t].status \in Ends => procs'[t].state # "live"
  BY DEF NotEndedEarly, IsEnded
<1>1. CASE CreateTask(t)
  BY <1>1, TransactionEffects DEF Leaves3, Ends, IsOpenTask, IsPending
<1>2. CASE At(t, "admitted") /\ ~CreateTask(t)
  <2>1. workers'[t].pc \notin BeforeRun
    BY <1>2, MovesStep DEF MovesOn, Stays, Enters, GoesOn, Leaves, BeforeRun, At
  <2>2. tasks'[t].status = "absent"
    <3>1. tasks[t].status = "absent" BY <1>2 DEF CloseInv, Fresh, At
    <3>2. ASSUME NEW u \in Task, Transaction(u) PROVE tasks'[t].status = "absent"
      BY <2>1, <3>1, <3>2, TransactionFine DEF At, BeforeRun
    <3>. QED BY <3>1, <3>2, RowsStep
  <2>. QED BY <2>1, <2>2 DEF Ends
<1>3. CASE ~At(t, "admitted")
  <2>1. ~CreateTask(t) BY <1>3 DEF CreateTask
  <2>2. tasks[t].owner \in SoleOwner
    BY <1>3, RowHistory, NoDaemonAssumption DEF KeptRow, NoTask, SoleOwner
  <2>3. /\ tasks[t].status \in Ends => procs[t].state # "live"
        /\ workers[t].pc \in BeforeRun =>
             /\ IsOpenTask(t)
             /\ OperatorCalls = {} => IsPending(t)
    BY <2>2 DEF OrphanInv, NotEndedEarly, IsEnded
  <2>4. workers'[t].pc \in BeforeRun => workers[t].pc \in BeforeRun
    BY <2>1, MovesStep DEF MovesOn, Stays, Enters, GoesOn, Leaves, BeforeRun
  <2>5. CASE Writes(t)
    <3>1. UNCHANGED procs BY <2>5, WritesOneRow
    <3>. QED BY <2>1, <2>2, <2>4, <2>5, <3>1, WritesInTime
  <2>6. CASE ~Writes(t)
    <3>1. tasks'[t] = tasks[t] BY <2>6, WritersStep, WritesOneRow
    <3>2. ReleaseGate(t) => tasks[t].status \notin Ends
      BY <2>3 DEF ReleaseGate, At, BeforeRun, IsOpenTask, Ends
    <3>. QED BY <2>3, <2>4, <3>1, <3>2, ProcsStep DEF IsOpenTask, IsPending
  <2>. QED BY <2>5, <2>6
<1>. QED BY <1>1, <1>2, <1>3

(* The invariant of the ended command holds of every reachable state.        *)
LEMMA OrphanCorrect == Spec => [](TypeInv /\ CloseInv /\ RunInv /\ OrphanInv)
<1>1. Init => OrphanInv
  <2>. SUFFICES ASSUME Init PROVE OrphanInv OBVIOUS
  <2>1. Owned /\ RunsInHand /\ OwnersChosen /\ Signalled
    BY DEF Init, Owned, RunsInHand, OwnersChosen, Signalled, NoTask, NoProc, NoRecovery, SoleOwner
  <2>2. OwnersSeen /\ NotEndedEarly
    BY NoDaemonAssumption
       DEF Init, OwnersSeen, NotEndedEarly, NoRecovery, NoTask, SoleOwner
  <2>. QED BY <2>1, <2>2 DEF OrphanInv
<1>2. TypeInv /\ CloseInv /\ RunInv /\ OrphanInv /\ [Next]_vars => OrphanInv'
  BY OwnedStep, RunsInHandStep, OwnersChosenStep, OwnersSeenStep, SignalledStep, NotEndedEarlyStep
     DEF OrphanInv
<1>. QED BY <1>1, <1>2, CloseCorrect, RunCorrect, PTL DEF Spec

(* The command of an ended task does not run, if the daemon that owns the    *)
(* task is the only one that recovers it: true of every task of the default  *)
(* socket, whatever other daemons there are.                                 *)
THEOREM SoleOwnerLeavesNoOrphan ==
  Spec => [](\A t \in Task : tasks[t].owner \in SoleOwner => (IsEnded(t) => procs[t].state # "live"))
<1>1. OrphanInv => \A t \in Task : tasks[t].owner \in SoleOwner =>
                                     (IsEnded(t) => procs[t].state # "live")
  BY DEF OrphanInv, NotEndedEarly
<1>. QED BY <1>1, OrphanCorrect, PTL

(* Without hand-off between versions no ended task has a running command:    *)
(* worker, error path, shutdown and recoveries stop it before they write the *)
(* end, and no recovery takes a running task for a lost one.                 *)
THEOREM NoOrphanedCommandAlways ==
  ASSUME Daemon \subseteq SoleOwner PROVE Spec => []NoOrphanedCommand
<1>1. OrphanInv => NoOrphanedCommand
  BY DEF OrphanInv, Owned, NotEndedEarly, NoOrphanedCommand, IsEnded, Ends
<1>. QED BY <1>1, OrphanCorrect, PTL

-----------------------------------------------------------------------------
(* The promise of BackgroundTask. *)

(* A command that did not end has no exit status, and the end that a worker  *)
(* decided when it reaped its command is what the exit status says.          *)
CodeInv == \A t \in Task :
  /\ procs[t].state \in {"none", "gated", "live"} => procs[t].code = "none"
  /\ At(t, "reaped") => /\ procs[t].state = "gone"
                        /\ workers[t].result = "succeeded" => procs[t].code = "zero"

(* What the steps of a process do to its command.                            *)
LEMMA CommandMoves ==
  ASSUME TypeInv, RunInv, CodeInv, [Next]_vars, NEW t \in Task
  PROVE  /\ procs'[t].state \in {"none", "gated", "live"} => procs'[t].code = "none"
         /\ procs[t].state = "gone" => procs'[t] = procs[t]
         /\ \/ CommandOf(t)' = CommandOf(t)
            \/ CommandOf(t) = "running" /\ CommandOf(t)' = "stopped"
            \/ CommandOf(t) = "idle" /\ CommandOf(t)' = "running" /\ ReleaseGate(t)
<1>0. procs \in [Task -> ProcRecord] /\ procs[t] \in ProcRecord BY Types
<1>1. procs[t].state \in {"none", "gated", "live"} => procs[t].code = "none" BY DEF CodeInv
<1>2. CASE procs'[t] = procs[t] BY <1>1, <1>2 DEF CommandOf
<1>3. CASE procs'[t] = Killed(procs[t])
  BY <1>0, <1>1, <1>3 DEF CommandOf, Killed, ProcRecord
<1>4. CASE Spawn(t)
  <2>1. procs[t].state = "none" BY <1>4 DEF RunInv, Recorded, Spawn, At, Unspawned
  <2>2. procs'[t].state = "gated" /\ procs'[t].code = procs[t].code
    BY <1>0, <1>4 DEF Spawn, ProcRecord
  <2>. QED BY <1>1, <2>1, <2>2 DEF CommandOf
<1>5. CASE ReleaseGate(t)
  <2>1. procs[t].state = "gated" BY <1>5 DEF ReleaseGate
  <2>2. procs'[t].state = "live" /\ procs'[t].code = procs[t].code
    BY <1>0, <1>5 DEF ReleaseGate, ProcRecord
  <2>. QED BY <1>1, <1>5, <2>1, <2>2 DEF CommandOf
<1>6. CASE LeaderExits(t)
  <2>1. PICK code \in {"zero", "nonzero"}, state \in {"orphans", "gone"} :
               procs' = [procs EXCEPT ![t] = [state |-> state, code |-> code]]
    BY <1>6 DEF LeaderExits
  <2>2. procs[t].state = "live" BY <1>6 DEF LeaderExits
  <2>3. procs'[t].state = state /\ procs'[t].code = code BY <1>0, <2>1
  <2>. QED BY <1>1, <2>2, <2>3 DEF CommandOf
<1>. QED BY <1>2, <1>3, <1>4, <1>5, <1>6, ProcHistory DEF ProcMoves

LEMMA CodeInvStep ==
  ASSUME TypeInv, RunInv, CodeInv, [Next]_vars PROVE CodeInv'
<1>. SUFFICES ASSUME NEW t \in Task
              PROVE  /\ procs'[t].state \in {"none", "gated", "live"} => procs'[t].code = "none"
                     /\ At(t, "reaped")' => /\ procs'[t].state = "gone"
                                            /\ workers'[t].result = "succeeded" => procs'[t].code = "zero"
  BY DEF CodeInv
<1>1. CASE Reap(t)
  <2>1. procs[t].state = "gone" /\ procs' = procs BY <1>1 DEF Reap
  <2>2. workers'[t].result = ResultOf(t, SeenCancelled(t))
    BY <1>1 DEF Reap, TypeInv, MemoryOK, WorkersOK, WorkerRecord
  <2>. QED BY <2>1, <2>2 DEF ResultOf
<1>2. CASE UNCHANGED workers[t] BY <1>2, CommandMoves DEF CodeInv, At
<1>3. CASE ~At(t, "reaped")' BY <1>3, CommandMoves
<1>. QED BY <1>1, <1>2, <1>3, PcHistory

(* The invariant of the exit status holds of every reachable state.          *)
LEMMA CodeCorrect ==
  Spec => [](TypeInv /\ CloseInv /\ RunInv /\ AskedInv /\ OrphanInv /\ CodeInv)
<1>1. Init => CodeInv
  <2>1. ASSUME Init, NEW t \in Task
        PROVE  procs[t].code = "none" /\ ~At(t, "reaped")
    BY <2>1 DEF Init, NoProc, NoWorker, At
  <2>. QED BY <2>1 DEF CodeInv
<1>2. TypeInv /\ RunInv /\ CodeInv /\ [Next]_vars => CodeInv' BY CodeInvStep
<1>. QED BY <1>1, <1>2, AskedCorrect, OrphanCorrect, PTL DEF Spec

(* A step of the promise, or none.                                           *)
PromiseStep == [Promise!TaskNext]_<<[t \in Task |-> tasks[t].job], [t \in Task |-> CommandOf(t)],
                                    {t \in Task : tasks[t].cancel}>>

(* A step that writes the row of one task is one of the promise's, or none.  *)
LEMMA WritesKeepPromise ==
  ASSUME TypeInv, CloseInv, RunInv, AskedInv, OrphanInv, CodeInv,
         Daemon \subseteq SoleOwner, OperatorCalls = {}, NEW t \in Task, Writes(t)
  PROVE  PromiseStep
<1>. DEFINE out == [u \in Task |-> tasks[u].job]
            com == [u \in Task |-> CommandOf(u)]
            can == {u \in Task : tasks[u].cancel}
<1>0. /\ \A u \in Task \ {t} : tasks'[u] = tasks[u]
      /\ com' = com
  BY WritesOneRow DEF CommandOf
<1>1. ASSUME NEW job, NEW cancel \in BOOLEAN, tasks'[t].job = job, tasks'[t].cancel = cancel
      PROVE  /\ out' = [out EXCEPT ![t] = job]
             /\ can' = IF cancel THEN can \union {t} ELSE can \ {t}
  BY <1>0, <1>1
<1>2. out[t] = tasks[t].job /\ com[t] = CommandOf(t) /\ (t \in can <=> tasks[t].cancel)
  OBVIOUS
<1>3. tasks[t].job \in {"absent", "pending", "completed", "failed"} /\ tasks[t].cancel \in BOOLEAN
  BY DEF TypeInv, RowsOK, Row, TaskRecord
<1>4. can \subseteq Task /\ DOMAIN out = Task OBVIOUS
<1>. DEFINE Kept == [Promise!TaskNext]_<<out, com, can>>
<1>. SUFFICES Kept BY DEF PromiseStep
<1>5. ASSUME NEW status, Leaves3(t, tasks[t].job, status, tasks[t].cancel) PROVE Kept
  <2>1. out' = [out EXCEPT ![t] = tasks[t].job] /\ can' = IF tasks[t].cancel THEN can \union {t} ELSE can \ {t}
    BY <1>1, <1>3, <1>5 DEF Leaves3
  <2>2. [out EXCEPT ![t] = tasks[t].job] = out BY <1>2, <1>4
  <2>3. can' = can BY <1>2, <2>1
  <2>. QED BY <1>0, <2>1, <2>2, <2>3
<1>6. ASSUME NEW status, Leaves3(t, tasks[t].job, status, TRUE), tasks[t].job # "absent" PROVE Kept
  <2>1. out' = [out EXCEPT ![t] = tasks[t].job] /\ can' = can \union {t}
    BY <1>1, <1>6 DEF Leaves3
  <2>2. [out EXCEPT ![t] = tasks[t].job] = out BY <1>2, <1>4
  <2>3. Promise!Cancel(t) BY <1>0, <1>2, <1>6, <2>1, <2>2 DEF Promise!Cancel
  <2>. QED BY <2>3 DEF Promise!TaskNext
<1>7. ASSUME NEW status, NEW job, Leaves3(t, job, status, tasks[t].cancel) 
      PROVE  out' = [out EXCEPT ![t] = job] /\ can' = can
  <2>1. out' = [out EXCEPT ![t] = job] /\ can' = IF tasks[t].cancel THEN can \union {t} ELSE can \ {t}
    BY <1>1, <1>3, <1>7 DEF Leaves3
  <2>. QED BY <1>2, <2>1
<1>8. ASSUME NEW status, Leaves3(t, "failed", status, tasks[t].cancel), IsPending(t),
             procs[t].state # "live"
      PROVE  Kept
  <2>1. out' = [out EXCEPT ![t] = "failed"] /\ can' = can BY <1>7, <1>8
  <2>2. com[t] # "running" BY <1>2, <1>8 DEF CommandOf
  <2>3. Promise!Fail(t) BY <1>0, <1>2, <1>8, <2>1, <2>2 DEF Promise!Fail, IsPending
  <2>. QED BY <2>3 DEF Promise!TaskNext
<1>9. ASSUME NEW status, Leaves3(t, "completed", status, tasks[t].cancel), IsPending(t),
             procs[t].state = "gone", procs[t].code = "zero"
      PROVE  Kept
  <2>1. out' = [out EXCEPT ![t] = "completed"] /\ can' = can BY <1>7, <1>9
  <2>2. com[t] = "stopped" BY <1>2, <1>9 DEF CommandOf
  <2>3. Promise!Complete(t) BY <1>0, <1>2, <1>9, <2>1, <2>2 DEF Promise!Complete, IsPending
  <2>. QED BY <2>3 DEF Promise!TaskNext
<1>10. CASE CreateTask(t)
  <2>1. Leaves3(t, "pending", "queued", FALSE) BY <1>10, TransactionEffects
  <2>2. tasks[t].status = "absent" /\ ~tasks[t].cancel
    BY <1>10 DEF CreateTask, CloseInv, Fresh, AskedInv, Unheard, At
  <2>3. tasks[t].job = "absent" BY <2>2 DEF TypeInv, RowsOK, Row
  <2>4. Leaves3(t, "pending", "queued", tasks[t].cancel) BY <1>3, <2>1, <2>2 DEF Leaves3
  <2>5. out' = [out EXCEPT ![t] = "pending"] /\ can' = can BY <1>7, <2>4
  <2>6. Promise!Submit(t) BY <1>0, <1>2, <2>3, <2>5 DEF Promise!Submit
  <2>. QED BY <2>6 DEF Promise!TaskNext
<1>11. CASE DiscardTask(t)
  <2>1. CASE IsPending(t) /\ tasks' = [tasks EXCEPT ![t] = NoTask]
    <3>1. tasks'[t].job = "absent" /\ tasks'[t].cancel = FALSE
      BY <2>1 DEF TypeInv, RowsOK, NoTask
    <3>2. out' = [out EXCEPT ![t] = "absent"] /\ can' = can \ {t} BY <1>1, <3>1
    <3>3. procs[t].state = "none" BY <1>11 DEF DiscardTask, RunInv, Recorded, Unspawned, At
    <3>4. com[t] = "idle" BY <1>2, <3>3 DEF CommandOf
    <3>5. Promise!Withdraw(t) BY <1>0, <1>2, <2>1, <3>2, <3>4 DEF Promise!Withdraw, IsPending
    <3>. QED BY <3>5 DEF Promise!TaskNext
  <2>2. CASE tasks' = tasks BY <1>0, <2>2
  <2>. QED BY <1>11, <2>1, <2>2 DEF DiscardTask, DeleteRow
<1>12. CASE RecordStart(t) BY <1>5, <1>12, TransactionEffects DEF RecordStart
<1>13. ASSUME NEW reason, FailJob(t, reason), procs[t].state # "live" PROVE Kept
  <2>1. IsPending(t) BY <1>13 DEF FailJob
  <2>. QED BY <1>8, <1>13, <2>1, TransactionEffects
<1>14. \A status : FinishTask(t, status) => Kept BY <1>5, TransactionEffects
<1>15. workers[t].pc \notin {"waiting", "done"} => procs[t].state # "live"
  BY DEF OrphanInv, RunsInHand
<1>16. CASE FailUnspawnedJob(t) BY <1>13, <1>15, <1>16 DEF FailUnspawnedJob, At
<1>17. CASE CloseJob(t)
  <2>1. /\ procs[t].state = "gone"
        /\ workers[t].result = "succeeded" => procs[t].code = "zero"
    BY <1>17 DEF CloseJob, CodeInv
  <2>2. CASE CompleteJob(t) /\ workers[t].result = "succeeded"
    <3>1. IsPending(t) BY <2>2 DEF CompleteJob
    <3>. QED BY <1>9, <2>1, <2>2, <3>1, TransactionEffects
  <2>. QED BY <1>13, <1>17, <2>1, <2>2 DEF CloseJob
<1>18. CASE Terminalize(t)
  <2>1. PICK status, reason : FailTaskWithJob(t, status, reason) BY <1>18 DEF Terminalize
  <2>2. PICK new : Leaves3(t, IF IsPending(t) THEN "failed" ELSE tasks[t].job, new, tasks[t].cancel)
    BY <2>1, TransactionEffects
  <2>3. procs[t].state # "live" BY <1>15, <1>18 DEF Terminalize, At
  <2>. QED BY <1>5, <1>8, <2>2, <2>3
<1>19. ASSUME RecordCancel(t) PROVE Kept
  <2>1. tasks[t].job # "absent" BY <1>19 DEF RecordCancel, TypeInv, RowsOK, Row
  <2>. QED BY <1>5, <1>6, <1>19, <2>1, TransactionEffects
<1>20. ASSUME NEW d \in Daemon, NEW k \in Recoverer, FailLostJob(d, k, t) PROVE Kept
  <2>1. IsOpenTask(t) \/ tasks[t].status \in Ends
    <3>1. IsPending(t) BY <1>20 DEF FailLostJob, FailJob
    <3>. QED BY <3>1 DEF TypeInv, RowsOK, Row, TaskRecord, IsPending, IsOpenTask
  <2>2. tasks[t].owner \in SoleOwner
    BY <2>1 DEF OrphanInv, Owned, IsOpenTask, Ends
  <2>3. recoveries[d][k].seen[t] # "none" /\ ~IsRegistered(t, d)
    BY <1>20 DEF FailLostJob, Chosen, Recovery
  <2>4. procs[t].state # "live" BY <2>2, <2>3, LostAreStopped
  <2>. QED BY <1>13, <1>20, <2>4 DEF FailLostJob
<1>21. ~OperatorEndsJob(t) BY DEF OperatorEndsJob
<1>22. CASE \/ FinishUnspawned(t) \/ FinishRun(t)
            \/ \E d \in Daemon, k \in Recoverer : FinishLostTask(d, k, t) \/ SettleLostTask(d, k, t)
  BY <1>14, <1>22 DEF FinishUnspawned, FinishRun, FinishLostTask, SettleLostTask
<1>23. CASE (\E c \in Canceller : SaveCancel(t, c)) \/ \E d \in Daemon : CancelUnregistered(d, t)
  BY <1>19, <1>23 DEF SaveCancel, CancelUnregistered
<1>. HIDE DEF Kept
<1>. QED
  BY <1>10, <1>11, <1>12, <1>16, <1>17, <1>18, <1>20, <1>21, <1>22, <1>23 DEF Writes

(* So is a step of the processes.                                            *)
LEMMA ProcessesKeepPromise ==
  ASSUME TypeInv, CloseInv, RunInv, OrphanInv, CodeInv,
         Daemon \subseteq SoleOwner, OperatorCalls = {}, [Next]_vars, UNCHANGED tasks
  PROVE  PromiseStep
<1>. DEFINE out == [t \in Task |-> tasks[t].job]
            com == [t \in Task |-> CommandOf(t)]
            can == {t \in Task : tasks[t].cancel}
<1>1. out' = out /\ can' = can OBVIOUS
<1>2. \A t \in Task : com[t] = CommandOf(t) /\ com'[t] = CommandOf(t)' OBVIOUS
<1>3. com = [t \in Task |-> com[t]] /\ com' = [t \in Task |-> com'[t]] OBVIOUS
<1>4. \A t \in Task : \/ com'[t] = com[t]
                      \/ com[t] = "running" /\ com'[t] = "stopped"
                      \/ com[t] = "idle" /\ com'[t] = "running" /\ ReleaseGate(t)
  BY <1>2, CommandMoves
<1>5. ASSUME NEW t \in Task, ReleaseGate(t) PROVE Promise!Run(t)
  <2>1. IsPending(t)
    <3>1. workers[t].pc \in BeforeRun BY <1>5 DEF ReleaseGate, At, BeforeRun
    <3>2. tasks[t].owner \in SoleOwner
      BY <3>1, NoDaemonAssumption DEF RunInv, Hosted, BeforeRun, Active
    <3>. QED BY <3>1, <3>2 DEF OrphanInv, NotEndedEarly
  <2>2. ~tasks[t].cancel
    BY <1>5 DEF ReleaseGate, CancelInFlight, RunInv, CancelKnown, BeforeRun, At
  <2>3. com[t] = "idle" BY <1>2, <1>5 DEF ReleaseGate, CommandOf
  <2>4. \A u \in Task \ {t} : com'[u] = com[u]
    <3>1. \A u \in Task \ {t} : procs'[u] = procs[u] BY <1>5 DEF ReleaseGate
    <3>. QED BY <1>2, <3>1 DEF CommandOf
  <2>5. com'[t] = "running"
    <3>1. procs'[t].state = "live" /\ procs'[t].code = procs[t].code
      BY <1>5, Types DEF ReleaseGate, ProcRecord
    <3>2. procs[t].code = "none" BY <1>5 DEF ReleaseGate, CodeInv
    <3>. QED BY <1>2, <3>1, <3>2 DEF CommandOf
  <2>. HIDE DEF com
  <2>6. com' = [com EXCEPT ![t] = "running"] BY <1>3, <2>4, <2>5
  <2>. QED BY <1>1, <2>1, <2>2, <2>3, <2>6 DEF Promise!Run, IsPending, com
<1>6. ASSUME \A t \in Task : ~ReleaseGate(t) PROVE \E S \in SUBSET Task : Promise!StopAll(S)
  <2>. DEFINE S == {t \in Task : com'[t] # com[t]}
  <2>1. \A t \in S : com[t] = "running" /\ com'[t] = "stopped" BY <1>4, <1>6
  <2>. HIDE DEF com
  <2>2. com' = [t \in Task |-> IF t \in S THEN "stopped" ELSE com[t]] BY <1>3, <2>1
  <2>3. Promise!StopAll(S) BY <1>1, <2>1, <2>2 DEF Promise!StopAll, com
  <2>. QED BY <2>3
<1>7. Promise!TaskNext BY <1>5, <1>6 DEF Promise!TaskNext
<1>. QED BY <1>7 DEF PromiseStep

(* Without hand-off between versions, and as long as nobody closes a job by  *)
(* hand, the supervisor implements what BackgroundTask promises: however     *)
(* worker, cancellations, crashes and recoveries interleave, a command runs  *)
(* at most once and not after a cancellation on record, and its outcome is   *)
(* decided once, when it does not run, as completed if it ended by itself.   *)
THEOREM KeepsPromiseAlways ==
  ASSUME Daemon \subseteq SoleOwner, OperatorCalls = {} PROVE Spec => KeepsPromise
<1>1. Init => Promise!TaskInit
  BY DEF Init, Promise!TaskInit, NoTask, NoProc, CommandOf
<1>2. TypeInv /\ CloseInv /\ RunInv /\ AskedInv /\ OrphanInv /\ CodeInv /\ [Next]_vars
      => PromiseStep
  BY WritersStep, WritesKeepPromise, ProcessesKeepPromise
<1>3. Init /\ [][Next]_vars => KeepsPromise
  BY <1>1, <1>2, CodeCorrect, PTL DEF Spec, KeepsPromise, Promise!TaskSpec, PromiseStep
<1>. QED BY <1>3 DEF Spec
=============================================================================
