--------------------------- MODULE DeliveryStore ----------------------------
(***************************************************************************)
(* The delivery core of the cbth store: the batch queue, the CLI managed   *)
(* sessions, the two delivery adapters and the maintenance sweep, every    *)
(* transaction interleaved with every other.                               *)
(***************************************************************************)
EXTENDS CliSessions, AppServerDelivery

CONSTANTS
  AuthModes,     \* authorization modes the callers use
  Profiles,      \* permission values (allows) a session may be created with
  Snapshots,     \* permission values a permission snapshot may report
  Requirements   \* permission values a bind command may insist on

ASSUME InputAssumption == /\ AuthModes \subseteq {"strict_safe", "trusted_all"}
                          /\ Profiles \subseteq BOOLEAN /\ Snapshots \subseteq BOOLEAN
                          /\ Requirements \subseteq SUBSET BOOLEAN

-----------------------------------------------------------------------------
(* The maintenance sweep. *)

(* The choices of ORDER BY key LIMIT n: equal keys may be taken in any order. *)
Oldest(D, key, n) ==
  {S \in SUBSET D : /\ Cardinality(S) = IF Cardinality(D) < n THEN Cardinality(D) ELSE n
                    /\ \A x \in S, y \in D \ S : key[x] <= key[y]}

(* A slip for the mutation runs: batches already manual are passed over. *)
StaleAcceptancesAutomatic(adapter, timeout, at) ==
  {a \in Attempt : /\ IsAcceptPending(a, adapter)
                   /\ attempts[a].started_at + timeout <= at
                   /\ IsOpen(attempts[a].batch) /\ IsAutomatic(attempts[a].batch)}

StaleAcceptances(adapter, timeout, at) ==
  {a \in Attempt : /\ IsAcceptPending(a, adapter)
                   /\ attempts[a].started_at + timeout <= at
                   /\ IsOpen(attempts[a].batch)}

DueObservations(adapter, at) ==
  {a \in Attempt : /\ attempts[a].adapter = adapter
                   /\ attempts[a].state = "cooldown" /\ attempts[a].obs = "tracking"
                   /\ attempts[a].deadline <= at
                   /\ IsOpen(attempts[a].batch)}

StartedAt == [a \in Attempt |-> attempts[a].started_at]
DeadlineOf == [a \in Attempt |-> attempts[a].deadline]

StaleToSweep(adapter, timeout, at) ==
  Oldest(StaleAcceptances(adapter, timeout, at), StartedAt, SweepLimit)
DueToSweep(adapter, at) == Oldest(DueObservations(adapter, at), DeadlineOf, SweepLimit)

(* Attempts once the sends U are given up as unknown, the CLI turns C and    *)
(* the app-server turns P as unobserved. A thread has one attempt in flight  *)
(* and a session one thread, so the rows do not interfere and the order of   *)
(* the four loops is immaterial.                                             *)
AttemptsAfter(U, C, P) ==
  [a \in Attempt |->
     IF a \in U THEN AbandonedUnknown(attempts[a])
     ELSE IF a \in C
          THEN Abandoned(attempts[a], IF SessionIsCurrent(a) THEN "expired" ELSE "abandoned")
     ELSE IF a \in P THEN Abandoned(attempts[a], "expired")
     ELSE attempts[a]]

(* A slip for the mutation runs: an attempt in flight does not hold it open. *)
ExpiredBatchesInFlightToo(as, bs, policy, at) ==
  {b \in Batch : /\ bs[b].state = "open" /\ bs[b].policy = policy
                 /\ bs[b].window_ends_at <= at}

(* close_expired_manual_batches_tx and close_expired_automatic_batches_tx:   *)
(* past its window, and not before its attempt in flight has ended.          *)
ExpiredBatches(as, bs, policy, at) ==
  {b \in Batch : /\ bs[b].state = "open" /\ bs[b].policy = policy
                 /\ bs[b].window_ends_at <= at
                 /\ \A a \in Attempt : as[a].batch = b => as[a].state \notin ActiveStates}

SweepTables(U, C, P, at) ==
  LET as == AttemptsAfter(U, C, P)
      bs == Manualized(batches, {attempts[a].batch : a \in U \union C \union P}, at)
      windows == [b \in Batch |-> bs[b].window_ends_at]
  IN  \E M \in Oldest(ExpiredBatches(as, bs, "manual_resolution_only", at), windows, SweepLimit),
         A \in Oldest(ExpiredBatches(as, bs, "automatic", at), windows, SweepLimit) :
        /\ batches' = Closed(Closed(bs, M, "manual_resolution_expired"), A,
                             "redelivery_window_exhausted")
        /\ attempts' = AttemptsClosedWith(as, M \union A)
        /\ sessions' = Invalidated(SessionsAfterLoss(U \union C),
                         Fences({a \in Attempt : /\ as[a].batch \in M \union A
                                                 /\ as[a].state \in ActiveStates}))

(* sweep, first transaction *)
Sweep ==
  /\ \E at \in Recent :
       \E U1 \in StaleToSweep("cli", AcceptTimeout, at),
          C \in DueToSweep("cli", at),
          U2 \in StaleToSweep("codex_app_server", AppServerAcceptTimeout, at),
          P \in DueToSweep("codex_app_server", at) :
         SweepTables(U1 \union U2, C, P, at)
  /\ UNCHANGED clock

(* sweep_codex_app_server_delivery_cleanup: what still runs while lifecycle  *)
(* maintenance is suppressed.                                                *)
SweepAppServer ==
  /\ \E at \in Recent :
       \E U \in StaleToSweep("codex_app_server", AppServerAcceptTimeout, at),
          P \in DueToSweep("codex_app_server", at) :
         /\ attempts' = AttemptsAfter(U, {}, P)
         /\ batches' = Manualized(batches, {attempts[a].batch : a \in U \union P}, at)
  /\ UNCHANGED <<sessions, clock>>

Tick == /\ clock < MaxTime
        /\ clock' = clock + 1
        /\ UNCHANGED <<batches, attempts, sessions>>

-----------------------------------------------------------------------------
QueueNext == \E b \in Batch : \/ CompleteJob(b)
                              \/ FailJob(b)
                              \/ EnqueuePlugin(b)
                              \/ CloseHead(b)
                              \/ ManualizePlugin(b)

SessionNext == \E s \in Session :
  \/ \E allows \in Profiles : CreateSession(s, allows)
  \/ \E required \in Requirements : Reattach(s, required)
  \/ \E new \in Session, required \in Requirements, allows \in Profiles :
       ReplaceSession(s, new, required, allows)
  \/ RetireSession(s)
  \/ \E activity \in {"active", "idle"} : NoteActivity(s, activity)
  \/ \E capable \in BOOLEAN : NoteCapabilities(s, capable)
  \/ \E allows \in Snapshots : NotePermissions(s, allows)
  \/ InvalidateProof(s)
  \/ InvalidateCurrentProof(s)

CliNext == \E a \in Attempt :
  \/ \E b \in Batch, s \in Session, auth \in AuthModes : BeginCli(a, b, s, auth)
  \/ AcceptCli(a)
  \/ \E manual \in BOOLEAN : RejectCli(a, manual)
  \/ RejectCliAgain(a)
  \/ ExpireCli(a)
  \/ \E event \in TurnEvents : ObserveCli(a, event)

AppServerNext == \E a \in Attempt :
  \/ \E b \in Batch : BeginAppServer(a, b)
  \/ AcceptAppServer(a)
  \/ \E manual \in BOOLEAN : RejectAppServer(a, manual)
  \/ RejectAppServerAgain(a)
  \/ AbandonAppServerUnknown(a)
  \/ \E event \in TurnEvents : ObserveAppServer(a, event)

Next == QueueNext \/ SessionNext \/ CliNext \/ AppServerNext \/ Sweep \/ SweepAppServer \/ Tick

Spec == Init /\ [][Next]_vars

(* The maintenance thread sweeps whenever something is due, and time passes. *)
FairSpec == Spec /\ WF_vars(Sweep) /\ WF_vars(Tick)

-----------------------------------------------------------------------------
(* Safety. *)

(* A thread has at most one delivery in flight, whichever adapter, batch or  *)
(* session it goes through: begin and enqueue check it, and no transition    *)
(* brings a finished attempt back.                                           *)
OneInFlight == \A a, c \in Attempt :
  /\ Active(a) /\ Active(c)
  /\ ThreadOf[attempts[a].batch] = ThreadOf[attempts[c].batch]
  => a = c

(* Nothing is in flight for a closed batch: close_batch_tx closes the        *)
(* attempts with it, and no answer that comes later reopens one.             *)
ClosedBatchQuiet == \A a \in Attempt : Active(a) => IsOpen(attempts[a].batch)

(* A batch reaches the thread at most once: of all its attempts, at most one *)
(* was not refused before acceptance. A retry is only ever made when Codex   *)
(* is known not to have started the turn.                                    *)
AtMostOneDispatch == \A a, c \in Attempt :
  /\ a # c
  /\ attempts[a].state # "absent" /\ attempts[c].state # "absent"
  /\ attempts[a].batch = attempts[c].batch
  => "rejected_before_accept" \in {attempts[a].rpc, attempts[c].rpc}

(* An attempt given up with its outcome unknown leaves the batch to the      *)
(* operator: it is never automatic again.                                    *)
AmbiguityIsManual == \A a \in Attempt :
  /\ attempts[a].state = "abandoned" /\ attempts[a].rpc # "rejected_before_accept"
  /\ IsOpen(attempts[a].batch)
  => ~IsAutomatic(attempts[a].batch)

(* What a batch has spent: its accepted turns, and the app-server sends that *)
(* were refused. It never exceeds the budget.                                *)
Spent(b) == Cardinality({a \in OnBatch(b) :
  \/ attempts[a].rpc = "accepted"
  \/ attempts[a].rpc = "rejected_before_accept" /\ attempts[a].adapter = "codex_app_server"})

BudgetAccounting == \A b \in Batch :
  /\ batches[b].attempt_count = Spent(b)
  /\ batches[b].attempt_count <= batches[b].max_attempts

(* One proof, one send: two attempts are never begun in the same epoch of a  *)
(* session. Whatever ends an attempt also ends the epoch, or parks the       *)
(* session for good.                                                         *)
ProofUsedOnce == \A a, c \in Attempt :
  /\ a # c
  /\ attempts[a].session # NoSession
  /\ attempts[a].session = attempts[c].session
  => attempts[a].epoch # attempts[c].epoch

-----------------------------------------------------------------------------
(* Action properties. *)

(* An attempt in flight is only closed by its own completion or by the       *)
(* operator: the sweep lets it outlive the redelivery window of its batch.   *)
InFlightOutlivesWindow ==
  [][\A a \in Attempt : Active(a) /\ attempts'[a].state = "closed" =>
       batches'[attempts[a].batch].close_reason \in {"delivered", "operator"}]_vars

(* A finished attempt stays finished. The only way back is a completion that *)
(* was observed before the deadline and reported after it, and that closes   *)
(* the batch at once.                                                        *)
NoRevival ==
  [][\A a \in Attempt :
       /\ attempts[a].state \in {"abandoned", "closed"}
       => \/ attempts'[a].state = attempts[a].state
          \/ /\ attempts[a].obs = "expired"
             /\ attempts'[a].state = "closed"
             /\ batches'[attempts[a].batch].close_reason = "delivered"]_vars

(* A strict_safe turn is accepted, and counted as delivered while it is      *)
(* tracked, only if the session allows nothing at that moment, even when a   *)
(* permission snapshot changed since the attempt began, and only for a batch *)
(* whose delivery needs nothing.                                             *)
StrictSafeHonoured ==
  [][\A a \in Attempt :
       /\ Active(a) /\ attempts[a].auth = "strict_safe"
       /\ \/ attempts[a].rpc # "accepted" /\ attempts'[a].rpc = "accepted"
          \/ attempts[a].obs # "completed" /\ attempts'[a].obs = "completed"
       => /\ ~sessions[attempts[a].session].allows
          /\ sessions[attempts[a].session].pinned => sessions[attempts[a].session].fresh
          /\ batches[attempts[a].batch].detachable]_vars

-----------------------------------------------------------------------------
(* Liveness under FairSpec: a send that is never answered and a turn that is *)
(* never seen to end are given up, when their time comes within the bound.   *)
SendResolves == \A a \in Attempt :
  /\ attempts[a].state = "accept_pending"
  /\ attempts[a].started_at +
       (IF attempts[a].adapter = "cli" THEN AcceptTimeout ELSE AppServerAcceptTimeout) <= MaxTime
  ~> attempts[a].state # "accept_pending"

TurnResolves == \A a \in Attempt :
  (attempts[a].state = "cooldown" /\ attempts[a].deadline <= MaxTime)
  ~> attempts[a].state # "cooldown"

(* Neither an unanswered send nor an unobserved turn stays in flight.        *)
AttemptsResolve == SendResolves /\ TurnResolves

-----------------------------------------------------------------------------
(* The store keeps the promise of DeliveryQueue. *)
StatusOf(b) ==
  CASE batches[b].state = "absent" -> "absent"
    [] batches[b].state = "closed" -> IF batches[b].close_reason = "delivered"
                                      THEN "delivered" ELSE "dropped"
    [] batches[b].state = "open"   -> IF ActiveOn(b) # {} THEN "inflight"
                                      ELSE IF IsAutomatic(b) THEN "queued" ELSE "manual"

Exposed(b) == \E a \in OnBatch(b) : attempts[a].rpc # "rejected_before_accept"

Queue == INSTANCE DeliveryQueue WITH status <- [b \in Batch |-> StatusOf(b)],
                                     exposed <- [b \in Batch |-> Exposed(b)]

(* Every behaviour of the store is one of the queue that delivers at most    *)
(* once: whatever the adapters, sessions, timeouts and sweeps do.            *)
RefinesQueue == Queue!QueueSpec
=============================================================================
