--------------------------- MODULE DeliveryProofs ---------------------------
(***************************************************************************)
(* Theorems about the delivery core, for any number of threads, batches,   *)
(* attempts and sessions and any timeouts.                                 *)
(*                                                                         *)
(* 1. Types: whatever the callers do, each table only ever holds rows the  *)
(* schema and the code allow. First what the updates of DeliveryState      *)
(* return, then one lemma per group of actions.                            *)
(*                                                                         *)
(* 2. Safety: one delivery in flight per thread, nothing in flight for a   *)
(* closed batch, at most one dispatch per batch, and no automatic retry of *)
(* an attempt whose outcome is unknown.  The four hold only together: a    *)
(* new attempt may be begun because the earlier ones of the batch are      *)
(* neither in flight (else the thread is taken), nor closed (else the      *)
(* batch is), nor abandoned with an unknown outcome (else the batch is not *)
(* automatic); so they were all refused.  That argument is the inductive   *)
(* invariant TableInv, on the two tables.                                  *)
(*                                                                         *)
(* 3. What the rows say of the past: a finished attempt stays finished, an *)
(* attempt in flight outlives the window of its batch, the budget counts   *)
(* what was spent, a proof of a session is used for one send, and          *)
(* strict_safe is honoured when a send is accepted and when its turn is    *)
(* counted as delivered.  The first two hold of every step by itself       *)
(* (Quiet).  The other three rest on Hist, which every step preserves      *)
(* because it either begins an attempt, or charges one to its batch, or    *)
(* stands: it spends nothing, learns of a turn only in the turn's own      *)
(* session, and takes the proof of a session away from every CLI attempt   *)
(* that it ends (Step).                                                    *)
(*                                                                         *)
(* 4. Each step compared with the abstract queue: the store implements it. *)
(***************************************************************************)
EXTENDS DeliveryStore, FiniteSetTheorems, TLAPS

(* A time read before a transaction is a natural number. *)
LEMMA RecentIsNat == ASSUME TypeOK, NEW at \in Recent PROVE at \in Nat
<1>1. clock \in Nat BY DEF TypeOK
<1>. QED BY <1>1 DEF Recent

(* So is the later one of two. *)
LEMMA LaterIsNat == ASSUME NEW s \in Nat, NEW t \in Nat PROVE Later(s, t) \in Nat
BY DEF Later

(* Handing batches over keeps the batch table well formed. *)
LEMMA ManualizedType ==
  ASSUME NEW bs \in [Batch -> BatchRecord], NEW B, NEW at \in Nat
  PROVE  Manualized(bs, B, at) \in [Batch -> BatchRecord]
<1>1. ASSUME NEW b \in Batch
      PROVE  [bs[b] EXCEPT !.policy = "manual_resolution_only",
                           !.window_ends_at = Later(@, at + ManualWindow)] \in BatchRecord
  <2>1. bs[b] \in BatchRecord OBVIOUS
  <2>2. bs[b].window_ends_at \in Nat BY <2>1 DEF BatchRecord
  <2>3. at + ManualWindow \in Nat BY TimeAssumption
  <2>4. Later(bs[b].window_ends_at, at + ManualWindow) \in Nat BY <2>2, <2>3, LaterIsNat
  <2>. QED BY <2>1, <2>4 DEF BatchRecord
<1>. QED BY <1>1 DEF Manualized

(* It changes no state, makes no batch automatic, and stops each open batch of B. *)
LEMMA ManualizedFacts ==
  ASSUME NEW bs \in [Batch -> BatchRecord], NEW B, NEW at, NEW b \in Batch
  PROVE  /\ Manualized(bs, B, at)[b].state = bs[b].state
         /\ Manualized(bs, B, at)[b].policy = "automatic" => bs[b].policy = "automatic"
         /\ b \in B /\ bs[b].state = "open" =>
              Manualized(bs, B, at)[b].policy = "manual_resolution_only"
BY DEF Manualized, BatchRecord

(* Closing batches keeps the batch table well formed. *)
LEMMA ClosedType ==
  ASSUME NEW bs \in [Batch -> BatchRecord], NEW B,
         NEW reason \in {"delivered", "operator", "manual_resolution_expired",
                         "redelivery_window_exhausted"}
  PROVE  Closed(bs, B, reason) \in [Batch -> BatchRecord]
BY DEF Closed, BatchRecord

(* Closing attempts with their batches keeps the attempt table well formed. *)
LEMMA AttemptsClosedWithType ==
  ASSUME NEW as \in [Attempt -> AttemptRecord], NEW B
  PROVE  AttemptsClosedWith(as, B) \in [Attempt -> AttemptRecord]
<1>1. ASSUME NEW r \in AttemptRecord PROVE [r EXCEPT !.state = "closed"] \in AttemptRecord
  BY DEF AttemptRecord
<1>. QED BY <1>1 DEF AttemptsClosedWith

(* Clearing a session's proof keeps the row well formed. *)
LEMMA ProofClearedType == ASSUME NEW r \in SessionRecord PROVE ProofCleared(r) \in SessionRecord
BY DEF ProofCleared, SessionRecord

(* Fencing sessions off keeps the session table well formed. *)
LEMMA InvalidatedType ==
  ASSUME NEW ss \in [Session -> SessionRecord], NEW F
  PROVE  Invalidated(ss, F) \in [Session -> SessionRecord]
<1>1. ASSUME NEW r \in SessionRecord PROVE [r EXCEPT !.epoch = @ + 1] \in SessionRecord
  BY DEF SessionRecord
<1>. QED BY <1>1, ProofClearedType DEF Invalidated

(* Parking sessions keeps the session table well formed. *)
LEMMA ParkedType ==
  ASSUME NEW ss \in [Session -> SessionRecord], NEW S
  PROVE  Parked(ss, S) \in [Session -> SessionRecord]
<1>1. ASSUME NEW r \in SessionRecord
      PROVE  [r EXCEPT !.state = "parked", !.pinned = FALSE] \in SessionRecord
  BY DEF SessionRecord
<1>. QED BY <1>1, ProofClearedType DEF Parked

(* Every way an attempt is given up or annotated keeps its row well formed. *)
LEMMA AttemptUpdateType ==
  ASSUME NEW r \in AttemptRecord
  PROVE  /\ Rejected(r) \in AttemptRecord
         /\ AbandonedUnknown(r) \in AttemptRecord
         /\ TakenOver(r) \in AttemptRecord
         /\ \A obs \in {"expired", "abandoned"} : Abandoned(r, obs) \in AttemptRecord
         /\ \A event \in TurnEvents : [r EXCEPT !.event = event] \in AttemptRecord
<1>1. Rejected(r) \in AttemptRecord BY ZenonT(60) DEF Rejected, AttemptRecord
<1>2. AbandonedUnknown(r) \in AttemptRecord BY ZenonT(60) DEF AbandonedUnknown, AttemptRecord
<1>3. TakenOver(r) \in AttemptRecord
  <2>. DEFINE rpc == IF r.rpc # "pending_acceptance" THEN r.rpc
                     ELSE IF r.adapter = "codex_app_server" THEN "unknown"
                     ELSE "rejected_before_accept"
              obs == IF r.obs = "tracking" THEN "abandoned" ELSE r.obs
  <2>1. rpc \in {"none", "pending_acceptance", "accepted", "rejected_before_accept", "unknown"}
    BY DEF AttemptRecord
  <2>2. obs \in {"none", "tracking", "completed", "expired", "abandoned"} BY DEF AttemptRecord
  <2>3. TakenOver(r) = [r EXCEPT !.state = "abandoned", !.rpc = rpc, !.obs = obs]
    BY DEF TakenOver
  <2>. HIDE DEF rpc, obs
  <2>. QED BY ZenonT(60), <2>1, <2>2, <2>3 DEF AttemptRecord
<1>4. ASSUME NEW obs \in {"expired", "abandoned"} PROVE Abandoned(r, obs) \in AttemptRecord
  BY DEF Abandoned, AttemptRecord
<1>5. ASSUME NEW event \in TurnEvents PROVE [r EXCEPT !.event = event] \in AttemptRecord
  BY DEF TurnEvents, AttemptRecord
<1>. QED BY <1>1, <1>2, <1>3, <1>4, <1>5

(* Every inserted row is well formed. *)
LEMMA NewRowType ==
  /\ \A plugin, detachable \in BOOLEAN, t, max \in Nat :
       NewBatch(plugin, detachable, t, max) \in BatchRecord
  /\ \A b \in Batch, g, at \in Nat : NewAppServerAttempt(b, g, at) \in AttemptRecord
  /\ TypeOK => \A b \in Batch, s \in Session, auth \in {"strict_safe", "trusted_all"},
                  g, at \in Nat : NewCliAttempt(b, s, auth, g, at) \in AttemptRecord
  /\ \A allows \in BOOLEAN : NewSession(allows) \in SessionRecord
<1>1. ASSUME NEW plugin \in BOOLEAN, NEW detachable \in BOOLEAN, NEW t \in Nat, NEW max \in Nat
      PROVE  NewBatch(plugin, detachable, t, max) \in BatchRecord
  BY TimeAssumption DEF NewBatch, BatchRecord
<1>2. ASSUME NEW b \in Batch, NEW g \in Nat, NEW at \in Nat
      PROVE  NewAppServerAttempt(b, g, at) \in AttemptRecord
  BY DEF NewAppServerAttempt, AttemptRecord
<1>3. ASSUME TypeOK, NEW b \in Batch, NEW s \in Session, NEW auth \in {"strict_safe", "trusted_all"},
             NEW g \in Nat, NEW at \in Nat
      PROVE  NewCliAttempt(b, s, auth, g, at) \in AttemptRecord
  <2>1. sessions[s].epoch \in Nat BY <1>3 DEF TypeOK, SessionRecord
  <2>. QED BY <2>1 DEF NewCliAttempt, AttemptRecord
<1>4. ASSUME NEW allows \in BOOLEAN PROVE NewSession(allows) \in SessionRecord
  BY DEF NewSession, SessionRecord
<1>. QED BY <1>1, <1>2, <1>3, <1>4

(* The empty tables are well formed. *)
LEMMA InitType == Init => TypeOK
<1>1. NoBatch \in BatchRecord BY DEF NoBatch, BatchRecord
<1>2. NoAttempt \in AttemptRecord BY DEF NoAttempt, AttemptRecord
<1>3. AbsentSession \in SessionRecord BY DEF AbsentSession, SessionRecord
<1>. QED BY <1>1, <1>2, <1>3 DEF Init, TypeOK

(* close_batch_tx keeps the types. *)
LEMMA CloseBatchType ==
  ASSUME TypeOK, NEW b \in Batch, NEW reason \in {"delivered", "operator"}, CloseBatch(b, reason)
  PROVE  /\ batches' \in [Batch -> BatchRecord]
         /\ attempts' \in [Attempt -> AttemptRecord]
         /\ sessions' \in [Session -> SessionRecord]
BY ClosedType, AttemptsClosedWithType, InvalidatedType DEF CloseBatch, TypeOK

(* The queue operations keep the types. *)
LEMMA QueueType == TypeOK /\ QueueNext => TypeOK'
<1>. SUFFICES ASSUME TypeOK, QueueNext PROVE TypeOK' OBVIOUS
<1>. PICK b \in Batch : \/ CompleteJob(b) \/ FailJob(b) \/ EnqueuePlugin(b)
                        \/ CloseHead(b) \/ ManualizePlugin(b)
  BY DEF QueueNext
<1>1. ASSUME NEW at \in Recent, NEW detachable \in BOOLEAN, EnqueueJobBatch(b, detachable, at)
      PROVE  TypeOK'
  <2>1. PICK max \in Budgets : batches' = [batches EXCEPT ![b] = NewBatch(FALSE, detachable, at, max)]
    BY <1>1 DEF EnqueueJobBatch
  <2>2. NewBatch(FALSE, detachable, at, max) \in BatchRecord
    BY RecentIsNat, NewRowType, BudgetAssumption
  <2>. QED BY <1>1, <2>1, <2>2 DEF EnqueueJobBatch, TypeOK
<1>2. CASE CompleteJob(b) BY <1>1, <1>2 DEF CompleteJob
<1>3. CASE FailJob(b) BY <1>1, <1>3, BudgetAssumption DEF FailJob
<1>4. CASE EnqueuePlugin(b)
  <2>1. PICK at \in Recent, max \in Budgets \ {0} :
               \E t \in {at} \union {batches[c].created_at + 1 : c \in Batch} :
                 /\ batches' = [batches EXCEPT ![b] = NewBatch(TRUE, FALSE, t, max)]
                 /\ \/ attempts' = attempts
                    \/ \E a \in Attempt :
                         attempts' = [attempts EXCEPT ![a] = NewAppServerAttempt(b, 1, at)]
    BY <1>4, Zenon DEF EnqueuePlugin
  <2>. PICK t \in {at} \union {batches[c].created_at + 1 : c \in Batch} :
                 /\ batches' = [batches EXCEPT ![b] = NewBatch(TRUE, FALSE, t, max)]
                 /\ \/ attempts' = attempts
                    \/ \E a \in Attempt :
                         attempts' = [attempts EXCEPT ![a] = NewAppServerAttempt(b, 1, at)]
    BY <2>1
  <2>2. at \in Nat BY RecentIsNat
  <2>3. t \in Nat
    <3>1. \A c \in Batch : batches[c].created_at + 1 \in Nat BY DEF TypeOK, BatchRecord
    <3>. QED BY <2>2, <3>1
  <2>4. NewBatch(TRUE, FALSE, t, max) \in BatchRecord BY <2>3, NewRowType, BudgetAssumption
  <2>5. NewAppServerAttempt(b, 1, at) \in AttemptRecord BY <2>2, NewRowType
  <2>. QED BY <1>4, <2>1, <2>4, <2>5 DEF EnqueuePlugin, TypeOK
<1>5. CASE CloseHead(b) BY <1>5, CloseBatchType DEF CloseHead, TypeOK
<1>6. CASE ManualizePlugin(b)
  <2>1. batches' \in [Batch -> BatchRecord]
    BY <1>6, RecentIsNat, ManualizedType DEF ManualizePlugin, TypeOK
  <2>2. attempts' \in [Attempt -> AttemptRecord]
    BY <1>6, AttemptUpdateType DEF ManualizePlugin, TypeOK
  <2>. QED BY <1>6, <2>1, <2>2 DEF ManualizePlugin, TypeOK
<1>. QED BY <1>2, <1>3, <1>4, <1>5, <1>6

(* The loss of the observations of a session keeps the types. *)
LEMMA LoseObservationsType ==
  ASSUME TypeOK, NEW s, NEW at \in Recent, LoseObservations(s, at)
  PROVE  batches' \in [Batch -> BatchRecord] /\ attempts' \in [Attempt -> AttemptRecord]
<1>1. batches' \in [Batch -> BatchRecord]
  BY RecentIsNat, ManualizedType DEF LoseObservations, TypeOK
<1>2. attempts' \in [Attempt -> AttemptRecord]
  BY AttemptUpdateType DEF LoseObservations, TypeOK
<1>. QED BY <1>1, <1>2

(* The session operations keep the types. *)
LEMMA SessionType == TypeOK /\ SessionNext => TypeOK'
<1>. SUFFICES ASSUME TypeOK, SessionNext PROVE TypeOK' OBVIOUS
<1>. USE InputAssumption
<1>1. ASSUME NEW r \in SessionRecord
      PROVE  /\ Retired(r) \in SessionRecord
             /\ Detached(r) \in SessionRecord
             /\ \A activity \in {"active", "idle"} : [r EXCEPT !.activity = activity] \in SessionRecord
             /\ \A capable \in BOOLEAN : [r EXCEPT !.capable = capable] \in SessionRecord
             /\ \A allows \in BOOLEAN : [r EXCEPT !.allows = allows, !.pinned = TRUE, !.fresh = TRUE]
                                          \in SessionRecord
             /\ Attached(r) \in SessionRecord
  <2>1. ASSUME NEW q \in SessionRecord
        PROVE  /\ [q EXCEPT !.state = "retired", !.pinned = FALSE] \in SessionRecord
               /\ [q EXCEPT !.state = "live", !.epoch = @ + 1, !.pinned = FALSE] \in SessionRecord
    <3>1. [q EXCEPT !.state = "retired", !.pinned = FALSE] \in SessionRecord BY DEF SessionRecord
    <3>2. q.epoch + 1 \in Nat BY DEF SessionRecord
    <3>3. [q EXCEPT !.state = "live", !.epoch = @ + 1, !.pinned = FALSE] \in SessionRecord
      BY <3>2 DEF SessionRecord
    <3>. QED BY <3>1, <3>3
  <2>2. Detached(r) \in SessionRecord BY DEF Detached, SessionRecord
  <2>3. \A activity \in {"active", "idle"} : [r EXCEPT !.activity = activity] \in SessionRecord
    BY DEF SessionRecord
  <2>4. \A capable \in BOOLEAN : [r EXCEPT !.capable = capable] \in SessionRecord
    BY DEF SessionRecord
  <2>5. \A allows \in BOOLEAN : [r EXCEPT !.allows = allows, !.pinned = TRUE, !.fresh = TRUE]
                                  \in SessionRecord
    BY DEF SessionRecord
  <2>. QED BY <2>1, <2>2, <2>3, <2>4, <2>5, ProofClearedType DEF Retired, Attached
<1>2. PICK s \in Session :
        \/ \E allows \in Profiles : CreateSession(s, allows)
        \/ \E required \in Requirements : Reattach(s, required)
        \/ \E new \in Session, required \in Requirements, allows \in Profiles :
             ReplaceSession(s, new, required, allows)
        \/ RetireSession(s)
        \/ \E activity \in {"active", "idle"} : NoteActivity(s, activity)
        \/ \E capable \in BOOLEAN : NoteCapabilities(s, capable)
        \/ \E allows \in Snapshots : NotePermissions(s, allows)
        \/ InvalidateProof(s)
        \/ InvalidateCurrentProof(s)
  BY DEF SessionNext
<1>3. ASSUME NEW allows \in Profiles, CreateSession(s, allows) PROVE TypeOK'
  BY <1>3, NewRowType DEF CreateSession, TypeOK
<1>4. ASSUME NEW required \in Requirements, Reattach(s, required) PROVE TypeOK'
  BY <1>1, <1>4, LoseObservationsType DEF Reattach, TypeOK
<1>5. ASSUME NEW new \in Session, NEW required \in Requirements, NEW allows \in Profiles,
             ReplaceSession(s, new, required, allows)
      PROVE  TypeOK'
  BY <1>1, <1>5, NewRowType DEF ReplaceSession, TypeOK
<1>6. CASE RetireSession(s) BY <1>1, <1>6 DEF RetireSession, TypeOK
<1>7. ASSUME NEW activity \in {"active", "idle"}, NoteActivity(s, activity) PROVE TypeOK'
  BY <1>1, <1>7 DEF NoteActivity, TypeOK
<1>8. ASSUME NEW capable \in BOOLEAN, NoteCapabilities(s, capable) PROVE TypeOK'
  BY <1>1, <1>8 DEF NoteCapabilities, TypeOK
<1>9. ASSUME NEW allows \in Snapshots, NotePermissions(s, allows) PROVE TypeOK'
  BY <1>1, <1>9 DEF NotePermissions, TypeOK
<1>10. Invalidated(ParkedIfObserving(s), {<<s, sessions[s].epoch>>}) \in [Session -> SessionRecord]
  BY ParkedType, InvalidatedType DEF ParkedIfObserving, TypeOK
<1>11. CASE InvalidateProof(s)
  BY <1>10, <1>11, LoseObservationsType DEF InvalidateProof, TypeOK
<1>12. CASE InvalidateCurrentProof(s)
  BY <1>1, <1>10, <1>12, LoseObservationsType DEF InvalidateCurrentProof, TypeOK
<1>. QED BY <1>2, <1>3, <1>4, <1>5, <1>6, <1>7, <1>8, <1>9, <1>11, <1>12

(* Sessions that are fenced off and parked stay well formed. *)
LEMMA SessionsAfterLossType ==
  ASSUME TypeOK, NEW A PROVE SessionsAfterLoss(A) \in [Session -> SessionRecord]
BY ParkedType, InvalidatedType DEF SessionsAfterLoss, TypeOK

(* Charging an attempt to the budget keeps the batch table well formed. *)
LEMMA CountedType ==
  ASSUME TypeOK, NEW b PROVE Counted(batches, b) \in [Batch -> BatchRecord]
<1>1. ASSUME NEW r \in BatchRecord PROVE [r EXCEPT !.attempt_count = @ + 1] \in BatchRecord
  BY DEF BatchRecord
<1>. QED BY <1>1 DEF Counted, TypeOK

(* An acceptance at time `at`, as both adapters record it. *)
LEMMA AcceptedType ==
  ASSUME NEW r \in AttemptRecord, NEW at \in Nat
  PROVE  [r EXCEPT !.state = "cooldown", !.rpc = "accepted", !.obs = "tracking",
                   !.deadline = at + ObservationWindow] \in AttemptRecord
<1>1. at + ObservationWindow \in Nat BY TimeAssumption
<1>. QED BY <1>1 DEF AttemptRecord

(* A recorded delivery keeps the types. *)
LEMMA DeliverType ==
  ASSUME TypeOK, NEW a \in Attempt, Deliver(a)
  PROVE  /\ batches' \in [Batch -> BatchRecord]
         /\ attempts' \in [Attempt -> AttemptRecord]
         /\ sessions' \in [Session -> SessionRecord]
<1>1. ASSUME NEW r \in AttemptRecord
      PROVE  [r EXCEPT !.state = "cooldown", !.obs = "completed", !.event = "turn_completed"]
               \in AttemptRecord
  BY ZenonT(60) DEF AttemptRecord
<1>. DEFINE as == [attempts EXCEPT ![a] = [@ EXCEPT !.state = "cooldown", !.obs = "completed",
                                                    !.event = "turn_completed"]]
<1>2. as \in [Attempt -> AttemptRecord] BY <1>1 DEF TypeOK
<1>3. attempts' = AttemptsClosedWith(as, {attempts[a].batch}) BY DEF Deliver
<1>. HIDE DEF as
<1>4. attempts' \in [Attempt -> AttemptRecord] BY <1>2, <1>3, AttemptsClosedWithType
<1>5. batches' \in [Batch -> BatchRecord] BY ClosedType DEF Deliver, TypeOK
<1>6. sessions' \in [Session -> SessionRecord] BY InvalidatedType DEF Deliver, TypeOK
<1>. QED BY <1>4, <1>5, <1>6

(* A turn that is given up keeps the types. *)
LEMMA GiveUpType ==
  ASSUME TypeOK, NEW a \in Attempt, NEW r \in AttemptRecord, NEW at \in Recent,
         GiveUp(a, r, at) \/ GiveUpAppServer(a, r, at)
  PROVE  /\ batches' \in [Batch -> BatchRecord]
         /\ attempts' \in [Attempt -> AttemptRecord]
         /\ sessions' \in [Session -> SessionRecord]
<1>1. at \in Nat BY RecentIsNat
<1>2. batches' = Manualized(batches, {attempts[a].batch}, at) BY DEF GiveUp, GiveUpAppServer
<1>3. batches' \in [Batch -> BatchRecord] BY <1>1, <1>2, ManualizedType DEF TypeOK
<1>4. attempts' \in [Attempt -> AttemptRecord] BY DEF GiveUp, GiveUpAppServer, TypeOK
<1>5. sessions' \in [Session -> SessionRecord]
  BY SessionsAfterLossType DEF GiveUp, GiveUpAppServer, TypeOK
<1>. QED BY <1>3, <1>4, <1>5

(* The rows an observed event leaves when the turn is given up. *)
LEMMA ObservedRowType ==
  ASSUME NEW r \in AttemptRecord, NEW obs \in {"expired", "abandoned"}, NEW event \in TurnEvents
  PROVE  [Abandoned(r, obs) EXCEPT !.event = event] \in AttemptRecord
<1>1. Abandoned(r, obs) \in AttemptRecord BY AttemptUpdateType
<1>. QED BY <1>1, AttemptUpdateType

(* An observed turn event keeps the types. *)
LEMMA ObserveType ==
  ASSUME TypeOK, NEW a \in Attempt, NEW event \in TurnEvents,
         ObserveCli(a, event) \/ ObserveAppServer(a, event)
  PROVE  TypeOK'
<1>. DEFINE Goal == /\ batches' \in [Batch -> BatchRecord]
                    /\ attempts' \in [Attempt -> AttemptRecord]
                    /\ sessions' \in [Session -> SessionRecord]
<1>1. attempts[a] \in AttemptRecord BY DEF TypeOK
<1>2. \A obs \in {"expired", "abandoned"} :
        [Abandoned(attempts[a], obs) EXCEPT !.event = event] \in AttemptRecord
  BY <1>1, ObservedRowType
<1>3. ASSUME attempts' = [attempts EXCEPT ![a].event = event], UNCHANGED <<batches, sessions>>
      PROVE  Goal
  BY <1>1, <1>3, AttemptUpdateType DEF TypeOK
<1>4. ASSUME NEW at \in Recent, ObserveDelayed(a, event, at) PROVE Goal
  BY <1>4, DeliverType DEF ObserveDelayed
<1>5. ASSUME NEW at \in Recent, ObserveLate(a, event, at) PROVE Goal
  BY <1>3, <1>5 DEF ObserveLate
<1>6. ASSUME NEW at \in Recent, ObserveAfterLoss(a, event, at) PROVE Goal
  BY <1>2, <1>6, GiveUpType DEF ObserveAfterLoss
<1>7. ASSUME NEW at \in Recent, ObserveAfterDeadline(a, event, at) PROVE Goal
  BY <1>2, <1>7, GiveUpType DEF ObserveAfterDeadline
<1>8. ASSUME NEW at \in Recent, ObserveInTime(a, event, at) PROVE Goal
  BY <1>2, <1>3, <1>8, GiveUpType, DeliverType DEF ObserveInTime
<1>9. ASSUME ObserveAppServerLate(a, event) PROVE Goal
  BY <1>3, <1>9 DEF ObserveAppServerLate
<1>10. ASSUME NEW at \in Recent, ObserveAppServerAfterDeadline(a, event, at) PROVE Goal
  BY <1>2, <1>10, GiveUpType DEF ObserveAppServerAfterDeadline
<1>11. ASSUME NEW at \in Recent, ObserveAppServerInTime(a, event, at) PROVE Goal
  BY <1>2, <1>3, <1>11, GiveUpType, DeliverType DEF ObserveAppServerInTime
<1>12. clock' = clock BY DEF ObserveCli, ObserveAppServer
<1>13. Goal
  BY <1>4, <1>5, <1>6, <1>7, <1>8, <1>9, <1>10, <1>11, Zenon DEF ObserveCli, ObserveAppServer
<1>. QED BY <1>12, <1>13 DEF TypeOK

(* The CLI delivery operations keep the types. *)
LEMMA CliType == TypeOK /\ CliNext => TypeOK'
<1>. SUFFICES ASSUME TypeOK, CliNext PROVE TypeOK' OBVIOUS
<1>1. PICK a \in Attempt :
        \/ \E b \in Batch, s \in Session, auth \in AuthModes : BeginCli(a, b, s, auth)
        \/ AcceptCli(a)
        \/ \E manual \in BOOLEAN : RejectCli(a, manual)
        \/ RejectCliAgain(a)
        \/ ExpireCli(a)
        \/ \E event \in TurnEvents : ObserveCli(a, event)
  BY DEF CliNext
<1>. DEFINE b == attempts[a].batch
<1>2. attempts[a] \in AttemptRecord BY DEF TypeOK
<1>3. \A at \in Recent : Manualized(batches, {b}, at) \in [Batch -> BatchRecord]
  BY RecentIsNat, ManualizedType DEF TypeOK
<1>4. ASSUME NEW c \in Batch, NEW s \in Session, NEW auth \in AuthModes, BeginCli(a, c, s, auth)
      PROVE  TypeOK'
  <2>1. PICK at \in Recent, g \in 1 .. MaxGeneration :
               attempts' = [attempts EXCEPT ![a] = NewCliAttempt(c, s, auth, g, at)]
    BY <1>4 DEF BeginCli
  <2>2. at \in Nat /\ g \in Nat BY RecentIsNat, BoundAssumption
  <2>3. NewCliAttempt(c, s, auth, g, at) \in AttemptRecord BY <2>2, NewRowType, InputAssumption
  <2>. QED BY <1>4, <2>1, <2>3 DEF BeginCli, TypeOK
<1>5. CASE AcceptCli(a)
  <2>1. attempts' \in [Attempt -> AttemptRecord]
    BY <1>2, <1>5, RecentIsNat, AcceptedType DEF AcceptCli, TypeOK
  <2>2. batches' \in [Batch -> BatchRecord] BY <1>5, CountedType DEF AcceptCli
  <2>. QED BY <1>5, <2>1, <2>2 DEF AcceptCli, TypeOK
<1>6. ASSUME NEW manual \in BOOLEAN, RejectCli(a, manual) PROVE TypeOK'
  <2>1. attempts' \in [Attempt -> AttemptRecord] BY <1>2, <1>6, AttemptUpdateType DEF RejectCli, TypeOK
  <2>2. batches' \in [Batch -> BatchRecord] BY <1>3, <1>6 DEF RejectCli, TypeOK
  <2>3. sessions' \in [Session -> SessionRecord]
    BY <1>6, ParkedType, InvalidatedType DEF RejectCli, TypeOK
  <2>. QED BY <1>6, <2>1, <2>2, <2>3 DEF RejectCli, TypeOK
<1>7. CASE RejectCliAgain(a) BY <1>3, <1>7, ParkedType DEF RejectCliAgain, TypeOK
<1>8. CASE ExpireCli(a)
  <2>1. PICK at \in Recent, obs \in {"expired", "abandoned"} :
               GiveUp(a, Abandoned(attempts[a], obs), at)
    BY <1>8 DEF ExpireCli
  <2>2. Abandoned(attempts[a], obs) \in AttemptRecord BY <1>2, AttemptUpdateType
  <2>. QED BY <1>8, <2>1, <2>2, GiveUpType DEF ExpireCli, TypeOK
<1>9. ASSUME NEW event \in TurnEvents, ObserveCli(a, event) PROVE TypeOK' BY <1>9, ObserveType
<1>. QED BY <1>1, <1>4, <1>5, <1>6, <1>7, <1>8, <1>9

(* The app-server delivery operations keep the types. *)
LEMMA AppServerType == TypeOK /\ AppServerNext => TypeOK'
<1>. SUFFICES ASSUME TypeOK, AppServerNext PROVE TypeOK' OBVIOUS
<1>1. PICK a \in Attempt :
        \/ \E b \in Batch : BeginAppServer(a, b)
        \/ AcceptAppServer(a)
        \/ \E manual \in BOOLEAN : RejectAppServer(a, manual)
        \/ RejectAppServerAgain(a)
        \/ AbandonAppServerUnknown(a)
        \/ \E event \in TurnEvents : ObserveAppServer(a, event)
  BY DEF AppServerNext
<1>. DEFINE b == attempts[a].batch
<1>2. attempts[a] \in AttemptRecord BY DEF TypeOK
<1>3. \A at \in Recent : Manualized(batches, {b}, at) \in [Batch -> BatchRecord]
  BY RecentIsNat, ManualizedType DEF TypeOK
<1>4. ASSUME NEW c \in Batch, BeginAppServer(a, c) PROVE TypeOK'
  <2>1. PICK at \in Recent, g \in 1 .. MaxGeneration :
               attempts' = [attempts EXCEPT ![a] = NewAppServerAttempt(c, g, at)]
    BY <1>4 DEF BeginAppServer
  <2>2. at \in Nat /\ g \in Nat BY RecentIsNat, BoundAssumption
  <2>3. NewAppServerAttempt(c, g, at) \in AttemptRecord BY <2>2, NewRowType
  <2>. QED BY <1>4, <2>1, <2>3 DEF BeginAppServer, TypeOK
<1>5. CASE AcceptAppServer(a)
  <2>1. attempts' \in [Attempt -> AttemptRecord]
    BY <1>2, <1>5, RecentIsNat, AcceptedType DEF AcceptAppServer, TypeOK
  <2>2. batches' \in [Batch -> BatchRecord] BY <1>5, CountedType DEF AcceptAppServer
  <2>. QED BY <1>5, <2>1, <2>2 DEF AcceptAppServer, TypeOK
<1>6. ASSUME NEW manual \in BOOLEAN, RejectAppServer(a, manual) PROVE TypeOK'
  <2>1. attempts' \in [Attempt -> AttemptRecord]
    BY <1>2, <1>6, AttemptUpdateType DEF RejectAppServer, TypeOK
  <2>2. Counted(batches, b) \in [Batch -> BatchRecord] BY CountedType
  <2>3. \A at \in Recent : Manualized(Counted(batches, b), {b}, at) \in [Batch -> BatchRecord]
    BY <2>2, RecentIsNat, ManualizedType
  <2>4. batches' \in [Batch -> BatchRecord] BY <1>6, <2>2, <2>3 DEF RejectAppServer
  <2>. QED BY <1>6, <2>1, <2>4 DEF RejectAppServer, TypeOK
<1>7. CASE RejectAppServerAgain(a) BY <1>3, <1>7 DEF RejectAppServerAgain, TypeOK
<1>8. CASE AbandonAppServerUnknown(a)
  BY <1>2, <1>3, <1>8, AttemptUpdateType DEF AbandonAppServerUnknown, TypeOK
<1>9. ASSUME NEW event \in TurnEvents, ObserveAppServer(a, event) PROVE TypeOK' BY <1>9, ObserveType
<1>. QED BY <1>1, <1>4, <1>5, <1>6, <1>7, <1>8, <1>9

(* The attempts a sweep gives up stay well formed. *)
LEMMA AttemptsAfterType ==
  ASSUME TypeOK, NEW U, NEW C, NEW P PROVE AttemptsAfter(U, C, P) \in [Attempt -> AttemptRecord]
<1>1. ASSUME NEW a \in Attempt
      PROVE  (IF a \in U THEN AbandonedUnknown(attempts[a])
              ELSE IF a \in C
                   THEN Abandoned(attempts[a], IF SessionIsCurrent(a) THEN "expired" ELSE "abandoned")
              ELSE IF a \in P THEN Abandoned(attempts[a], "expired")
              ELSE attempts[a]) \in AttemptRecord
  <2>1. attempts[a] \in AttemptRecord BY DEF TypeOK
  <2>. QED BY <2>1, AttemptUpdateType
<1>. QED BY <1>1 DEF AttemptsAfter

(* One sweep over the tables keeps the types. *)
LEMMA SweepTablesType ==
  ASSUME TypeOK, NEW U, NEW C, NEW P, NEW at \in Recent, SweepTables(U, C, P, at)
  PROVE  /\ batches' \in [Batch -> BatchRecord]
         /\ attempts' \in [Attempt -> AttemptRecord]
         /\ sessions' \in [Session -> SessionRecord]
<1>. DEFINE bs == Manualized(batches, {attempts[a].batch : a \in U \union C \union P}, at)
<1>1. PICK M, A :
        /\ batches' = Closed(Closed(bs, M, "manual_resolution_expired"), A,
                             "redelivery_window_exhausted")
        /\ attempts' = AttemptsClosedWith(AttemptsAfter(U, C, P), M \union A)
        /\ \E F : sessions' = Invalidated(SessionsAfterLoss(U \union C), F)
  BY Zenon DEF SweepTables
<1>2. bs \in [Batch -> BatchRecord] BY RecentIsNat, ManualizedType DEF TypeOK
<1>. HIDE DEF bs
<1>3. batches' \in [Batch -> BatchRecord]
  <2>1. Closed(bs, M, "manual_resolution_expired") \in [Batch -> BatchRecord] BY <1>2, ClosedType
  <2>. QED BY <1>1, <2>1, ClosedType
<1>4. attempts' \in [Attempt -> AttemptRecord] BY <1>1, AttemptsAfterType, AttemptsClosedWithType
<1>5. sessions' \in [Session -> SessionRecord] BY <1>1, SessionsAfterLossType, InvalidatedType
<1>. QED BY <1>3, <1>4, <1>5

(* Maintenance and time keep the types. *)
LEMMA SweepType == TypeOK /\ (Sweep \/ SweepAppServer \/ Tick) => TypeOK'
<1>1. CASE TypeOK /\ Sweep
  <2>1. PICK at \in Recent : \E U, C, P : SweepTables(U, C, P, at) BY <1>1, Zenon DEF Sweep
  <2>. QED BY <1>1, <2>1, SweepTablesType DEF Sweep, TypeOK
<1>2. CASE TypeOK /\ SweepAppServer
  <2>1. PICK at \in Recent : \E U, P :
               /\ attempts' = AttemptsAfter(U, {}, P)
               /\ batches' = Manualized(batches, {attempts[a].batch : a \in U \union P}, at)
    BY <1>2, Zenon DEF SweepAppServer
  <2>2. attempts' \in [Attempt -> AttemptRecord] BY <1>2, <2>1, AttemptsAfterType
  <2>3. batches' \in [Batch -> BatchRecord] BY <1>2, <2>1, RecentIsNat, ManualizedType DEF TypeOK
  <2>. QED BY <1>2, <2>2, <2>3 DEF SweepAppServer, TypeOK
<1>3. CASE TypeOK /\ Tick BY <1>3 DEF Tick, TypeOK
<1>. QED BY <1>1, <1>2, <1>3

(* Every step of the store keeps the types. *)
LEMMA TypeStep == TypeOK /\ [Next]_vars => TypeOK'
<1>1. TypeOK /\ UNCHANGED vars => TypeOK' BY DEF TypeOK, vars
<1>2. TypeOK /\ Next => TypeOK'
  BY QueueType, SessionType, CliType, AppServerType, SweepType DEF Next
<1>. QED BY <1>1, <1>2

(* The tables only ever hold well-formed rows. *)
THEOREM TypeCorrect == Spec => []TypeOK
<1>1. Init => TypeOK BY InitType
<1>2. TypeOK /\ [Next]_vars => TypeOK' BY TypeStep
<1>. QED BY <1>1, <1>2, PTL DEF Spec

(***************************************************************************)
(* One delivery in flight, and none for a closed batch.                    *)
(***************************************************************************)

Linked(bs, as) == \A a \in Attempt : as[a].state # "absent" =>
  as[a].batch \in Batch /\ bs[as[a].batch].state # "absent"

QuietWhenClosed(bs, as) == \A a \in Attempt : as[a].state \in ActiveStates =>
  bs[as[a].batch].state = "open"

ClosedTogether(bs, as) == \A a \in Attempt : as[a].state = "closed" =>
  bs[as[a].batch].state = "closed"

UnknownIsManual(bs, as) == \A a \in Attempt :
  /\ as[a].state = "abandoned" /\ as[a].rpc # "rejected_before_accept"
  /\ bs[as[a].batch].state = "open"
  => bs[as[a].batch].policy # "automatic"

OnePerThread(as) == \A a, c \in Attempt :
  /\ as[a].state \in ActiveStates /\ as[c].state \in ActiveStates
  /\ ThreadOf[as[a].batch] = ThreadOf[as[c].batch]
  => a = c

OneExposure(as) == \A a, c \in Attempt :
  /\ a # c
  /\ as[a].state # "absent" /\ as[c].state # "absent"
  /\ as[a].batch = as[c].batch
  => "rejected_before_accept" \in {as[a].rpc, as[c].rpc}

TableInv(bs, as) ==
  /\ Linked(bs, as)
  /\ QuietWhenClosed(bs, as)
  /\ ClosedTogether(bs, as)
  /\ UnknownIsManual(bs, as)
  /\ OnePerThread(as)
  /\ OneExposure(as)

BatchTable == [Batch -> BatchRecord]
AttemptTable == [Attempt -> AttemptRecord]

-----------------------------------------------------------------------------
(* How a step may change the two tables, and that each way keeps TableInv. *)

(* No batch changes its state, and none becomes automatic again. *)
SameStates(bs, bs2) == \A b \in Batch : /\ bs2[b].state = bs[b].state
                                        /\ bs2[b].policy = "automatic" => bs[b].policy = "automatic"

(* An attempt of D is abandoned; unless it is known to have been refused,    *)
(* its batch is left to the operator. The others keep their standing.        *)
EndsAttempts(bs2, as, as2, D) ==
  /\ \A a \in Attempt : as2[a].batch = as[a].batch
  /\ \A a \in Attempt \ D : as2[a].state = as[a].state /\ as2[a].rpc = as[a].rpc
  /\ \A a \in D : /\ as[a].state # "absent" /\ as2[a].state = "abandoned"
                  /\ as[a].rpc = "rejected_before_accept" => as2[a].rpc = "rejected_before_accept"
                  /\ \/ as2[a].rpc = "rejected_before_accept"
                     \/ bs2[as[a].batch].state = "open" => bs2[as[a].batch].policy # "automatic"

(* Giving attempts up keeps the invariant. *)
LEMMA EndsAttemptsKeeps ==
  ASSUME NEW bs, NEW bs2, NEW as, NEW as2, NEW D \in SUBSET Attempt,
         TableInv(bs, as), SameStates(bs, bs2), EndsAttempts(bs2, as, as2, D)
  PROVE  TableInv(bs2, as2)
<1>. USE DEF ActiveStates
<1>1. \A a \in Attempt : /\ as2[a].batch = as[a].batch
                         /\ as2[a].state # "absent" => as[a].state # "absent"
                         /\ as2[a].state \in ActiveStates => as[a].state \in ActiveStates
                         /\ as2[a].state = "closed" => as[a].state = "closed"
  BY DEF EndsAttempts
<1>2. \A a \in Attempt : as[a].state # "absent" =>
        /\ as[a].batch \in Batch
        /\ bs2[as[a].batch].state = bs[as[a].batch].state
        /\ bs2[as[a].batch].policy = "automatic" => bs[as[a].batch].policy = "automatic"
  BY DEF Linked, SameStates, TableInv
<1>3. Linked(bs2, as2)
  <2>1. ASSUME NEW a \in Attempt, as2[a].state # "absent"
        PROVE  as2[a].batch \in Batch /\ bs2[as2[a].batch].state # "absent"
    <3>1. as[a].state # "absent" /\ as2[a].batch = as[a].batch BY <2>1, <1>1
    <3>2. as[a].batch \in Batch /\ bs[as[a].batch].state # "absent" BY <3>1 DEF Linked, TableInv
    <3>3. bs2[as[a].batch].state = bs[as[a].batch].state BY <3>1, <1>2
    <3>. QED BY <3>1, <3>2, <3>3
  <2>. QED BY <2>1 DEF Linked
<1>4. QuietWhenClosed(bs2, as2)
  <2>1. ASSUME NEW a \in Attempt, as2[a].state \in ActiveStates PROVE bs2[as2[a].batch].state = "open"
    <3>1. as[a].state \in ActiveStates BY <2>1, <1>1
    <3>2. as[a].state # "absent" BY <3>1
    <3>3. bs[as[a].batch].state = "open" BY <3>1 DEF QuietWhenClosed, TableInv
    <3>. QED BY <3>2, <3>3, <1>1, <1>2
  <2>. QED BY <2>1 DEF QuietWhenClosed
<1>5. ClosedTogether(bs2, as2) BY <1>1, <1>2 DEF ClosedTogether, TableInv
<1>6. UnknownIsManual(bs2, as2)
  <2>1. ASSUME NEW a \in Attempt, as2[a].state = "abandoned",
               as2[a].rpc # "rejected_before_accept", bs2[as2[a].batch].state = "open"
        PROVE  bs2[as2[a].batch].policy # "automatic"
    <3>1. as2[a].batch = as[a].batch /\ as[a].state # "absent" BY <2>1, <1>1
    <3>2. CASE a \in D BY <2>1, <3>1, <3>2 DEF EndsAttempts
    <3>3. CASE a \notin D
      <4>1. as[a].state = "abandoned" /\ as[a].rpc # "rejected_before_accept"
        BY <2>1, <3>3 DEF EndsAttempts
      <4>2. bs[as[a].batch].state = "open" BY <2>1, <3>1, <1>2
      <4>3. bs[as[a].batch].policy # "automatic" BY <4>1, <4>2 DEF UnknownIsManual, TableInv
      <4>. QED BY <4>3, <3>1, <1>2
    <3>. QED BY <3>2, <3>3
  <2>. QED BY <2>1 DEF UnknownIsManual
<1>7. OnePerThread(as2) BY <1>1 DEF OnePerThread, TableInv
<1>8. OneExposure(as2)
  <2>1. OneExposure(as) BY DEF TableInv
  <2>2. ASSUME NEW a \in Attempt, as[a].rpc = "rejected_before_accept"
        PROVE  as2[a].rpc = "rejected_before_accept"
    <3>1. CASE a \in D BY <2>2, <3>1 DEF EndsAttempts
    <3>2. CASE a \notin D BY <2>2, <3>2 DEF EndsAttempts
    <3>. QED BY <3>1, <3>2
  <2>. QED BY <1>1, <2>1, <2>2 DEF OneExposure
<1>. QED BY <1>3, <1>4, <1>5, <1>6, <1>7, <1>8 DEF TableInv

(* The batches of B are closed together with their attempts in flight. An    *)
(* attempt of D may first have been revived, if its batch is in B.           *)
Closes(bs, bs2, as, as2, B) ==
  /\ \A b \in Batch : /\ bs2[b].state = IF b \in B THEN "closed" ELSE bs[b].state
                      /\ bs2[b].policy = bs[b].policy
  /\ \A b \in B : bs[b].state = "open"
  /\ \A a \in Attempt :
       /\ as2[a].batch = as[a].batch /\ as2[a].rpc = as[a].rpc
       /\ as2[a].state = as[a].state \/ (as2[a].state = "closed" /\ as[a].batch \in B)
       /\ as[a].state = "absent" => as2[a].state = "absent"
       /\ as2[a].state \in ActiveStates => as[a].batch \notin B

(* Closing batches with their attempts keeps it. *)
LEMMA ClosesKeeps ==
  ASSUME NEW bs, NEW bs2, NEW as, NEW as2, NEW B \in SUBSET Batch,
         TableInv(bs, as), Closes(bs, bs2, as, as2, B)
  PROVE  TableInv(bs2, as2)
<1>. USE DEF ActiveStates
<1>1. \A a \in Attempt : /\ as2[a].batch = as[a].batch /\ as2[a].rpc = as[a].rpc
                         /\ as2[a].state # "absent" => as[a].state # "absent"
                         /\ as2[a].state \in ActiveStates =>
                              as[a].state \in ActiveStates /\ as[a].batch \notin B
                         /\ as2[a].state = "closed" => as[a].state = "closed" \/ as[a].batch \in B
                         /\ as2[a].state = "abandoned" => as[a].state = "abandoned"
  BY DEF Closes
<1>2. \A a \in Attempt : as[a].state # "absent" =>
        /\ as[a].batch \in Batch
        /\ bs[as[a].batch].state # "absent"
        /\ bs2[as[a].batch].state = IF as[a].batch \in B THEN "closed" ELSE bs[as[a].batch].state
        /\ bs2[as[a].batch].policy = bs[as[a].batch].policy
  BY DEF Linked, Closes, TableInv
<1>3. Linked(bs2, as2)
  <2>1. \A a \in Attempt : /\ as2[a].batch = as[a].batch
                           /\ as2[a].state # "absent" => as[a].state # "absent"
    BY <1>1
  <2>. QED BY <2>1, <1>2 DEF Linked
<1>4. QuietWhenClosed(bs2, as2)
  <2>1. ASSUME NEW a \in Attempt, as2[a].state \in ActiveStates PROVE bs2[as2[a].batch].state = "open"
    <3>1. as[a].state \in ActiveStates /\ as[a].batch \notin B /\ as2[a].batch = as[a].batch
      BY <2>1, <1>1
    <3>2. as[a].state # "absent" BY <3>1
    <3>3. bs[as[a].batch].state = "open" BY <3>1 DEF QuietWhenClosed, TableInv
    <3>. QED BY <3>1, <3>2, <3>3, <1>2
  <2>. QED BY <2>1 DEF QuietWhenClosed
<1>5. ClosedTogether(bs2, as2)
  <2>1. ASSUME NEW a \in Attempt, as2[a].state = "closed" PROVE bs2[as2[a].batch].state = "closed"
    <3>1. as2[a].state # "absent" BY <2>1
    <3>2. as[a].state # "absent" /\ as2[a].batch = as[a].batch BY <3>1, <1>1
    <3>3. as[a].batch \notin B => bs[as[a].batch].state = "closed"
      BY <2>1, <1>1 DEF ClosedTogether, TableInv
    <3>. QED BY <3>2, <3>3, <1>2
  <2>. QED BY <2>1 DEF ClosedTogether
<1>6. UnknownIsManual(bs2, as2)
  <2>1. ASSUME NEW a \in Attempt, as2[a].state = "abandoned",
               as2[a].rpc # "rejected_before_accept", bs2[as2[a].batch].state = "open"
        PROVE  bs2[as2[a].batch].policy # "automatic"
    <3>1. /\ as2[a].batch = as[a].batch /\ as2[a].rpc = as[a].rpc
          /\ as[a].state = "abandoned"
      BY <2>1, <1>1
    <3>2. bs[as[a].batch].state = "open" BY <2>1, <3>1, <1>2
    <3>3. bs[as[a].batch].policy # "automatic" BY <2>1, <3>1, <3>2 DEF UnknownIsManual, TableInv
    <3>. QED BY <3>1, <3>3, <1>2
  <2>. QED BY <2>1 DEF UnknownIsManual
<1>7. OnePerThread(as2) BY <1>1 DEF OnePerThread, TableInv
<1>8. OneExposure(as2) BY <1>1 DEF OneExposure, TableInv
<1>. QED BY <1>3, <1>4, <1>5, <1>6, <1>7, <1>8 DEF TableInv

(* One attempt in flight is accepted, and stays in flight. *)
Accepts(as, as2, a) ==
  /\ as[a].state \in ActiveStates /\ as[a].rpc # "rejected_before_accept"
  /\ as2[a].state \in ActiveStates /\ as2[a].batch = as[a].batch
  /\ \A c \in Attempt \ {a} : as2[c] = as[c]

(* Accepting an attempt in flight keeps it. *)
LEMMA AcceptsKeeps ==
  ASSUME NEW bs, NEW bs2, NEW as, NEW as2, NEW a \in Attempt,
         TableInv(bs, as), SameStates(bs, bs2), Accepts(as, as2, a)
  PROVE  TableInv(bs2, as2)
<1>. USE DEF ActiveStates
<1>1. \A c \in Attempt : /\ as2[c].batch = as[c].batch
                         /\ as2[c].state # "absent" => as[c].state # "absent"
                         /\ as2[c].state \in ActiveStates => as[c].state \in ActiveStates
                         /\ as2[c].state \in {"closed", "abandoned"} =>
                              as2[c].state = as[c].state /\ as2[c].rpc = as[c].rpc
                         /\ as[c].rpc = "rejected_before_accept" => as2[c].rpc = as[c].rpc
  BY DEF Accepts
<1>2. \A c \in Attempt : as[c].state # "absent" =>
        /\ as[c].batch \in Batch
        /\ bs2[as[c].batch].state = bs[as[c].batch].state
        /\ bs2[as[c].batch].policy = "automatic" => bs[as[c].batch].policy = "automatic"
  BY DEF Linked, SameStates, TableInv
<1>3. Linked(bs2, as2)
  <2>1. \A c \in Attempt : /\ as2[c].batch = as[c].batch
                           /\ as2[c].state # "absent" => as[c].state # "absent"
    BY <1>1
  <2>. QED BY <2>1, <1>2 DEF Linked, TableInv
<1>4. QuietWhenClosed(bs2, as2)
  <2>1. ASSUME NEW c \in Attempt, as2[c].state \in ActiveStates PROVE bs2[as2[c].batch].state = "open"
    <3>1. as[c].state \in ActiveStates BY <2>1, <1>1
    <3>2. as[c].state # "absent" BY <3>1
    <3>3. bs[as[c].batch].state = "open" BY <3>1 DEF QuietWhenClosed, TableInv
    <3>. QED BY <3>2, <3>3, <1>1, <1>2
  <2>. QED BY <2>1 DEF QuietWhenClosed
<1>5. ClosedTogether(bs2, as2)
  <2>1. ASSUME NEW c \in Attempt, as2[c].state = "closed" PROVE bs2[as2[c].batch].state = "closed"
    <3>1. as[c].state = "closed" /\ as2[c].batch = as[c].batch BY <2>1, <1>1
    <3>2. bs[as[c].batch].state = "closed" BY <3>1 DEF ClosedTogether, TableInv
    <3>3. bs2[as[c].batch].state = bs[as[c].batch].state BY <3>1, <1>2
    <3>. QED BY <3>1, <3>2, <3>3
  <2>. QED BY <2>1 DEF ClosedTogether
<1>6. UnknownIsManual(bs2, as2)
  <2>1. ASSUME NEW c \in Attempt, as2[c].state = "abandoned",
               as2[c].rpc # "rejected_before_accept", bs2[as2[c].batch].state = "open"
        PROVE  bs2[as2[c].batch].policy # "automatic"
    <3>1. as2[c].batch = as[c].batch /\ as[c].state = "abandoned" /\ as[c].rpc = as2[c].rpc
      BY <2>1, <1>1
    <3>2. bs[as[c].batch].policy # "automatic" BY <2>1, <3>1, <1>2 DEF UnknownIsManual, TableInv
    <3>. QED BY <3>1, <3>2, <1>2
  <2>. QED BY <2>1 DEF UnknownIsManual
<1>7. OnePerThread(as2) BY <1>1 DEF OnePerThread, TableInv
<1>8. OneExposure(as2)
  <2>1. OneExposure(as) BY DEF TableInv
  <2>2. \A c \in Attempt : /\ as2[c].batch = as[c].batch
                           /\ as2[c].state # "absent" => as[c].state # "absent"
                           /\ as[c].rpc = "rejected_before_accept" => as2[c].rpc = "rejected_before_accept"
    BY <1>1
  <2>. QED BY <2>1, <2>2 DEF OneExposure
<1>. QED BY <1>3, <1>4, <1>5, <1>6, <1>7, <1>8 DEF TableInv

(* A new attempt on an open automatic batch of a thread that has none in flight. *)
InsertsAttempt(bs, as, as2, a, b) ==
  /\ bs[b].state = "open" /\ bs[b].policy = "automatic"
  /\ \A c \in Attempt : as[c].state \in ActiveStates =>
       ~(bs[as[c].batch].state = "open" /\ ThreadOf[as[c].batch] = ThreadOf[b])
  /\ as[a].state = "absent"
  /\ as2[a].state = "accept_pending" /\ as2[a].batch = b
  /\ \A c \in Attempt \ {a} : as2[c] = as[c]

(* Beginning an attempt keeps it: the earlier attempts of the batch were all refused. *)
LEMMA BeginsKeeps ==
  ASSUME NEW bs, NEW as \in AttemptTable, NEW as2, NEW a \in Attempt, NEW b \in Batch,
         TableInv(bs, as), InsertsAttempt(bs, as, as2, a, b)
  PROVE  TableInv(bs, as2)
<1>. USE DEF ActiveStates
<1>1. Linked(bs, as2) BY DEF Linked, InsertsAttempt, TableInv
<1>2. QuietWhenClosed(bs, as2) BY DEF QuietWhenClosed, InsertsAttempt, TableInv
<1>3. ClosedTogether(bs, as2) BY DEF ClosedTogether, InsertsAttempt, TableInv
<1>4. UnknownIsManual(bs, as2) BY DEF UnknownIsManual, InsertsAttempt, TableInv
<1>5. OnePerThread(as2)
  <2>1. \A c \in Attempt : as[c].state \in ActiveStates => ThreadOf[as[c].batch] # ThreadOf[b]
    BY DEF InsertsAttempt, QuietWhenClosed, TableInv
  <2>2. /\ as2[a].batch = b
        /\ \A c \in Attempt \ {a} : as2[c] = as[c]
    BY DEF InsertsAttempt
  <2>3. ASSUME NEW c \in Attempt, NEW d \in Attempt, c # d,
               as2[c].state \in ActiveStates, as2[d].state \in ActiveStates
        PROVE  ThreadOf[as2[c].batch] # ThreadOf[as2[d].batch]
    <3>1. CASE c = a
      <4>1. as2[d] = as[d] BY <2>3, <3>1, <2>2
      <4>2. ThreadOf[as[d].batch] # ThreadOf[b] BY <2>1, <2>3, <4>1
      <4>. QED BY <3>1, <4>1, <4>2, <2>2
    <3>2. CASE d = a
      <4>1. as2[c] = as[c] BY <2>3, <3>2, <2>2
      <4>2. ThreadOf[as[c].batch] # ThreadOf[b] BY <2>1, <2>3, <4>1
      <4>. QED BY <3>2, <4>1, <4>2, <2>2
    <3>3. CASE c # a /\ d # a
      <4>1. as2[c] = as[c] /\ as2[d] = as[d] BY <3>3, <2>2
      <4>2. OnePerThread(as) BY DEF TableInv
      <4>. QED BY <2>3, <4>1, <4>2 DEF OnePerThread
    <3>. QED BY <3>1, <3>2, <3>3
  <2>. QED BY <2>3 DEF OnePerThread
<1>6. OneExposure(as2)
  <2>1. ASSUME NEW c \in Attempt, c # a, as[c].state # "absent", as[c].batch = b
        PROVE  as[c].rpc = "rejected_before_accept"
    <3>1. as[c].state \in {"absent", "accept_pending", "cooldown", "abandoned", "closed"}
      BY DEF AttemptTable, AttemptRecord
    <3>2. as[c].state \notin ActiveStates BY <2>1 DEF InsertsAttempt
    <3>3. as[c].state # "closed" BY <2>1 DEF InsertsAttempt, ClosedTogether, TableInv
    <3>4. as[c].state = "abandoned" BY <2>1, <3>1, <3>2, <3>3
    <3>. QED BY <2>1, <3>4 DEF InsertsAttempt, UnknownIsManual, TableInv
  <2>2. OneExposure(as) BY DEF TableInv
  <2>3. /\ as2[a].batch = b
        /\ \A c \in Attempt \ {a} : as2[c] = as[c]
    BY DEF InsertsAttempt
  <2>4. ASSUME NEW c \in Attempt, NEW d \in Attempt, c # d,
               as2[c].state # "absent", as2[d].state # "absent", as2[c].batch = as2[d].batch
        PROVE  "rejected_before_accept" \in {as2[c].rpc, as2[d].rpc}
    <3>1. CASE c = a
      <4>1. as2[d] = as[d] BY <2>4, <3>1, <2>3
      <4>2. as[d].rpc = "rejected_before_accept" BY <2>1, <2>3, <2>4, <3>1, <4>1
      <4>. QED BY <4>1, <4>2
    <3>2. CASE d = a
      <4>1. as2[c] = as[c] BY <2>4, <3>2, <2>3
      <4>2. as[c].rpc = "rejected_before_accept" BY <2>1, <2>3, <2>4, <3>2, <4>1
      <4>. QED BY <4>1, <4>2
    <3>3. CASE c # a /\ d # a
      <4>1. as2[c] = as[c] /\ as2[d] = as[d] BY <3>3, <2>3
      <4>. QED BY <2>2, <2>4, <4>1 DEF OneExposure
    <3>. QED BY <3>1, <3>2, <3>3
  <2>. QED BY <2>4 DEF OneExposure
<1>. QED BY <1>1, <1>2, <1>3, <1>4, <1>5, <1>6 DEF TableInv

(* A batch is enqueued. *)
Enqueues(bs, bs2, b) == /\ bs[b].state = "absent" /\ bs2[b].state = "open"
                        /\ \A c \in Batch \ {b} : bs2[c] = bs[c]

(* Enqueuing a batch keeps it: no attempt refers to an id not yet used. *)
LEMMA EnqueuesKeeps ==
  ASSUME NEW bs, NEW bs2, NEW as, NEW b \in Batch, TableInv(bs, as), Enqueues(bs, bs2, b)
  PROVE  TableInv(bs2, as)
<1>. USE DEF ActiveStates
<1>1. \A a \in Attempt : as[a].state # "absent" => /\ as[a].batch \in Batch \ {b}
                                                   /\ bs2[as[a].batch] = bs[as[a].batch]
  BY DEF Linked, Enqueues, TableInv
<1>. QED BY <1>1 DEF TableInv, Linked, QuietWhenClosed, ClosedTogether, UnknownIsManual

-----------------------------------------------------------------------------
(* Every action changes the tables in one of these ways. *)

Inv == TypeOK /\ TableInv(batches, attempts)

(* What the updates that end an attempt make of its row. *)
LEMMA RowFacts ==
  ASSUME NEW r \in AttemptRecord
  PROVE  /\ Rejected(r).batch = r.batch /\ Rejected(r).state = "abandoned"
         /\ Rejected(r).rpc = "rejected_before_accept"
         /\ AbandonedUnknown(r).batch = r.batch /\ AbandonedUnknown(r).state = "abandoned"
         /\ TakenOver(r).batch = r.batch /\ TakenOver(r).state = "abandoned"
         /\ r.rpc = "rejected_before_accept" => TakenOver(r).rpc = "rejected_before_accept"
  BY DEF Rejected, AbandonedUnknown, TakenOver, AttemptRecord

(* A turn given up keeps its batch and the answer to its send. *)
LEMMA AbandonedFacts ==
  ASSUME NEW r \in AttemptRecord, NEW obs
  PROVE  /\ Abandoned(r, obs).batch = r.batch /\ Abandoned(r, obs).state = "abandoned"
         /\ Abandoned(r, obs).rpc = r.rpc
         /\ \A event : /\ [Abandoned(r, obs) EXCEPT !.event = event].batch = r.batch
                       /\ [Abandoned(r, obs) EXCEPT !.event = event].state = "abandoned"
                       /\ [Abandoned(r, obs) EXCEPT !.event = event].rpc = r.rpc
  BY DEF Abandoned, AttemptRecord

(* A batch handed over to the operator is not automatic while it is open. *)
LEMMA ManualizedOne ==
  ASSUME NEW bs \in [Batch -> BatchRecord], NEW c \in Batch, NEW at
  PROVE  bs[c].state = "open" => Manualized(bs, {c}, at)[c].policy # "automatic"
BY DEF Manualized, BatchRecord

(* What close_batch_tx makes of the two tables. *)
LEMMA ClosedFacts ==
  ASSUME NEW bs \in BatchTable, NEW B, NEW reason, NEW c \in Batch
  PROVE  /\ Closed(bs, B, reason)[c].state = IF c \in B THEN "closed" ELSE bs[c].state
         /\ Closed(bs, B, reason)[c].policy = bs[c].policy
         /\ Closed(bs, B, reason)[c].window_ends_at = bs[c].window_ends_at
<1>1. bs[c] \in BatchRecord BY DEF BatchTable
<1>2. /\ [bs[c] EXCEPT !.state = "closed", !.close_reason = reason].state = "closed"
      /\ [bs[c] EXCEPT !.state = "closed", !.close_reason = reason].policy = bs[c].policy
      /\ [bs[c] EXCEPT !.state = "closed", !.close_reason = reason].window_ends_at
            = bs[c].window_ends_at
  BY <1>1 DEF BatchRecord
<1>. QED BY <1>2 DEF Closed

(* And of the attempts of the closed batches. *)
LEMMA AttemptsClosedFacts ==
  ASSUME NEW as \in AttemptTable, NEW B, NEW a \in Attempt
  PROVE  /\ AttemptsClosedWith(as, B)[a].batch = as[a].batch
         /\ AttemptsClosedWith(as, B)[a].rpc = as[a].rpc
         /\ AttemptsClosedWith(as, B)[a].state =
              IF as[a].batch \in B /\ as[a].state \in ActiveStates THEN "closed" ELSE as[a].state
<1>1. as[a] \in AttemptRecord BY DEF AttemptTable
<1>2. /\ [as[a] EXCEPT !.state = "closed"].state = "closed"
      /\ [as[a] EXCEPT !.state = "closed"].rpc = as[a].rpc
      /\ [as[a] EXCEPT !.state = "closed"].batch = as[a].batch
  BY <1>1 DEF AttemptRecord
<1>. QED BY <1>2 DEF AttemptsClosedWith

(* Handing batches over to the operator leaves every state as it was. *)
LEMMA ManualizedSame ==
  ASSUME TypeOK, NEW B, NEW at PROVE SameStates(batches, Manualized(batches, B, at))
BY ManualizedFacts DEF SameStates, TypeOK

(* Charging the budget leaves every state as it was. *)
LEMMA CountedSame == ASSUME TypeOK, NEW b PROVE SameStates(batches, Counted(batches, b))
<1>1. ASSUME NEW c \in Batch PROVE /\ Counted(batches, b)[c].state = batches[c].state
                                  /\ Counted(batches, b)[c].policy = batches[c].policy
  BY DEF Counted, TypeOK, BatchRecord
<1>. QED BY <1>1 DEF SameStates

(* What is left alone keeps the invariant. *)
LEMMA SameAttempts ==
  ASSUME Inv, SameStates(batches, batches'),
         \A a \in Attempt : /\ attempts'[a].batch = attempts[a].batch
                            /\ attempts'[a].state = attempts[a].state
                            /\ attempts'[a].rpc = attempts[a].rpc
  PROVE  TableInv(batches', attempts')
<1>1. EndsAttempts(batches', attempts, attempts', {}) BY DEF EndsAttempts
<1>. QED BY <1>1, EndsAttemptsKeeps DEF Inv

(* One attempt a, of a batch that is not automatic any more or refused, ends. *)
LEMMA OneGivenUp ==
  ASSUME Inv, SameStates(batches, batches'), NEW a \in Attempt, NEW r,
         attempts[a].state # "absent",
         attempts' = [attempts EXCEPT ![a] = r],
         r.batch = attempts[a].batch, r.state = "abandoned",
         attempts[a].rpc = "rejected_before_accept" => r.rpc = "rejected_before_accept",
         \/ r.rpc = "rejected_before_accept"
         \/ batches'[attempts[a].batch].state = "open" =>
              batches'[attempts[a].batch].policy # "automatic"
  PROVE  TableInv(batches', attempts')
<1>1. attempts'[a] = r /\ \A c \in Attempt \ {a} : attempts'[c] = attempts[c] BY DEF Inv, TypeOK
<1>2. EndsAttempts(batches', attempts, attempts', {a})
  <2>1. \A c \in Attempt : attempts'[c].batch = attempts[c].batch BY <1>1
  <2>. QED BY <1>1, <2>1 DEF EndsAttempts
<1>. QED BY <1>2, EndsAttemptsKeeps DEF Inv

(* The same for a turn given up by an observation, which hands its batch over. *)
LEMMA GiveUpKeeps ==
  ASSUME Inv, NEW a \in Attempt, NEW r, NEW at,
         GiveUp(a, r, at) \/ GiveUpAppServer(a, r, at),
         attempts[a].state # "absent",
         r.batch = attempts[a].batch, r.state = "abandoned",
         attempts[a].rpc = "rejected_before_accept" => r.rpc = "rejected_before_accept"
  PROVE  TableInv(batches', attempts')
<1>1. attempts' = [attempts EXCEPT ![a] = r] /\ batches' = Manualized(batches, {attempts[a].batch}, at)
  BY DEF GiveUp, GiveUpAppServer
<1>2. SameStates(batches, batches') BY <1>1, ManualizedSame DEF Inv
<1>3. attempts[a].batch \in Batch BY DEF Inv, TableInv, Linked
<1>4. batches'[attempts[a].batch].state = "open" => batches'[attempts[a].batch].policy # "automatic"
  BY <1>1, <1>2, <1>3, ManualizedOne DEF Inv, TypeOK, SameStates
<1>. QED BY <1>1, <1>2, <1>4, OneGivenUp

(* close_batch_tx on an open batch keeps the invariant. *)
LEMMA CloseKeeps ==
  ASSUME Inv, NEW b \in Batch, IsOpen(b), NEW reason, CloseBatch(b, reason)
  PROVE  TableInv(batches', attempts')
<1>. DEFINE B == {b}
<1>1. \A c \in Batch : /\ batches'[c].state = IF c \in B THEN "closed" ELSE batches[c].state
                       /\ batches'[c].policy = batches[c].policy
  BY ClosedFacts DEF CloseBatch, Inv, TypeOK, BatchTable
<1>2. ASSUME NEW a \in Attempt
      PROVE  /\ attempts'[a].batch = attempts[a].batch /\ attempts'[a].rpc = attempts[a].rpc
             /\ attempts'[a].state = IF attempts[a].batch \in B /\ attempts[a].state \in ActiveStates
                                     THEN "closed" ELSE attempts[a].state
  BY AttemptsClosedFacts DEF CloseBatch, Inv, TypeOK, AttemptTable
<1>3. B \in SUBSET Batch /\ \A c \in B : batches[c].state = "open" BY DEF IsOpen
<1>. HIDE DEF B
<1>4. \A a \in Attempt :
        /\ attempts'[a].state = attempts[a].state
             \/ (attempts'[a].state = "closed" /\ attempts[a].batch \in B)
        /\ attempts[a].state = "absent" => attempts'[a].state = "absent"
        /\ attempts'[a].state \in ActiveStates => attempts[a].batch \notin B
  BY <1>2 DEF ActiveStates
<1>5. Closes(batches, batches', attempts, attempts', B) BY <1>1, <1>2, <1>3, <1>4 DEF Closes
<1>. QED BY <1>3, <1>5, ClosesKeeps DEF Inv

(* A delivery recorded for an open batch keeps the invariant. *)
LEMMA DeliverKeeps ==
  ASSUME Inv, NEW a \in Attempt, attempts[a].state # "absent", IsOpen(attempts[a].batch), Deliver(a)
  PROVE  TableInv(batches', attempts')
<1>. DEFINE b == attempts[a].batch
            B == {b}
            r == [attempts[a] EXCEPT !.state = "cooldown", !.obs = "completed",
                                     !.event = "turn_completed"]
            as == [attempts EXCEPT ![a] = r]
<1>1. b \in Batch /\ batches[b].state = "open" BY DEF Inv, TableInv, Linked, IsOpen
<1>2. \A c \in Batch : /\ batches'[c].state = IF c \in B THEN "closed" ELSE batches[c].state
                       /\ batches'[c].policy = batches[c].policy
  BY ClosedFacts DEF Deliver, Inv, TypeOK, BatchTable
<1>3. attempts' = AttemptsClosedWith(as, B) BY DEF Deliver
<1>4. /\ r \in AttemptRecord /\ r.state = "cooldown"
      /\ r.batch = attempts[a].batch /\ r.rpc = attempts[a].rpc
  <2>1. attempts[a] \in AttemptRecord BY DEF Inv, TypeOK
  <2>2. r \in AttemptRecord BY <2>1, ZenonT(60) DEF AttemptRecord
  <2>3. r.state = "cooldown" BY <2>1 DEF AttemptRecord
  <2>4. r.batch = attempts[a].batch BY <2>1 DEF AttemptRecord
  <2>5. r.rpc = attempts[a].rpc BY <2>1 DEF AttemptRecord
  <2>. QED BY <2>2, <2>3, <2>4, <2>5
<1>9. B \in SUBSET Batch /\ attempts[a].batch \in B /\ \A c \in B : batches[c].state = "open" BY <1>1
<1>. HIDE DEF r, B
<1>5. /\ as \in AttemptTable
      /\ \A c \in Attempt : as[c] = IF c = a THEN r ELSE attempts[c]
  BY <1>4 DEF Inv, TypeOK, AttemptTable
<1>. HIDE DEF as
<1>6. ASSUME NEW c \in Attempt
      PROVE  /\ attempts'[c].batch = attempts[c].batch /\ attempts'[c].rpc = attempts[c].rpc
             /\ attempts'[c].state = IF as[c].batch \in B /\ as[c].state \in ActiveStates
                                     THEN "closed" ELSE as[c].state
             /\ as[c].batch = attempts[c].batch
  <2>1. /\ AttemptsClosedWith(as, B)[c].batch = as[c].batch
        /\ AttemptsClosedWith(as, B)[c].rpc = as[c].rpc
        /\ AttemptsClosedWith(as, B)[c].state =
              IF as[c].batch \in B /\ as[c].state \in ActiveStates THEN "closed" ELSE as[c].state
    BY <1>5, AttemptsClosedFacts
  <2>2. as[c].batch = attempts[c].batch /\ as[c].rpc = attempts[c].rpc BY <1>4, <1>5
  <2>. QED BY <1>3, <2>1, <2>2
<1>7. ASSUME NEW c \in Attempt
      PROVE  /\ attempts'[c].state = attempts[c].state
                  \/ (attempts'[c].state = "closed" /\ attempts[c].batch \in B)
             /\ attempts[c].state = "absent" => attempts'[c].state = "absent"
             /\ attempts'[c].state \in ActiveStates => attempts[c].batch \notin B
  <2>1. CASE c = a
    <3>1. attempts'[c].state = "closed" BY <2>1, <1>4, <1>5, <1>6, <1>9 DEF ActiveStates
    <3>. QED BY <2>1, <3>1, <1>9 DEF ActiveStates
  <2>2. CASE c # a
    <3>1. as[c] = attempts[c] BY <2>2, <1>5
    <3>. QED BY <3>1, <1>6 DEF ActiveStates
  <2>. QED BY <2>1, <2>2
<1>8. Closes(batches, batches', attempts, attempts', B) BY <1>2, <1>6, <1>7, <1>9 DEF Closes
<1>. QED BY <1>8, <1>9, ClosesKeeps DEF Inv

(* Both adapters begin an attempt in a way that keeps the invariant. *)
LEMMA BeginKeeps ==
  ASSUME Inv, NEW a \in Attempt, NEW b \in Batch, NEW r,
         attempts[a].state = "absent", IsHead(b), IsAutomatic(b), NoActiveOnThread(ThreadOf[b]),
         attempts' = [attempts EXCEPT ![a] = r], r.state = "accept_pending", r.batch = b,
         batches' = batches
  PROVE  TableInv(batches', attempts')
<1>1. attempts'[a] = r /\ \A c \in Attempt \ {a} : attempts'[c] = attempts[c] BY DEF Inv, TypeOK
<1>2. InsertsAttempt(batches, attempts, attempts', a, b)
  BY <1>1 DEF InsertsAttempt, IsHead, IsOpen, IsAutomatic, NoActiveOnThread, Active
<1>3. attempts \in AttemptTable BY DEF Inv, TypeOK, AttemptTable
<1>. QED BY <1>2, <1>3, BeginsKeeps DEF Inv

(* Both adapters accept an attempt in a way that keeps the invariant. *)
LEMMA AcceptKeeps ==
  ASSUME Inv, NEW a \in Attempt, NEW adapter, IsAcceptPending(a, adapter),
         NEW at, batches' = Counted(batches, attempts[a].batch),
         attempts' = [attempts EXCEPT ![a] = [@ EXCEPT !.state = "cooldown", !.rpc = "accepted",
                        !.obs = "tracking", !.deadline = at + ObservationWindow]]
  PROVE  TableInv(batches', attempts')
<1>1. /\ attempts'[a].state = "cooldown" /\ attempts'[a].batch = attempts[a].batch
      /\ \A c \in Attempt \ {a} : attempts'[c] = attempts[c]
  BY DEF Inv, TypeOK, AttemptRecord
<1>2. Accepts(attempts, attempts', a) BY <1>1 DEF Accepts, ActiveStates, IsAcceptPending
<1>3. SameStates(batches, batches') BY CountedSame DEF Inv
<1>. QED BY <1>2, <1>3, AcceptsKeeps DEF Inv

(* The queue operations keep the invariant. *)
LEMMA QueueKeeps == Inv /\ QueueNext => TableInv(batches', attempts')
<1>. SUFFICES ASSUME Inv, QueueNext PROVE TableInv(batches', attempts') OBVIOUS
<1>1. PICK b \in Batch : \/ CompleteJob(b) \/ FailJob(b) \/ EnqueuePlugin(b)
                         \/ CloseHead(b) \/ ManualizePlugin(b)
  BY DEF QueueNext
<1>2. ASSUME NEW plugin, NEW detachable, NEW t, NEW max, batches[b].state = "absent",
             batches' = [batches EXCEPT ![b] = NewBatch(plugin, detachable, t, max)]
      PROVE  /\ TableInv(batches', attempts)
             /\ batches'[b].state = "open" /\ batches'[b].policy = "automatic"
             /\ \A c \in Batch \ {b} : batches'[c] = batches[c]
  <2>1. /\ batches'[b] = NewBatch(plugin, detachable, t, max)
        /\ \A c \in Batch \ {b} : batches'[c] = batches[c]
    BY <1>2 DEF Inv, TypeOK
  <2>2. batches'[b].state = "open" /\ batches'[b].policy = "automatic" BY <2>1 DEF NewBatch
  <2>3. Enqueues(batches, batches', b) BY <1>2, <2>1, <2>2 DEF Enqueues
  <2>. QED BY <2>1, <2>2, <2>3, EnqueuesKeeps DEF Inv
<1>3. ASSUME NEW at, NEW detachable, EnqueueJobBatch(b, detachable, at)
      PROVE  TableInv(batches', attempts')
  <2>1. PICK max \in Budgets : batches' = [batches EXCEPT ![b] = NewBatch(FALSE, detachable, at, max)]
    BY <1>3 DEF EnqueueJobBatch
  <2>2. batches[b].state = "absent" /\ attempts' = attempts BY <1>3 DEF EnqueueJobBatch
  <2>. QED BY <1>2, <2>1, <2>2
<1>4. CASE CompleteJob(b) BY <1>3, <1>4 DEF CompleteJob
<1>5. CASE FailJob(b) BY <1>3, <1>5 DEF FailJob
<1>6. CASE EnqueuePlugin(b)
  <2>1. PICK t, max : batches' = [batches EXCEPT ![b] = NewBatch(TRUE, FALSE, t, max)]
    BY <1>6, Zenon DEF EnqueuePlugin
  <2>2. batches[b].state = "absent" BY <1>6 DEF EnqueuePlugin
  <2>3. /\ TableInv(batches', attempts)
        /\ batches'[b].state = "open" /\ batches'[b].policy = "automatic"
        /\ \A c \in Batch \ {b} : batches'[c] = batches[c]
    BY <1>2, <2>1, <2>2
  <2>4. CASE attempts' = attempts BY <2>3, <2>4
  <2>5. ASSUME NoActiveOnThread(ThreadOf[b]), NEW at, NEW a \in Attempt,
               attempts[a].state = "absent",
               attempts' = [attempts EXCEPT ![a] = NewAppServerAttempt(b, 1, at)]
        PROVE  TableInv(batches', attempts')
    <3>1. /\ attempts'[a].state = "accept_pending" /\ attempts'[a].batch = b
          /\ \A c \in Attempt \ {a} : attempts'[c] = attempts[c]
      BY <2>5 DEF NewAppServerAttempt, Inv, TypeOK
    <3>2. ASSUME NEW c \in Attempt, attempts[c].state \in ActiveStates
          PROVE  ~(batches'[attempts[c].batch].state = "open" /\ ThreadOf[attempts[c].batch] = ThreadOf[b])
      <4>1. attempts[c].state # "absent" BY <3>2 DEF ActiveStates
      <4>2. attempts[c].batch \in Batch \ {b} BY <2>2, <4>1 DEF Inv, TableInv, Linked
      <4>. QED BY <2>3, <2>5, <3>2, <4>2 DEF NoActiveOnThread, Active, IsOpen
    <3>3. InsertsAttempt(batches', attempts, attempts', a, b) BY <2>3, <2>5, <3>1, <3>2 DEF InsertsAttempt
    <3>4. attempts \in AttemptTable BY DEF Inv, TypeOK, AttemptTable
    <3>. QED BY <2>3, <3>3, <3>4, BeginsKeeps
  <2>6. \/ attempts' = attempts
        \/ /\ NoActiveOnThread(ThreadOf[b])
           /\ \E at : \E a \in Attempt :
                /\ attempts[a].state = "absent"
                /\ attempts' = [attempts EXCEPT ![a] = NewAppServerAttempt(b, 1, at)]
    BY <1>6, Zenon DEF EnqueuePlugin
  <2>. QED BY <2>4, <2>5, <2>6
<1>7. CASE CloseHead(b) BY <1>7, CloseKeeps DEF CloseHead, IsHead
<1>8. CASE ManualizePlugin(b)
  <2>1. PICK at : batches' = Manualized(batches, {b}, at) BY <1>8 DEF ManualizePlugin
  <2>2. attempts' = [a \in Attempt |-> IF a \in ActiveOn(b) THEN TakenOver(attempts[a]) ELSE attempts[a]]
    BY <1>8 DEF ManualizePlugin
  <2>3. SameStates(batches, batches') BY <2>1, ManualizedSame DEF Inv
  <2>4. batches'[b].policy # "automatic"
    BY <1>8, <2>1, ManualizedOne DEF ManualizePlugin, IsOpen, Inv, TypeOK
  <2>5. ActiveOn(b) \subseteq Attempt /\ \A a \in ActiveOn(b) : attempts[a].state # "absent" /\ attempts[a].batch = b
    BY DEF ActiveOn, OnBatch
  <2>6. \A a \in Attempt : attempts[a] \in AttemptRecord BY DEF Inv, TypeOK
  <2>7. EndsAttempts(batches', attempts, attempts', ActiveOn(b))
    <3>1. \A a \in Attempt : attempts'[a].batch = attempts[a].batch BY <2>2, <2>6, RowFacts
    <3>2. \A a \in Attempt \ ActiveOn(b) : attempts'[a] = attempts[a] BY <2>2
    <3>3. ASSUME NEW a \in ActiveOn(b)
          PROVE  /\ attempts[a].state # "absent" /\ attempts'[a].state = "abandoned"
                 /\ attempts[a].rpc = "rejected_before_accept" => attempts'[a].rpc = "rejected_before_accept"
                 /\ batches'[attempts[a].batch].policy # "automatic"
      <4>1. attempts'[a] = TakenOver(attempts[a]) BY <2>2, <2>5
      <4>. QED BY <2>4, <2>5, <2>6, <4>1, RowFacts
    <3>. QED BY <3>1, <3>2, <3>3 DEF EndsAttempts
  <2>. QED BY <2>3, <2>5, <2>7, EndsAttemptsKeeps DEF Inv
<1>. QED BY <1>1, <1>4, <1>5, <1>6, <1>7, <1>8

(* The loss of the observations of a session keeps the invariant. *)
LEMMA LoseObservationsKeeps ==
  ASSUME Inv, NEW s, NEW at, LoseObservations(s, at)
  PROVE  TableInv(batches', attempts')
<1>. DEFINE D == ObservedUnder(s)
<1>1. batches' = Manualized(batches, {attempts[a].batch : a \in D}, at) BY DEF LoseObservations
<1>2. SameStates(batches, batches') BY <1>1, ManualizedSame DEF Inv
<1>3. \A a \in D : /\ a \in Attempt /\ attempts[a].state # "absent"
                   /\ batches[attempts[a].batch].state = "open"
  BY DEF ObservedUnder, IsOpen
<1>4. \A a \in Attempt : attempts[a] \in AttemptRecord BY DEF Inv, TypeOK
<1>5. \A a \in Attempt : attempts'[a] = IF a \in D THEN Abandoned(attempts[a], "abandoned") ELSE attempts[a]
  BY DEF LoseObservations
<1>. HIDE DEF D
<1>6. ASSUME NEW a \in D PROVE batches'[attempts[a].batch].policy # "automatic"
  <2>1. attempts[a].batch \in Batch BY <1>3 DEF Inv, TableInv, Linked
  <2>2. attempts[a].batch \in {attempts[c].batch : c \in D} OBVIOUS
  <2>. QED BY <1>1, <1>3, <2>1, <2>2, ManualizedFacts DEF Inv, TypeOK
<1>7. EndsAttempts(batches', attempts, attempts', D)
  <2>1. \A a \in Attempt : attempts'[a].batch = attempts[a].batch BY <1>4, <1>5, AbandonedFacts
  <2>2. \A a \in Attempt \ D : attempts'[a] = attempts[a] BY <1>5
  <2>3. \A a \in D : attempts'[a].state = "abandoned" /\ attempts'[a].rpc = attempts[a].rpc
    BY <1>3, <1>4, <1>5, AbandonedFacts
  <2>. QED BY <1>3, <1>6, <2>1, <2>2, <2>3 DEF EndsAttempts
<1>. QED BY <1>2, <1>3, <1>7, EndsAttemptsKeeps DEF Inv

(* The session operations keep the invariant. *)
LEMMA SessionKeeps == Inv /\ SessionNext => TableInv(batches', attempts')
<1>. SUFFICES ASSUME Inv, SessionNext PROVE TableInv(batches', attempts') OBVIOUS
<1>1. \/ batches' = batches /\ attempts' = attempts
      \/ \E s, at : LoseObservations(s, at)
  BY Zenon DEF SessionNext, CreateSession, Reattach, ReplaceSession, RetireSession, NoteActivity,
               NoteCapabilities, NotePermissions, InvalidateProof, InvalidateCurrentProof
<1>. QED BY <1>1, LoseObservationsKeeps DEF Inv

-----------------------------------------------------------------------------
(* Every branch of the two observers keeps the invariant. *)
LEMMA ObserveKeeps ==
  ASSUME Inv, NEW a \in Attempt, NEW event, ObserveCli(a, event) \/ ObserveAppServer(a, event)
  PROVE  TableInv(batches', attempts')
<1>1. attempts[a] \in AttemptRecord BY DEF Inv, TypeOK
<1>2. attempts[a].rpc = "accepted" BY DEF ObserveCli, ObserveAppServer
<1>3. ASSUME attempts' = [attempts EXCEPT ![a].event = event], batches' = batches
      PROVE  TableInv(batches', attempts')
  <2>1. \A c \in Attempt : /\ attempts'[c].batch = attempts[c].batch
                           /\ attempts'[c].state = attempts[c].state
                           /\ attempts'[c].rpc = attempts[c].rpc
    BY <1>3 DEF Inv, TypeOK, AttemptRecord
  <2>2. SameStates(batches, batches') BY <1>3 DEF SameStates
  <2>. QED BY <2>1, <2>2, SameAttempts
<1>4. ASSUME NEW adapter, IsTracking(a, adapter), NEW obs, NEW at,
             LET r == [Abandoned(attempts[a], obs) EXCEPT !.event = event]
             IN  GiveUp(a, r, at) \/ GiveUpAppServer(a, r, at)
      PROVE  TableInv(batches', attempts')
  <2>. DEFINE r == [Abandoned(attempts[a], obs) EXCEPT !.event = event]
  <2>1. r.batch = attempts[a].batch /\ r.state = "abandoned" /\ r.rpc = attempts[a].rpc
    BY <1>1, AbandonedFacts
  <2>2. GiveUp(a, r, at) \/ GiveUpAppServer(a, r, at) BY <1>4
  <2>3. attempts[a].state # "absent" BY <1>4 DEF IsTracking
  <2>. HIDE DEF r
  <2>. QED BY <2>1, <2>2, <2>3, GiveUpKeeps
<1>5. ASSUME attempts[a].state \in {"cooldown", "abandoned"}, HoldsHead(a), Deliver(a)
      PROVE  TableInv(batches', attempts')
  BY <1>5, DeliverKeeps DEF HoldsHead, IsHead
<1>6. ASSUME NEW at, ObserveDelayed(a, event, at) PROVE TableInv(batches', attempts')
  BY <1>5, <1>6 DEF ObserveDelayed, CompletesDelayed, AwaitsLateEvidence
<1>7. ASSUME NEW at, ObserveLate(a, event, at) PROVE TableInv(batches', attempts')
  BY <1>3, <1>7 DEF ObserveLate
<1>8. ASSUME NEW at, ObserveAfterLoss(a, event, at) PROVE TableInv(batches', attempts')
  BY <1>4, <1>8 DEF ObserveAfterLoss
<1>9. ASSUME NEW at, ObserveAfterDeadline(a, event, at) PROVE TableInv(batches', attempts')
  BY <1>4, <1>9 DEF ObserveAfterDeadline
<1>10. ASSUME NEW at, ObserveInTime(a, event, at) PROVE TableInv(batches', attempts')
  BY <1>3, <1>4, <1>5, <1>10 DEF ObserveInTime, IsTracking
<1>11. ASSUME ObserveAppServerLate(a, event) PROVE TableInv(batches', attempts')
  BY <1>3, <1>11 DEF ObserveAppServerLate
<1>12. ASSUME NEW at, ObserveAppServerAfterDeadline(a, event, at) PROVE TableInv(batches', attempts')
  BY <1>4, <1>12 DEF ObserveAppServerAfterDeadline
<1>13. ASSUME NEW at, ObserveAppServerInTime(a, event, at) PROVE TableInv(batches', attempts')
  BY <1>3, <1>4, <1>5, <1>13 DEF ObserveAppServerInTime, IsTracking
<1>. QED BY <1>6, <1>7, <1>8, <1>9, <1>10, <1>11, <1>12, <1>13, Zenon DEF ObserveCli, ObserveAppServer

(* The CLI delivery operations keep the invariant. *)
LEMMA CliKeeps == Inv /\ CliNext => TableInv(batches', attempts')
<1>. SUFFICES ASSUME Inv, CliNext PROVE TableInv(batches', attempts') OBVIOUS
<1>1. PICK a \in Attempt :
        \/ \E b \in Batch, s \in Session, auth \in AuthModes : BeginCli(a, b, s, auth)
        \/ AcceptCli(a)
        \/ \E manual \in BOOLEAN : RejectCli(a, manual)
        \/ RejectCliAgain(a)
        \/ ExpireCli(a)
        \/ \E event \in TurnEvents : ObserveCli(a, event)
  BY DEF CliNext
<1>2. attempts[a] \in AttemptRecord BY DEF Inv, TypeOK
<1>3. ASSUME NEW b \in Batch, NEW s, NEW auth, BeginCli(a, b, s, auth)
      PROVE  TableInv(batches', attempts')
  <2>1. PICK at \in Recent, g \in 1 .. MaxGeneration :
               attempts' = [attempts EXCEPT ![a] = NewCliAttempt(b, s, auth, g, at)]
    BY <1>3 DEF BeginCli
  <2>2. /\ NewCliAttempt(b, s, auth, g, at).state = "accept_pending"
        /\ NewCliAttempt(b, s, auth, g, at).batch = b
    BY DEF NewCliAttempt
  <2>. QED BY <1>3, <2>1, <2>2, BeginKeeps DEF BeginCli
<1>4. CASE AcceptCli(a) BY <1>4, AcceptKeeps DEF AcceptCli
<1>5. ASSUME NEW manual, RejectCli(a, manual) PROVE TableInv(batches', attempts')
  <2>1. attempts[a].state # "absent" /\ attempts' = [attempts EXCEPT ![a] = Rejected(attempts[a])]
    BY <1>5 DEF RejectCli, IsAcceptPending
  <2>2. SameStates(batches, batches')
    <3>1. CASE batches' = batches BY <3>1 DEF SameStates
    <3>2. CASE \E at : batches' = Manualized(batches, {attempts[a].batch}, at)
      BY <3>2, ManualizedSame DEF Inv
    <3>. QED BY <1>5, <3>1, <3>2 DEF RejectCli
  <2>. QED BY <1>2, <2>1, <2>2, RowFacts, OneGivenUp
<1>6. CASE RejectCliAgain(a)
  <2>1. SameStates(batches, batches') BY <1>6, ManualizedSame DEF RejectCliAgain, Inv
  <2>. QED BY <1>6, <2>1, SameAttempts DEF RejectCliAgain
<1>7. CASE ExpireCli(a)
  <2>1. PICK at, obs : GiveUp(a, Abandoned(attempts[a], obs), at) BY <1>7 DEF ExpireCli
  <2>2. attempts[a].state # "absent" BY <1>7 DEF ExpireCli, IsTracking
  <2>. QED BY <1>2, <2>1, <2>2, AbandonedFacts, GiveUpKeeps
<1>8. ASSUME NEW event, ObserveCli(a, event) PROVE TableInv(batches', attempts') BY <1>8, ObserveKeeps
<1>. QED BY <1>1, <1>3, <1>4, <1>5, <1>6, <1>7, <1>8

(* The app-server delivery operations keep the invariant. *)
LEMMA AppServerKeeps == Inv /\ AppServerNext => TableInv(batches', attempts')
<1>. SUFFICES ASSUME Inv, AppServerNext PROVE TableInv(batches', attempts') OBVIOUS
<1>1. PICK a \in Attempt :
        \/ \E b \in Batch : BeginAppServer(a, b)
        \/ AcceptAppServer(a)
        \/ \E manual \in BOOLEAN : RejectAppServer(a, manual)
        \/ RejectAppServerAgain(a)
        \/ AbandonAppServerUnknown(a)
        \/ \E event \in TurnEvents : ObserveAppServer(a, event)
  BY DEF AppServerNext
<1>2. attempts[a] \in AttemptRecord BY DEF Inv, TypeOK
<1>3. ASSUME NEW b \in Batch, BeginAppServer(a, b) PROVE TableInv(batches', attempts')
  <2>1. PICK at \in Recent, g \in 1 .. MaxGeneration :
               attempts' = [attempts EXCEPT ![a] = NewAppServerAttempt(b, g, at)]
    BY <1>3 DEF BeginAppServer
  <2>2. /\ NewAppServerAttempt(b, g, at).state = "accept_pending"
        /\ NewAppServerAttempt(b, g, at).batch = b
    BY DEF NewAppServerAttempt
  <2>. QED BY <1>3, <2>1, <2>2, BeginKeeps DEF BeginAppServer
<1>4. CASE AcceptAppServer(a) BY <1>4, AcceptKeeps DEF AcceptAppServer
<1>5. ASSUME NEW manual, RejectAppServer(a, manual) PROVE TableInv(batches', attempts')
  <2>. DEFINE b == attempts[a].batch
  <2>1. attempts[a].state # "absent" /\ attempts' = [attempts EXCEPT ![a] = Rejected(attempts[a])]
    BY <1>5 DEF RejectAppServer, IsAcceptPending
  <2>2. SameStates(batches, Counted(batches, b)) BY CountedSame DEF Inv
  <2>3. ASSUME NEW at PROVE SameStates(batches, Manualized(Counted(batches, b), {b}, at))
    <3>1. Counted(batches, b) \in [Batch -> BatchRecord] BY CountedType DEF Inv
    <3>. QED BY <2>2, <3>1, ManualizedFacts DEF SameStates
  <2>4. \/ batches' = Counted(batches, b)
        \/ \E at : batches' = Manualized(Counted(batches, b), {b}, at)
    BY <1>5, Zenon DEF RejectAppServer
  <2>5. SameStates(batches, batches') BY <2>2, <2>3, <2>4
  <2>. QED BY <1>2, <2>1, <2>5, RowFacts, OneGivenUp
<1>6. CASE RejectAppServerAgain(a)
  <2>1. SameStates(batches, batches') BY <1>6, ManualizedSame DEF RejectAppServerAgain, Inv
  <2>. QED BY <1>6, <2>1, SameAttempts DEF RejectAppServerAgain
<1>7. CASE AbandonAppServerUnknown(a)
  <2>1. PICK at : batches' = Manualized(batches, {attempts[a].batch}, at)
    BY <1>7 DEF AbandonAppServerUnknown
  <2>2. SameStates(batches, batches') BY <2>1, ManualizedSame DEF Inv
  <2>3. CASE attempts' = attempts BY <2>2, <2>3, SameAttempts
  <2>4. CASE /\ IsAcceptPending(a, "codex_app_server")
             /\ attempts' = [attempts EXCEPT ![a] = AbandonedUnknown(attempts[a])]
    <3>1. attempts[a].state # "absent" /\ attempts[a].rpc # "rejected_before_accept"
      BY <2>4 DEF IsAcceptPending
    <3>2. attempts[a].batch \in Batch BY <3>1 DEF Inv, TableInv, Linked
    <3>3. batches'[attempts[a].batch].state = "open" => batches'[attempts[a].batch].policy # "automatic"
      BY <2>1, <2>2, <3>2, ManualizedOne DEF Inv, TypeOK, SameStates
    <3>. QED BY <1>2, <2>2, <2>4, <3>1, <3>3, RowFacts, OneGivenUp
  <2>. QED BY <1>7, <2>3, <2>4 DEF AbandonAppServerUnknown
<1>8. ASSUME NEW event, ObserveAppServer(a, event) PROVE TableInv(batches', attempts')
  BY <1>8, ObserveKeeps
<1>. QED BY <1>1, <1>3, <1>4, <1>5, <1>6, <1>7, <1>8

-----------------------------------------------------------------------------
(* The first half of a sweep: attempts in flight are given up. *)
LEMMA SweepGivesUp ==
  ASSUME Inv, NEW U \in SUBSET Attempt, NEW C \in SUBSET Attempt, NEW P \in SUBSET Attempt, NEW at,
         \A a \in U : attempts[a].state = "accept_pending" /\ attempts[a].rpc = "pending_acceptance",
         \A a \in C \union P : attempts[a].state = "cooldown"
  PROVE  TableInv(Manualized(batches, {attempts[a].batch : a \in U \union C \union P}, at),
                  AttemptsAfter(U, C, P))
<1>. DEFINE D == U \union C \union P
            B == {attempts[a].batch : a \in D}
            bs == Manualized(batches, B, at)
            as == AttemptsAfter(U, C, P)
<1>1. SameStates(batches, bs) BY ManualizedSame DEF Inv
<1>2. ASSUME NEW a \in D PROVE bs[attempts[a].batch].state = "open" => bs[attempts[a].batch].policy # "automatic"
  <2>1. attempts[a].state # "absent" OBVIOUS
  <2>2. attempts[a].batch \in Batch BY <2>1 DEF Inv, TableInv, Linked
  <2>3. attempts[a].batch \in B OBVIOUS
  <2>. HIDE DEF B
  <2>. QED BY <1>1, <2>2, <2>3, ManualizedFacts DEF Inv, TypeOK, SameStates
<1>3. ASSUME NEW a \in Attempt
      PROVE  /\ as[a].batch = attempts[a].batch
             /\ a \in D => as[a].state = "abandoned"
             /\ a \in D /\ attempts[a].rpc = "rejected_before_accept" => as[a].rpc = "rejected_before_accept"
             /\ a \notin D => as[a] = attempts[a]
  <2>1. attempts[a] \in AttemptRecord BY DEF Inv, TypeOK
  <2>2. CASE a \in U BY <2>1, <2>2, RowFacts DEF AttemptsAfter
  <2>3. CASE a \notin U /\ a \in C \union P
    <3>1. PICK obs : as[a] = Abandoned(attempts[a], obs) BY <2>3 DEF AttemptsAfter
    <3>. QED BY <2>1, <2>3, <3>1, AbandonedFacts
  <2>4. CASE a \notin D BY <2>4 DEF AttemptsAfter
  <2>. QED BY <2>2, <2>3, <2>4
<1>4. D \in SUBSET Attempt /\ \A a \in D : attempts[a].state # "absent" OBVIOUS
<1>. HIDE DEF D, B, bs, as
<1>5. EndsAttempts(bs, attempts, as, D) BY <1>2, <1>3, <1>4 DEF EndsAttempts
<1>6. TableInv(bs, as) BY <1>1, <1>4, <1>5, EndsAttemptsKeeps DEF Inv
<1>. QED BY <1>6 DEF bs, as, B, D

(* The second half: batches past their window are closed. *)
LEMMA SweepTablesKeeps ==
  ASSUME Inv, NEW U \in SUBSET Attempt, NEW C \in SUBSET Attempt, NEW P \in SUBSET Attempt,
         NEW at \in Recent,
         \A a \in U : attempts[a].state = "accept_pending" /\ attempts[a].rpc = "pending_acceptance",
         \A a \in C \union P : attempts[a].state = "cooldown",
         SweepTables(U, C, P, at)
  PROVE  TableInv(batches', attempts')
<1>. DEFINE bs == Manualized(batches, {attempts[a].batch : a \in U \union C \union P}, at)
            as == AttemptsAfter(U, C, P)
<1>1. PICK M, A :
        /\ \A b \in M \union A : b \in Batch /\ bs[b].state = "open"
        /\ batches' = Closed(Closed(bs, M, "manual_resolution_expired"), A,
                             "redelivery_window_exhausted")
        /\ attempts' = AttemptsClosedWith(as, M \union A)
  <2>. DEFINE windows == [b \in Batch |-> bs[b].window_ends_at]
  <2>1. PICK M \in Oldest(ExpiredBatches(as, bs, "manual_resolution_only", at), windows, SweepLimit),
             A \in Oldest(ExpiredBatches(as, bs, "automatic", at), windows, SweepLimit) :
          /\ batches' = Closed(Closed(bs, M, "manual_resolution_expired"), A,
                               "redelivery_window_exhausted")
          /\ attempts' = AttemptsClosedWith(as, M \union A)
    BY Zenon DEF SweepTables
  <2>. HIDE DEF bs, as
  <2>2. M \subseteq ExpiredBatches(as, bs, "manual_resolution_only", at) BY DEF Oldest
  <2>3. A \subseteq ExpiredBatches(as, bs, "automatic", at) BY DEF Oldest
  <2>4. \A b \in M \union A : b \in Batch /\ bs[b].state = "open" BY <2>2, <2>3 DEF ExpiredBatches
  <2>. QED BY <2>1, <2>4
<1>2. TableInv(bs, as) BY SweepGivesUp
<1>3. bs \in BatchTable BY RecentIsNat, ManualizedType DEF Inv, TypeOK, BatchTable
<1>4. as \in AttemptTable BY AttemptsAfterType DEF Inv, AttemptTable
<1>. HIDE DEF bs, as
<1>5. \A b \in Batch : /\ batches'[b].state = IF b \in M \union A THEN "closed" ELSE bs[b].state
                       /\ batches'[b].policy = bs[b].policy
  <2>1. Closed(bs, M, "manual_resolution_expired") \in BatchTable BY <1>3, ClosedType DEF BatchTable
  <2>. QED BY <1>1, <1>3, <2>1, ClosedFacts
<1>. DEFINE B == M \union A
<1>6. attempts' = AttemptsClosedWith(as, B) BY <1>1
<1>7. B \in SUBSET Batch /\ \A b \in B : bs[b].state = "open" BY <1>1
<1>. HIDE DEF B
<1>8. ASSUME NEW a \in Attempt
       PROVE  /\ attempts'[a].batch = as[a].batch /\ attempts'[a].rpc = as[a].rpc
              /\ attempts'[a].state = IF as[a].batch \in B /\ as[a].state \in ActiveStates
                                      THEN "closed" ELSE as[a].state
  <2>1. /\ AttemptsClosedWith(as, B)[a].batch = as[a].batch
        /\ AttemptsClosedWith(as, B)[a].rpc = as[a].rpc
        /\ AttemptsClosedWith(as, B)[a].state =
              IF as[a].batch \in B /\ as[a].state \in ActiveStates THEN "closed" ELSE as[a].state
    BY ONLY <1>4, a \in Attempt, AttemptsClosedFacts
  <2>. QED BY <1>6, <2>1
<1>9. \A a \in Attempt :
        /\ attempts'[a].state = as[a].state \/ (attempts'[a].state = "closed" /\ as[a].batch \in B)
        /\ as[a].state = "absent" => attempts'[a].state = "absent"
        /\ attempts'[a].state \in ActiveStates => as[a].batch \notin B
  BY <1>8 DEF ActiveStates
<1>10. Closes(bs, batches', as, attempts', B)
  <2>1. \A b \in Batch : /\ batches'[b].state = IF b \in B THEN "closed" ELSE bs[b].state
                         /\ batches'[b].policy = bs[b].policy
    BY <1>5 DEF B
  <2>. QED BY <2>1, <1>7, <1>9, <1>8 DEF Closes
<1>. QED BY <1>2, <1>7, <1>10, ClosesKeeps

(* Maintenance and time keep the invariant. *)
LEMMA SweepKeeps == Inv /\ (Sweep \/ SweepAppServer \/ Tick) => TableInv(batches', attempts')
<1>. SUFFICES ASSUME Inv, Sweep \/ SweepAppServer \/ Tick PROVE TableInv(batches', attempts')
  OBVIOUS
<1>1. ASSUME NEW adapter, NEW timeout, NEW at, NEW U \in StaleToSweep(adapter, timeout, at)
      PROVE  /\ U \in SUBSET Attempt
             /\ \A a \in U : attempts[a].state = "accept_pending" /\ attempts[a].rpc = "pending_acceptance"
  <2>1. U \subseteq StaleAcceptances(adapter, timeout, at) BY DEF StaleToSweep, Oldest
  <2>. QED BY <2>1 DEF StaleAcceptances, IsAcceptPending
<1>2. ASSUME NEW adapter, NEW at, NEW P \in DueToSweep(adapter, at)
      PROVE  P \in SUBSET Attempt /\ \A a \in P : attempts[a].state = "cooldown"
  <2>1. P \subseteq DueObservations(adapter, at) BY DEF DueToSweep, Oldest
  <2>. QED BY <2>1 DEF DueObservations
<1>3. CASE Sweep
  <2>1. PICK at \in Recent :
               \E U1 \in StaleToSweep("cli", AcceptTimeout, at),
                  C \in DueToSweep("cli", at),
                  U2 \in StaleToSweep("codex_app_server", AppServerAcceptTimeout, at),
                  P \in DueToSweep("codex_app_server", at) :
                 SweepTables(U1 \union U2, C, P, at)
    BY <1>3 DEF Sweep
  <2>2. PICK U1 \in StaleToSweep("cli", AcceptTimeout, at),
             C \in DueToSweep("cli", at),
             U2 \in StaleToSweep("codex_app_server", AppServerAcceptTimeout, at),
             P \in DueToSweep("codex_app_server", at) :
                 SweepTables(U1 \union U2, C, P, at)
    BY <2>1
  <2>3. /\ U1 \union U2 \in SUBSET Attempt
        /\ \A a \in U1 \union U2 : /\ attempts[a].state = "accept_pending"
                                  /\ attempts[a].rpc = "pending_acceptance"
    BY <1>1
  <2>4. /\ C \in SUBSET Attempt /\ P \in SUBSET Attempt
        /\ \A a \in C \union P : attempts[a].state = "cooldown"
    BY <1>2
  <2>. QED BY <2>2, <2>3, <2>4, SweepTablesKeeps
<1>4. CASE SweepAppServer
  <2>1. PICK at \in Recent :
               \E U \in StaleToSweep("codex_app_server", AppServerAcceptTimeout, at),
                  P \in DueToSweep("codex_app_server", at) :
                 /\ attempts' = AttemptsAfter(U, {}, P)
                 /\ batches' = Manualized(batches, {attempts[a].batch : a \in U \union P}, at)
    BY <1>4 DEF SweepAppServer
  <2>2. PICK U \in StaleToSweep("codex_app_server", AppServerAcceptTimeout, at),
             P \in DueToSweep("codex_app_server", at) :
                 /\ attempts' = AttemptsAfter(U, {}, P)
                 /\ batches' = Manualized(batches, {attempts[a].batch : a \in U \union P}, at)
    BY <2>1
  <2>3. /\ U \in SUBSET Attempt /\ P \in SUBSET Attempt /\ {} \in SUBSET Attempt
        /\ \A a \in U : attempts[a].state = "accept_pending" /\ attempts[a].rpc = "pending_acceptance"
        /\ \A a \in {} \union P : attempts[a].state = "cooldown"
    BY <1>1, <1>2
  <2>4. U \union {} \union P = U \union P OBVIOUS
  <2>5. TableInv(Manualized(batches, {attempts[a].batch : a \in U \union {} \union P}, at),
                 AttemptsAfter(U, {}, P))
    BY <2>3, SweepGivesUp
  <2>. QED BY <2>2, <2>4, <2>5
<1>5. CASE Tick BY <1>5 DEF Tick, Inv
<1>. QED BY <1>3, <1>4, <1>5

-----------------------------------------------------------------------------
(* Every step of the store keeps the tables in order. *)
LEMMA InvStep == Inv /\ [Next]_vars => Inv'
<1>1. Inv /\ UNCHANGED vars => TableInv(batches', attempts') BY DEF Inv, vars
<1>2. Inv /\ Next => TableInv(batches', attempts')
  BY QueueKeeps, SessionKeeps, CliKeeps, AppServerKeeps, SweepKeeps DEF Next
<1>3. TypeOK /\ [Next]_vars => TypeOK' BY TypeStep
<1>. QED BY <1>1, <1>2, <1>3 DEF Inv

(* Tables without an attempt are in order. *)
LEMMA NoAttemptsInv ==
  ASSUME \A a \in Attempt : attempts[a].state = "absent" PROVE TableInv(batches, attempts)
BY DEF TableInv, Linked, QuietWhenClosed, ClosedTogether, UnknownIsManual, OnePerThread,
       OneExposure, ActiveStates

(* The tables keep their invariant, whoever calls the store in what order. *)
THEOREM InvHolds == Spec => []Inv
<1>1. Init => Inv
  <2>1. ASSUME Init PROVE \A a \in Attempt : attempts[a].state = "absent"
    BY <2>1 DEF Init, NoAttempt
  <2>. QED BY <2>1, InitType, NoAttemptsInv DEF Inv
<1>. QED BY <1>1, InvStep, PTL DEF Spec

(* One delivery in flight per thread, whichever adapter, batch or session it *)
(* goes through.                                                             *)
THEOREM OneInFlightHolds == Spec => []OneInFlight
<1>1. Inv => OneInFlight BY DEF Inv, TableInv, OnePerThread, OneInFlight, Active
<1>. QED BY <1>1, InvHolds, PTL

(* Nothing is in flight for a closed batch. *)
THEOREM ClosedBatchQuietHolds == Spec => []ClosedBatchQuiet
<1>1. Inv => ClosedBatchQuiet BY DEF Inv, TableInv, QuietWhenClosed, ClosedBatchQuiet, Active, IsOpen
<1>. QED BY <1>1, InvHolds, PTL

(* An attempt given up with its outcome unknown leaves its batch to the      *)
(* operator.                                                                 *)
THEOREM AmbiguityIsManualHolds == Spec => []AmbiguityIsManual
<1>1. Inv => AmbiguityIsManual
  BY DEF Inv, TableInv, UnknownIsManual, AmbiguityIsManual, IsOpen, IsAutomatic
<1>. QED BY <1>1, InvHolds, PTL

(* Of all attempts of a batch at most one was not refused before acceptance:  *)
(* a batch reaches its thread at most once.                                   *)
THEOREM AtMostOneDispatchHolds == Spec => []AtMostOneDispatch
<1>1. Inv => AtMostOneDispatch BY DEF Inv, TableInv, OneExposure, AtMostOneDispatch
<1>. QED BY <1>1, InvHolds, PTL
-----------------------------------------------------------------------------
Finished(a) == attempts[a].state \in {"abandoned", "closed"}

(* No attempt is closed, none that ended changes its state. *)
NoneCloses == \A a \in Attempt :
  /\ attempts'[a].state = "closed" => attempts[a].state = "closed"
  /\ Finished(a) => attempts'[a].state = attempts[a].state

(* What closes, closes with its batch, which the operator closes or which a  *)
(* completed turn closes; an attempt that ended may only be closed by its    *)
(* own completion, which it was still waiting for.                           *)
ClosesForAReason(b, reason) ==
  /\ batches'[b].close_reason = reason
  /\ \A a \in Attempt :
       \/ attempts'[a].state = attempts[a].state
       \/ /\ attempts[a].batch = b /\ attempts'[a].state = "closed"
          /\ Finished(a) => attempts[a].obs = "expired" /\ reason = "delivered"

Quiet == \/ NoneCloses
         \/ \E b \in Batch, reason \in {"delivered", "operator"} : ClosesForAReason(b, reason)

(* One attempt ends, or goes on. *)
LEMMA OneQuiet ==
  ASSUME TypeOK, NEW a \in Attempt, NEW r, attempts' = [attempts EXCEPT ![a] = r],
         r.state # "closed" \/ attempts[a].state = "closed",
         Finished(a) => r.state = attempts[a].state
  PROVE  Quiet
<1>1. attempts'[a] = r /\ \A c \in Attempt \ {a} : attempts'[c] = attempts[c] BY DEF TypeOK
<1>. QED BY <1>1 DEF Quiet, NoneCloses, Finished

(* No attempt changes. *)
LEMMA NoneQuiet == ASSUME attempts' = attempts PROVE Quiet
BY DEF Quiet, NoneCloses

(* The operator closes a batch. *)
LEMMA CloseQuiet ==
  ASSUME TypeOK, NEW b \in Batch, CloseBatch(b, "operator") PROVE Quiet
<1>1. batches'[b].close_reason = "operator" BY DEF CloseBatch, Closed, TypeOK, BatchRecord
<1>2. ASSUME NEW a \in Attempt
      PROVE  \/ attempts'[a].state = attempts[a].state
             \/ /\ attempts[a].batch = b /\ attempts'[a].state = "closed" /\ ~Finished(a)
  <2>1. attempts'[a].state = IF attempts[a].batch \in {b} /\ attempts[a].state \in ActiveStates
                             THEN "closed" ELSE attempts[a].state
    BY AttemptsClosedFacts DEF CloseBatch, TypeOK, AttemptTable
  <2>. QED BY <2>1 DEF Finished, ActiveStates
<1>3. ClosesForAReason(b, "operator") BY <1>1, <1>2 DEF ClosesForAReason
<1>. QED BY <1>3 DEF Quiet

(* A turn completed: of an attempt in flight, or of one that expired. *)
LEMMA DeliverQuiet ==
  ASSUME TypeOK, NEW a \in Attempt, Deliver(a), attempts[a].batch \in Batch,
         Finished(a) => attempts[a].obs = "expired"
  PROVE  Quiet
<1>. DEFINE b == attempts[a].batch
            r == [attempts[a] EXCEPT !.state = "cooldown", !.obs = "completed",
                                     !.event = "turn_completed"]
            as == [attempts EXCEPT ![a] = r]
<1>1. batches'[b].close_reason = "delivered" BY ZenonT(60) DEF Deliver, Closed, TypeOK, BatchRecord
<1>2. attempts' = AttemptsClosedWith(as, {b}) BY DEF Deliver
<1>3. r \in AttemptRecord /\ r.state = "cooldown" /\ r.batch = attempts[a].batch
  <2>1. attempts[a] \in AttemptRecord BY DEF TypeOK
  <2>. QED BY <2>1 DEF AttemptRecord
<1>. HIDE DEF r
<1>4. /\ as \in AttemptTable
      /\ \A c \in Attempt : as[c] = IF c = a THEN r ELSE attempts[c]
  BY <1>3 DEF TypeOK, AttemptTable
<1>. HIDE DEF as
<1>5. ASSUME NEW c \in Attempt
      PROVE  \/ attempts'[c].state = attempts[c].state
             \/ /\ attempts[c].batch = b /\ attempts'[c].state = "closed"
                /\ Finished(c) => attempts[c].obs = "expired"
  <2>1. attempts'[c].state =
          IF as[c].batch \in {b} /\ as[c].state \in ActiveStates THEN "closed" ELSE as[c].state
    BY <1>2, <1>4, AttemptsClosedFacts
  <2>2. CASE c = a BY <1>3, <1>4, <2>1, <2>2 DEF ActiveStates
  <2>3. CASE c # a
    <3>1. as[c] = attempts[c] BY <1>4, <2>3
    <3>. QED BY <2>1, <3>1 DEF ActiveStates, Finished
  <2>. QED BY <2>2, <2>3
<1>6. ClosesForAReason(b, "delivered") BY <1>1, <1>5 DEF ClosesForAReason
<1>. QED BY <1>6 DEF Quiet

(* The queue. *)
LEMMA QueueQuiet == Inv /\ QueueNext => Quiet
<1>. SUFFICES ASSUME Inv, QueueNext PROVE Quiet OBVIOUS
<1>1. PICK b \in Batch : \/ CompleteJob(b) \/ FailJob(b) \/ EnqueuePlugin(b)
                         \/ CloseHead(b) \/ ManualizePlugin(b)
  BY DEF QueueNext
<1>2. CASE CompleteJob(b) BY <1>2, NoneQuiet DEF CompleteJob, EnqueueJobBatch
<1>3. CASE FailJob(b) BY <1>3, NoneQuiet DEF FailJob, EnqueueJobBatch
<1>4. CASE EnqueuePlugin(b)
  <2>1. \/ attempts' = attempts
        \/ \E at : \E a \in Attempt :
             /\ attempts[a].state = "absent"
             /\ attempts' = [attempts EXCEPT ![a] = NewAppServerAttempt(b, 1, at)]
    BY <1>4, Zenon DEF EnqueuePlugin
  <2>2. ASSUME NEW at, NEW a \in Attempt, attempts[a].state = "absent",
               attempts' = [attempts EXCEPT ![a] = NewAppServerAttempt(b, 1, at)]
        PROVE  Quiet
    <3>1. NewAppServerAttempt(b, 1, at).state # "closed" /\ ~Finished(a)
      BY <2>2 DEF NewAppServerAttempt, Finished
    <3>. QED BY <2>2, <3>1, OneQuiet DEF Inv
  <2>. QED BY <2>1, <2>2, NoneQuiet
<1>5. CASE CloseHead(b) BY <1>5, CloseQuiet DEF CloseHead, Inv
<1>6. CASE ManualizePlugin(b)
  <2>1. ASSUME NEW a \in Attempt
        PROVE  /\ attempts'[a].state = "closed" => attempts[a].state = "closed"
               /\ Finished(a) => attempts'[a].state = attempts[a].state
    <3>1. attempts[a] \in AttemptRecord BY DEF Inv, TypeOK
    <3>2. attempts'[a] = IF a \in ActiveOn(b) THEN TakenOver(attempts[a]) ELSE attempts[a]
      BY <1>6 DEF ManualizePlugin
    <3>3. a \in ActiveOn(b) => ~Finished(a) BY DEF ActiveOn, Active, ActiveStates, Finished
    <3>. QED BY <3>1, <3>2, <3>3, RowFacts
  <2>. QED BY <2>1 DEF Quiet, NoneCloses
<1>. QED BY <1>1, <1>2, <1>3, <1>4, <1>5, <1>6

(* The sessions. *)
LEMMA SessionQuiet == Inv /\ SessionNext => Quiet
<1>. SUFFICES ASSUME Inv, SessionNext PROVE Quiet OBVIOUS
<1>1. \/ attempts' = attempts
      \/ \E s, at : LoseObservations(s, at)
  BY Zenon DEF SessionNext, CreateSession, Reattach, ReplaceSession, RetireSession, NoteActivity,
               NoteCapabilities, NotePermissions, InvalidateProof, InvalidateCurrentProof
<1>2. ASSUME NEW s, NEW at, LoseObservations(s, at) PROVE Quiet
  <2>1. ASSUME NEW a \in Attempt
        PROVE  /\ attempts'[a].state = "closed" => attempts[a].state = "closed"
               /\ Finished(a) => attempts'[a].state = attempts[a].state
    <3>1. attempts[a] \in AttemptRecord BY DEF Inv, TypeOK
    <3>2. attempts'[a] = IF a \in ObservedUnder(s) THEN Abandoned(attempts[a], "abandoned")
                                                   ELSE attempts[a]
      BY <1>2 DEF LoseObservations
    <3>3. a \in ObservedUnder(s) => attempts[a].state \in {"cooldown", "abandoned"}
      BY DEF ObservedUnder
    <3>. QED BY <3>1, <3>2, <3>3, AbandonedFacts DEF Finished
  <2>. QED BY <2>1 DEF Quiet, NoneCloses
<1>. QED BY <1>1, <1>2, NoneQuiet

(* The observers. *)
LEMMA ObserveQuiet ==
  ASSUME Inv, NEW a \in Attempt, NEW event, ObserveCli(a, event) \/ ObserveAppServer(a, event)
  PROVE  Quiet
<1>1. attempts[a] \in AttemptRecord BY DEF Inv, TypeOK
<1>2. ASSUME attempts' = [attempts EXCEPT ![a].event = event] PROVE Quiet
  <2>1. LET r == [attempts[a] EXCEPT !.event = event]
        IN  r.state = attempts[a].state /\ attempts' = [attempts EXCEPT ![a] = r]
    BY <1>1, <1>2 DEF AttemptRecord
  <2>. QED BY <2>1, OneQuiet DEF Inv
<1>3. ASSUME NEW adapter, IsTracking(a, adapter), NEW obs, NEW at,
             LET r == [Abandoned(attempts[a], obs) EXCEPT !.event = event]
             IN  GiveUp(a, r, at) \/ GiveUpAppServer(a, r, at)
      PROVE  Quiet
  <2>1. /\ attempts' = [attempts EXCEPT ![a] = [Abandoned(attempts[a], obs) EXCEPT !.event = event]]
        /\ ~Finished(a)
    BY <1>3 DEF GiveUp, GiveUpAppServer, IsTracking, Finished
  <2>2. [Abandoned(attempts[a], obs) EXCEPT !.event = event].state = "abandoned"
    BY <1>1, AbandonedFacts
  <2>. QED BY <2>1, <2>2, OneQuiet DEF Inv
<1>4. ASSUME attempts[a].state # "absent", Finished(a) => attempts[a].obs = "expired", Deliver(a)
      PROVE  Quiet
  BY <1>4, DeliverQuiet DEF Inv, TableInv, Linked
<1>5. ASSUME NEW at, ObserveDelayed(a, event, at) PROVE Quiet
  BY <1>4, <1>5 DEF ObserveDelayed, CompletesDelayed, AwaitsLateEvidence
<1>6. ASSUME NEW at, ObserveLate(a, event, at) PROVE Quiet BY <1>2, <1>6 DEF ObserveLate
<1>7. ASSUME NEW at, ObserveAfterLoss(a, event, at) PROVE Quiet
  BY <1>3, <1>7 DEF ObserveAfterLoss
<1>8. ASSUME NEW at, ObserveAfterDeadline(a, event, at) PROVE Quiet
  BY <1>3, <1>8 DEF ObserveAfterDeadline
<1>9. ASSUME NEW at, ObserveInTime(a, event, at) PROVE Quiet
  BY <1>2, <1>3, <1>4, <1>9 DEF ObserveInTime, IsTracking, Finished
<1>10. ASSUME ObserveAppServerLate(a, event) PROVE Quiet
  BY <1>2, <1>10 DEF ObserveAppServerLate
<1>11. ASSUME NEW at, ObserveAppServerAfterDeadline(a, event, at) PROVE Quiet
  BY <1>3, <1>11 DEF ObserveAppServerAfterDeadline
<1>12. ASSUME NEW at, ObserveAppServerInTime(a, event, at) PROVE Quiet
  BY <1>2, <1>3, <1>4, <1>12 DEF ObserveAppServerInTime, IsTracking, Finished
<1>. QED BY <1>5, <1>6, <1>7, <1>8, <1>9, <1>10, <1>11, <1>12, Zenon DEF ObserveCli, ObserveAppServer
(* A send that begins, is accepted or is given up. *)
LEMMA SendQuiet ==
  ASSUME TypeOK, NEW a \in Attempt, NEW r, attempts' = [attempts EXCEPT ![a] = r],
         attempts[a].state \in {"absent", "accept_pending", "cooldown"}, r.state # "closed"
  PROVE  Quiet
BY OneQuiet DEF Finished

(* CLI delivery. *)
LEMMA CliQuiet == Inv /\ CliNext => Quiet
<1>. SUFFICES ASSUME Inv, CliNext PROVE Quiet OBVIOUS
<1>1. PICK a \in Attempt :
        \/ \E b \in Batch, s \in Session, auth \in AuthModes : BeginCli(a, b, s, auth)
        \/ AcceptCli(a)
        \/ \E manual \in BOOLEAN : RejectCli(a, manual)
        \/ RejectCliAgain(a)
        \/ ExpireCli(a)
        \/ \E event \in TurnEvents : ObserveCli(a, event)
  BY DEF CliNext
<1>2. TypeOK /\ attempts[a] \in AttemptRecord BY DEF Inv, TypeOK
<1>3. ASSUME NEW b \in Batch, NEW s \in Session, NEW auth, BeginCli(a, b, s, auth) PROVE Quiet
  <2>1. PICK at, g : attempts' = [attempts EXCEPT ![a] = NewCliAttempt(b, s, auth, g, at)]
    BY <1>3 DEF BeginCli
  <2>2. NewCliAttempt(b, s, auth, g, at).state # "closed" BY DEF NewCliAttempt
  <2>. QED BY <1>2, <1>3, <2>1, <2>2, SendQuiet DEF BeginCli
<1>4. CASE AcceptCli(a)
  <2>1. PICK at : attempts' = [attempts EXCEPT ![a] =
                    [attempts[a] EXCEPT !.state = "cooldown", !.rpc = "accepted",
                                        !.obs = "tracking", !.deadline = at + ObservationWindow]]
    BY <1>4 DEF AcceptCli
  <2>2. [attempts[a] EXCEPT !.state = "cooldown", !.rpc = "accepted", !.obs = "tracking",
                            !.deadline = at + ObservationWindow].state # "closed"
    BY <1>2 DEF AttemptRecord
  <2>. QED BY <1>2, <1>4, <2>1, <2>2, SendQuiet DEF AcceptCli, IsAcceptPending
<1>5. ASSUME NEW manual, RejectCli(a, manual) PROVE Quiet
  <2>1. attempts' = [attempts EXCEPT ![a] = Rejected(attempts[a])] BY <1>5 DEF RejectCli
  <2>. QED BY <1>2, <1>5, <2>1, RowFacts, SendQuiet DEF RejectCli, IsAcceptPending
<1>6. CASE RejectCliAgain(a) BY <1>6, NoneQuiet DEF RejectCliAgain
<1>7. CASE ExpireCli(a)
  <2>1. PICK obs : attempts' = [attempts EXCEPT ![a] = Abandoned(attempts[a], obs)]
    BY <1>7 DEF ExpireCli, GiveUp
  <2>. QED BY <1>2, <1>7, <2>1, AbandonedFacts, SendQuiet DEF ExpireCli, IsTracking
<1>8. ASSUME NEW event, ObserveCli(a, event) PROVE Quiet BY <1>8, ObserveQuiet
<1>. QED BY <1>1, <1>3, <1>4, <1>5, <1>6, <1>7, <1>8

(* Codex app-server delivery. *)
LEMMA AppServerQuiet == Inv /\ AppServerNext => Quiet
<1>. SUFFICES ASSUME Inv, AppServerNext PROVE Quiet OBVIOUS
<1>1. PICK a \in Attempt :
        \/ \E b \in Batch : BeginAppServer(a, b)
        \/ AcceptAppServer(a)
        \/ \E manual \in BOOLEAN : RejectAppServer(a, manual)
        \/ RejectAppServerAgain(a)
        \/ AbandonAppServerUnknown(a)
        \/ \E event \in TurnEvents : ObserveAppServer(a, event)
  BY DEF AppServerNext
<1>2. TypeOK /\ attempts[a] \in AttemptRecord BY DEF Inv, TypeOK
<1>3. ASSUME NEW b \in Batch, BeginAppServer(a, b) PROVE Quiet
  <2>1. PICK at, g : attempts' = [attempts EXCEPT ![a] = NewAppServerAttempt(b, g, at)]
    BY <1>3 DEF BeginAppServer
  <2>2. NewAppServerAttempt(b, g, at).state # "closed" BY DEF NewAppServerAttempt
  <2>. QED BY <1>2, <1>3, <2>1, <2>2, SendQuiet DEF BeginAppServer
<1>4. CASE AcceptAppServer(a)
  <2>1. PICK at : attempts' = [attempts EXCEPT ![a] =
                    [attempts[a] EXCEPT !.state = "cooldown", !.rpc = "accepted",
                                        !.obs = "tracking", !.deadline = at + ObservationWindow]]
    BY <1>4 DEF AcceptAppServer
  <2>2. [attempts[a] EXCEPT !.state = "cooldown", !.rpc = "accepted", !.obs = "tracking",
                            !.deadline = at + ObservationWindow].state # "closed"
    BY <1>2 DEF AttemptRecord
  <2>. QED BY <1>2, <1>4, <2>1, <2>2, SendQuiet DEF AcceptAppServer, IsAcceptPending
<1>5. ASSUME NEW manual, RejectAppServer(a, manual) PROVE Quiet
  <2>1. attempts' = [attempts EXCEPT ![a] = Rejected(attempts[a])] BY <1>5 DEF RejectAppServer
  <2>. QED BY <1>2, <1>5, <2>1, RowFacts, SendQuiet DEF RejectAppServer, IsAcceptPending
<1>6. CASE RejectAppServerAgain(a) BY <1>6, NoneQuiet DEF RejectAppServerAgain
<1>7. CASE AbandonAppServerUnknown(a)
  <2>1. ASSUME attempts' = [attempts EXCEPT ![a] = AbandonedUnknown(attempts[a])],
               attempts[a].state = "accept_pending"
        PROVE  Quiet
    BY <1>2, <2>1, RowFacts, SendQuiet
  <2>. QED BY <1>7, <2>1, NoneQuiet DEF AbandonAppServerUnknown, IsAcceptPending
<1>8. ASSUME NEW event, ObserveAppServer(a, event) PROVE Quiet BY <1>8, ObserveQuiet
<1>. QED BY <1>1, <1>3, <1>4, <1>5, <1>6, <1>7, <1>8

-----------------------------------------------------------------------------
(* What a sweep gives up was in flight, and it closes no attempt. *)
LEMMA GivenUpQuiet ==
  ASSUME Inv, NEW U, NEW C, NEW P, NEW a \in Attempt,
         \A c \in U \union C \union P : c \in Attempt => Active(c)
  PROVE  /\ AttemptsAfter(U, C, P)[a].state = "closed" => attempts[a].state = "closed"
         /\ Finished(a) => AttemptsAfter(U, C, P)[a].state = attempts[a].state
<1>1. attempts[a] \in AttemptRecord BY DEF Inv, TypeOK
<1>2. CASE a \in U
  <2>1. ~Finished(a) BY <1>2 DEF Active, ActiveStates, Finished
  <2>2. AttemptsAfter(U, C, P)[a] = AbandonedUnknown(attempts[a]) BY <1>2 DEF AttemptsAfter
  <2>. QED BY <1>1, <2>1, <2>2, RowFacts
<1>3. CASE a \notin U /\ a \in C \union P
  <2>1. ~Finished(a) BY <1>3 DEF Active, ActiveStates, Finished
  <2>2. PICK obs : AttemptsAfter(U, C, P)[a] = Abandoned(attempts[a], obs)
    BY <1>3 DEF AttemptsAfter
  <2>. QED BY <1>1, <2>1, <2>2, AbandonedFacts
<1>4. CASE a \notin U \union C \union P
  <2>1. AttemptsAfter(U, C, P)[a] = attempts[a] BY <1>4 DEF AttemptsAfter
  <2>. QED BY <2>1
<1>. QED BY <1>2, <1>3, <1>4

(* The batches a sweep closes have nothing in flight. *)
LEMMA SweepTablesQuiet ==
  ASSUME Inv, NEW U, NEW C, NEW P, NEW at,
         \A c \in U \union C \union P : c \in Attempt => Active(c),
         SweepTables(U, C, P, at)
  PROVE  Quiet
<1>. DEFINE bs == Manualized(batches, {attempts[a].batch : a \in U \union C \union P}, at)
            as == AttemptsAfter(U, C, P)
<1>1. PICK M, A :
        /\ \A b \in M \union A : \A a \in Attempt : as[a].batch = b => as[a].state \notin ActiveStates
        /\ attempts' = AttemptsClosedWith(as, M \union A)
  <2>. DEFINE windows == [b \in Batch |-> bs[b].window_ends_at]
  <2>1. PICK M \in Oldest(ExpiredBatches(as, bs, "manual_resolution_only", at), windows, SweepLimit),
             A \in Oldest(ExpiredBatches(as, bs, "automatic", at), windows, SweepLimit) :
          attempts' = AttemptsClosedWith(as, M \union A)
    BY Zenon DEF SweepTables
  <2>. HIDE DEF bs, as
  <2>2. M \subseteq ExpiredBatches(as, bs, "manual_resolution_only", at) BY DEF Oldest
  <2>3. A \subseteq ExpiredBatches(as, bs, "automatic", at) BY DEF Oldest
  <2>4. \A b \in M \union A : \A a \in Attempt : as[a].batch = b => as[a].state \notin ActiveStates
    BY <2>2, <2>3 DEF ExpiredBatches
  <2>. QED BY <2>1, <2>4
<1>2. as \in AttemptTable BY AttemptsAfterType DEF Inv, AttemptTable
<1>3. ASSUME NEW a \in Attempt
      PROVE  /\ as[a].state = "closed" => attempts[a].state = "closed"
             /\ Finished(a) => as[a].state = attempts[a].state
  BY GivenUpQuiet
<1>. HIDE DEF as
<1>. DEFINE B == M \union A
<1>4. /\ \A a \in Attempt : as[a].batch \in B => as[a].state \notin ActiveStates
      /\ attempts' = AttemptsClosedWith(as, B)
  BY <1>1
<1>. HIDE DEF B
<1>5. ASSUME NEW a \in Attempt PROVE attempts'[a].state = as[a].state
  BY <1>2, <1>4, AttemptsClosedFacts
<1>. QED BY <1>3, <1>5 DEF Quiet, NoneCloses

(* Maintenance and time. *)
LEMMA SweepQuiet == Inv /\ (Sweep \/ SweepAppServer \/ Tick) => Quiet
<1>. SUFFICES ASSUME Inv, Sweep \/ SweepAppServer \/ Tick PROVE Quiet OBVIOUS
<1>1. ASSUME NEW adapter, NEW timeout, NEW at, NEW U \in StaleToSweep(adapter, timeout, at)
      PROVE  \A a \in U : Active(a)
  <2>1. U \subseteq StaleAcceptances(adapter, timeout, at) BY DEF StaleToSweep, Oldest
  <2>. QED BY <2>1 DEF StaleAcceptances, IsAcceptPending, Active, ActiveStates
<1>2. ASSUME NEW adapter, NEW at, NEW P \in DueToSweep(adapter, at)
      PROVE  \A a \in P : Active(a)
  <2>1. P \subseteq DueObservations(adapter, at) BY DEF DueToSweep, Oldest
  <2>. QED BY <2>1 DEF DueObservations, Active, ActiveStates
<1>3. CASE Sweep
  <2>1. PICK at \in Recent :
               \E U1 \in StaleToSweep("cli", AcceptTimeout, at),
                  C \in DueToSweep("cli", at),
                  U2 \in StaleToSweep("codex_app_server", AppServerAcceptTimeout, at),
                  P \in DueToSweep("codex_app_server", at) :
                 SweepTables(U1 \union U2, C, P, at)
    BY <1>3 DEF Sweep
  <2>2. PICK U1 \in StaleToSweep("cli", AcceptTimeout, at),
             C \in DueToSweep("cli", at),
             U2 \in StaleToSweep("codex_app_server", AppServerAcceptTimeout, at),
             P \in DueToSweep("codex_app_server", at) :
                 SweepTables(U1 \union U2, C, P, at)
    BY <2>1
  <2>3. \A c \in (U1 \union U2) \union C \union P : Active(c) BY <1>1, <1>2
  <2>. QED BY <2>2, <2>3, SweepTablesQuiet
<1>4. CASE SweepAppServer
  <2>1. PICK at \in Recent :
               \E U \in StaleToSweep("codex_app_server", AppServerAcceptTimeout, at),
                  P \in DueToSweep("codex_app_server", at) :
                 attempts' = AttemptsAfter(U, {}, P)
    BY <1>4 DEF SweepAppServer
  <2>2. PICK U \in StaleToSweep("codex_app_server", AppServerAcceptTimeout, at),
             P \in DueToSweep("codex_app_server", at) :
                 attempts' = AttemptsAfter(U, {}, P)
    BY <2>1
  <2>3. \A c \in U \union {} \union P : c \in Attempt => Active(c) BY <1>1, <1>2
  <2>4. \A a \in Attempt :
          /\ AttemptsAfter(U, {}, P)[a].state = "closed" => attempts[a].state = "closed"
          /\ Finished(a) => AttemptsAfter(U, {}, P)[a].state = attempts[a].state
    BY <2>3, GivenUpQuiet
  <2>. QED BY <2>2, <2>4 DEF Quiet, NoneCloses
<1>5. CASE Tick BY <1>5, NoneQuiet DEF Tick
<1>. QED BY <1>3, <1>4, <1>5

-----------------------------------------------------------------------------
(* Every step. *)
LEMMA NextQuiet == Inv /\ [Next]_vars => Quiet
<1>1. vars' = vars => Quiet BY NoneQuiet DEF vars
<1>. QED BY <1>1, QueueQuiet, SessionQuiet, CliQuiet, AppServerQuiet, SweepQuiet DEF Next

(* What a finished attempt was, it stays, except that a completion observed  *)
(* in time and reported late closes it with its batch.                       *)
THEOREM FinishedStaysFinished == Spec => NoRevival
<1>1. Inv /\ Quiet =>
        \A a \in Attempt :
          /\ attempts[a].state \in {"abandoned", "closed"}
          => \/ attempts'[a].state = attempts[a].state
             \/ /\ attempts[a].obs = "expired"
                /\ attempts'[a].state = "closed"
                /\ batches'[attempts[a].batch].close_reason = "delivered"
  <2>. SUFFICES ASSUME Quiet, NEW a \in Attempt, Finished(a)
                PROVE  \/ attempts'[a].state = attempts[a].state
                       \/ /\ attempts[a].obs = "expired"
                          /\ attempts'[a].state = "closed"
                          /\ batches'[attempts[a].batch].close_reason = "delivered"
    BY DEF Finished
  <2>1. CASE NoneCloses BY <2>1 DEF NoneCloses
  <2>2. ASSUME NEW b \in Batch, NEW reason, ClosesForAReason(b, reason)
        PROVE  \/ attempts'[a].state = attempts[a].state
               \/ /\ attempts[a].obs = "expired"
                  /\ attempts'[a].state = "closed"
                  /\ batches'[attempts[a].batch].close_reason = "delivered"
    BY <2>2 DEF ClosesForAReason
  <2>. QED BY <2>1, <2>2 DEF Quiet
<1>. QED BY <1>1, NextQuiet, InvHolds, PTL DEF Spec, NoRevival

(* An attempt in flight is closed by a completed turn or by the operator,    *)
(* never by a sweep because the window of its batch has passed.              *)
THEOREM InFlightIsNotSwept == Spec => InFlightOutlivesWindow
<1>1. Inv /\ Quiet =>
        \A a \in Attempt : Active(a) /\ attempts'[a].state = "closed" =>
          batches'[attempts[a].batch].close_reason \in {"delivered", "operator"}
  <2>. SUFFICES ASSUME Quiet, NEW a \in Attempt, Active(a), attempts'[a].state = "closed"
                PROVE  batches'[attempts[a].batch].close_reason \in {"delivered", "operator"}
    OBVIOUS
  <2>1. attempts[a].state # "closed" BY DEF Active, ActiveStates
  <2>2. ~NoneCloses BY <2>1 DEF NoneCloses
  <2>. QED BY <2>1, <2>2 DEF Quiet, ClosesForAReason
<1>. QED BY <1>1, NextQuiet, InvHolds, PTL DEF Spec, InFlightOutlivesWindow
-----------------------------------------------------------------------------
(* What the rows say of the budget, of the sessions and of the permissions.  *)

(* A row that used up budget. *)
Charged(r) == /\ r.state # "absent"
              /\ \/ r.rpc = "accepted"
                 \/ r.rpc = "rejected_before_accept" /\ r.adapter = "codex_app_server"

SpentOn(b) == {a \in Attempt : attempts[a].batch = b /\ Charged(attempts[a])}

(* The proof given in epoch e of session s can no longer be used. *)
Past(ss, s, e) == ss[s].epoch > e \/ ss[s].state \notin {"live", "detached"}

(* An app-server attempt needs no session and no permissions. *)
NeedsNothing(r) == r.session = NoSession /\ r.auth = "trusted_all"

(* A CLI attempt belongs to a session of its thread, whose proof is past as  *)
(* soon as the attempt is not in flight any more.                            *)
BelongsTo(r) ==
  /\ r.session \in Session
  /\ sessions[r.session].state # "absent"
  /\ BoundTo[r.session] = ThreadOf[r.batch]
  /\ r.epoch <= sessions[r.session].epoch
  /\ r.state \in ActiveStates \/ Past(sessions, r.session, r.epoch)
  /\ ~batches[r.batch].plugin
  /\ r.auth = "strict_safe" => batches[r.batch].detachable

Rows == \A a \in Attempt :
  /\ attempts[a].state = "absent" => NeedsNothing(attempts[a])
  /\ attempts[a].state # "absent" =>
       IF attempts[a].adapter = "cli" THEN BelongsTo(attempts[a]) ELSE NeedsNothing(attempts[a])

Budget == \A b \in Batch : /\ IsFiniteSet(SpentOn(b))
                           /\ batches[b].attempt_count = Cardinality(SpentOn(b))
                           /\ batches[b].attempt_count <= batches[b].max_attempts

Hist == Rows /\ Budget /\ ProofUsedOnce

(* Steps. A row of a batch keeps what delivery reads of it; a new one has    *)
(* spent nothing.                                                            *)
SameRow(row, row2) ==
  IF row.state = "absent" THEN row2 = row \/ row2.attempt_count = 0
  ELSE /\ row2.state # "absent"
       /\ row2.plugin = row.plugin /\ row2.detachable = row.detachable
       /\ row2.max_attempts = row.max_attempts

SameCount(row, row2) == row.state # "absent" => row2.attempt_count = row.attempt_count

(* The proof of a session that is past stays past. *)
SessionKept(ss, ss2, s) == ss[s].state # "absent" =>
  /\ ss2[s].state # "absent"
  /\ ss2[s].epoch >= ss[s].epoch
  /\ ss2[s].state \in {"live", "detached"} => ss[s].state \in {"live", "detached"}

SameIdentity(r, r2) ==
  /\ r2.state # "absent"
  /\ r2.batch = r.batch /\ r2.adapter = r.adapter /\ r2.auth = r.auth
  /\ r2.session = r.session /\ r2.epoch = r.epoch

Told(r, r2) == \/ r.rpc # "accepted" /\ r2.rpc = "accepted"
               \/ r.obs # "completed" /\ r2.obs = "completed"

(* What is learnt of a CLI attempt in flight is learnt in its own session. *)
Honest(a) == Active(a) /\ attempts[a].adapter = "cli" /\ Told(attempts[a], attempts'[a]) =>
               SessionIsCurrent(a)

(* A CLI attempt that ends takes the proof it was begun on with it. *)
FencedOff(a) ==
  Active(a) /\ attempts[a].adapter = "cli" /\ attempts'[a].state \notin ActiveStates =>
    Past(sessions', attempts[a].session, attempts[a].epoch)

Goes(a) == SameIdentity(attempts[a], attempts'[a]) /\ Honest(a) /\ FencedOff(a)

SameTables == /\ \A b \in Batch : SameRow(batches[b], batches'[b])
              /\ \A s \in Session : SessionKept(sessions, sessions', s)

(* Nothing is begun, nothing is spent. *)
Stands ==
  /\ SameTables
  /\ \A b \in Batch : SameCount(batches[b], batches'[b])
  /\ \A a \in Attempt :
       IF attempts[a].state = "absent" THEN attempts'[a] = attempts[a]
       ELSE Goes(a) /\ (Charged(attempts'[a]) <=> Charged(attempts[a]))

(* An attempt is begun. *)
Opens(a, r) ==
  /\ SameTables /\ sessions' = sessions
  /\ \A b \in Batch : SameCount(batches[b], batches'[b])
  /\ attempts[a].state = "absent" /\ attempts' = [attempts EXCEPT ![a] = r]
  /\ r.state = "accept_pending" /\ r.rpc = "pending_acceptance"
  /\ IF r.adapter = "cli"
     THEN /\ batches' = batches /\ r.batch \in Batch /\ batches[r.batch].state # "absent"
          /\ NoActiveOnThread(ThreadOf[r.batch])
          /\ r.epoch = sessions[r.session].epoch /\ IsAttachable(r.session)
          /\ r.session \in Session /\ BoundTo[r.session] = ThreadOf[r.batch]
          /\ ~batches[r.batch].plugin /\ (r.auth = "strict_safe" => batches[r.batch].detachable)
     ELSE NeedsNothing(r)

(* An attempt spends budget. *)
Charges(a, r) ==
  /\ SameTables
  /\ attempts[a].state # "absent" /\ attempts' = [attempts EXCEPT ![a] = r]
  /\ Goes(a) /\ ~Charged(attempts[a]) /\ Charged(r)
  /\ \A b \in Batch : IF b = attempts[a].batch
                      THEN /\ batches[b].attempt_count < batches[b].max_attempts
                           /\ batches'[b].attempt_count = batches[b].attempt_count + 1
                      ELSE SameCount(batches[b], batches'[b])

Step == Stands \/ \E a \in Attempt : \E r : Opens(a, r) \/ Charges(a, r)

-----------------------------------------------------------------------------
(* Such a step keeps the rows of the attempts true. *)

(* A proof that is past stays past. *)
LEMMA StaysPast ==
  ASSUME NEW ss \in [Session -> SessionRecord], NEW ss2 \in [Session -> SessionRecord],
         NEW s \in Session, ss[s].state # "absent", SessionKept(ss, ss2, s),
         NEW e \in Nat, Past(ss, s, e)
  PROVE  Past(ss2, s, e)
<1>1. ss[s].epoch \in Nat /\ ss2[s].epoch \in Nat BY DEF SessionRecord
<1>. QED BY <1>1 DEF Past, SessionKept

(* A row that goes on, or ends with its proof. *)
LEMMA GoesBelongs ==
  ASSUME Inv, TypeOK', Rows, SameTables, NEW a \in Attempt, attempts[a].state # "absent", Goes(a)
  PROVE  IF attempts'[a].adapter = "cli" THEN BelongsTo(attempts[a])' ELSE NeedsNothing(attempts'[a])
<1>. DEFINE r == attempts[a]  r2 == attempts'[a]
<1>1. SameIdentity(r, r2) /\ FencedOff(a) BY DEF Goes
<1>2. CASE r.adapter # "cli" BY <1>1, <1>2 DEF Rows, NeedsNothing, SameIdentity
<1>3. CASE r.adapter = "cli"
  <2>1. BelongsTo(r) BY <1>3 DEF Rows
  <2>2. /\ r2.session = r.session /\ r2.epoch = r.epoch /\ r2.batch = r.batch /\ r2.auth = r.auth
        /\ r2.adapter = "cli" /\ r.epoch \in Nat
        /\ r.batch \in Batch /\ batches[r.batch].state # "absent"
    <3>1. r \in AttemptRecord BY DEF Inv, TypeOK
    <3>2. r.epoch \in Nat BY <3>1 DEF AttemptRecord
    <3>. QED BY <1>1, <1>3, <3>2 DEF SameIdentity, Inv, TableInv, Linked
  <2>3. r.session \in Session /\ sessions[r.session].state # "absent" BY <2>1 DEF BelongsTo
  <2>4. SessionKept(sessions, sessions', r.session) BY <2>3 DEF SameTables
  <2>5. sessions \in [Session -> SessionRecord] /\ sessions' \in [Session -> SessionRecord]
    BY DEF Inv, TypeOK
  <2>6. r.epoch <= sessions'[r.session].epoch /\ sessions'[r.session].state # "absent"
    <3>1. sessions[r.session].epoch \in Nat /\ sessions'[r.session].epoch \in Nat
      BY <2>3, <2>5 DEF SessionRecord
    <3>. QED BY <2>1, <2>2, <2>3, <2>4, <3>1 DEF BelongsTo, SessionKept
  <2>7. r2.state \in ActiveStates \/ Past(sessions', r.session, r.epoch)
    <3>1. CASE r.state \in ActiveStates BY <1>1, <1>3, <3>1 DEF FencedOff, Active
    <3>2. CASE r.state \notin ActiveStates
      <4>1. Past(sessions, r.session, r.epoch) BY <2>1, <3>2 DEF BelongsTo
      <4>. QED BY <2>2, <2>3, <2>4, <2>5, <4>1, StaysPast
    <3>. QED BY <3>1, <3>2
  <2>8. /\ ~batches'[r.batch].plugin
        /\ r.auth = "strict_safe" => batches'[r.batch].detachable
    BY <2>1, <2>2 DEF BelongsTo, SameTables, SameRow
  <2>9. BoundTo[r.session] = ThreadOf[r.batch] BY <2>1 DEF BelongsTo
  <2>. HIDE DEF r, r2
  <2>10. /\ r2.session \in Session
         /\ sessions'[r2.session].state # "absent"
         /\ BoundTo[r2.session] = ThreadOf[r2.batch]
         /\ r2.epoch <= sessions'[r2.session].epoch
         /\ r2.state \in ActiveStates \/ Past(sessions', r2.session, r2.epoch)
         /\ ~batches'[r2.batch].plugin
         /\ r2.auth = "strict_safe" => batches'[r2.batch].detachable
    BY <2>2, <2>3, <2>6, <2>7, <2>8, <2>9
  <2>. QED BY <2>2, <2>10 DEF BelongsTo, r2
<1>. QED BY <1>2, <1>3
(* Every row, after a step that stands or charges. *)
LEMMA GoesRows ==
  ASSUME Inv, TypeOK', Rows, SameTables,
         \A a \in Attempt : \/ attempts[a].state = "absent" /\ attempts'[a] = attempts[a]
                            \/ attempts[a].state # "absent" /\ Goes(a)
  PROVE  Rows'
<1>1. ASSUME NEW a \in Attempt, attempts[a].state = "absent", attempts'[a] = attempts[a]
      PROVE  attempts'[a].state = "absent" /\ NeedsNothing(attempts'[a])
  BY <1>1 DEF Rows
<1>2. ASSUME NEW a \in Attempt, attempts[a].state # "absent", Goes(a)
      PROVE  /\ attempts'[a].state # "absent"
             /\ IF attempts'[a].adapter = "cli" THEN BelongsTo(attempts[a])'
                                                ELSE NeedsNothing(attempts'[a])
  BY <1>2, GoesBelongs DEF Goes, SameIdentity
<1>. QED BY <1>1, <1>2 DEF Rows

(* A proof is used once, by the attempt that is begun on it: no other one is *)
(* in flight on its thread, and that of an ended one is past.                *)
LEMMA BegunOnce ==
  ASSUME Inv, Rows, NEW a \in Attempt, NEW r, Opens(a, r), r.adapter = "cli",
         NEW c \in Attempt, attempts[c].session = r.session
  PROVE  attempts[c].epoch # r.epoch
<1>1. /\ r.session \in Session /\ r.session # NoSession
      /\ IsAttachable(r.session) /\ r.epoch = sessions[r.session].epoch
      /\ BoundTo[r.session] = ThreadOf[r.batch] /\ NoActiveOnThread(ThreadOf[r.batch])
  BY NoSessionAssumption DEF Opens
<1>2. BelongsTo(attempts[c]) BY <1>1 DEF Rows, NeedsNothing
<1>3. attempts[c].state \notin ActiveStates
  <2>1. ThreadOf[attempts[c].batch] = ThreadOf[r.batch] BY <1>1, <1>2 DEF BelongsTo
  <2>. QED BY <1>1, <2>1 DEF Inv, TableInv, QuietWhenClosed, NoActiveOnThread, Active, IsOpen
<1>4. Past(sessions, r.session, attempts[c].epoch) BY <1>2, <1>3 DEF BelongsTo
<1>5. sessions[r.session].epoch > attempts[c].epoch BY <1>1, <1>4 DEF Past, IsAttachable
<1>6. sessions[r.session].epoch \in Nat BY <1>1 DEF Inv, TypeOK, SessionRecord
<1>. QED BY <1>1, <1>5, <1>6

(* The rows, after an attempt is begun. *)
LEMMA OpensRows ==
  ASSUME Inv, TypeOK', Rows, NEW a \in Attempt, NEW r, Opens(a, r) PROVE Rows'
<1>1. attempts'[a] = r /\ \A c \in Attempt \ {a} : attempts'[c] = attempts[c]
  BY DEF Inv, TypeOK, Opens
<1>2. r.state = "accept_pending" /\ sessions' = sessions BY DEF Opens
<1>3. IF r.adapter = "cli" THEN BelongsTo(attempts[a])' ELSE NeedsNothing(r)
  <2>1. CASE r.adapter = "cli"
    <3>1. sessions[r.session].epoch \in Nat BY <2>1 DEF Opens, Inv, TypeOK, SessionRecord
    <3>. QED BY <1>1, <1>2, <2>1, <3>1 DEF BelongsTo, Opens, ActiveStates, IsAttachable
  <2>2. CASE r.adapter # "cli" BY <2>2 DEF Opens
  <2>. QED BY <2>1, <2>2
<1>4. ASSUME NEW c \in Attempt, c # a
      PROVE  /\ attempts[c].state = "absent" => NeedsNothing(attempts[c])
             /\ attempts[c].state # "absent" =>
                  IF attempts[c].adapter = "cli" THEN BelongsTo(attempts[c])'
                                                 ELSE NeedsNothing(attempts[c])
  <2>1. CASE attempts[c].adapter # "cli" \/ attempts[c].state = "absent" BY <2>1 DEF Rows
  <2>2. CASE attempts[c].adapter = "cli" /\ attempts[c].state # "absent"
    <3>1. BelongsTo(attempts[c]) BY <2>2 DEF Rows
    <3>2. attempts[c].batch \in Batch /\ batches[attempts[c].batch].state # "absent"
      BY <2>2 DEF Inv, TableInv, Linked
    <3>3. SameRow(batches[attempts[c].batch], batches'[attempts[c].batch])
      BY <3>2 DEF Opens, SameTables
    <3>4. attempts'[c] = attempts[c] BY <1>1, <1>4
    <3>. QED BY <1>2, <2>2, <3>1, <3>2, <3>3, <3>4 DEF BelongsTo, SameRow, Past
  <2>. QED BY <2>1, <2>2
<1>5. ASSUME NEW c \in Attempt
      PROVE  /\ attempts'[c].state = "absent" => NeedsNothing(attempts'[c])
             /\ attempts'[c].state # "absent" =>
                  IF attempts'[c].adapter = "cli" THEN BelongsTo(attempts[c])'
                                                  ELSE NeedsNothing(attempts'[c])
  BY <1>1, <1>2, <1>3, <1>4
<1>. QED BY <1>5 DEF Rows

(* Whatever the step, every proof is used once. *)
LEMMA StepProofs ==
  ASSUME Inv, TypeOK', Rows, ProofUsedOnce, Step PROVE ProofUsedOnce' /\ Rows'
<1>1. ASSUME \A a \in Attempt : \/ attempts[a].state = "absent" /\ attempts'[a] = attempts[a]
                                \/ attempts[a].state # "absent" /\ Goes(a),
             SameTables
      PROVE  ProofUsedOnce' /\ Rows'
  <2>1. \A a \in Attempt : /\ attempts'[a].session = attempts[a].session
                           /\ attempts'[a].epoch = attempts[a].epoch
    BY <1>1 DEF Goes, SameIdentity
  <2>. QED BY <1>1, <2>1, GoesRows DEF ProofUsedOnce
<1>2. CASE Stands BY <1>1, <1>2 DEF Stands
<1>3. ASSUME NEW a \in Attempt, NEW r, Opens(a, r) PROVE ProofUsedOnce' /\ Rows'
  <2>1. attempts'[a] = r /\ \A c \in Attempt \ {a} : attempts'[c] = attempts[c]
    BY <1>3 DEF Inv, TypeOK, Opens
  <2>2. ASSUME NEW c \in Attempt, c # a, r.session # NoSession, attempts[c].session = r.session
        PROVE  attempts[c].epoch # r.epoch
    <3>1. r.adapter = "cli" BY <1>3, <2>2 DEF Opens, NeedsNothing
    <3>. QED BY <1>3, <2>2, <3>1, BegunOnce
  <2>3. ProofUsedOnce' BY <2>1, <2>2 DEF ProofUsedOnce
  <2>. QED BY <1>3, <2>3, OpensRows
<1>4. ASSUME NEW a \in Attempt, NEW r, Charges(a, r) PROVE ProofUsedOnce' /\ Rows'
  <2>1. \A c \in Attempt \ {a} : attempts'[c] = attempts[c] BY <1>4 DEF Inv, TypeOK, Charges
  <2>2. ASSUME NEW c \in Attempt, c # a, attempts[c].state # "absent" PROVE Goes(c)
    <3>1. attempts'[c] = attempts[c] BY <2>1, <2>2
    <3>. QED BY <2>2, <3>1 DEF Goes, SameIdentity, Honest, FencedOff, Told, Active
  <2>. QED BY <1>1, <1>4, <2>1, <2>2 DEF Charges
<1>. QED BY <1>2, <1>3, <1>4 DEF Step
-----------------------------------------------------------------------------
(* The budget. A batch without a row has no attempts, so it has spent        *)
(* nothing, before and after it is enqueued.                                 *)
LEMMA NothingSpent ==
  ASSUME Inv, NEW b \in Batch, batches[b].state = "absent" PROVE SpentOn(b) = {}
BY DEF SpentOn, Charged, Inv, TableInv, Linked

(* The spent attempts stay the same, and so does the count. *)
LEMMA BudgetStands ==
  ASSUME Inv, TypeOK', Budget, NEW b \in Batch,
         SameRow(batches[b], batches'[b]), SameCount(batches[b], batches'[b]),
         SpentOn(b)' = SpentOn(b)
  PROVE  /\ IsFiniteSet(SpentOn(b)')
         /\ batches'[b].attempt_count = Cardinality(SpentOn(b)')
         /\ batches'[b].attempt_count <= batches'[b].max_attempts
<1>1. /\ IsFiniteSet(SpentOn(b))
      /\ batches[b].attempt_count = Cardinality(SpentOn(b))
      /\ batches[b].attempt_count <= batches[b].max_attempts
  BY DEF Budget
<1>2. CASE batches[b].state # "absent" BY <1>1, <1>2 DEF SameRow, SameCount
<1>3. CASE batches[b].state = "absent"
  <2>1. Cardinality(SpentOn(b)) = 0 BY <1>3, NothingSpent, FS_EmptySet
  <2>2. batches'[b].max_attempts \in Nat BY DEF TypeOK, BatchRecord
  <2>3. CASE batches'[b] = batches[b] BY <1>1, <2>3
  <2>4. CASE batches'[b].attempt_count = 0 BY <1>1, <2>1, <2>2, <2>4
  <2>. QED BY <1>3, <2>3, <2>4 DEF SameRow
<1>. QED BY <1>2, <1>3

(* The budget adds up after every step. *)
LEMMA StepBudget == ASSUME Inv, TypeOK', Budget, Step PROVE Budget'
<1>1. ASSUME \A a \in Attempt : \/ /\ attempts'[a].batch = attempts[a].batch
                                   /\ Charged(attempts'[a]) <=> Charged(attempts[a])
                                \/ ~Charged(attempts[a]) /\ ~Charged(attempts'[a]),
             SameTables, \A b \in Batch : SameCount(batches[b], batches'[b])
      PROVE  Budget'
  <2>1. ASSUME NEW b \in Batch PROVE SpentOn(b)' = SpentOn(b)
    <3>1. \A a \in Attempt : a \in SpentOn(b)' <=> a \in SpentOn(b) BY <1>1 DEF SpentOn
    <3>. QED BY <3>1 DEF SpentOn
  <2>. QED BY <1>1, <2>1, BudgetStands DEF Budget, SameTables
<1>2. CASE Stands
  <2>1. ASSUME NEW a \in Attempt
        PROVE  /\ attempts'[a].batch = attempts[a].batch
               /\ Charged(attempts'[a]) <=> Charged(attempts[a])
    BY <1>2 DEF Stands, Goes, SameIdentity
  <2>. QED BY <1>1, <1>2, <2>1 DEF Stands
<1>3. ASSUME NEW a \in Attempt, NEW r, Opens(a, r) PROVE Budget'
  <2>1. attempts'[a] = r /\ \A c \in Attempt \ {a} : attempts'[c] = attempts[c]
    BY <1>3 DEF Inv, TypeOK, Opens
  <2>2. ~Charged(attempts[a]) /\ ~Charged(r) BY <1>3 DEF Opens, Charged
  <2>. QED BY <1>1, <1>3, <2>1, <2>2 DEF Opens
<1>4. ASSUME NEW a \in Attempt, NEW r, Charges(a, r) PROVE Budget'
  <2>1. attempts'[a] = r /\ \A c \in Attempt \ {a} : attempts'[c] = attempts[c]
    BY <1>4 DEF Inv, TypeOK, Charges
  <2>2. attempts[a].batch \in Batch /\ r.batch = attempts[a].batch
    BY <1>4, <2>1 DEF Inv, TableInv, Linked, Charges, Goes, SameIdentity
  <2>3. ASSUME NEW b \in Batch, b # attempts[a].batch
        PROVE  /\ IsFiniteSet(SpentOn(b)')
               /\ batches'[b].attempt_count = Cardinality(SpentOn(b)')
               /\ batches'[b].attempt_count <= batches'[b].max_attempts
    <3>1. \A c \in Attempt : c \in SpentOn(b)' <=> c \in SpentOn(b) BY <2>1, <2>2, <2>3 DEF SpentOn
    <3>2. SpentOn(b)' = SpentOn(b) BY <3>1 DEF SpentOn
    <3>. QED BY <1>4, <2>3, <3>2, BudgetStands DEF Charges, SameTables
  <2>4. ASSUME NEW b \in Batch, b = attempts[a].batch
        PROVE  /\ IsFiniteSet(SpentOn(b)')
               /\ batches'[b].attempt_count = Cardinality(SpentOn(b)')
               /\ batches'[b].attempt_count <= batches'[b].max_attempts
    <3>1. \A c \in Attempt : c \in SpentOn(b)' <=> c \in SpentOn(b) \/ c = a
      BY <1>4, <2>1, <2>2, <2>4 DEF SpentOn, Charges
    <3>2. SpentOn(b)' = SpentOn(b) \union {a} BY <3>1 DEF SpentOn
    <3>3. a \notin SpentOn(b) BY <1>4 DEF SpentOn, Charges
    <3>4. /\ IsFiniteSet(SpentOn(b)) /\ batches[b].attempt_count = Cardinality(SpentOn(b))
      BY DEF Budget
    <3>5. /\ IsFiniteSet(SpentOn(b) \union {a})
          /\ Cardinality(SpentOn(b) \union {a}) = Cardinality(SpentOn(b)) + 1
      BY <3>3, <3>4, FS_AddElement
    <3>6. batches'[b].max_attempts = batches[b].max_attempts
      BY <1>4, <2>4 DEF Charges, SameTables, SameRow, Inv, TableInv, Linked
    <3>7. /\ batches[b].attempt_count < batches[b].max_attempts
          /\ batches'[b].attempt_count = batches[b].attempt_count + 1
      BY <1>4, <2>4 DEF Charges
    <3>8. batches[b].attempt_count \in Nat /\ batches[b].max_attempts \in Nat
      BY DEF Inv, TypeOK, BatchRecord
    <3>. QED BY <3>2, <3>4, <3>5, <3>6, <3>7, <3>8
  <2>. QED BY <2>3, <2>4 DEF Budget
<1>. QED BY <1>2, <1>3, <1>4 DEF Step
-----------------------------------------------------------------------------
(* What the updates of the tables do to one row. *)

(* Batches keep what delivery reads of them. *)
LEMMA ManualizedRow ==
  ASSUME NEW bs \in BatchTable, NEW B, NEW at, NEW b \in Batch
  PROVE  SameRow(bs[b], Manualized(bs, B, at)[b]) /\ SameCount(bs[b], Manualized(bs, B, at)[b])
<1>1. bs[b] \in BatchRecord BY DEF BatchTable
<1>2. CASE b \in B /\ bs[b].state = "open"
  <2>1. Manualized(bs, B, at)[b] =
          [bs[b] EXCEPT !.policy = "manual_resolution_only",
                        !.window_ends_at = Later(bs[b].window_ends_at, at + ManualWindow)]
    BY <1>2 DEF Manualized
  <2>. QED BY <1>1, <1>2, <2>1 DEF SameRow, SameCount, BatchRecord
<1>3. CASE ~(b \in B /\ bs[b].state = "open")
  <2>1. Manualized(bs, B, at)[b] = bs[b] BY <1>3 DEF Manualized
  <2>. QED BY <2>1 DEF SameRow, SameCount
<1>. QED BY <1>2, <1>3

(* So do those that are closed. *)
LEMMA ClosedRow ==
  ASSUME NEW bs \in BatchTable, NEW B, NEW reason, NEW b \in Batch,
         b \in B => bs[b].state # "absent"
  PROVE  SameRow(bs[b], Closed(bs, B, reason)[b]) /\ SameCount(bs[b], Closed(bs, B, reason)[b])
<1>1. bs[b] \in BatchRecord BY DEF BatchTable
<1>. QED BY <1>1 DEF Closed, SameRow, SameCount, BatchRecord

(* One update after another. *)
LEMMA RowsCompose ==
  ASSUME NEW r, NEW r2, NEW r3, SameRow(r, r2), SameCount(r, r2), SameRow(r2, r3), SameCount(r2, r3)
  PROVE  r.state # "absent" => SameRow(r, r3) /\ SameCount(r, r3)
BY DEF SameRow, SameCount

(* Fencing a session off ends its proof, for good. *)
LEMMA InvalidatedSession ==
  ASSUME NEW ss \in [Session -> SessionRecord], NEW F, NEW s \in Session
  PROVE  /\ SessionKept(ss, Invalidated(ss, F), s)
         /\ \A e \in Nat : <<s, e>> \in F /\ e <= ss[s].epoch => Past(Invalidated(ss, F), s, e)
<1>1. ss[s] \in SessionRecord OBVIOUS
<1>2. CASE <<s, ss[s].epoch>> \in F /\ ss[s].state \in {"live", "detached"}
  <2>1. Invalidated(ss, F)[s] = [ProofCleared(ss[s]) EXCEPT !.epoch = ProofCleared(ss[s]).epoch + 1]
    BY <1>2 DEF Invalidated
  <2>2. /\ ProofCleared(ss[s]) \in SessionRecord /\ ProofCleared(ss[s]).epoch = ss[s].epoch
        /\ ProofCleared(ss[s]).state = ss[s].state
    BY <1>1 DEF ProofCleared, SessionRecord
  <2>3. ASSUME NEW q \in SessionRecord
        PROVE  /\ [q EXCEPT !.epoch = q.epoch + 1].epoch = q.epoch + 1
               /\ [q EXCEPT !.epoch = q.epoch + 1].state = q.state
    BY DEF SessionRecord
  <2>4. /\ Invalidated(ss, F)[s].epoch = ss[s].epoch + 1
        /\ Invalidated(ss, F)[s].state = ss[s].state
    BY <2>1, <2>2, <2>3
  <2>5. ss[s].epoch \in Nat BY <1>1 DEF SessionRecord
  <2>. QED BY <1>2, <2>4, <2>5 DEF SessionKept, Past
<1>3. CASE ~(<<s, ss[s].epoch>> \in F /\ ss[s].state \in {"live", "detached"})
  <2>1. Invalidated(ss, F)[s] = ss[s] BY <1>3 DEF Invalidated
  <2>2. ss[s].epoch \in Nat BY <1>1 DEF SessionRecord
  <2>. QED BY <1>3, <2>1, <2>2 DEF SessionKept, Past
<1>. QED BY <1>2, <1>3

(* So does parking it. *)
LEMMA ParkedSession ==
  ASSUME NEW ss \in [Session -> SessionRecord], NEW S, NEW s \in Session
  PROVE  /\ SessionKept(ss, Parked(ss, S), s)
         /\ s \in S => \A e \in Nat : Past(Parked(ss, S), s, e)
<1>1. ss[s] \in SessionRecord /\ ss[s].epoch \in Nat BY DEF SessionRecord
<1>2. CASE s \in S /\ ss[s].state \in {"live", "detached"}
  <2>1. Parked(ss, S)[s] = [ProofCleared(ss[s]) EXCEPT !.state = "parked", !.pinned = FALSE]
    BY <1>2 DEF Parked
  <2>2. Parked(ss, S)[s].epoch = ss[s].epoch /\ Parked(ss, S)[s].state = "parked"
    BY <1>1, <2>1 DEF ProofCleared, SessionRecord
  <2>. QED BY <1>1, <2>2 DEF SessionKept, Past
<1>3. CASE ~(s \in S /\ ss[s].state \in {"live", "detached"})
  <2>1. Parked(ss, S)[s] = ss[s] BY <1>3 DEF Parked
  <2>. QED BY <1>1, <1>3, <2>1 DEF SessionKept, Past
<1>. QED BY <1>2, <1>3

(* One step of a session after another. *)
LEMMA KeptCompose ==
  ASSUME NEW ss \in [Session -> SessionRecord], NEW ss2 \in [Session -> SessionRecord],
         NEW ss3 \in [Session -> SessionRecord], NEW s \in Session,
         SessionKept(ss, ss2, s), SessionKept(ss2, ss3, s)
  PROVE  SessionKept(ss, ss3, s)
<1>1. ss[s].epoch \in Nat /\ ss2[s].epoch \in Nat /\ ss3[s].epoch \in Nat BY DEF SessionRecord
<1>. QED BY <1>1 DEF SessionKept

(* Both, for the attempts of A. *)
LEMMA LossSession ==
  ASSUME TypeOK, NEW A, NEW s \in Session
  PROVE  /\ SessionKept(sessions, SessionsAfterLoss(A), s)
         /\ \A a \in A : attempts[a].adapter = "cli" /\ attempts[a].session = s =>
              \A e \in Nat : Past(SessionsAfterLoss(A), s, e)
<1>. DEFINE ss == Invalidated(sessions, Fences(A))
            S == {f[1] : f \in Fences(A)}
<1>1. /\ sessions \in [Session -> SessionRecord] /\ ss \in [Session -> SessionRecord]
      /\ Parked(ss, S) \in [Session -> SessionRecord]
  BY InvalidatedType, ParkedType DEF TypeOK
<1>2. SessionKept(sessions, ss, s) BY <1>1, InvalidatedSession
<1>3. ASSUME NEW a \in A, attempts[a].adapter = "cli", attempts[a].session = s PROVE s \in S
  <2>1. <<attempts[a].session, attempts[a].epoch>> \in Fences(A) BY <1>3 DEF Fences
  <2>2. <<attempts[a].session, attempts[a].epoch>>[1] = s BY <1>3
  <2>. QED BY <2>1, <2>2
<1>. HIDE DEF ss, S
<1>4. /\ SessionKept(ss, Parked(ss, S), s)
      /\ s \in S => \A e \in Nat : Past(Parked(ss, S), s, e)
  BY <1>1, ParkedSession
<1>5. SessionKept(sessions, Parked(ss, S), s) BY <1>1, <1>2, <1>4, KeptCompose
<1>6. SessionsAfterLoss(A) = Parked(ss, S) BY DEF SessionsAfterLoss, ss, S
<1>. QED BY <1>3, <1>4, <1>5, <1>6

(* Rows that are given up, refused or closed spend nothing and tell nothing. *)
SameAccount(r, r2) == /\ SameIdentity(r, r2)
                      /\ Charged(r2) <=> Charged(r)
                      /\ ~Told(r, r2)

(* What each update makes of a row. *)
LEMMA RowAccounts ==
  ASSUME NEW r \in AttemptRecord, r.state # "absent"
  PROVE  /\ SameAccount(r, r)
         /\ SameAccount(r, [r EXCEPT !.state = "closed"])
         /\ \A event : SameAccount(r, [r EXCEPT !.event = event])
         /\ \A obs : obs # "completed" =>
              /\ SameAccount(r, Abandoned(r, obs))
              /\ \A event : SameAccount(r, [Abandoned(r, obs) EXCEPT !.event = event])
         /\ r.rpc = "pending_acceptance" => SameAccount(r, AbandonedUnknown(r))
         /\ r.rpc = "pending_acceptance" /\ r.adapter = "cli" => SameAccount(r, Rejected(r))
         /\ SameAccount(r, TakenOver(r))
<1>. USE DEF SameAccount, SameIdentity, Charged, Told
<1>1. SameAccount(r, r) OBVIOUS
<1>2. SameAccount(r, [r EXCEPT !.state = "closed"]) BY DEF AttemptRecord
<1>3. \A event : SameAccount(r, [r EXCEPT !.event = event]) BY DEF AttemptRecord
<1>4. ASSUME NEW obs, obs # "completed"
      PROVE  /\ SameAccount(r, Abandoned(r, obs))
             /\ \A event : SameAccount(r, [Abandoned(r, obs) EXCEPT !.event = event])
  BY <1>4 DEF Abandoned, AttemptRecord
<1>5. r.rpc = "pending_acceptance" => SameAccount(r, AbandonedUnknown(r))
  BY DEF AbandonedUnknown, AttemptRecord
<1>6. r.rpc = "pending_acceptance" /\ r.adapter = "cli" => SameAccount(r, Rejected(r))
  BY DEF Rejected, AttemptRecord
<1>7. SameAccount(r, TakenOver(r)) BY DEF TakenOver, AttemptRecord
<1>. QED BY <1>1, <1>2, <1>3, <1>4, <1>5, <1>6, <1>7
-----------------------------------------------------------------------------
(* Which steps stand. *)

(* Every row keeps its account, and what ends is fenced off. *)
LEMMA AccountsStand ==
  ASSUME SameTables, \A b \in Batch : SameCount(batches[b], batches'[b]),
         \A a \in Attempt : attempts[a].state = "absent" => attempts'[a] = attempts[a],
         \A a \in Attempt : attempts[a].state # "absent" =>
           SameAccount(attempts[a], attempts'[a]) /\ FencedOff(a)
  PROVE  Stands
BY DEF Stands, SameAccount, Goes, Honest

(* No row of an attempt changes. *)
LEMMA SameAttemptsStand ==
  ASSUME Inv, SameTables, \A b \in Batch : SameCount(batches[b], batches'[b]), attempts' = attempts
  PROVE  Stands
<1>1. ASSUME NEW a \in Attempt, attempts[a].state # "absent"
      PROVE  SameAccount(attempts[a], attempts'[a]) /\ FencedOff(a)
  BY <1>1, RowAccounts DEF FencedOff, Active, Inv, TypeOK
<1>. QED BY <1>1, AccountsStand

(* One row changes. *)
LEMMA OneStands ==
  ASSUME Inv, SameTables, \A b \in Batch : SameCount(batches[b], batches'[b]),
         NEW a \in Attempt, NEW r, attempts' = [attempts EXCEPT ![a] = r],
         attempts[a].state # "absent", SameAccount(attempts[a], r),
         \/ r.state = attempts[a].state
         \/ attempts[a].adapter # "cli"
         \/ Past(sessions', attempts[a].session, attempts[a].epoch)
  PROVE  Stands
<1>1. attempts'[a] = r /\ \A c \in Attempt \ {a} : attempts'[c] = attempts[c] BY DEF Inv, TypeOK
<1>2. FencedOff(a) BY <1>1 DEF FencedOff, Active
<1>3. ASSUME NEW c \in Attempt, c # a, attempts[c].state # "absent"
      PROVE  SameAccount(attempts[c], attempts'[c]) /\ FencedOff(c)
  BY <1>1, <1>3, RowAccounts DEF FencedOff, Active, Inv, TypeOK
<1>. QED BY <1>1, <1>2, <1>3, AccountsStand

(* The batches, when some are handed over or none changes. *)
LEMMA BatchesStand ==
  ASSUME TypeOK, batches' = batches \/ \E B, at : batches' = Manualized(batches, B, at),
         NEW b \in Batch
  PROVE  SameRow(batches[b], batches'[b]) /\ SameCount(batches[b], batches'[b])
<1>1. CASE batches' = batches BY <1>1 DEF SameRow, SameCount
<1>2. CASE \E B, at : batches' = Manualized(batches, B, at)
  BY <1>2, ManualizedRow DEF TypeOK, BatchTable
<1>. QED BY <1>1, <1>2

(* The sessions, when none changes. *)
LEMMA SessionsStand ==
  ASSUME TypeOK, sessions' = sessions PROVE \A s \in Session : SessionKept(sessions, sessions', s)
<1>1. ASSUME NEW s \in Session PROVE sessions[s].epoch \in Nat BY DEF TypeOK, SessionRecord
<1>. QED BY <1>1 DEF SessionKept

(* The fences of attempts end their proofs. *)
LEMMA FencesEnd ==
  ASSUME Inv, Rows, NEW A, NEW a \in Attempt, a \in A,
         attempts[a].state # "absent", attempts[a].adapter = "cli"
  PROVE  /\ Past(Invalidated(sessions, Fences(A)), attempts[a].session, attempts[a].epoch)
         /\ Past(SessionsAfterLoss(A), attempts[a].session, attempts[a].epoch)
<1>1. /\ attempts[a].session \in Session
      /\ attempts[a].epoch <= sessions[attempts[a].session].epoch
  BY DEF Rows, BelongsTo
<1>2. attempts[a].epoch \in Nat
  <2>1. attempts[a] \in AttemptRecord BY DEF Inv, TypeOK
  <2>. QED BY <2>1 DEF AttemptRecord
<1>3. <<attempts[a].session, attempts[a].epoch>> \in Fences(A) BY DEF Fences
<1>4. TypeOK BY DEF Inv
<1>. QED BY <1>1, <1>2, <1>3, <1>4, InvalidatedSession, LossSession DEF TypeOK

(* A batch closes, the attempts A with it. *)
LEMMA ClosesStands ==
  ASSUME Inv, Rows, NEW b \in Batch, batches[b].state # "absent", NEW reason, NEW A,
         batches' = Closed(batches, {b}, reason),
         sessions' = Invalidated(sessions, Fences(A)), ActiveOn(b) \subseteq A,
         \A a \in Attempt : attempts[a].state = "absent" => attempts'[a] = attempts[a],
         \A a \in Attempt : attempts[a].state # "absent" =>
           /\ SameIdentity(attempts[a], attempts'[a])
           /\ Charged(attempts'[a]) <=> Charged(attempts[a])
           /\ Honest(a)
           /\ attempts'[a].state = attempts[a].state \/ a \in A \/ a \in ActiveOn(b)
  PROVE  Stands
<1>1. ASSUME NEW c \in Batch
      PROVE  SameRow(batches[c], batches'[c]) /\ SameCount(batches[c], batches'[c])
  BY ClosedRow DEF Inv, TypeOK, BatchTable
<1>2. ASSUME NEW s \in Session PROVE SessionKept(sessions, sessions', s)
  BY InvalidatedSession DEF Inv, TypeOK
<1>3. ASSUME NEW a \in Attempt, attempts[a].state # "absent" PROVE FencedOff(a)
  BY <1>3, FencesEnd DEF FencedOff, Active
<1>. QED BY <1>1, <1>2, <1>3 DEF Stands, SameTables, Goes

(* The operator closes a batch. *)
LEMMA CloseStands ==
  ASSUME Inv, Rows, NEW b \in Batch, batches[b].state # "absent", NEW reason, CloseBatch(b, reason)
  PROVE  Stands
<1>1. ASSUME NEW a \in Attempt
      PROVE  attempts'[a] = IF attempts[a].batch = b /\ Active(a)
                            THEN [attempts[a] EXCEPT !.state = "closed"] ELSE attempts[a]
  BY DEF CloseBatch, AttemptsClosedWith, Active
<1>2. ASSUME NEW a \in Attempt, attempts[a].state # "absent"
      PROVE  /\ SameAccount(attempts[a], attempts'[a])
             /\ attempts'[a].state = attempts[a].state \/ a \in ActiveOn(b)
  <2>1. attempts[a] \in AttemptRecord BY DEF Inv, TypeOK
  <2>2. CASE attempts[a].batch = b /\ Active(a)
    BY <1>1, <1>2, <2>1, <2>2, RowAccounts DEF ActiveOn, OnBatch
  <2>3. CASE ~(attempts[a].batch = b /\ Active(a)) BY <1>1, <1>2, <2>1, <2>3, RowAccounts
  <2>. QED BY <2>2, <2>3
<1>3. ASSUME NEW a \in Attempt, attempts[a].state # "absent"
      PROVE  /\ SameIdentity(attempts[a], attempts'[a])
             /\ Charged(attempts'[a]) <=> Charged(attempts[a])
             /\ Honest(a)
             /\ attempts'[a].state = attempts[a].state \/ a \in ActiveOn(b)
  BY <1>2, <1>3 DEF SameAccount, Honest
<1>4. ASSUME NEW a \in Attempt, attempts[a].state = "absent" PROVE attempts'[a] = attempts[a]
  BY <1>1, <1>4 DEF Active, ActiveStates
<1>5. batches' = Closed(batches, {b}, reason) /\ sessions' = Invalidated(sessions, Fences(ActiveOn(b)))
  BY DEF CloseBatch
<1>. QED BY <1>3, <1>4, <1>5, ClosesStands

(* A turn completed, in the session of the attempt. *)
LEMMA DeliverStands ==
  ASSUME Inv, Rows, NEW a \in Attempt, attempts[a].state # "absent", attempts[a].rpc = "accepted",
         Active(a) /\ attempts[a].adapter = "cli" => SessionIsCurrent(a), Deliver(a)
  PROVE  Stands
<1>. DEFINE b == attempts[a].batch
            r == [attempts[a] EXCEPT !.state = "cooldown", !.obs = "completed",
                                     !.event = "turn_completed"]
            as == [attempts EXCEPT ![a] = r]
<1>1. b \in Batch /\ batches[b].state # "absent" BY DEF Inv, TableInv, Linked
<1>2. attempts' = AttemptsClosedWith(as, {b}) BY DEF Deliver
<1>3. r \in AttemptRecord /\ r.state = "cooldown" /\ r.rpc = "accepted" /\ SameIdentity(attempts[a], r)
  <2>1. attempts[a] \in AttemptRecord BY DEF Inv, TypeOK
  <2>. QED BY <2>1 DEF AttemptRecord, SameIdentity
<1>4. /\ batches' = Closed(batches, {b}, "delivered")
      /\ sessions' = Invalidated(sessions, Fences(ActiveOn(b) \union {a}))
  BY DEF Deliver
<1>. HIDE DEF r
<1>5. as[a] = r /\ \A c \in Attempt \ {a} : as[c] = attempts[c] BY DEF Inv, TypeOK
<1>. HIDE DEF as
<1>6. ASSUME NEW c \in Attempt
      PROVE  attempts'[c] = IF as[c].batch = b /\ as[c].state \in ActiveStates
                            THEN [as[c] EXCEPT !.state = "closed"] ELSE as[c]
  BY <1>2 DEF AttemptsClosedWith
<1>7. /\ SameIdentity(attempts[a], attempts'[a]) /\ Honest(a)
      /\ Charged(attempts'[a]) <=> Charged(attempts[a])
  <2>1. attempts'[a] = [r EXCEPT !.state = "closed"]
    BY <1>3, <1>5, <1>6 DEF SameIdentity, ActiveStates
  <2>2. SameAccount(r, attempts'[a]) BY <1>3, <2>1, RowAccounts
  <2>. QED BY <1>3, <2>2 DEF SameAccount, SameIdentity, Charged, Honest
<1>8. ASSUME NEW c \in Attempt, c # a, attempts[c].state # "absent"
      PROVE  /\ SameAccount(attempts[c], attempts'[c])
             /\ attempts'[c].state = attempts[c].state \/ c \in ActiveOn(b)
  <2>1. as[c] = attempts[c] /\ attempts[c] \in AttemptRecord BY <1>5, <1>8 DEF Inv, TypeOK
  <2>2. CASE attempts[c].batch = b /\ Active(c)
    BY <1>6, <1>8, <2>1, <2>2, RowAccounts DEF ActiveOn, OnBatch, Active
  <2>3. CASE ~(attempts[c].batch = b /\ Active(c))
    BY <1>6, <1>8, <2>1, <2>3, RowAccounts DEF Active
  <2>. QED BY <2>2, <2>3
<1>9. ASSUME NEW c \in Attempt, attempts[c].state = "absent" PROVE attempts'[c] = attempts[c]
  BY <1>5, <1>6, <1>9 DEF ActiveStates
<1>10. ASSUME NEW c \in Attempt, attempts[c].state # "absent"
       PROVE  /\ SameIdentity(attempts[c], attempts'[c])
              /\ Charged(attempts'[c]) <=> Charged(attempts[c])
              /\ Honest(c)
              /\ \/ attempts'[c].state = attempts[c].state
                 \/ c \in ActiveOn(b) \union {a} \/ c \in ActiveOn(b)
  BY <1>7, <1>8, <1>10 DEF SameAccount, Honest
<1>. DEFINE A == ActiveOn(b) \union {a}
<1>. HIDE DEF b
<1>11. ActiveOn(b) \subseteq A /\ sessions' = Invalidated(sessions, Fences(A)) BY <1>4
<1>12. \A c \in Attempt : attempts[c].state # "absent" =>
           /\ SameIdentity(attempts[c], attempts'[c])
           /\ Charged(attempts'[c]) <=> Charged(attempts[c])
           /\ Honest(c)
           /\ attempts'[c].state = attempts[c].state \/ c \in A \/ c \in ActiveOn(b)
  BY <1>10
<1>. HIDE DEF A
<1>. QED BY <1>1, <1>4, <1>9, <1>11, <1>12, ClosesStands
-----------------------------------------------------------------------------
(* Every action is such a step. *)

(* The turn of a CLI attempt is given up, or its row alone changes. *)
LEMMA GiveUpStands ==
  ASSUME Inv, Rows, NEW a \in Attempt, attempts[a].state # "absent",
         NEW r, SameAccount(attempts[a], r), NEW at,
         \/ GiveUp(a, r, at)
         \/ attempts[a].adapter # "cli" /\ GiveUpAppServer(a, r, at)
  PROVE  Stands
<1>1. \A b \in Batch : SameRow(batches[b], batches'[b]) /\ SameCount(batches[b], batches'[b])
  BY BatchesStand DEF GiveUp, GiveUpAppServer, Inv
<1>2. \A s \in Session : SessionKept(sessions, sessions', s)
  BY LossSession, SessionsStand DEF GiveUp, GiveUpAppServer, Inv
<1>3. \/ attempts[a].adapter # "cli"
      \/ Past(sessions', attempts[a].session, attempts[a].epoch)
  <2>1. CASE attempts[a].adapter = "cli"
    <3>1. sessions' = SessionsAfterLoss({a}) BY <2>1 DEF GiveUp
    <3>2. a \in {a} OBVIOUS
    <3>. QED BY <2>1, <3>1, <3>2, FencesEnd
  <2>. QED BY <2>1
<1>4. attempts' = [attempts EXCEPT ![a] = r] BY DEF GiveUp, GiveUpAppServer
<1>. QED BY <1>1, <1>2, <1>3, <1>4, OneStands DEF SameTables

(* The event of a turn is noted. *)
LEMMA NoteStands ==
  ASSUME Inv, NEW a \in Attempt, attempts[a].state # "absent", NEW event,
         attempts' = [attempts EXCEPT ![a].event = event], UNCHANGED <<batches, sessions>>
  PROVE  Stands
<1>. DEFINE r == [attempts[a] EXCEPT !.event = event]
<1>1. attempts[a] \in AttemptRecord BY DEF Inv, TypeOK
<1>2. attempts' = [attempts EXCEPT ![a] = r] /\ r.state = attempts[a].state BY <1>1 DEF AttemptRecord
<1>3. SameAccount(attempts[a], r) BY <1>1, RowAccounts
<1>. HIDE DEF r
<1>4. SameTables /\ \A b \in Batch : SameCount(batches[b], batches'[b])
  BY BatchesStand, SessionsStand DEF SameTables, Inv
<1>. QED BY <1>2, <1>3, <1>4, OneStands

(* The observers. *)
LEMMA ObserveStands ==
  ASSUME Inv, Rows, NEW a \in Attempt, NEW event, ObserveCli(a, event) \/ ObserveAppServer(a, event)
  PROVE  Stands
<1>1. attempts[a] \in AttemptRecord /\ attempts[a].rpc = "accepted"
  BY DEF Inv, TypeOK, ObserveCli, ObserveAppServer
<1>2. ASSUME NEW adapter, IsTracking(a, adapter) PROVE attempts[a].state # "absent"
  BY <1>2 DEF IsTracking
<1>3. ASSUME attempts[a].state # "absent", NEW obs \in {"expired", "abandoned"}, NEW at,
             LET r == [Abandoned(attempts[a], obs) EXCEPT !.event = event]
             IN  \/ GiveUp(a, r, at)
                 \/ attempts[a].adapter # "cli" /\ GiveUpAppServer(a, r, at)
      PROVE  Stands
  <2>1. SameAccount(attempts[a], [Abandoned(attempts[a], obs) EXCEPT !.event = event])
    BY <1>1, <1>3, RowAccounts
  <2>. QED BY <1>3, <2>1, GiveUpStands
<1>4. ASSUME NEW at, ObserveDelayed(a, event, at) PROVE Stands
  <2>1. attempts[a].state = "abandoned" /\ ~Active(a)
    BY <1>4 DEF ObserveDelayed, CompletesDelayed, AwaitsLateEvidence, Active, ActiveStates
  <2>. QED BY <1>1, <1>4, <2>1, DeliverStands DEF ObserveDelayed
<1>5. ASSUME NEW at, ObserveLate(a, event, at) PROVE Stands
  BY <1>5, NoteStands DEF ObserveLate, AwaitsLateEvidence
<1>6. ASSUME NEW at, ObserveAfterLoss(a, event, at) PROVE Stands
  BY <1>2, <1>3, <1>6 DEF ObserveAfterLoss
<1>7. ASSUME NEW at, ObserveAfterDeadline(a, event, at) PROVE Stands
  BY <1>2, <1>3, <1>7 DEF ObserveAfterDeadline
<1>8. ASSUME NEW at, ObserveInTime(a, event, at) PROVE Stands
  <2>1. attempts[a].state # "absent" /\ SessionIsCurrent(a) BY <1>2, <1>8 DEF ObserveInTime
  <2>. QED BY <1>1, <1>3, <1>8, <2>1, NoteStands, DeliverStands DEF ObserveInTime
<1>9. ASSUME ObserveAppServerLate(a, event) PROVE Stands
  BY <1>9, NoteStands DEF ObserveAppServerLate, AwaitsLateEvidence
<1>10. ASSUME NEW at, ObserveAppServerAfterDeadline(a, event, at) PROVE Stands
  <2>1. attempts[a].state # "absent" /\ attempts[a].adapter # "cli"
    BY <1>10 DEF ObserveAppServerAfterDeadline, IsTracking
  <2>. QED BY <1>3, <1>10, <2>1 DEF ObserveAppServerAfterDeadline
<1>11. ASSUME NEW at, ObserveAppServerInTime(a, event, at) PROVE Stands
  <2>1. attempts[a].state # "absent" /\ attempts[a].adapter # "cli"
    BY <1>11 DEF ObserveAppServerInTime, IsTracking
  <2>. QED BY <1>1, <1>3, <1>11, <2>1, NoteStands, DeliverStands DEF ObserveAppServerInTime
<1>. QED BY <1>4, <1>5, <1>6, <1>7, <1>8, <1>9, <1>10, <1>11, Zenon DEF ObserveCli, ObserveAppServer

(* An enqueued batch has spent nothing. *)
LEMMA EnqueuedRow ==
  ASSUME TypeOK, NEW b \in Batch, batches[b].state = "absent",
         NEW plugin, NEW detachable, NEW t, NEW max,
         batches' = [batches EXCEPT ![b] = NewBatch(plugin, detachable, t, max)]
  PROVE  \A c \in Batch : SameRow(batches[c], batches'[c]) /\ SameCount(batches[c], batches'[c])
<1>1. ASSUME NEW c \in Batch, c # b PROVE batches'[c] = batches[c] BY <1>1 DEF TypeOK
<1>2. batches'[b] = NewBatch(plugin, detachable, t, max) BY DEF TypeOK
<1>3. batches'[b].attempt_count = 0 BY <1>2 DEF NewBatch
<1>. QED BY <1>1, <1>3 DEF SameRow, SameCount

(* The queue. *)
LEMMA QueueSteps == Inv /\ Rows /\ QueueNext => Step
<1>. SUFFICES ASSUME Inv, Rows, QueueNext PROVE Step OBVIOUS
<1>1. PICK b \in Batch : \/ CompleteJob(b) \/ FailJob(b) \/ EnqueuePlugin(b)
                         \/ CloseHead(b) \/ ManualizePlugin(b)
  BY DEF QueueNext
<1>2. TypeOK BY DEF Inv
<1>3. ASSUME NEW detachable, NEW at, EnqueueJobBatch(b, detachable, at) PROVE Step
  <2>1. /\ batches[b].state = "absent" /\ attempts' = attempts /\ sessions' = sessions
        /\ \E max : batches' = [batches EXCEPT ![b] = NewBatch(FALSE, detachable, at, max)]
    BY <1>3 DEF EnqueueJobBatch
  <2>2. \A c \in Batch : SameRow(batches[c], batches'[c]) /\ SameCount(batches[c], batches'[c])
    BY <1>2, <2>1, EnqueuedRow
  <2>. QED BY <1>2, <2>1, <2>2, SessionsStand, SameAttemptsStand DEF SameTables, Step
<1>4. CASE EnqueuePlugin(b)
  <2>1. /\ batches[b].state = "absent" /\ sessions' = sessions
        /\ \E t, max : batches' = [batches EXCEPT ![b] = NewBatch(TRUE, FALSE, t, max)]
    BY <1>4, Zenon DEF EnqueuePlugin
  <2>2. \A c \in Batch : SameRow(batches[c], batches'[c]) /\ SameCount(batches[c], batches'[c])
    BY <1>2, <2>1, EnqueuedRow
  <2>3. SameTables BY <1>2, <2>1, <2>2, SessionsStand DEF SameTables
  <2>4. \/ attempts' = attempts
        \/ \E at : \E a \in Attempt :
             /\ attempts[a].state = "absent"
             /\ attempts' = [attempts EXCEPT ![a] = NewAppServerAttempt(b, 1, at)]
    BY <1>4, Zenon DEF EnqueuePlugin
  <2>5. ASSUME NEW at, NEW a \in Attempt, attempts[a].state = "absent",
               attempts' = [attempts EXCEPT ![a] = NewAppServerAttempt(b, 1, at)]
        PROVE  Opens(a, NewAppServerAttempt(b, 1, at))
    <3>1. LET r == NewAppServerAttempt(b, 1, at)
          IN  /\ r.state = "accept_pending" /\ r.rpc = "pending_acceptance"
              /\ r.adapter # "cli" /\ NeedsNothing(r)
      BY DEF NewAppServerAttempt, NeedsNothing
    <3>. QED BY <2>1, <2>2, <2>3, <2>5, <3>1 DEF Opens
  <2>. QED BY <2>2, <2>3, <2>4, <2>5, SameAttemptsStand DEF Step
<1>5. CASE CloseHead(b) BY <1>5, CloseStands DEF CloseHead, IsHead, IsOpen, Step
<1>6. CASE ManualizePlugin(b)
  <2>1. /\ \A c \in Batch : SameRow(batches[c], batches'[c]) /\ SameCount(batches[c], batches'[c])
        /\ \A s \in Session : SessionKept(sessions, sessions', s)
    BY <1>2, <1>6, BatchesStand, SessionsStand DEF ManualizePlugin
  <2>2. ASSUME NEW a \in Attempt
        PROVE  attempts'[a] = IF a \in ActiveOn(b) THEN TakenOver(attempts[a]) ELSE attempts[a]
    BY <1>6 DEF ManualizePlugin
  <2>3. ASSUME NEW a \in Attempt, attempts[a].state # "absent"
        PROVE  SameAccount(attempts[a], attempts'[a])
    <3>1. attempts[a] \in AttemptRecord BY <1>2 DEF TypeOK
    <3>. QED BY <2>2, <2>3, <3>1, RowAccounts
  <2>4. ASSUME NEW a \in Attempt, attempts[a].state # "absent", attempts[a].adapter = "cli"
        PROVE  attempts'[a] = attempts[a]
    <3>1. ~batches[attempts[a].batch].plugin BY <2>4 DEF Rows, BelongsTo
    <3>2. a \notin ActiveOn(b) BY <1>6, <3>1 DEF ManualizePlugin, ActiveOn, OnBatch
    <3>. QED BY <2>2, <3>2
  <2>5. ASSUME NEW a \in Attempt, attempts[a].state # "absent" PROVE FencedOff(a)
    BY <2>4, <2>5 DEF FencedOff, Active
  <2>6. ASSUME NEW a \in Attempt, attempts[a].state = "absent" PROVE attempts'[a] = attempts[a]
    BY <2>2, <2>6 DEF ActiveOn, OnBatch
  <2>. QED BY <2>1, <2>3, <2>5, <2>6, AccountsStand DEF SameTables, Step
<1>. QED BY <1>1, <1>3, <1>4, <1>5, <1>6 DEF CompleteJob, FailJob
(* One session changes. *)
LEMMA OneSession ==
  ASSUME TypeOK, NEW s \in Session, NEW r, sessions' = [sessions EXCEPT ![s] = r],
         \/ sessions[s].state = "absent"
         \/ /\ r.state # "absent" /\ r.epoch >= sessions[s].epoch
            /\ r.state \in {"live", "detached"} => sessions[s].state \in {"live", "detached"}
  PROVE  \A q \in Session : SessionKept(sessions, sessions', q)
<1>1. sessions'[s] = r /\ \A q \in Session \ {s} : sessions'[q] = sessions[q] BY DEF TypeOK
<1>2. \A q \in Session : sessions[q].epoch \in Nat BY DEF TypeOK, SessionRecord
<1>. QED BY <1>1, <1>2 DEF SessionKept

(* What is lost was observed in the session, whose proof is past. *)
LEMMA LoseStands ==
  ASSUME Inv, Rows, NEW s \in Session, NEW at, LoseObservations(s, at),
         \A q \in Session : SessionKept(sessions, sessions', q),
         ObservedUnder(s) # {} =>
           \A e \in Nat : e <= sessions[s].epoch => Past(sessions', s, e)
  PROVE  Stands
<1>1. \A b \in Batch : SameRow(batches[b], batches'[b]) /\ SameCount(batches[b], batches'[b])
  BY BatchesStand DEF LoseObservations, Inv
<1>2. ASSUME NEW a \in Attempt
      PROVE  attempts'[a] = IF a \in ObservedUnder(s) THEN Abandoned(attempts[a], "abandoned")
                                                      ELSE attempts[a]
  BY DEF LoseObservations
<1>3. ASSUME NEW a \in Attempt, attempts[a].state # "absent"
      PROVE  SameAccount(attempts[a], attempts'[a]) /\ FencedOff(a)
  <2>1. attempts[a] \in AttemptRecord /\ attempts[a].epoch \in Nat
    <3>1. attempts[a] \in AttemptRecord BY DEF Inv, TypeOK
    <3>. QED BY <3>1 DEF AttemptRecord
  <2>2. SameAccount(attempts[a], attempts'[a]) BY <1>2, <1>3, <2>1, RowAccounts
  <2>3. CASE a \notin ObservedUnder(s)
    <3>1. attempts'[a] = attempts[a] BY <1>2, <2>3
    <3>. QED BY <2>2, <3>1 DEF FencedOff, Active
  <2>4. CASE a \in ObservedUnder(s)
    <3>1. attempts[a].session = s /\ attempts[a].adapter = "cli" BY <2>4 DEF ObservedUnder
    <3>2. attempts[a].epoch <= sessions[s].epoch BY <1>3, <3>1 DEF Rows, BelongsTo
    <3>. QED BY <2>1, <2>2, <2>4, <3>1, <3>2 DEF FencedOff
  <2>. QED BY <2>3, <2>4
<1>4. \A a \in Attempt : attempts[a].state = "absent" => attempts'[a] = attempts[a]
  BY <1>2 DEF ObservedUnder
<1>. QED BY <1>1, <1>3, <1>4, AccountsStand DEF SameTables

(* A sidecar or the daemon takes back the proof of a session. *)
LEMMA TakenBack ==
  ASSUME TypeOK, NEW s \in Session, sessions[s].state # "absent", NEW q \in Session
  PROVE  LET ss == Invalidated(ParkedIfObserving(s), {<<s, sessions[s].epoch>>})
         IN  /\ ss \in [Session -> SessionRecord]
             /\ SessionKept(sessions, ss, q)
             /\ ObservedUnder(s) # {} => \A e \in Nat : Past(ss, s, e)
<1>. DEFINE p == ParkedIfObserving(s)
            F == {<<s, sessions[s].epoch>>}
<1>1. p = sessions \/ p = Parked(sessions, {s}) BY DEF ParkedIfObserving
<1>2. ObservedUnder(s) # {} => p = Parked(sessions, {s}) BY DEF ParkedIfObserving
<1>3. sessions \in [Session -> SessionRecord] /\ s \in {s} BY DEF TypeOK
<1>4. p \in [Session -> SessionRecord] BY <1>1, <1>3, ParkedType
<1>5. ASSUME NEW x \in Session PROVE SessionKept(sessions, p, x)
  <2>1. sessions[x].epoch \in Nat BY <1>3 DEF SessionRecord
  <2>2. CASE p = sessions BY <2>1, <2>2 DEF SessionKept
  <2>3. CASE p = Parked(sessions, {s}) BY <1>3, <2>3, ParkedSession
  <2>. QED BY <1>1, <2>2, <2>3
<1>6. ObservedUnder(s) # {} => \A e \in Nat : Past(p, s, e) BY <1>2, <1>3, ParkedSession
<1>. HIDE DEF p, F
<1>7. /\ Invalidated(p, F) \in [Session -> SessionRecord]
      /\ \A x \in Session : SessionKept(p, Invalidated(p, F), x)
  BY <1>4, InvalidatedType, InvalidatedSession
<1>8. SessionKept(sessions, Invalidated(p, F), q) BY <1>3, <1>4, <1>5, <1>7, KeptCompose
<1>9. p[s].state # "absent" BY <1>5 DEF SessionKept
<1>10. ObservedUnder(s) # {} => \A e \in Nat : Past(Invalidated(p, F), s, e)
  BY <1>4, <1>6, <1>7, <1>9, StaysPast
<1>. QED BY <1>7, <1>8, <1>10 DEF p, F

(* The sessions. *)
LEMMA SessionSteps == Inv /\ Rows /\ SessionNext => Stands
<1>. SUFFICES ASSUME Inv, Rows, SessionNext PROVE Stands OBVIOUS
<1>1. TypeOK BY DEF Inv
<1>2. ASSUME UNCHANGED <<batches, attempts>>, \A q \in Session : SessionKept(sessions, sessions', q)
      PROVE  Stands
  BY <1>1, <1>2, BatchesStand, SameAttemptsStand DEF SameTables
<1>3. PICK s \in Session :
        \/ \E allows \in Profiles : CreateSession(s, allows)
        \/ \E required \in Requirements : Reattach(s, required)
        \/ \E new \in Session, required \in Requirements, allows \in Profiles :
             ReplaceSession(s, new, required, allows)
        \/ RetireSession(s)
        \/ \E activity \in {"active", "idle"} : NoteActivity(s, activity)
        \/ \E capable \in BOOLEAN : NoteCapabilities(s, capable)
        \/ \E allows \in Snapshots : NotePermissions(s, allows)
        \/ InvalidateProof(s)
        \/ InvalidateCurrentProof(s)
  BY DEF SessionNext
<1>4. sessions[s] \in SessionRecord /\ sessions[s].epoch \in Nat BY <1>1 DEF TypeOK, SessionRecord
<1>5. ASSUME NEW allows, CreateSession(s, allows) PROVE Stands
  BY <1>1, <1>2, <1>5, OneSession DEF CreateSession
<1>6. ASSUME NEW required, Reattach(s, required) PROVE Stands
  <2>1. Attached(sessions[s]).state = "live" /\ Attached(sessions[s]).epoch = sessions[s].epoch + 1
    <3>1. ProofCleared(sessions[s]) \in SessionRecord /\ ProofCleared(sessions[s]).epoch = sessions[s].epoch
      BY <1>4 DEF ProofCleared, SessionRecord
    <3>2. ASSUME NEW q \in SessionRecord
          PROVE  /\ [q EXCEPT !.state = "live", !.epoch = @ + 1, !.pinned = FALSE].state = "live"
                 /\ [q EXCEPT !.state = "live", !.epoch = @ + 1, !.pinned = FALSE].epoch = q.epoch + 1
      BY DEF SessionRecord
    <3>. QED BY <3>1, <3>2 DEF Attached
  <2>2. sessions' = [sessions EXCEPT ![s] = Attached(sessions[s])] /\ IsAttachable(s)
    BY <1>6 DEF Reattach
  <2>3. sessions'[s].epoch = sessions[s].epoch + 1 BY <1>1, <2>1, <2>2 DEF TypeOK
  <2>4. \A e \in Nat : e <= sessions[s].epoch => Past(sessions', s, e) BY <1>4, <2>3 DEF Past
  <2>5. \A q \in Session : SessionKept(sessions, sessions', q)
    <3>. DEFINE r == Attached(sessions[s])
    <3>1. sessions' = [sessions EXCEPT ![s] = r] BY <2>2
    <3>2. r.state # "absent" /\ r.epoch >= sessions[s].epoch BY <1>4, <2>1
    <3>3. sessions[s].state \in {"live", "detached"} BY <2>2 DEF IsAttachable
    <3>. HIDE DEF r
    <3>. QED BY <1>1, <3>1, <3>2, <3>3, OneSession
  <2>. QED BY <1>6, <2>4, <2>5, LoseStands DEF Reattach
<1>7. ASSUME NEW r \in SessionRecord
      PROVE  /\ Retired(r).state = "retired" /\ Retired(r).epoch = r.epoch
             /\ \A activity : /\ [r EXCEPT !.activity = activity].state = r.state
                              /\ [r EXCEPT !.activity = activity].epoch = r.epoch
             /\ \A capable : /\ [r EXCEPT !.capable = capable].state = r.state
                             /\ [r EXCEPT !.capable = capable].epoch = r.epoch
             /\ \A allows : LET q == [r EXCEPT !.allows = allows, !.pinned = TRUE, !.fresh = TRUE]
                            IN  q.state = r.state /\ q.epoch = r.epoch
             /\ Detached(r).epoch = r.epoch
             /\ Detached(r).state = r.state \/ (r.state = "live" /\ Detached(r).state = "detached")
  BY DEF Retired, ProofCleared, Detached, SessionRecord
<1>8. ASSUME NEW new \in Session, NEW required, NEW allows, ReplaceSession(s, new, required, allows)
      PROVE  Stands
  <2>1. sessions[s].state # "absent" /\ sessions[new].state = "absent"
    BY <1>8 DEF ReplaceSession, SessionsOf
  <2>2. /\ sessions'[s] = Retired(sessions[s])
        /\ \A q \in Session \ {s, new} : sessions'[q] = sessions[q]
    BY <1>1, <1>8, <2>1 DEF ReplaceSession, TypeOK
  <2>3. \A q \in Session : sessions[q].epoch \in Nat BY <1>1 DEF TypeOK, SessionRecord
  <2>4. Retired(sessions[s]).state = "retired" /\ Retired(sessions[s]).epoch = sessions[s].epoch
    BY <1>4, <1>7
  <2>5. \A q \in Session : SessionKept(sessions, sessions', q)
    BY <2>1, <2>2, <2>3, <2>4 DEF SessionKept
  <2>. QED BY <1>2, <1>8, <2>5 DEF ReplaceSession
<1>9. CASE RetireSession(s)
  <2>1. /\ sessions' = [sessions EXCEPT ![s] = Retired(sessions[s])]
        /\ sessions[s].state \in {"detached", "parked"}
    BY <1>9 DEF RetireSession, RetireEligible
  <2>2. Retired(sessions[s]).state = "retired" /\ Retired(sessions[s]).epoch = sessions[s].epoch
    BY <1>4, <1>7
  <2>. DEFINE r == Retired(sessions[s])
  <2>3. /\ sessions' = [sessions EXCEPT ![s] = r]
        /\ r.state # "absent" /\ r.epoch >= sessions[s].epoch
        /\ r.state \notin {"live", "detached"}
    BY <1>4, <2>1, <2>2
  <2>. HIDE DEF r
  <2>4. \A q \in Session : SessionKept(sessions, sessions', q) BY <1>1, <2>3, OneSession
  <2>. QED BY <1>2, <1>9, <2>4 DEF RetireSession
<1>10. ASSUME NEW r, IsAttachable(s), sessions' = [sessions EXCEPT ![s] = r],
              r.state = sessions[s].state, r.epoch = sessions[s].epoch
       PROVE  \A q \in Session : SessionKept(sessions, sessions', q)
  <2>1. r.state # "absent" /\ r.epoch >= sessions[s].epoch BY <1>4, <1>10 DEF IsAttachable
  <2>. QED BY <1>1, <1>10, <2>1, OneSession
<1>11. ASSUME NEW activity, NoteActivity(s, activity) PROVE Stands
  <2>. DEFINE r == [sessions[s] EXCEPT !.activity = activity]
  <2>1. sessions' = [sessions EXCEPT ![s] = r] BY <1>11 DEF NoteActivity
  <2>2. r.state = sessions[s].state /\ r.epoch = sessions[s].epoch BY <1>4, <1>7
  <2>. HIDE DEF r
  <2>. QED BY <1>2, <1>10, <1>11, <2>1, <2>2 DEF NoteActivity
<1>12. ASSUME NEW capable, NoteCapabilities(s, capable) PROVE Stands
  <2>. DEFINE r == [sessions[s] EXCEPT !.capable = capable]
  <2>1. sessions' = [sessions EXCEPT ![s] = r] BY <1>12 DEF NoteCapabilities
  <2>2. r.state = sessions[s].state /\ r.epoch = sessions[s].epoch BY <1>4, <1>7
  <2>. HIDE DEF r
  <2>. QED BY <1>2, <1>10, <1>12, <2>1, <2>2 DEF NoteCapabilities
<1>13. ASSUME NEW allows, NotePermissions(s, allows) PROVE Stands
  <2>. DEFINE r == [sessions[s] EXCEPT !.allows = allows, !.pinned = TRUE, !.fresh = TRUE]
  <2>1. sessions' = [sessions EXCEPT ![s] = r] BY <1>13 DEF NotePermissions
  <2>2. r.state = sessions[s].state /\ r.epoch = sessions[s].epoch BY <1>4, <1>7
  <2>. HIDE DEF r
  <2>. QED BY <1>2, <1>10, <1>13, <2>1, <2>2 DEF NotePermissions
<1>14. IsAttachable(s) => sessions[s].state # "absent" BY DEF IsAttachable
<1>15. CASE InvalidateProof(s)
  <2>1. sessions' = Invalidated(ParkedIfObserving(s), {<<s, sessions[s].epoch>>})
    BY <1>15 DEF InvalidateProof
  <2>. QED BY <1>1, <1>14, <1>15, <2>1, TakenBack, LoseStands DEF InvalidateProof
<1>16. CASE InvalidateCurrentProof(s)
  <2>. DEFINE ss == Invalidated(ParkedIfObserving(s), {<<s, sessions[s].epoch>>})
  <2>1. sessions' = [ss EXCEPT ![s] = Detached(ss[s])] BY <1>16 DEF InvalidateCurrentProof
  <2>2. /\ ss \in [Session -> SessionRecord]
        /\ \A q \in Session : SessionKept(sessions, ss, q)
        /\ ObservedUnder(s) # {} => \A e \in Nat : Past(ss, s, e)
    BY <1>1, <1>14, <1>16, TakenBack DEF InvalidateCurrentProof
  <2>. HIDE DEF ss
  <2>3. /\ sessions' \in [Session -> SessionRecord]
        /\ Detached(ss[s]).epoch = ss[s].epoch
        /\ Detached(ss[s]).state = ss[s].state \/ (ss[s].state = "live" /\ Detached(ss[s]).state = "detached")
        /\ \A q \in Session : ss[q].epoch \in Nat
    <3>1. Detached(ss[s]) \in SessionRecord BY <2>2 DEF Detached, SessionRecord
    <3>. QED BY <1>7, <2>1, <2>2, <3>1 DEF SessionRecord
  <2>4. sessions'[s] = Detached(ss[s]) /\ \A q \in Session \ {s} : sessions'[q] = ss[q]
    BY <2>1, <2>2
  <2>5. ASSUME NEW q \in Session PROVE SessionKept(ss, sessions', q)
    BY <2>3, <2>4 DEF SessionKept
  <2>6. \A q \in Session : SessionKept(sessions, sessions', q)
    BY <1>1, <2>2, <2>3, <2>5, KeptCompose DEF TypeOK
  <2>7. ss[s].state # "absent" BY <1>14, <1>16, <2>2 DEF InvalidateCurrentProof, SessionKept
  <2>8. ObservedUnder(s) # {} => \A e \in Nat : Past(sessions', s, e)
    BY <2>2, <2>3, <2>5, <2>7, StaysPast
  <2>. QED BY <1>16, <2>6, <2>8, LoseStands DEF InvalidateCurrentProof
<1>. QED BY <1>3, <1>5, <1>6, <1>8, <1>9, <1>11, <1>12, <1>13, <1>15, <1>16, Zenon
(* A send is charged. *)
LEMMA ChargeStands ==
  ASSUME Inv, NEW a \in Attempt, NEW r, attempts[a].state = "accept_pending",
         attempts[a].rpc = "pending_acceptance", HasBudget(attempts[a].batch),
         attempts' = [attempts EXCEPT ![a] = r], SameIdentity(attempts[a], r), Charged(r),
         \/ attempts[a].adapter # "cli"
         \/ SessionIsCurrent(a) /\ r.state \in ActiveStates,
         \/ batches' = Counted(batches, attempts[a].batch)
         \/ \E B, at : batches' = Manualized(Counted(batches, attempts[a].batch), B, at),
         sessions' = sessions
  PROVE  Charges(a, r)
<1>. DEFINE b == attempts[a].batch
            bs == Counted(batches, b)
<1>1. b \in Batch /\ batches[b].state # "absent" BY DEF Inv, TableInv, Linked
<1>2. bs \in BatchTable BY CountedType DEF Inv, BatchTable
<1>3. /\ bs[b].attempt_count = batches[b].attempt_count + 1
      /\ SameRow(batches[b], bs[b])
      /\ \A c \in Batch \ {b} : bs[c] = batches[c]
  <2>1. batches[b] \in BatchRecord BY <1>1 DEF Inv, TypeOK
  <2>2. bs[b] = [batches[b] EXCEPT !.attempt_count = batches[b].attempt_count + 1]
    BY <1>1 DEF Counted, Inv, TypeOK
  <2>3. bs[b].attempt_count = batches[b].attempt_count + 1 /\ SameRow(batches[b], bs[b])
    BY <1>1, <2>1, <2>2 DEF SameRow, BatchRecord
  <2>4. \A c \in Batch \ {b} : bs[c] = batches[c] BY DEF Counted, Inv, TypeOK
  <2>. QED BY <2>3, <2>4
<1>4. batches' = bs \/ \E B, at : batches' = Manualized(bs, B, at) OBVIOUS
<1>. HIDE DEF bs
<1>5. ASSUME NEW c \in Batch PROVE SameRow(bs[c], batches'[c]) /\ SameCount(bs[c], batches'[c])
  <2>1. CASE batches' = bs BY <2>1 DEF SameRow, SameCount
  <2>2. CASE \E B, at : batches' = Manualized(bs, B, at) BY <1>2, <2>2, ManualizedRow
  <2>. QED BY <1>4, <2>1, <2>2
<1>6. ASSUME NEW c \in Batch
      PROVE  /\ SameRow(batches[c], batches'[c])
             /\ c = b => batches'[c].attempt_count = batches[c].attempt_count + 1
             /\ c # b => SameCount(batches[c], batches'[c])
  <2>1. CASE c = b BY <1>1, <1>3, <1>5, <2>1 DEF SameRow, SameCount
  <2>2. CASE c # b
    <3>1. bs[c] = batches[c] BY <1>3, <2>2
    <3>. QED BY <1>5, <2>2, <3>1
  <2>. QED BY <2>1, <2>2
<1>7. attempts'[a] = r BY DEF Inv, TypeOK
<1>8. Goes(a) BY <1>7 DEF Goes, Honest, FencedOff
<1>9. SameTables BY <1>6, SessionsStand DEF SameTables, Inv
<1>. QED BY <1>6, <1>8, <1>9 DEF Charges, Charged, HasBudget

(* What acceptance and refusal make of a pending send. *)
LEMMA AnsweredRows ==
  ASSUME NEW r \in AttemptRecord, r.state = "accept_pending", NEW deadline
  PROVE  /\ LET r2 == [r EXCEPT !.state = "cooldown", !.rpc = "accepted", !.obs = "tracking",
                                !.deadline = deadline]
            IN  SameIdentity(r, r2) /\ Charged(r2) /\ r2.state \in ActiveStates
         /\ r.adapter = "codex_app_server" => SameIdentity(r, Rejected(r)) /\ Charged(Rejected(r))
BY DEF SameIdentity, Charged, Rejected, AttemptRecord, ActiveStates

(* CLI delivery. *)
LEMMA CliSteps == Inv /\ Rows /\ CliNext => Step
<1>. SUFFICES ASSUME Inv, Rows, CliNext PROVE Step OBVIOUS
<1>1. PICK a \in Attempt :
        \/ \E b \in Batch, s \in Session, auth \in AuthModes : BeginCli(a, b, s, auth)
        \/ AcceptCli(a)
        \/ \E manual \in BOOLEAN : RejectCli(a, manual)
        \/ RejectCliAgain(a)
        \/ ExpireCli(a)
        \/ \E event \in TurnEvents : ObserveCli(a, event)
  BY DEF CliNext
<1>2. TypeOK /\ attempts[a] \in AttemptRecord BY DEF Inv, TypeOK
<1>3. ASSUME NEW b \in Batch, NEW s \in Session, NEW auth, BeginCli(a, b, s, auth) PROVE Step
  <2>1. PICK at, g : attempts' = [attempts EXCEPT ![a] = NewCliAttempt(b, s, auth, g, at)]
    BY <1>3 DEF BeginCli
  <2>. DEFINE r == NewCliAttempt(b, s, auth, g, at)
  <2>2. /\ r.state = "accept_pending" /\ r.rpc = "pending_acceptance" /\ r.adapter = "cli"
        /\ r.batch = b /\ r.session = s /\ r.auth = auth /\ r.epoch = sessions[s].epoch
    BY DEF NewCliAttempt
  <2>3. attempts' = [attempts EXCEPT ![a] = r] BY <2>1
  <2>. HIDE DEF r
  <2>4. /\ batches[b].state # "absent" /\ ~batches[b].plugin /\ NoActiveOnThread(ThreadOf[b])
        /\ auth = "strict_safe" => batches[b].detachable
        /\ IsAttachable(s) /\ BoundTo[s] = ThreadOf[b]
        /\ attempts[a].state = "absent" /\ UNCHANGED <<batches, sessions>>
    BY <1>3 DEF BeginCli, IsHead, IsOpen, AllowsCli, SessionAllows, IdentityAllows
  <2>5. SameTables /\ \A c \in Batch : SameCount(batches[c], batches'[c])
    BY <1>2, <2>4, BatchesStand, SessionsStand DEF SameTables
  <2>6. Opens(a, r) BY <2>2, <2>3, <2>4, <2>5 DEF Opens
  <2>. QED BY <2>6 DEF Step
<1>4. CASE AcceptCli(a)
  <2>1. PICK at : attempts' = [attempts EXCEPT ![a] =
                    [attempts[a] EXCEPT !.state = "cooldown", !.rpc = "accepted",
                                        !.obs = "tracking", !.deadline = at + ObservationWindow]]
    BY <1>4 DEF AcceptCli
  <2>. DEFINE r == [attempts[a] EXCEPT !.state = "cooldown", !.rpc = "accepted",
                                       !.obs = "tracking", !.deadline = at + ObservationWindow]
  <2>2. /\ attempts[a].state = "accept_pending" /\ attempts[a].rpc = "pending_acceptance"
        /\ HasBudget(attempts[a].batch) /\ SessionIsCurrent(a)
        /\ batches' = Counted(batches, attempts[a].batch) /\ sessions' = sessions
    BY <1>4 DEF AcceptCli, IsAcceptPending
  <2>3. SameIdentity(attempts[a], r) /\ Charged(r) /\ r.state \in ActiveStates
    BY <1>2, <2>2, AnsweredRows
  <2>4. attempts' = [attempts EXCEPT ![a] = r] BY <2>1
  <2>. HIDE DEF r
  <2>5. Charges(a, r) BY <2>2, <2>3, <2>4, ChargeStands
  <2>. QED BY <2>5 DEF Step
<1>5. ASSUME NEW manual, RejectCli(a, manual) PROVE Step
  <2>1. /\ attempts[a].state = "accept_pending" /\ attempts[a].rpc = "pending_acceptance"
        /\ attempts[a].adapter = "cli"
        /\ attempts' = [attempts EXCEPT ![a] = Rejected(attempts[a])]
    BY <1>5 DEF RejectCli, IsAcceptPending
  <2>2. SameAccount(attempts[a], Rejected(attempts[a])) BY <1>2, <2>1, RowAccounts
  <2>3. attempts[a].session \in Session /\ attempts[a].epoch \in Nat
    BY <1>2, <2>1 DEF Rows, BelongsTo, AttemptRecord
  <2>4. /\ \A c \in Batch : SameRow(batches[c], batches'[c]) /\ SameCount(batches[c], batches'[c])
        /\ \/ sessions' = Parked(sessions, {attempts[a].session})
           \/ sessions' = Invalidated(sessions, Fences({a}))
    BY <1>2, <1>5, BatchesStand DEF RejectCli
  <2>5. /\ Past(sessions', attempts[a].session, attempts[a].epoch)
        /\ \A s \in Session : SessionKept(sessions, sessions', s)
    <3>1. CASE sessions' = Parked(sessions, {attempts[a].session})
      <4>1. attempts[a].session \in {attempts[a].session} OBVIOUS
      <4>. QED BY <1>2, <2>3, <3>1, <4>1, ParkedSession DEF TypeOK
    <3>2. CASE sessions' = Invalidated(sessions, Fences({a}))
      <4>1. a \in {a} OBVIOUS
      <4>2. Past(sessions', attempts[a].session, attempts[a].epoch) BY <2>1, <3>2, <4>1, FencesEnd
      <4>. QED BY <1>2, <3>2, <4>2, InvalidatedSession DEF TypeOK
    <3>. QED BY <2>4, <3>1, <3>2
  <2>6. Stands BY <2>1, <2>2, <2>4, <2>5, OneStands DEF SameTables
  <2>. QED BY <2>6 DEF Step
<1>6. CASE RejectCliAgain(a)
  <2>1. \A s \in Session : SessionKept(sessions, sessions', s)
    BY <1>2, <1>6, ParkedSession DEF RejectCliAgain, TypeOK
  <2>2. \A c \in Batch : SameRow(batches[c], batches'[c]) /\ SameCount(batches[c], batches'[c])
    BY <1>2, <1>6, BatchesStand DEF RejectCliAgain
  <2>. QED BY <1>6, <2>1, <2>2, SameAttemptsStand DEF RejectCliAgain, SameTables, Step
<1>7. CASE ExpireCli(a)
  <2>. DEFINE obs == IF SessionIsCurrent(a) THEN "expired" ELSE "abandoned"
  <2>1. PICK at : GiveUp(a, Abandoned(attempts[a], obs), at) BY <1>7 DEF ExpireCli
  <2>2. attempts[a].state # "absent" BY <1>7 DEF ExpireCli, IsTracking
  <2>3. SameAccount(attempts[a], Abandoned(attempts[a], obs)) BY <1>2, <2>2, RowAccounts
  <2>. QED BY <2>1, <2>2, <2>3, GiveUpStands DEF Step
<1>8. ASSUME NEW event, ObserveCli(a, event) PROVE Step BY <1>8, ObserveStands DEF Step
<1>. QED BY <1>1, <1>3, <1>4, <1>5, <1>6, <1>7, <1>8

(* Codex app-server delivery. *)
LEMMA AppServerSteps == Inv /\ Rows /\ AppServerNext => Step
<1>. SUFFICES ASSUME Inv, Rows, AppServerNext PROVE Step OBVIOUS
<1>1. PICK a \in Attempt :
        \/ \E b \in Batch : BeginAppServer(a, b)
        \/ AcceptAppServer(a)
        \/ \E manual \in BOOLEAN : RejectAppServer(a, manual)
        \/ RejectAppServerAgain(a)
        \/ AbandonAppServerUnknown(a)
        \/ \E event \in TurnEvents : ObserveAppServer(a, event)
  BY DEF AppServerNext
<1>2. TypeOK /\ attempts[a] \in AttemptRecord BY DEF Inv, TypeOK
<1>3. ASSUME NEW b \in Batch, BeginAppServer(a, b) PROVE Step
  <2>1. PICK at, g : attempts' = [attempts EXCEPT ![a] = NewAppServerAttempt(b, g, at)]
    BY <1>3 DEF BeginAppServer
  <2>. DEFINE r == NewAppServerAttempt(b, g, at)
  <2>2. /\ r.state = "accept_pending" /\ r.rpc = "pending_acceptance" /\ r.adapter # "cli"
        /\ NeedsNothing(r)
    BY DEF NewAppServerAttempt, NeedsNothing
  <2>3. attempts' = [attempts EXCEPT ![a] = r] BY <2>1
  <2>. HIDE DEF r
  <2>4. attempts[a].state = "absent" /\ UNCHANGED <<batches, sessions>> BY <1>3 DEF BeginAppServer
  <2>5. SameTables /\ \A c \in Batch : SameCount(batches[c], batches'[c])
    BY <1>2, <2>4, BatchesStand, SessionsStand DEF SameTables
  <2>6. Opens(a, r) BY <2>2, <2>3, <2>4, <2>5 DEF Opens
  <2>. QED BY <2>6 DEF Step
<1>4. CASE AcceptAppServer(a)
  <2>1. PICK at : attempts' = [attempts EXCEPT ![a] =
                    [attempts[a] EXCEPT !.state = "cooldown", !.rpc = "accepted",
                                        !.obs = "tracking", !.deadline = at + ObservationWindow]]
    BY <1>4 DEF AcceptAppServer
  <2>. DEFINE r == [attempts[a] EXCEPT !.state = "cooldown", !.rpc = "accepted",
                                       !.obs = "tracking", !.deadline = at + ObservationWindow]
  <2>2. /\ attempts[a].state = "accept_pending" /\ attempts[a].rpc = "pending_acceptance"
        /\ attempts[a].adapter # "cli" /\ HasBudget(attempts[a].batch)
        /\ batches' = Counted(batches, attempts[a].batch) /\ sessions' = sessions
    BY <1>4 DEF AcceptAppServer, IsAcceptPending
  <2>3. SameIdentity(attempts[a], r) /\ Charged(r) BY <1>2, <2>2, AnsweredRows
  <2>4. attempts' = [attempts EXCEPT ![a] = r] BY <2>1
  <2>. HIDE DEF r
  <2>5. Charges(a, r) BY <2>2, <2>3, <2>4, ChargeStands
  <2>. QED BY <2>5 DEF Step
<1>5. ASSUME NEW manual, RejectAppServer(a, manual) PROVE Step
  <2>1. /\ attempts[a].state = "accept_pending" /\ attempts[a].rpc = "pending_acceptance"
        /\ attempts[a].adapter = "codex_app_server" /\ HasBudget(attempts[a].batch)
        /\ attempts' = [attempts EXCEPT ![a] = Rejected(attempts[a])] /\ sessions' = sessions
    BY <1>5 DEF RejectAppServer, IsAcceptPending
  <2>2. \/ batches' = Counted(batches, attempts[a].batch)
        \/ \E B, at : batches' = Manualized(Counted(batches, attempts[a].batch), B, at)
    BY <1>5, Zenon DEF RejectAppServer
  <2>3. SameIdentity(attempts[a], Rejected(attempts[a])) /\ Charged(Rejected(attempts[a]))
    BY <1>2, <2>1, AnsweredRows
  <2>4. Charges(a, Rejected(attempts[a])) BY <2>1, <2>2, <2>3, ChargeStands
  <2>. QED BY <2>4 DEF Step
<1>6. CASE RejectAppServerAgain(a)
  <2>1. SameTables /\ \A c \in Batch : SameCount(batches[c], batches'[c])
    BY <1>2, <1>6, BatchesStand, SessionsStand DEF RejectAppServerAgain, SameTables
  <2>. QED BY <1>6, <2>1, SameAttemptsStand DEF RejectAppServerAgain, Step
<1>7. CASE AbandonAppServerUnknown(a)
  <2>1. SameTables /\ \A c \in Batch : SameCount(batches[c], batches'[c])
    BY <1>2, <1>7, BatchesStand, SessionsStand DEF AbandonAppServerUnknown, SameTables
  <2>2. CASE attempts' = attempts BY <2>1, <2>2, SameAttemptsStand DEF Step
  <2>3. CASE /\ IsAcceptPending(a, "codex_app_server")
             /\ attempts' = [attempts EXCEPT ![a] = AbandonedUnknown(attempts[a])]
    <3>1. /\ attempts[a].state # "absent" /\ attempts[a].rpc = "pending_acceptance"
          /\ attempts[a].adapter # "cli"
      BY <2>3 DEF IsAcceptPending
    <3>2. SameAccount(attempts[a], AbandonedUnknown(attempts[a])) BY <1>2, <3>1, RowAccounts
    <3>3. Stands BY <2>1, <2>3, <3>1, <3>2, OneStands
    <3>. QED BY <3>3 DEF Step
  <2>. QED BY <1>7, <2>2, <2>3 DEF AbandonAppServerUnknown
<1>8. ASSUME NEW event, ObserveAppServer(a, event) PROVE Step BY <1>8, ObserveStands DEF Step
<1>. QED BY <1>1, <1>3, <1>4, <1>5, <1>6, <1>7, <1>8
(* What a sweep gives up keeps its account. *)
LEMMA SweptAccounts ==
  ASSUME Inv, NEW U, NEW C, NEW P, NEW a \in Attempt, attempts[a].state # "absent",
         a \in U => attempts[a].rpc = "pending_acceptance"
  PROVE  SameAccount(attempts[a], AttemptsAfter(U, C, P)[a])
<1>1. attempts[a] \in AttemptRecord BY DEF Inv, TypeOK
<1>2. \/ a \in U /\ AttemptsAfter(U, C, P)[a] = AbandonedUnknown(attempts[a])
      \/ \E obs \in {"expired", "abandoned"} : AttemptsAfter(U, C, P)[a] = Abandoned(attempts[a], obs)
      \/ AttemptsAfter(U, C, P)[a] = attempts[a]
  BY DEF AttemptsAfter
<1>. QED BY <1>1, <1>2, RowAccounts

(* The sweep: what it gives up is fenced off, and it closes nothing in       *)
(* flight.                                                                   *)
LEMMA SweepTablesStand ==
  ASSUME Inv, Rows, NEW U, NEW C, NEW P, NEW at \in Recent,
         \A a \in Attempt : a \in U \union C \union P => attempts[a].state # "absent",
         \A a \in U : attempts[a].rpc = "pending_acceptance",
         \A a \in P : attempts[a].adapter # "cli",
         SweepTables(U, C, P, at)
  PROVE  Stands
<1>. DEFINE bs == Manualized(batches, {attempts[a].batch : a \in U \union C \union P}, at)
            as == AttemptsAfter(U, C, P)
            ss == SessionsAfterLoss(U \union C)
<1>1. PICK M, A :
        /\ \A b \in M \union A : /\ b \in Batch /\ bs[b].state = "open"
                                 /\ \A a \in Attempt : as[a].batch = b => as[a].state \notin ActiveStates
        /\ batches' = Closed(Closed(bs, M, "manual_resolution_expired"), A,
                             "redelivery_window_exhausted")
        /\ attempts' = AttemptsClosedWith(as, M \union A)
        /\ \E F : sessions' = Invalidated(ss, F)
  <2>. DEFINE windows == [b \in Batch |-> bs[b].window_ends_at]
  <2>1. PICK M \in Oldest(ExpiredBatches(as, bs, "manual_resolution_only", at), windows, SweepLimit),
             A \in Oldest(ExpiredBatches(as, bs, "automatic", at), windows, SweepLimit) :
          /\ batches' = Closed(Closed(bs, M, "manual_resolution_expired"), A,
                               "redelivery_window_exhausted")
          /\ attempts' = AttemptsClosedWith(as, M \union A)
          /\ \E F : sessions' = Invalidated(ss, F)
    BY Zenon DEF SweepTables
  <2>. HIDE DEF bs, as, ss
  <2>2. M \subseteq ExpiredBatches(as, bs, "manual_resolution_only", at) BY DEF Oldest
  <2>3. A \subseteq ExpiredBatches(as, bs, "automatic", at) BY DEF Oldest
  <2>4. \A b \in M \union A :
          /\ b \in Batch /\ bs[b].state = "open"
          /\ \A a \in Attempt : as[a].batch = b => as[a].state \notin ActiveStates
    BY <2>2, <2>3 DEF ExpiredBatches
  <2>. QED BY <2>1, <2>4
<1>2. TypeOK BY DEF Inv
<1>3. as \in AttemptTable BY <1>2, AttemptsAfterType DEF AttemptTable
<1>4. /\ bs \in BatchTable
      /\ \A b \in Batch : /\ SameRow(batches[b], bs[b]) /\ SameCount(batches[b], bs[b])
                          /\ bs[b].state = batches[b].state
  BY <1>2, RecentIsNat, ManualizedType, ManualizedRow, ManualizedFacts DEF TypeOK, BatchTable
<1>5. \A a \in Attempt : attempts[a].state # "absent" => SameAccount(attempts[a], as[a])
  BY SweptAccounts
<1>6. \A a \in Attempt : a \notin U \union C \union P => as[a] = attempts[a] BY DEF AttemptsAfter
<1>7. /\ sessions \in [Session -> SessionRecord] /\ ss \in [Session -> SessionRecord]
      /\ \A s \in Session : SessionKept(sessions, ss, s)
  BY <1>2, SessionsAfterLossType, LossSession DEF TypeOK
<1>8. ASSUME NEW a \in Attempt, a \in U \union C \union P, attempts[a].adapter = "cli"
      PROVE  /\ attempts[a].session \in Session /\ attempts[a].epoch \in Nat
             /\ Past(ss, attempts[a].session, attempts[a].epoch)
             /\ ss[attempts[a].session].state # "absent"
  <2>1. a \in U \union C /\ attempts[a].state # "absent" BY <1>8
  <2>2. attempts[a] \in AttemptRecord BY <1>2 DEF TypeOK
  <2>3. attempts[a].session \in Session /\ sessions[attempts[a].session].state # "absent"
    BY <1>8, <2>1 DEF Rows, BelongsTo
  <2>4. Past(ss, attempts[a].session, attempts[a].epoch) BY <1>8, <2>1, FencesEnd
  <2>. QED BY <1>7, <2>2, <2>3, <2>4 DEF AttemptRecord, SessionKept
<1>. HIDE DEF as, bs, ss
<1>9. ASSUME NEW b \in Batch
      PROVE  SameRow(batches[b], batches'[b]) /\ SameCount(batches[b], batches'[b])
  <2>1. SameRow(batches[b], bs[b]) /\ SameCount(batches[b], bs[b]) BY <1>4
  <2>2. CASE b \notin M \union A
    <3>1. batches'[b] = bs[b] BY <1>1, <2>2 DEF Closed
    <3>. QED BY <2>1, <3>1
  <2>3. CASE b \in M \union A
    <3>. DEFINE cs == Closed(bs, M, "manual_resolution_expired")
    <3>1. bs[b].state = "open" BY <1>1, <2>3
    <3>2. SameRow(bs[b], cs[b]) /\ SameCount(bs[b], cs[b]) /\ cs \in BatchTable
      BY <1>4, <3>1, ClosedRow, ClosedType DEF BatchTable
    <3>. HIDE DEF cs
    <3>3. cs[b].state # "absent" BY <3>1, <3>2 DEF SameRow
    <3>4. SameRow(cs[b], batches'[b]) /\ SameCount(cs[b], batches'[b])
      BY <1>1, <3>2, <3>3, ClosedRow DEF cs
    <3>5. SameRow(bs[b], batches'[b]) /\ SameCount(bs[b], batches'[b])
      BY <3>1, <3>2, <3>4, RowsCompose
    <3>. QED BY <1>4, <2>1, <3>1, <3>5, RowsCompose
  <2>. QED BY <2>2, <2>3
<1>10. ASSUME NEW s \in Session PROVE SessionKept(sessions, sessions', s)
  <2>1. PICK F : sessions' = Invalidated(ss, F) BY <1>1
  <2>2. SessionKept(ss, sessions', s) /\ sessions' \in [Session -> SessionRecord]
    BY <1>7, <2>1, InvalidatedSession, InvalidatedType
  <2>. QED BY <1>7, <2>2, KeptCompose
<1>11. ASSUME NEW a \in Attempt PROVE attempts'[a] = as[a]
  <2>. DEFINE B == M \union A
  <2>1. attempts' = AttemptsClosedWith(as, B) /\ (as[a].batch \in B => as[a].state \notin ActiveStates)
    BY <1>1
  <2>. HIDE DEF B
  <2>. QED BY <2>1 DEF AttemptsClosedWith
<1>12. ASSUME NEW a \in Attempt, attempts[a].state # "absent"
       PROVE  SameAccount(attempts[a], attempts'[a]) /\ FencedOff(a)
  <2>1. SameAccount(attempts[a], attempts'[a]) BY <1>5, <1>11, <1>12
  <2>2. CASE a \in U \union C \union P /\ attempts[a].adapter = "cli"
    <3>1. PICK F : sessions' = Invalidated(ss, F) BY <1>1
    <3>2. /\ sessions' \in [Session -> SessionRecord]
          /\ SessionKept(ss, sessions', attempts[a].session)
      BY <1>7, <1>8, <2>2, <3>1, InvalidatedSession, InvalidatedType
    <3>3. Past(sessions', attempts[a].session, attempts[a].epoch)
      BY <1>7, <1>8, <2>2, <3>2, StaysPast
    <3>. QED BY <2>1, <3>3 DEF FencedOff
  <2>3. CASE a \notin U \union C \union P
    <3>1. attempts'[a] = attempts[a] BY <1>6, <1>11, <2>3
    <3>. QED BY <2>1, <3>1 DEF FencedOff, Active
  <2>. QED BY <2>1, <2>2, <2>3 DEF FencedOff
<1>13. ASSUME NEW a \in Attempt, attempts[a].state = "absent" PROVE attempts'[a] = attempts[a]
  BY <1>6, <1>11, <1>13
<1>. QED BY <1>9, <1>10, <1>12, <1>13, AccountsStand DEF SameTables

(* Maintenance and time. *)
LEMMA SweepSteps == Inv /\ Rows /\ (Sweep \/ SweepAppServer \/ Tick) => Stands
<1>. SUFFICES ASSUME Inv, Rows, Sweep \/ SweepAppServer \/ Tick PROVE Stands OBVIOUS
<1>1. ASSUME NEW adapter, NEW timeout, NEW at, NEW U \in StaleToSweep(adapter, timeout, at)
      PROVE  \A a \in U : /\ attempts[a].state # "absent" /\ attempts[a].adapter = adapter
                           /\ attempts[a].rpc = "pending_acceptance"
  <2>1. U \subseteq StaleAcceptances(adapter, timeout, at) BY DEF StaleToSweep, Oldest
  <2>. QED BY <2>1 DEF StaleAcceptances, IsAcceptPending
<1>2. ASSUME NEW adapter, NEW at, NEW P \in DueToSweep(adapter, at)
      PROVE  \A a \in P : attempts[a].state # "absent" /\ attempts[a].adapter = adapter
  <2>1. P \subseteq DueObservations(adapter, at) BY DEF DueToSweep, Oldest
  <2>. QED BY <2>1 DEF DueObservations
<1>3. CASE Sweep
  <2>1. PICK at \in Recent :
               \E U1 \in StaleToSweep("cli", AcceptTimeout, at),
                  C \in DueToSweep("cli", at),
                  U2 \in StaleToSweep("codex_app_server", AppServerAcceptTimeout, at),
                  P \in DueToSweep("codex_app_server", at) :
                 SweepTables(U1 \union U2, C, P, at)
    BY <1>3 DEF Sweep
  <2>2. PICK U1 \in StaleToSweep("cli", AcceptTimeout, at),
             C \in DueToSweep("cli", at),
             U2 \in StaleToSweep("codex_app_server", AppServerAcceptTimeout, at),
             P \in DueToSweep("codex_app_server", at) :
                 SweepTables(U1 \union U2, C, P, at)
    BY <2>1
  <2>. DEFINE U == U1 \union U2
  <2>3. /\ \A a \in U : attempts[a].state # "absent" /\ attempts[a].rpc = "pending_acceptance"
        /\ \A a \in C : attempts[a].state # "absent"
        /\ \A a \in P : attempts[a].state # "absent" /\ attempts[a].adapter # "cli"
        /\ SweepTables(U, C, P, at)
    BY <1>1, <1>2, <2>2
  <2>. HIDE DEF U
  <2>. QED BY <2>3, SweepTablesStand
<1>4. CASE SweepAppServer
  <2>1. PICK at \in Recent :
               \E U \in StaleToSweep("codex_app_server", AppServerAcceptTimeout, at),
                  P \in DueToSweep("codex_app_server", at) :
                 /\ attempts' = AttemptsAfter(U, {}, P)
                 /\ \E B : batches' = Manualized(batches, B, at)
                 /\ sessions' = sessions
    BY <1>4 DEF SweepAppServer
  <2>2. PICK U \in StaleToSweep("codex_app_server", AppServerAcceptTimeout, at),
             P \in DueToSweep("codex_app_server", at) :
                 /\ attempts' = AttemptsAfter(U, {}, P)
                 /\ \E B : batches' = Manualized(batches, B, at)
                 /\ sessions' = sessions
    BY <2>1
  <2>3. /\ \A a \in U : /\ attempts[a].state # "absent" /\ attempts[a].adapter # "cli"
                         /\ attempts[a].rpc = "pending_acceptance"
        /\ \A a \in P : attempts[a].state # "absent" /\ attempts[a].adapter # "cli"
    BY <1>1, <1>2
  <2>4. ASSUME NEW a \in Attempt
        PROVE  a \in U \/ a \in P \/ attempts'[a] = attempts[a]
    BY <2>2 DEF AttemptsAfter
  <2>5. ASSUME NEW a \in Attempt, attempts[a].state # "absent"
        PROVE  SameAccount(attempts[a], attempts'[a]) /\ FencedOff(a)
    <3>1. SameAccount(attempts[a], attempts'[a]) BY <2>2, <2>3, <2>5, SweptAccounts
    <3>. QED BY <2>3, <2>4, <3>1 DEF FencedOff, Active
  <2>6. \A a \in Attempt : attempts[a].state = "absent" => attempts'[a] = attempts[a]
    BY <2>3, <2>4
  <2>7. SameTables /\ \A b \in Batch : SameCount(batches[b], batches'[b])
    BY <2>2, BatchesStand, SessionsStand DEF Inv, SameTables
  <2>. QED BY <2>5, <2>6, <2>7, AccountsStand
<1>5. CASE Tick
  <2>1. SameTables /\ \A b \in Batch : SameCount(batches[b], batches'[b])
    BY <1>5, BatchesStand, SessionsStand DEF Tick, Inv, SameTables
  <2>. QED BY <1>5, <2>1, SameAttemptsStand DEF Tick
<1>. QED BY <1>3, <1>4, <1>5

-----------------------------------------------------------------------------
(* Every step is such a step, ... *)
LEMMA NextSteps == Inv /\ Rows /\ [Next]_vars => Step
<1>1. ASSUME Inv, UNCHANGED vars PROVE Stands
  <2>1. SameTables /\ \A b \in Batch : SameCount(batches[b], batches'[b])
    BY <1>1, BatchesStand, SessionsStand DEF vars, Inv, SameTables
  <2>. QED BY <1>1, <2>1, SameAttemptsStand DEF vars
<1>. QED BY <1>1, QueueSteps, SessionSteps, CliSteps, AppServerSteps, SweepSteps DEF Next, Step

(* ... so what the rows say stays true. *)
LEMMA HistHolds == Spec => []Hist
<1>1. Init => Hist
  <2>. SUFFICES ASSUME Init PROVE Hist OBVIOUS
  <2>1. ASSUME NEW a \in Attempt
        PROVE  /\ attempts[a].state = "absent" /\ attempts[a].session = NoSession
               /\ attempts[a].auth = "trusted_all"
    BY DEF Init, NoAttempt
  <2>2. ASSUME NEW b \in Batch
        PROVE  /\ batches[b].attempt_count = 0 /\ batches[b].max_attempts = 0
               /\ SpentOn(b) = {}
    BY <2>1 DEF Init, NoBatch, SpentOn, Charged
  <2>3. Rows BY <2>1 DEF Rows, NeedsNothing
  <2>4. Budget BY <2>2, FS_EmptySet DEF Budget
  <2>5. ProofUsedOnce BY <2>1 DEF ProofUsedOnce
  <2>. QED BY <2>3, <2>4, <2>5 DEF Hist
<1>2. Inv /\ TypeOK' /\ Hist /\ [Next]_vars => Hist'
  BY NextSteps, StepProofs, StepBudget DEF Hist
<1>3. Inv => TypeOK BY DEF Inv
<1>. QED BY <1>1, <1>2, <1>3, InvHolds, PTL DEF Spec

(* Two attempts are never begun on the same proof of a session: whatever     *)
(* ends one ends the proof with it, or parks the session.                    *)
THEOREM ProofUsedOnceHolds == Spec => []ProofUsedOnce
<1>1. Hist => ProofUsedOnce BY DEF Hist
<1>. QED BY <1>1, HistHolds, PTL

(* The counter of a batch is the number of its attempts that used up budget, *)
(* and stays within the budget.                                              *)
THEOREM BudgetAccountingHolds == Spec => []BudgetAccounting
<1>1. Hist => BudgetAccounting
  <2>. SUFFICES ASSUME Budget, NEW b \in Batch
                PROVE  /\ batches[b].attempt_count = Spent(b)
                       /\ batches[b].attempt_count <= batches[b].max_attempts
    BY DEF Hist, BudgetAccounting
  <2>1. Spent(b) = Cardinality(SpentOn(b))
    <3>1. {a \in OnBatch(b) :
             \/ attempts[a].rpc = "accepted"
             \/ attempts[a].rpc = "rejected_before_accept" /\ attempts[a].adapter = "codex_app_server"}
          = SpentOn(b)
      BY DEF OnBatch, SpentOn, Charged
    <3>. QED BY <3>1 DEF Spent
  <2>. QED BY <2>1 DEF Budget
<1>. QED BY <1>1, HistHolds, PTL

(* A strict_safe turn is accepted, and counted as delivered while it is      *)
(* tracked, only when its session allows nothing at that moment and its      *)
(* batch needs nothing.                                                      *)
THEOREM StrictSafeHolds == Spec => StrictSafeHonoured
<1>1. Inv /\ Hist /\ [Next]_vars =>
        \A a \in Attempt :
          /\ Active(a) /\ attempts[a].auth = "strict_safe"
          /\ \/ attempts[a].rpc # "accepted" /\ attempts'[a].rpc = "accepted"
             \/ attempts[a].obs # "completed" /\ attempts'[a].obs = "completed"
          => /\ ~sessions[attempts[a].session].allows
             /\ sessions[attempts[a].session].pinned => sessions[attempts[a].session].fresh
             /\ batches[attempts[a].batch].detachable
  <2>. SUFFICES ASSUME Inv, Rows, Step, NEW a \in Attempt, Active(a),
                       attempts[a].auth = "strict_safe", Told(attempts[a], attempts'[a])
                PROVE  /\ ~sessions[attempts[a].session].allows
                       /\ sessions[attempts[a].session].pinned => sessions[attempts[a].session].fresh
                       /\ batches[attempts[a].batch].detachable
    BY NextSteps DEF Hist, Told
  <2>1. attempts[a].state # "absent" BY DEF Active, ActiveStates
  <2>2. attempts[a].adapter = "cli" /\ batches[attempts[a].batch].detachable
    BY <2>1 DEF Rows, NeedsNothing, BelongsTo
  <2>3. Honest(a)
    <3>1. ASSUME NEW c \in Attempt, NEW r, Opens(c, r) PROVE attempts'[a] = attempts[a]
      <4>1. c # a BY <2>1, <3>1 DEF Opens
      <4>. QED BY <3>1, <4>1 DEF Opens, Inv, TypeOK
    <3>2. ASSUME NEW c \in Attempt, NEW r, Charges(c, r), c # a PROVE attempts'[a] = attempts[a]
      BY <3>2 DEF Charges, Inv, TypeOK
    <3>. QED BY <2>1, <3>1, <3>2 DEF Step, Stands, Charges, Goes, Told
  <2>4. SessionIsCurrent(a) BY <2>2, <2>3 DEF Honest
  <2>. QED BY <2>2, <2>4 DEF SessionIsCurrent, IdentityAllows
<1>. QED BY <1>1, InvHolds, HistHolds, PTL DEF Spec, StrictSafeHonoured

(***************************************************************************)
(* The store implements the queue that delivers at most once.              *)
(*                                                                         *)
(* A step of the store either leaves every batch where it is or hands some *)
(* over to the operator (HandsOver), or it moves one batch: a batch is     *)
(* enqueued, sent, refused, confirmed or discarded. Only a sweep does two  *)
(* of these at once, on different batches: what it hands over stays open   *)
(* for the manual window, and it closes nothing that is in flight. That a  *)
(* send meets an idle thread and a batch never exposed, and that a refusal *)
(* takes the exposure back, is the invariant of DeliverySafetyProofs.      *)
(***************************************************************************)

(* The refinement mapping, as functions of the two tables. *)
InFlightAt(as, b) == \E a \in Attempt : as[a].state \in ActiveStates /\ as[a].batch = b

StatusAt(bs, as, b) ==
  IF bs[b].state = "absent" THEN "absent"
  ELSE IF bs[b].state = "closed"
       THEN IF bs[b].close_reason = "delivered" THEN "delivered" ELSE "dropped"
  ELSE IF InFlightAt(as, b) THEN "inflight"
  ELSE IF bs[b].policy = "automatic" THEN "queued" ELSE "manual"

ExposedAt(as, b) == \E a \in Attempt :
  as[a].state # "absent" /\ as[a].batch = b /\ as[a].rpc # "rejected_before_accept"

(* They are the mapping before a step, ... *)
LEMMA MappingNow ==
  ASSUME TypeOK, NEW b \in Batch
  PROVE  StatusOf(b) = StatusAt(batches, attempts, b) /\ Exposed(b) = ExposedAt(attempts, b)
<1>1. batches[b].state \in {"absent", "open", "closed"} BY DEF TypeOK, BatchRecord
<1>2. ActiveOn(b) # {} <=> InFlightAt(attempts, b)
  BY DEF ActiveOn, OnBatch, Active, InFlightAt, ActiveStates
<1>3. Exposed(b) = ExposedAt(attempts, b) BY DEF Exposed, ExposedAt, OnBatch
<1>. QED BY <1>1, <1>2, <1>3 DEF StatusOf, StatusAt, IsAutomatic

(* ... and after it. *)
LEMMA MappingNext ==
  ASSUME TypeOK', NEW b \in Batch
  PROVE  StatusOf(b)' = StatusAt(batches', attempts', b) /\ Exposed(b)' = ExposedAt(attempts', b)
<1>1. batches'[b].state \in {"absent", "open", "closed"} BY DEF TypeOK, BatchRecord
<1>2. (ActiveOn(b) # {})' <=> InFlightAt(attempts', b)
  BY DEF ActiveOn, OnBatch, Active, InFlightAt, ActiveStates
<1>3. Exposed(b)' = ExposedAt(attempts', b) BY DEF Exposed, ExposedAt, OnBatch
<1>. QED BY <1>1, <1>2, <1>3 DEF StatusOf, StatusAt, IsAutomatic

-----------------------------------------------------------------------------
(* What a step may make of one batch. *)

SameView(b) == /\ StatusAt(batches', attempts', b) = StatusAt(batches, attempts, b)
               /\ ExposedAt(attempts', b) = ExposedAt(attempts, b)

(* An attempt r that becomes r2 does not begin, does not turn out refused,   *)
(* and ends only by leaving the batch b, whose row is now `row`, to the      *)
(* operator.                                                                 *)
StandsOrEnds(r, r2, row, b) ==
  /\ r2.batch = r.batch
  /\ r.batch = b =>
       /\ r2.state = "absent" <=> r.state = "absent"
       /\ r2.state \in ActiveStates => r.state \in ActiveStates
       /\ r2.rpc = "rejected_before_accept" <=> r.rpc = "rejected_before_accept"
       /\ r.state \in ActiveStates => r2.state \in ActiveStates \/ row.policy # "automatic"

(* The row of b keeps its state, and its attempts stand or end. *)
HandsOver(bs, bs2, as, as2, b) ==
  /\ bs2[b].state = bs[b].state /\ bs2[b].close_reason = bs[b].close_reason
  /\ bs2[b].policy = bs[b].policy \/ bs2[b].policy # "automatic"
  /\ \A a \in Attempt : StandsOrEnds(as[a], as2[a], bs2[b], b)

(* Such a batch stays where it is, or is handed over. *)
LEMMA HandedOver ==
  ASSUME NEW bs \in BatchTable, NEW bs2, NEW as, NEW as2, NEW b \in Batch,
         HandsOver(bs, bs2, as, as2, b)
  PROVE  /\ ExposedAt(as2, b) = ExposedAt(as, b)
         /\ \/ StatusAt(bs2, as2, b) = StatusAt(bs, as, b)
            \/ /\ StatusAt(bs, as, b) \in {"queued", "inflight"}
               /\ StatusAt(bs2, as2, b) = "manual"
<1>1. ExposedAt(as2, b) <=> ExposedAt(as, b) BY DEF HandsOver, StandsOrEnds, ExposedAt
<1>2. bs[b].state \in {"absent", "open", "closed"} BY DEF BatchTable, BatchRecord
<1>3. CASE bs[b].state # "open" BY <1>1, <1>2, <1>3 DEF HandsOver, StandsOrEnds, StatusAt, ExposedAt
<1>4. CASE bs[b].state = "open"
  <2>1. InFlightAt(as2, b) => InFlightAt(as, b) BY DEF HandsOver, StandsOrEnds, InFlightAt
  <2>2. InFlightAt(as, b) => InFlightAt(as2, b) \/ bs2[b].policy # "automatic"
    BY DEF HandsOver, StandsOrEnds, InFlightAt
  <2>3. bs2[b].state = "open" /\ (bs2[b].policy = bs[b].policy \/ bs2[b].policy # "automatic")
    BY <1>4 DEF HandsOver
  <2>. QED BY <1>1, <1>4, <2>1, <2>2, <2>3 DEF StatusAt, ExposedAt
<1>. QED BY <1>3, <1>4

(* A batch neither whose row nor whose attempts change is where it was. *)
LEMMA Untouched ==
  ASSUME NEW b \in Batch, batches'[b] = batches[b],
         \A a \in Attempt : \/ attempts'[a] = attempts[a]
                            \/ /\ attempts[a].state # "absent" => attempts[a].batch # b
                               /\ attempts'[a].state # "absent" => attempts'[a].batch # b
  PROVE  SameView(b)
<1>. USE DEF ActiveStates
<1>1. InFlightAt(attempts', b) <=> InFlightAt(attempts, b) BY DEF InFlightAt
<1>2. ExposedAt(attempts', b) <=> ExposedAt(attempts, b) BY DEF ExposedAt
<1>3. StatusAt(batches', attempts', b) = StatusAt(batches, attempts, b) BY <1>1 DEF StatusAt
<1>. QED BY <1>2, <1>3 DEF SameView, ExposedAt

-----------------------------------------------------------------------------
(* The steps of the queue, read off the two tables. *)

(* When only b moves, status and exposed change there. *)
LEMMA OneMoves ==
  ASSUME TypeOK, TypeOK', NEW b \in Batch, \A c \in Batch \ {b} : SameView(c)
  PROVE  /\ [c \in Batch |-> StatusOf(c)]' =
              [[c \in Batch |-> StatusOf(c)] EXCEPT ![b] = StatusAt(batches', attempts', b)]
         /\ [c \in Batch |-> Exposed(c)]' =
              [[c \in Batch |-> Exposed(c)] EXCEPT ![b] = ExposedAt(attempts', b)]
<1>1. \A c \in Batch : /\ StatusOf(c)' = StatusAt(batches', attempts', c)
                       /\ Exposed(c)' = ExposedAt(attempts', c)
  BY MappingNext
<1>2. \A c \in Batch \ {b} : /\ StatusOf(c)' = StatusOf(c)
                             /\ Exposed(c)' = Exposed(c)
  BY <1>1, MappingNow DEF SameView
<1>. QED BY <1>1, <1>2

(* Each batch stays, is handed over, or is dropped when it is not in flight. *)
LEMMA Maintained ==
  ASSUME TypeOK, TypeOK',
         \A b \in Batch :
           /\ ExposedAt(attempts', b) = ExposedAt(attempts, b)
           /\ \/ StatusAt(batches', attempts', b) = StatusAt(batches, attempts, b)
              \/ /\ StatusAt(batches, attempts, b) \in {"queued", "inflight"}
                 /\ StatusAt(batches', attempts', b) = "manual"
              \/ /\ StatusAt(batches, attempts, b) \in {"queued", "manual"}
                 /\ StatusAt(batches', attempts', b) = "dropped"
  PROVE  Queue!QueueNext
<1>1. \A b \in Batch : StatusOf(b) = StatusAt(batches, attempts, b) /\ Exposed(b) = ExposedAt(attempts, b)
  BY MappingNow
<1>2. \A b \in Batch : /\ StatusOf(b)' = StatusAt(batches', attempts', b)
                       /\ Exposed(b)' = ExposedAt(attempts', b)
  BY MappingNext
<1>3. \A b \in Batch : StatusAt(batches', attempts', b) \in Queue!Status BY DEF StatusAt, Queue!Status
<1>4. [b \in Batch |-> StatusOf(b)]' \in [Batch -> Queue!Status] BY <1>2, <1>3
<1>5. [b \in Batch |-> Exposed(b)]' = [b \in Batch |-> Exposed(b)] BY <1>1, <1>2
<1>6. \A b \in Batch :
        \/ [c \in Batch |-> StatusOf(c)]'[b] = [c \in Batch |-> StatusOf(c)][b]
        \/ /\ [c \in Batch |-> StatusOf(c)][b] \in {"queued", "inflight"}
           /\ [c \in Batch |-> StatusOf(c)]'[b] = "manual"
        \/ /\ [c \in Batch |-> StatusOf(c)][b] \in {"queued", "manual"}
           /\ [c \in Batch |-> StatusOf(c)]'[b] = "dropped"
  BY <1>1, <1>2
<1>7. Queue!Maintain BY <1>4, <1>5, <1>6 DEF Queue!Maintain
<1>. QED BY <1>7 DEF Queue!QueueNext

(* One batch goes from `from` to `to`, the others stay. *)
Moved(b, from, to) == /\ \A c \in Batch \ {b} : SameView(c)
                      /\ StatusAt(batches, attempts, b) \in from
                      /\ StatusAt(batches', attempts', b) = to

(* A move of b is one of the queue's moves if it treats the exposure of b so. *)
LEMMA QueueMoves ==
  ASSUME TypeOK, TypeOK', NEW b \in Batch
  PROVE  /\ /\ Moved(b, {"absent"}, "queued")
            /\ ExposedAt(attempts', b) = ExposedAt(attempts, b)
            => Queue!QueueNext
         /\ /\ Moved(b, {"absent", "queued"}, "inflight")
            /\ \A c \in Batch : ThreadOf[c] = ThreadOf[b] => StatusAt(batches, attempts, c) # "inflight"
            /\ ~ExposedAt(attempts, b) /\ ExposedAt(attempts', b) = TRUE
            => Queue!QueueNext
         /\ \A to \in {"queued", "manual"} :
              Moved(b, {"inflight"}, to) /\ ExposedAt(attempts', b) = FALSE => Queue!QueueNext
         /\ /\ Moved(b, {"inflight", "manual"}, "delivered")
            /\ ExposedAt(attempts, b) /\ ExposedAt(attempts', b) = ExposedAt(attempts, b)
            => Queue!QueueNext
         /\ /\ Moved(b, {"queued", "inflight", "manual"}, "dropped")
            /\ ExposedAt(attempts', b) = ExposedAt(attempts, b)
            => Queue!QueueNext
<1>. DEFINE st == [c \in Batch |-> StatusOf(c)]
            ex == [c \in Batch |-> Exposed(c)]
<1>1. \A c \in Batch : st[c] = StatusAt(batches, attempts, c) /\ ex[c] = ExposedAt(attempts, c)
  BY MappingNow
<1>2. ASSUME NEW from, NEW to, Moved(b, from, to)
      PROVE  /\ Queue!Move(b, from, to)
             /\ ex' = [ex EXCEPT ![b] = ExposedAt(attempts', b)]
  BY <1>1, <1>2, OneMoves DEF Moved, Queue!Move
<1>3. ExposedAt(attempts', b) = ExposedAt(attempts, b) =>
        [ex EXCEPT ![b] = ExposedAt(attempts', b)] = ex
  BY <1>1
<1>. HIDE DEF st, ex
<1>4. ASSUME Moved(b, {"absent"}, "queued"), ExposedAt(attempts', b) = ExposedAt(attempts, b)
      PROVE  Queue!QueueNext
  <2>1. Queue!Enqueue(b) BY <1>2, <1>3, <1>4 DEF Queue!Enqueue, ex
  <2>. QED BY <2>1 DEF Queue!QueueNext
<1>5. ASSUME Moved(b, {"absent", "queued"}, "inflight"),
             \A c \in Batch : ThreadOf[c] = ThreadOf[b] => StatusAt(batches, attempts, c) # "inflight",
             ~ExposedAt(attempts, b), ExposedAt(attempts', b) = TRUE
      PROVE  Queue!QueueNext
  <2>1. Queue!Idle(ThreadOf[b]) BY <1>1, <1>5 DEF Queue!Idle, st
  <2>2. Queue!Expose(b, TRUE) BY <1>2, <1>5 DEF Queue!Expose, ex
  <2>3. ~ex[b] BY <1>1, <1>5
  <2>4. Queue!Send(b) BY <1>2, <1>5, <2>1, <2>2, <2>3 DEF Queue!Send, ex
  <2>. QED BY <2>4 DEF Queue!QueueNext
<1>6. ASSUME NEW to \in {"queued", "manual"}, Moved(b, {"inflight"}, to),
             ExposedAt(attempts', b) = FALSE
      PROVE  Queue!QueueNext
  <2>1. Queue!Expose(b, FALSE) BY <1>2, <1>6 DEF Queue!Expose, ex
  <2>2. Queue!Refused(b) BY <1>2, <1>6, <2>1 DEF Queue!Refused
  <2>. QED BY <2>2 DEF Queue!QueueNext
<1>7. ASSUME Moved(b, {"inflight", "manual"}, "delivered"), ExposedAt(attempts, b),
             ExposedAt(attempts', b) = ExposedAt(attempts, b)
      PROVE  Queue!QueueNext
  <2>1. Queue!Confirm(b) BY <1>1, <1>2, <1>3, <1>7 DEF Queue!Confirm, ex
  <2>. QED BY <2>1 DEF Queue!QueueNext
<1>8. ASSUME Moved(b, {"queued", "inflight", "manual"}, "dropped"),
             ExposedAt(attempts', b) = ExposedAt(attempts, b)
      PROVE  Queue!QueueNext
  <2>1. Queue!Discard(b) BY <1>2, <1>3, <1>8 DEF Queue!Discard, ex
  <2>. QED BY <2>1 DEF Queue!QueueNext
<1>. QED BY <1>4, <1>5, <1>6, <1>7, <1>8

-----------------------------------------------------------------------------
(* Steps that hand batches over, or move nothing. *)

(* The rows of the batches keep their state, none becomes automatic. *)
RowsKept(bs, bs2) == \A b \in Batch :
  /\ bs2[b].state = bs[b].state /\ bs2[b].close_reason = bs[b].close_reason
  /\ bs2[b].policy = bs[b].policy \/ bs2[b].policy # "automatic"

(* Handing over and charging the budget keep the rows. *)
LEMMA RowsKeptBy ==
  ASSUME NEW bs \in BatchTable
  PROVE  /\ \A B, at : RowsKept(bs, Manualized(bs, B, at))
         /\ \A b : RowsKept(bs, Counted(bs, b))
<1>1. ASSUME NEW B, NEW at, NEW b \in Batch
      PROVE  /\ Manualized(bs, B, at)[b].state = bs[b].state
             /\ Manualized(bs, B, at)[b].close_reason = bs[b].close_reason
             /\ \/ Manualized(bs, B, at)[b].policy = bs[b].policy
                \/ Manualized(bs, B, at)[b].policy # "automatic"
  BY DEF Manualized, BatchTable, BatchRecord
<1>2. ASSUME NEW b, NEW c \in Batch
      PROVE  /\ Counted(bs, b)[c].state = bs[c].state
             /\ Counted(bs, b)[c].close_reason = bs[c].close_reason
             /\ Counted(bs, b)[c].policy = bs[c].policy
  BY DEF Counted, BatchTable, BatchRecord
<1>. QED BY <1>1, <1>2 DEF RowsKept

(* If every batch is at most handed over, the queue maintains itself. *)
LEMMA AllHandedOver ==
  ASSUME TypeOK, TypeOK',
         \A b \in Batch : HandsOver(batches, batches', attempts, attempts', b)
  PROVE  Queue!QueueNext
<1>1. batches \in BatchTable BY DEF TypeOK, BatchTable
<1>2. ASSUME NEW b \in Batch
      PROVE  /\ ExposedAt(attempts', b) = ExposedAt(attempts, b)
             /\ \/ StatusAt(batches', attempts', b) = StatusAt(batches, attempts, b)
                \/ /\ StatusAt(batches, attempts, b) \in {"queued", "inflight"}
                   /\ StatusAt(batches', attempts', b) = "manual"
  BY <1>1, HandedOver
<1>. QED BY <1>2, Maintained

(* Nothing changes in the attempts. *)
LEMMA NothingEnds ==
  ASSUME TypeOK, TypeOK', RowsKept(batches, batches'), attempts' = attempts
  PROVE  Queue!QueueNext
<1>1. \A b \in Batch : HandsOver(batches, batches', attempts, attempts', b)
  BY DEF HandsOver, StandsOrEnds, RowsKept
<1>. QED BY <1>1, AllHandedOver

(* One attempt a changes: in flight it stays so, or its batch is handed over. *)
LEMMA OneHandsOver ==
  ASSUME TypeOK, TypeOK', RowsKept(batches, batches'), NEW a \in Attempt, NEW r,
         attempts' = [attempts EXCEPT ![a] = r],
         r.batch = attempts[a].batch, attempts[a].state # "absent", r.state # "absent",
         r.state \in ActiveStates => attempts[a].state \in ActiveStates,
         r.rpc = "rejected_before_accept" <=> attempts[a].rpc = "rejected_before_accept",
         attempts[a].state \in ActiveStates =>
           r.state \in ActiveStates \/ batches'[attempts[a].batch].policy # "automatic"
  PROVE  Queue!QueueNext
<1>1. attempts'[a] = r /\ \A c \in Attempt \ {a} : attempts'[c] = attempts[c] BY DEF TypeOK
<1>2. ASSUME NEW b \in Batch PROVE HandsOver(batches, batches', attempts, attempts', b)
  <2>1. ASSUME NEW c \in Attempt
        PROVE  StandsOrEnds(attempts[c], attempts'[c], batches'[b], b)
    BY <1>1 DEF StandsOrEnds
  <2>. QED BY <2>1 DEF HandsOver, RowsKept
<1>. QED BY <1>2, AllHandedOver

(* The turn of a is given up. *)
LEMMA GiveUpMoves ==
  ASSUME Inv, TypeOK', NEW a \in Attempt, NEW r, NEW at,
         GiveUp(a, r, at) \/ GiveUpAppServer(a, r, at),
         attempts[a].state # "absent", IsOpen(attempts[a].batch),
         r.batch = attempts[a].batch, r.state = "abandoned",
         r.rpc = "rejected_before_accept" <=> attempts[a].rpc = "rejected_before_accept"
  PROVE  Queue!QueueNext
<1>1. attempts' = [attempts EXCEPT ![a] = r] /\ batches' = Manualized(batches, {attempts[a].batch}, at)
  BY DEF GiveUp, GiveUpAppServer
<1>2. RowsKept(batches, batches') BY <1>1, RowsKeptBy DEF Inv, TypeOK, BatchTable
<1>3. attempts[a].batch \in Batch BY DEF Inv, TableInv, Linked
<1>4. batches'[attempts[a].batch].policy # "automatic"
  BY <1>1, <1>3, ManualizedOne DEF Inv, TypeOK, IsOpen
<1>5. r.state \notin ActiveStates /\ r.state # "absent" BY DEF ActiveStates
<1>. QED BY <1>1, <1>2, <1>4, <1>5, OneHandsOver DEF Inv

-----------------------------------------------------------------------------
(* Steps that move one batch. *)

(* Codex refused the send of a: nothing else of its batch is in flight or    *)
(* exposed.                                                                  *)
LEMMA RefusedMoves ==
  ASSUME Inv, TypeOK', NEW a \in Attempt, NEW r,
         attempts[a].state \in ActiveStates, attempts[a].rpc # "rejected_before_accept",
         attempts' = [attempts EXCEPT ![a] = r],
         r.batch = attempts[a].batch, r.state = "abandoned", r.rpc = "rejected_before_accept",
         RowsKept(batches, batches'),
         \A c \in Batch \ {attempts[a].batch} : batches'[c] = batches[c]
  PROVE  Queue!QueueNext
<1>. DEFINE b == attempts[a].batch
<1>1. attempts'[a] = r /\ \A c \in Attempt \ {a} : attempts'[c] = attempts[c] BY DEF Inv, TypeOK
<1>2. attempts[a].state # "absent" BY DEF ActiveStates
<1>3. b \in Batch /\ batches[b].state = "open" BY <1>2 DEF Inv, TableInv, Linked, QuietWhenClosed
<1>4. StatusAt(batches, attempts, b) = "inflight" BY <1>3 DEF StatusAt, InFlightAt
<1>5. ~InFlightAt(attempts', b)
  <2>1. ASSUME NEW c \in Attempt, attempts'[c].state \in ActiveStates, attempts'[c].batch = b
        PROVE  FALSE
    <3>1. c # a BY <1>1, <2>1 DEF ActiveStates
    <3>2. attempts[c].state \in ActiveStates /\ attempts[c].batch = b BY <1>1, <2>1, <3>1
    <3>. QED BY <3>1, <3>2 DEF Inv, TableInv, OnePerThread
  <2>. QED BY <2>1 DEF InFlightAt
<1>6. ~ExposedAt(attempts', b)
  <2>1. ASSUME NEW c \in Attempt, attempts'[c].state # "absent", attempts'[c].batch = b,
               attempts'[c].rpc # "rejected_before_accept"
        PROVE  FALSE
    <3>1. c # a BY <1>1, <2>1
    <3>2. attempts'[c] = attempts[c] BY <1>1, <3>1
    <3>. QED BY <1>2, <2>1, <3>1, <3>2 DEF Inv, TableInv, OneExposure
  <2>. QED BY <2>1 DEF ExposedAt
<1>7. StatusAt(batches', attempts', b) \in {"queued", "manual"}
  BY <1>3, <1>5 DEF StatusAt, RowsKept
<1>8. \A c \in Batch \ {b} : SameView(c) BY <1>1, Untouched
<1>9. Moved(b, {"inflight"}, StatusAt(batches', attempts', b)) BY <1>4, <1>8 DEF Moved
<1>. QED BY <1>3, <1>6, <1>7, <1>9, QueueMoves DEF Inv, ExposedAt

(* A new attempt of b, which is queued or enqueued by this step. *)
LEMMA SendMoves ==
  ASSUME Inv, TypeOK', NEW a \in Attempt, NEW b \in Batch, NEW r,
         attempts[a].state = "absent", attempts' = [attempts EXCEPT ![a] = r],
         r.state = "accept_pending", r.batch = b, r.rpc = "pending_acceptance",
         NoActiveOnThread(ThreadOf[b]),
         \/ batches[b].state = "absent"
         \/ batches[b].state = "open" /\ batches[b].policy = "automatic",
         batches'[b].state = "open",
         \A c \in Batch \ {b} : batches'[c] = batches[c]
  PROVE  Queue!QueueNext
<1>1. attempts'[a] = r /\ \A c \in Attempt \ {a} : attempts'[c] = attempts[c] BY DEF Inv, TypeOK
<1>2. \A c \in Batch \ {b} : SameView(c) BY <1>1, Untouched
<1>3. \A c \in Attempt : attempts[c].state \in ActiveStates =>
        /\ attempts[c].batch \in Batch /\ batches[attempts[c].batch].state = "open"
        /\ ThreadOf[attempts[c].batch] # ThreadOf[b]
  <2>1. ASSUME NEW c \in Attempt, attempts[c].state \in ActiveStates
        PROVE  /\ attempts[c].batch \in Batch /\ batches[attempts[c].batch].state = "open"
    <3>1. attempts[c].state # "absent" BY <2>1 DEF ActiveStates
    <3>. QED BY <2>1, <3>1 DEF Inv, TableInv, Linked, QuietWhenClosed
  <2>. QED BY <2>1 DEF NoActiveOnThread, Active, IsOpen
<1>4. ASSUME NEW c \in Batch, ThreadOf[c] = ThreadOf[b]
      PROVE  StatusAt(batches, attempts, c) # "inflight"
  <2>1. ~InFlightAt(attempts, c) BY <1>3, <1>4 DEF InFlightAt
  <2>. QED BY <2>1 DEF StatusAt
<1>5. StatusAt(batches, attempts, b) \in {"absent", "queued"}
  <2>1. ~InFlightAt(attempts, b) BY <1>3 DEF InFlightAt
  <2>. QED BY <2>1 DEF StatusAt
<1>6. ~ExposedAt(attempts, b)
  <2>1. ASSUME NEW c \in Attempt, attempts[c].state # "absent", attempts[c].batch = b
        PROVE  attempts[c].rpc = "rejected_before_accept"
    <3>1. batches[b].state = "open" /\ batches[b].policy = "automatic"
      BY <2>1 DEF Inv, TableInv, Linked
    <3>2. attempts[c].state \in {"absent", "accept_pending", "cooldown", "abandoned", "closed"}
      BY DEF Inv, TypeOK, AttemptRecord
    <3>3. attempts[c].state \notin ActiveStates BY <1>3, <2>1
    <3>4. attempts[c].state # "closed" BY <2>1, <3>1 DEF Inv, TableInv, ClosedTogether
    <3>5. attempts[c].state = "abandoned" BY <2>1, <3>2, <3>3, <3>4 DEF ActiveStates
    <3>. QED BY <2>1, <3>1, <3>5 DEF Inv, TableInv, UnknownIsManual
  <2>. QED BY <2>1 DEF ExposedAt
<1>7. StatusAt(batches', attempts', b) = "inflight" BY <1>1 DEF StatusAt, InFlightAt, ActiveStates
<1>8. ExposedAt(attempts', b) = TRUE BY <1>1 DEF ExposedAt
<1>9. Moved(b, {"absent", "queued"}, "inflight") BY <1>2, <1>5, <1>7 DEF Moved
<1>. QED BY <1>4, <1>6, <1>8, <1>9, QueueMoves DEF Inv

(* A new batch that waits. *)
LEMMA EnqueueMoves ==
  ASSUME Inv, TypeOK', NEW b \in Batch, batches[b].state = "absent",
         batches'[b].state = "open", batches'[b].policy = "automatic",
         \A c \in Batch \ {b} : batches'[c] = batches[c],
         attempts' = attempts
  PROVE  Queue!QueueNext
<1>1. \A c \in Batch \ {b} : SameView(c) BY Untouched
<1>2. ~InFlightAt(attempts, b) BY DEF InFlightAt, ActiveStates, Inv, TableInv, Linked
<1>3. StatusAt(batches, attempts, b) = "absent" BY DEF StatusAt
<1>4. StatusAt(batches', attempts', b) = "queued" BY <1>2 DEF StatusAt
<1>5. Moved(b, {"absent"}, "queued") BY <1>1, <1>3, <1>4 DEF Moved
<1>. QED BY <1>5, QueueMoves DEF Inv

(* close_batch_tx on the tables: b is closed for a reason, its attempts in   *)
(* flight end, their batch and the answers to their sends stay.              *)
ClosesOne(b, reason) ==
  /\ batches'[b].state = "closed" /\ batches'[b].close_reason = reason
  /\ \A c \in Batch \ {b} : batches'[c] = batches[c]
  /\ \A a \in Attempt :
       \/ attempts'[a] = attempts[a]
       \/ /\ attempts[a].batch = b /\ attempts'[a].batch = b
          /\ attempts'[a].rpc = attempts[a].rpc
          /\ attempts[a].state # "absent" /\ attempts'[a].state # "absent"

(* An open batch is in one of three places. *)
LEMMA OpenIs ==
  ASSUME NEW b \in Batch, IsOpen(b)
  PROVE  /\ StatusAt(batches, attempts, b) \in {"queued", "inflight", "manual"}
         /\ InFlightAt(attempts, b) => StatusAt(batches, attempts, b) = "inflight"
         /\ ~IsAutomatic(b) => StatusAt(batches, attempts, b) \in {"inflight", "manual"}
BY DEF IsOpen, IsAutomatic, StatusAt

(* What closing leaves as it was. *)
LEMMA ClosesOneViews ==
  ASSUME NEW b \in Batch, NEW reason, ClosesOne(b, reason)
  PROVE  /\ ExposedAt(attempts', b) = ExposedAt(attempts, b)
         /\ StatusAt(batches', attempts', b) = IF reason = "delivered" THEN "delivered" ELSE "dropped"
         /\ \A c \in Batch \ {b} : SameView(c)
<1>1. ExposedAt(attempts', b) <=> ExposedAt(attempts, b) BY DEF ClosesOne, ExposedAt
<1>2. \A c \in Batch \ {b} : SameView(c) BY Untouched DEF ClosesOne
<1>. QED BY <1>1, <1>2 DEF ClosesOne, StatusAt, ExposedAt

(* The operator closes an open batch. *)
LEMMA DiscardMoves ==
  ASSUME TypeOK, TypeOK', NEW b \in Batch, IsOpen(b), NEW reason, reason # "delivered",
         ClosesOne(b, reason)
  PROVE  Queue!QueueNext
<1>1. Moved(b, {"queued", "inflight", "manual"}, "dropped")
  BY OpenIs, ClosesOneViews DEF Moved
<1>. QED BY <1>1, ClosesOneViews, QueueMoves

(* The turn of a, which Codex accepted, is seen to have completed. *)
LEMMA ConfirmMoves ==
  ASSUME Inv, TypeOK', NEW a \in Attempt, IsOpen(attempts[a].batch),
         attempts[a].state \in {"cooldown", "abandoned"}, attempts[a].rpc = "accepted",
         ClosesOne(attempts[a].batch, "delivered")
  PROVE  Queue!QueueNext
<1>. DEFINE b == attempts[a].batch
<1>1. b \in Batch BY DEF Inv, TableInv, Linked
<1>2. StatusAt(batches, attempts, b) \in {"inflight", "manual"}
  <2>1. CASE attempts[a].state = "cooldown"
    <3>1. InFlightAt(attempts, b) BY <2>1 DEF InFlightAt, ActiveStates
    <3>. QED BY <1>1, <3>1, OpenIs
  <2>2. CASE attempts[a].state = "abandoned"
    <3>1. ~IsAutomatic(b) BY <2>2 DEF Inv, TableInv, UnknownIsManual, IsOpen, IsAutomatic
    <3>. QED BY <1>1, <3>1, OpenIs
  <2>. QED BY <2>1, <2>2
<1>3. ExposedAt(attempts, b) BY DEF ExposedAt
<1>4. Moved(b, {"inflight", "manual"}, "delivered") BY <1>1, <1>2, ClosesOneViews DEF Moved
<1>. QED BY <1>1, <1>3, <1>4, ClosesOneViews, QueueMoves DEF Inv

(* AttemptsClosedWith leaves what it does not close. *)
LEMMA AttemptsClosedOthers ==
  ASSUME NEW as \in AttemptTable, NEW B, NEW a \in Attempt
  PROVE  \/ AttemptsClosedWith(as, B)[a] = as[a]
         \/ as[a].batch \in B /\ as[a].state \in ActiveStates
BY DEF AttemptsClosedWith

(* close_batch_tx alone, ... *)
LEMMA CloseBatchClosesOne ==
  ASSUME TypeOK, NEW b \in Batch, NEW reason, CloseBatch(b, reason)
  PROVE  ClosesOne(b, reason)
<1>. USE DEF AttemptTable, BatchTable
<1>1. /\ batches'[b].state = "closed" /\ batches'[b].close_reason = reason
      /\ \A c \in Batch \ {b} : batches'[c] = batches[c]
  BY DEF CloseBatch, Closed, TypeOK, BatchRecord
<1>2. ASSUME NEW a \in Attempt, attempts'[a] # attempts[a]
      PROVE  /\ attempts[a].batch = b /\ attempts'[a].batch = b
             /\ attempts'[a].rpc = attempts[a].rpc
             /\ attempts[a].state # "absent" /\ attempts'[a].state # "absent"
  <2>1. attempts' = AttemptsClosedWith(attempts, {b}) BY DEF CloseBatch
  <2>2. attempts[a].batch \in {b} /\ attempts[a].state \in ActiveStates
    BY <1>2, <2>1, AttemptsClosedOthers DEF TypeOK
  <2>3. /\ attempts'[a].batch = attempts[a].batch /\ attempts'[a].rpc = attempts[a].rpc
        /\ attempts'[a].state = "closed"
    BY <2>1, <2>2, AttemptsClosedFacts DEF TypeOK
  <2>. QED BY <2>2, <2>3 DEF ActiveStates
<1>. QED BY <1>1, <1>2 DEF ClosesOne

(* ... and when a turn completed. *)
LEMMA DeliverClosesOne ==
  ASSUME TypeOK, NEW a \in Attempt, Deliver(a), attempts[a].batch \in Batch,
         attempts[a].state # "absent"
  PROVE  ClosesOne(attempts[a].batch, "delivered")
<1>. DEFINE b == attempts[a].batch
            r == [attempts[a] EXCEPT !.state = "cooldown", !.obs = "completed",
                                     !.event = "turn_completed"]
            as == [attempts EXCEPT ![a] = r]
<1>1. /\ batches'[b].state = "closed" /\ batches'[b].close_reason = "delivered"
      /\ \A c \in Batch \ {b} : batches'[c] = batches[c]
  BY DEF Deliver, Closed, TypeOK, BatchRecord
<1>2. attempts' = AttemptsClosedWith(as, {b}) BY DEF Deliver
<1>3. /\ r \in AttemptRecord /\ r.state = "cooldown"
      /\ r.batch = attempts[a].batch /\ r.rpc = attempts[a].rpc
  <2>1. attempts[a] \in AttemptRecord BY DEF TypeOK
  <2>. QED BY <2>1 DEF AttemptRecord
<1>. HIDE DEF r
<1>4. /\ as \in AttemptTable
      /\ \A c \in Attempt : as[c] = IF c = a THEN r ELSE attempts[c]
  BY <1>3 DEF TypeOK, AttemptTable
<1>. HIDE DEF as
<1>5. ASSUME NEW c \in Attempt, attempts'[c] # attempts[c]
      PROVE  /\ attempts[c].batch = b /\ attempts'[c].batch = b
             /\ attempts'[c].rpc = attempts[c].rpc
             /\ attempts[c].state # "absent" /\ attempts'[c].state # "absent"
  <2>1. /\ attempts'[c].batch = as[c].batch /\ attempts'[c].rpc = as[c].rpc
        /\ attempts'[c].state =
              IF as[c].batch \in {b} /\ as[c].state \in ActiveStates THEN "closed" ELSE as[c].state
    BY <1>2, <1>4, AttemptsClosedFacts
  <2>2. CASE c = a BY <1>3, <1>4, <2>1, <2>2 DEF ActiveStates
  <2>3. CASE c # a
    <3>1. as[c] = attempts[c] BY <1>4, <2>3
    <3>2. attempts[c].batch \in {b} /\ attempts[c].state \in ActiveStates
      BY <1>2, <1>4, <1>5, <3>1, AttemptsClosedOthers
    <3>. QED BY <2>1, <3>1, <3>2 DEF ActiveStates
  <2>. QED BY <2>2, <2>3
<1>. QED BY <1>1, <1>5 DEF ClosesOne

-----------------------------------------------------------------------------
(* Every action is such a step. *)

(* What the updates that end an attempt make of the answer to its send. *)
LEMMA RpcFacts ==
  ASSUME NEW r \in AttemptRecord
  PROVE  /\ AbandonedUnknown(r).rpc = "unknown"
         /\ r.rpc # "pending_acceptance" => TakenOver(r).rpc = r.rpc
         /\ r.rpc = "pending_acceptance" =>
              TakenOver(r).rpc \in {"unknown", "rejected_before_accept"}
BY DEF AbandonedUnknown, TakenOver, AttemptRecord

(* The plugin service hands a batch over: at most one of its attempts is in  *)
(* flight, and a CLI send among them counts as refused.                      *)
LEMMA ManualizePluginMoves ==
  ASSUME Inv, TypeOK', NEW b \in Batch, ManualizePlugin(b) PROVE Queue!QueueNext
<1>1. PICK at : batches' = Manualized(batches, {b}, at) BY DEF ManualizePlugin
<1>2. attempts' = [a \in Attempt |-> IF a \in ActiveOn(b) THEN TakenOver(attempts[a]) ELSE attempts[a]]
  BY DEF ManualizePlugin
<1>3. RowsKept(batches, batches') /\ \A c \in Batch \ {b} : batches'[c] = batches[c]
  <2>1. batches \in BatchTable BY DEF Inv, TypeOK, BatchTable
  <2>2. RowsKept(batches, Manualized(batches, {b}, at)) BY <2>1, RowsKeptBy
  <2>3. \A c \in Batch \ {b} : Manualized(batches, {b}, at)[c] = batches[c]
    BY DEF Manualized
  <2>. QED BY <1>1, <2>2, <2>3
<1>4. batches'[b].policy # "automatic"
  BY <1>1, ManualizedOne DEF ManualizePlugin, IsOpen, Inv, TypeOK
<1>5. \A a \in Attempt : attempts[a] \in AttemptRecord BY DEF Inv, TypeOK
<1>6. \A a \in ActiveOn(b) : a \in Attempt /\ attempts[a].state \in ActiveStates /\ attempts[a].batch = b
  BY DEF ActiveOn, OnBatch, Active
<1>7. CASE \E a \in ActiveOn(b) : /\ attempts[a].rpc # "rejected_before_accept"
                                  /\ TakenOver(attempts[a]).rpc = "rejected_before_accept"
  <2>1. PICK a \in ActiveOn(b) : /\ attempts[a].rpc # "rejected_before_accept"
                                 /\ TakenOver(attempts[a]).rpc = "rejected_before_accept"
    BY <1>7
  <2>2. ActiveOn(b) = {a}
    <3>1. ASSUME NEW c \in ActiveOn(b) PROVE c = a
      BY <1>6, <2>1 DEF Inv, TableInv, OnePerThread
    <3>. QED BY <2>1, <3>1
  <2>3. attempts' = [attempts EXCEPT ![a] = TakenOver(attempts[a])]
    BY <1>2, <1>6, <2>2 DEF Inv, TypeOK
  <2>. QED BY <1>3, <1>5, <1>6, <2>1, <2>3, RowFacts, RefusedMoves
<1>8. CASE ~\E a \in ActiveOn(b) : /\ attempts[a].rpc # "rejected_before_accept"
                                   /\ TakenOver(attempts[a]).rpc = "rejected_before_accept"
  <2>1. ASSUME NEW a \in ActiveOn(b)
        PROVE  /\ attempts'[a].batch = attempts[a].batch /\ attempts'[a].state = "abandoned"
               /\ attempts'[a].rpc = "rejected_before_accept" <=>
                    attempts[a].rpc = "rejected_before_accept"
    BY <1>2, <1>5, <1>6, <1>8, RowFacts
  <2>2. \A a \in Attempt \ ActiveOn(b) : attempts'[a] = attempts[a] BY <1>2
  <2>3. ASSUME NEW c \in Batch PROVE HandsOver(batches, batches', attempts, attempts', c)
    <3>1. ASSUME NEW a \in Attempt
          PROVE  StandsOrEnds(attempts[a], attempts'[a], batches'[c], c)
      BY <1>4, <1>6, <2>1, <2>2 DEF ActiveStates, StandsOrEnds
    <3>. QED BY <1>3, <3>1 DEF HandsOver, RowsKept
  <2>. QED BY <2>3, AllHandedOver DEF Inv
<1>. QED BY <1>7, <1>8

(* Enqueuing, closing and handing over. *)
LEMMA QueueActionsMove == Inv /\ TypeOK' /\ QueueNext => Queue!QueueNext
<1>. SUFFICES ASSUME Inv, TypeOK', QueueNext PROVE Queue!QueueNext OBVIOUS
<1>1. PICK b \in Batch : \/ CompleteJob(b) \/ FailJob(b) \/ EnqueuePlugin(b)
                         \/ CloseHead(b) \/ ManualizePlugin(b)
  BY DEF QueueNext
<1>2. ASSUME NEW plugin, NEW detachable, NEW t, NEW max,
             batches' = [batches EXCEPT ![b] = NewBatch(plugin, detachable, t, max)]
      PROVE  /\ batches'[b].state = "open" /\ batches'[b].policy = "automatic"
             /\ \A c \in Batch \ {b} : batches'[c] = batches[c]
  <2>1. /\ batches'[b] = NewBatch(plugin, detachable, t, max)
        /\ \A c \in Batch \ {b} : batches'[c] = batches[c]
    BY <1>2 DEF Inv, TypeOK
  <2>. QED BY <2>1 DEF NewBatch
<1>3. ASSUME NEW at, NEW detachable, EnqueueJobBatch(b, detachable, at) PROVE Queue!QueueNext
  <2>1. PICK max \in Budgets : batches' = [batches EXCEPT ![b] = NewBatch(FALSE, detachable, at, max)]
    BY <1>3 DEF EnqueueJobBatch
  <2>. QED BY <1>2, <1>3, <2>1, EnqueueMoves DEF EnqueueJobBatch
<1>4. CASE CompleteJob(b) BY <1>3, <1>4 DEF CompleteJob
<1>5. CASE FailJob(b) BY <1>3, <1>5 DEF FailJob
<1>6. CASE EnqueuePlugin(b)
  <2>1. PICK t, max : batches' = [batches EXCEPT ![b] = NewBatch(TRUE, FALSE, t, max)]
    BY <1>6, Zenon DEF EnqueuePlugin
  <2>2. batches[b].state = "absent" BY <1>6 DEF EnqueuePlugin
  <2>3. CASE attempts' = attempts BY <1>2, <2>1, <2>2, <2>3, EnqueueMoves
  <2>4. ASSUME NoActiveOnThread(ThreadOf[b]), NEW at, NEW a \in Attempt,
               attempts[a].state = "absent",
               attempts' = [attempts EXCEPT ![a] = NewAppServerAttempt(b, 1, at)]
        PROVE  Queue!QueueNext
    <3>1. LET r == NewAppServerAttempt(b, 1, at)
          IN  r.state = "accept_pending" /\ r.batch = b /\ r.rpc = "pending_acceptance"
      BY DEF NewAppServerAttempt
    <3>. QED BY <1>2, <2>1, <2>2, <2>4, <3>1, SendMoves
  <2>5. \/ attempts' = attempts
        \/ /\ NoActiveOnThread(ThreadOf[b])
           /\ \E at : \E a \in Attempt :
                /\ attempts[a].state = "absent"
                /\ attempts' = [attempts EXCEPT ![a] = NewAppServerAttempt(b, 1, at)]
    BY <1>6, Zenon DEF EnqueuePlugin
  <2>. QED BY <2>3, <2>4, <2>5
<1>7. CASE CloseHead(b)
  <2>1. IsOpen(b) /\ CloseBatch(b, "operator") BY <1>7 DEF CloseHead, IsHead
  <2>. QED BY <2>1, CloseBatchClosesOne, DiscardMoves DEF Inv
<1>8. CASE ManualizePlugin(b) BY <1>8, ManualizePluginMoves
<1>. QED BY <1>1, <1>4, <1>5, <1>6, <1>7, <1>8

(* A session that loses its observations hands their batches over. *)
LEMMA LoseObservationsMoves ==
  ASSUME Inv, TypeOK', NEW s, NEW at, LoseObservations(s, at) PROVE Queue!QueueNext
<1>. DEFINE D == ObservedUnder(s)
<1>1. batches' = Manualized(batches, {attempts[a].batch : a \in D}, at) BY DEF LoseObservations
<1>2. RowsKept(batches, batches') BY <1>1, RowsKeptBy DEF Inv, TypeOK, BatchTable
<1>3. \A a \in D : /\ a \in Attempt /\ attempts[a].state # "absent"
                   /\ batches[attempts[a].batch].state = "open"
  BY DEF ObservedUnder, IsOpen
<1>4. \A a \in Attempt : attempts[a] \in AttemptRecord BY DEF Inv, TypeOK
<1>5. \A a \in Attempt : attempts'[a] = IF a \in D THEN Abandoned(attempts[a], "abandoned") ELSE attempts[a]
  BY DEF LoseObservations
<1>. HIDE DEF D
<1>6. ASSUME NEW a \in D PROVE batches'[attempts[a].batch].policy # "automatic"
  <2>1. attempts[a].batch \in Batch BY <1>3 DEF Inv, TableInv, Linked
  <2>2. attempts[a].batch \in {attempts[c].batch : c \in D} OBVIOUS
  <2>. QED BY <1>1, <1>3, <2>1, <2>2, ManualizedFacts DEF Inv, TypeOK
<1>7. \A a \in D : /\ attempts'[a].batch = attempts[a].batch /\ attempts'[a].state = "abandoned"
                   /\ attempts'[a].rpc = attempts[a].rpc
  BY <1>3, <1>4, <1>5, AbandonedFacts
<1>8. ASSUME NEW b \in Batch PROVE HandsOver(batches, batches', attempts, attempts', b)
  <2>1. ASSUME NEW a \in Attempt
        PROVE  StandsOrEnds(attempts[a], attempts'[a], batches'[b], b)
    BY <1>3, <1>5, <1>6, <1>7 DEF ActiveStates, StandsOrEnds
  <2>. QED BY <1>2, <2>1 DEF HandsOver, RowsKept
<1>. QED BY <1>8, AllHandedOver DEF Inv

(* The session operations. *)
LEMMA SessionActionsMove == Inv /\ TypeOK' /\ SessionNext => Queue!QueueNext
<1>. SUFFICES ASSUME Inv, TypeOK', SessionNext PROVE Queue!QueueNext OBVIOUS
<1>1. \/ batches' = batches /\ attempts' = attempts
      \/ \E s, at : LoseObservations(s, at)
  BY Zenon DEF SessionNext, CreateSession, Reattach, ReplaceSession, RetireSession, NoteActivity,
               NoteCapabilities, NotePermissions, InvalidateProof, InvalidateCurrentProof
<1>2. batches' = batches => RowsKept(batches, batches') BY DEF RowsKept
<1>. QED BY <1>1, <1>2, NothingEnds, LoseObservationsMoves DEF Inv

(* Every branch of the two observers. *)
LEMMA ObserveMoves ==
  ASSUME Inv, TypeOK', NEW a \in Attempt, NEW event,
         ObserveCli(a, event) \/ ObserveAppServer(a, event)
  PROVE  Queue!QueueNext
<1>1. attempts[a] \in AttemptRecord BY DEF Inv, TypeOK
<1>2. attempts[a].rpc = "accepted" BY DEF ObserveCli, ObserveAppServer
<1>3. ASSUME attempts' = [attempts EXCEPT ![a].event = event], batches' = batches,
             attempts[a].state # "absent"
      PROVE  Queue!QueueNext
  <2>1. LET r == [attempts[a] EXCEPT !.event = event]
        IN  /\ r.batch = attempts[a].batch /\ r.state = attempts[a].state
            /\ r.rpc = attempts[a].rpc
            /\ attempts' = [attempts EXCEPT ![a] = r]
    BY <1>1, <1>3 DEF AttemptRecord
  <2>2. RowsKept(batches, batches') BY <1>3 DEF RowsKept
  <2>. QED BY <1>3, <2>1, <2>2, OneHandsOver DEF Inv
<1>4. ASSUME NEW adapter, IsTracking(a, adapter), HoldsHead(a), NEW obs, NEW at,
             LET r == [Abandoned(attempts[a], obs) EXCEPT !.event = event]
             IN  GiveUp(a, r, at) \/ GiveUpAppServer(a, r, at)
      PROVE  Queue!QueueNext
  <2>. DEFINE r == [Abandoned(attempts[a], obs) EXCEPT !.event = event]
  <2>1. r.batch = attempts[a].batch /\ r.state = "abandoned" /\ r.rpc = attempts[a].rpc
    BY <1>1, AbandonedFacts
  <2>2. GiveUp(a, r, at) \/ GiveUpAppServer(a, r, at) BY <1>4
  <2>3. attempts[a].state # "absent" BY <1>4 DEF IsTracking
  <2>4. IsOpen(attempts[a].batch) BY <1>4 DEF HoldsHead, IsHead
  <2>. HIDE DEF r
  <2>. QED BY <2>1, <2>2, <2>3, <2>4, GiveUpMoves
<1>5. ASSUME attempts[a].state \in {"cooldown", "abandoned"}, HoldsHead(a), Deliver(a)
      PROVE  Queue!QueueNext
  <2>1. attempts[a].state # "absent" /\ IsOpen(attempts[a].batch) BY <1>5 DEF HoldsHead, IsHead
  <2>2. attempts[a].batch \in Batch BY <2>1 DEF Inv, TableInv, Linked
  <2>3. ClosesOne(attempts[a].batch, "delivered") BY <1>5, <2>1, <2>2, DeliverClosesOne DEF Inv
  <2>. QED BY <1>2, <1>5, <2>1, <2>3, ConfirmMoves
<1>6. ASSUME NEW at, ObserveDelayed(a, event, at) PROVE Queue!QueueNext
  BY <1>5, <1>6 DEF ObserveDelayed, CompletesDelayed, AwaitsLateEvidence
<1>7. ASSUME NEW at, ObserveLate(a, event, at) PROVE Queue!QueueNext
  BY <1>3, <1>7 DEF ObserveLate, AwaitsLateEvidence
<1>8. ASSUME NEW at, ObserveAfterLoss(a, event, at) PROVE Queue!QueueNext
  BY <1>4, <1>8 DEF ObserveAfterLoss
<1>9. ASSUME NEW at, ObserveAfterDeadline(a, event, at) PROVE Queue!QueueNext
  BY <1>4, <1>9 DEF ObserveAfterDeadline
<1>10. ASSUME NEW at, ObserveInTime(a, event, at) PROVE Queue!QueueNext
  BY <1>3, <1>4, <1>5, <1>10 DEF ObserveInTime, IsTracking
<1>11. ASSUME ObserveAppServerLate(a, event) PROVE Queue!QueueNext
  BY <1>3, <1>11 DEF ObserveAppServerLate, AwaitsLateEvidence
<1>12. ASSUME NEW at, ObserveAppServerAfterDeadline(a, event, at) PROVE Queue!QueueNext
  BY <1>4, <1>12 DEF ObserveAppServerAfterDeadline
<1>13. ASSUME NEW at, ObserveAppServerInTime(a, event, at) PROVE Queue!QueueNext
  BY <1>3, <1>4, <1>5, <1>13 DEF ObserveAppServerInTime, IsTracking
<1>. QED BY <1>6, <1>7, <1>8, <1>9, <1>10, <1>11, <1>12, <1>13, Zenon DEF ObserveCli, ObserveAppServer

(* A refused send, with the verdicts of either adapter. *)
LEMMA RejectMoves ==
  ASSUME Inv, TypeOK', NEW a \in Attempt, NEW adapter, IsAcceptPending(a, adapter),
         attempts' = [attempts EXCEPT ![a] = Rejected(attempts[a])],
         \/ batches' = batches
         \/ \E at : batches' = Manualized(batches, {attempts[a].batch}, at)
         \/ batches' = Counted(batches, attempts[a].batch)
         \/ \E at : batches' = Manualized(Counted(batches, attempts[a].batch), {attempts[a].batch}, at)
  PROVE  Queue!QueueNext
<1>. DEFINE b == attempts[a].batch
<1>1. batches \in BatchTable /\ Counted(batches, b) \in BatchTable
  BY CountedType DEF Inv, TypeOK, BatchTable
<1>2. /\ RowsKept(batches, Counted(batches, b))
      /\ \A c \in Batch \ {b} : Counted(batches, b)[c] = batches[c]
  <2>1. \A c \in Batch \ {b} : Counted(batches, b)[c] = batches[c] BY DEF Counted, Inv, TypeOK
  <2>. QED BY <1>1, <2>1, RowsKeptBy
<1>3. ASSUME NEW bs \in BatchTable, NEW at
      PROVE  /\ RowsKept(bs, Manualized(bs, {b}, at))
             /\ \A c \in Batch \ {b} : Manualized(bs, {b}, at)[c] = bs[c]
  <2>1. \A c \in Batch \ {b} : Manualized(bs, {b}, at)[c] = bs[c] BY DEF Manualized
  <2>. QED BY <2>1, RowsKeptBy
<1>4. RowsKept(batches, batches') /\ \A c \in Batch \ {b} : batches'[c] = batches[c]
  <2>1. CASE batches' = batches BY <2>1 DEF RowsKept
  <2>2. ASSUME NEW at, batches' = Manualized(batches, {b}, at)
        PROVE  RowsKept(batches, batches') /\ \A c \in Batch \ {b} : batches'[c] = batches[c]
    BY <1>1, <1>3, <2>2
  <2>3. CASE batches' = Counted(batches, b) BY <1>2, <2>3
  <2>4. ASSUME NEW at, batches' = Manualized(Counted(batches, b), {b}, at)
        PROVE  RowsKept(batches, batches') /\ \A c \in Batch \ {b} : batches'[c] = batches[c]
    <3>1. /\ RowsKept(Counted(batches, b), batches')
          /\ \A c \in Batch \ {b} : batches'[c] = Counted(batches, b)[c]
      BY <1>1, <1>3, <2>4
    <3>. QED BY <1>2, <3>1 DEF RowsKept
  <2>. QED BY <2>1, <2>2, <2>3, <2>4
<1>5. /\ Rejected(attempts[a]).batch = attempts[a].batch
      /\ Rejected(attempts[a]).state = "abandoned"
      /\ Rejected(attempts[a]).rpc = "rejected_before_accept"
  BY RowFacts DEF Inv, TypeOK
<1>6. attempts[a].state \in ActiveStates /\ attempts[a].rpc # "rejected_before_accept"
  BY DEF IsAcceptPending, ActiveStates
<1>. QED BY <1>4, <1>5, <1>6, RefusedMoves

(* An accepted send stays in flight. *)
LEMMA AcceptMoves ==
  ASSUME Inv, TypeOK', NEW a \in Attempt, NEW adapter, IsAcceptPending(a, adapter),
         NEW at, batches' = Counted(batches, attempts[a].batch),
         attempts' = [attempts EXCEPT ![a] = [@ EXCEPT !.state = "cooldown", !.rpc = "accepted",
                        !.obs = "tracking", !.deadline = at + ObservationWindow]]
  PROVE  Queue!QueueNext
<1>. DEFINE r == [attempts[a] EXCEPT !.state = "cooldown", !.rpc = "accepted",
                    !.obs = "tracking", !.deadline = at + ObservationWindow]
<1>1. r.batch = attempts[a].batch /\ r.state = "cooldown" /\ r.rpc = "accepted"
  BY DEF Inv, TypeOK, AttemptRecord
<1>2. attempts' = [attempts EXCEPT ![a] = r] OBVIOUS
<1>3. RowsKept(batches, batches') BY RowsKeptBy DEF Inv, TypeOK, BatchTable
<1>4. attempts[a].state = "accept_pending" /\ attempts[a].rpc = "pending_acceptance"
  BY DEF IsAcceptPending
<1>. HIDE DEF r
<1>. QED BY <1>1, <1>2, <1>3, <1>4, OneHandsOver DEF Inv, ActiveStates

(* A send on a queued batch. *)
LEMMA BeginMoves ==
  ASSUME Inv, TypeOK', NEW a \in Attempt, NEW b \in Batch, NEW r,
         attempts[a].state = "absent", IsHead(b), IsAutomatic(b), NoActiveOnThread(ThreadOf[b]),
         attempts' = [attempts EXCEPT ![a] = r],
         r.state = "accept_pending", r.batch = b, r.rpc = "pending_acceptance",
         batches' = batches
  PROVE  Queue!QueueNext
BY SendMoves DEF IsHead, IsOpen, IsAutomatic

(* A repeated rejection only hands its batch over. *)
LEMMA AgainMoves ==
  ASSUME Inv, TypeOK', NEW B, NEW at, batches' = Manualized(batches, B, at), attempts' = attempts
  PROVE  Queue!QueueNext
<1>1. RowsKept(batches, batches') BY RowsKeptBy DEF Inv, TypeOK, BatchTable
<1>. QED BY <1>1, NothingEnds DEF Inv

(* The CLI delivery operations. *)
LEMMA CliActionsMove == Inv /\ TypeOK' /\ CliNext => Queue!QueueNext
<1>. SUFFICES ASSUME Inv, TypeOK', CliNext PROVE Queue!QueueNext OBVIOUS
<1>1. PICK a \in Attempt :
        \/ \E b \in Batch, s \in Session, auth \in AuthModes : BeginCli(a, b, s, auth)
        \/ AcceptCli(a)
        \/ \E manual \in BOOLEAN : RejectCli(a, manual)
        \/ RejectCliAgain(a)
        \/ ExpireCli(a)
        \/ \E event \in TurnEvents : ObserveCli(a, event)
  BY DEF CliNext
<1>2. attempts[a] \in AttemptRecord BY DEF Inv, TypeOK
<1>3. ASSUME NEW b \in Batch, NEW s, NEW auth, BeginCli(a, b, s, auth) PROVE Queue!QueueNext
  <2>1. PICK at \in Recent, g \in 1 .. MaxGeneration :
               attempts' = [attempts EXCEPT ![a] = NewCliAttempt(b, s, auth, g, at)]
    BY <1>3 DEF BeginCli
  <2>2. LET r == NewCliAttempt(b, s, auth, g, at)
        IN  r.state = "accept_pending" /\ r.batch = b /\ r.rpc = "pending_acceptance"
    BY DEF NewCliAttempt
  <2>. QED BY <1>3, <2>1, <2>2, BeginMoves DEF BeginCli
<1>4. CASE AcceptCli(a) BY <1>4, AcceptMoves DEF AcceptCli
<1>5. ASSUME NEW manual, RejectCli(a, manual) PROVE Queue!QueueNext
  <2>1. /\ IsAcceptPending(a, "cli")
        /\ attempts' = [attempts EXCEPT ![a] = Rejected(attempts[a])]
        /\ \/ batches' = batches
           \/ \E at : batches' = Manualized(batches, {attempts[a].batch}, at)
    BY <1>5 DEF RejectCli
  <2>. QED BY <2>1, RejectMoves
<1>6. CASE RejectCliAgain(a) BY <1>6, AgainMoves DEF RejectCliAgain
<1>7. CASE ExpireCli(a)
  <2>1. PICK at, obs : GiveUp(a, Abandoned(attempts[a], obs), at) BY <1>7 DEF ExpireCli
  <2>2. attempts[a].state # "absent" /\ IsOpen(attempts[a].batch)
    BY <1>7 DEF ExpireCli, IsTracking, HoldsHead, IsHead
  <2>. QED BY <1>2, <2>1, <2>2, AbandonedFacts, GiveUpMoves
<1>8. ASSUME NEW event, ObserveCli(a, event) PROVE Queue!QueueNext BY <1>8, ObserveMoves
<1>. QED BY <1>1, <1>3, <1>4, <1>5, <1>6, <1>7, <1>8

(* The app-server delivery operations. *)
LEMMA AppServerActionsMove == Inv /\ TypeOK' /\ AppServerNext => Queue!QueueNext
<1>. SUFFICES ASSUME Inv, TypeOK', AppServerNext PROVE Queue!QueueNext OBVIOUS
<1>1. PICK a \in Attempt :
        \/ \E b \in Batch : BeginAppServer(a, b)
        \/ AcceptAppServer(a)
        \/ \E manual \in BOOLEAN : RejectAppServer(a, manual)
        \/ RejectAppServerAgain(a)
        \/ AbandonAppServerUnknown(a)
        \/ \E event \in TurnEvents : ObserveAppServer(a, event)
  BY DEF AppServerNext
<1>2. attempts[a] \in AttemptRecord BY DEF Inv, TypeOK
<1>3. ASSUME NEW b \in Batch, BeginAppServer(a, b) PROVE Queue!QueueNext
  <2>1. PICK at \in Recent, g \in 1 .. MaxGeneration :
               attempts' = [attempts EXCEPT ![a] = NewAppServerAttempt(b, g, at)]
    BY <1>3 DEF BeginAppServer
  <2>2. LET r == NewAppServerAttempt(b, g, at)
        IN  r.state = "accept_pending" /\ r.batch = b /\ r.rpc = "pending_acceptance"
    BY DEF NewAppServerAttempt
  <2>. QED BY <1>3, <2>1, <2>2, BeginMoves DEF BeginAppServer
<1>4. CASE AcceptAppServer(a) BY <1>4, AcceptMoves DEF AcceptAppServer
<1>5. ASSUME NEW manual, RejectAppServer(a, manual) PROVE Queue!QueueNext
  <2>1. /\ IsAcceptPending(a, "codex_app_server")
        /\ attempts' = [attempts EXCEPT ![a] = Rejected(attempts[a])]
    BY <1>5 DEF RejectAppServer
  <2>2. \/ batches' = Counted(batches, attempts[a].batch)
        \/ \E at : batches' = Manualized(Counted(batches, attempts[a].batch), {attempts[a].batch}, at)
    BY <1>5, Zenon DEF RejectAppServer
  <2>. QED BY <2>1, <2>2, RejectMoves
<1>6. CASE RejectAppServerAgain(a) BY <1>6, AgainMoves DEF RejectAppServerAgain
<1>7. CASE AbandonAppServerUnknown(a)
  <2>1. PICK at : batches' = Manualized(batches, {attempts[a].batch}, at)
    BY <1>7 DEF AbandonAppServerUnknown
  <2>2. CASE attempts' = attempts BY <2>1, <2>2, AgainMoves
  <2>3. CASE /\ IsAcceptPending(a, "codex_app_server")
             /\ IsOpen(attempts[a].batch)
             /\ attempts' = [attempts EXCEPT ![a] = AbandonedUnknown(attempts[a])]
    <3>1. attempts[a].state = "accept_pending" /\ attempts[a].rpc = "pending_acceptance"
      BY <2>3 DEF IsAcceptPending
    <3>2. attempts[a].batch \in Batch BY <3>1 DEF Inv, TableInv, Linked
    <3>3. batches'[attempts[a].batch].policy # "automatic"
      BY <2>1, <2>3, <3>2, ManualizedOne DEF Inv, TypeOK, IsOpen
    <3>4. RowsKept(batches, batches') BY <2>1, RowsKeptBy DEF Inv, TypeOK, BatchTable
    <3>5. /\ AbandonedUnknown(attempts[a]).batch = attempts[a].batch
          /\ AbandonedUnknown(attempts[a]).state = "abandoned"
          /\ AbandonedUnknown(attempts[a]).rpc = "unknown"
      BY <1>2, RowFacts, RpcFacts
    <3>. QED BY <2>3, <3>1, <3>3, <3>4, <3>5, OneHandsOver DEF Inv, ActiveStates
  <2>. QED BY <1>7, <2>2, <2>3 DEF AbandonAppServerUnknown
<1>8. ASSUME NEW event, ObserveAppServer(a, event) PROVE Queue!QueueNext BY <1>8, ObserveMoves
<1>. QED BY <1>1, <1>3, <1>4, <1>5, <1>6, <1>7, <1>8

-----------------------------------------------------------------------------
(* What a sweep gives up leaves each batch where it is, or hands it over. *)
LEMMA SweepHandsOver ==
  ASSUME Inv, NEW U \in SUBSET Attempt, NEW C \in SUBSET Attempt, NEW P \in SUBSET Attempt, NEW at,
         \A a \in U : attempts[a].state = "accept_pending" /\ attempts[a].rpc = "pending_acceptance",
         \A a \in C \union P : attempts[a].state = "cooldown",
         NEW b \in Batch
  PROVE  HandsOver(batches, Manualized(batches, {attempts[a].batch : a \in U \union C \union P}, at),
                   attempts, AttemptsAfter(U, C, P), b)
<1>. DEFINE D == U \union C \union P
            B == {attempts[a].batch : a \in D}
            bs == Manualized(batches, B, at)
            as == AttemptsAfter(U, C, P)
<1>1. RowsKept(batches, bs) BY RowsKeptBy DEF Inv, TypeOK, BatchTable
<1>2. D \subseteq Attempt /\ \A a \in D : attempts[a].state \in ActiveStates BY DEF ActiveStates
<1>3. ASSUME NEW a \in D PROVE bs[attempts[a].batch].policy # "automatic"
  <2>1. attempts[a].batch \in Batch /\ batches[attempts[a].batch].state = "open"
    BY <1>2 DEF Inv, TableInv, Linked, QuietWhenClosed, ActiveStates
  <2>2. attempts[a].batch \in B OBVIOUS
  <2>. HIDE DEF B
  <2>. QED BY <2>1, <2>2, ManualizedFacts DEF Inv, TypeOK
<1>4. ASSUME NEW a \in Attempt
      PROVE  /\ as[a].batch = attempts[a].batch
             /\ a \in D => as[a].state = "abandoned"
             /\ as[a].rpc = "rejected_before_accept" <=> attempts[a].rpc = "rejected_before_accept"
             /\ a \notin D => as[a] = attempts[a]
  <2>1. attempts[a] \in AttemptRecord BY DEF Inv, TypeOK
  <2>2. CASE a \in U BY <2>1, <2>2, RowFacts, RpcFacts DEF AttemptsAfter
  <2>3. CASE a \notin U /\ a \in C \union P
    <3>1. PICK obs : as[a] = Abandoned(attempts[a], obs) BY <2>3 DEF AttemptsAfter
    <3>. QED BY <2>1, <2>3, <3>1, AbandonedFacts
  <2>4. CASE a \notin D BY <2>4 DEF AttemptsAfter
  <2>. QED BY <2>2, <2>3, <2>4
<1>. HIDE DEF D, B, bs, as
<1>5. ASSUME NEW a \in Attempt
      PROVE  StandsOrEnds(attempts[a], as[a], bs[b], b)
  <2>1. CASE a \in D
    <3>1. attempts[a].state \in ActiveStates /\ as[a].state = "abandoned" BY <1>2, <1>4, <2>1
    <3>2. attempts[a].batch = b => bs[b].policy # "automatic" BY <1>3, <2>1
    <3>. QED BY <1>4, <3>1, <3>2 DEF ActiveStates, StandsOrEnds
  <2>2. CASE a \notin D
    <3>1. as[a] = attempts[a] BY <1>4, <2>2
    <3>. QED BY <3>1 DEF StandsOrEnds
  <2>. QED BY <2>1, <2>2
<1>6. HandsOver(batches, bs, attempts, as, b) BY <1>1, <1>5 DEF HandsOver, RowsKept
<1>. QED BY <1>6 DEF bs, as, B, D

(* What a sweep closes was not in flight, and it does not close what it has  *)
(* just handed over: that stays open for the manual window.                  *)
LEMMA SweepTablesMove ==
  ASSUME Inv, TypeOK',
         NEW U \in SUBSET Attempt, NEW C \in SUBSET Attempt, NEW P \in SUBSET Attempt,
         NEW at \in Recent,
         \A a \in U : attempts[a].state = "accept_pending" /\ attempts[a].rpc = "pending_acceptance",
         \A a \in C \union P : attempts[a].state = "cooldown",
         SweepTables(U, C, P, at)
  PROVE  Queue!QueueNext
<1>. DEFINE given == {attempts[a].batch : a \in U \union C \union P}
            bs == Manualized(batches, given, at)
            as == AttemptsAfter(U, C, P)
<1>1. PICK M, A :
        /\ \A b \in M \union A :
             /\ b \in Batch /\ bs[b].state = "open" /\ bs[b].window_ends_at <= at
             /\ \A a \in Attempt : as[a].batch = b => as[a].state \notin ActiveStates
        /\ batches' = Closed(Closed(bs, M, "manual_resolution_expired"), A,
                             "redelivery_window_exhausted")
        /\ attempts' = AttemptsClosedWith(as, M \union A)
  <2>. DEFINE windows == [b \in Batch |-> bs[b].window_ends_at]
  <2>1. PICK M \in Oldest(ExpiredBatches(as, bs, "manual_resolution_only", at), windows, SweepLimit),
             A \in Oldest(ExpiredBatches(as, bs, "automatic", at), windows, SweepLimit) :
          /\ batches' = Closed(Closed(bs, M, "manual_resolution_expired"), A,
                               "redelivery_window_exhausted")
          /\ attempts' = AttemptsClosedWith(as, M \union A)
    BY Zenon DEF SweepTables
  <2>. HIDE DEF bs, as
  <2>2. M \subseteq ExpiredBatches(as, bs, "manual_resolution_only", at) BY DEF Oldest
  <2>3. A \subseteq ExpiredBatches(as, bs, "automatic", at) BY DEF Oldest
  <2>4. \A b \in M \union A :
          /\ b \in Batch /\ bs[b].state = "open" /\ bs[b].window_ends_at <= at
          /\ \A a \in Attempt : as[a].batch = b => as[a].state \notin ActiveStates
    BY <2>2, <2>3 DEF ExpiredBatches
  <2>. QED BY <2>1, <2>4
<1>2. bs \in BatchTable BY RecentIsNat, ManualizedType DEF Inv, TypeOK, BatchTable
<1>3. as \in AttemptTable BY AttemptsAfterType DEF Inv, AttemptTable
<1>4. \A b \in Batch : HandsOver(batches, bs, attempts, as, b) BY SweepHandsOver
<1>5. ASSUME NEW b \in Batch, b \in given, bs[b].state = "open" PROVE ~(bs[b].window_ends_at <= at)
  <2>. HIDE DEF given
  <2>1. batches[b].state = "open" BY <1>4, <1>5 DEF HandsOver
  <2>2. at \in Nat /\ batches[b].window_ends_at \in Nat
    BY RecentIsNat DEF Inv, TypeOK, BatchRecord
  <2>3. bs[b].window_ends_at = Later(batches[b].window_ends_at, at + ManualWindow)
    BY <1>5, <2>1 DEF Manualized, Inv, TypeOK, BatchRecord
  <2>. QED BY <2>2, <2>3, TimeAssumption DEF Later
<1>6. ASSUME NEW b \in Batch, b \notin given
      PROVE  bs[b] = batches[b] /\ \A a \in Attempt : attempts[a].batch = b => as[a] = attempts[a]
  BY <1>6 DEF Manualized, AttemptsAfter
<1>. HIDE DEF bs, as, given
<1>7. ASSUME NEW a \in Attempt
      PROVE  /\ attempts'[a].batch = as[a].batch /\ attempts'[a].rpc = as[a].rpc
             /\ as[a].batch \notin M \union A => attempts'[a].state = as[a].state
             /\ as[a].state \notin ActiveStates => attempts'[a].state = as[a].state
  <2>. DEFINE B == M \union A
  <2>1. attempts' = AttemptsClosedWith(as, B) BY <1>1
  <2>. HIDE DEF B
  <2>2. /\ AttemptsClosedWith(as, B)[a].batch = as[a].batch
        /\ AttemptsClosedWith(as, B)[a].rpc = as[a].rpc
        /\ AttemptsClosedWith(as, B)[a].state =
             IF as[a].batch \in B /\ as[a].state \in ActiveStates THEN "closed" ELSE as[a].state
    BY ONLY <1>3, a \in Attempt, AttemptsClosedFacts
  <2>3. /\ as[a].batch \notin B => attempts'[a].state = as[a].state
        /\ as[a].state \notin ActiveStates => attempts'[a].state = as[a].state
    BY <2>1, <2>2
  <2>. QED BY <2>1, <2>2, <2>3 DEF B
<1>8. ASSUME NEW b \in Batch, b \notin M \union A
      PROVE  /\ ExposedAt(attempts', b) = ExposedAt(attempts, b)
             /\ \/ StatusAt(batches', attempts', b) = StatusAt(batches, attempts, b)
                \/ /\ StatusAt(batches, attempts, b) \in {"queued", "inflight"}
                   /\ StatusAt(batches', attempts', b) = "manual"
  <2>1. batches'[b] = bs[b] BY <1>1, <1>8 DEF Closed
  <2>2. \A a \in Attempt : /\ attempts'[a].batch = as[a].batch /\ attempts'[a].rpc = as[a].rpc
                           /\ as[a].batch = b => attempts'[a].state = as[a].state
    BY <1>7, <1>8
  <2>3. HandsOver(batches, bs, attempts, as, b) BY <1>4
  <2>4. HandsOver(batches, batches', attempts, attempts', b)
    <3>1. ASSUME NEW a \in Attempt
          PROVE  StandsOrEnds(attempts[a], attempts'[a], batches'[b], b)
      <4>1. StandsOrEnds(attempts[a], as[a], bs[b], b) BY <2>3 DEF HandsOver
      <4>. QED BY <2>1, <2>2, <4>1 DEF StandsOrEnds
    <3>. QED BY <2>1, <2>3, <3>1 DEF HandsOver
  <2>5. batches \in BatchTable BY DEF Inv, TypeOK, BatchTable
  <2>. QED BY <2>4, <2>5, HandedOver
<1>9. ASSUME NEW b \in Batch, b \in M \union A
      PROVE  /\ ExposedAt(attempts', b) = ExposedAt(attempts, b)
             /\ StatusAt(batches, attempts, b) \in {"queued", "manual"}
             /\ StatusAt(batches', attempts', b) = "dropped"
  <2>1. /\ bs[b].state = "open" /\ bs[b].window_ends_at <= at
        /\ \A a \in Attempt : as[a].batch = b => as[a].state \notin ActiveStates
    BY <1>1, <1>9
  <2>2. b \notin given BY <1>5, <2>1
  <2>3. /\ batches[b].state = "open"
        /\ \A a \in Attempt : attempts[a].batch = b => as[a] = attempts[a]
    BY <1>6, <2>1, <2>2
  <2>4. \A a \in Attempt : as[a].batch = attempts[a].batch BY <1>4 DEF HandsOver, StandsOrEnds
  <2>5. ~InFlightAt(attempts, b) BY <2>1, <2>3, <2>4 DEF InFlightAt
  <2>6. StatusAt(batches, attempts, b) \in {"queued", "manual"} BY <2>3, <2>5 DEF StatusAt
  <2>7. \A a \in Attempt : /\ attempts'[a].batch = attempts[a].batch
                           /\ attempts[a].batch = b => /\ attempts'[a].state = attempts[a].state
                                                       /\ attempts'[a].rpc = attempts[a].rpc
    BY <1>7, <2>1, <2>3, <2>4
  <2>8. ExposedAt(attempts', b) <=> ExposedAt(attempts, b) BY <2>7 DEF ExposedAt
  <2>9. batches'[b].state = "closed" /\ batches'[b].close_reason # "delivered"
    <3>1. bs[b] \in BatchRecord BY <1>2 DEF BatchTable
    <3>. QED BY <1>1, <1>9, <3>1 DEF Closed, BatchRecord
  <2>10. StatusAt(batches', attempts', b) = "dropped" BY <2>9 DEF StatusAt
  <2>. QED BY <2>6, <2>8, <2>10 DEF ExposedAt
<1>. QED BY <1>8, <1>9, Maintained DEF Inv

(* Maintenance and time. *)
LEMMA SweepActionsMove == Inv /\ TypeOK' /\ (Sweep \/ SweepAppServer \/ Tick) => Queue!QueueNext
<1>. SUFFICES ASSUME Inv, TypeOK', Sweep \/ SweepAppServer \/ Tick PROVE Queue!QueueNext
  OBVIOUS
<1>1. ASSUME NEW adapter, NEW timeout, NEW at, NEW U \in StaleToSweep(adapter, timeout, at)
      PROVE  /\ U \in SUBSET Attempt
             /\ \A a \in U : attempts[a].state = "accept_pending" /\ attempts[a].rpc = "pending_acceptance"
  <2>1. U \subseteq StaleAcceptances(adapter, timeout, at) BY DEF StaleToSweep, Oldest
  <2>. QED BY <2>1 DEF StaleAcceptances, IsAcceptPending
<1>2. ASSUME NEW adapter, NEW at, NEW P \in DueToSweep(adapter, at)
      PROVE  P \in SUBSET Attempt /\ \A a \in P : attempts[a].state = "cooldown"
  <2>1. P \subseteq DueObservations(adapter, at) BY DEF DueToSweep, Oldest
  <2>. QED BY <2>1 DEF DueObservations
<1>3. CASE Sweep
  <2>1. PICK at \in Recent :
               \E U1 \in StaleToSweep("cli", AcceptTimeout, at),
                  C \in DueToSweep("cli", at),
                  U2 \in StaleToSweep("codex_app_server", AppServerAcceptTimeout, at),
                  P \in DueToSweep("codex_app_server", at) :
                 SweepTables(U1 \union U2, C, P, at)
    BY <1>3 DEF Sweep
  <2>2. PICK U1 \in StaleToSweep("cli", AcceptTimeout, at),
             C \in DueToSweep("cli", at),
             U2 \in StaleToSweep("codex_app_server", AppServerAcceptTimeout, at),
             P \in DueToSweep("codex_app_server", at) :
                 SweepTables(U1 \union U2, C, P, at)
    BY <2>1
  <2>3. /\ U1 \union U2 \in SUBSET Attempt
        /\ \A a \in U1 \union U2 : /\ attempts[a].state = "accept_pending"
                                  /\ attempts[a].rpc = "pending_acceptance"
    BY <1>1
  <2>4. /\ C \in SUBSET Attempt /\ P \in SUBSET Attempt
        /\ \A a \in C \union P : attempts[a].state = "cooldown"
    BY <1>2
  <2>. QED BY <2>2, <2>3, <2>4, SweepTablesMove
<1>4. CASE SweepAppServer
  <2>1. PICK at \in Recent :
               \E U \in StaleToSweep("codex_app_server", AppServerAcceptTimeout, at),
                  P \in DueToSweep("codex_app_server", at) :
                 /\ attempts' = AttemptsAfter(U, {}, P)
                 /\ batches' = Manualized(batches, {attempts[a].batch : a \in U \union P}, at)
    BY <1>4 DEF SweepAppServer
  <2>2. PICK U \in StaleToSweep("codex_app_server", AppServerAcceptTimeout, at),
             P \in DueToSweep("codex_app_server", at) :
                 /\ attempts' = AttemptsAfter(U, {}, P)
                 /\ batches' = Manualized(batches, {attempts[a].batch : a \in U \union P}, at)
    BY <2>1
  <2>3. /\ U \in SUBSET Attempt /\ P \in SUBSET Attempt /\ {} \in SUBSET Attempt
        /\ \A a \in U : attempts[a].state = "accept_pending" /\ attempts[a].rpc = "pending_acceptance"
        /\ \A a \in {} \union P : attempts[a].state = "cooldown"
    BY <1>1, <1>2
  <2>4. U \union {} \union P = U \union P OBVIOUS
  <2>5. \A b \in Batch :
          HandsOver(batches, Manualized(batches, {attempts[a].batch : a \in U \union {} \union P}, at),
                    attempts, AttemptsAfter(U, {}, P), b)
    BY <2>3, SweepHandsOver
  <2>6. \A b \in Batch : HandsOver(batches, batches', attempts, attempts', b)
    BY <2>2, <2>4, <2>5
  <2>. QED BY <2>6, AllHandedOver DEF Inv
<1>5. CASE Tick
  <2>1. RowsKept(batches, batches') /\ attempts' = attempts BY <1>5 DEF Tick, RowsKept
  <2>. QED BY <2>1, NothingEnds DEF Inv
<1>. QED BY <1>3, <1>4, <1>5

-----------------------------------------------------------------------------
(* Every step of the store is one of the queue, or leaves it alone.          *)
LEMMA RefinementStep == Inv /\ TypeOK' /\ [Next]_vars => [Queue!QueueNext]_(Queue!qvars)
<1>1. Inv /\ TypeOK' /\ Next => Queue!QueueNext
  BY QueueActionsMove, SessionActionsMove, CliActionsMove, AppServerActionsMove, SweepActionsMove
  DEF Next
<1>2. UNCHANGED vars => UNCHANGED Queue!qvars
  BY DEF vars, Queue!qvars, StatusOf, Exposed, ActiveOn, OnBatch, Active, IsAutomatic
<1>. QED BY <1>1, <1>2

(* Whatever the adapters, sessions, timeouts and sweeps do, the store is a   *)
(* queue that delivers each batch at most once and one at a time.            *)
THEOREM StoreRefinesQueue == Spec => RefinesQueue
<1>1. Init => Queue!QueueInit
  <2>1. ASSUME Init, NEW b \in Batch PROVE StatusOf(b) = "absent" /\ Exposed(b) = FALSE
    <3>1. batches[b].state = "absent" BY <2>1 DEF Init, NoBatch
    <3>2. \A a \in Attempt : attempts[a].state = "absent" BY <2>1 DEF Init, NoAttempt
    <3>3. OnBatch(b) = {} BY <3>2 DEF OnBatch
    <3>4. TypeOK BY <2>1, InitType
    <3>5. StatusOf(b) = "absent" BY <3>1, <3>4, MappingNow DEF StatusAt
    <3>. QED BY <3>3, <3>5 DEF Exposed
  <2>. QED BY <2>1 DEF Queue!QueueInit
<1>2. Inv /\ TypeOK' /\ [Next]_vars => [Queue!QueueNext]_(Queue!qvars) BY RefinementStep
<1>3. Spec => []TypeOK
  <2>1. Inv => TypeOK BY DEF Inv
  <2>. QED BY <2>1, InvHolds, PTL
<1>. QED BY <1>1, <1>2, <1>3, InvHolds, PTL DEF Spec, RefinesQueue, Queue!QueueSpec
=============================================================================
