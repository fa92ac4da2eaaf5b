--------------------------- MODULE DeliveryState ---------------------------
(***************************************************************************)
(* The tables the delivery core of cbth works on: batches, delivery        *)
(* attempts and CLI managed sessions, with the guards and the updates that *)
(* the transactions of src/store.rs share.                                 *)
(*                                                                         *)
(* Every store method is one SQLite transaction, so each action built from *)
(* this module is atomic; what interleaves is the order of the             *)
(* transactions that daemon workers, sidecars, plugin drivers, operator    *)
(* commands and the maintenance thread submit.                             *)
(***************************************************************************)
EXTENDS Naturals, FiniteSets

CONSTANTS
  Thread,           \* source thread ids
  Batch,            \* batch ids, positive numbers: the order of the UUIDv7 ids
  Attempt,          \* delivery attempt ids
  Session,          \* CLI managed session ids
  NoSession,        \* managed_session_id of an attempt of another adapter
  ThreadOf,         \* [Batch -> Thread], source_thread_id of a batch
  BoundTo,          \* [Session -> Thread], bound_thread_id of a session
  AcceptTimeout,    \* CLI_ACCEPT_PENDING_TIMEOUT_SECONDS
  AppServerAcceptTimeout, \* CODEX_APP_SERVER_ACCEPT_PENDING_TIMEOUT_SECONDS
  ObservationWindow,      \* from acceptance to the observation deadline
  RedeliveryWindow,       \* redelivery_window_seconds of a new batch
  ManualWindow,           \* DEFAULT_REDELIVERY_WINDOW_SECONDS
  Budgets,          \* the max_delivery_attempts values enqueuers ask for
  ReadOnlyPolicies, \* whether failed jobs may have a read-only delivery policy
  SweepLimit,       \* MAX_EXPIRED_BATCHES_PER_SWEEP
  Lag,              \* how old the caller's `now` may be when its transaction runs
  MaxTime,          \* bound: the clock stops here
  MaxEpoch,         \* bound: no deliberate epoch bump from here on
  MaxGeneration     \* bound: attempts ever begun for one batch

ASSUME BatchAssumption == Batch \subseteq Nat \ {0}
ASSUME NoSessionAssumption == NoSession \notin Session
ASSUME ThreadAssumption == /\ ThreadOf \in [Batch -> Thread]
                           /\ BoundTo \in [Session -> Thread]
ASSUME TimeAssumption == /\ AcceptTimeout \in Nat /\ AppServerAcceptTimeout \in Nat
                         /\ ObservationWindow \in Nat /\ RedeliveryWindow \in Nat
                         /\ ManualWindow \in Nat \ {0} /\ Lag \in Nat /\ MaxTime \in Nat
ASSUME BoundAssumption == /\ SweepLimit \in Nat /\ MaxEpoch \in Nat
                          /\ MaxGeneration \in Nat
ASSUME BudgetAssumption == Budgets \subseteq Nat /\ ReadOnlyPolicies \subseteq BOOLEAN

VARIABLES
  batches,      \* [Batch -> BatchRecord]
  attempts,     \* [Attempt -> AttemptRecord]
  sessions,     \* [Session -> SessionRecord]
  clock         \* wall-clock seconds, as read by the callers

vars == <<batches, attempts, sessions, clock>>

-----------------------------------------------------------------------------
(* The rows. A row that was never inserted is the record of state "absent". *)

ActiveStates == {"accept_pending", "cooldown"}

BatchRecord ==
  [ state          : {"absent", "open", "closed"},
    plugin         : BOOLEAN,   \* the batch has a plugin_delivery_requests row
    detachable     : BOOLEAN,   \* policy and payload pass the strict_safe test
    policy         : {"automatic", "manual_resolution_only"},
    created_at     : Nat,
    window_ends_at : Nat,
    attempt_count  : Nat,
    max_attempts   : Nat,
    close_reason   : {"none", "delivered", "operator", "manual_resolution_expired",
                      "redelivery_window_exhausted"} ]

AttemptRecord ==
  [ state      : {"absent", "accept_pending", "cooldown", "abandoned", "closed"},
    batch      : Batch \union {0},
    adapter    : {"cli", "codex_app_server"},
    auth       : {"strict_safe", "trusted_all"},
    generation : Nat,
    rpc        : {"none", "pending_acceptance", "accepted", "rejected_before_accept", "unknown"},
    obs        : {"none", "tracking", "completed", "expired", "abandoned"},
    event      : {"none", "turn_started", "turn_completed", "turn_failed"},
    started_at : Nat,
    deadline   : Nat,
    session    : Session \union {NoSession},
    epoch      : Nat ]

SessionRecord ==
  [ state    : {"absent", "live", "detached", "parked", "retired"},
    epoch    : Nat,
    activity : {"unknown", "active", "idle"},
    capable  : BOOLEAN,   \* passes the minimum turn_start capability probe
    pinned   : BOOLEAN,   \* startup permissions are pinned
    fresh    : BOOLEAN,   \* a permission snapshot was taken in this epoch
    allows   : BOOLEAN ]  \* approval, network or write access is allowed

NoBatch == [ state |-> "absent", plugin |-> FALSE, detachable |-> FALSE,
             policy |-> "automatic", created_at |-> 0, window_ends_at |-> 0,
             attempt_count |-> 0, max_attempts |-> 0, close_reason |-> "none" ]

NoAttempt == [ state |-> "absent", batch |-> 0, adapter |-> "cli", auth |-> "trusted_all",
               generation |-> 0, rpc |-> "none", obs |-> "none", event |-> "none",
               started_at |-> 0, deadline |-> 0, session |-> NoSession, epoch |-> 0 ]

AbsentSession == [ state |-> "absent", epoch |-> 0, activity |-> "unknown", capable |-> FALSE,
                   pinned |-> FALSE, fresh |-> FALSE, allows |-> FALSE ]

TypeOK == /\ batches \in [Batch -> BatchRecord]
          /\ attempts \in [Attempt -> AttemptRecord]
          /\ sessions \in [Session -> SessionRecord]
          /\ clock \in Nat

Init == /\ batches = [b \in Batch |-> NoBatch]
        /\ attempts = [a \in Attempt |-> NoAttempt]
        /\ sessions = [s \in Session |-> AbsentSession]
        /\ clock = 0

(* The time a caller read before its transaction got the write lock. *)
Recent == {t \in 0 .. clock : clock <= t + Lag}

Later(s, t) == IF s > t THEN s ELSE t

-----------------------------------------------------------------------------
(* Guards on batches and attempts. *)

IsOpen(b) == batches[b].state = "open"

IsAutomatic(b) == batches[b].policy = "automatic"

HasBudget(b) == batches[b].attempt_count < batches[b].max_attempts

Precedes(b, c) == \/ batches[b].created_at < batches[c].created_at
                  \/ batches[b].created_at = batches[c].created_at /\ b < c

(* batch_is_thread_head_tx: b is the oldest open batch of its thread. *)
IsHead(b) == /\ IsOpen(b)
             /\ \A c \in Batch \ {b} :
                  IsOpen(c) /\ ThreadOf[c] = ThreadOf[b] => Precedes(b, c)

Active(a) == attempts[a].state \in ActiveStates

OnBatch(b) == {a \in Attempt : attempts[a].state # "absent" /\ attempts[a].batch = b}

ActiveOn(b) == {a \in OnBatch(b) : Active(a)}

(* Slips for the mutation runs: only unanswered sends count, or only CLI ones. *)
NoActiveOnThreadPendingOnly(t) == \A a \in Attempt :
  attempts[a].state = "accept_pending" =>
    ~(IsOpen(attempts[a].batch) /\ ThreadOf[attempts[a].batch] = t)
NoActiveOnThreadCliOnly(t) == \A a \in Attempt :
  Active(a) /\ attempts[a].adapter = "cli" =>
    ~(IsOpen(attempts[a].batch) /\ ThreadOf[attempts[a].batch] = t)

(* ensure_no_active_attempt_for_thread_tx *)
NoActiveOnThread(t) == \A a \in Attempt :
  Active(a) => ~(IsOpen(attempts[a].batch) /\ ThreadOf[attempts[a].batch] = t)

(* ensure_attempt_is_current_generation_tx *)
IsNewest(a) == \A c \in OnBatch(attempts[a].batch) :
                 attempts[c].generation <= attempts[a].generation

(* next_attempt_generation_tx: one more than the largest generation so far. *)
IsNextGeneration(g, b) ==
  /\ \A c \in OnBatch(b) : attempts[c].generation < g
  /\ g = 1 \/ \E c \in OnBatch(b) : attempts[c].generation + 1 = g

IsAcceptPending(a, adapter) == /\ attempts[a].adapter = adapter
                               /\ attempts[a].state = "accept_pending"
                               /\ attempts[a].rpc = "pending_acceptance"

IsTracking(a, adapter) == /\ attempts[a].adapter = adapter
                          /\ attempts[a].state = "cooldown"
                          /\ attempts[a].rpc = "accepted"
                          /\ attempts[a].obs = "tracking"

(* The batch of a is open, heads its thread, and a is its newest attempt. *)
HoldsHead(a) == IsHead(attempts[a].batch) /\ IsNewest(a)

-----------------------------------------------------------------------------
(* Guards on sessions. *)

IsAttachable(s) == sessions[s].state \in {"live", "detached"}

(* ensure_cli_session_identity_allows_delivery *)
IdentityAllows(s, thread, epoch, auth) ==
  /\ s \in Session
  /\ BoundTo[s] = thread
  /\ sessions[s].epoch = epoch
  /\ IsAttachable(s)
  /\ auth = "strict_safe" => /\ sessions[s].pinned => sessions[s].fresh
                             /\ ~sessions[s].allows

(* A slip for the mutation runs: the permissions are not looked at again. *)
SessionIsCurrentAnyAuth(a) ==
  LET r == attempts[a]
  IN  /\ IdentityAllows(r.session, ThreadOf[r.batch], r.epoch, "trusted_all")
      /\ sessions[r.session].capable

(* ensure_cli_attempt_has_current_managed_session_for_batch_tx *)
SessionIsCurrent(a) ==
  LET r == attempts[a]
  IN  /\ IdentityAllows(r.session, ThreadOf[r.batch], r.epoch, r.auth)
      /\ sessions[r.session].capable

-----------------------------------------------------------------------------
(* Updates: each takes a table and returns it after the UPDATE statement. *)

(* A slip for the mutation runs: the batch stays automatic. *)
ManualizedWindowOnly(bs, B, at) ==
  [b \in Batch |->
     IF b \in B /\ bs[b].state = "open"
     THEN [bs[b] EXCEPT !.window_ends_at = Later(@, at + ManualWindow)] ELSE bs[b]]

(* Every manualize_*_tx helper: automatic redelivery stops, and the operator *)
(* has at least ManualWindow from now.                                       *)
Manualized(bs, B, at) ==
  [b \in Batch |->
     IF b \in B /\ bs[b].state = "open"
     THEN [bs[b] EXCEPT !.policy = "manual_resolution_only",
                        !.window_ends_at = Later(@, at + ManualWindow)]
     ELSE bs[b]]

Closed(bs, B, reason) ==
  [b \in Batch |-> IF b \in B THEN [bs[b] EXCEPT !.state = "closed", !.close_reason = reason]
                              ELSE bs[b]]

(* A slip for the mutation runs: a turn under observation is left alone. *)
AttemptsClosedWithPendingOnly(as, B) ==
  [a \in Attempt |-> IF as[a].batch \in B /\ as[a].state = "accept_pending"
                     THEN [as[a] EXCEPT !.state = "closed"] ELSE as[a]]

(* close_batch_tx, second statement: the active attempts close with the batches B. *)
AttemptsClosedWith(as, B) ==
  [a \in Attempt |-> IF as[a].batch \in B /\ as[a].state \in ActiveStates
                     THEN [as[a] EXCEPT !.state = "closed"] ELSE as[a]]

(* A slip for the mutation runs: the budget is not charged. *)
CountedNever(bs, b) == bs

Counted(bs, b) == [bs EXCEPT ![b].attempt_count = @ + 1]

ProofCleared(r) == [r EXCEPT !.activity = "unknown", !.capable = FALSE, !.fresh = FALSE]

(* The (session, epoch) pairs under which the CLI attempts of A were begun. *)
Fences(A) == {<<attempts[a].session, attempts[a].epoch>> :
                a \in {c \in A : attempts[c].adapter = "cli"}}

(* A slip for the mutation runs: the proof is cleared, the epoch kept. *)
InvalidatedInEpoch(ss, F) ==
  [s \in Session |-> IF <<s, ss[s].epoch>> \in F /\ ss[s].state \in {"live", "detached"}
                     THEN ProofCleared(ss[s]) ELSE ss[s]]

(* invalidate_cli_managed_session_activity_tx for each pair of F *)
Invalidated(ss, F) ==
  [s \in Session |-> IF <<s, ss[s].epoch>> \in F /\ ss[s].state \in {"live", "detached"}
                     THEN [ProofCleared(ss[s]) EXCEPT !.epoch = @ + 1] ELSE ss[s]]

(* park_cli_managed_session_tx for each session of S *)
Parked(ss, S) ==
  [s \in Session |-> IF s \in S /\ ss[s].state \in {"live", "detached"}
                     THEN [ProofCleared(ss[s]) EXCEPT !.state = "parked", !.pinned = FALSE]
                     ELSE ss[s]]

(* Sessions once the CLI attempts of A are given up: fenced off, then parked. *)
SessionsAfterLoss(A) ==
  Parked(Invalidated(sessions, Fences(A)), {f[1] : f \in Fences(A)})

(* The turn of a is given up: abandon_cli_turn_observation_tx *)
Abandoned(r, obs) == [r EXCEPT !.state = "abandoned", !.obs = obs]

(* The send of a is given up without an answer. *)
AbandonedUnknown(r) == [r EXCEPT !.state = "abandoned", !.rpc = "unknown", !.obs = "abandoned"]

(* close_batch_tx *)
CloseBatch(b, reason) ==
  /\ batches' = Closed(batches, {b}, reason)
  /\ attempts' = AttemptsClosedWith(attempts, {b})
  /\ sessions' = Invalidated(sessions, Fences(ActiveOn(b)))
=============================================================================
