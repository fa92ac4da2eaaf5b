---------------------------- MODULE CliDelivery -----------------------------
(***************************************************************************)
(* Delivery of a batch as a turn in a CLI managed session: the attempt is  *)
(* recorded before turn/start is sent, accepted or rejected when the       *)
(* answer is known, then the turn is observed until it ends, until its     *)
(* deadline, or until its session is no longer the one it was begun in.    *)
(***************************************************************************)
EXTENDS DeliveryState

TurnEvents == {"turn_started", "turn_completed", "turn_failed"}

(* ensure_batch_allows_cli_delivery_for_authorization *)
AllowsCli(b, auth) == auth = "strict_safe" => batches[b].detachable

(* ensure_cli_session_allows_delivery, in the epoch the caller read. *)
SessionAllows(s, b, auth) ==
  /\ IdentityAllows(s, ThreadOf[b], sessions[s].epoch, auth)
  /\ sessions[s].capable
  /\ sessions[s].activity = "idle"

NewCliAttempt(b, s, auth, g, at) ==
  [ state |-> "accept_pending", batch |-> b, adapter |-> "cli", auth |-> auth,
    generation |-> g, rpc |-> "pending_acceptance", obs |-> "none", event |-> "none",
    started_at |-> at, deadline |-> 0, session |-> s, epoch |-> sessions[s].epoch ]

(* begin_cli_accept_pending_attempt. A retry with the same request id        *)
(* returns the row as it is: a stuttering step.                              *)
BeginCli(a, b, s, auth) ==
  /\ attempts[a].state = "absent"
  /\ IsHead(b) /\ IsAutomatic(b) /\ ~batches[b].plugin
  /\ AllowsCli(b, auth)
  /\ SessionAllows(s, b, auth)
  /\ HasBudget(b)
  /\ NoActiveOnThread(ThreadOf[b])
  /\ \E at \in Recent, g \in 1 .. MaxGeneration :
       /\ IsNextGeneration(g, b)
       /\ attempts' = [attempts EXCEPT ![a] = NewCliAttempt(b, s, auth, g, at)]
  /\ UNCHANGED <<batches, sessions, clock>>

(* accept_cli_attempt *)
AcceptCli(a) ==
  LET b == attempts[a].batch
  IN  /\ IsAcceptPending(a, "cli")
      /\ HoldsHead(a) /\ IsAutomatic(b) /\ AllowsCli(b, attempts[a].auth)
      /\ SessionIsCurrent(a)
      /\ HasBudget(b)
      /\ \E at \in Recent :
           attempts' = [attempts EXCEPT ![a] = [@ EXCEPT !.state = "cooldown", !.rpc = "accepted",
                          !.obs = "tracking", !.deadline = at + ObservationWindow]]
      /\ batches' = Counted(batches, b)
      /\ UNCHANGED <<sessions, clock>>

Rejected(r) ==
  [r EXCEPT !.state = "abandoned", !.rpc = "rejected_before_accept", !.obs = "abandoned"]

(* reject_cli_attempt_before_accept, on a pending attempt: Codex refused the *)
(* turn, or it was never sent. `manual` is the caller's verdict that a retry *)
(* would not help.                                                           *)
RejectCli(a, manual) ==
  LET b == attempts[a].batch
  IN  /\ IsAcceptPending(a, "cli")
      /\ HoldsHead(a)
      /\ SessionIsCurrent(a)
      /\ attempts' = [attempts EXCEPT ![a] = Rejected(@)]
      /\ IF manual
         THEN /\ \E at \in Recent : batches' = Manualized(batches, {b}, at)
              /\ sessions' = Parked(sessions, {attempts[a].session})
         ELSE /\ batches' = batches
              /\ sessions' = Invalidated(sessions, Fences({a}))
      /\ UNCHANGED clock

(* The same call on an attempt already rejected: a manual verdict still      *)
(* takes effect, whatever has happened to the batch and the session since.   *)
RejectCliAgain(a) ==
  /\ attempts[a].adapter = "cli"
  /\ attempts[a].state = "abandoned" /\ attempts[a].rpc = "rejected_before_accept"
  /\ \E at \in Recent : batches' = Manualized(batches, {attempts[a].batch}, at)
  /\ sessions' = Parked(sessions, {attempts[a].session})
  /\ UNCHANGED <<attempts, clock>>

-----------------------------------------------------------------------------
(* Observation of the accepted turn. *)

(* A slip for the mutation runs: the batch stays automatic. *)
GiveUpOnly(a, r, at) ==
  /\ attempts' = [attempts EXCEPT ![a] = r]
  /\ batches' = batches
  /\ sessions' = SessionsAfterLoss({a})

(* The turn can no longer be followed: abandoned as r, and the batch is left *)
(* to the operator (manualize_cli_batch_after_observation_loss_tx).          *)
GiveUp(a, r, at) ==
  /\ attempts' = [attempts EXCEPT ![a] = r]
  /\ batches' = Manualized(batches, {attempts[a].batch}, at)
  /\ sessions' = SessionsAfterLoss({a})

(* Evidence that the turn completed: the batch is closed as delivered.       *)
Deliver(a) ==
  LET b == attempts[a].batch
  IN  /\ batches' = Closed(batches, {b}, "delivered")
      /\ attempts' = AttemptsClosedWith(
                       [attempts EXCEPT ![a] = [@ EXCEPT !.state = "cooldown", !.obs = "completed",
                                                         !.event = "turn_completed"]], {b})
      /\ sessions' = Invalidated(sessions, Fences(ActiveOn(b) \union {a}))

(* can_record_late_cli_turn_evidence: nothing final was seen before. *)
AwaitsLateEvidence(a) ==
  /\ attempts[a].state = "abandoned"
  /\ attempts[a].obs \in {"expired", "abandoned"}
  /\ attempts[a].event \in {"none", "turn_started"}

(* A slip for the mutation runs: a turn whose session was lost counts too. *)
CompletesDelayedAfterLoss(a, event, at) ==
  /\ event = "turn_completed"
  /\ AwaitsLateEvidence(a) /\ attempts[a].rpc = "accepted"
  /\ at < attempts[a].deadline

(* can_complete_delayed_cli_turn_after_expiry: the turn ended in time, its   *)
(* report lost the race with the deadline.                                   *)
CompletesDelayed(a, event, at) ==
  /\ event = "turn_completed"
  /\ AwaitsLateEvidence(a)
  /\ attempts[a].obs = "expired" /\ attempts[a].rpc = "accepted"
  /\ at < attempts[a].deadline

(* expire_cli_observation *)
ExpireCli(a) ==
  /\ IsTracking(a, "cli")
  /\ HoldsHead(a)
  /\ \E at \in Recent :
       /\ at >= attempts[a].deadline
       /\ GiveUp(a, Abandoned(attempts[a], IF SessionIsCurrent(a) THEN "expired" ELSE "abandoned"), at)
  /\ UNCHANGED clock

(* observe_cli_turn_event is only reached with the turn id of the attempt,   *)
(* which acceptance recorded. Its branches, in the order of the code:        *)
ObserveDelayed(a, event, at) ==
  /\ CompletesDelayed(a, event, at)
  /\ HoldsHead(a)
  /\ Deliver(a)

ObserveLate(a, event, at) ==
  /\ ~CompletesDelayed(a, event, at)
  /\ AwaitsLateEvidence(a) /\ event # "turn_started"
  /\ attempts' = [attempts EXCEPT ![a].event = event]
  /\ UNCHANGED <<batches, sessions>>

ObserveAfterLoss(a, event, at) ==
  /\ IsTracking(a, "cli") /\ HoldsHead(a)
  /\ ~SessionIsCurrent(a)
  /\ GiveUp(a, [Abandoned(attempts[a], "abandoned") EXCEPT !.event = event], at)

ObserveAfterDeadline(a, event, at) ==
  /\ IsTracking(a, "cli") /\ HoldsHead(a)
  /\ SessionIsCurrent(a)
  /\ at >= attempts[a].deadline
  /\ GiveUp(a, [Abandoned(attempts[a], "expired") EXCEPT !.event = event], at)

ObserveInTime(a, event, at) ==
  /\ IsTracking(a, "cli") /\ HoldsHead(a)
  /\ SessionIsCurrent(a)
  /\ at < attempts[a].deadline
  /\ \/ /\ event = "turn_started"
        /\ attempts' = [attempts EXCEPT ![a].event = event]
        /\ UNCHANGED <<batches, sessions>>
     \/ /\ event = "turn_completed"
        /\ IsAutomatic(attempts[a].batch)
        /\ Deliver(a)
     \/ /\ event = "turn_failed"
        /\ GiveUp(a, [Abandoned(attempts[a], "abandoned") EXCEPT !.event = event], at)

ObserveCli(a, event) ==
  /\ attempts[a].adapter = "cli" /\ attempts[a].rpc = "accepted"
  /\ \E at \in Recent : \/ ObserveDelayed(a, event, at)
                        \/ ObserveLate(a, event, at)
                        \/ ObserveAfterLoss(a, event, at)
                        \/ ObserveAfterDeadline(a, event, at)
                        \/ ObserveInTime(a, event, at)
  /\ UNCHANGED clock
=============================================================================
