------------------------- MODULE AppServerDelivery --------------------------
(***************************************************************************)
(* Delivery of a plugin's batch as a turn in a Codex app-server that the   *)
(* daemon's plugin service drives. There is no managed session to fence:   *)
(* what protects the thread is the attempt itself.                         *)
(***************************************************************************)
EXTENDS BatchQueue, CliDelivery

(* begin_codex_app_server_accept_pending_attempt_with_created, for a batch   *)
(* that was not the head when it was enqueued, or whose last attempt was     *)
(* rejected: unlike a CLI attempt it also needs an open redelivery window.   *)
BeginAppServer(a, b) ==
  /\ attempts[a].state = "absent"
  /\ IsHead(b) /\ IsAutomatic(b) /\ batches[b].plugin
  /\ HasBudget(b)
  /\ NoActiveOnThread(ThreadOf[b])
  /\ \E at \in Recent, g \in 1 .. MaxGeneration :
       /\ batches[b].window_ends_at > at
       /\ IsNextGeneration(g, b)
       /\ attempts' = [attempts EXCEPT ![a] = NewAppServerAttempt(b, g, at)]
  /\ UNCHANGED <<batches, sessions, clock>>

(* accept_codex_app_server_attempt *)
AcceptAppServer(a) ==
  LET b == attempts[a].batch
  IN  /\ IsAcceptPending(a, "codex_app_server")
      /\ HoldsHead(a) /\ IsAutomatic(b)
      /\ HasBudget(b)
      /\ \E at \in Recent :
           attempts' = [attempts EXCEPT ![a] = [@ EXCEPT !.state = "cooldown", !.rpc = "accepted",
                          !.obs = "tracking", !.deadline = at + ObservationWindow]]
      /\ batches' = Counted(batches, b)
      /\ UNCHANGED <<sessions, clock>>

(* reject_codex_app_server_attempt_before_accept: a rejected send uses up     *)
(* budget, and the last one leaves the batch to the operator.                 *)
RejectAppServer(a, manual) ==
  LET b == attempts[a].batch
      exhausted == batches[b].attempt_count + 1 >= batches[b].max_attempts
  IN  /\ IsAcceptPending(a, "codex_app_server")
      /\ HoldsHead(a)
      /\ HasBudget(b)
      /\ attempts' = [attempts EXCEPT ![a] = Rejected(@)]
      /\ \E at \in Recent :
           batches' = IF manual \/ exhausted THEN Manualized(Counted(batches, b), {b}, at)
                                             ELSE Counted(batches, b)
      /\ UNCHANGED <<sessions, clock>>

RejectAppServerAgain(a) ==
  /\ attempts[a].adapter = "codex_app_server"
  /\ attempts[a].state = "abandoned" /\ attempts[a].rpc = "rejected_before_accept"
  /\ \E at \in Recent : batches' = Manualized(batches, {attempts[a].batch}, at)
  /\ UNCHANGED <<attempts, sessions, clock>>

(* abandon_codex_app_server_attempt_as_unknown: the connection failed after   *)
(* turn/start was sent. Its caller always asks for manual resolution; a       *)
(* repeat only widens the operator's window.                                  *)
AbandonAppServerUnknown(a) ==
  /\ \/ /\ IsAcceptPending(a, "codex_app_server")
        /\ IsOpen(attempts[a].batch) /\ IsNewest(a)
        /\ attempts' = [attempts EXCEPT ![a] = AbandonedUnknown(@)]
     \/ /\ attempts[a].adapter = "codex_app_server"
        /\ attempts[a].state = "abandoned" /\ attempts[a].rpc = "unknown"
        /\ attempts' = attempts
  /\ \E at \in Recent : batches' = Manualized(batches, {attempts[a].batch}, at)
  /\ UNCHANGED <<sessions, clock>>

-----------------------------------------------------------------------------
(* observe_codex_app_server_turn_event: as for the CLI, without the session   *)
(* checks and without delayed completion.                                     *)

GiveUpAppServer(a, r, at) ==
  /\ attempts' = [attempts EXCEPT ![a] = r]
  /\ batches' = Manualized(batches, {attempts[a].batch}, at)
  /\ UNCHANGED sessions

ObserveAppServerLate(a, event) ==
  /\ AwaitsLateEvidence(a) /\ event # "turn_started"
  /\ attempts' = [attempts EXCEPT ![a].event = event]
  /\ UNCHANGED <<batches, sessions>>

ObserveAppServerAfterDeadline(a, event, at) ==
  /\ IsTracking(a, "codex_app_server") /\ HoldsHead(a)
  /\ at >= attempts[a].deadline
  /\ GiveUpAppServer(a, [Abandoned(attempts[a], "expired") EXCEPT !.event = event], at)

ObserveAppServerInTime(a, event, at) ==
  /\ IsTracking(a, "codex_app_server") /\ HoldsHead(a)
  /\ at < attempts[a].deadline
  /\ \/ /\ event = "turn_started"
        /\ attempts' = [attempts EXCEPT ![a].event = event]
        /\ UNCHANGED <<batches, sessions>>
     \/ /\ event = "turn_completed"
        /\ IsAutomatic(attempts[a].batch)
        /\ Deliver(a)
     \/ /\ event = "turn_failed"
        /\ GiveUpAppServer(a, [Abandoned(attempts[a], "abandoned") EXCEPT !.event = event], at)

ObserveAppServer(a, event) ==
  /\ attempts[a].adapter = "codex_app_server" /\ attempts[a].rpc = "accepted"
  /\ \E at \in Recent : \/ ObserveAppServerLate(a, event)
                        \/ ObserveAppServerAfterDeadline(a, event, at)
                        \/ ObserveAppServerInTime(a, event, at)
  /\ UNCHANGED clock
=============================================================================
