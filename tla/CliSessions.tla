---------------------------- MODULE CliSessions -----------------------------
(***************************************************************************)
(* CLI managed sessions: the store's record of a foreground Codex CLI that *)
(* detached turns may be started in. A sidecar binds one to its thread,    *)
(* proves what it can do under the current epoch, and loses that proof     *)
(* when its connection or its app-server goes away.                        *)
(*                                                                         *)
(* Revisions of one epoch (activity, capability, permission) only order    *)
(* the updates of one sidecar and are abstracted: an update is accepted in *)
(* the epoch it was made for. The three permission flags are treated alike *)
(* by the code and are one flag here.                                      *)
(***************************************************************************)
EXTENDS DeliveryState

NewSession(allows) ==
  [ state |-> "live", epoch |-> 1, activity |-> "unknown", capable |-> FALSE,
    pinned |-> FALSE, fresh |-> FALSE, allows |-> allows ]

SessionsOf(t) == {s \in Session : BoundTo[s] = t /\ sessions[s].state \notin {"absent", "retired"}}

(* ensure_cli_session_has_no_recovery_blockers_tx *)
NoRecoveryBlockers(s) ==
  /\ \A a \in Attempt :
       attempts[a].adapter = "cli" /\ attempts[a].session = s => ~Active(a)
  /\ \A b \in Batch : ThreadOf[b] = BoundTo[s] /\ IsHead(b) => IsAutomatic(b)

RetireEligible(s) == sessions[s].state \in {"detached", "parked"} /\ NoRecoveryBlockers(s)

Retired(r) == [ProofCleared(r) EXCEPT !.state = "retired", !.pinned = FALSE]

(* The attempts abandon_cli_observations_for_session_epoch_loss_tx gives up. *)
ObservedUnder(s) ==
  {a \in Attempt : /\ attempts[a].adapter = "cli"
                   /\ attempts[a].session = s
                   /\ attempts[a].batch # 0 /\ IsOpen(attempts[a].batch)
                   /\ \/ attempts[a].state = "cooldown" /\ attempts[a].obs = "tracking"
                      \/ attempts[a].state = "abandoned" /\ attempts[a].obs = "expired"}

(* abandon_cli_observations_for_session_epoch_loss_tx on attempts and batches. *)
LoseObservations(s, at) ==
  /\ attempts' = [a \in Attempt |-> IF a \in ObservedUnder(s)
                                    THEN Abandoned(attempts[a], "abandoned") ELSE attempts[a]]
  /\ batches' = Manualized(batches, {attempts[a].batch : a \in ObservedUnder(s)}, at)

(* ... and on the session: it is parked when an observation was lost. *)
ParkedIfObserving(s) ==
  IF ObservedUnder(s) = {} THEN sessions ELSE Parked(sessions, {s})

Detached(r) == IF r.state = "live" THEN [r EXCEPT !.state = "detached"] ELSE r

-----------------------------------------------------------------------------
(* attach_or_create_cli_managed_session has three outcomes; `required` is    *)
(* what the bind command asks of the session's permissions.                  *)
Fits(s, required) == sessions[s].allows \in required

CreateSession(s, allows) ==
  /\ sessions[s].state = "absent"
  /\ SessionsOf(BoundTo[s]) = {}
  /\ sessions' = [sessions EXCEPT ![s] = NewSession(allows)]
  /\ UNCHANGED <<batches, attempts, clock>>

(* outcome "attached": a new epoch, nothing of the old proof survives. *)
Attached(r) == [ProofCleared(r) EXCEPT !.state = "live", !.epoch = @ + 1, !.pinned = FALSE]

Reattach(s, required) ==
  /\ IsAttachable(s) /\ Fits(s, required)
  /\ NoRecoveryBlockers(s)
  /\ sessions[s].epoch < MaxEpoch
  /\ \E at \in Recent : LoseObservations(s, at)
  /\ sessions' = [sessions EXCEPT ![s] = Attached(@)]
  /\ UNCHANGED clock

(* outcome "replaced": the old session is retired for a new one. *)
ReplaceSession(s, new, required, allows) ==
  /\ s \in SessionsOf(BoundTo[new])
  /\ ~(IsAttachable(s) /\ Fits(s, required))
  /\ RetireEligible(s)
  /\ sessions[new].state = "absent"
  /\ sessions' = [sessions EXCEPT ![s] = Retired(@), ![new] = NewSession(allows)]
  /\ UNCHANGED <<batches, attempts, clock>>

RetireSession(s) ==
  /\ RetireEligible(s)
  /\ sessions' = [sessions EXCEPT ![s] = Retired(@)]
  /\ UNCHANGED <<batches, attempts, clock>>

-----------------------------------------------------------------------------
(* The sidecar proves the session, in the epoch it holds. *)

NoteActivity(s, activity) ==
  /\ IsAttachable(s)
  /\ sessions' = [sessions EXCEPT ![s].activity = activity]
  /\ UNCHANGED <<batches, attempts, clock>>

NoteCapabilities(s, capable) ==
  /\ IsAttachable(s)
  /\ sessions' = [sessions EXCEPT ![s].capable = capable]
  /\ UNCHANGED <<batches, attempts, clock>>

(* The first snapshot pins the startup permissions, each one is the fresh one. *)
NotePermissions(s, allows) ==
  /\ IsAttachable(s)
  /\ sessions' = [sessions EXCEPT ![s] = [@ EXCEPT !.allows = allows, !.pinned = TRUE, !.fresh = TRUE]]
  /\ UNCHANGED <<batches, attempts, clock>>

(* invalidate_cli_managed_session_proof by the holder of the current epoch;  *)
(* from any other epoch it changes nothing. A session parked by the first    *)
(* statement keeps its epoch: the second only touches live and detached ones. *)
InvalidateProof(s) ==
  /\ IsAttachable(s)
  /\ sessions[s].epoch < MaxEpoch
  /\ \E at \in Recent : LoseObservations(s, at)
  /\ sessions' = Invalidated(ParkedIfObserving(s), {<<s, sessions[s].epoch>>})
  /\ UNCHANGED clock

(* invalidate_cli_managed_session_current_proof: the daemon stops the        *)
(* session's app-server.                                                     *)
InvalidateCurrentProof(s) ==
  /\ IsAttachable(s)
  /\ sessions[s].epoch < MaxEpoch
  /\ \E at \in Recent : LoseObservations(s, at)
  /\ sessions' = [Invalidated(ParkedIfObserving(s), {<<s, sessions[s].epoch>>})
                    EXCEPT ![s] = Detached(@)]
  /\ UNCHANGED clock
=============================================================================
