---------------------------- MODULE SidecarCalls ----------------------------
(***************************************************************************)
(* What a CLI sidecar asks of the store (dispatch_cli_adapter_command).    *)
(* Each call goes to the daemon, which answers within a second or not at   *)
(* all: a call that was given up may still be executed later.  It is       *)
(* repeated for 10 or 30 seconds, so that the store must know a call that  *)
(* it has executed before; the order of the proofs of one epoch is kept by *)
(* their revisions.                                                        *)
(***************************************************************************)
EXTENDS DeliveryStore

CONSTANTS
  Mine,       \* the managed session of the sidecar
  NoDelivery, \* of no attempt
  MaxLate,    \* bound on calls given up that may still be executed
  LateKinds,  \* bound: the kinds of calls that are ever given up
  MaxRevision \* bound on activity updates in one epoch

Kinds == {"activity", "capabilities", "invalidate", "begin", "reject", "accept", "observe", "expire"}

ASSUME SidecarAssumption == /\ Mine \in Session /\ NoDelivery \notin Attempt
                            /\ "trusted_all" \in AuthModes
                            /\ MaxLate \in Nat /\ LateKinds \subseteq Kinds /\ MaxRevision \in Nat

VARIABLES
  revs,   \* activity_revision and capability_revision of the session
  late    \* calls given up

storeVars == <<vars, revs>>

NoRevs == [activity |-> 0, capability |-> 0]

Calls ==
       [kind : {"activity"}, epoch : Nat, rev : Nat, value : {"active", "idle"}]
  \cup [kind : {"capabilities"}, epoch : Nat, rev : Nat]
  \cup [kind : {"invalidate"}, epoch : Nat]
  \cup [kind : {"begin"}, attempt : Attempt, batch : Batch, epoch : Nat]
  \cup [kind : {"reject"}, attempt : Attempt, manual : BOOLEAN]
  \cup [kind : {"accept", "expire"}, attempt : Attempt]
  \cup [kind : {"observe"}, attempt : Attempt, event : TurnEvents]

(* A transaction of the store: a proof that is cleared takes its revisions   *)
(* with it.                                                                  *)
RevsFollow ==
  revs' = IF /\ sessions'[Mine].epoch = sessions[Mine].epoch
             /\ sessions'[Mine].state # "parked" \/ sessions[Mine].state = "parked"
          THEN revs ELSE NoRevs

(* A slip for the mutation runs: whatever the epoch is by now. *)
InAnyEpoch(call) == IsAttachable(Mine)

(* ensure_cli_session_epoch_matches, ensure_cli_session_attachable *)
InItsEpoch(call) == IsAttachable(Mine) /\ call.epoch = sessions[Mine].epoch

(* A slip for the mutation runs: any update is the next one. *)
AdvancesAnyhow(rev, current) == TRUE

Advances(rev, current) == rev = current + 1

NotesActivity(call) ==
  /\ InItsEpoch(call)
  /\ \/ /\ call.rev = revs.activity /\ call.value = sessions[Mine].activity
        /\ UNCHANGED storeVars
     \/ /\ Advances(call.rev, revs.activity) /\ call.rev <= MaxRevision
        /\ NoteActivity(Mine, call.value)
        /\ revs' = [revs EXCEPT !.activity = call.rev]

NotesCapabilities(call) ==
  /\ InItsEpoch(call)
  /\ \/ /\ call.rev = revs.capability /\ sessions[Mine].capable
        /\ UNCHANGED storeVars
     \/ /\ Advances(call.rev, revs.capability)
        /\ NoteCapabilities(Mine, TRUE)
        /\ revs' = [revs EXCEPT !.capability = call.rev]

(* cli_session_proof_is_clear *)
IsClear ==
  sessions[Mine].activity = "unknown" /\ ~sessions[Mine].capable /\ revs = NoRevs

Invalidates(call) ==
  \/ /\ \/ ~IsAttachable(Mine)
        \/ sessions[Mine].epoch > call.epoch /\ IsClear
     /\ UNCHANGED storeVars
  \/ /\ sessions[Mine].epoch = call.epoch
     /\ InvalidateProof(Mine) /\ RevsFollow

(* The request id leads to the attempt of an earlier call.                   *)
BeginsAttempt(call) ==
  \/ /\ attempts[call.attempt].state # "absent" /\ SessionIsCurrent(call.attempt)
     /\ UNCHANGED storeVars
  \/ /\ sessions[Mine].epoch = call.epoch
     /\ BeginCli(call.attempt, call.batch, Mine, "trusted_all")
     /\ RevsFollow

RejectsAttempt(call) ==
  \/ RejectCli(call.attempt, call.manual) /\ RevsFollow
  \/ call.manual /\ RejectCliAgain(call.attempt) /\ RevsFollow
  \/ /\ ~call.manual
     /\ attempts[call.attempt].state = "abandoned"
     /\ attempts[call.attempt].rpc = "rejected_before_accept"
     /\ UNCHANGED storeVars

AcceptsAttempt(call) ==
  \/ AcceptCli(call.attempt) /\ RevsFollow
  \/ /\ IsTracking(call.attempt, "cli") /\ SessionIsCurrent(call.attempt)
     /\ UNCHANGED storeVars

(* is_idempotent_terminal_cli_turn_observation *)
ObservesTurn(call) ==
  \/ ObserveCli(call.attempt, call.event) /\ RevsFollow
  \/ /\ call.event # "turn_started" /\ attempts[call.attempt].event = call.event
     /\ attempts[call.attempt].state \in {"abandoned", "closed"}
     /\ UNCHANGED storeVars

ExpiresObservation(call) ==
  \/ ExpireCli(call.attempt) /\ RevsFollow
  \/ /\ attempts[call.attempt].state = "abandoned"
     /\ attempts[call.attempt].obs \in {"expired", "abandoned"}
     /\ UNCHANGED storeVars

(* The store executes a call; where it refuses it, this is not enabled.      *)
Executes(call) ==
  \/ call.kind = "activity" /\ NotesActivity(call)
  \/ call.kind = "capabilities" /\ NotesCapabilities(call)
  \/ call.kind = "invalidate" /\ Invalidates(call)
  \/ call.kind = "begin" /\ BeginsAttempt(call)
  \/ call.kind = "reject" /\ RejectsAttempt(call)
  \/ call.kind = "accept" /\ AcceptsAttempt(call)
  \/ call.kind = "observe" /\ ObservesTurn(call)
  \/ call.kind = "expire" /\ ExpiresObservation(call)

(* The daemon has the call, and its caller does not wait for it any longer.  *)
ComesLate(call) ==
  /\ call.kind \in LateKinds /\ call \notin late /\ Cardinality(late) < MaxLate
  /\ late' = late \cup {call}

=============================================================================
