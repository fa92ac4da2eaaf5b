----------------------------- MODULE CliSidecar -----------------------------
(***************************************************************************)
(* The sidecar of one CLI managed session (the passive adapter thread of   *)
(* `cbth resume`), the Codex app-server it is connected to, and the store. *)
(* The sidecar proves to the store what the thread is doing, and while it  *)
(* has proved it idle starts the head batch of the thread as a turn, which *)
(* it then observes. Between any two of its calls the user starts turns,   *)
(* the sweep runs, calls given up are executed, the app-server stops, and  *)
(* the foreground exits or is killed.                                      *)
(*                                                                         *)
(* The session's permissions are given on the command line, so that none   *)
(* are refreshed (CliSessionPermissionInputs::uses_auto).                  *)
(***************************************************************************)
EXTENDS SidecarCalls, Sequences

CONSTANTS
  MaxWire,  \* bound on notifications not yet received
  MaxEvents \* bound on turns of the user, and on status changes that say nothing

ASSUME SidecarBoundAssumption == MaxWire \in Nat /\ MaxEvents \in Nat

VARIABLES
  car,      \* CliAppServerPassiveAdapterState, and where the thread is
  wire,     \* the websocket: open or not, and its notifications
  turns,    \* what became of the turn of each attempt
  user,     \* whether a turn of the user is running, and the events so far
  server    \* the app-server runs

carVars == <<storeVars, late, car, wire, turns, user, server>>

(* What a notification is about: the turn of an attempt, or one of the user. *)
Note(kind, turn) == [kind |-> kind, turn |-> turn]

Ended == {"completed", "failed"}
Ran == Ended \cup {"running"}

Busy == user.active \/ \E a \in Attempt : turns[a] = "running"

Observed == IF Busy THEN "active" ELSE "idle"

Disconnected == [open |-> FALSE, msgs |-> <<>>]

Notified(n) == IF wire.open THEN [wire EXCEPT !.msgs = Append(@, n)] ELSE wire
Room == wire.open => Len(wire.msgs) < MaxWire

FreshCar(epoch) ==
  [ at |-> "connecting", running |-> TRUE, epoch |-> epoch, arev |-> 0, crev |-> 0,
    activity |-> "none", capable |-> FALSE, durable |-> FALSE, seen |-> "none",
    attempt |-> NoDelivery, batch |-> 0, event |-> "none", next |-> "none" ]

SidecarInit ==
  /\ \E max \in Budgets : batches = [b \in Batch |-> NewBatch(FALSE, FALSE, 0, max)]
  /\ attempts = [a \in Attempt |-> NoAttempt]
  /\ sessions = [s \in Session |-> IF s = Mine THEN NewSession(FALSE) ELSE AbsentSession]
  /\ clock = 0
  /\ revs = NoRevs /\ late = {}
  /\ car = FreshCar(1)
  /\ wire = Disconnected
  /\ turns = [a \in Attempt |-> "unused"]
  /\ user = [active |-> FALSE, count |-> 0]
  /\ server = TRUE

-----------------------------------------------------------------------------
(* Where the sidecar goes next. *)

Settled(c) == [c EXCEPT !.attempt = NoDelivery, !.batch = 0, !.event = "none",
                        !.seen = "none", !.next = "none"]

(* apply_passive_adapter_invalidated_session *)
Unproved(c, epoch) ==
  [c EXCEPT !.epoch = epoch, !.arev = 0, !.crev = 0, !.activity = "none",
            !.capable = FALSE, !.durable = FALSE]

(* stop_passive_adapter_after_session_parked: the thread ends, and the stop  *)
(* of its handle has nothing left to clear.                                  *)
Stopped(c) == [Unproved(Settled(c), c.epoch) EXCEPT !.at = "over", !.running = FALSE]

Proceed(c, next) ==
  IF next = "parked" THEN Stopped(c) ELSE [Settled(c) EXCEPT !.at = next]

(* invalidate_passive_adapter_proof, and then next *)
Drop(c, next) ==
  IF c.durable \/ c.arev # 0 \/ c.crev # 0
  THEN [Settled(c) EXCEPT !.at = "dropping", !.next = next]
  ELSE Proceed(Unproved(c, c.epoch), next)

(* run_cli_app_server_passive_adapter_once returns an error: its connection  *)
(* is closed, and after the invalidation the loop connects again.            *)
Fails(c) == /\ car' = Drop(c, "connecting")
            /\ wire' = Disconnected

(* record_passive_adapter_capabilities, then record_passive_adapter_activity *)
Prove(c, activity) ==
  [c EXCEPT !.seen = activity,
            !.at = IF ~c.capable THEN "proving"
                   ELSE IF c.activity # activity THEN "noting" ELSE "listening"]

NoteSeen(c, activity) ==
  IF c.activity = activity THEN c ELSE [c EXCEPT !.seen = activity, !.at = "noting"]

-----------------------------------------------------------------------------
(* The calls: what is asked, and where an answer or its failure leads to.    *)

Calling == {"dropping", "proving", "noting", "beginning", "cancelling", "refusing",
            "parking", "accepting", "reporting", "expiring"}

Call ==
  CASE car.at = "dropping" -> [kind |-> "invalidate", epoch |-> car.epoch]
    [] car.at = "proving" -> [kind |-> "capabilities", epoch |-> car.epoch, rev |-> car.crev + 1]
    [] car.at = "noting" -> [kind |-> "activity", epoch |-> car.epoch, rev |-> car.arev + 1,
                             value |-> car.seen]
    [] car.at = "beginning" -> [kind |-> "begin", attempt |-> car.attempt, batch |-> car.batch,
                                epoch |-> car.epoch]
    [] car.at \in {"cancelling", "refusing", "parking"} ->
         [kind |-> "reject", attempt |-> car.attempt, manual |-> car.at = "parking"]
    [] car.at = "accepting" -> [kind |-> "accept", attempt |-> car.attempt]
    [] car.at = "reporting" -> [kind |-> "observe", attempt |-> car.attempt, event |-> car.event]
    [] car.at = "expiring" -> [kind |-> "expire", attempt |-> car.attempt]

(* cancel_cli_auto_delivery_before_accept: the local proof is forgotten,     *)
(* whether the call succeeded or not.                                        *)
Cancelled(c) == Proceed([c EXCEPT !.activity = "none", !.capable = FALSE], c.next)

AfterAnswer(c) ==
  CASE c.at = "dropping" -> Proceed(Unproved(c, sessions'[Mine].epoch), c.next)
    [] c.at = "proving" ->
         Prove([c EXCEPT !.capable = TRUE, !.crev = @ + 1, !.durable = TRUE], c.seen)
    [] c.at = "noting" ->
         Settled([c EXCEPT !.activity = c.seen, !.arev = @ + 1, !.durable = TRUE, !.at = "listening"])
    [] c.at = "beginning" -> [c EXCEPT !.at = "sending"]
    [] c.at = "cancelling" -> Cancelled(c)
    [] c.at = "refusing" -> Drop(c, "rereading")
    [] c.at \in {"parking", "expiring"} -> Stopped(c)
    [] c.at = "accepting" -> [c EXCEPT !.at = "observing"]
    [] c.at = "reporting" ->
         IF c.event = "turn_completed" THEN Drop(c, "rereading") ELSE Stopped(c)

Answered ==
  /\ car.at \in Calling
  /\ Executes(Call)
  /\ car' = AfterAnswer(car)
  /\ UNCHANGED <<late, wire, turns, user, server>>

(* A call without an answer within the second. It is repeated, or goes       *)
(* straight to the store where that is allowed.                              *)
TimesOut ==
  /\ car.at \in Calling
  /\ ComesLate(Call)
  /\ UNCHANGED <<storeVars, car, wire, turns, user, server>>

(* The store refuses the call, or the time for repeating it is over.         *)
GivesUp ==
  /\ car.at \in Calling
  /\ \/ /\ car.at = "beginning"
        /\ car' = [car EXCEPT !.at = "cancelling", !.next = "listening"]
        /\ UNCHANGED wire
     \/ /\ car.at = "cancelling"
        /\ car' = Cancelled(car)
        /\ UNCHANGED wire
     \/ /\ car.at = "dropping" /\ car.next \in {"connecting", "over"}
        /\ car' = Proceed(car, car.next)
        /\ UNCHANGED wire
     \/ /\ car.at \notin {"beginning", "cancelling"}
        /\ car.at = "dropping" => car.next \notin {"connecting", "over"}
        /\ Fails(IF car.at \in {"proving", "noting"} THEN [car EXCEPT !.durable = TRUE] ELSE car)
  /\ UNCHANGED <<storeVars, late, turns, user, server>>

LateRuns ==
  /\ \E call \in late : Executes(call) /\ late' = late \ {call}
  /\ UNCHANGED <<car, wire, turns, user, server>>

LateLost ==
  /\ \E call \in late : late' = late \ {call}
  /\ UNCHANGED <<storeVars, car, wire, turns, user, server>>

-----------------------------------------------------------------------------
(* Connecting and listening. *)

(* thread/resume and thread/read. Notifications that came before the answer  *)
(* are older than the snapshot and are dropped.                              *)
Connects ==
  /\ car.at = "connecting" /\ car.running
  /\ LET c == [car EXCEPT !.activity = "none"]
     IN  \/ /\ server
            /\ wire' = [open |-> TRUE, msgs |-> <<>>]
            /\ car' \in {Prove(c, Observed), Drop(c, "listening")}
         \/ Fails(c)
  /\ UNCHANGED <<storeVars, late, turns, user, server>>

(* resync_passive_adapter_after_durable_invalidation, after the invalidation *)
Rereads ==
  /\ car.at = "rereading"
  /\ \/ /\ server /\ wire.open
        /\ wire' = [wire EXCEPT !.msgs = <<>>]
        /\ car' = Prove(car, Observed)
     \/ Fails(car)
  /\ UNCHANGED <<storeVars, late, turns, user, server>>

(* record_passive_adapter_notification *)
Listens ==
  /\ car.at = "listening" /\ car.running /\ wire.msgs # <<>>
  /\ wire' = [wire EXCEPT !.msgs = Tail(@)]
  /\ LET n == Head(wire.msgs)
     IN  car' = CASE n.kind = "started" -> NoteSeen(car, "active")
                  [] n.kind \in Ended -> IF car.activity = "active" THEN NoteSeen(car, "idle")
                                                                   ELSE car
                  [] n.kind = "invalidated" -> Drop(car, "listening")
  /\ UNCHANGED <<storeVars, late, turns, user, server>>

(* The connection is lost. *)
LosesConnection ==
  /\ car.at \in {"listening", "observing"} /\ car.running /\ wire.msgs = <<>>
  /\ car' = Drop(car, IF car.at = "listening" THEN "connecting" ELSE "parked")
  /\ wire' = Disconnected
  /\ UNCHANGED <<storeVars, late, turns, user, server>>

(* The foreground has exited: CliAppServerPassiveAdapterHandle::stop clears  *)
(* the proof once the thread is joined.                                      *)
Leaves ==
  /\ car.at \in {"connecting", "listening", "observing"} /\ ~car.running
  /\ car' = Drop(car, "over")
  /\ wire' = Disconnected
  /\ UNCHANGED <<storeVars, late, turns, user, server>>

-----------------------------------------------------------------------------
(* maybe_run_cli_auto_delivery *)

Polls ==
  /\ car.at = "listening" /\ car.running /\ car.activity = "idle" /\ car.capable
  /\ \E b \in Batch, a \in Attempt :
       /\ ThreadOf[b] = BoundTo[Mine] /\ IsHead(b) /\ IsAutomatic(b)
       /\ turns[a] = "unused"
       /\ turns' = [turns EXCEPT ![a] = "drawn"]
       /\ car' = [car EXCEPT !.at = "beginning", !.attempt = a, !.batch = b]
  /\ UNCHANGED <<storeVars, late, wire, user, server>>

(* The attempt is recorded: the turn is requested, unless the foreground has *)
(* exited or something fails first.                                          *)
Sends ==
  /\ car.at = "sending"
  /\ \/ /\ car.running
        /\ turns' = [turns EXCEPT ![car.attempt] = IF server THEN "requested" ELSE "refused"]
        /\ car' = [car EXCEPT !.at = "sent"]
     \/ /\ car' = [car EXCEPT !.at = "cancelling",
                              !.next = IF car.running THEN "connecting" ELSE "listening"]
        /\ UNCHANGED turns
  /\ UNCHANGED <<storeVars, late, wire, user, server>>

(* A slip for the mutation runs: no answer is a refusal.                     *)
AfterSendingRefusedWhenUnknown ==
  \/ car' = [car EXCEPT !.at = "refusing"] /\ UNCHANGED wire
  \/ /\ wire.open /\ turns[car.attempt] \in Ran
     /\ car' = [car EXCEPT !.at = "accepting"] /\ UNCHANGED wire

(* The answer to turn/start: a turn id, a refusal because the thread is      *)
(* busy, another refusal, or none at all within 60 seconds.                  *)
AfterSending ==
  \/ /\ wire.open /\ turns[car.attempt] \in Ran
     /\ car' = [car EXCEPT !.at = "accepting"] /\ UNCHANGED wire
  \/ /\ wire.open /\ turns[car.attempt] = "refused"
     /\ \E at \in {"refusing", "parking"} : car' = [car EXCEPT !.at = at]
     /\ UNCHANGED wire
  \/ Fails(car)

HearsOfTurn ==
  /\ car.at = "sent"
  /\ AfterSending
  /\ UNCHANGED <<storeVars, late, turns, user, server>>

(* matching_accepted_turn_terminal_event *)
EndsOwnTurn(n) == n.kind \in Ended /\ n.turn = car.attempt

(* A slip for the mutation runs: a turn that failed has ended all the same.  *)
EndIsCompletion(status) == "turn_completed"

EventOf(status) == IF status = "completed" THEN "turn_completed" ELSE "turn_failed"

Reports(status) == [car EXCEPT !.at = "reporting", !.event = EventOf(status)]

(* handle_cli_auto_delivery_messages: that the turn has started is recorded  *)
(* with a single call, whose failure does not matter.                        *)
ObservesMessage ==
  /\ car.at = "observing" /\ wire.msgs # <<>>
  /\ wire' = [wire EXCEPT !.msgs = Tail(@)]
  /\ LET n == Head(wire.msgs)
         started == [kind |-> "observe", attempt |-> car.attempt, event |-> "turn_started"]
     IN  \/ /\ EndsOwnTurn(n)
            /\ car' = Reports(n.kind)
            /\ UNCHANGED <<storeVars, late>>
         \/ /\ ~EndsOwnTurn(n)
            /\ UNCHANGED car
            /\ \/ UNCHANGED storeVars /\ UNCHANGED late
               \/ /\ n = Note("started", car.attempt)
                  /\ \/ UNCHANGED storeVars /\ ComesLate(started)
                     \/ Executes(started) /\ UNCHANGED late
  /\ UNCHANGED <<turns, user, server>>

(* reconcile_cli_auto_delivery_turn, when nothing was received for a while.  *)
Reconciles ==
  /\ car.at = "observing" /\ car.running /\ wire.open /\ wire.msgs = <<>>
  /\ \/ /\ server /\ turns[car.attempt] \in Ended
        /\ car' = Reports(turns[car.attempt]) /\ UNCHANGED wire
     \/ Fails(car)
  /\ UNCHANGED <<storeVars, late, turns, user, server>>

ReachesDeadline ==
  /\ car.at = "observing" /\ car.running
  /\ clock >= attempts[car.attempt].deadline
  /\ car' = [car EXCEPT !.at = "expiring"]
  /\ UNCHANGED <<storeVars, late, wire, turns, user, server>>

-----------------------------------------------------------------------------
(* The app-server, the user, and the process the sidecar lives in.           *)

AnswersRequest(a) ==
  /\ turns[a] = "requested"
  /\ \/ /\ ~Busy /\ Room
        /\ turns' = [turns EXCEPT ![a] = "running"]
        /\ wire' = Notified(Note("started", a))
     \/ /\ turns' = [turns EXCEPT ![a] = "refused"]
        /\ UNCHANGED wire
  /\ UNCHANGED <<storeVars, late, car, user, server>>

EndsTurn(a) ==
  /\ turns[a] = "running" /\ Room
  /\ \E status \in Ended : /\ turns' = [turns EXCEPT ![a] = status]
                           /\ wire' = Notified(Note(status, a))
  /\ UNCHANGED <<storeVars, late, car, user, server>>

UserStarts ==
  /\ server /\ ~Busy /\ Room /\ user.count < MaxEvents
  /\ user' = [active |-> TRUE, count |-> user.count + 1]
  /\ wire' = Notified(Note("started", NoDelivery))
  /\ UNCHANGED <<storeVars, late, car, turns, server>>

UserEnds ==
  /\ user.active /\ Room
  /\ user' = [user EXCEPT !.active = FALSE]
  /\ \E status \in Ended : wire' = Notified(Note(status, NoDelivery))
  /\ UNCHANGED <<storeVars, late, car, turns, server>>

(* thread/status/changed without a status to rely on: ThreadProofInvalidated *)
LosesTrack ==
  /\ server /\ wire.open /\ Room /\ user.count < MaxEvents
  /\ wire' = Notified(Note("invalidated", NoDelivery))
  /\ user' = [user EXCEPT !.count = @ + 1]
  /\ UNCHANGED <<storeVars, late, car, turns, server>>

ServerStops ==
  /\ server
  /\ server' = FALSE
  /\ turns' = [a \in Attempt |-> CASE turns[a] = "requested" -> "refused"
                                   [] turns[a] = "running" -> "failed"
                                   [] OTHER -> turns[a]]
  /\ user' = [user EXCEPT !.active = FALSE]
  /\ wire' = [wire EXCEPT !.open = FALSE]
  /\ UNCHANGED <<storeVars, late, car>>

(* The daemon has stopped or lost the app-server. *)
DaemonDrops ==
  /\ ~server
  /\ InvalidateCurrentProof(Mine) /\ RevsFollow
  /\ UNCHANGED <<late, car, wire, turns, user, server>>

ForegroundExits ==
  /\ car.running
  /\ car' = [car EXCEPT !.running = FALSE]
  /\ UNCHANGED <<storeVars, late, wire, turns, user, server>>

(* The process is killed: what it knew of its proofs is lost.                *)
Killed ==
  /\ car.at # "over"
  /\ car' = [FreshCar(0) EXCEPT !.at = "over", !.running = FALSE, !.durable = TRUE]
  /\ wire' = Disconnected
  /\ UNCHANGED <<storeVars, late, turns, user, server>>

(* run_cli_session once more: the session is bound again, an app-server      *)
(* started for it.                                                           *)
StartsAgain ==
  /\ car.at = "over" /\ ~server
  /\ \E required \in Requirements : Reattach(Mine, required)
  /\ RevsFollow
  /\ car' = FreshCar(sessions'[Mine].epoch)
  /\ server' = TRUE
  /\ UNCHANGED <<late, wire, turns, user>>

(* The maintenance thread. *)
Maintains ==
  /\ Sweep \/ Tick
  /\ RevsFollow
  /\ UNCHANGED <<late, car, wire, turns, user, server>>

SidecarStep ==
  \/ Answered \/ TimesOut \/ GivesUp
  \/ Connects \/ Rereads \/ Listens \/ LosesConnection \/ Leaves
  \/ Polls \/ Sends \/ HearsOfTurn
  \/ ObservesMessage \/ Reconciles \/ ReachesDeadline

SidecarNext ==
  \/ SidecarStep
  \/ LateRuns \/ LateLost
  \/ \E a \in Attempt : AnswersRequest(a) \/ EndsTurn(a)
  \/ UserStarts \/ UserEnds \/ LosesTrack
  \/ ServerStops \/ DaemonDrops
  \/ ForegroundExits \/ Killed \/ StartsAgain
  \/ Maintains

SidecarSpec == SidecarInit /\ [][SidecarNext]_carVars

-----------------------------------------------------------------------------
SidecarTypeOK ==
  /\ TypeOK
  /\ revs \in [activity : Nat, capability : Nat]
  /\ late \subseteq Calls
  /\ car.at \in Calling \cup {"connecting", "rereading", "listening", "sending", "sent",
                              "observing", "over"}
  /\ turns \in [Attempt -> Ran \cup {"unused", "drawn", "requested", "refused"}]

(* While the sidecar listens in the epoch of its session, the store holds    *)
(* the proof it believes to have given: no call given up earlier, executed   *)
(* late or twice, has put an older observation in its place.                 *)
ProofMatches ==
  /\ car.at = "listening" /\ car.durable /\ car.activity # "none"
  /\ IsAttachable(Mine) /\ car.epoch = sessions[Mine].epoch
  => /\ sessions[Mine].activity = car.activity /\ revs.activity = car.arev
     /\ car.capable => sessions[Mine].capable /\ revs.capability = car.crev

(* Once the sidecar has had its proof invalidated nothing opens delivery     *)
(* again on its behalf, also not after it has left and the next one is there *)
(* (docs/design/CLI_SHARED_APP_SERVER_SIDECAR_DESIGN.md:802).                *)
DroppedIsCleared ==
  ~car.durable /\ car.at \notin {"proving", "noting"} => IsClear

(* A batch is only offered again when its turn was not started: of an        *)
(* attempt recorded as refused no turn ever runs or is still requested, and  *)
(* so a batch is given to the thread at most once.                           *)
RejectedNeverRan ==
  /\ \A a \in Attempt : attempts[a].rpc = "rejected_before_accept" =>
       turns[a] \notin Ran \cup {"requested"}
  /\ \A a, c \in Attempt :
       turns[a] \in Ran /\ turns[c] \in Ran /\ attempts[a].batch = attempts[c].batch => a = c

(* A batch is closed as delivered only after a turn of its own completed,    *)
(* whatever other turns of the thread end meanwhile.                         *)
DeliveredMeansCompleted ==
  \A b \in Batch : batches[b].close_reason = "delivered" =>
    \E a \in OnBatch(b) : turns[a] = "completed"
=============================================================================
