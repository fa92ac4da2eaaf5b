------------------------- MODULE SidecarPermissions -------------------------
(***************************************************************************)
(* The permissions of one managed session over its life. The sidecar reads *)
(* them from the app-server when it connects and again before it starts a  *)
(* turn, has the store record them, and audits in which direction they     *)
(* have moved. The first that are recorded cap all later turns of the      *)
(* session, whatever becomes of its connections and proofs. The user may   *)
(* change what the thread is allowed at any time, and calls to the store   *)
(* may be executed without an answer, or once more after they were         *)
(* repeated.                                                               *)
(*                                                                         *)
(* Some dimension of the permissions is "auto" (uses_auto): a session      *)
(* whose permissions are all given on the command line reads none.         *)
(***************************************************************************)
EXTENDS TurnPermissions

CONSTANTS
  Answers,    \* what `thread/resume` may say
  Inputs,     \* the permissions given on the command line
  Extent,     \* for the properties: the places each scope stands for
  MaxChanges, \* bound on changes of the thread's permissions
  MaxEpoch,   \* bound on the session's epoch
  MaxLate     \* bound on calls given up that may still be executed

ASSUME SidecarPermissionsAssumption ==
  /\ MaxChanges \in Nat /\ MaxEpoch \in Nat \ {0} /\ MaxLate \in Nat
  /\ Inputs \subseteq [Dimension -> {"auto", "true", "false"}]
  /\ \A inputs \in Inputs : \E d \in Dimension : inputs[d] = "auto"
  /\ Answers \subseteq Answer /\ None \notin Answers

VARIABLES
  thread,   \* the answer the app-server would give now
  changes,  \* how often the user changed it
  inputs,   \* CliSessionPermissionInputs
  car,      \* the permissions in CliAppServerPassiveAdapterState
  store,    \* the session's row
  late,     \* calls that may still be executed
  audit,    \* the audited drifts
  turn      \* the last turn requested

permissionVars == <<thread, changes, inputs, car, store, late, audit, turn>>

NewCar(epoch) ==
  [ at |-> "connecting", epoch |-> epoch, startup |-> None, last |-> None,
    effective |-> None, note |-> None, next |-> "ready" ]

PermissionInit ==
  /\ thread \in Answers /\ changes = 0
  /\ inputs \in Inputs
  /\ store = [ live |-> TRUE, run |-> 1, epoch |-> 1, startup |-> None,
               effective |-> None, fresh |-> FALSE ]
  /\ car = NewCar(1)
  /\ late = {} /\ audit = {} /\ turn = None

-----------------------------------------------------------------------------
(* The store. *)

(* A slip for the mutation runs: the startup permissions are pinned again.   *)
PinsAgain(pin) == TRUE

(* ensure_cli_session_startup_permissions_can_pin *)
CanPin(pin) == store.startup \in {None, pin}

(* note_cli_managed_session_permissions *)
Records(note) ==
  /\ store.live /\ note.epoch = store.epoch
  /\ IF note.startup = None THEN store.startup # None ELSE CanPin(note.startup)
  /\ store' = [store EXCEPT !.startup = IF note.startup = None THEN @ ELSE note.startup,
                            !.effective = note.effective, !.fresh = TRUE]

(* invalidate_cli_managed_session_activity_tx *)
ProofLost(row) == [row EXCEPT !.epoch = @ + 1, !.fresh = FALSE]

(* park_cli_managed_session_tx *)
Parked(row) == [row EXCEPT !.live = FALSE, !.startup = None, !.fresh = FALSE]

(* The daemon has stopped the app-server, or an operator asks for it; the    *)
(* session of a turn that nobody observes to its end is parked.              *)
StoreInvalidates ==
  /\ store.live /\ store.epoch < MaxEpoch
  /\ store' = IF car.at = "observing" THEN Parked(store) ELSE ProofLost(store)
  /\ UNCHANGED <<thread, changes, inputs, car, late, audit, turn>>

LateRecord ==
  /\ \E note \in late : Records(note) /\ late' = late \ {note}
  /\ UNCHANGED <<thread, changes, inputs, car, audit, turn>>

-----------------------------------------------------------------------------
(* The sidecar. *)

(* invalidate_passive_adapter_proof: what is current is forgotten, and what  *)
(* the session was started with is not.                                      *)
Drops(at) ==
  /\ store.epoch < MaxEpoch
  /\ store' = IF store.live /\ car.epoch = store.epoch THEN ProofLost(store) ELSE store
  /\ car' = [car EXCEPT !.at = at, !.epoch = store'.epoch, !.last = None,
                        !.effective = None, !.note = None]

(* A slip for the mutation runs: only what was derived is looked at.         *)
MovedAtAll(startup, now) == startup # None /\ startup.resolved # now

(* sync_passive_adapter_permissions_from_snapshot looks for a drift when the *)
(* answer is another than the last one.                                      *)
MayHaveDrifted(startup, now) == startup # None /\ car.last # thread

(* ... and has the startup or the effective permissions recorded.            *)
Syncs(next) ==
  LET now == Resolve(inputs, thread)
      first == IF car.startup = None THEN now ELSE car.startup.resolved
      effective == Effective(first, now)
      drift == DriftDirections(car.startup.snapshot, thread, first, now)
  IN  /\ audit' = IF MayHaveDrifted(car.startup, now) /\ drift # {}
                  THEN audit \cup {[startup |-> car.startup.snapshot, current |-> thread,
                                    direction |-> Combined(drift)]}
                  ELSE audit
      /\ car' = [car EXCEPT
           !.at = "noting", !.next = next,
           !.note = [ epoch |-> car.epoch, effective |-> effective, snapshot |-> thread,
                      startup |-> IF car.startup # None THEN None
                                  ELSE [resolved |-> first, snapshot |-> thread] ]]
      /\ UNCHANGED store

CanSync ==
  /\ Trusted(thread)
  /\ car.startup # None /\ car.last # thread => DriftIsKnown(car.startup.snapshot, thread)

(* run_cli_app_server_passive_adapter_once: an answer that is not believed   *)
(* leaves the sidecar without permissions, but listening.                    *)
Connects ==
  /\ car.at = "connecting"
  /\ \/ CanSync /\ Syncs("ready")
     \/ /\ ~Trusted(thread)
        /\ car' = [car EXCEPT !.at = "ready", !.last = None, !.effective = None]
        /\ UNCHANGED <<store, audit>>
     \/ Drops("connecting") /\ UNCHANGED audit
  /\ UNCHANGED <<thread, changes, inputs, late, turn>>

(* refresh_cli_auto_delivery_permissions, for a turn if the thread is idle.  *)
Refreshes ==
  /\ car.at = "ready"
  /\ \/ CanSync /\ \E next \in {"starting", "ready"} : Syncs(next)
     \/ Drops("connecting") /\ UNCHANGED audit
  /\ UNCHANGED <<thread, changes, inputs, late, turn>>

(* record_passive_adapter_permissions: executed and answered; executed, and  *)
(* no answer comes; not executed.                                            *)
Noted ==
  /\ car.at = "noting"
  /\ Records(car.note)
  /\ car' = [car EXCEPT !.at = car.next, !.last = car.note.snapshot,
                        !.effective = car.note.effective, !.note = None,
                        !.startup = IF @ = None THEN car.note.startup ELSE @]
  /\ UNCHANGED <<thread, changes, inputs, late, audit, turn>>

NotedUnanswered ==
  /\ car.at = "noting"
  /\ Records(car.note)
  /\ UNCHANGED <<thread, changes, inputs, car, late, audit, turn>>

NoteGivenUp ==
  /\ car.at = "noting"
  /\ Drops("connecting")
  /\ UNCHANGED <<thread, changes, inputs, late, audit, turn>>

NoteComesLate ==
  /\ car.at = "noting"
  /\ car.note \notin late /\ Cardinality(late) < MaxLate
  /\ late' = late \cup {car.note}
  /\ UNCHANGED <<thread, changes, inputs, car, store, audit, turn>>

(* turn/start with the overrides, or without a turn.                         *)
StartsTurn ==
  /\ car.at = "starting"
  /\ LET overrides == Overrides(car.startup.snapshot, car.last, car.effective)
     IN  \/ \E o \in overrides :
              /\ turn' = [overrides |-> o, startup |-> car.startup.snapshot, current |-> car.last]
              /\ car' = [car EXCEPT !.at = "observing"]
              /\ UNCHANGED store
         \/ overrides = {} /\ Drops("connecting") /\ UNCHANGED turn
  /\ UNCHANGED <<thread, changes, inputs, late, audit>>

(* A completed turn uses its proof up (resync_passive_adapter_after_durable_ *)
(* invalidation), any other end parks the session.                           *)
TurnEnds ==
  /\ car.at = "observing"
  /\ turn' = None
  /\ \/ store.live /\ Drops("ready")
     \/ /\ store' = Parked(store)
        /\ car' = [NewCar(store.epoch) EXCEPT !.at = "over"]
  /\ UNCHANGED <<thread, changes, inputs, late, audit>>

(* The foreground is started once more: the session is attached again, or    *)
(* replaced where it was parked.                                             *)
StartsAgain ==
  /\ store.epoch < MaxEpoch
  /\ store' = [ProofLost(store) EXCEPT !.run = @ + 1, !.live = TRUE, !.startup = None]
  /\ car' = NewCar(store'.epoch)
  /\ turn' = None
  /\ UNCHANGED <<thread, changes, inputs, late, audit>>

UserChanges ==
  /\ changes < MaxChanges
  /\ changes' = changes + 1
  /\ thread' \in Answers \ {thread}
  /\ UNCHANGED <<inputs, car, store, late, audit, turn>>

PermissionNext ==
  \/ StoreInvalidates \/ LateRecord
  \/ Connects \/ Refreshes
  \/ Noted \/ NotedUnanswered \/ NoteGivenUp \/ NoteComesLate
  \/ StartsTurn \/ TurnEnds
  \/ StartsAgain \/ UserChanges

PermissionSpec == PermissionInit /\ [][PermissionNext]_permissionVars

-----------------------------------------------------------------------------
PermissionTypeOK ==
  /\ thread \in Answers /\ changes \in 0..MaxChanges /\ inputs \in Inputs
  /\ car.at \in {"connecting", "ready", "noting", "starting", "observing", "over"}
  /\ {car.effective, store.effective} \subseteq [Dimension -> BOOLEAN] \cup {None}
  /\ car.epoch \in 1..MaxEpoch /\ store.epoch \in 1..MaxEpoch /\ car.epoch <= store.epoch

Places(names) == UNION {Extent[n] : n \in names}

(* What scopes stand for: "root" for everything, a path for all that is      *)
(* below it. The roots an answer lists beside a profile of project roots are *)
(* such; write_covers_workspace_root (cli.rs:5547) takes that for granted.   *)
ASSUME ExtentAssumption ==
  /\ \A n \in ScopeName : Extent[n] \subseteq Extent["root"]
  /\ Extent[Top] = Extent["root"] /\ Extent["slash_tmp"] = Extent[Tmp]
  /\ \A p \in Path : \A q \in Above[p] : Extent[p] \subseteq Extent[q]
  /\ \A a \in Answers :
       a.profile # None /\ "project_roots" \in ProfileScope(a).writes
         => \A r \in a.sandbox.roots \ Unsafe : Extent[r] \subseteq Places(ProfileScope(a).writes)

(* What an answer allows the thread: its profile says so, or its sandbox.    *)

GrantedBy(snapshot) ==
  IF snapshot.profile # None THEN ProfileScope(snapshot)
  ELSE IF snapshot.sandbox.type = "externalSandbox" THEN FullScope("external", snapshot.sandbox.network)
  ELSE SandboxScope(snapshot.sandbox)

GrantedTo(overrides) ==
  IF overrides.selection # None THEN SelectionScope(overrides.selection)
  ELSE GrantedBy([profile |-> None, sandbox |-> overrides.sandbox])

Writable(s) == Places(IF s.kind = "external" THEN {"root"} ELSE s.writes) \ Places(s.denies)
Readable(s) == (Places(s.reads) \cup Writable(s)) \ Places(s.denies)

Narrower(s, cap) == Writable(s) \subseteq Writable(cap) /\ Readable(s) \subseteq Readable(cap)

(* A turn that is started is allowed no more than the thread was when the    *)
(* session started, and no more than it is now, whatever forms the answers   *)
(* took and whichever form the request takes; what the command line denies   *)
(* it does not get.                                                          *)
NeverWider ==
  turn # None =>
    LET asked == turn.overrides
        granted == GrantedTo(asked)
    IN  /\ \A cap \in {turn.startup, turn.current} :
             /\ RiskRank(asked.policy) <= RiskRank(cap.policy)
             /\ Narrower(granted, GrantedBy(cap))
             /\ inputs.network = "auto" /\ granted.network => cap.sandbox.network
        /\ inputs.approval = "false" => asked.policy = "never"
        /\ inputs.network = "false" => ~granted.network
        /\ inputs.write = "false" => ~granted.write

(* The permissions pinned first stay the session's as long as its foreground *)
(* runs: calls without an answer, lost proofs and new connections neither    *)
(* replace nor clear them, nor does the sidecar ever go by others            *)
(* (docs/design/CLI_SHARED_APP_SERVER_SIDECAR_DESIGN.md:154).                *)
StartupKept ==
  [][store'.live /\ store'.run = store.run =>
       /\ store.startup # None => store'.startup = store.startup
       /\ car'.startup \in {None, store'.startup}]_permissionVars

(* No turn starts with permissions that have moved since the session started *)
(* unless the move was audited, and never as a tightening when something     *)
(* became possible, nor as a loosening when something no longer is           *)
(* (docs/design/CLI_SHARED_APP_SERVER_SIDECAR_DESIGN.md:494).                *)
AtMost(s, cap) ==
  /\ RiskRank(s.policy) <= RiskRank(cap.policy)
  /\ \A d \in Dimension : Resolve(inputs, s)[d] => Resolve(inputs, cap)[d]
  /\ Narrower(GrantedBy(s), GrantedBy(cap))

DriftIsAudited ==
  turn # None /\ turn.current # turn.startup =>
    \E drift \in audit :
      /\ drift.startup = turn.startup /\ drift.current = turn.current
      /\ drift.direction = "tightened" => AtMost(turn.current, turn.startup)
      /\ drift.direction = "loosened" => AtMost(turn.startup, turn.current)
=============================================================================
