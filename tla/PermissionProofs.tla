-------------------------- MODULE PermissionProofs --------------------------
(***************************************************************************)
(* The types of a session's permissions, the pin of its startup            *)
(* permissions, the cap on its turns and the audit of what moved, for any  *)
(* answers of the app-server, any command line, any paths and any number   *)
(* of reconnections, lost answers and late calls.                          *)
(*                                                                         *)
(* StartupKept is about steps, and a step that takes over what the store   *)
(* has pinned keeps it only because sidecar and store agreed before, and   *)
(* because the note under way does not pin anew once the sidecar has its   *)
(* startup permissions. That is PinInv.                                    *)
(*                                                                         *)
(* NeverWider joins two arguments. One is about the comparisons of the     *)
(* source, whatever the state: each form a request can take is, place by   *)
(* place, within what both answers grant (OverridesAreNarrower). The other *)
(* is about the steps: what a turn is started with was derived from two    *)
(* answers that were believed, the pinned one and the one recorded last    *)
(* (CapInv). DriftIsAudited follows from the same invariant, which keeps   *)
(* the drift of what the sidecar goes by in the audit, and from what the   *)
(* directions mean (DriftFacts).                                           *)
(***************************************************************************)
EXTENDS SidecarPermissions, FiniteSetTheorems, TLAPS

Permissions == [Dimension -> BOOLEAN]
Pin == [resolved : {Resolve(i, a) : i \in Inputs, a \in Answers}, snapshot : Answers]

NoteRecord ==
  [ epoch : 1 .. MaxEpoch, effective : Permissions, snapshot : Answers, startup : Pin \cup {None} ]

CarRecord ==
  [ at : {"connecting", "ready", "noting", "starting", "observing", "over"},
    epoch : 1 .. MaxEpoch, startup : Pin \cup {None}, last : Answers \cup {None},
    effective : Permissions \cup {None}, note : NoteRecord \cup {None},
    next : {"ready", "starting"} ]

StoreRecord ==
  [ live : BOOLEAN, run : Nat, epoch : 1 .. MaxEpoch, startup : Pin \cup {None},
    effective : Permissions \cup {None}, fresh : BOOLEAN ]

TypeInv ==
  /\ thread \in Answers /\ changes \in 0 .. MaxChanges /\ inputs \in Inputs
  /\ car \in CarRecord /\ store \in StoreRecord
  /\ car.epoch <= store.epoch
  /\ car.at = "noting" => car.note \in NoteRecord
  /\ late \subseteq NoteRecord

(* The sidecar goes by what the store has pinned, if by anything. *)
Agree == store.live => car.startup \in {None, store.startup}

(* A sidecar with startup permissions has only its effective ones recorded. *)
NotesOnce == car.at = "noting" /\ car.startup # None => car.note.startup = None

PinInv == TypeInv /\ Agree /\ NotesOnce

-----------------------------------------------------------------------------
(* Each way a step changes the row or the sidecar keeps their types. *)

(* The row after a note was recorded: types, and what became of the pin. *)
LEMMA RecordsFacts ==
  ASSUME store \in StoreRecord, NEW note \in NoteRecord, Records(note)
  PROVE  /\ store' \in StoreRecord
         /\ store.live /\ store'.live /\ store'.run = store.run /\ store'.epoch = store.epoch
         /\ store.startup # None => store'.startup = store.startup
         /\ store'.startup = IF note.startup = None THEN store.startup ELSE note.startup
<1>. DEFINE pin == IF note.startup = None THEN store.startup ELSE note.startup
<1>1. pin \in Pin \cup {None} /\ note.effective \in Permissions \cup {None}
  BY DEF NoteRecord, StoreRecord
<1>2. store' = [store EXCEPT !.startup = pin, !.effective = note.effective, !.fresh = TRUE]
  BY DEF Records
<1>3. store.startup # None => pin = store.startup BY DEF Records, CanPin
<1>4. store.live BY DEF Records
<1>. HIDE DEF pin
<1>5. ASSUME NEW P, NEW E, NEW s \in [live : BOOLEAN, run : Nat, epoch : 1 .. MaxEpoch, startup : P,
                                     effective : E, fresh : BOOLEAN],
             NEW p \in P, NEW e \in E,
             NEW s2, s2 = [s EXCEPT !.startup = p, !.effective = e, !.fresh = TRUE]
      PROVE  /\ s2 \in [live : BOOLEAN, run : Nat, epoch : 1 .. MaxEpoch, startup : P,
                        effective : E, fresh : BOOLEAN]
             /\ s2.live = s.live /\ s2.run = s.run /\ s2.epoch = s.epoch /\ s2.startup = p
  BY <1>5
<1>6. /\ store' \in StoreRecord
      /\ store'.live = store.live /\ store'.run = store.run /\ store'.epoch = store.epoch
      /\ store'.startup = pin
  BY <1>1, <1>2, <1>5 DEF StoreRecord
<1>. QED BY <1>3, <1>4, <1>6 DEF pin

(* The row whose proof is lost keeps its pin. *)
LEMMA ProofLostFacts ==
  ASSUME NEW s \in StoreRecord, s.epoch < MaxEpoch
  PROVE  /\ ProofLost(s) \in StoreRecord /\ ProofLost(s).epoch = s.epoch + 1
         /\ ProofLost(s).live = s.live /\ ProofLost(s).run = s.run
         /\ ProofLost(s).startup = s.startup
<1>1. s.epoch + 1 \in 1 .. MaxEpoch BY SidecarPermissionsAssumption DEF StoreRecord
<1>2. ASSUME NEW P, NEW E, NEW r \in [live : BOOLEAN, run : Nat, epoch : 1 .. MaxEpoch, startup : P,
                                     effective : E, fresh : BOOLEAN],
             NEW n \in 1 .. MaxEpoch, NEW r2, r2 = [r EXCEPT !.epoch = n, !.fresh = FALSE]
      PROVE  /\ r2 \in [live : BOOLEAN, run : Nat, epoch : 1 .. MaxEpoch, startup : P,
                        effective : E, fresh : BOOLEAN]
             /\ r2.live = r.live /\ r2.run = r.run /\ r2.startup = r.startup /\ r2.epoch = n
  BY <1>2
<1>3. ProofLost(s) = [s EXCEPT !.epoch = s.epoch + 1, !.fresh = FALSE] BY DEF ProofLost
<1>. QED BY ZenonT(60), <1>1, <1>2, <1>3 DEF StoreRecord

(* A parked row is not live. *)
LEMMA ParkedFacts ==
  ASSUME NEW s \in StoreRecord
  PROVE  /\ Parked(s) \in StoreRecord /\ ~Parked(s).live
         /\ Parked(s).epoch = s.epoch
<1>1. ASSUME NEW P, NEW E, None \in P,
             NEW r \in [live : BOOLEAN, run : Nat, epoch : 1 .. MaxEpoch, startup : P,
                        effective : E, fresh : BOOLEAN],
             NEW r2, r2 = [r EXCEPT !.live = FALSE, !.startup = None, !.fresh = FALSE]
      PROVE  /\ r2 \in [live : BOOLEAN, run : Nat, epoch : 1 .. MaxEpoch, startup : P,
                        effective : E, fresh : BOOLEAN]
             /\ ~r2.live /\ r2.epoch = r.epoch
  BY <1>1
<1>. QED BY <1>1 DEF Parked, StoreRecord

(* A new sidecar is of its type and goes by no startup permissions. *)
LEMMA NewCarFacts ==
  ASSUME NEW epoch \in 1 .. MaxEpoch
  PROVE  /\ NewCar(epoch) \in CarRecord /\ NewCar(epoch).startup = None
         /\ NewCar(epoch).at = "connecting" /\ NewCar(epoch).epoch = epoch
BY DEF NewCar, CarRecord

(* Where the proof is dropped, pin and startup permissions stay. *)
LEMMA DropsFacts ==
  ASSUME TypeInv, NEW at \in {"connecting", "ready"}, Drops(at)
  PROVE  /\ car' \in CarRecord /\ store' \in StoreRecord /\ car'.epoch <= store'.epoch
         /\ car'.at = at /\ car'.startup = car.startup
         /\ store'.live = store.live /\ store'.run = store.run /\ store'.startup = store.startup
<1>1. store \in StoreRecord /\ store.epoch < MaxEpoch BY DEF TypeInv, Drops
<1>2. store' = ProofLost(store) \/ store' = store BY DEF Drops
<1>3. /\ store' \in StoreRecord
      /\ store'.live = store.live /\ store'.run = store.run /\ store'.startup = store.startup
  BY <1>1, <1>2, ProofLostFacts
<1>4. store'.epoch \in 1 .. MaxEpoch BY <1>3 DEF StoreRecord
<1>5. ASSUME NEW S, NEW L, NEW E, NEW N, None \in L, None \in E, None \in N,
             NEW r \in [at : {"connecting", "ready", "noting", "starting", "observing", "over"},
                        epoch : 1 .. MaxEpoch, startup : S, last : L, effective : E, note : N,
                        next : {"ready", "starting"}],
             NEW n \in 1 .. MaxEpoch,
             NEW r2, r2 = [r EXCEPT !.at = at, !.epoch = n, !.last = None,
                                    !.effective = None, !.note = None]
      PROVE  /\ r2 \in [at : {"connecting", "ready", "noting", "starting", "observing", "over"},
                         epoch : 1 .. MaxEpoch, startup : S, last : L, effective : E, note : N,
                         next : {"ready", "starting"}]
             /\ r2.at = at /\ r2.epoch = n /\ r2.startup = r.startup
  BY <1>5
<1>6. car' = [car EXCEPT !.at = at, !.epoch = store'.epoch, !.last = None,
                         !.effective = None, !.note = None]
  BY DEF Drops
<1>7. car \in CarRecord BY DEF TypeInv
<1>8. /\ car' \in CarRecord
      /\ car'.at = at /\ car'.epoch = store'.epoch /\ car'.startup = car.startup
  BY <1>4, <1>5, <1>6, <1>7 DEF CarRecord
<1>. QED BY <1>3, <1>4, <1>8

(* A note to record is of its type, and pins only if nothing is pinned yet. *)
LEMMA SyncsFacts ==
  ASSUME TypeInv, NEW next \in {"ready", "starting"}, Syncs(next)
  PROVE  /\ car' \in CarRecord /\ car'.at = "noting" /\ car'.note \in NoteRecord
         /\ car'.epoch = car.epoch /\ car'.startup = car.startup
         /\ car'.startup # None => car'.note.startup = None
         /\ store' = store
<1>. DEFINE now == Resolve(inputs, thread)
            first == IF car.startup = None THEN now ELSE car.startup.resolved
            note == [ epoch |-> car.epoch, effective |-> Effective(first, now), snapshot |-> thread,
                      startup |-> IF car.startup # None THEN None
                                  ELSE [resolved |-> first, snapshot |-> thread] ]
<1>1. car \in CarRecord /\ thread \in Answers /\ inputs \in Inputs BY DEF TypeInv
<1>2. Effective(first, now) \in Permissions BY DEF Effective, Permissions
<1>3. car.startup = None => [resolved |-> first, snapshot |-> thread] \in Pin
  <2>1. now \in {Resolve(i, a) : i \in Inputs, a \in Answers} BY <1>1
  <2>. HIDE DEF now
  <2>. QED BY <1>1, <2>1 DEF Pin
<1>4. car.epoch \in 1 .. MaxEpoch BY <1>1 DEF CarRecord
<1>. HIDE DEF now, first
<1>5. note \in NoteRecord BY <1>1, <1>2, <1>3, <1>4 DEF NoteRecord
<1>6. car.startup # None => note.startup = None OBVIOUS
<1>7. car' = [car EXCEPT !.at = "noting", !.next = next, !.note = note] /\ store' = store
  BY DEF Syncs, now, first
<1>. HIDE DEF note
<1>8. ASSUME NEW S, NEW L, NEW E, NEW N,
             NEW r \in [at : {"connecting", "ready", "noting", "starting", "observing", "over"},
                        epoch : 1 .. MaxEpoch, startup : S, last : L, effective : E, note : N,
                        next : {"ready", "starting"}],
             NEW n \in N,
             NEW r2, r2 = [r EXCEPT !.at = "noting", !.next = next, !.note = n]
      PROVE  /\ r2 \in [at : {"connecting", "ready", "noting", "starting", "observing", "over"},
                         epoch : 1 .. MaxEpoch, startup : S, last : L, effective : E, note : N,
                         next : {"ready", "starting"}]
             /\ r2.at = "noting" /\ r2.note = n /\ r2.epoch = r.epoch /\ r2.startup = r.startup
  BY <1>8
<1>9. /\ car' \in CarRecord /\ car'.at = "noting" /\ car'.note = note
      /\ car'.epoch = car.epoch /\ car'.startup = car.startup
  BY <1>1, <1>5, <1>7, <1>8 DEF CarRecord
<1>. QED BY <1>5, <1>6, <1>7, <1>9

(* What a sidecar holds after its note was answered. *)
LEMMA NotedFacts ==
  ASSUME TypeInv, car.at = "noting", Noted
  PROVE  /\ car' \in CarRecord /\ car'.at # "noting" /\ car'.epoch = car.epoch
         /\ car'.startup = IF car.startup = None THEN car.note.startup ELSE car.startup
<1>1. car \in CarRecord /\ car.note \in NoteRecord BY DEF TypeInv
<1>. DEFINE pin == IF car.startup = None THEN car.note.startup ELSE car.startup
<1>2. /\ pin \in Pin \cup {None} /\ car.note.snapshot \in Answers \cup {None}
      /\ car.note.effective \in Permissions \cup {None} /\ car.next \in {"ready", "starting"}
  BY <1>1 DEF NoteRecord, CarRecord
<1>3. car' = [car EXCEPT !.at = car.next, !.last = car.note.snapshot,
                         !.effective = car.note.effective, !.note = None, !.startup = pin]
  BY <1>1 DEF Noted, CarRecord
<1>. HIDE DEF pin
<1>4. ASSUME NEW S, NEW L, NEW E, NEW N, None \in N,
             NEW r \in [at : {"connecting", "ready", "noting", "starting", "observing", "over"},
                        epoch : 1 .. MaxEpoch, startup : S, last : L, effective : E, note : N,
                        next : {"ready", "starting"}],
             NEW s \in S, NEW l \in L, NEW e \in E, NEW n \in {"ready", "starting"},
             NEW r2, r2 = [r EXCEPT !.at = n, !.last = l, !.effective = e, !.note = None, !.startup = s]
      PROVE  /\ r2 \in [at : {"connecting", "ready", "noting", "starting", "observing", "over"},
                         epoch : 1 .. MaxEpoch, startup : S, last : L, effective : E, note : N,
                         next : {"ready", "starting"}]
             /\ r2.at = n /\ r2.epoch = r.epoch /\ r2.startup = s
  BY <1>4
<1>5. /\ car' \in CarRecord /\ car'.at = car.next /\ car'.epoch = car.epoch /\ car'.startup = pin
  BY <1>1, <1>2, <1>3, <1>4 DEF CarRecord
<1>. QED BY <1>2, <1>5 DEF pin

(* The sidecar goes elsewhere, and forgets at most what is current. *)
LEMMA MovesFacts ==
  ASSUME TypeInv, NEW at \in {"ready", "observing"},
         \/ car' = [car EXCEPT !.at = at]
         \/ car' = [car EXCEPT !.at = at, !.last = None, !.effective = None]
  PROVE  /\ car' \in CarRecord /\ car'.at # "noting"
         /\ car'.epoch = car.epoch /\ car'.startup = car.startup
<1>1. ASSUME NEW S, NEW L, NEW E, NEW N, None \in L, None \in E,
             NEW r \in [at : {"connecting", "ready", "noting", "starting", "observing", "over"},
                        epoch : 1 .. MaxEpoch, startup : S, last : L, effective : E, note : N,
                        next : {"ready", "starting"}],
             NEW r2, \/ r2 = [r EXCEPT !.at = at]
                     \/ r2 = [r EXCEPT !.at = at, !.last = None, !.effective = None]
      PROVE  /\ r2 \in [at : {"connecting", "ready", "noting", "starting", "observing", "over"},
                         epoch : 1 .. MaxEpoch, startup : S, last : L, effective : E, note : N,
                         next : {"ready", "starting"}]
             /\ r2.at = at /\ r2.epoch = r.epoch /\ r2.startup = r.startup
  <2>1. CASE r2 = [r EXCEPT !.at = at] BY <2>1
  <2>2. CASE r2 = [r EXCEPT !.at = at, !.last = None, !.effective = None] BY <2>2, <1>1
  <2>. QED BY <1>1, <2>1, <2>2
<1>2. car \in CarRecord BY DEF TypeInv
<1>3. car' \in CarRecord /\ car'.at = at /\ car'.epoch = car.epoch /\ car'.startup = car.startup
  BY <1>1, <1>2 DEF CarRecord
<1>. QED BY <1>3

-----------------------------------------------------------------------------
(* Whether a step keeps the pin, as StartupKept says. *)
PinKept ==
  store'.live /\ store'.run = store.run =>
    /\ store.startup # None => store'.startup = store.startup
    /\ car'.startup \in {None, store'.startup}

(* What the lemmas above say of a step is enough for the invariant and for   *)
(* the pin.                                                                  *)
LEMMA CarAlone ==
  ASSUME PinInv, thread' \in Answers, changes' \in 0 .. MaxChanges, inputs' = inputs,
         late' \subseteq NoteRecord, store' = store,
         car' \in CarRecord, car'.epoch = car.epoch, car'.startup = car.startup,
         car'.at = "noting" => /\ car'.note \in NoteRecord
                               /\ car'.startup # None => car'.note.startup = None
  PROVE  PinInv' /\ PinKept
<1>1. TypeInv' BY DEF PinInv, TypeInv
<1>2. Agree' BY DEF PinInv, Agree
<1>3. NotesOnce' BY DEF NotesOnce
<1>4. PinKept BY DEF PinKept, PinInv, Agree
<1>. QED BY <1>1, <1>2, <1>3, <1>4 DEF PinInv

(* Dropping the proof keeps invariant and pin. *)
LEMMA DropsKeeps ==
  ASSUME PinInv, NEW at \in {"connecting", "ready"}, Drops(at),
         UNCHANGED <<thread, changes, inputs, late>>
  PROVE  PinInv' /\ PinKept
<1>1. /\ car' \in CarRecord /\ store' \in StoreRecord /\ car'.epoch <= store'.epoch
      /\ car'.at = at /\ car'.startup = car.startup
      /\ store'.live = store.live /\ store'.run = store.run /\ store'.startup = store.startup
  BY DropsFacts DEF PinInv
<1>2. TypeInv' BY <1>1 DEF PinInv, TypeInv
<1>3. Agree' BY <1>1 DEF PinInv, Agree
<1>4. NotesOnce' BY <1>1 DEF NotesOnce
<1>5. PinKept BY <1>1 DEF PinKept, PinInv, Agree
<1>. QED BY <1>2, <1>3, <1>4, <1>5 DEF PinInv

(* So does recording a note, while the sidecar stays as it is. *)
LEMMA RecordsKeeps ==
  ASSUME PinInv, NEW note \in NoteRecord, Records(note), car' = car, late' \subseteq NoteRecord,
         UNCHANGED <<thread, changes, inputs>>
  PROVE  PinInv' /\ PinKept
<1>1. /\ store' \in StoreRecord
      /\ store.live /\ store'.live /\ store'.run = store.run /\ store'.epoch = store.epoch
      /\ store.startup # None => store'.startup = store.startup
  BY RecordsFacts DEF PinInv, TypeInv
<1>2. car.startup \in {None, store'.startup} BY <1>1 DEF PinInv, Agree
<1>3. TypeInv' BY <1>1 DEF PinInv, TypeInv
<1>4. Agree' BY <1>2 DEF Agree
<1>5. NotesOnce' BY DEF PinInv, NotesOnce
<1>6. PinKept BY <1>1, <1>2 DEF PinKept
<1>. QED BY <1>3, <1>4, <1>5, <1>6 DEF PinInv

(* A step that changes nothing but the last turn and the audit. *)
LEMMA NothingChanges ==
  ASSUME PinInv, UNCHANGED <<thread, changes, inputs, car, store, late>>
  PROVE  PinInv' /\ PinKept
<1>1. car \in CarRecord BY DEF PinInv, TypeInv
<1>. QED BY <1>1, CarAlone DEF PinInv, TypeInv, NotesOnce

(* The store's own steps. *)
LEMMA StoreKeeps == PinInv /\ (StoreInvalidates \/ LateRecord) => PinInv' /\ PinKept
<1>. SUFFICES ASSUME PinInv, StoreInvalidates \/ LateRecord PROVE PinInv' /\ PinKept OBVIOUS
<1>1. CASE StoreInvalidates
  <2>1. /\ store \in StoreRecord /\ store.epoch < MaxEpoch
        /\ store' = Parked(store) \/ store' = ProofLost(store)
        /\ UNCHANGED <<thread, changes, inputs, car, late>>
    BY <1>1 DEF StoreInvalidates, PinInv, TypeInv
  <2>2. /\ store' \in StoreRecord /\ store'.epoch \in {store.epoch, store.epoch + 1}
        /\ store'.live => store.live /\ store'.startup = store.startup
    BY <2>1, ProofLostFacts, ParkedFacts
  <2>3. car.epoch \in Nat /\ store.epoch \in Nat /\ store'.epoch \in Nat
    BY <2>1, <2>2 DEF PinInv, TypeInv, CarRecord, StoreRecord
  <2>4. car.epoch <= store'.epoch BY <2>2, <2>3 DEF PinInv, TypeInv
  <2>5. TypeInv' BY <2>1, <2>2, <2>4 DEF PinInv, TypeInv
  <2>6. Agree' BY <2>1, <2>2 DEF PinInv, Agree
  <2>7. NotesOnce' BY <2>1 DEF PinInv, NotesOnce
  <2>8. PinKept BY <2>1, <2>2 DEF PinKept, PinInv, Agree
  <2>. QED BY <2>5, <2>6, <2>7, <2>8 DEF PinInv
<1>2. CASE LateRecord
  <2>1. PICK note \in late : Records(note) /\ late' = late \ {note} BY <1>2 DEF LateRecord
  <2>2. note \in NoteRecord /\ late' \subseteq NoteRecord BY <2>1 DEF PinInv, TypeInv
  <2>. QED BY <1>2, <2>1, <2>2, RecordsKeeps DEF LateRecord
<1>. QED BY <1>1, <1>2

(* The sidecar's notes. *)
LEMMA NotesKeep ==
  PinInv /\ (Noted \/ NotedUnanswered \/ NoteGivenUp \/ NoteComesLate) => PinInv' /\ PinKept
<1>. SUFFICES ASSUME PinInv, Noted \/ NotedUnanswered \/ NoteGivenUp \/ NoteComesLate
              PROVE PinInv' /\ PinKept
  OBVIOUS
<1>1. car.at = "noting" BY DEF Noted, NotedUnanswered, NoteGivenUp, NoteComesLate
<1>2. car.note \in NoteRecord /\ car \in CarRecord /\ late \subseteq NoteRecord
  BY <1>1 DEF PinInv, TypeInv
<1>3. CASE Noted
  <2>1. /\ car' \in CarRecord /\ car'.at # "noting" /\ car'.epoch = car.epoch
        /\ car'.startup = IF car.startup = None THEN car.note.startup ELSE car.startup
    BY <1>1, <1>3, NotedFacts DEF PinInv
  <2>2. /\ store' \in StoreRecord
        /\ store.live /\ store'.live /\ store'.run = store.run /\ store'.epoch = store.epoch
        /\ store.startup # None => store'.startup = store.startup
        /\ store'.startup = IF car.note.startup = None THEN store.startup ELSE car.note.startup
    BY <1>2, <1>3, RecordsFacts DEF Noted, PinInv, TypeInv
  <2>3. UNCHANGED <<thread, changes, inputs, late>> BY <1>3 DEF Noted
  <2>4. car'.startup \in {None, store'.startup} BY <1>1, <2>1, <2>2 DEF PinInv, Agree, NotesOnce
  <2>5. TypeInv' BY <2>1, <2>2, <2>3 DEF PinInv, TypeInv
  <2>6. Agree' BY <2>4 DEF Agree
  <2>7. NotesOnce' BY <2>1 DEF NotesOnce
  <2>8. PinKept BY <2>2, <2>4 DEF PinKept
  <2>. QED BY <2>5, <2>6, <2>7, <2>8 DEF PinInv
<1>4. CASE NotedUnanswered BY <1>2, <1>4, RecordsKeeps DEF NotedUnanswered
<1>5. CASE NoteGivenUp BY <1>5, DropsKeeps DEF NoteGivenUp
<1>6. CASE NoteComesLate
  <2>1. late' \subseteq NoteRecord BY <1>2, <1>6 DEF NoteComesLate
  <2>. QED BY <1>2, <1>6, <2>1, CarAlone DEF NoteComesLate, PinInv, TypeInv, NotesOnce
<1>. QED BY <1>3, <1>4, <1>5, <1>6

(* Connecting, refreshing, and the turn. *)
LEMMA CarKeeps ==
  PinInv /\ (Connects \/ Refreshes \/ StartsTurn \/ TurnEnds) => PinInv' /\ PinKept
<1>. SUFFICES ASSUME PinInv, Connects \/ Refreshes \/ StartsTurn \/ TurnEnds
              PROVE PinInv' /\ PinKept
  OBVIOUS
<1>1. TypeInv /\ car \in CarRecord /\ store \in StoreRecord BY DEF PinInv, TypeInv
<1>2. ASSUME NEW next \in {"ready", "starting"}, Syncs(next), UNCHANGED <<thread, changes, inputs, late>>
      PROVE  PinInv' /\ PinKept
  <2>1. /\ car' \in CarRecord /\ car'.at = "noting" /\ car'.note \in NoteRecord
        /\ car'.epoch = car.epoch /\ car'.startup = car.startup
        /\ car'.startup # None => car'.note.startup = None
        /\ store' = store
    BY <1>1, <1>2, SyncsFacts
  <2>. QED BY <1>2, <2>1, CarAlone DEF PinInv, TypeInv
<1>3. ASSUME NEW at \in {"ready", "observing"}, store' = store,
             UNCHANGED <<thread, changes, inputs, late>>,
             \/ car' = [car EXCEPT !.at = at]
             \/ car' = [car EXCEPT !.at = at, !.last = None, !.effective = None]
      PROVE  PinInv' /\ PinKept
  <2>1. /\ car' \in CarRecord /\ car'.at # "noting"
        /\ car'.epoch = car.epoch /\ car'.startup = car.startup
    BY <1>1, <1>3, MovesFacts
  <2>. QED BY <1>3, <2>1, CarAlone DEF PinInv, TypeInv
<1>4. CASE Connects
  <2>1. CASE Syncs("ready") BY <1>2, <1>4, <2>1 DEF Connects
  <2>2. CASE /\ car' = [car EXCEPT !.at = "ready", !.last = None, !.effective = None]
             /\ UNCHANGED store
    BY <1>3, <1>4, <2>2 DEF Connects
  <2>3. CASE Drops("connecting") BY <1>4, <2>3, DropsKeeps DEF Connects
  <2>. QED BY <1>4, <2>1, <2>2, <2>3 DEF Connects
<1>5. CASE Refreshes
  <2>1. ASSUME NEW next \in {"starting", "ready"}, Syncs(next) PROVE PinInv' /\ PinKept
    BY <1>2, <1>5, <2>1 DEF Refreshes
  <2>2. CASE Drops("connecting") BY <1>5, <2>2, DropsKeeps DEF Refreshes
  <2>. QED BY <1>5, <2>1, <2>2 DEF Refreshes
<1>6. CASE StartsTurn
  <2>1. UNCHANGED <<thread, changes, inputs, late>> BY <1>6 DEF StartsTurn
  <2>2. \/ car' = [car EXCEPT !.at = "observing"] /\ store' = store
        \/ Drops("connecting")
    BY <1>6, Zenon DEF StartsTurn
  <2>. QED BY <1>3, <2>1, <2>2, DropsKeeps
<1>7. CASE TurnEnds
  <2>1. UNCHANGED <<thread, changes, inputs, late>> BY <1>7 DEF TurnEnds
  <2>2. CASE Drops("ready") BY <2>1, <2>2, DropsKeeps
  <2>3. CASE /\ store' = Parked(store)
             /\ car' = [NewCar(store.epoch) EXCEPT !.at = "over"]
    <3>1. store' \in StoreRecord /\ ~store'.live /\ store'.epoch = store.epoch
      BY <1>1, <2>3, ParkedFacts
    <3>2. store.epoch \in 1 .. MaxEpoch BY <1>1 DEF StoreRecord
    <3>3. car' = [at |-> "over", epoch |-> store.epoch, startup |-> None, last |-> None,
                  effective |-> None, note |-> None, next |-> "ready"]
      BY <2>3 DEF NewCar
    <3>4. car' \in CarRecord /\ car'.at = "over" /\ car'.epoch = store.epoch BY <3>2, <3>3 DEF CarRecord
    <3>5. TypeInv' BY <1>1, <2>1, <3>1, <3>2, <3>4 DEF TypeInv
    <3>6. Agree' /\ NotesOnce' /\ PinKept BY <3>1, <3>4 DEF Agree, NotesOnce, PinKept
    <3>. QED BY <3>5, <3>6 DEF PinInv
  <2>. QED BY <1>7, <2>2, <2>3 DEF TurnEnds
<1>. QED BY <1>4, <1>5, <1>6, <1>7

(* A new run of the foreground, and the user. *)
LEMMA OthersKeep == PinInv /\ (StartsAgain \/ UserChanges) => PinInv' /\ PinKept
<1>. SUFFICES ASSUME PinInv, StartsAgain \/ UserChanges PROVE PinInv' /\ PinKept OBVIOUS
<1>1. TypeInv /\ car \in CarRecord /\ store \in StoreRecord BY DEF PinInv, TypeInv
<1>2. CASE StartsAgain
  <2>1. store.epoch < MaxEpoch /\ UNCHANGED <<thread, changes, inputs, late>>
    BY <1>2 DEF StartsAgain
  <2>. DEFINE lost == ProofLost(store)
  <2>2. lost \in StoreRecord /\ lost.epoch = store.epoch + 1 /\ lost.run = store.run
    BY <1>1, <2>1, ProofLostFacts
  <2>3. store' = [lost EXCEPT !.run = lost.run + 1, !.live = TRUE, !.startup = None]
    BY <1>2, <2>2 DEF StartsAgain, StoreRecord
  <2>. HIDE DEF lost
  <2>4. lost.run + 1 \in Nat /\ lost.run + 1 # lost.run BY <2>2 DEF StoreRecord
  <2>5. ASSUME NEW P, NEW E, None \in P,
               NEW r \in [live : BOOLEAN, run : Nat, epoch : 1 .. MaxEpoch, startup : P,
                          effective : E, fresh : BOOLEAN],
               NEW n \in Nat, NEW r2, r2 = [r EXCEPT !.run = n, !.live = TRUE, !.startup = None]
        PROVE  /\ r2 \in [live : BOOLEAN, run : Nat, epoch : 1 .. MaxEpoch, startup : P,
                           effective : E, fresh : BOOLEAN]
               /\ r2.run = n /\ r2.epoch = r.epoch
    BY <2>5
  <2>6. store' \in StoreRecord /\ store'.run = lost.run + 1 /\ store'.epoch = lost.epoch
    BY <2>2, <2>3, <2>4, <2>5 DEF StoreRecord
  <2>7. store'.epoch \in 1 .. MaxEpoch /\ store'.run # store.run BY <2>2, <2>4, <2>6 DEF StoreRecord
  <2>8. car' \in CarRecord /\ car'.startup = None /\ car'.at = "connecting" /\ car'.epoch = store'.epoch
    BY <1>2, <2>7, NewCarFacts DEF StartsAgain
  <2>9. TypeInv' BY <1>1, <2>1, <2>6, <2>7, <2>8 DEF TypeInv
  <2>10. Agree' /\ NotesOnce' /\ PinKept BY <2>7, <2>8 DEF Agree, NotesOnce, PinKept
  <2>. QED BY <2>9, <2>10 DEF PinInv
<1>3. CASE UserChanges
  <2>1. thread' \in Answers /\ changes' \in 0 .. MaxChanges
    <3>1. changes \in 0 .. MaxChanges /\ changes < MaxChanges /\ changes' = changes + 1
      BY <1>1, <1>3 DEF UserChanges, TypeInv
    <3>2. changes + 1 \in 0 .. MaxChanges BY <3>1, SidecarPermissionsAssumption
    <3>. QED BY <1>3, <3>1, <3>2 DEF UserChanges
  <2>. QED BY <1>3, <2>1, CarAlone DEF UserChanges, PinInv, TypeInv, NotesOnce
<1>. QED BY <1>2, <1>3

-----------------------------------------------------------------------------
(* What the pin rests on holds at the start ... *)
LEMMA PinInit == PermissionInit => PinInv
<1>. SUFFICES ASSUME PermissionInit PROVE PinInv OBVIOUS
<1>1. 1 \in 1 .. MaxEpoch /\ 0 \in 0 .. MaxChanges BY SidecarPermissionsAssumption
<1>2. car \in CarRecord /\ car.startup = None /\ car.at = "connecting" /\ car.epoch = 1
  BY <1>1, NewCarFacts DEF PermissionInit
<1>3. store \in StoreRecord /\ store.epoch = 1 BY <1>1 DEF PermissionInit, StoreRecord
<1>. QED BY <1>1, <1>2, <1>3 DEF PermissionInit, PinInv, TypeInv, Agree, NotesOnce

(* ... and each step keeps it, and with it the pin. *)
LEMMA PinStep == PinInv /\ [PermissionNext]_permissionVars => PinInv' /\ [PinKept]_permissionVars
<1>1. PinInv /\ UNCHANGED permissionVars => PinInv' /\ PinKept
  <2>. SUFFICES ASSUME PinInv, UNCHANGED permissionVars PROVE PinInv' /\ PinKept OBVIOUS
  <2>1. UNCHANGED <<thread, changes, inputs, car, store, late>> BY DEF permissionVars
  <2>. QED BY <2>1, NothingChanges
<1>2. PinInv /\ PermissionNext => PinInv' /\ PinKept
  BY StoreKeeps, NotesKeep, CarKeeps, OthersKeep DEF PermissionNext
<1>. QED BY <1>1, <1>2

(* The state of a session's permissions is always of its types: epochs of    *)
(* sidecar and store stay in order, and what is held was derived from an     *)
(* answer.                                                                   *)
THEOREM TypeCorrect == PermissionSpec => []PermissionTypeOK
<1>1. PinInv => PermissionTypeOK
  BY DEF PinInv, TypeInv, PermissionTypeOK, CarRecord, StoreRecord, Permissions
<1>. QED BY <1>1, PinInit, PinStep, PTL DEF PermissionSpec

(* The startup permissions that were pinned first stay those the store and   *)
(* the sidecar go by as long as the foreground runs.                         *)
THEOREM StartupKeptAlways == PermissionSpec => StartupKept
<1>1. PinInv /\ [PermissionNext]_permissionVars
        => [ store'.live /\ store'.run = store.run =>
               /\ store.startup # None => store'.startup = store.startup
               /\ car'.startup \in {None, store'.startup} ]_permissionVars
  BY PinStep DEF PinKept
<1>. QED BY <1>1, PinInit, PinStep, PTL DEF PermissionSpec, StartupKept

-----------------------------------------------------------------------------
(* Scopes: what the comparisons of the source accept is no wider, place by   *)
(* place.                                                                    *)

(* A path that names reach is one of the places they stand for. *)
LEMMA ReachedIsThere ==
  ASSUME NEW names, NEW p \in Path, Reach(names, p)
  PROVE  Extent[p] \subseteq Places(names)
<1>1. CASE "root" \in names
  BY <1>1, ExtentAssumption DEF Places, ScopeName
<1>2. CASE "slash_tmp" \in names /\ Tmp \in Above[p]
  BY <1>2, ExtentAssumption DEF Places
<1>3. CASE names \cap Above[p] # {}
  BY <1>3, ExtentAssumption DEF Places
<1>. QED BY <1>1, <1>2, <1>3 DEF Reach

(* A name that is covered stands for places that are covered, as is each     *)
(* name where the top is.                                                    *)
LEMMA CoveredIsThere ==
  ASSUME NEW names, NEW n \in ScopeName
  PROVE  /\ n \in names => Extent[n] \subseteq Places(names)
         /\ n \in Path \cup {"root", "slash_tmp"} /\ Reach(names, PathOf(n))
              => Extent[n] \subseteq Places(names)
         /\ Reach(names, Top) => Extent[n] \subseteq Places(names)
<1>1. Top \in Path /\ Tmp \in Path BY PathAssumption
<1>2. n \in names => Extent[n] \subseteq Places(names) BY DEF Places
<1>3. ASSUME n \in Path \cup {"root", "slash_tmp"}, Reach(names, PathOf(n))
      PROVE  Extent[n] \subseteq Places(names)
  <2>1. PathOf(n) \in Path /\ Extent[PathOf(n)] = Extent[n] BY <1>1, <1>3, ExtentAssumption DEF PathOf
  <2>. QED BY <1>3, <2>1, ReachedIsThere
<1>4. ASSUME Reach(names, Top) PROVE Extent[n] \subseteq Places(names)
  <2>1. Extent[Top] \subseteq Places(names) BY <1>1, <1>4, ReachedIsThere
  <2>. QED BY <2>1, ExtentAssumption
<1>. QED BY <1>2, <1>3, <1>4

(* Scopes to write within a cap's are among its places ... *)
LEMMA WritesWithinPlaces ==
  ASSUME NEW s, NEW cap, s.writes \subseteq ScopeName, WritesWithin(s, cap)
  PROVE  Places(s.writes) \subseteq Places(cap.writes)
<1>1. ASSUME NEW n \in s.writes PROVE Extent[n] \subseteq Places(cap.writes)
  <2>0. n \in ScopeName OBVIOUS
  <2>1. CASE n \in {"tmpdir", "project_roots"}
    <3>1. WriteCovers(cap, n) BY <2>1 DEF WritesWithin, KnownWrites
    <3>2. cap.writes \cap {"root", n} # {} BY <2>1, <3>1 DEF WriteCovers
    <3>3. Extent[n] \subseteq Extent["root"] BY <2>0, ExtentAssumption
    <3>. QED BY <3>2, <3>3 DEF Places
  <2>2. CASE n \in KnownWrites \ {"tmpdir", "project_roots"}
    <3>1. WriteCovers(cap, n) BY <2>2 DEF WritesWithin
    <3>2. n \in Path \cup {"root", "slash_tmp"} BY <2>2 DEF KnownWrites
    <3>3. Reach(cap.writes, PathOf(n)) BY <2>2, <3>1 DEF WriteCovers, WriteCoversPath
    <3>. QED BY <2>0, <3>2, <3>3, CoveredIsThere
  <2>3. CASE n \notin KnownWrites
    <3>1. Reach(cap.writes, Top) BY <2>3 DEF WritesWithin, WriteCoversPath
    <3>. QED BY <2>0, <3>1, CoveredIsThere
  <2>. QED BY <2>1, <2>2, <2>3
<1>. QED BY <1>1 DEF Places

(* ... and scopes to read are among those it may read or write. *)
LEMMA ReadsWithinPlaces ==
  ASSUME NEW s, NEW cap, s.reads \subseteq ScopeName, ReadsWithin(s, cap)
  PROVE  Places(s.reads) \subseteq Places(cap.reads) \cup Places(cap.writes)
<1>1. ASSUME NEW n \in s.reads
      PROVE  \/ Extent[n] \subseteq Places(cap.reads)
             \/ Extent[n] \subseteq Places(cap.writes)
  <2>0. n \in ScopeName OBVIOUS
  <2>1. CASE n \in KnownReads
    <3>1. n \in Path \cup {"root", "slash_tmp"} BY <2>1 DEF KnownReads
    <3>2. Reach(cap.reads, PathOf(n)) \/ Reach(cap.writes, PathOf(n))
      BY <2>1 DEF ReadsWithin, ReadCovers, ReadCoversPath, WriteCoversPath
    <3>. QED BY <2>0, <3>1, <3>2, CoveredIsThere
  <2>2. CASE n \notin KnownReads
    <3>1. Reach(cap.reads, Top) \/ Reach(cap.writes, Top)
      BY <2>2 DEF ReadsWithin, ReadCoversPath, WriteCoversPath
    <3>. QED BY <2>0, <3>1, CoveredIsThere
  <2>. QED BY <2>1, <2>2
<1>. QED BY <1>1 DEF Places

(* Denials that are kept deny at least the same places. *)
LEMMA DenialsKeptPlaces ==
  ASSUME NEW s, NEW cap, DenialsKept(s, cap)
  PROVE  Places(cap.denies) \subseteq Places(s.denies)
<1>1. ASSUME NEW n \in cap.denies PROVE Extent[n] \subseteq Places(s.denies)
  <2>1. CASE n \in Path
    <3>1. PICK q \in s.denies : q \in Above[n] BY <2>1 DEF DenialsKept
    <3>2. Extent[n] \subseteq Extent[q] BY <2>1, <3>1, ExtentAssumption
    <3>. QED BY <3>1, <3>2 DEF Places
  <2>2. CASE n \notin Path
    <3>1. n \in s.denies BY <2>2 DEF DenialsKept
    <3>. QED BY <3>1 DEF Places
  <2>. QED BY <2>1, <2>2
<1>. QED BY <1>1 DEF Places

(* What permission_profile_scope_within accepts is no wider, if the denials  *)
(* it was told of are kept.                                                  *)
LEMMA WithinIsNarrower ==
  ASSUME NEW s, NEW cap, NEW kept \in BOOLEAN, s.kind # "external",
         s.reads \subseteq ScopeName, s.writes \subseteq ScopeName, cap.writes \subseteq ScopeName,
         ScopeWithin(s, cap, kept),
         kept => Places(cap.denies) \subseteq Places(s.denies)
  PROVE  Narrower(s, cap)
<1>1. /\ Places(s.writes) \subseteq Places(cap.writes)
      /\ Places(s.reads) \subseteq Places(cap.reads) \cup Places(cap.writes)
  BY WritesWithinPlaces, ReadsWithinPlaces DEF ScopeWithin
<1>2. Places(cap.denies) \subseteq Places(s.denies)
  BY DEF ScopeWithin, Places
<1>3. /\ Places(s.writes) \subseteq Places({"root"})
      /\ Places(cap.writes) \subseteq Places({"root"})
  BY ExtentAssumption DEF Places
<1>4. Writable(s) = Places(s.writes) \ Places(s.denies) BY DEF Writable
<1>5. \/ Writable(cap) = Places({"root"}) \ Places(cap.denies)
      \/ Writable(cap) = Places(cap.writes) \ Places(cap.denies)
  BY DEF Writable
<1>6. Writable(s) \subseteq Writable(cap) BY <1>1, <1>2, <1>3, <1>4, <1>5
<1>7. Places(cap.writes) \ Places(cap.denies) \subseteq Writable(cap) BY <1>3, <1>5
<1>. QED BY <1>1, <1>2, <1>4, <1>6, <1>7 DEF Narrower, Readable

(* Less than what is less is less. *)
LEMMA NarrowerIsTransitive ==
  ASSUME NEW s, NEW t, NEW u, Narrower(s, t), Narrower(t, u)
  PROVE  Narrower(s, u)
BY DEF Narrower

(* ... and nothing is wider than itself. *)
LEMMA NarrowerIsReflexive == ASSUME NEW s PROVE Narrower(s, s)
BY DEF Narrower

(* The scopes of a profile are scopes; an external profile lists none. *)
LEMMA ProfileFacts ==
  ASSUME NEW a \in Answers, a.profile # None
  PROVE  /\ ProfileScope(a).reads \subseteq ScopeName
         /\ ProfileScope(a).writes \subseteq ScopeName
         /\ ProfileScope(a).kind = a.profile.kind
         /\ a.profile.kind = "external" => /\ ProfileScope(a).reads = {}
                                           /\ ProfileScope(a).writes = {}
                                           /\ ProfileScope(a).denies = {}
<1>. DEFINE p == a.profile
<1>1. p \in Profile BY SidecarPermissionsAssumption DEF Answer
<1>. HIDE DEF p
<1>2. p.kind \in {"managed", "disabled", "external"} /\ p.entries \subseteq Entries
  BY <1>1 DEF Profile
<1>3. \A access : Names(p.entries, access) \subseteq ScopeName BY <1>2 DEF Names, Entries
<1>4. "root" \in ScopeName BY DEF ScopeName, Special
<1>5. /\ ScopeOf(p).reads \subseteq ScopeName /\ ScopeOf(p).writes \subseteq ScopeName
      /\ ScopeOf(p).kind = p.kind
      /\ p.kind = "external" => /\ ScopeOf(p).reads = {} /\ ScopeOf(p).writes = {}
                                /\ ScopeOf(p).denies = {}
  <2>1. CASE p.kind = "disabled" BY <1>4, <2>1 DEF ScopeOf, FullScope, NewScope
  <2>2. CASE p.kind = "external" BY <2>2 DEF ScopeOf, NewScope
  <2>3. CASE p.kind = "managed" /\ p.unrestricted BY <1>4, <2>3 DEF ScopeOf, FullScope, NewScope
  <2>4. CASE p.kind = "managed" /\ ~p.unrestricted BY <1>3, <2>4 DEF ScopeOf, NewScope
  <2>. QED BY <1>2, <2>1, <2>2, <2>3, <2>4
<1>. QED BY <1>5 DEF ProfileScope, p

(* What a built-in profile with more roots grants. *)
LEMMA SelectionFacts ==
  ASSUME NEW selection, selection.id \in Builtin, selection.roots \subseteq Path
  PROVE  LET s == SelectionScope(selection)
         IN  /\ s.kind # "external"
             /\ "root" \in s.reads /\ s.reads \subseteq ScopeName /\ s.writes \subseteq ScopeName
             /\ selection.id = ":workspace" => s.denies = {"git"}
<1>1. {"root", "project_roots", "tmpdir", "slash_tmp"} \cup Path \subseteq ScopeName
  BY DEF ScopeName, Special
<1>2. CASE selection.id = ":read-only" BY <1>1, <1>2 DEF SelectionScope, NewScope
<1>3. CASE selection.id = ":workspace" BY <1>1, <1>3 DEF SelectionScope, NewScope
<1>4. CASE selection.id = ":danger-no-sandbox"
  BY <1>1, <1>4 DEF SelectionScope, FullScope, NewScope
<1>. QED BY <1>2, <1>3, <1>4 DEF Builtin

(* The places a sandbox without denials opens. *)
SandboxGrants(sandbox) == GrantedBy([profile |-> None, sandbox |-> sandbox])

Unconfined(sandbox) == sandbox.type \in {"dangerFullAccess", "externalSandbox"}

WritablePlaces(sandbox) ==
  Places(sandbox.roots) \cup (IF sandbox.noTmpdir THEN {} ELSE Extent["tmpdir"])
                        \cup (IF sandbox.noSlashTmp THEN {} ELSE Extent["slash_tmp"])

(* What a sandbox allows to write is what it lists; the rest is readable at  *)
(* most, and all of it with full access.                                     *)
LEMMA SandboxFacts ==
  ASSUME NEW b \in Sandbox
  PROVE  /\ Writable(SandboxGrants(b)) = IF Unconfined(b) THEN Extent["root"] ELSE WritablePlaces(b)
         /\ WritablePlaces(b) \subseteq Extent["root"]
         /\ Readable(SandboxGrants(b)) \subseteq Extent["root"]
         /\ Unconfined(b) \/ b.access.full => Readable(SandboxGrants(b)) = Extent["root"]
         /\ ~Unconfined(b) => Readable(SandboxGrants(b))
                                = Places(AccessReads(b.access)) \cup WritablePlaces(b)
<1>0. /\ b.roots \subseteq Path /\ b.access.roots \subseteq Path
      /\ b.noTmpdir \in BOOLEAN /\ b.noSlashTmp \in BOOLEAN
  BY DEF Sandbox, Access
<1>1. Places({"root"}) = Extent["root"] /\ Places({}) = {} BY DEF Places
<1>2. Path \cup {"tmpdir", "slash_tmp", "root", "minimal"} \subseteq ScopeName BY DEF ScopeName, Special
<1>3. \A names \in SUBSET ScopeName : Places(names) \subseteq Extent["root"]
  BY ExtentAssumption DEF Places
<1>4. WritablePlaces(b) \subseteq Extent["root"]
  BY <1>0, <1>2, <1>3, ExtentAssumption DEF WritablePlaces
<1>5. CASE b.type = "externalSandbox"
  <2>1. SandboxGrants(b) = FullScope("external", b.network) BY <1>5 DEF SandboxGrants, GrantedBy
  <2>2. /\ SandboxGrants(b).kind = "external" /\ SandboxGrants(b).reads = {"root"}
        /\ SandboxGrants(b).denies = {}
    BY <2>1 DEF FullScope, NewScope
  <2>. QED BY <1>1, <1>4, <1>5, <2>2 DEF Writable, Readable, Unconfined
<1>6. CASE b.type = "dangerFullAccess"
  <2>1. SandboxGrants(b) = FullScope("managed", TRUE) BY <1>6 DEF SandboxGrants, GrantedBy, SandboxScope
  <2>2. /\ SandboxGrants(b).kind = "managed" /\ SandboxGrants(b).reads = {"root"}
        /\ SandboxGrants(b).writes = {"root"} /\ SandboxGrants(b).denies = {}
    BY <2>1 DEF FullScope, NewScope
  <2>. QED BY <1>1, <1>4, <1>6, <2>2 DEF Writable, Readable, Unconfined
<1>7. CASE ~Unconfined(b)
  <2>. DEFINE s == SandboxGrants(b)
              writes == b.roots \cup (IF b.noTmpdir THEN {} ELSE {"tmpdir"})
                                \cup (IF b.noSlashTmp THEN {} ELSE {"slash_tmp"})
  <2>1. s = [NewScope("managed", b.network) EXCEPT !.write = SandboxWrites(b),
               !.reads = AccessReads(b.access), !.writes = writes]
    BY <1>7 DEF SandboxGrants, GrantedBy, SandboxScope, Unconfined
  <2>2. /\ s.kind = "managed" /\ s.denies = {}
        /\ s.reads = AccessReads(b.access) /\ s.writes = writes
    BY <2>1 DEF NewScope
  <2>. HIDE DEF s
  <2>3. Places(writes) = WritablePlaces(b) BY DEF Places, WritablePlaces
  <2>4. writes \subseteq ScopeName /\ AccessReads(b.access) \subseteq ScopeName
    BY <1>0, <1>2 DEF AccessReads
  <2>. HIDE DEF writes
  <2>5. Writable(s) = WritablePlaces(b) BY <1>1, <2>2, <2>3 DEF Writable
  <2>6. Readable(s) = Places(AccessReads(b.access)) \cup WritablePlaces(b)
    BY <1>1, <2>2, <2>5 DEF Readable
  <2>7. Readable(s) \subseteq Extent["root"] BY <1>3, <1>4, <2>4, <2>6
  <2>8. b.access.full => Readable(s) = Extent["root"]
    BY <1>1, <1>4, <2>6 DEF AccessReads
  <2>. QED BY <1>4, <1>7, <2>5, <2>6, <2>7, <2>8 DEF s
<1>. QED BY <1>5, <1>6, <1>7 DEF Unconfined

-----------------------------------------------------------------------------
(* The sandboxes and selections a request is made of.                        *)

(* A sandbox that may write less, and one that reads everything. *)
LEMMA SandboxNarrower ==
  ASSUME NEW b \in Sandbox, NEW c \in Sandbox,
         Unconfined(c) \/ c.access.full,
         Unconfined(c) \/ (~Unconfined(b) /\ WritablePlaces(b) \subseteq WritablePlaces(c))
  PROVE  Narrower(SandboxGrants(b), SandboxGrants(c))
<1>1. Readable(SandboxGrants(b)) \subseteq Readable(SandboxGrants(c)) BY SandboxFacts
<1>2. Writable(SandboxGrants(b)) \subseteq Writable(SandboxGrants(c)) BY SandboxFacts
<1>. QED BY <1>1, <1>2 DEF Narrower

(* The sandboxes that are made here. *)
LEMMA MadeSandboxes ==
  ASSUME NEW network \in BOOLEAN
  PROVE  /\ ReadOnly(network, FullRead) \in Sandbox
         /\ ReadOnly(network, FullRead).type = "readOnly"
         /\ WritablePlaces(ReadOnly(network, FullRead)) = {}
         /\ \A roots \in SUBSET Path, noTmpdir \in BOOLEAN, noSlashTmp \in BOOLEAN :
              LET w == WorkspaceWrite(network, FullRead, roots, noTmpdir, noSlashTmp)
              IN  /\ w \in Sandbox /\ w.type = "workspaceWrite" /\ w.network = network
                  /\ WritablePlaces(w) = Places(roots)
                       \cup (IF noTmpdir THEN {} ELSE Extent["tmpdir"])
                       \cup (IF noSlashTmp THEN {} ELSE Extent["slash_tmp"])
         /\ DangerFullAccess \in Sandbox /\ DangerFullAccess.type = "dangerFullAccess"
         /\ ExternalSandbox(network) \in Sandbox /\ ExternalSandbox(network).type = "externalSandbox"
         /\ ExternalSandbox(network).network = network
<1>1. FullRead \in Access /\ FullRead.full BY DEF FullRead, Access
<1>2. /\ ReadOnly(network, FullRead) \in Sandbox
      /\ ReadOnly(network, FullRead).type = "readOnly"
  BY <1>1 DEF ReadOnly, Sandbox
<1>3. WritablePlaces(ReadOnly(network, FullRead)) = {} BY DEF ReadOnly, WritablePlaces, Places
<1>4. ASSUME NEW roots \in SUBSET Path, NEW noTmpdir \in BOOLEAN, NEW noSlashTmp \in BOOLEAN
      PROVE  LET w == WorkspaceWrite(network, FullRead, roots, noTmpdir, noSlashTmp)
             IN  /\ w \in Sandbox /\ w.type = "workspaceWrite" /\ w.network = network
                 /\ WritablePlaces(w) = Places(roots)
                       \cup (IF noTmpdir THEN {} ELSE Extent["tmpdir"])
                       \cup (IF noSlashTmp THEN {} ELSE Extent["slash_tmp"])
  <2>. DEFINE w == WorkspaceWrite(network, FullRead, roots, noTmpdir, noSlashTmp)
  <2>1. w \in Sandbox BY <1>1 DEF WorkspaceWrite, Sandbox
  <2>2. /\ w.type = "workspaceWrite" /\ w.network = network
        /\ w.roots = roots /\ w.noTmpdir = noTmpdir /\ w.noSlashTmp = noSlashTmp
    BY DEF WorkspaceWrite
  <2>. HIDE DEF w
  <2>3. WritablePlaces(w) = Places(roots) \cup (IF noTmpdir THEN {} ELSE Extent["tmpdir"])
                                          \cup (IF noSlashTmp THEN {} ELSE Extent["slash_tmp"])
    BY <2>2 DEF WritablePlaces
  <2>. QED BY <2>1, <2>2, <2>3 DEF w
<1>5. DangerFullAccess \in Sandbox /\ DangerFullAccess.type = "dangerFullAccess"
  BY <1>1 DEF DangerFullAccess, Sandbox
<1>6. /\ ExternalSandbox(network) \in Sandbox /\ ExternalSandbox(network).type = "externalSandbox"
      /\ ExternalSandbox(network).network = network
  BY <1>1 DEF ExternalSandbox, DangerFullAccess, Sandbox
<1>. QED BY <1>2, <1>3, <1>4, <1>5, <1>6

(* The roots of two workspaces that are in one another are in both. *)
LEMMA NarrowerRootsPlaces ==
  ASSUME NEW R \in SUBSET Path, NEW S \in SUBSET Path
  PROVE  /\ NarrowerRoots(R, S) \in SUBSET Path
         /\ Places(NarrowerRoots(R, S)) \subseteq Places(R)
         /\ Places(NarrowerRoots(R, S)) \subseteq Places(S)
<1>1. NarrowerRoots(R, S) \in SUBSET Path BY DEF NarrowerRoots
<1>2. ASSUME NEW r \in NarrowerRoots(R, S)
      PROVE  Extent[r] \subseteq Places(R) /\ Extent[r] \subseteq Places(S)
  <2>1. ASSUME NEW A \in SUBSET Path, NEW B \in SUBSET Path, r \in A, Above[r] \cap B # {}
        PROVE  Extent[r] \subseteq Places(A) /\ Extent[r] \subseteq Places(B)
    <3>1. PICK q \in B : q \in Above[r] BY <2>1
    <3>2. Extent[r] \subseteq Extent[q] BY <2>1, <3>1, ExtentAssumption
    <3>. QED BY <2>1, <3>1, <3>2 DEF Places
  <2>2. CASE r \in S /\ Above[r] \cap R # {} BY <2>1, <2>2
  <2>3. CASE r \in R /\ Above[r] \cap S # {} BY <2>1, <2>3
  <2>. QED BY <2>2, <2>3 DEF NarrowerRoots
<1>. QED BY <1>1, <1>2 DEF Places

(* What two workspaces, or a workspace and full access, are pinned to. *)
LEMMA PinnedWorkspaceIsNarrower ==
  ASSUME NEW startup \in Sandbox, NEW current \in Sandbox, NEW network \in BOOLEAN,
         "workspaceWrite" \in {startup.type, current.type},
         {startup.type, current.type} \subseteq {"workspaceWrite", "dangerFullAccess"},
         NEW w \in PinnedWorkspace(startup, current, network), NEW cap \in {startup, current}
  PROVE  /\ w \in Sandbox /\ w.type = "workspaceWrite" /\ w.network = network
         /\ Unconfined(cap) \/ cap.access.full
         /\ Unconfined(cap) \/ WritablePlaces(w) \subseteq WritablePlaces(cap)
<1>. DEFINE both == startup.type = current.type
            workspaces == {s \in {startup, current} : s.type = "workspaceWrite"}
            roots == IF both THEN NarrowerRoots(startup.roots, current.roots)
                             ELSE UNION {s.roots : s \in workspaces}
            noTmpdir == \E s \in workspaces : s.noTmpdir
            noSlashTmp == \E s \in workspaces : s.noSlashTmp
<1>1. w = WorkspaceWrite(network, FullRead, roots, noTmpdir, noSlashTmp)
  BY DEF PinnedWorkspace
<1>2. \A s \in workspaces : s.access.full BY DEF PinnedWorkspace
<1>3. \A s \in {startup, current} : s.roots \in SUBSET Path /\ s.noTmpdir \in BOOLEAN
                                    /\ s.noSlashTmp \in BOOLEAN
  BY DEF Sandbox
<1>4. cap \in workspaces \/ Unconfined(cap) BY DEF Unconfined
<1>5. roots \in SUBSET Path
  <2>1. CASE both BY <1>3, <2>1, NarrowerRootsPlaces
  <2>2. CASE ~both BY <1>3, <2>2
  <2>. QED BY <2>1, <2>2
<1>6. cap \in workspaces => Places(roots) \subseteq Places(cap.roots)
  <2>1. CASE both BY <1>3, <2>1, NarrowerRootsPlaces
  <2>2. CASE ~both
    <3>1. cap \in workspaces => roots = cap.roots BY <2>2
    <3>. QED BY <3>1
  <2>. QED BY <2>1, <2>2
<1>7. cap \in workspaces => (cap.noTmpdir => noTmpdir) /\ (cap.noSlashTmp => noSlashTmp) OBVIOUS
<1>8. noTmpdir \in BOOLEAN /\ noSlashTmp \in BOOLEAN OBVIOUS
<1>. HIDE DEF roots, noTmpdir, noSlashTmp
<1>9. /\ w \in Sandbox /\ w.type = "workspaceWrite" /\ w.network = network
      /\ WritablePlaces(w) = Places(roots) \cup (IF noTmpdir THEN {} ELSE Extent["tmpdir"])
                                           \cup (IF noSlashTmp THEN {} ELSE Extent["slash_tmp"])
  BY <1>1, <1>5, <1>8, MadeSandboxes
<1>10. cap \in workspaces => WritablePlaces(w) \subseteq WritablePlaces(cap)
  BY <1>6, <1>7, <1>9 DEF WritablePlaces
<1>. QED BY <1>2, <1>4, <1>9, <1>10

(* pinned_sandbox_policy: no wider than the sandboxes it is made from, with  *)
(* the network and the write access that were allowed.                       *)
LEMMA PinnedIsNarrower ==
  ASSUME NEW startup \in Sandbox, NEW current \in Sandbox,
         NEW effective, effective.network \in BOOLEAN,
         NEW w \in PinnedSandboxes(startup, current, effective), NEW cap \in {startup, current}
  PROVE  /\ Unconfined(cap) \/ cap.access.full
         /\ Narrower(SandboxGrants(w), SandboxGrants(cap))
         /\ SandboxGrants(w).network => effective.network
         /\ SandboxGrants(w).write => effective.write
<1>. DEFINE types == {startup.type, current.type}
<1>0. types \subseteq {"readOnly", "workspaceWrite", "dangerFullAccess", "externalSandbox"}
      /\ cap \in Sandbox
  BY DEF Sandbox
<1>1. CASE ~effective.write
  <2>1. /\ w = ReadOnly(effective.network, FullRead)
        /\ startup.access.full /\ current.access.full
    BY <1>1 DEF PinnedSandboxes, PinnedReadOnly, ReadsEverything
  <2>2. w \in Sandbox /\ w.type = "readOnly" /\ WritablePlaces(w) = {} BY <2>1, MadeSandboxes
  <2>3. w.network = effective.network BY <2>1 DEF ReadOnly
  <2>4. ~Unconfined(w) BY <2>2 DEF Unconfined
  <2>5. Narrower(SandboxGrants(w), SandboxGrants(cap))
    BY <1>0, <2>1, <2>2, <2>4, SandboxNarrower
  <2>6. SandboxGrants(w).network = effective.network /\ ~SandboxGrants(w).write
    BY <2>2, <2>3 DEF SandboxGrants, GrantedBy, SandboxScope, NewScope, SandboxWrites
  <2>. QED BY <1>1, <2>1, <2>5, <2>6
<1>2. CASE effective.write /\ "workspaceWrite" \in types
  <2>1. /\ types \subseteq {"workspaceWrite", "dangerFullAccess"}
        /\ w \in PinnedWorkspace(startup, current, effective.network)
    BY <1>0, <1>2 DEF PinnedSandboxes
  <2>2. /\ w \in Sandbox /\ w.type = "workspaceWrite" /\ w.network = effective.network
        /\ Unconfined(cap) \/ cap.access.full
        /\ Unconfined(cap) \/ WritablePlaces(w) \subseteq WritablePlaces(cap)
    BY <1>2, <2>1, PinnedWorkspaceIsNarrower
  <2>3. ~Unconfined(w) BY <2>2 DEF Unconfined
  <2>4. Narrower(SandboxGrants(w), SandboxGrants(cap)) BY <1>0, <2>2, <2>3, SandboxNarrower
  <2>5. SandboxGrants(w).network = effective.network
    BY <2>2 DEF SandboxGrants, GrantedBy, SandboxScope, NewScope
  <2>. QED BY <1>2, <2>2, <2>4, <2>5
<1>3. CASE effective.write /\ "workspaceWrite" \notin types
  <2>1. /\ types \subseteq {"dangerFullAccess", "externalSandbox"}
        /\ w \in PinnedUnconfined(startup, current, effective.network)
    BY <1>0, <1>3 DEF PinnedSandboxes
  <2>2. Unconfined(cap) BY <2>1 DEF Unconfined
  <2>3. \/ w = ExternalSandbox(effective.network)
        \/ w = DangerFullAccess /\ effective.network
    BY <2>1 DEF PinnedUnconfined
  <2>4. w \in Sandbox BY <2>3, MadeSandboxes
  <2>5. Narrower(SandboxGrants(w), SandboxGrants(cap)) BY <1>0, <2>2, <2>4, SandboxNarrower
  <2>6. SandboxGrants(w).network => effective.network
    <3>1. CASE w = ExternalSandbox(effective.network)
      <4>1. w.type = "externalSandbox" /\ w.network = effective.network BY <3>1, MadeSandboxes
      <4>. QED BY <4>1 DEF SandboxGrants, GrantedBy, FullScope, NewScope
    <3>. QED BY <2>3, <3>1
  <2>. QED BY <1>3, <2>2, <2>5, <2>6
<1>. QED BY <1>1, <1>2, <1>3

(* A sandbox that goes with a profile (LegacyCompatible) is no wider, if it  *)
(* reads everything; it is such a one that a turn can be started with.       *)
LEMMA FallbackIsNarrower ==
  ASSUME NEW a \in Answers, Trusted(a), FallsBack(a), a.profile # None,
         Unconfined(a.sandbox) \/ a.sandbox.access.full
  PROVE  Narrower(SandboxGrants(a.sandbox), ProfileScope(a))
<1>. DEFINE s == ProfileScope(a)
            b == a.sandbox
<1>0. b \in Sandbox BY SidecarPermissionsAssumption DEF Answer
<1>1. LegacyCompatible(s, b) /\ s.write = SandboxWrites(b) BY DEF FallsBack, Trusted
<1>2. /\ s.reads \subseteq ScopeName /\ s.writes \subseteq ScopeName
      /\ s.kind = "external" => s.reads = {} /\ s.writes = {} /\ s.denies = {}
  BY ProfileFacts
<1>3. /\ b.roots \subseteq Path /\ b.noTmpdir \in BOOLEAN /\ b.noSlashTmp \in BOOLEAN
      /\ b.type \in {"readOnly", "workspaceWrite", "dangerFullAccess", "externalSandbox"}
      /\ b.type = "readOnly" => b.roots = {} /\ b.noTmpdir /\ b.noSlashTmp
  BY <1>0 DEF Sandbox
<1>4. "project_roots" \in s.writes => \A r \in b.roots \ Unsafe : Extent[r] \subseteq Places(s.writes)
  BY ExtentAssumption
<1>5. Top \in Path /\ Tmp \in Path /\ "tmpdir" \in ScopeName /\ "root" \in ScopeName
  BY PathAssumption DEF ScopeName, Special
<1>6. /\ Writable(SandboxGrants(b)) = IF Unconfined(b) THEN Extent["root"] ELSE WritablePlaces(b)
      /\ Readable(SandboxGrants(b)) = Extent["root"]
  BY <1>0, SandboxFacts
<1>9. Unconfined(b) \/ b.access.full OBVIOUS
<1>10. Places({}) = {} /\ Places({"root"}) = Extent["root"] BY DEF Places
<1>. HIDE DEF s, b
<1>7. ASSUME s.kind = "external" /\ b.type = "externalSandbox"
      PROVE  Narrower(SandboxGrants(b), s)
  <2>1. Writable(s) = Extent["root"] BY <1>2, <1>7, <1>10 DEF Writable
  <2>2. Readable(s) = Extent["root"] BY <1>2, <1>7, <1>10, <2>1 DEF Readable
  <2>. QED BY <1>6, <1>7, <2>1, <2>2 DEF Narrower, Unconfined
<1>8. ASSUME ~(s.kind = "external" /\ b.type = "externalSandbox")
      PROVE  Narrower(SandboxGrants(b), s)
  <2>1. /\ s.kind # "external" /\ s.denies = {}
        /\ CoversReadAccess(s, b)
        /\ s.write => \/ b.type = "workspaceWrite" /\ CoversWorkspace(s, b)
                      \/ b.type = "dangerFullAccess" /\ "root" \in s.writes
    BY <1>1, <1>8 DEF LegacyCompatible
  <2>2. Writable(s) = Places(s.writes) /\ Readable(s) = Places(s.reads) \cup Places(s.writes)
    <3>1. Places({}) = {} BY DEF Places
    <3>2. Writable(s) = Places(s.writes) BY <2>1, <3>1 DEF Writable
    <3>. QED BY <2>1, <3>1, <3>2 DEF Readable
  <2>3. CASE b.type = "dangerFullAccess"
    <3>1. "root" \in s.writes BY <1>1, <2>1, <2>3 DEF SandboxWrites
    <3>2. Extent["root"] \subseteq Places(s.writes) BY <3>1 DEF Places
    <3>. QED BY <1>6, <2>2, <2>3, <3>2 DEF Narrower, Unconfined
  <2>4. CASE b.type \in {"readOnly", "workspaceWrite"}
    <3>1. b.access.full /\ ~Unconfined(b) BY <1>9, <2>4 DEF Unconfined
    <3>2. Reach(s.reads, Top) \/ Reach(s.writes, Top)
      BY <2>1, <3>1 DEF CoversReadAccess, ReadCoversPath, WriteCoversPath
    <3>3. Extent["root"] \subseteq Readable(s) BY <1>5, <2>2, <3>2, ReachedIsThere, ExtentAssumption
    <3>4. WritablePlaces(b) \subseteq Places(s.writes)
      <4>1. CASE b.type = "readOnly" BY <1>3, <4>1 DEF WritablePlaces, Places
      <4>2. CASE b.type = "workspaceWrite"
        <5>1. CoversWorkspace(s, b) BY <1>1, <2>1, <4>2 DEF SandboxWrites
        <5>2. ASSUME NEW r \in b.roots PROVE Extent[r] \subseteq Places(s.writes)
          <6>1. r \in Path \ Unsafe BY <1>3, <5>1 DEF CoversWorkspace, Safe
          <6>2. CASE Reach(s.writes, r) BY <6>1, <6>2, ReachedIsThere
          <6>3. CASE "project_roots" \in s.writes BY <1>4, <6>1, <6>3
          <6>. QED BY <5>1, <6>2, <6>3 DEF CoversWorkspace, WriteCoversPath
        <5>3. Places(b.roots) \subseteq Places(s.writes) BY <5>2 DEF Places
        <5>4. ~b.noTmpdir => Extent["tmpdir"] \subseteq Places(s.writes)
          <6>1. ~b.noTmpdir => s.writes \cap {"root", "tmpdir"} # {}
            BY <5>1 DEF CoversWorkspace, WriteCovers
          <6>2. Extent["tmpdir"] \subseteq Extent["root"] BY <1>5, ExtentAssumption
          <6>. QED BY <6>1, <6>2 DEF Places
        <5>5. ~b.noSlashTmp => Extent["slash_tmp"] \subseteq Places(s.writes)
          BY <1>5, <5>1, ReachedIsThere, ExtentAssumption DEF CoversWorkspace, WriteCoversPath
        <5>. QED BY <1>3, <5>3, <5>4, <5>5 DEF WritablePlaces
      <4>. QED BY <2>4, <4>1, <4>2
    <3>5. Readable(SandboxGrants(b)) \subseteq Readable(s) BY <1>6, <3>3
    <3>6. Writable(SandboxGrants(b)) \subseteq Writable(s) BY <1>6, <2>2, <3>1, <3>4
    <3>. QED BY <3>5, <3>6 DEF Narrower
  <2>5. b.type # "externalSandbox" BY <2>1 DEF CoversReadAccess
  <2>. QED BY <1>3, <2>3, <2>4, <2>5
<1>. QED BY <1>7, <1>8 DEF s, b

(* A selection that says what the thread's profile says is no wider than it, *)
(* nor than the startup's answer the profile is within.                      *)
LEMMA SelectedIsNarrower ==
  ASSUME NEW startup \in Answers, NEW current \in Answers, NEW effective,
         SelectionFits(current, effective), WithinStartup(startup, current),
         NEW cap \in {startup, current}
  PROVE  Narrower(SelectionScope(current.active), GrantedBy(cap))
<1>. DEFINE chosen == SelectionScope(current.active)
            s == ProfileScope(current)
<1>1. /\ current.profile # None /\ current.active.id \in Builtin /\ current.active.roots \subseteq Path
      /\ SelectionMatches(current.active, s)
  BY SidecarPermissionsAssumption DEF SelectionFits, SelectsBuiltin, Answer, Selection
<1>2. /\ chosen.kind # "external"
      /\ "root" \in chosen.reads /\ chosen.reads \subseteq ScopeName /\ chosen.writes \subseteq ScopeName
      /\ current.active.id = ":workspace" => chosen.denies = {"git"}
  BY <1>1, SelectionFacts
<1>3. /\ s.reads \subseteq ScopeName /\ s.writes \subseteq ScopeName
      /\ s.kind = "external" => s.reads = {} /\ s.writes = {} /\ s.denies = {}
  BY <1>1, ProfileFacts
<1>4. ScopeWithin(chosen, s, SelectionDenials(current.active, s)) BY <1>1 DEF SelectionMatches
<1>5. GrantedBy(current) = s BY <1>1 DEF GrantedBy
<1>. HIDE DEF chosen, s
<1>6. Narrower(chosen, s)
  <2>1. SelectionDenials(current.active, s) => Places(s.denies) \subseteq Places(chosen.denies)
    BY <1>2 DEF SelectionDenials, Places
  <2>2. SelectionDenials(current.active, s) \in BOOLEAN BY DEF SelectionDenials
  <2>. QED BY <1>2, <1>3, <1>4, <2>1, <2>2, WithinIsNarrower
<1>7. s.kind # "external"
  <2>1. ReadCovers(s, "root") BY <1>2, <1>4 DEF ScopeWithin, ReadsWithin, KnownReads
  <2>2. Reach(s.reads, Top) \/ Reach(s.writes, Top)
    BY <2>1 DEF ReadCovers, ReadCoversPath, WriteCoversPath, PathOf
  <2>. QED BY <1>3, <2>2 DEF Reach
<1>8. Narrower(s, GrantedBy(startup))
  <2>1. CASE startup.profile = current.profile
    <3>1. GrantedBy(startup) = s BY <1>1, <2>1 DEF GrantedBy, ProfileScope, s
    <3>. QED BY <3>1, NarrowerIsReflexive
  <2>2. CASE startup.profile # None /\ ScopeWithin(s, ProfileScope(startup), DenialsKept(s, ProfileScope(startup)))
    <3>1. GrantedBy(startup) = ProfileScope(startup) BY <2>2 DEF GrantedBy
    <3>2. ProfileScope(startup).writes \subseteq ScopeName BY <2>2, ProfileFacts
    <3>3. DenialsKept(s, ProfileScope(startup)) \in BOOLEAN BY DEF DenialsKept
    <3>4. DenialsKept(s, ProfileScope(startup))
            => Places(ProfileScope(startup).denies) \subseteq Places(s.denies)
      BY DenialsKeptPlaces
    <3>. QED BY <1>3, <1>7, <2>2, <3>1, <3>2, <3>3, <3>4, WithinIsNarrower
  <2>3. CASE /\ startup.profile = None /\ startup.sandbox.type # "externalSandbox"
             /\ ScopeWithin(s, SandboxScope(startup.sandbox), FALSE)
    <3>1. GrantedBy(startup) = SandboxScope(startup.sandbox) BY <2>3 DEF GrantedBy
    <3>2. startup.sandbox.roots \subseteq Path
      BY SidecarPermissionsAssumption DEF Answer, Sandbox
    <3>3. SandboxScope(startup.sandbox).writes \subseteq ScopeName
      BY <3>2 DEF SandboxScope, FullScope, NewScope, ScopeName, Special
    <3>. QED BY <1>3, <1>7, <2>3, <3>1, <3>3, WithinIsNarrower
  <2>. QED BY <2>1, <2>2, <2>3 DEF WithinStartup, s
<1>9. Narrower(chosen, GrantedBy(cap)) BY <1>5, <1>6, <1>8, NarrowerIsTransitive
<1>. QED BY <1>9 DEF chosen

(* What the answers and the command line allow, dimension by dimension.      *)
LEMMA EffectiveFacts ==
  ASSUME NEW given \in Inputs, NEW s \in Answers, NEW c \in Answers
  PROVE  LET effective == Effective(Resolve(given, s), Resolve(given, c))
         IN  /\ effective.network \in BOOLEAN /\ effective.approval \in BOOLEAN
             /\ given.approval = "false" => ~effective.approval
             /\ given.network = "false" => ~effective.network
             /\ given.write = "false" => ~effective.write
             /\ given.network = "auto" /\ effective.network => s.sandbox.network /\ c.sandbox.network
<1>. DEFINE effective == Effective(Resolve(given, s), Resolve(given, c))
<1>1. given \in [Dimension -> {"auto", "true", "false"}] BY SidecarPermissionsAssumption
<1>2. \A d \in Dimension : effective[d] = (Resolve(given, s)[d] /\ Resolve(given, c)[d])
  BY DEF Effective
<1>3. \A d \in Dimension, a \in Answers :
        Resolve(given, a)[d] = IF given[d] = "auto" THEN Derived(a)[d] ELSE given[d] = "true"
  BY DEF Resolve
<1>4. \A a \in Answers : Derived(a).network = a.sandbox.network BY DEF Derived
<1>5. {"approval", "network", "write"} \subseteq Dimension BY DEF Dimension
<1>. HIDE DEF effective
<1>6. effective.network \in BOOLEAN /\ effective.approval \in BOOLEAN BY <1>2, <1>5
<1>7. /\ given.approval = "false" => ~effective.approval
      /\ given.network = "false" => ~effective.network
      /\ given.write = "false" => ~effective.write
  BY <1>2, <1>3, <1>5
<1>8. given.network = "auto" /\ effective.network => s.sandbox.network /\ c.sandbox.network
  BY <1>2, <1>3, <1>4, <1>5
<1>. QED BY <1>6, <1>7, <1>8 DEF effective

(* A policy that is believed has a rank, and each its own. *)
LEMMA Ranks ==
  /\ \A p \in Policies : RiskRank(p) \in 0 .. 3
  /\ \A p, q \in Policies : RiskRank(p) = RiskRank(q) => p = q
  /\ RiskRank("never") = 0
<1>1. /\ RiskRank("never") = 0 /\ RiskRank("untrusted") = 1
      /\ RiskRank("on-failure") = 2 /\ RiskRank("on-request") = 3
  <2>1. RiskRank("never") = 0 BY DEF RiskRank
  <2>2. RiskRank("untrusted") = 1 BY DEF RiskRank
  <2>3. RiskRank("on-failure") = 2 BY DEF RiskRank
  <2>4. RiskRank("on-request") = 3 BY DEF RiskRank
  <2>. QED BY <2>1, <2>2, <2>3, <2>4
<1>. QED BY <1>1 DEF Policies

(* pinned_approval_policy is no riskier than either policy. *)
LEMMA PinnedApprovalIsLower ==
  ASSUME NEW s, NEW c, s.policy \in Policies, c.policy \in Policies, NEW allowed \in BOOLEAN
  PROVE  /\ RiskRank(PinnedApproval(s, c, allowed)) <= RiskRank(s.policy)
         /\ RiskRank(PinnedApproval(s, c, allowed)) <= RiskRank(c.policy)
         /\ ~allowed => PinnedApproval(s, c, allowed) = "never"
<1>1. /\ RiskRank(s.policy) \in 0 .. 3 /\ RiskRank(c.policy) \in 0 .. 3
      /\ RiskRank("never") = 0
  BY Ranks
<1>. QED BY <1>1 DEF PinnedApproval

(* The two forms a request takes: the selection of the thread, or a sandbox  *)
(* made from those of both answers, whose profiles then fall back to them.   *)
LEMMA OverridesForms ==
  ASSUME NEW startup, NEW current, NEW effective, NEW o \in Overrides(startup, current, effective)
  PROVE  /\ o.policy = PinnedApproval(startup, current, effective.approval)
         /\ \/ /\ SelectionFits(current, effective) /\ WithinStartup(startup, current)
               /\ o.selection = current.active /\ o.selection # None
            \/ /\ FallsBack(startup) /\ FallsBack(current)
               /\ o.selection = None
               /\ o.sandbox \in PinnedSandboxes(startup.sandbox, current.sandbox, effective)
<1>. DEFINE approval == PinnedApproval(startup, current, effective.approval)
            legacy == {[policy |-> approval, selection |-> None, sandbox |-> sandbox] :
                         sandbox \in PinnedSandboxes(startup.sandbox, current.sandbox, effective)}
<1>1. CASE /\ SelectionFits(current, effective) /\ WithinStartup(startup, current)
           /\ o = [policy |-> approval, selection |-> current.active, sandbox |-> None]
  <2>1. current.active # None BY <1>1 DEF SelectionFits, SelectsBuiltin
  <2>. QED BY <1>1, <2>1
<1>2. CASE FallsBack(startup) /\ FallsBack(current) /\ o \in legacy
  BY <1>2
<1>3. \/ /\ SelectionFits(current, effective) /\ WithinStartup(startup, current)
         /\ o = [policy |-> approval, selection |-> current.active, sandbox |-> None]
      \/ FallsBack(startup) /\ FallsBack(current) /\ o \in legacy
  <2>. HIDE DEF approval, legacy
  <2>1. o \in IF SelectionFits(current, effective) /\ ~CapIsKnown(startup) THEN {}
              ELSE IF SelectionFits(current, effective) /\ WithinStartup(startup, current)
              THEN {[policy |-> approval, selection |-> current.active, sandbox |-> None]}
              ELSE {x \in legacy : FallsBack(startup) /\ FallsBack(current)}
    BY DEF Overrides, approval, legacy
  <2>. QED BY <2>1
<1>. QED BY <1>1, <1>2, <1>3

(* A request is no wider than either answer, whichever form it has, and what *)
(* the command line denies it does not ask for.                              *)
LEMMA OverridesAreNarrower ==
  ASSUME NEW given \in Inputs, NEW startup \in Answers, NEW current \in Answers,
         Trusted(startup), Trusted(current),
         NEW o \in Overrides(startup, current,
                             Effective(Resolve(given, startup), Resolve(given, current)))
  PROVE  /\ \A cap \in {startup, current} :
              /\ RiskRank(o.policy) <= RiskRank(cap.policy)
              /\ Narrower(GrantedTo(o), GrantedBy(cap))
              /\ given.network = "auto" /\ GrantedTo(o).network => cap.sandbox.network
         /\ given.approval = "false" => o.policy = "never"
         /\ given.network = "false" => ~GrantedTo(o).network
         /\ given.write = "false" => ~GrantedTo(o).write
<1>. DEFINE effective == Effective(Resolve(given, startup), Resolve(given, current))
<1>1. /\ effective.network \in BOOLEAN /\ effective.approval \in BOOLEAN
      /\ given.approval = "false" => ~effective.approval
      /\ given.network = "false" => ~effective.network
      /\ given.write = "false" => ~effective.write
      /\ given.network = "auto" /\ effective.network
           => startup.sandbox.network /\ current.sandbox.network
  BY EffectiveFacts
<1>2. o \in Overrides(startup, current, effective) OBVIOUS
<1>. HIDE DEF effective
<1>3. /\ \A cap \in {startup, current} : RiskRank(o.policy) <= RiskRank(cap.policy)
      /\ ~effective.approval => o.policy = "never"
  <2>1. o.policy = PinnedApproval(startup, current, effective.approval) BY <1>2, OverridesForms
  <2>2. startup.policy \in Policies /\ current.policy \in Policies BY DEF Trusted
  <2>. QED BY <1>1, <2>1, <2>2, PinnedApprovalIsLower
<1>4. /\ \A cap \in {startup, current} : Narrower(GrantedTo(o), GrantedBy(cap))
      /\ GrantedTo(o).network => effective.network
      /\ GrantedTo(o).write => effective.write
  <2>1. CASE /\ SelectionFits(current, effective) /\ WithinStartup(startup, current)
             /\ o.selection = current.active /\ o.selection # None
    <3>1. GrantedTo(o) = SelectionScope(current.active) BY <2>1 DEF GrantedTo
    <3>2. /\ SelectionScope(current.active).network = effective.network
          /\ SelectionScope(current.active).write = effective.write
      BY <2>1 DEF SelectionFits
    <3>3. \A cap \in {startup, current} : Narrower(SelectionScope(current.active), GrantedBy(cap))
      BY <2>1, SelectedIsNarrower
    <3>. QED BY <3>1, <3>2, <3>3
  <2>2. CASE /\ FallsBack(startup) /\ FallsBack(current)
             /\ o.selection = None
             /\ o.sandbox \in PinnedSandboxes(startup.sandbox, current.sandbox, effective)
    <3>1. GrantedTo(o) = SandboxGrants(o.sandbox) BY <2>2 DEF GrantedTo, SandboxGrants
    <3>2. startup.sandbox \in Sandbox /\ current.sandbox \in Sandbox
      BY SidecarPermissionsAssumption DEF Answer
    <3>3. \A b \in {startup.sandbox, current.sandbox} :
            /\ Unconfined(b) \/ b.access.full
            /\ Narrower(SandboxGrants(o.sandbox), SandboxGrants(b))
            /\ SandboxGrants(o.sandbox).network => effective.network
            /\ SandboxGrants(o.sandbox).write => effective.write
      BY <1>1, <2>2, <3>2, PinnedIsNarrower
    <3>4. ASSUME NEW cap \in {startup, current}
          PROVE  Narrower(SandboxGrants(cap.sandbox), GrantedBy(cap))
      <4>1. CASE cap.profile = None
        <5>1. GrantedBy(cap) = SandboxGrants(cap.sandbox) BY <4>1 DEF SandboxGrants, GrantedBy
        <5>. QED BY <5>1, NarrowerIsReflexive
      <4>2. CASE cap.profile # None
        <5>1. GrantedBy(cap) = ProfileScope(cap) BY <4>2 DEF GrantedBy
        <5>2. cap \in Answers /\ Trusted(cap) /\ FallsBack(cap) BY <2>2
        <5>3. Unconfined(cap.sandbox) \/ cap.sandbox.access.full BY <3>3
        <5>. QED BY <4>2, <5>1, <5>2, <5>3, FallbackIsNarrower
      <4>. QED BY <4>1, <4>2
    <3>5. ASSUME NEW cap \in {startup, current} PROVE Narrower(GrantedTo(o), GrantedBy(cap))
      <4>1. Narrower(SandboxGrants(o.sandbox), SandboxGrants(cap.sandbox)) BY <3>3
      <4>. QED BY <3>1, <3>4, <4>1, NarrowerIsTransitive
    <3>. QED BY <3>1, <3>3, <3>5
  <2>. QED BY <1>2, <2>1, <2>2, OverridesForms
<1>. QED BY <1>1, <1>3, <1>4

-----------------------------------------------------------------------------
(* Drifts and their directions.                                              *)

(* The directions. *)
Directions == {"tightened", "loosened", "mixed", "changed"}

(* permissive_bool_drift_direction *)
LEMMA MovedFacts ==
  ASSUME NEW n \in BOOLEAN, NEW w \in BOOLEAN
  PROVE  /\ Moved(n, w) \subseteq Directions
         /\ "loosened" \notin Moved(n, w) => (w => n)
         /\ "tightened" \notin Moved(n, w) => (n => w)
<1>1. CASE n /\ ~w BY <1>1 DEF Moved, Directions
<1>2. CASE w /\ ~n BY <1>2 DEF Moved, Directions
<1>3. CASE n <=> w BY <1>3 DEF Moved, Directions
<1>. QED BY <1>1, <1>2, <1>3

(* Directions are combined to one of them only when they all are that one.   *)
LEMMA CombinedFacts ==
  ASSUME NEW D \in SUBSET Directions, NEW dir \in {"tightened", "loosened"}
  PROVE  /\ Combined(D) \in Directions
         /\ Combined(D) = dir => D = {dir}
         /\ OrChanged(D) \in Directions
         /\ OrChanged(D) = dir => D = {dir}
<1>1. IsFiniteSet(D)
  <2>1. /\ IsFiniteSet({"tightened"}) /\ IsFiniteSet({"loosened"})
        /\ IsFiniteSet({"mixed"}) /\ IsFiniteSet({"changed"})
    BY FS_Singleton
  <2>2. IsFiniteSet({"tightened"} \cup {"loosened"}) BY <2>1, FS_Union
  <2>3. IsFiniteSet(({"tightened"} \cup {"loosened"}) \cup {"mixed"}) BY <2>1, <2>2, FS_Union
  <2>4. IsFiniteSet((({"tightened"} \cup {"loosened"}) \cup {"mixed"}) \cup {"changed"})
    BY <2>1, <2>3, FS_Union
  <2>5. D \subseteq ((({"tightened"} \cup {"loosened"}) \cup {"mixed"}) \cup {"changed"})
    BY DEF Directions
  <2>. QED BY <2>4, <2>5, FS_Subset
<1>2. CASE Cardinality(D) = 1
  <2>1. PICK x : D = {x} BY <1>1, <1>2, FS_Singleton
  <2>2. Combined(D) = x BY <1>2, <2>1 DEF Combined
  <2>3. D # {} BY <2>1
  <2>. QED BY <2>1, <2>2, <2>3 DEF OrChanged
<1>3. CASE Cardinality(D) # 1
  BY <1>3 DEF Combined, OrChanged, Directions
<1>. QED BY <1>2, <1>3

(* roots_drift_direction *)
LEMMA RootsDriftFacts ==
  ASSUME NEW s, NEW c
  PROVE  /\ RootsDrift(s, c) \subseteq Directions
         /\ RootsDrift(s, c) \subseteq {"tightened"} => Covered(c, s)
         /\ RootsDrift(s, c) \subseteq {"loosened"} => Covered(s, c)
<1>. DEFINE n == Covered(c, s)
            w == Covered(s, c)
<1>1. n \in BOOLEAN /\ w \in BOOLEAN BY DEF Covered
<1>2. RootsDrift(s, c) = IF ~n /\ ~w THEN {"mixed"} ELSE Moved(n, w) BY DEF RootsDrift
<1>. HIDE DEF n, w
<1>3. /\ RootsDrift(s, c) \subseteq Directions
      /\ RootsDrift(s, c) \subseteq {"tightened"} => n
      /\ RootsDrift(s, c) \subseteq {"loosened"} => w
  BY <1>1, <1>2, MovedFacts DEF Directions
<1>. QED BY <1>3 DEF n, w

(* What a restricted access, or the full one, reads less than another.       *)
ReadsLess(x, y) ==
  y.full \/ (~x.full /\ Covered(x.roots, y.roots) /\ (x.defaults => y.defaults))

(* read_only_access_drift_direction *)
LEMMA AccessDriftFacts ==
  ASSUME NEW s \in Access, NEW c \in Access
  PROVE  /\ AccessDrift(s, c) \subseteq Directions
         /\ AccessDrift(s, c) \subseteq {"tightened"} => ReadsLess(c, s)
         /\ AccessDrift(s, c) \subseteq {"loosened"} => ReadsLess(s, c)
<1>1. /\ s.full \in BOOLEAN /\ c.full \in BOOLEAN /\ s.defaults \in BOOLEAN /\ c.defaults \in BOOLEAN
      /\ s.roots \subseteq Path
  BY DEF Access
<1>2. CASE s = c
  <2>1. AccessDrift(s, c) = {} BY <1>2 DEF AccessDrift
  <2>2. Covered(s.roots, s.roots) BY <1>1, PathAssumption DEF Covered
  <2>. QED BY <1>1, <1>2, <2>1, <2>2 DEF ReadsLess
<1>3. CASE s # c /\ s.full # c.full
  <2>1. AccessDrift(s, c) = Moved(s.full, c.full) BY <1>3 DEF AccessDrift
  <2>. QED BY <1>1, <1>3, <2>1, MovedFacts DEF ReadsLess
<1>4. CASE s # c /\ s.full = c.full
  <2>. DEFINE roots == RootsDrift(s.roots, c.roots)
              defaults == Moved(s.defaults /\ ~c.defaults, c.defaults /\ ~s.defaults)
  <2>1. AccessDrift(s, c) = {OrChanged(roots \cup defaults)} BY <1>4 DEF AccessDrift
  <2>2. /\ roots \subseteq Directions
        /\ roots \subseteq {"tightened"} => Covered(c.roots, s.roots)
        /\ roots \subseteq {"loosened"} => Covered(s.roots, c.roots)
    BY RootsDriftFacts
  <2>3. /\ defaults \subseteq Directions
        /\ defaults \subseteq {"tightened"} => (c.defaults => s.defaults)
        /\ defaults \subseteq {"loosened"} => (s.defaults => c.defaults)
    BY <1>1, MovedFacts
  <2>. HIDE DEF roots, defaults
  <2>4. /\ OrChanged(roots \cup defaults) \in Directions
        /\ \A dir \in {"tightened", "loosened"} :
             OrChanged(roots \cup defaults) = dir => roots \cup defaults = {dir}
    BY <2>2, <2>3, CombinedFacts
  <2>5. AccessDrift(s, c) \subseteq {"tightened"} => ReadsLess(c, s)
    BY <1>1, <1>4, <2>1, <2>2, <2>3, <2>4 DEF ReadsLess
  <2>6. AccessDrift(s, c) \subseteq {"loosened"} => ReadsLess(s, c)
    BY <1>1, <1>4, <2>1, <2>2, <2>3, <2>4 DEF ReadsLess
  <2>. QED BY <2>1, <2>4, <2>5, <2>6
<1>. QED BY <1>2, <1>3, <1>4

(* What a sandbox allows less than another of its type.                      *)
SandboxLess(x, y) ==
  /\ x.type = y.type
  /\ Covered(x.roots, y.roots) /\ ReadsLess(x.access, y.access)
  /\ (y.noTmpdir => x.noTmpdir) /\ (y.noSlashTmp => x.noSlashTmp)

(* sandbox_policy_drift_direction *)
LEMMA SandboxDriftFacts ==
  ASSUME NEW s \in Sandbox, NEW c \in Sandbox
  PROVE  /\ SandboxDrift(s, c) \in Directions
         /\ SandboxDrift(s, c) = "tightened" => SandboxLess(c, s)
         /\ SandboxDrift(s, c) = "loosened" => SandboxLess(s, c)
<1>1. CASE s.type # c.type
  BY <1>1 DEF SandboxDrift, Directions
<1>2. CASE s.type = c.type
  <2>. DEFINE roots == RootsDrift(s.roots, c.roots)
              access == AccessDrift(s.access, c.access)
              tmpdir == Moved(c.noTmpdir /\ ~s.noTmpdir, s.noTmpdir /\ ~c.noTmpdir)
              slashTmp == Moved(c.noSlashTmp /\ ~s.noSlashTmp, s.noSlashTmp /\ ~c.noSlashTmp)
              D == roots \cup access \cup tmpdir \cup slashTmp
  <2>1. SandboxDrift(s, c) = OrChanged(D) BY <1>2 DEF SandboxDrift
  <2>2. /\ roots \subseteq Directions
        /\ roots \subseteq {"tightened"} => Covered(c.roots, s.roots)
        /\ roots \subseteq {"loosened"} => Covered(s.roots, c.roots)
    BY RootsDriftFacts
  <2>3. /\ access \subseteq Directions
        /\ access \subseteq {"tightened"} => ReadsLess(c.access, s.access)
        /\ access \subseteq {"loosened"} => ReadsLess(s.access, c.access)
    <3>1. s.access \in Access /\ c.access \in Access BY DEF Sandbox
    <3>. QED BY <3>1, AccessDriftFacts
  <2>4. /\ s.noTmpdir \in BOOLEAN /\ c.noTmpdir \in BOOLEAN
        /\ s.noSlashTmp \in BOOLEAN /\ c.noSlashTmp \in BOOLEAN
    BY DEF Sandbox
  <2>5. /\ tmpdir \subseteq Directions
        /\ tmpdir \subseteq {"tightened"} => (s.noTmpdir => c.noTmpdir)
        /\ tmpdir \subseteq {"loosened"} => (c.noTmpdir => s.noTmpdir)
    BY <2>4, MovedFacts
  <2>6. /\ slashTmp \subseteq Directions
        /\ slashTmp \subseteq {"tightened"} => (s.noSlashTmp => c.noSlashTmp)
        /\ slashTmp \subseteq {"loosened"} => (c.noSlashTmp => s.noSlashTmp)
    BY <2>4, MovedFacts
  <2>. HIDE DEF roots, access, tmpdir, slashTmp
  <2>7. /\ OrChanged(D) \in Directions
        /\ \A dir \in {"tightened", "loosened"} : OrChanged(D) = dir => D = {dir}
    BY <2>2, <2>3, <2>5, <2>6, CombinedFacts
  <2>8. SandboxDrift(s, c) = "tightened" => SandboxLess(c, s)
    <3>1. SandboxDrift(s, c) = "tightened" => D \subseteq {"tightened"} BY <2>1, <2>7
    <3>. QED BY <1>2, <2>2, <2>3, <2>5, <2>6, <3>1 DEF SandboxLess
  <2>9. SandboxDrift(s, c) = "loosened" => SandboxLess(s, c)
    <3>1. SandboxDrift(s, c) = "loosened" => D \subseteq {"loosened"} BY <2>1, <2>7
    <3>. QED BY <1>2, <2>2, <2>3, <2>5, <2>6, <3>1 DEF SandboxLess
  <2>. QED BY <2>1, <2>7, <2>8, <2>9
<1>. QED BY <1>1, <1>2

(* Roots that are covered stand for fewer places. *)
LEMMA CoveredPlaces ==
  ASSUME NEW R \in SUBSET Path, NEW S \in SUBSET Path, Covered(R, S)
  PROVE  Places(R) \subseteq Places(S)
<1>1. ASSUME NEW r \in R PROVE Extent[r] \subseteq Places(S)
  <2>1. PICK q \in S : q \in Above[r] BY DEF Covered
  <2>2. Extent[r] \subseteq Extent[q] BY <2>1, ExtentAssumption
  <2>. QED BY <2>1, <2>2 DEF Places
<1>. QED BY <1>1 DEF Places

(* A sandbox that allows less in each respect is narrower. *)
LEMMA SandboxLessIsNarrower ==
  ASSUME NEW x \in Sandbox, NEW y \in Sandbox, SandboxLess(x, y)
  PROVE  Narrower(SandboxGrants(x), SandboxGrants(y))
<1>1. Unconfined(x) <=> Unconfined(y) BY DEF Unconfined, SandboxLess
<1>2. x.roots \in SUBSET Path /\ y.roots \in SUBSET Path /\ x.access \in Access /\ y.access \in Access
  BY DEF Sandbox
<1>3. WritablePlaces(x) \subseteq WritablePlaces(y)
  <2>1. Places(x.roots) \subseteq Places(y.roots) BY <1>2, CoveredPlaces DEF SandboxLess
  <2>. QED BY <2>1 DEF WritablePlaces, SandboxLess
<1>4. CASE Unconfined(y) \/ y.access.full BY <1>1, <1>3, <1>4, SandboxNarrower
<1>5. CASE ~Unconfined(y) /\ ~y.access.full
  <2>1. /\ x.access.roots \in SUBSET Path /\ y.access.roots \in SUBSET Path
        /\ ~x.access.full /\ Covered(x.access.roots, y.access.roots)
        /\ x.access.defaults => y.access.defaults
    BY <1>2, <1>5 DEF SandboxLess, ReadsLess, Access
  <2>2. Places(x.access.roots) \subseteq Places(y.access.roots) BY <2>1, CoveredPlaces
  <2>3. Places(AccessReads(x.access)) \subseteq Places(AccessReads(y.access))
    BY <1>5, <2>1, <2>2 DEF AccessReads, Places
  <2>4. Readable(SandboxGrants(x)) \subseteq Readable(SandboxGrants(y))
    BY <1>1, <1>3, <1>5, <2>3, SandboxFacts
  <2>5. Writable(SandboxGrants(x)) \subseteq Writable(SandboxGrants(y))
    BY <1>1, <1>3, <1>5, SandboxFacts
  <2>. QED BY <2>4, <2>5 DEF Narrower
<1>. QED BY <1>4, <1>5

(* permission_drift_changes: a drift in one direction is one in each         *)
(* dimension, of the policy and of the sandbox, and the profile is the same. *)
LEMMA DriftFacts ==
  ASSUME NEW given \in Inputs, NEW s \in Answers, NEW c \in Answers, Trusted(s), Trusted(c)
  PROVE  LET D == DriftDirections(s, c, Resolve(given, s), Resolve(given, c))
         IN  /\ s # c => D # {}
             /\ Combined(D) = "tightened" =>
                  /\ RiskRank(c.policy) <= RiskRank(s.policy)
                  /\ \A d \in Dimension : Resolve(given, c)[d] => Resolve(given, s)[d]
                  /\ c.sandbox = s.sandbox \/ SandboxLess(c.sandbox, s.sandbox)
                  /\ c.profile = s.profile
             /\ Combined(D) = "loosened" =>
                  /\ RiskRank(s.policy) <= RiskRank(c.policy)
                  /\ \A d \in Dimension : Resolve(given, s)[d] => Resolve(given, c)[d]
                  /\ c.sandbox = s.sandbox \/ SandboxLess(s.sandbox, c.sandbox)
                  /\ c.profile = s.profile
<1>. DEFINE first == Resolve(given, s)
            now == Resolve(given, c)
            flags == FlagDrift(first, now)
            policy == ApprovalDrift(s.policy, c.policy)
            sandbox == IF s.sandbox = c.sandbox THEN {} ELSE {SandboxDrift(s.sandbox, c.sandbox)}
            profile == IF s.profile = c.profile /\ s.active = c.active THEN {} ELSE {"changed"}
            D == flags \cup policy \cup sandbox \cup profile
<1>1. DriftDirections(s, c, first, now) = D BY DEF DriftDirections
<1>2. s.sandbox \in Sandbox /\ c.sandbox \in Sandbox BY SidecarPermissionsAssumption DEF Answer
<1>3. /\ flags \subseteq Directions
      /\ flags \subseteq {"tightened"} => \A d \in Dimension : now[d] => first[d]
      /\ flags \subseteq {"loosened"} => \A d \in Dimension : first[d] => now[d]
  <2>1. \A d \in Dimension : first[d] \in BOOLEAN /\ now[d] \in BOOLEAN
    <3>1. \A a \in Answers, d \in Dimension : Resolve(given, a)[d] \in BOOLEAN
      <4>1. ASSUME NEW a \in Answers, NEW d \in Dimension PROVE Derived(a)[d] \in BOOLEAN
        <5>1. a.sandbox.network \in BOOLEAN BY SidecarPermissionsAssumption DEF Answer, Sandbox
        <5>2. CASE d = "approval" BY <5>2 DEF Derived
        <5>3. CASE d = "network" BY <5>1, <5>3 DEF Derived
        <5>4. CASE d = "write" BY <5>4 DEF Derived, SandboxWrites
        <5>. QED BY <5>2, <5>3, <5>4 DEF Dimension
      <4>2. ASSUME NEW a \in Answers, NEW d \in Dimension
            PROVE  Resolve(given, a)[d] = IF given[d] = "auto" THEN Derived(a)[d] ELSE given[d] = "true"
        BY DEF Resolve
      <4>. QED BY <4>1, <4>2
    <3>. QED BY <3>1
  <2>. HIDE DEF first, now
  <2>. DEFINE M(d) == Moved(first[d] /\ ~now[d], now[d] /\ ~first[d])
  <2>2. ASSUME NEW d \in Dimension
        PROVE  /\ M(d) \subseteq Directions
               /\ "loosened" \notin M(d) => (now[d] => first[d])
               /\ "tightened" \notin M(d) => (first[d] => now[d])
    BY <2>1, MovedFacts
  <2>3. flags = UNION {M(d) : d \in Dimension} BY DEF FlagDrift
  <2>. HIDE DEF M, flags
  <2>4. \A d \in Dimension : M(d) \subseteq flags BY <2>3
  <2>5. flags \subseteq Directions BY <2>2, <2>3
  <2>6. ASSUME flags \subseteq {"tightened"}, NEW d \in Dimension, now[d] PROVE first[d]
    <3>1. "loosened" \notin M(d) BY <2>4, <2>6
    <3>. QED BY <2>2, <2>6, <3>1
  <2>7. ASSUME flags \subseteq {"loosened"}, NEW d \in Dimension, first[d] PROVE now[d]
    <3>1. "tightened" \notin M(d) BY <2>4, <2>7
    <3>. QED BY <2>2, <2>7, <3>1
  <2>. QED BY <2>5, <2>6, <2>7
<1>4. /\ policy \subseteq Directions
      /\ policy \subseteq {"tightened"} => RiskRank(c.policy) <= RiskRank(s.policy)
      /\ policy \subseteq {"loosened"} => RiskRank(s.policy) <= RiskRank(c.policy)
      /\ policy = {} => s.policy = c.policy
  <2>1. s.policy \in Policies /\ c.policy \in Policies BY DEF Trusted
  <2>. DEFINE n == RiskRank(c.policy) < RiskRank(s.policy)
              w == RiskRank(s.policy) < RiskRank(c.policy)
  <2>2. /\ RiskRank(s.policy) \in 0 .. 3 /\ RiskRank(c.policy) \in 0 .. 3
        /\ RiskRank(s.policy) = RiskRank(c.policy) => s.policy = c.policy
    BY <2>1, Ranks
  <2>3. n \in BOOLEAN /\ w \in BOOLEAN BY <2>2
  <2>4. policy = Moved(n, w) BY DEF ApprovalDrift
  <2>5. /\ n => ~w /\ RiskRank(c.policy) <= RiskRank(s.policy)
        /\ w => RiskRank(s.policy) <= RiskRank(c.policy)
        /\ ~n => RiskRank(s.policy) <= RiskRank(c.policy)
        /\ ~w => RiskRank(c.policy) <= RiskRank(s.policy)
        /\ ~n /\ ~w => s.policy = c.policy
    BY <2>2
  <2>. HIDE DEF n, w, policy
  <2>6. /\ policy \subseteq Directions
        /\ policy \subseteq {"tightened"} => (w => n)
        /\ policy \subseteq {"loosened"} => (n => w)
    BY <2>3, <2>4, MovedFacts DEF Directions
  <2>7. policy = {} => s.policy = c.policy BY <2>3, <2>4, <2>5 DEF Moved
  <2>. QED BY <2>3, <2>5, <2>6, <2>7
<1>5. /\ sandbox \subseteq Directions
      /\ sandbox \subseteq {"tightened"} => c.sandbox = s.sandbox \/ SandboxLess(c.sandbox, s.sandbox)
      /\ sandbox \subseteq {"loosened"} => c.sandbox = s.sandbox \/ SandboxLess(s.sandbox, c.sandbox)
      /\ sandbox = {} => s.sandbox = c.sandbox
  BY <1>2, SandboxDriftFacts
<1>6. /\ profile \subseteq Directions
      /\ profile \subseteq {"tightened"} \/ profile \subseteq {"loosened"} => s.profile = c.profile
      /\ profile = {} => s.profile = c.profile /\ s.active = c.active
  BY DEF Directions
<1>7. s # c => s.policy # c.policy \/ s.sandbox # c.sandbox \/ s.profile # c.profile \/ s.active # c.active
  BY SidecarPermissionsAssumption DEF Answer
<1>. HIDE DEF flags, policy, sandbox, profile
<1>8. s # c => D # {} BY <1>4, <1>5, <1>6, <1>7
<1>9. \A dir \in {"tightened", "loosened"} : Combined(D) = dir => D = {dir}
  BY <1>3, <1>4, <1>5, <1>6, CombinedFacts
<1>10. Combined(D) = "tightened" =>
         /\ RiskRank(c.policy) <= RiskRank(s.policy)
         /\ \A d \in Dimension : now[d] => first[d]
         /\ c.sandbox = s.sandbox \/ SandboxLess(c.sandbox, s.sandbox)
         /\ c.profile = s.profile
  <2>1. Combined(D) = "tightened" => /\ flags \subseteq {"tightened"} /\ policy \subseteq {"tightened"}
                                     /\ sandbox \subseteq {"tightened"} /\ profile \subseteq {"tightened"}
    BY <1>9
  <2>. HIDE DEF D, first, now
  <2>. QED BY <1>3, <1>4, <1>5, <1>6, <2>1
<1>11. Combined(D) = "loosened" =>
         /\ RiskRank(s.policy) <= RiskRank(c.policy)
         /\ \A d \in Dimension : first[d] => now[d]
         /\ c.sandbox = s.sandbox \/ SandboxLess(s.sandbox, c.sandbox)
         /\ c.profile = s.profile
  <2>1. Combined(D) = "loosened" => /\ flags \subseteq {"loosened"} /\ policy \subseteq {"loosened"}
                                    /\ sandbox \subseteq {"loosened"} /\ profile \subseteq {"loosened"}
    BY <1>9
  <2>. HIDE DEF D, first, now
  <2>. QED BY <1>3, <1>4, <1>5, <1>6, <2>1
<1>. QED BY <1>1, <1>8, <1>10, <1>11

(* What an answer allows depends on its profile, or else on its sandbox.     *)
LEMMA LessIsNarrower ==
  ASSUME NEW a \in Answers, NEW b \in Answers, a.profile = b.profile,
         a.sandbox = b.sandbox \/ SandboxLess(a.sandbox, b.sandbox)
  PROVE  Narrower(GrantedBy(a), GrantedBy(b))
<1>1. CASE a.profile # None
  <2>1. GrantedBy(a) = GrantedBy(b) BY <1>1 DEF GrantedBy, ProfileScope
  <2>. QED BY <2>1, NarrowerIsReflexive
<1>2. CASE a.profile = None
  <2>1. GrantedBy(a) = SandboxGrants(a.sandbox) /\ GrantedBy(b) = SandboxGrants(b.sandbox)
    BY <1>2 DEF GrantedBy, SandboxGrants
  <2>2. a.sandbox \in Sandbox /\ b.sandbox \in Sandbox BY SidecarPermissionsAssumption DEF Answer
  <2>. QED BY <2>1, <2>2, NarrowerIsReflexive, SandboxLessIsNarrower
<1>. QED BY <1>1, <1>2

-----------------------------------------------------------------------------
(* What the sidecar goes by, and what a turn was asked with.                 *)

Allowed(given, s, c) == Effective(Resolve(given, s), Resolve(given, c))

(* The answers are the same, or their difference was audited. *)
Recorded(given, records, s, c) ==
  \/ c = s
  \/ [ startup |-> s, current |-> c,
       direction |-> Combined(DriftDirections(s, c, Resolve(given, s), Resolve(given, c))) ] \in records

Pinned(given, pin) ==
  pin.snapshot \in Answers /\ Trusted(pin.snapshot) /\ pin.resolved = Resolve(given, pin.snapshot)

(* What is needed of the permissions a turn may be started with. *)
Fine(given, records, pin, now, effective) ==
  /\ Pinned(given, pin) /\ now \in Answers /\ Trusted(now)
  /\ effective = Allowed(given, pin.snapshot, now)
  /\ Recorded(given, records, pin.snapshot, now)

CarFine(given, records, c) ==
  /\ c.startup # None => Pinned(given, c.startup)
  /\ c.startup # None /\ c.last # None => Recorded(given, records, c.startup.snapshot, c.last)
  /\ c.at = "noting" =>
       Fine(given, records, IF c.startup = None THEN c.note.startup ELSE c.startup,
            c.note.snapshot, c.note.effective)
  /\ c.at = "starting" => Fine(given, records, c.startup, c.last, c.effective)

TurnFine(given, records, t) ==
  t # None =>
    /\ {t.startup, t.current} \subseteq Answers /\ Trusted(t.startup) /\ Trusted(t.current)
    /\ Recorded(given, records, t.startup, t.current)
    /\ t.overrides \in Overrides(t.startup, t.current, Allowed(given, t.startup, t.current))

CapInv == CarFine(inputs, audit, car) /\ TurnFine(inputs, audit, turn)

(* What was audited stays so. *)
LEMMA RecordedStays ==
  ASSUME NEW given, NEW A, NEW B, A \subseteq B, NEW s, NEW c, Recorded(given, A, s, c)
  PROVE  Recorded(given, B, s, c)
BY DEF Recorded

(* So a turn that was fine stays so. *)
LEMMA TurnFineStays ==
  ASSUME NEW given, NEW A, NEW B, A \subseteq B, NEW t, TurnFine(given, A, t)
  PROVE  TurnFine(given, B, t)
BY RecordedStays DEF TurnFine

(* A sidecar that forgets, or stays as it is. *)
LEMMA ForgetsKeeps ==
  ASSUME CapInv, inputs' = inputs, audit \subseteq audit', turn' \in {turn, None},
         \/ car' = car
         \/ /\ car'.startup \in {car.startup, None} /\ car'.last \in {car.last, None}
            /\ car'.at \notin {"noting", "starting"}
  PROVE  CapInv'
<1>1. TurnFine(inputs, audit', turn) BY TurnFineStays DEF CapInv
<1>2. TurnFine(inputs', audit', turn') BY <1>1 DEF TurnFine
<1>3. ASSUME NEW s, NEW c, Recorded(inputs, audit, s, c) PROVE Recorded(inputs, audit', s, c)
  BY <1>3, RecordedStays
<1>4. CASE car' = car
  <2>1. CarFine(inputs, audit', car) BY <1>3 DEF CapInv, CarFine, Fine
  <2>. QED BY <1>2, <1>4, <2>1 DEF CapInv
<1>5. CASE /\ car'.startup \in {car.startup, None} /\ car'.last \in {car.last, None}
           /\ car'.at \notin {"noting", "starting"}
  <2>1. CarFine(inputs, audit', car') BY <1>3, <1>5 DEF CapInv, CarFine
  <2>. QED BY <1>2, <2>1 DEF CapInv
<1>. QED BY <1>4, <1>5

(* Where the proof is dropped, only the startup permissions remain. *)
LEMMA DropsForgets ==
  ASSUME TypeInv, NEW at \in {"connecting", "ready"}, Drops(at)
  PROVE  car'.startup = car.startup /\ car'.last = None /\ car'.at = at
<1>1. car \in CarRecord BY DEF TypeInv
<1>2. car' = [car EXCEPT !.at = at, !.epoch = store'.epoch, !.last = None,
                         !.effective = None, !.note = None]
  BY DEF Drops
<1>. QED BY <1>1, <1>2 DEF CarRecord

(* What is to be recorded is fine, and a difference to the start is audited. *)
LEMMA SyncsFine ==
  ASSUME TypeInv, CapInv, NEW next \in {"ready", "starting"}, Syncs(next), CanSync,
         inputs' = inputs, turn' = turn
  PROVE  CapInv'
<1>. DEFINE now == Resolve(inputs, thread)
            first == IF car.startup = None THEN now ELSE car.startup.resolved
            pin == [resolved |-> first, snapshot |-> thread]
            note == [ epoch |-> car.epoch, effective |-> Effective(first, now), snapshot |-> thread,
                      startup |-> IF car.startup # None THEN None ELSE pin ]
            drift == DriftDirections(car.startup.snapshot, thread, first, now)
<1>1. thread \in Answers /\ Trusted(thread) /\ inputs \in Inputs BY DEF TypeInv, CanSync
<1>2. /\ audit' = IF car.startup # None /\ car.last # thread /\ drift # {}
                  THEN audit \cup {[startup |-> car.startup.snapshot, current |-> thread,
                                    direction |-> Combined(drift)]}
                  ELSE audit
      /\ car' = [car EXCEPT !.at = "noting", !.next = next, !.note = note]
  BY DEF Syncs, MayHaveDrifted
<1>3. audit \subseteq audit' BY <1>2
<1>. HIDE DEF now
<1>4. /\ car'.startup = car.startup /\ car'.last = car.last /\ car'.at = "noting"
      /\ car'.note = note
  <2>1. car \in CarRecord BY DEF TypeInv
  <2>. HIDE DEF note
  <2>. QED BY <1>2, <2>1 DEF CarRecord
<1>5. TurnFine(inputs', audit', turn') BY <1>3, TurnFineStays DEF CapInv
<1>6. CASE car.startup = None
  <2>1. /\ note.startup = pin /\ note.snapshot = thread /\ note.effective = Effective(now, now)
        /\ pin.snapshot = thread /\ pin.resolved = now
    BY <1>6
  <2>. HIDE DEF note, pin
  <2>2. Fine(inputs, audit', pin, thread, note.effective)
    BY <1>1, <2>1 DEF Fine, Pinned, Allowed, Recorded, now
  <2>3. CarFine(inputs, audit', car') BY <1>4, <1>6, <2>1, <2>2 DEF CarFine
  <2>. QED BY <1>5, <2>3 DEF CapInv
<1>7. CASE car.startup # None
  <2>1. Pinned(inputs, car.startup) BY <1>7 DEF CapInv, CarFine
  <2>. DEFINE s == car.startup.snapshot
  <2>2. first = Resolve(inputs, s) /\ s \in Answers /\ Trusted(s) BY <1>7, <2>1 DEF Pinned
  <2>3. note.snapshot = thread /\ note.effective = Allowed(inputs, s, thread)
    BY <2>2 DEF Allowed, now
  <2>4. drift = DriftDirections(s, thread, Resolve(inputs, s), Resolve(inputs, thread))
    BY <2>2 DEF now
  <2>. HIDE DEF note, first, s, drift
  <2>5. thread # s => drift # {} BY <1>1, <2>2, <2>4, DriftFacts
  <2>6. Recorded(inputs, audit', s, thread)
    <3>1. CASE thread = s BY <3>1 DEF Recorded
    <3>2. CASE thread # s /\ car.last # thread
      <4>1. [startup |-> s, current |-> thread, direction |-> Combined(drift)] \in audit'
        BY <1>2, <1>7, <2>5, <3>2 DEF s
      <4>. QED BY <2>4, <4>1 DEF Recorded
    <3>3. CASE car.last = thread
      <4>1. car.last # None BY <1>1, <3>3, SidecarPermissionsAssumption
      <4>2. Recorded(inputs, audit, s, car.last) BY <1>7, <4>1 DEF CapInv, CarFine, s
      <4>. QED BY <1>3, <3>3, <4>2, RecordedStays
    <3>. QED BY <3>1, <3>2, <3>3
  <2>7. Fine(inputs, audit', car.startup, thread, note.effective)
    BY <1>1, <2>1, <2>3, <2>6 DEF Fine, s
  <2>8. car.last # None => Recorded(inputs, audit', s, car.last)
    BY <1>3, <1>7, RecordedStays DEF CapInv, CarFine, s
  <2>9. CarFine(inputs, audit', car') BY <1>4, <1>7, <2>1, <2>3, <2>7, <2>8 DEF CarFine, s
  <2>. QED BY <1>5, <2>9 DEF CapInv
<1>. QED BY <1>6, <1>7

(* What was recorded is what the sidecar then goes by. *)
LEMMA NotedFine ==
  ASSUME TypeInv, CapInv, Noted
  PROVE  CapInv'
<1>1. car \in CarRecord /\ car.at = "noting" BY DEF TypeInv, Noted
<1>. DEFINE pin == IF car.startup = None THEN car.note.startup ELSE car.startup
<1>2. /\ car' = [car EXCEPT !.at = car.next, !.last = car.note.snapshot,
                            !.effective = car.note.effective, !.note = None, !.startup = pin]
      /\ inputs' = inputs /\ audit' = audit /\ turn' = turn
  BY <1>1 DEF Noted, CarRecord
<1>3. Fine(inputs, audit, pin, car.note.snapshot, car.note.effective)
  BY <1>1 DEF CapInv, CarFine
<1>. HIDE DEF pin
<1>4. /\ car'.startup = pin /\ car'.last = car.note.snapshot
      /\ car'.effective = car.note.effective /\ car'.at # "noting"
  BY <1>1, <1>2 DEF CarRecord
<1>5. CarFine(inputs, audit, car') BY <1>3, <1>4 DEF CarFine, Fine
<1>. QED BY <1>2, <1>5 DEF CapInv

(* A turn is asked with what was recorded last. *)
LEMMA StartsTurnFine ==
  ASSUME TypeInv, CapInv, StartsTurn
  PROVE  CapInv'
<1>. DEFINE overrides == Overrides(car.startup.snapshot, car.last, car.effective)
<1>1. car \in CarRecord /\ car.at = "starting" /\ inputs' = inputs /\ audit' = audit
  BY DEF TypeInv, StartsTurn
<1>2. ASSUME NEW o \in overrides,
             turn' = [overrides |-> o, startup |-> car.startup.snapshot, current |-> car.last],
             car' = [car EXCEPT !.at = "observing"]
      PROVE  CapInv'
  <2>1. Fine(inputs, audit, car.startup, car.last, car.effective) BY <1>1 DEF CapInv, CarFine
  <2>2. /\ turn'.overrides = o /\ turn'.startup = car.startup.snapshot /\ turn'.current = car.last
    BY <1>2
  <2>3. TurnFine(inputs, audit, turn') BY <1>2, <2>1, <2>2 DEF TurnFine, Fine, Pinned
  <2>4. car'.startup = car.startup /\ car'.last = car.last /\ car'.at = "observing"
    BY <1>1, <1>2 DEF CarRecord
  <2>5. CarFine(inputs, audit, car') BY <2>4 DEF CapInv, CarFine
  <2>. QED BY <1>1, <2>3, <2>5 DEF CapInv
<1>3. CASE Drops("connecting") /\ turn' = turn
  <2>1. car'.startup = car.startup /\ car'.last = None /\ car'.at = "connecting"
    BY <1>3, DropsForgets
  <2>. QED BY <1>1, <1>3, <2>1, ForgetsKeeps
<1>4. \/ \E o \in overrides :
           /\ turn' = [overrides |-> o, startup |-> car.startup.snapshot, current |-> car.last]
           /\ car' = [car EXCEPT !.at = "observing"]
      \/ Drops("connecting") /\ turn' = turn
  BY Zenon DEF StartsTurn
<1>. QED BY <1>2, <1>3, <1>4

(* Each step keeps what turns are started with. *)
LEMMA CapStep == PinInv /\ CapInv /\ [PermissionNext]_permissionVars => CapInv'
<1>. SUFFICES ASSUME PinInv, CapInv, [PermissionNext]_permissionVars PROVE CapInv' OBVIOUS
<1>1. TypeInv /\ car \in CarRecord BY DEF PinInv, TypeInv
<1>2. CASE \/ StoreInvalidates \/ LateRecord \/ UserChanges \/ NotedUnanswered \/ NoteComesLate
           \/ UNCHANGED permissionVars
  <2>1. car' = car /\ inputs' = inputs /\ audit' = audit /\ turn' = turn
    BY <1>2 DEF StoreInvalidates, LateRecord, UserChanges, NotedUnanswered, NoteComesLate, permissionVars
  <2>. QED BY <2>1, ForgetsKeeps
<1>3. ASSUME NEW at \in {"connecting", "ready"}, Drops(at), inputs' = inputs, audit' = audit,
             turn' \in {turn, None}
      PROVE  CapInv'
  <2>1. car'.startup = car.startup /\ car'.last = None /\ car'.at = at BY <1>1, <1>3, DropsForgets
  <2>. QED BY <1>3, <2>1, ForgetsKeeps
<1>4. CASE Connects
  <2>1. inputs' = inputs /\ turn' = turn BY <1>4 DEF Connects
  <2>2. CASE CanSync /\ Syncs("ready") BY <1>1, <2>1, <2>2, SyncsFine
  <2>3. CASE /\ car' = [car EXCEPT !.at = "ready", !.last = None, !.effective = None]
             /\ UNCHANGED <<store, audit>>
    <3>1. car'.startup = car.startup /\ car'.last = None /\ car'.at = "ready"
      BY <1>1, <2>3 DEF CarRecord
    <3>. QED BY <2>1, <2>3, <3>1, ForgetsKeeps
  <2>4. CASE Drops("connecting") /\ UNCHANGED audit BY <1>3, <2>1, <2>4
  <2>. QED BY <1>4, <2>2, <2>3, <2>4 DEF Connects
<1>5. CASE Refreshes
  <2>1. inputs' = inputs /\ turn' = turn BY <1>5 DEF Refreshes
  <2>2. ASSUME CanSync, NEW next \in {"starting", "ready"}, Syncs(next) PROVE CapInv'
    BY <1>1, <2>1, <2>2, SyncsFine
  <2>3. CASE Drops("connecting") /\ UNCHANGED audit BY <1>3, <2>1, <2>3
  <2>. QED BY <1>5, <2>2, <2>3 DEF Refreshes
<1>6. CASE Noted BY <1>1, <1>6, NotedFine
<1>7. CASE NoteGivenUp BY <1>3, <1>7 DEF NoteGivenUp
<1>8. CASE StartsTurn BY <1>1, <1>8, StartsTurnFine
<1>9. CASE TurnEnds
  <2>1. inputs' = inputs /\ audit' = audit /\ turn' = None BY <1>9 DEF TurnEnds
  <2>2. CASE Drops("ready") BY <1>3, <2>1, <2>2
  <2>3. CASE car' = [NewCar(store.epoch) EXCEPT !.at = "over"]
    <3>1. car'.startup = None /\ car'.last = None /\ car'.at = "over" BY <2>3 DEF NewCar
    <3>. QED BY <2>1, <3>1, ForgetsKeeps
  <2>. QED BY <1>9, <2>2, <2>3 DEF TurnEnds
<1>10. CASE StartsAgain
  <2>1. inputs' = inputs /\ audit' = audit /\ turn' = None /\ car' = NewCar(store'.epoch)
    BY <1>10 DEF StartsAgain
  <2>2. car'.startup = None /\ car'.last = None /\ car'.at = "connecting" BY <2>1 DEF NewCar
  <2>. QED BY <2>1, <2>2, ForgetsKeeps
<1>. QED BY <1>2, <1>4, <1>5, <1>6, <1>7, <1>8, <1>9, <1>10 DEF PermissionNext

(* At the start there is neither a turn nor anything to start it with. *)
LEMMA CapInit == PermissionInit => CapInv
BY DEF PermissionInit, NewCar, CapInv, CarFine, TurnFine

(* No detached turn is ever allowed more than its thread was when the        *)
(* session started, nor more than it is when the turn starts: not in what    *)
(* it may read or write, the network, or the approval policy, whichever of   *)
(* the forms of an answer the two caps had and the request takes.            *)
THEOREM NeverWiderAlways == PermissionSpec => []NeverWider
<1>1. PinInv /\ CapInv => NeverWider
  <2>. SUFFICES ASSUME PinInv, CapInv, turn # None PROVE NeverWider BY DEF NeverWider
  <2>1. inputs \in Inputs BY DEF PinInv, TypeInv
  <2>2. /\ turn.startup \in Answers /\ turn.current \in Answers
        /\ Trusted(turn.startup) /\ Trusted(turn.current)
        /\ turn.overrides \in Overrides(turn.startup, turn.current,
                                Effective(Resolve(inputs, turn.startup), Resolve(inputs, turn.current)))
    BY DEF CapInv, TurnFine, Allowed
  <2>. HIDE DEF CapInv
  <2>3. /\ \A cap \in {turn.startup, turn.current} :
             /\ RiskRank(turn.overrides.policy) <= RiskRank(cap.policy)
             /\ Narrower(GrantedTo(turn.overrides), GrantedBy(cap))
             /\ inputs.network = "auto" /\ GrantedTo(turn.overrides).network => cap.sandbox.network
        /\ inputs.approval = "false" => turn.overrides.policy = "never"
        /\ inputs.network = "false" => ~GrantedTo(turn.overrides).network
        /\ inputs.write = "false" => ~GrantedTo(turn.overrides).write
    BY <2>1, <2>2, OverridesAreNarrower
  <2>. QED BY <2>3 DEF NeverWider
<1>. QED BY <1>1, PinInit, PinStep, CapInit, CapStep, PTL DEF PermissionSpec

(* No turn starts with permissions that moved unaudited, and a move that is  *)
(* audited as a tightening or a loosening was one.                           *)
THEOREM DriftIsAuditedAlways == PermissionSpec => []DriftIsAudited
<1>1. PinInv /\ CapInv => DriftIsAudited
  <2>. SUFFICES ASSUME PinInv, CapInv, turn # None, turn.current # turn.startup
                PROVE  DriftIsAudited
    BY DEF DriftIsAudited
  <2>. DEFINE s == turn.startup
              c == turn.current
              D == DriftDirections(s, c, Resolve(inputs, s), Resolve(inputs, c))
              drift == [startup |-> s, current |-> c, direction |-> Combined(D)]
  <2>1. inputs \in Inputs BY DEF PinInv, TypeInv
  <2>2. s \in Answers /\ c \in Answers /\ Trusted(s) /\ Trusted(c) BY DEF CapInv, TurnFine
  <2>3. drift \in audit BY DEF CapInv, TurnFine, Recorded
  <2>4. drift.startup = s /\ drift.current = c /\ drift.direction = Combined(D) OBVIOUS
  <2>5. /\ Combined(D) = "tightened" =>
             /\ RiskRank(c.policy) <= RiskRank(s.policy)
             /\ \A d \in Dimension : Resolve(inputs, c)[d] => Resolve(inputs, s)[d]
             /\ c.sandbox = s.sandbox \/ SandboxLess(c.sandbox, s.sandbox)
             /\ c.profile = s.profile
        /\ Combined(D) = "loosened" =>
             /\ RiskRank(s.policy) <= RiskRank(c.policy)
             /\ \A d \in Dimension : Resolve(inputs, s)[d] => Resolve(inputs, c)[d]
             /\ c.sandbox = s.sandbox \/ SandboxLess(s.sandbox, c.sandbox)
             /\ c.profile = s.profile
    BY <2>1, <2>2, DriftFacts
  <2>. HIDE DEF D, drift, CapInv, PinInv
  <2>6. Combined(D) = "tightened" => AtMost(c, s) BY <2>2, <2>5, LessIsNarrower DEF AtMost
  <2>7. Combined(D) = "loosened" => AtMost(s, c) BY <2>2, <2>5, LessIsNarrower DEF AtMost
  <2>. QED BY <2>3, <2>4, <2>6, <2>7 DEF DriftIsAudited
<1>. QED BY <1>1, PinInit, PinStep, CapInit, CapStep, PTL DEF PermissionSpec
=============================================================================
