-------------------------- MODULE CliSidecarProofs --------------------------
(***************************************************************************)
(* Theorems about CliSidecar, proved from the inductive invariant          *)
(* SidecarInv at the end. Its parts are layered, each proved from those    *)
(* before it: Typed (the fields of the sidecar fit the place it is at),    *)
(* TableInv of the store, MyRows (every attempt is one of this session),   *)
(* FollowInv (what is observed was accepted), TurnInv (a refused attempt   *)
(* was never sent), CompletedInv (what is reported as completed has        *)
(* completed), EpochInv (no call given up is ahead of the epoch of the     *)
(* sidecar), DropInv (once the proof is dropped nothing still to come      *)
(* gives it back) and MatchInv (the store has what the sidecar believes to *)
(* have proved).                                                           *)
(***************************************************************************)
EXTENDS CliSidecar, DeliveryProofs, SequenceTheorems

(***************************************************************************)
(* Types: the fields of the sidecar fit the place it is at.                *)
(***************************************************************************)

Activities == {"active", "idle"}

Places == Calling \cup {"connecting", "rereading", "listening", "sending", "sent",
                        "observing", "over"}

(* Where no delivery is under way, and where one is.                       *)
Resting == {"connecting", "rereading", "listening", "over", "dropping", "proving", "noting"}
Delivering == {"beginning", "sending", "sent", "cancelling", "refusing", "parking", "accepting",
               "observing", "reporting", "expiring"}

Nexts == {"connecting", "rereading", "listening", "parked", "over"}

CarRecord ==
  [ at : Places, running : BOOLEAN, epoch : Nat, arev : Nat, crev : Nat,
    activity : Activities \cup {"none"}, capable : BOOLEAN, durable : BOOLEAN,
    seen : Activities \cup {"none"}, attempt : Attempt \cup {NoDelivery},
    batch : Batch \cup {0}, event : TurnEvents \cup {"none"}, next : Nexts \cup {"none"} ]

(* What the place of the sidecar asks of its other fields.                 *)
Placed(c) ==
  /\ c \in CarRecord
  /\ c.at \in Delivering => c.attempt \in Attempt
  /\ c.at = "beginning" => c.batch \in Batch
  /\ c.at \in {"proving", "noting"} => c.seen \in Activities
  /\ c.at = "reporting" => c.event \in {"turn_completed", "turn_failed"}
  /\ c.at = "dropping" => c.next \in Nexts
  /\ c.at = "cancelling" => c.next \in {"connecting", "listening"}

Notes == [kind : Ended \cup {"started", "invalidated"}, turn : Attempt \cup {NoDelivery}]

TurnStates == Ran \cup {"unused", "drawn", "requested", "refused"}

Typed == /\ SidecarTypeOK
         /\ Placed(car)
         /\ wire \in [open : BOOLEAN, msgs : Seq(Notes)]

(* The fields of each kind of call.                                        *)
LEMMA CallFields ==
  ASSUME NEW call \in Calls
  PROVE  /\ call.kind \in Kinds
         /\ call.kind = "activity" =>
              call.epoch \in Nat /\ call.rev \in Nat /\ call.value \in Activities
         /\ call.kind = "capabilities" => call.epoch \in Nat /\ call.rev \in Nat
         /\ call.kind = "invalidate" => call.epoch \in Nat
         /\ call.kind = "begin" =>
              call.attempt \in Attempt /\ call.batch \in Batch /\ call.epoch \in Nat
         /\ call.kind = "reject" => call.attempt \in Attempt /\ call.manual \in BOOLEAN
         /\ call.kind \in {"accept", "expire", "observe"} => call.attempt \in Attempt
         /\ call.kind = "observe" => call.event \in TurnEvents
BY DEF Calls, Kinds, Activities

(* What the sidecar asks for is such a call.                               *)
LEMMA CallType ==
  ASSUME Placed(car), car.at \in Calling PROVE Call \in Calls
<1>1. /\ car.epoch \in Nat /\ car.crev + 1 \in Nat /\ car.arev + 1 \in Nat
  BY DEF Placed, CarRecord
<1>2. CASE car.at = "dropping" BY <1>1, <1>2 DEF Call, Calls
<1>3. CASE car.at = "proving" BY <1>1, <1>3 DEF Call, Calls
<1>4. CASE car.at = "noting" BY <1>1, <1>4 DEF Call, Calls, Placed, Activities
<1>5. CASE car.at = "beginning" BY <1>1, <1>5 DEF Call, Calls, Placed, Delivering
<1>6. CASE car.at \in {"cancelling", "refusing", "parking"}
  BY <1>6 DEF Call, Calls, Placed, Delivering
<1>7. CASE car.at = "accepting" BY <1>7 DEF Call, Calls, Placed, Delivering
<1>8. CASE car.at = "reporting" BY <1>8 DEF Call, Calls, Placed, Delivering, TurnEvents
<1>9. CASE car.at = "expiring" BY <1>9 DEF Call, Calls, Placed, Delivering
<1>. QED BY <1>2, <1>3, <1>4, <1>5, <1>6, <1>7, <1>8, <1>9 DEF Calling

(* Where the sidecar may go leaves its fields well formed.                 *)
LEMMA SettledFacts ==
  ASSUME NEW c \in CarRecord
  PROVE  /\ Settled(c) \in CarRecord
         /\ Settled(c).at = c.at /\ Settled(c).running = c.running
         /\ Settled(c).epoch = c.epoch /\ Settled(c).arev = c.arev /\ Settled(c).crev = c.crev
         /\ Settled(c).activity = c.activity /\ Settled(c).capable = c.capable
         /\ Settled(c).durable = c.durable
BY DEF Settled, CarRecord

(* The proof is forgotten, in the epoch given.                             *)
LEMMA UnprovedFacts ==
  ASSUME NEW c \in CarRecord, NEW epoch \in Nat
  PROVE  /\ Unproved(c, epoch) \in CarRecord
         /\ Unproved(c, epoch).at = c.at /\ Unproved(c, epoch).running = c.running
         /\ Unproved(c, epoch).epoch = epoch
         /\ Unproved(c, epoch).arev = 0 /\ Unproved(c, epoch).crev = 0
         /\ Unproved(c, epoch).activity = "none" /\ ~Unproved(c, epoch).capable
         /\ ~Unproved(c, epoch).durable
BY DEF Unproved, CarRecord

(* The sidecar has stopped: it is over, in the epoch it was in.            *)
LEMMA StoppedFacts ==
  ASSUME NEW c \in CarRecord
  PROVE  /\ Stopped(c) \in CarRecord
         /\ Stopped(c).at = "over" /\ Stopped(c).epoch = c.epoch /\ ~Stopped(c).durable
<1>. DEFINE d == Unproved(Settled(c), c.epoch)
<1>1. Settled(c) \in CarRecord /\ c.epoch \in Nat BY SettledFacts DEF CarRecord
<1>2. d \in CarRecord /\ d.epoch = c.epoch /\ ~d.durable BY <1>1, UnprovedFacts
<1>3. Stopped(c) = [d EXCEPT !.at = "over", !.running = FALSE] BY DEF Stopped
<1>. HIDE DEF d
<1>4. Stopped(c) \in CarRecord
  <2>1. "over" \in Places BY DEF Places
  <2>. QED BY <1>2, <1>3, <2>1, ZenonT(60) DEF CarRecord
<1>5. /\ Stopped(c).at = "over" /\ Stopped(c).epoch = d.epoch
      /\ Stopped(c).durable = d.durable
  BY <1>2, <1>3 DEF CarRecord
<1>. QED BY <1>2, <1>4, <1>5

(* The proof that the sidecar believes to have given.                      *)
SameProof(c, d) ==
  /\ d.epoch = c.epoch /\ d.arev = c.arev /\ d.crev = c.crev
  /\ d.activity = c.activity /\ d.capable = c.capable /\ d.durable = c.durable

(* Nothing is proved, in the epoch c is in.                                *)
NoProof(c, d) ==
  /\ d.epoch = c.epoch /\ d.arev = 0 /\ d.crev = 0
  /\ d.activity = "none" /\ ~d.capable /\ ~d.durable

(* It goes on where it was told to, and stops where the session is parked. *)
LEMMA ProceedFacts ==
  ASSUME NEW c \in CarRecord, NEW next \in Nexts
  PROVE  /\ Placed(Proceed(c, next))
         /\ next # "parked" => Proceed(c, next).at = next /\ SameProof(c, Proceed(c, next))
         /\ next = "parked" => /\ Proceed(c, next).at = "over"
                               /\ Proceed(c, next).epoch = c.epoch
                               /\ ~Proceed(c, next).durable
<1>1. CASE next = "parked"
  <2>1. Proceed(c, next) = Stopped(c) BY <1>1 DEF Proceed
  <2>. QED BY <1>1, <2>1, StoppedFacts DEF Placed, Delivering
<1>2. CASE next # "parked"
  <2>. DEFINE d == Settled(c)
  <2>1. Proceed(c, next) = [d EXCEPT !.at = next] BY <1>2 DEF Proceed
  <2>2. /\ d \in CarRecord /\ SameProof(c, d) BY SettledFacts DEF SameProof
  <2>3. next \in Places \cap {"connecting", "rereading", "listening", "over"}
    BY <1>2 DEF Nexts, Places
  <2>. HIDE DEF d
  <2>4. Proceed(c, next) \in CarRecord /\ Proceed(c, next).at = next BY <2>1, <2>2, <2>3 DEF CarRecord
  <2>5. SameProof(c, Proceed(c, next)) BY <2>1, <2>2 DEF CarRecord, SameProof
  <2>. QED BY <1>2, <2>3, <2>4, <2>5 DEF Placed, Delivering
<1>. QED BY <1>1, <1>2

(* The sidecar drops its proof: a call is needed only where it may have    *)
(* given one.                                                              *)
LEMMA DropFacts ==
  ASSUME NEW c \in CarRecord, NEW next \in Nexts
  PROVE  /\ Placed(Drop(c, next))
         /\ \/ Drop(c, next).at = "dropping" /\ SameProof(c, Drop(c, next))
            \/ /\ c.arev = 0 /\ c.crev = 0 /\ ~c.durable
               /\ Drop(c, next).at \in {"connecting", "rereading", "listening", "over"}
               /\ Drop(c, next).at # "over" => NoProof(c, Drop(c, next))
               /\ Drop(c, next).epoch = c.epoch /\ ~Drop(c, next).durable
<1>1. CASE c.durable \/ c.arev # 0 \/ c.crev # 0
  <2>. DEFINE d == Settled(c)
  <2>1. Drop(c, next) = [d EXCEPT !.at = "dropping", !.next = next] BY <1>1 DEF Drop
  <2>2. d \in CarRecord /\ SameProof(c, d) BY SettledFacts DEF SameProof
  <2>. HIDE DEF d
  <2>3. Drop(c, next) \in CarRecord
    <3>1. "dropping" \in Places /\ next \in Nexts \cup {"none"} BY DEF Places, Calling
    <3>. QED BY <2>1, <2>2, <3>1, ZenonT(60) DEF CarRecord
  <2>5. Drop(c, next).at = "dropping" BY <2>1, <2>2 DEF CarRecord
  <2>6. Drop(c, next).next = next BY <2>1, <2>2 DEF CarRecord
  <2>4. SameProof(c, Drop(c, next)) BY <2>1, <2>2 DEF CarRecord, SameProof
  <2>. QED BY <2>3, <2>4, <2>5, <2>6 DEF Placed, Delivering
<1>2. CASE ~(c.durable \/ c.arev # 0 \/ c.crev # 0)
  <2>. DEFINE d == Unproved(c, c.epoch)
  <2>1. Drop(c, next) = Proceed(d, next) BY <1>2 DEF Drop
  <2>2. d \in CarRecord /\ NoProof(c, d)
    <3>1. c.epoch \in Nat BY DEF CarRecord
    <3>. QED BY <3>1, UnprovedFacts DEF NoProof
  <2>. HIDE DEF d
  <2>3. /\ Placed(Proceed(d, next))
        /\ next # "parked" => Proceed(d, next).at = next /\ SameProof(d, Proceed(d, next))
        /\ next = "parked" => /\ Proceed(d, next).at = "over"
                              /\ Proceed(d, next).epoch = d.epoch
                              /\ ~Proceed(d, next).durable
    BY <2>2, ProceedFacts
  <2>. QED BY <1>2, <2>1, <2>2, <2>3 DEF Nexts, SameProof, NoProof
<1>. QED BY <1>1, <1>2

(* It proves itself, ...                                                   *)
LEMMA ProveFacts ==
  ASSUME NEW c \in CarRecord, NEW activity \in Activities
  PROVE  /\ Placed(Prove(c, activity)) /\ SameProof(c, Prove(c, activity))
         /\ Prove(c, activity).at = IF ~c.capable THEN "proving"
                                    ELSE IF c.activity # activity THEN "noting" ELSE "listening"
<1>. DEFINE at == IF ~c.capable THEN "proving"
                  ELSE IF c.activity # activity THEN "noting" ELSE "listening"
<1>1. Prove(c, activity) = [c EXCEPT !.seen = activity, !.at = at] BY DEF Prove
<1>2. at \in {"proving", "noting", "listening"} OBVIOUS
<1>. HIDE DEF at
<1>3. Prove(c, activity) \in CarRecord
  <2>1. at \in Places /\ activity \in Activities \cup {"none"} BY <1>2 DEF Places, Calling
  <2>. QED BY <1>1, <2>1, ZenonT(60) DEF CarRecord
<1>4. SameProof(c, Prove(c, activity)) BY <1>1 DEF CarRecord, SameProof
<1>5. Prove(c, activity).at = at BY <1>1 DEF CarRecord
<1>6. Prove(c, activity).seen = activity BY <1>1 DEF CarRecord
<1>. QED BY <1>2, <1>3, <1>4, <1>5, <1>6 DEF Placed, Delivering, at

(* ... or notes what it hears.                                             *)
LEMMA NoteSeenFacts ==
  ASSUME Placed(car), car.at = "listening", NEW activity \in Activities
  PROVE  /\ Placed(NoteSeen(car, activity)) /\ SameProof(car, NoteSeen(car, activity))
         /\ NoteSeen(car, activity) = car \/ NoteSeen(car, activity).at = "noting"
<1>1. CASE car.activity = activity BY <1>1 DEF NoteSeen, SameProof
<1>2. CASE car.activity # activity
  <2>. DEFINE d == NoteSeen(car, activity)
  <2>1. d = [car EXCEPT !.seen = activity, !.at = "noting"] BY <1>2 DEF NoteSeen
  <2>. HIDE DEF d
  <2>2. d \in CarRecord /\ d.at = "noting" /\ d.seen = activity
    BY <2>1 DEF Placed, CarRecord, Places, Calling
  <2>3. SameProof(car, d) BY <2>1 DEF Placed, CarRecord, SameProof
  <2>. QED BY <2>2, <2>3 DEF Placed, Delivering, d
<1>. QED BY <1>1, <1>2

(* It goes on within a delivery.                                           *)
LEMMA MovedFacts ==
  ASSUME Placed(car), NEW at \in Delivering \ {"beginning", "reporting", "cancelling"},
         car.at \in Delivering, NEW d, d = [car EXCEPT !.at = at]
  PROVE  Placed(d) /\ SameProof(car, d) /\ d.at = at /\ d.attempt = car.attempt
<1>1. /\ d \in CarRecord /\ d.at = at /\ d.attempt = car.attempt
  BY DEF Placed, CarRecord, Places, Calling, Delivering
<1>2. SameProof(car, d) BY DEF Placed, CarRecord, SameProof
<1>. QED BY <1>1, <1>2 DEF Placed, Delivering

(* It cancels the delivery it is at.                                       *)
LEMMA CancellingFacts ==
  ASSUME Placed(car), car.at \in Delivering, NEW next \in {"connecting", "listening"},
         NEW d, d = [car EXCEPT !.at = "cancelling", !.next = next]
  PROVE  Placed(d) /\ SameProof(car, d) /\ d.at = "cancelling" /\ d.attempt = car.attempt
<1>1. /\ d \in CarRecord /\ d.at = "cancelling" /\ d.next = next /\ d.attempt = car.attempt
  BY DEF Placed, CarRecord, Places, Calling, Delivering, Nexts
<1>2. SameProof(car, d) BY DEF Placed, CarRecord, SameProof
<1>. QED BY <1>1, <1>2 DEF Placed, Delivering

(* It reports how the turn it observes has ended.                          *)
LEMMA ReportsFacts ==
  ASSUME Placed(car), car.at = "observing", NEW status \in Ended
  PROVE  /\ Placed(Reports(status)) /\ SameProof(car, Reports(status))
         /\ Reports(status).at = "reporting" /\ Reports(status).attempt = car.attempt
         /\ Reports(status).event = "turn_completed" => status = "completed"
<1>. DEFINE d == Reports(status)
<1>1. d = [car EXCEPT !.at = "reporting", !.event = EventOf(status)] BY DEF Reports
<1>2. EventOf(status) \in {"turn_completed", "turn_failed"} BY DEF EventOf
<1>. HIDE DEF d
<1>3. /\ d \in CarRecord /\ d.at = "reporting" /\ d.event = EventOf(status)
      /\ d.attempt = car.attempt
  BY <1>1, <1>2 DEF Placed, CarRecord, Places, Calling, TurnEvents
<1>4. SameProof(car, d) BY <1>1 DEF Placed, CarRecord, SameProof
<1>5. Placed(d) BY <1>2, <1>3 DEF Placed, Delivering
<1>. QED BY <1>3, <1>4, <1>5 DEF d, EventOf, Ended

(* A delivery that is cancelled leaves nothing known of the thread.        *)
LEMMA CancelledFacts ==
  ASSUME Placed(car), car.at = "cancelling"
  PROVE  LET d == Cancelled(car) IN
         /\ Placed(d) /\ d.at = car.next
         /\ d.epoch = car.epoch /\ d.arev = car.arev /\ d.crev = car.crev
         /\ d.activity = "none" /\ ~d.capable /\ d.durable = car.durable
<1>. DEFINE c == [car EXCEPT !.activity = "none", !.capable = FALSE]
            d == Cancelled(car)
<1>0. car \in CarRecord BY DEF Placed
<1>1. /\ c \in CarRecord /\ c.epoch = car.epoch /\ c.arev = car.arev /\ c.crev = car.crev
      /\ c.activity = "none" /\ c.capable = FALSE /\ c.durable = car.durable
      /\ c.next = car.next
  <2>1. c \in CarRecord BY <1>0 DEF CarRecord
  <2>2. /\ c.epoch = car.epoch /\ c.arev = car.arev /\ c.crev = car.crev
        /\ c.activity = "none" /\ c.capable = FALSE /\ c.next = car.next
    BY <1>0 DEF CarRecord
  <2>3. c.durable = car.durable BY <1>0 DEF CarRecord
  <2>. QED BY <2>1, <2>2, <2>3
<1>2. d = Proceed(c, car.next) BY DEF Cancelled
<1>3. car.next \in Nexts \ {"parked"} BY DEF Placed, Nexts
<1>. HIDE DEF c, d
<1>4. Placed(d) /\ d.at = car.next /\ SameProof(c, d) BY <1>1, <1>2, <1>3, ProceedFacts
<1>5. /\ d.epoch = car.epoch /\ d.arev = car.arev /\ d.crev = car.crev
      /\ d.activity = "none" /\ ~d.capable /\ d.durable = car.durable
  BY <1>1, <1>4 DEF SameProof
<1>. QED BY <1>4, <1>5 DEF d

(* Where an answer leads to.                                               *)
LEMMA AfterAnswerFacts ==
  ASSUME Placed(car), car.at \in Calling, sessions'[Mine].epoch \in Nat
  PROVE  LET d == AfterAnswer(car) IN
         /\ Placed(d)
         /\ car.at = "dropping" =>
              /\ d.at = IF car.next = "parked" THEN "over" ELSE car.next
              /\ d.epoch = sessions'[Mine].epoch /\ ~d.durable
              /\ d.at # "over" => d.arev = 0 /\ d.crev = 0 /\ d.activity = "none" /\ ~d.capable
         /\ car.at = "proving" =>
              /\ d.epoch = car.epoch /\ d.arev = car.arev /\ d.crev = car.crev + 1
              /\ d.activity = car.activity /\ d.capable /\ d.durable
              /\ d.at = IF car.activity # car.seen THEN "noting" ELSE "listening"
         /\ car.at = "noting" =>
              /\ d.epoch = car.epoch /\ d.arev = car.arev + 1 /\ d.crev = car.crev
              /\ d.activity = car.seen /\ d.capable = car.capable /\ d.durable
              /\ d.at = "listening"
         /\ car.at = "beginning" =>
              SameProof(car, d) /\ d.at = "sending" /\ d.attempt = car.attempt
         /\ car.at = "cancelling" =>
              /\ d.epoch = car.epoch /\ d.arev = car.arev /\ d.crev = car.crev
              /\ d.activity = "none" /\ ~d.capable /\ d.durable = car.durable
              /\ d.at = car.next
         /\ car.at = "refusing" => d = Drop(car, "rereading")
         /\ car.at = "accepting" =>
              SameProof(car, d) /\ d.at = "observing" /\ d.attempt = car.attempt
         /\ car.at \in {"parking", "expiring"} => d = Stopped(car)
         /\ car.at = "reporting" =>
              d = IF car.event = "turn_completed" THEN Drop(car, "rereading") ELSE Stopped(car)
<1>. DEFINE d == AfterAnswer(car)
<1>0. car \in CarRecord BY DEF Placed
<1>00. Placed(Stopped(car)) BY <1>0, StoppedFacts DEF Placed, Delivering
<1>01. Placed(Drop(car, "rereading")) BY <1>0, DropFacts DEF Nexts
<1>1. CASE car.at = "dropping"
  <2>. DEFINE u == Unproved(car, sessions'[Mine].epoch)
  <2>1. /\ u \in CarRecord /\ u.epoch = sessions'[Mine].epoch
        /\ u.arev = 0 /\ u.crev = 0 /\ u.activity = "none" /\ ~u.capable /\ ~u.durable
    BY <1>0, UnprovedFacts
  <2>2. d = Proceed(u, car.next) BY <1>1 DEF AfterAnswer
  <2>3. car.next \in Nexts BY <1>1 DEF Placed
  <2>. HIDE DEF u, d
  <2>4. /\ Placed(Proceed(u, car.next))
        /\ car.next # "parked" =>
             Proceed(u, car.next).at = car.next /\ SameProof(u, Proceed(u, car.next))
        /\ car.next = "parked" => /\ Proceed(u, car.next).at = "over"
                                  /\ Proceed(u, car.next).epoch = u.epoch
                                  /\ ~Proceed(u, car.next).durable
    BY <2>1, <2>3, ProceedFacts
  <2>5. /\ Placed(d) /\ ~d.durable /\ d.epoch = sessions'[Mine].epoch
        /\ d.at = IF car.next = "parked" THEN "over" ELSE car.next
        /\ d.at # "over" => d.arev = 0 /\ d.crev = 0 /\ d.activity = "none" /\ ~d.capable
    BY <2>1, <2>2, <2>4 DEF SameProof
  <2>. QED BY <1>1, <2>5 DEF d
<1>2. CASE car.at = "proving"
  <2>. DEFINE c == [car EXCEPT !.capable = TRUE, !.crev = @ + 1, !.durable = TRUE]
  <2>1. /\ c \in CarRecord /\ c.epoch = car.epoch /\ c.arev = car.arev /\ c.crev = car.crev + 1
        /\ c.activity = car.activity /\ c.capable = TRUE /\ c.durable = TRUE
    <3>1. car.crev + 1 \in Nat BY <1>0 DEF CarRecord
    <3>2. c \in CarRecord BY <1>0, <3>1, ZenonT(60) DEF CarRecord
    <3>3. /\ c.epoch = car.epoch /\ c.arev = car.arev /\ c.crev = car.crev + 1
          /\ c.activity = car.activity /\ c.capable = TRUE /\ c.durable = TRUE
      BY <1>0 DEF CarRecord
    <3>. QED BY <3>2, <3>3
  <2>2. d = Prove(c, car.seen) BY <1>2 DEF AfterAnswer
  <2>3. car.seen \in Activities BY <1>2 DEF Placed
  <2>. HIDE DEF c, d
  <2>4. /\ Placed(d) /\ SameProof(c, d)
        /\ d.at = IF ~c.capable THEN "proving"
                  ELSE IF c.activity # car.seen THEN "noting" ELSE "listening"
    BY <2>1, <2>2, <2>3, ProveFacts
  <2>5. /\ d.epoch = car.epoch /\ d.arev = car.arev /\ d.crev = car.crev + 1
        /\ d.activity = car.activity /\ d.capable /\ d.durable
        /\ d.at = IF car.activity # car.seen THEN "noting" ELSE "listening"
    BY <2>1, <2>4 DEF SameProof
  <2>. QED BY <1>2, <2>4, <2>5 DEF d
<1>3. CASE car.at = "noting"
  <2>. DEFINE c == [car EXCEPT !.activity = car.seen, !.arev = @ + 1, !.durable = TRUE,
                               !.at = "listening"]
  <2>1. car.seen \in Activities BY <1>3 DEF Placed
  <2>2. /\ c \in CarRecord /\ c.epoch = car.epoch /\ c.arev = car.arev + 1 /\ c.crev = car.crev
        /\ c.activity = car.seen /\ c.capable = car.capable /\ c.durable = TRUE
        /\ c.at = "listening"
    <3>0. car.arev + 1 \in Nat /\ "listening" \in Places BY <1>0 DEF CarRecord, Places
    <3>1. c \in CarRecord BY <1>0, <2>1, <3>0, ZenonT(60) DEF CarRecord
    <3>2. /\ c.epoch = car.epoch /\ c.arev = car.arev + 1 /\ c.crev = car.crev
          /\ c.activity = car.seen /\ c.durable = TRUE /\ c.at = "listening"
      BY <1>0 DEF CarRecord
    <3>3. c.capable = car.capable BY <1>0 DEF CarRecord
    <3>. QED BY <3>1, <3>2, <3>3
  <2>3. d = Settled(c) BY <1>3 DEF AfterAnswer
  <2>. HIDE DEF c, d
  <2>4. /\ d \in CarRecord /\ d.epoch = car.epoch /\ d.arev = car.arev + 1 /\ d.crev = car.crev
        /\ d.activity = car.seen /\ d.capable = car.capable /\ d.durable
        /\ d.at = "listening"
    BY <2>2, <2>3, SettledFacts
  <2>5. Placed(d) BY <2>4 DEF Placed, Delivering
  <2>. QED BY <1>3, <2>4, <2>5 DEF d
<1>4. CASE car.at \in {"beginning", "accepting"}
  <2>. DEFINE at == IF car.at = "beginning" THEN "sending" ELSE "observing"
  <2>1. d = [car EXCEPT !.at = at] BY <1>4 DEF AfterAnswer
  <2>2. at \in Delivering \ {"beginning", "reporting", "cancelling"} BY DEF Delivering
  <2>3. car.at \in Delivering BY <1>4 DEF Delivering
  <2>. HIDE DEF at, d
  <2>4. Placed(d) /\ SameProof(car, d) /\ d.at = at /\ d.attempt = car.attempt
    BY <2>1, <2>2, <2>3, MovedFacts
  <2>. QED BY <1>4, <2>4 DEF d, at
<1>5. CASE car.at = "cancelling"
  <2>1. d = Cancelled(car) BY <1>5 DEF AfterAnswer
  <2>. QED BY <1>5, <2>1, CancelledFacts
<1>6. CASE car.at = "refusing"
  <2>1. d = Drop(car, "rereading") BY <1>6 DEF AfterAnswer
  <2>. QED BY <1>6, <1>01, <2>1
<1>7. CASE car.at \in {"parking", "expiring"}
  <2>1. d = Stopped(car) BY <1>7 DEF AfterAnswer
  <2>. QED BY <1>7, <1>00, <2>1
<1>8. CASE car.at = "reporting"
  <2>1. d = IF car.event = "turn_completed" THEN Drop(car, "rereading") ELSE Stopped(car)
    BY <1>8 DEF AfterAnswer
  <2>. QED BY <1>8, <1>00, <1>01, <2>1
<1>. QED BY <1>1, <1>2, <1>3, <1>4, <1>5, <1>6, <1>7, <1>8 DEF Calling

-----------------------------------------------------------------------------
(* Each session and delivery operation the sidecar uses is one of the      *)
(* store.                                                                  *)
LEMMA SessionOperation ==
  \/ \E activity \in Activities : NoteActivity(Mine, activity)
  \/ NoteCapabilities(Mine, TRUE)
  \/ InvalidateProof(Mine) \/ InvalidateCurrentProof(Mine)
  \/ \E required \in Requirements : Reattach(Mine, required)
  => SessionNext
BY SidecarAssumption, Zenon DEF SessionNext, Activities

(* What a sidecar does to an attempt is an operation of CliDelivery.       *)
LEMMA CliOperation ==
  ASSUME NEW a \in Attempt,
         \/ \E b \in Batch : BeginCli(a, b, Mine, "trusted_all")
         \/ AcceptCli(a)
         \/ \E manual \in BOOLEAN : RejectCli(a, manual)
         \/ RejectCliAgain(a)
         \/ ExpireCli(a)
         \/ \E event \in TurnEvents : ObserveCli(a, event)
  PROVE  CliNext
BY SidecarAssumption, Zenon DEF CliNext

(* A call that the store executes is one of its steps.                     *)
LEMMA ExecutesStep == ASSUME NEW call \in Calls, Executes(call) PROVE [Next]_vars
<1>0. UNCHANGED storeVars => UNCHANGED vars BY DEF storeVars, vars
<1>1. CASE call.kind = "activity" /\ NotesActivity(call)
  <2>1. call.value \in Activities BY <1>1, CallFields
  <2>2. NoteActivity(Mine, call.value) \/ UNCHANGED storeVars BY <1>1 DEF NotesActivity
  <2>. QED BY <1>0, <2>1, <2>2, SessionOperation DEF Next
<1>2. CASE call.kind = "capabilities" /\ NotesCapabilities(call)
  <2>1. NoteCapabilities(Mine, TRUE) \/ UNCHANGED storeVars BY <1>2 DEF NotesCapabilities
  <2>. QED BY <1>0, <2>1, SessionOperation DEF Next
<1>3. CASE call.kind = "invalidate" /\ Invalidates(call)
  <2>1. InvalidateProof(Mine) \/ UNCHANGED storeVars BY <1>3 DEF Invalidates
  <2>. QED BY <1>0, <2>1, SessionOperation DEF Next
<1>4. CASE call.kind = "begin" /\ BeginsAttempt(call)
  <2>1. call.attempt \in Attempt /\ call.batch \in Batch BY <1>4, CallFields
  <2>2. BeginCli(call.attempt, call.batch, Mine, "trusted_all") \/ UNCHANGED storeVars
    BY <1>4 DEF BeginsAttempt
  <2>. QED BY <1>0, <2>1, <2>2, CliOperation DEF Next
<1>5. CASE call.kind = "reject" /\ RejectsAttempt(call)
  <2>1. call.attempt \in Attempt /\ call.manual \in BOOLEAN BY <1>5, CallFields
  <2>2. \/ RejectCli(call.attempt, call.manual) \/ RejectCliAgain(call.attempt)
        \/ UNCHANGED storeVars
    BY <1>5 DEF RejectsAttempt
  <2>. QED BY <1>0, <2>1, <2>2, CliOperation DEF Next
<1>6. CASE call.kind = "accept" /\ AcceptsAttempt(call)
  <2>1. call.attempt \in Attempt BY <1>6, CallFields
  <2>2. AcceptCli(call.attempt) \/ UNCHANGED storeVars BY <1>6 DEF AcceptsAttempt
  <2>. QED BY <1>0, <2>1, <2>2, CliOperation DEF Next
<1>7. CASE call.kind = "observe" /\ ObservesTurn(call)
  <2>1. call.attempt \in Attempt /\ call.event \in TurnEvents BY <1>7, CallFields
  <2>2. ObserveCli(call.attempt, call.event) \/ UNCHANGED storeVars BY <1>7 DEF ObservesTurn
  <2>. QED BY <1>0, <2>1, <2>2, CliOperation DEF Next
<1>8. CASE call.kind = "expire" /\ ExpiresObservation(call)
  <2>1. call.attempt \in Attempt BY <1>8, CallFields
  <2>2. ExpireCli(call.attempt) \/ UNCHANGED storeVars BY <1>8 DEF ExpiresObservation
  <2>. QED BY <1>0, <2>1, <2>2, CliOperation DEF Next
<1>. QED BY <1>1, <1>2, <1>3, <1>4, <1>5, <1>6, <1>7, <1>8, Zenon DEF Executes

(* The record of a turn that started, which the sidecar does not wait for. *)
Started == [kind |-> "observe", attempt |-> car.attempt, event |-> "turn_started"]

(* That record is one of the calls.                                        *)
LEMMA StartedType == ASSUME Placed(car), car.at = "observing" PROVE Started \in Calls
BY DEF Started, Calls, TurnEvents, Placed, Delivering

(* A call that was given up is executed.                                   *)
RunsLate(call) == /\ Executes(call) /\ late' = late \ {call}
                  /\ UNCHANGED <<car, wire, turns, user, server>>

(* That a turn has started is recorded.                                    *)
RecordsStart == car.at = "observing" /\ Executes(Started) /\ UNCHANGED car

(* The steps of the sidecar and of what surrounds it leave the store       *)
(* alone, or are one of these, ...                                         *)
LEMMA StoreOrNot ==
  ASSUME SidecarNext
  PROVE  \/ UNCHANGED storeVars
         \/ Answered
         \/ \E call \in late : RunsLate(call)
         \/ RecordsStart
         \/ DaemonDrops \/ StartsAgain \/ Maintains
<1>1. CASE SidecarStep
  <2>1. CASE ObservesMessage BY <2>1, Zenon DEF ObservesMessage, Started, RecordsStart
  <2>2. CASE \/ TimesOut \/ GivesUp \/ Connects \/ Rereads \/ Listens \/ LosesConnection \/ Leaves
             \/ Polls \/ Sends \/ HearsOfTurn \/ Reconciles \/ ReachesDeadline
    BY <2>2, Zenon DEF TimesOut, GivesUp, Connects, Rereads, Listens, LosesConnection, Leaves,
                       Polls, Sends, HearsOfTurn, Reconciles, ReachesDeadline
  <2>. QED BY <1>1, <2>1, <2>2, Zenon DEF SidecarStep
<1>2. CASE LateRuns BY <1>2, Zenon DEF LateRuns, RunsLate
<1>3. CASE \/ LateLost \/ UserStarts \/ UserEnds \/ LosesTrack \/ ServerStops
           \/ ForegroundExits \/ Killed
           \/ \E a \in Attempt : AnswersRequest(a) \/ EndsTurn(a)
  BY <1>3, Zenon DEF LateLost, UserStarts, UserEnds, LosesTrack, ServerStops, ForegroundExits,
                     Killed, AnswersRequest, EndsTurn
<1>. QED BY <1>1, <1>2, <1>3, Zenon DEF SidecarNext

(* ... and so every step is a step of the store, or none.                  *)
LEMMA IsStoreStep == ASSUME Typed, [SidecarNext]_carVars PROVE [Next]_vars
<1>0. UNCHANGED storeVars => UNCHANGED vars BY DEF storeVars, vars
<1>1. CASE UNCHANGED carVars BY <1>1 DEF carVars, storeVars, vars
<1>2. CASE SidecarNext
  <2>1. car.at \in Calling => Call \in Calls BY CallType DEF Typed
  <2>2. late \subseteq Calls BY DEF Typed, SidecarTypeOK
  <2>3. car.at = "observing" => Started \in Calls BY StartedType DEF Typed
  <2>4. CASE UNCHANGED storeVars BY <1>0, <2>4
  <2>5. CASE Answered BY <2>1, <2>5, ExecutesStep DEF Answered
  <2>6. CASE \E call \in late : RunsLate(call) BY <2>2, <2>6, ExecutesStep DEF RunsLate
  <2>7. CASE RecordsStart BY <2>3, <2>7, ExecutesStep DEF RecordsStart
  <2>8. CASE DaemonDrops BY <2>8, SessionOperation DEF DaemonDrops, Next
  <2>9. CASE StartsAgain
    <3>1. \E required \in Requirements : Reattach(Mine, required) BY <2>9 DEF StartsAgain
    <3>. QED BY <3>1, SessionOperation DEF Next
  <2>10. CASE Maintains BY <2>10 DEF Maintains, Next
  <2>. QED BY <1>2, <2>4, <2>5, <2>6, <2>7, <2>8, <2>9, <2>10, StoreOrNot
<1>. QED BY <1>1, <1>2

-----------------------------------------------------------------------------
(* A sidecar that starts, and one that was killed.                         *)
LEMMA FreshCarType == ASSUME NEW epoch \in Nat PROVE Placed(FreshCar(epoch))
<1>1. FreshCar(epoch) \in CarRecord BY DEF FreshCar, CarRecord, Places
<1>2. FreshCar(epoch).at = "connecting" BY DEF FreshCar
<1>. QED BY <1>1, <1>2 DEF Placed, Delivering

(* A sidecar that was killed is over, and its proofs may still be there.   *)
LEMMA KilledFacts ==
  ASSUME NEW d, d = [FreshCar(0) EXCEPT !.at = "over", !.running = FALSE, !.durable = TRUE]
  PROVE  Placed(d) /\ d.at = "over" /\ d.epoch = 0 /\ d.durable
<1>1. FreshCar(0) \in CarRecord /\ FreshCar(0).epoch = 0
  BY FreshCarType DEF Placed, FreshCar
<1>2. d \in CarRecord BY <1>1, ZenonT(60) DEF CarRecord, Places
<1>3. d.at = "over" /\ d.epoch = 0 /\ d.durable = TRUE BY <1>1 DEF CarRecord
<1>. QED BY <1>2, <1>3 DEF Placed, Delivering

(* Whatever a sidecar could not record, it may have recorded.              *)
LEMMA DurableFacts ==
  ASSUME Placed(car), NEW d, d = [car EXCEPT !.durable = TRUE]
  PROVE  /\ d \in CarRecord /\ d.durable = TRUE /\ d.at = car.at
         /\ d.epoch = car.epoch /\ d.arev = car.arev /\ d.crev = car.crev
         /\ d.activity = car.activity /\ d.capable = car.capable
<1>1. car \in CarRecord BY DEF Placed
<1>2. d \in CarRecord BY <1>1 DEF CarRecord
<1>3. /\ d.durable = TRUE /\ d.at = car.at
      /\ d.epoch = car.epoch /\ d.arev = car.arev /\ d.crev = car.crev
      /\ d.activity = car.activity
  BY <1>1 DEF CarRecord
<1>4. d.capable = car.capable BY <1>1 DEF CarRecord
<1>. QED BY <1>2, <1>3, <1>4

(* It forgets what the thread was doing when it connects again.            *)
LEMMA UnseenFacts ==
  ASSUME Placed(car), NEW d, d = [car EXCEPT !.activity = "none"]
  PROVE  /\ d \in CarRecord /\ d.activity = "none" /\ d.at = car.at
         /\ d.epoch = car.epoch /\ d.arev = car.arev /\ d.crev = car.crev
         /\ d.durable = car.durable /\ d.capable = car.capable
<1>1. car \in CarRecord BY DEF Placed
<1>2. d \in CarRecord BY <1>1 DEF CarRecord
<1>3. /\ d.activity = "none" /\ d.at = car.at
      /\ d.epoch = car.epoch /\ d.arev = car.arev /\ d.crev = car.crev
  BY <1>1 DEF CarRecord
<1>4. d.durable = car.durable /\ d.capable = car.capable BY <1>1 DEF CarRecord
<1>. QED BY <1>2, <1>3, <1>4

(* It draws an attempt for the head batch.                                 *)
LEMMA PolledFacts ==
  ASSUME Placed(car), NEW a \in Attempt, NEW b \in Batch, NEW d,
         d = [car EXCEPT !.at = "beginning", !.attempt = a, !.batch = b]
  PROVE  Placed(d) /\ SameProof(car, d) /\ d.at = "beginning" /\ d.attempt = a
<1>1. car \in CarRecord BY DEF Placed
<1>2. d \in CarRecord BY <1>1, ZenonT(60) DEF CarRecord, Places, Calling
<1>3. d.at = "beginning" /\ d.attempt = a /\ d.batch = b BY <1>1 DEF CarRecord
<1>4. SameProof(car, d) BY <1>1 DEF CarRecord, SameProof
<1>. QED BY <1>2, <1>3, <1>4 DEF Placed, Delivering

(* It only ceases to run.                                                  *)
LEMMA ExitedFacts ==
  ASSUME Placed(car), NEW d, d = [car EXCEPT !.running = FALSE]
  PROVE  /\ Placed(d) /\ SameProof(car, d) /\ d.at = car.at /\ d.attempt = car.attempt
         /\ d.event = car.event
<1>1. car \in CarRecord BY DEF Placed
<1>2. d \in CarRecord BY <1>1 DEF CarRecord
<1>3. /\ d.at = car.at /\ d.attempt = car.attempt /\ d.batch = car.batch
      /\ d.seen = car.seen /\ d.event = car.event /\ d.next = car.next
  BY <1>1 DEF CarRecord
<1>4. SameProof(car, d) BY <1>1 DEF CarRecord, SameProof
<1>. QED BY <1>2, <1>3, <1>4 DEF Placed

(* The place and the fields still fit after each step.                     *)
LEMMA CarPlaced ==
  ASSUME Typed, SidecarNext, sessions'[Mine].epoch \in Nat
  PROVE  Placed(car')
<1>0. Placed(car) /\ car \in CarRecord BY DEF Typed, Placed
<1>00. Observed \in Activities BY DEF Observed, Activities
<1>01. ASSUME NEW c \in CarRecord, Fails(c) PROVE Placed(car')
  BY <1>01, DropFacts DEF Fails, Nexts
<1>1. CASE UNCHANGED car BY <1>0, <1>1
<1>2. CASE Answered BY <1>0, <1>2, AfterAnswerFacts DEF Answered
<1>3. CASE GivesUp
  <2>1. CASE car.at = "beginning" /\ car' = [car EXCEPT !.at = "cancelling", !.next = "listening"]
    BY <1>0, <2>1, CancellingFacts DEF Delivering
  <2>2. CASE car.at = "cancelling" /\ car' = Cancelled(car) BY <1>0, <2>2, CancelledFacts
  <2>3. CASE car.at = "dropping" /\ car.next \in {"connecting", "over"} /\ car' = Proceed(car, car.next)
    BY <1>0, <2>3, ProceedFacts DEF Nexts
  <2>4. CASE Fails(IF car.at \in {"proving", "noting"} THEN [car EXCEPT !.durable = TRUE] ELSE car)
    BY <1>0, <1>01, <2>4, DurableFacts
  <2>. QED BY <1>3, <2>1, <2>2, <2>3, <2>4 DEF GivesUp
<1>4. CASE Connects
  <2>. DEFINE c == [car EXCEPT !.activity = "none"]
  <2>1. c \in CarRecord BY <1>0, UnseenFacts
  <2>2. car' \in {Prove(c, Observed), Drop(c, "listening")} \/ Fails(c) BY <1>4 DEF Connects
  <2>. HIDE DEF c
  <2>. QED BY <1>00, <1>01, <2>1, <2>2, ProveFacts, DropFacts DEF Nexts
<1>5. CASE Rereads BY <1>0, <1>00, <1>01, <1>5, ProveFacts DEF Rereads
<1>6. CASE Listens
  <2>1. \/ car' = NoteSeen(car, "active") \/ car' = NoteSeen(car, "idle") \/ car' = car
        \/ car' = Drop(car, "listening")
    <3>. DEFINE n == Head(wire.msgs)
    <3>1. n \in Notes BY <1>6 DEF Listens, Typed
    <3>2. n.kind \in Ended \cup {"started", "invalidated"} BY <3>1 DEF Notes
    <3>. QED BY <1>6, <3>2 DEF Listens, Ended
  <2>2. car.at = "listening" BY <1>6 DEF Listens
  <2>3. ASSUME NEW activity \in Activities, car' = NoteSeen(car, activity) PROVE Placed(car')
    BY <1>0, <2>2, <2>3, NoteSeenFacts
  <2>4. car' = Drop(car, "listening") => Placed(car') BY <1>0, DropFacts DEF Nexts
  <2>. QED BY <1>0, <2>1, <2>3, <2>4 DEF Activities
<1>7. CASE LosesConnection \/ Leaves
  BY <1>0, <1>7, DropFacts DEF LosesConnection, Leaves, Nexts
<1>8. CASE Polls
  <2>1. PICK b \in Batch, a \in Attempt :
          car' = [car EXCEPT !.at = "beginning", !.attempt = a, !.batch = b]
    BY <1>8, Zenon DEF Polls
  <2>. QED BY ONLY <1>0, <2>1, PolledFacts
<1>9. CASE Sends
  <2>1. car.at \in Delivering BY <1>9 DEF Sends, Delivering
  <2>2. CASE car' = [car EXCEPT !.at = "sent"]
    BY <1>0, <2>1, <2>2, MovedFacts DEF Delivering
  <2>3. ASSUME NEW next \in {"connecting", "listening"},
               car' = [car EXCEPT !.at = "cancelling", !.next = next]
        PROVE  Placed(car')
    BY <1>0, <2>1, <2>3, CancellingFacts
  <2>. QED BY <1>9, <2>2, <2>3 DEF Sends
<1>10. CASE HearsOfTurn
  <2>1. car.at \in Delivering BY <1>10 DEF HearsOfTurn, Delivering
  <2>2. ASSUME NEW at \in {"accepting", "refusing", "parking"}, car' = [car EXCEPT !.at = at]
        PROVE  Placed(car')
    BY <1>0, <2>1, <2>2, MovedFacts DEF Delivering
  <2>3. Fails(car) \/ \E at \in {"accepting", "refusing", "parking"} : car' = [car EXCEPT !.at = at]
    BY <1>10 DEF HearsOfTurn, AfterSending
  <2>. QED BY <1>0, <1>01, <2>2, <2>3
<1>11. CASE ObservesMessage
  <2>1. \/ car' = car
        \/ car.at = "observing" /\ \E status \in Ended : car' = Reports(status)
    BY <1>11 DEF ObservesMessage, EndsOwnTurn
  <2>. QED BY <1>0, <2>1, ReportsFacts
<1>12. CASE Reconciles
  <2>1. \/ Fails(car)
        \/ car.at = "observing" /\ \E status \in Ended : car' = Reports(status)
    BY <1>12 DEF Reconciles
  <2>. QED BY <1>0, <1>01, <2>1, ReportsFacts
<1>13. CASE ReachesDeadline BY <1>0, <1>13, MovedFacts DEF ReachesDeadline, Delivering
<1>14. CASE ForegroundExits BY <1>0, <1>14, ExitedFacts DEF ForegroundExits
<1>15. CASE Killed BY <1>15, KilledFacts DEF Killed
<1>16. CASE StartsAgain BY <1>16, FreshCarType DEF StartsAgain
<1>17. TimesOut \/ LateRuns \/ LateLost \/ UserStarts \/ UserEnds \/ LosesTrack \/ ServerStops
       \/ DaemonDrops \/ Maintains \/ (\E a \in Attempt : AnswersRequest(a) \/ EndsTurn(a))
       => UNCHANGED car
  BY Zenon DEF TimesOut, LateRuns, LateLost, UserStarts, UserEnds, LosesTrack, ServerStops,
               DaemonDrops, Maintains, AnswersRequest, EndsTurn
<1>. QED BY <1>1, <1>2, <1>3, <1>4, <1>5, <1>6, <1>7, <1>8, <1>9, <1>10, <1>11, <1>12, <1>13,
            <1>14, <1>15, <1>16, <1>17, Zenon DEF SidecarNext, SidecarStep

(* A notification that says that the turn of an attempt completed is true. *)
TrueNote(n) ==
  \/ n.kind # "completed"
  \/ n.turn = NoDelivery
  \/ \E a \in Attempt : EndsTurn(a) /\ n = Note("completed", a) /\ turns'[a] = "completed"

(* Notifications are appended, received in order, or dropped.              *)
WireMoves ==
  /\ wire' \in [open : BOOLEAN, msgs : Seq(Notes)]
  /\ \A i \in 1 .. Len(wire'.msgs) :
       \/ \E j \in 1 .. Len(wire.msgs) : wire'.msgs[i] = wire.msgs[j]
       \/ TrueNote(wire'.msgs[i])

(* Each step moves them so.                                                *)
LEMMA WireStep == ASSUME Typed, SidecarNext PROVE WireMoves
<1>0. wire \in [open : BOOLEAN, msgs : Seq(Notes)] BY DEF Typed
<1>1. CASE UNCHANGED wire BY <1>0, <1>1 DEF WireMoves
<1>2. CASE wire'.msgs = <<>> /\ wire' \in [open : BOOLEAN, msgs : {<<>>}]
  <2>1. Len(wire'.msgs) = 0 BY <1>2
  <2>2. wire' \in [open : BOOLEAN, msgs : Seq(Notes)]
    <3>1. <<>> \in Seq(Notes) OBVIOUS
    <3>. QED BY <1>2, <3>1
  <2>. QED BY <2>1, <2>2 DEF WireMoves
<1>3. ASSUME NEW n \in Notes, wire' = Notified(n), TrueNote(n) PROVE WireMoves
  <2>1. CASE ~wire.open BY <1>1, <1>3, <2>1 DEF Notified
  <2>2. CASE wire.open
    <3>. DEFINE s == wire.msgs
                t == Append(s, n)
    <3>1. wire' = [wire EXCEPT !.msgs = t] BY <1>3, <2>2 DEF Notified
    <3>2. s \in Seq(Notes) BY <1>0
    <3>3. /\ t \in Seq(Notes) /\ Len(t) = Len(s) + 1
          /\ \A i \in 1 .. Len(s) : t[i] = s[i]
          /\ t[Len(s) + 1] = n
      BY <3>2, AppendProperties
    <3>4. Len(s) \in Nat BY <3>2
    <3>5. wire'.msgs = t /\ wire' \in [open : BOOLEAN, msgs : Seq(Notes)]
      <4>. HIDE DEF t
      <4>. QED BY <1>0, <3>1, <3>3
    <3>. HIDE DEF t
    <3>6. \A i \in 1 .. Len(t) : i \in 1 .. Len(s) \/ i = Len(s) + 1 BY <3>3, <3>4
    <3>. QED BY <1>3, <3>3, <3>5, <3>6 DEF WireMoves
  <2>. QED BY <2>1, <2>2
<1>4. CASE wire.msgs # <<>> /\ wire' = [wire EXCEPT !.msgs = Tail(@)]
  <2>. DEFINE s == wire.msgs
              t == Tail(s)
  <2>1. wire' = [wire EXCEPT !.msgs = t] BY <1>4
  <2>2. s \in Seq(Notes) /\ s # <<>> BY <1>0, <1>4
  <2>3. /\ t \in Seq(Notes) /\ Len(t) = Len(s) - 1
        /\ \A i \in 1 .. Len(t) : t[i] = s[i + 1]
    BY <2>2, HeadTailProperties
  <2>4. Len(s) \in Nat BY <2>2
  <2>5. wire'.msgs = t /\ wire' \in [open : BOOLEAN, msgs : Seq(Notes)]
    <3>. HIDE DEF t
    <3>. QED BY <1>0, <2>1, <2>3
  <2>. HIDE DEF t
  <2>6. \A i \in 1 .. Len(t) : i + 1 \in 1 .. Len(s) BY <2>3, <2>4
  <2>. QED BY <2>3, <2>5, <2>6 DEF WireMoves
<1>5. Disconnected \in [open : BOOLEAN, msgs : {<<>>}] BY DEF Disconnected
<1>6. NoDelivery \in Attempt \cup {NoDelivery} OBVIOUS
<1>7. CASE SidecarStep
  <2>1. \/ UNCHANGED wire
        \/ wire' = Disconnected
        \/ wire' = [open |-> TRUE, msgs |-> <<>>]
        \/ wire' = [wire EXCEPT !.msgs = <<>>]
        \/ wire.msgs # <<>> /\ wire' = [wire EXCEPT !.msgs = Tail(@)]
    <3>1. CASE Answered \/ TimesOut \/ Polls \/ Sends \/ ReachesDeadline
      BY <3>1 DEF Answered, TimesOut, Polls, Sends, ReachesDeadline
    <3>2. CASE GivesUp BY <3>2 DEF GivesUp, Fails
    <3>3. CASE Connects \/ Rereads BY <3>3 DEF Connects, Rereads, Fails
    <3>4. CASE Listens \/ ObservesMessage BY <3>4 DEF Listens, ObservesMessage
    <3>5. CASE LosesConnection \/ Leaves BY <3>5 DEF LosesConnection, Leaves
    <3>6. CASE HearsOfTurn BY <3>6 DEF HearsOfTurn, AfterSending, Fails
    <3>7. CASE Reconciles BY <3>7 DEF Reconciles, Fails
    <3>. QED BY <1>7, <3>1, <3>2, <3>3, <3>4, <3>5, <3>6, <3>7, Zenon DEF SidecarStep
  <2>2. wire' = [wire EXCEPT !.msgs = <<>>] => wire' \in [open : BOOLEAN, msgs : {<<>>}] BY <1>0
  <2>3. wire' \in [open : BOOLEAN, msgs : {<<>>}] => wire'.msgs = <<>> OBVIOUS
  <2>4. [open |-> TRUE, msgs |-> <<>>] \in [open : BOOLEAN, msgs : {<<>>}] OBVIOUS
  <2>. QED BY <1>1, <1>2, <1>4, <1>5, <2>1, <2>2, <2>3, <2>4
<1>8. ASSUME NEW a \in Attempt, AnswersRequest(a) PROVE WireMoves
  <2>1. Note("started", a) \in Notes /\ Note("started", a).kind = "started" BY DEF Note, Notes
  <2>2. TrueNote(Note("started", a)) BY <2>1 DEF TrueNote
  <2>3. wire' = Notified(Note("started", a)) \/ UNCHANGED wire BY <1>8 DEF AnswersRequest
  <2>. QED BY <1>1, <1>3, <2>1, <2>2, <2>3
<1>9. ASSUME NEW a \in Attempt, EndsTurn(a) PROVE WireMoves
  <2>1. PICK status \in Ended : /\ turns' = [turns EXCEPT ![a] = status]
                               /\ wire' = Notified(Note(status, a))
    BY <1>9 DEF EndsTurn
  <2>2. Note(status, a) \in Notes /\ Note(status, a).kind = status BY DEF Note, Notes
  <2>3. turns'[a] = status BY <2>1 DEF Typed, SidecarTypeOK
  <2>4. TrueNote(Note(status, a)) BY <1>9, <2>2, <2>3 DEF TrueNote
  <2>. QED BY <1>3, <2>1, <2>2, <2>4
<1>10. ASSUME NEW kind \in Ended \cup {"started", "invalidated"},
              wire' = Notified(Note(kind, NoDelivery))
       PROVE  WireMoves
  <2>1. Note(kind, NoDelivery) \in Notes /\ Note(kind, NoDelivery).turn = NoDelivery
    BY DEF Note, Notes
  <2>2. TrueNote(Note(kind, NoDelivery)) BY <2>1 DEF TrueNote
  <2>. QED BY <1>3, <1>10, <2>1, <2>2
<1>11. CASE UserStarts
  <2>1. wire' = Notified(Note("started", NoDelivery)) BY <1>11 DEF UserStarts
  <2>. QED BY <1>10, <2>1
<1>12. CASE UserEnds
  <2>1. PICK status \in Ended : wire' = Notified(Note(status, NoDelivery)) BY <1>12 DEF UserEnds
  <2>. QED BY <1>10, <2>1
<1>13. CASE LosesTrack
  <2>1. wire' = Notified(Note("invalidated", NoDelivery)) BY <1>13 DEF LosesTrack
  <2>. QED BY <1>10, <2>1
<1>14. CASE ServerStops
  <2>1. wire' = [wire EXCEPT !.open = FALSE] BY <1>14 DEF ServerStops
  <2>2. wire'.msgs = wire.msgs /\ wire' \in [open : BOOLEAN, msgs : Seq(Notes)] BY <1>0, <2>1
  <2>. QED BY <2>2 DEF WireMoves
<1>15. CASE Killed BY <1>2, <1>5, <1>15 DEF Killed, Disconnected
<1>16. LateRuns \/ LateLost \/ DaemonDrops \/ ForegroundExits \/ StartsAgain \/ Maintains
       => UNCHANGED wire
  BY Zenon DEF LateRuns, LateLost, DaemonDrops, ForegroundExits, StartsAgain, Maintains
<1>. QED
  BY <1>1, <1>7, <1>8, <1>9, <1>11, <1>12, <1>13, <1>14, <1>15, <1>16, Zenon DEF SidecarNext

(* Calls given up are added to those that may still run, and the turns     *)
(* only take their states.                                                 *)
LEMMA LateStep ==
  ASSUME Typed, SidecarNext
  PROVE  \/ late' \subseteq late
         \/ car.at \in Calling /\ late' = late \cup {Call} /\ TimesOut
         \/ car.at = "observing" /\ late' = late \cup {Started}
<1>1. CASE TimesOut BY <1>1 DEF TimesOut, ComesLate
<1>2. CASE ObservesMessage BY <1>2, Zenon DEF ObservesMessage, Started, ComesLate
<1>3. CASE SidecarStep /\ ~TimesOut /\ ~ObservesMessage
  <2>1. UNCHANGED late
    BY <1>3, Zenon DEF SidecarStep, Answered, GivesUp, Connects, Rereads, Listens, LosesConnection,
                       Leaves, Polls, Sends, HearsOfTurn, Reconciles, ReachesDeadline
  <2>. QED BY <2>1
<1>4. CASE LateRuns \/ LateLost BY <1>4 DEF LateRuns, LateLost
<1>5. CASE \/ UserStarts \/ UserEnds \/ LosesTrack \/ ServerStops \/ DaemonDrops
           \/ ForegroundExits \/ Killed \/ StartsAgain \/ Maintains
           \/ \E a \in Attempt : AnswersRequest(a) \/ EndsTurn(a)
  <2>1. UNCHANGED late
    BY <1>5, Zenon DEF UserStarts, UserEnds, LosesTrack, ServerStops, DaemonDrops,
                       ForegroundExits, Killed, StartsAgain, Maintains, AnswersRequest, EndsTurn
  <2>. QED BY <2>1
<1>. QED BY <1>1, <1>2, <1>3, <1>4, <1>5, Zenon DEF SidecarNext

(* What may become of the turn of an attempt.                              *)
TurnMoves(a) ==
  \/ turns'[a] = turns[a]
  \/ turns[a] = "unused" /\ turns'[a] = "drawn" /\ Polls /\ car'.attempt = a
  \/ /\ turns'[a] \in {"requested", "refused"}
     /\ Sends /\ car.attempt = a /\ car'.at = "sent"
  \/ turns[a] = "requested" /\ turns'[a] \in {"running", "refused"}
  \/ turns[a] = "running" /\ turns'[a] \in Ended

(* Each step moves the turns so.                                           *)
LEMMA TurnsStep ==
  ASSUME Typed, SidecarNext
  PROVE  turns' \in [Attempt -> TurnStates] /\ \A a \in Attempt : TurnMoves(a)
<1>0. turns \in [Attempt -> TurnStates] BY DEF Typed, SidecarTypeOK, TurnStates
<1>1. CASE UNCHANGED turns BY <1>0, <1>1 DEF TurnMoves
<1>2. CASE Polls
  <2>1. PICK a \in Attempt : /\ turns[a] = "unused" /\ turns' = [turns EXCEPT ![a] = "drawn"]
                            /\ \E b \in Batch : car' = [car EXCEPT !.at = "beginning",
                                                                   !.attempt = a, !.batch = b]
    BY <1>2, Zenon DEF Polls
  <2>2. PICK b \in Batch : car' = [car EXCEPT !.at = "beginning", !.attempt = a, !.batch = b]
    BY <2>1
  <2>3. car'.attempt = a BY <2>2, PolledFacts DEF Typed
  <2>. QED BY <1>0, <1>2, <2>1, <2>3 DEF TurnMoves, TurnStates
<1>3. CASE Sends
  <2>1. CASE UNCHANGED turns BY <1>1, <2>1
  <2>2. CASE ~UNCHANGED turns
    <3>1. /\ car' = [car EXCEPT !.at = "sent"]
          /\ turns' = [turns EXCEPT ![car.attempt] = IF server THEN "requested" ELSE "refused"]
          /\ car.at = "sending"
      BY <1>3, <2>2 DEF Sends
    <3>2. car.attempt \in Attempt /\ car'.at = "sent"
      BY <3>1 DEF Typed, Placed, Delivering, CarRecord
    <3>. QED BY <1>0, <1>3, <3>1, <3>2 DEF TurnMoves, TurnStates
  <2>. QED BY <2>1, <2>2
<1>4. ASSUME NEW a \in Attempt, AnswersRequest(a)
      PROVE  turns' \in [Attempt -> TurnStates] /\ \A c \in Attempt : TurnMoves(c)
  <2>1. turns[a] = "requested" /\ (\/ turns' = [turns EXCEPT ![a] = "running"]
                                   \/ turns' = [turns EXCEPT ![a] = "refused"])
    BY <1>4 DEF AnswersRequest
  <2>. QED BY <1>0, <2>1 DEF TurnMoves, TurnStates, Ran
<1>5. ASSUME NEW a \in Attempt, EndsTurn(a)
      PROVE  turns' \in [Attempt -> TurnStates] /\ \A c \in Attempt : TurnMoves(c)
  <2>1. turns[a] = "running" /\ \E status \in Ended : turns' = [turns EXCEPT ![a] = status]
    BY <1>5 DEF EndsTurn
  <2>. QED BY <1>0, <2>1 DEF TurnMoves, TurnStates, Ran
<1>6. CASE ServerStops
  <2>1. turns' = [a \in Attempt |-> CASE turns[a] = "requested" -> "refused"
                                      [] turns[a] = "running" -> "failed"
                                      [] OTHER -> turns[a]]
    BY <1>6 DEF ServerStops
  <2>. QED BY <1>0, <2>1 DEF TurnMoves, TurnStates, Ran, Ended
<1>7. CASE SidecarStep /\ ~Polls /\ ~Sends
  <2>1. UNCHANGED turns
    BY <1>7, Zenon DEF SidecarStep, Answered, TimesOut, GivesUp, Connects, Rereads, Listens,
                       LosesConnection, Leaves, HearsOfTurn, ObservesMessage, Reconciles,
                       ReachesDeadline
  <2>. QED BY <1>1, <2>1
<1>8. CASE \/ LateRuns \/ LateLost \/ UserStarts \/ UserEnds \/ LosesTrack \/ DaemonDrops
           \/ ForegroundExits \/ Killed \/ StartsAgain \/ Maintains
  <2>1. UNCHANGED turns
    BY <1>8, Zenon DEF LateRuns, LateLost, UserStarts, UserEnds, LosesTrack, DaemonDrops,
                       ForegroundExits, Killed, StartsAgain, Maintains
  <2>. QED BY <1>1, <2>1
<1>. QED BY <1>2, <1>3, <1>4, <1>5, <1>6, <1>7, <1>8, Zenon DEF SidecarNext

(* The revisions are counted up, or start again with the proof.            *)
LEMMA RevsStep ==
  ASSUME Typed, SidecarNext PROVE revs' \in [activity : Nat, capability : Nat]
<1>0. revs \in [activity : Nat, capability : Nat] /\ late \subseteq Calls
  BY DEF Typed, SidecarTypeOK
<1>1. NoRevs \in [activity : Nat, capability : Nat] BY DEF NoRevs
<1>2. RevsFollow => revs' \in [activity : Nat, capability : Nat] BY <1>0, <1>1 DEF RevsFollow
<1>3. UNCHANGED storeVars => revs' \in [activity : Nat, capability : Nat] BY <1>0 DEF storeVars
<1>4. ASSUME NEW call \in Calls, Executes(call)
      PROVE  revs' \in [activity : Nat, capability : Nat]
  <2>1. CASE call.kind = "activity" /\ NotesActivity(call)
    <3>1. call.rev \in Nat BY <2>1, CallFields
    <3>2. UNCHANGED storeVars \/ revs' = [revs EXCEPT !.activity = call.rev]
      BY <2>1 DEF NotesActivity
    <3>. QED BY <1>0, <1>3, <3>1, <3>2
  <2>2. CASE call.kind = "capabilities" /\ NotesCapabilities(call)
    <3>1. call.rev \in Nat BY <2>2, CallFields
    <3>2. UNCHANGED storeVars \/ revs' = [revs EXCEPT !.capability = call.rev]
      BY <2>2 DEF NotesCapabilities
    <3>. QED BY <1>0, <1>3, <3>1, <3>2
  <2>3. CASE \/ Invalidates(call) \/ BeginsAttempt(call) \/ RejectsAttempt(call)
             \/ AcceptsAttempt(call) \/ ObservesTurn(call) \/ ExpiresObservation(call)
    <3>1. UNCHANGED storeVars \/ RevsFollow
      BY <2>3, Zenon DEF Invalidates, BeginsAttempt, RejectsAttempt, AcceptsAttempt, ObservesTurn,
                         ExpiresObservation
    <3>. QED BY <1>2, <1>3, <3>1
  <2>. QED BY <1>4, <2>1, <2>2, <2>3, Zenon DEF Executes
<1>5. car.at \in Calling => Call \in Calls BY CallType DEF Typed
<1>6. car.at = "observing" => Started \in Calls BY StartedType DEF Typed
<1>7. DaemonDrops \/ StartsAgain \/ Maintains => RevsFollow
  BY Zenon DEF DaemonDrops, StartsAgain, Maintains
<1>8. Answered => revs' \in [activity : Nat, capability : Nat] BY <1>4, <1>5 DEF Answered
<1>9. (\E call \in late : RunsLate(call)) => revs' \in [activity : Nat, capability : Nat]
  BY <1>0, <1>4 DEF RunsLate
<1>10. RecordsStart => revs' \in [activity : Nat, capability : Nat] BY <1>4, <1>6 DEF RecordsStart
<1>. QED BY <1>2, <1>3, <1>7, <1>8, <1>9, <1>10, StoreOrNot, Zenon

(* The types are kept.                                                     *)
LEMMA TypedStep == Typed /\ [SidecarNext]_carVars => Typed'
<1>. SUFFICES ASSUME Typed, [SidecarNext]_carVars PROVE Typed' OBVIOUS
<1>1. CASE UNCHANGED carVars
  BY <1>1 DEF Typed, SidecarTypeOK, carVars, storeVars, vars, TypeOK
<1>2. CASE SidecarNext
  <2>1. TypeOK'
    <3>1. TypeOK BY DEF Typed, SidecarTypeOK
    <3>. QED BY <1>2, <3>1, IsStoreStep, TypeStep
  <2>2. sessions'[Mine].epoch \in Nat
    BY <2>1, SidecarAssumption DEF TypeOK, SessionRecord
  <2>3. Placed(car') BY <1>2, <2>2, CarPlaced
  <2>4. wire' \in [open : BOOLEAN, msgs : Seq(Notes)] BY <1>2, WireStep DEF WireMoves
  <2>5. turns' \in [Attempt -> TurnStates] BY <1>2, TurnsStep
  <2>6. revs' \in [activity : Nat, capability : Nat] BY <1>2, RevsStep
  <2>7. late' \subseteq Calls
    <3>1. car.at \in Calling => Call \in Calls BY CallType DEF Typed
    <3>2. car.at = "observing" => Started \in Calls BY StartedType DEF Typed
    <3>. QED BY <1>2, <3>1, <3>2, LateStep DEF Typed, SidecarTypeOK
  <2>8. car'.at \in Places BY <2>3 DEF Placed, CarRecord
  <2>. QED BY <2>1, <2>3, <2>4, <2>5, <2>6, <2>7, <2>8
       DEF Typed, SidecarTypeOK, Places, TurnStates
<1>. QED BY <1>1, <1>2

-----------------------------------------------------------------------------
(***************************************************************************)
(* What a transaction does to the session of the sidecar: its proof holds, *)
(* is gone for good, or an update of the epoch is taken over.              *)
(***************************************************************************)

Bound == {"live", "detached"}

Same(q, q2) == /\ q2.epoch = q.epoch /\ q2.activity = q.activity /\ q2.capable = q.capable
               /\ q2.state = q.state \/ (q.state \in Bound /\ q2.state \in Bound)

Gone(q, q2) == /\ q.state \in Bound /\ q2.state \in Bound \cup {"parked"}
               /\ q2.activity = "unknown" /\ q2.capable = FALSE
               /\ q2.epoch >= q.epoch
               /\ q2.epoch > q.epoch \/ q2.state = "parked"

After(q, q2) == Same(q, q2) \/ Gone(q, q2)

(* One such update after another is one.                                   *)
LEMMA AfterCompose ==
  ASSUME NEW q \in SessionRecord, NEW q2 \in SessionRecord, NEW q3 \in SessionRecord,
         After(q, q2), After(q2, q3)
  PROVE  After(q, q3)
<1>1. q.epoch \in Nat /\ q2.epoch \in Nat /\ q3.epoch \in Nat BY DEF SessionRecord
<1>2. CASE Same(q, q2) /\ Same(q2, q3) BY <1>2 DEF After, Same, Bound
<1>3. CASE Same(q, q2) /\ Gone(q2, q3) BY <1>3 DEF After, Same, Gone, Bound
<1>4. CASE Gone(q, q2) /\ Same(q2, q3) BY <1>4 DEF After, Same, Gone, Bound
<1>5. CASE Gone(q, q2) /\ Gone(q2, q3) BY <1>1, <1>5 DEF After, Gone, Bound
<1>. QED BY <1>2, <1>3, <1>4, <1>5 DEF After

(* The updates of the store are such.                                      *)
LEMMA InvalidatedAfter ==
  ASSUME NEW ss \in [Session -> SessionRecord], NEW F
  PROVE  After(ss[Mine], Invalidated(ss, F)[Mine]) /\ Invalidated(ss, F) \in [Session -> SessionRecord]
<1>. DEFINE q == ss[Mine]
<1>1. Mine \in Session /\ q \in SessionRecord BY SidecarAssumption
<1>2. CASE <<Mine, q.epoch>> \in F /\ q.state \in Bound
  <2>1. Invalidated(ss, F)[Mine] = [ProofCleared(q) EXCEPT !.epoch = ProofCleared(q).epoch + 1]
    BY <1>1, <1>2 DEF Invalidated, Bound
  <2>. DEFINE c == ProofCleared(q)
  <2>2. /\ c \in SessionRecord /\ c.epoch = q.epoch /\ c.state = q.state
        /\ c.activity = "unknown" /\ c.capable = FALSE
    BY <1>1 DEF ProofCleared, SessionRecord
  <2>. HIDE DEF c
  <2>3. /\ [c EXCEPT !.epoch = c.epoch + 1].epoch = c.epoch + 1
        /\ [c EXCEPT !.epoch = c.epoch + 1].state = c.state
        /\ [c EXCEPT !.epoch = c.epoch + 1].activity = c.activity
        /\ [c EXCEPT !.epoch = c.epoch + 1].capable = c.capable
    BY <2>2 DEF SessionRecord
  <2>4. q.epoch \in Nat BY <1>1 DEF SessionRecord
  <2>5. Gone(q, Invalidated(ss, F)[Mine]) BY <1>2, <2>1, <2>2, <2>3, <2>4 DEF Gone, c
  <2>. QED BY <2>5, InvalidatedType DEF After
<1>3. CASE ~(<<Mine, q.epoch>> \in F /\ q.state \in Bound)
  <2>1. Invalidated(ss, F)[Mine] = q BY <1>1, <1>3 DEF Invalidated, Bound
  <2>. QED BY <2>1, InvalidatedType DEF After, Same
<1>. QED BY <1>2, <1>3

(* Parking the session, ...                                                *)
LEMMA ParkedAfter ==
  ASSUME NEW ss \in [Session -> SessionRecord], NEW S
  PROVE  After(ss[Mine], Parked(ss, S)[Mine]) /\ Parked(ss, S) \in [Session -> SessionRecord]
<1>. DEFINE q == ss[Mine]
<1>1. Mine \in Session /\ q \in SessionRecord /\ q.epoch \in Nat
  BY SidecarAssumption DEF SessionRecord
<1>2. CASE Mine \in S /\ q.state \in Bound
  <2>1. Parked(ss, S)[Mine] = [ProofCleared(q) EXCEPT !.state = "parked", !.pinned = FALSE]
    BY <1>1, <1>2 DEF Parked, Bound
  <2>2. /\ Parked(ss, S)[Mine].epoch = q.epoch /\ Parked(ss, S)[Mine].state = "parked"
        /\ Parked(ss, S)[Mine].activity = "unknown" /\ Parked(ss, S)[Mine].capable = FALSE
    BY <1>1, <2>1 DEF ProofCleared, SessionRecord
  <2>3. Gone(q, Parked(ss, S)[Mine]) BY <1>1, <1>2, <2>2 DEF Gone
  <2>. QED BY <2>3, ParkedType DEF After
<1>3. CASE ~(Mine \in S /\ q.state \in Bound)
  <2>1. Parked(ss, S)[Mine] = q BY <1>1, <1>3 DEF Parked, Bound
  <2>. QED BY <2>1, ParkedType DEF After, Same
<1>. QED BY <1>2, <1>3

(* ... losing an attempt of it ...                                         *)
LEMMA LossAfter ==
  ASSUME TypeOK, NEW A
  PROVE  /\ After(sessions[Mine], SessionsAfterLoss(A)[Mine])
         /\ SessionsAfterLoss(A) \in [Session -> SessionRecord]
<1>. DEFINE ss == Invalidated(sessions, Fences(A))
            S == {f[1] : f \in Fences(A)}
<1>1. sessions \in [Session -> SessionRecord] BY DEF TypeOK
<1>2. After(sessions[Mine], ss[Mine]) /\ ss \in [Session -> SessionRecord]
  BY <1>1, InvalidatedAfter
<1>3. SessionsAfterLoss(A) = Parked(ss, S) BY DEF SessionsAfterLoss
<1>. HIDE DEF ss, S
<1>4. After(ss[Mine], Parked(ss, S)[Mine]) /\ Parked(ss, S) \in [Session -> SessionRecord]
  BY <1>2, ParkedAfter
<1>5. /\ sessions[Mine] \in SessionRecord /\ ss[Mine] \in SessionRecord
      /\ Parked(ss, S)[Mine] \in SessionRecord
  BY <1>1, <1>2, <1>4, SidecarAssumption
<1>. QED BY <1>2, <1>3, <1>4, <1>5, AfterCompose

(* ... and taking its proof back are such updates too.                     *)
LEMMA TakenBackAfter ==
  ASSUME TypeOK, NEW F
  PROVE  LET ss == Invalidated(ParkedIfObserving(Mine), F)
         IN  After(sessions[Mine], ss[Mine]) /\ ss \in [Session -> SessionRecord]
<1>. DEFINE p == ParkedIfObserving(Mine)
<1>1. sessions \in [Session -> SessionRecord] BY DEF TypeOK
<1>2. p = sessions \/ p = Parked(sessions, {Mine}) BY DEF ParkedIfObserving
<1>3. After(sessions[Mine], p[Mine]) /\ p \in [Session -> SessionRecord]
  <2>1. CASE p = sessions BY <1>1, <2>1 DEF After, Same
  <2>2. CASE p = Parked(sessions, {Mine}) BY <1>1, <2>2, ParkedAfter
  <2>. QED BY <1>2, <2>1, <2>2
<1>. HIDE DEF p
<1>4. After(p[Mine], Invalidated(p, F)[Mine]) /\ Invalidated(p, F) \in [Session -> SessionRecord]
  BY <1>3, InvalidatedAfter
<1>5. /\ sessions[Mine] \in SessionRecord /\ p[Mine] \in SessionRecord
      /\ Invalidated(p, F)[Mine] \in SessionRecord
  BY <1>1, <1>3, <1>4, SidecarAssumption
<1>. QED BY <1>3, <1>4, <1>5, AfterCompose DEF p

(* The proof of the session holds, ...                                     *)
Holds == Same(sessions[Mine], sessions'[Mine]) /\ revs' = revs

(* ... is gone, ...                                                        *)
Clears == Gone(sessions[Mine], sessions'[Mine]) /\ revs' = NoRevs

(* ... or takes over what a call says of the epoch it is in.               *)
Carries(call) ==
  /\ IsAttachable(Mine) /\ call.epoch = sessions[Mine].epoch
  /\ sessions'[Mine].epoch = sessions[Mine].epoch
  /\ sessions'[Mine].state = sessions[Mine].state
  /\ \/ /\ call.kind = "activity" /\ call.rev = revs.activity + 1
        /\ sessions'[Mine].activity = call.value /\ revs'.activity = call.rev
        /\ sessions'[Mine].capable = sessions[Mine].capable /\ revs'.capability = revs.capability
     \/ /\ call.kind = "capabilities" /\ call.rev = revs.capability + 1
        /\ sessions'[Mine].capable = TRUE /\ revs'.capability = call.rev
        /\ sessions'[Mine].activity = sessions[Mine].activity /\ revs'.activity = revs.activity

(* The revisions follow the proof.                                         *)
LEMMA RevsAfter ==
  ASSUME TypeOK, After(sessions[Mine], sessions'[Mine]), RevsFollow
  PROVE  Holds \/ Clears
<1>1. sessions[Mine].epoch \in Nat BY SidecarAssumption DEF TypeOK, SessionRecord
<1>2. CASE Same(sessions[Mine], sessions'[Mine])
  BY <1>2 DEF Same, Bound, RevsFollow, Holds
<1>3. CASE Gone(sessions[Mine], sessions'[Mine])
  <2>1. \/ sessions'[Mine].epoch # sessions[Mine].epoch
        \/ sessions'[Mine].state = "parked" /\ sessions[Mine].state # "parked"
    BY <1>1, <1>3 DEF Gone, Bound
  <2>. QED BY <1>3, <2>1 DEF RevsFollow, Clears
<1>. QED BY <1>2, <1>3 DEF After

(* What each operation on attempts does to it.                             *)
LEMMA CliAfter ==
  ASSUME TypeOK, NEW a \in Attempt,
         \/ \E b \in Batch : BeginCli(a, b, Mine, "trusted_all")
         \/ AcceptCli(a)
         \/ \E manual \in BOOLEAN : RejectCli(a, manual)
         \/ RejectCliAgain(a)
         \/ ExpireCli(a)
         \/ \E event \in TurnEvents : ObserveCli(a, event)
  PROVE  After(sessions[Mine], sessions'[Mine])
<1>1. sessions \in [Session -> SessionRecord] BY DEF TypeOK
<1>2. sessions' = sessions => After(sessions[Mine], sessions'[Mine]) BY DEF After, Same
<1>3. ASSUME NEW S, sessions' = Parked(sessions, S) PROVE After(sessions[Mine], sessions'[Mine])
  BY <1>1, <1>3, ParkedAfter
<1>4. ASSUME NEW F, sessions' = Invalidated(sessions, F) PROVE After(sessions[Mine], sessions'[Mine])
  BY <1>1, <1>4, InvalidatedAfter
<1>5. ASSUME NEW r, NEW at, GiveUp(a, r, at) PROVE After(sessions[Mine], sessions'[Mine])
  BY <1>5, LossAfter DEF GiveUp
<1>6. CASE (\E b \in Batch : BeginCli(a, b, Mine, "trusted_all")) \/ AcceptCli(a)
  BY <1>2, <1>6 DEF BeginCli, AcceptCli
<1>7. CASE (\E manual \in BOOLEAN : RejectCli(a, manual)) \/ RejectCliAgain(a)
  <2>1. (\E S : sessions' = Parked(sessions, S)) \/ \E F : sessions' = Invalidated(sessions, F)
    BY <1>7 DEF RejectCli, RejectCliAgain
  <2>. QED BY <1>3, <1>4, <2>1
<1>8. CASE ExpireCli(a) BY <1>5, <1>8, Zenon DEF ExpireCli
<1>9. CASE \E event \in TurnEvents : ObserveCli(a, event)
  <2>1. PICK event \in TurnEvents : ObserveCli(a, event) BY <1>9
  <2>2. \/ sessions' = sessions
        \/ \E F : sessions' = Invalidated(sessions, F)
        \/ \E r, at : GiveUp(a, r, at)
    <3>1. Deliver(a) => \E F : sessions' = Invalidated(sessions, F) BY DEF Deliver
    <3>. QED BY <2>1, <3>1, Zenon DEF ObserveCli, ObserveDelayed, ObserveLate, ObserveAfterLoss,
                                      ObserveAfterDeadline, ObserveInTime
  <2>. QED BY <1>2, <1>4, <1>5, <2>2
<1>. QED BY <1>6, <1>7, <1>8, <1>9

(* What a call does to it.                                                 *)
LEMMA ExecutesSession ==
  ASSUME Typed, NEW call \in Calls, Executes(call) PROVE Holds \/ Clears \/ Carries(call)
<1>0. /\ TypeOK /\ sessions[Mine] \in SessionRecord
      /\ revs \in [activity : Nat, capability : Nat]
  BY SidecarAssumption DEF Typed, SidecarTypeOK, TypeOK
<1>1. UNCHANGED storeVars => Holds BY DEF storeVars, vars, Holds, Same
<1>2. CASE call.kind = "activity" /\ NotesActivity(call)
  <2>1. CASE UNCHANGED storeVars BY <1>1, <2>1
  <2>2. CASE ~UNCHANGED storeVars
    <3>1. /\ IsAttachable(Mine) /\ call.epoch = sessions[Mine].epoch
          /\ call.rev = revs.activity + 1
          /\ sessions' = [sessions EXCEPT ![Mine].activity = call.value]
          /\ revs' = [revs EXCEPT !.activity = call.rev]
      BY <1>2, <2>2 DEF NotesActivity, InItsEpoch, Advances, NoteActivity
    <3>2. sessions'[Mine] = [sessions[Mine] EXCEPT !.activity = call.value]
      BY <1>0, <3>1, SidecarAssumption DEF TypeOK
    <3>3. /\ sessions'[Mine].epoch = sessions[Mine].epoch
          /\ sessions'[Mine].state = sessions[Mine].state
          /\ sessions'[Mine].activity = call.value
      BY <1>0, <3>2 DEF SessionRecord
    <3>4. sessions'[Mine].capable = sessions[Mine].capable BY <1>0, <3>2 DEF SessionRecord
    <3>5. revs'.activity = call.rev /\ revs'.capability = revs.capability BY <1>0, <3>1
    <3>. QED BY <1>2, <3>1, <3>3, <3>4, <3>5 DEF Carries
  <2>. QED BY <2>1, <2>2
<1>3. CASE call.kind = "capabilities" /\ NotesCapabilities(call)
  <2>1. CASE UNCHANGED storeVars BY <1>1, <2>1
  <2>2. CASE ~UNCHANGED storeVars
    <3>1. /\ IsAttachable(Mine) /\ call.epoch = sessions[Mine].epoch
          /\ call.rev = revs.capability + 1
          /\ sessions' = [sessions EXCEPT ![Mine].capable = TRUE]
          /\ revs' = [revs EXCEPT !.capability = call.rev]
      BY <1>3, <2>2 DEF NotesCapabilities, InItsEpoch, Advances, NoteCapabilities
    <3>2. sessions'[Mine] = [sessions[Mine] EXCEPT !.capable = TRUE]
      BY <1>0, <3>1, SidecarAssumption DEF TypeOK
    <3>3. /\ sessions'[Mine].epoch = sessions[Mine].epoch
          /\ sessions'[Mine].state = sessions[Mine].state
          /\ sessions'[Mine].activity = sessions[Mine].activity
      BY <1>0, <3>2 DEF SessionRecord
    <3>4. sessions'[Mine].capable = TRUE BY <1>0, <3>2 DEF SessionRecord
    <3>5. revs'.capability = call.rev /\ revs'.activity = revs.activity BY <1>0, <3>1
    <3>. QED BY <1>3, <3>1, <3>3, <3>4, <3>5 DEF Carries
  <2>. QED BY <2>1, <2>2
<1>4. CASE call.kind = "invalidate" /\ Invalidates(call)
  <2>1. CASE InvalidateProof(Mine) /\ RevsFollow
    <3>1. After(sessions[Mine], sessions'[Mine]) BY <1>0, <2>1, TakenBackAfter DEF InvalidateProof
    <3>. QED BY <1>0, <2>1, <3>1, RevsAfter
  <2>. QED BY <1>1, <1>4, <2>1 DEF Invalidates
<1>5. CASE call.kind = "begin" /\ BeginsAttempt(call)
  <2>1. call.attempt \in Attempt /\ call.batch \in Batch BY <1>5, CallFields
  <2>2. UNCHANGED storeVars \/ (BeginCli(call.attempt, call.batch, Mine, "trusted_all") /\ RevsFollow)
    BY <1>5 DEF BeginsAttempt
  <2>. QED BY <1>0, <1>1, <2>1, <2>2, CliAfter, RevsAfter
<1>6. CASE call.kind = "reject" /\ RejectsAttempt(call)
  <2>1. call.attempt \in Attempt /\ call.manual \in BOOLEAN BY <1>6, CallFields
  <2>2. \/ UNCHANGED storeVars
        \/ (RejectCli(call.attempt, call.manual) \/ RejectCliAgain(call.attempt)) /\ RevsFollow
    BY <1>6 DEF RejectsAttempt
  <2>. QED BY <1>0, <1>1, <2>1, <2>2, CliAfter, RevsAfter
<1>7. CASE call.kind = "accept" /\ AcceptsAttempt(call)
  <2>1. call.attempt \in Attempt BY <1>7, CallFields
  <2>2. UNCHANGED storeVars \/ (AcceptCli(call.attempt) /\ RevsFollow) BY <1>7 DEF AcceptsAttempt
  <2>. QED BY <1>0, <1>1, <2>1, <2>2, CliAfter, RevsAfter
<1>8. CASE call.kind = "observe" /\ ObservesTurn(call)
  <2>1. call.attempt \in Attempt /\ call.event \in TurnEvents BY <1>8, CallFields
  <2>2. UNCHANGED storeVars \/ (ObserveCli(call.attempt, call.event) /\ RevsFollow)
    BY <1>8 DEF ObservesTurn
  <2>. QED BY <1>0, <1>1, <2>1, <2>2, CliAfter, RevsAfter
<1>9. CASE call.kind = "expire" /\ ExpiresObservation(call)
  <2>1. call.attempt \in Attempt BY <1>9, CallFields
  <2>2. UNCHANGED storeVars \/ (ExpireCli(call.attempt) /\ RevsFollow) BY <1>9 DEF ExpiresObservation
  <2>. QED BY <1>0, <1>1, <2>1, <2>2, CliAfter, RevsAfter
<1>. QED BY <1>2, <1>3, <1>4, <1>5, <1>6, <1>7, <1>8, <1>9, Zenon DEF Executes

(* What the daemon, the sweep and the clock do to it.                      *)
LEMMA MaintenanceSession ==
  ASSUME Typed, RevsFollow,
         \/ InvalidateCurrentProof(Mine)
         \/ \E required \in Requirements : Reattach(Mine, required)
         \/ Sweep \/ Tick
  PROVE  Holds \/ Clears
<1>0. TypeOK /\ sessions \in [Session -> SessionRecord] /\ Mine \in Session
  BY SidecarAssumption DEF Typed, SidecarTypeOK, TypeOK
<1>1. CASE InvalidateCurrentProof(Mine)
  <2>. DEFINE ss == Invalidated(ParkedIfObserving(Mine), {<<Mine, sessions[Mine].epoch>>})
  <2>1. sessions' = [ss EXCEPT ![Mine] = Detached(ss[Mine])] BY <1>1 DEF InvalidateCurrentProof
  <2>2. After(sessions[Mine], ss[Mine]) /\ ss \in [Session -> SessionRecord]
    BY <1>0, TakenBackAfter
  <2>. HIDE DEF ss
  <2>3. sessions'[Mine] = Detached(ss[Mine]) BY <1>0, <2>1, <2>2
  <2>4. ss[Mine] \in SessionRecord BY <1>0, <2>2
  <2>5. After(ss[Mine], Detached(ss[Mine])) /\ Detached(ss[Mine]) \in SessionRecord
    BY <2>4 DEF Detached, After, Same, Bound, SessionRecord
  <2>6. sessions[Mine] \in SessionRecord BY <1>0
  <2>7. After(sessions[Mine], sessions'[Mine]) BY <2>2, <2>3, <2>4, <2>5, <2>6, AfterCompose
  <2>. QED BY <1>0, <2>7, RevsAfter
<1>2. CASE \E required \in Requirements : Reattach(Mine, required)
  <2>1. IsAttachable(Mine) /\ sessions' = [sessions EXCEPT ![Mine] = Attached(sessions[Mine])]
    BY <1>2 DEF Reattach
  <2>2. sessions'[Mine] = Attached(sessions[Mine]) BY <1>0, <2>1
  <2>3. sessions[Mine] \in SessionRecord BY <1>0
  <2>4. Gone(sessions[Mine], Attached(sessions[Mine]))
    <3>. DEFINE q == sessions[Mine]
                c == ProofCleared(q)
    <3>1. /\ c \in SessionRecord /\ c.epoch = q.epoch /\ c.activity = "unknown" /\ c.capable = FALSE
      BY <2>3 DEF ProofCleared, SessionRecord
    <3>2. Attached(q) = [c EXCEPT !.state = "live", !.epoch = c.epoch + 1, !.pinned = FALSE]
      BY DEF Attached
    <3>3. q.epoch \in Nat BY <2>3 DEF SessionRecord
    <3>4. q.state \in Bound BY <2>1 DEF IsAttachable, Bound
    <3>. HIDE DEF c, q
    <3>5. /\ Attached(q).state = "live" /\ Attached(q).epoch = c.epoch + 1
          /\ Attached(q).activity = c.activity /\ Attached(q).capable = c.capable
      BY <3>1, <3>2 DEF SessionRecord
    <3>6. Gone(q, Attached(q)) BY <3>1, <3>3, <3>4, <3>5 DEF Gone, Bound
    <3>. QED BY <3>6 DEF q
  <2>5. After(sessions[Mine], sessions'[Mine]) BY <2>2, <2>4 DEF After
  <2>. QED BY <1>0, <2>5, RevsAfter
<1>3. CASE Sweep
  <2>1. PICK A, F : sessions' = Invalidated(SessionsAfterLoss(A), F)
    <3>1. PICK at, U, C, P : SweepTables(U, C, P, at) BY <1>3, Zenon DEF Sweep
    <3>2. \E F : sessions' = Invalidated(SessionsAfterLoss(U \union C), F)
      BY <3>1, Zenon DEF SweepTables
    <3>. QED BY <3>2
  <2>. DEFINE ss == SessionsAfterLoss(A)
  <2>2. After(sessions[Mine], ss[Mine]) /\ ss \in [Session -> SessionRecord] BY <1>0, LossAfter
  <2>. HIDE DEF ss
  <2>3. After(ss[Mine], sessions'[Mine]) /\ sessions' \in [Session -> SessionRecord]
    BY <2>1, <2>2, InvalidatedAfter DEF ss
  <2>4. /\ sessions[Mine] \in SessionRecord /\ ss[Mine] \in SessionRecord
        /\ sessions'[Mine] \in SessionRecord
    BY <1>0, <2>2, <2>3
  <2>5. After(sessions[Mine], sessions'[Mine]) BY <2>2, <2>3, <2>4, AfterCompose
  <2>. QED BY <1>0, <2>5, RevsAfter
<1>4. CASE Tick
  <2>1. After(sessions[Mine], sessions'[Mine]) BY <1>4 DEF Tick, After, Same
  <2>. QED BY <1>0, <2>1, RevsAfter
<1>. QED BY <1>1, <1>2, <1>3, <1>4

-----------------------------------------------------------------------------
(***************************************************************************)
(* What the rows say: every attempt is one of the session of the sidecar,  *)
(* which is given up together with a turn that was accepted.               *)
(***************************************************************************)

MyRows == \A a \in Attempt :
  /\ attempts[a].state = "absent" => attempts[a].rpc = "none"
  /\ attempts[a].state # "absent" => attempts[a].adapter = "cli" /\ attempts[a].session = Mine
  /\ attempts[a].rpc = "accepted" /\ attempts[a].state = "abandoned" =>
       sessions[Mine].state \notin Bound
  /\ attempts[a].event = "turn_failed" => attempts[a].state = "abandoned"

(* A row that is inserted.                                                 *)
Begun(r) == /\ r.state = "accept_pending" /\ r.rpc = "pending_acceptance" /\ r.event = "none"
            /\ r.adapter = "cli" /\ r.session = Mine

(* The row of attempt a goes from r to r2, in a step that refuses those of *)
(* R.                                                                      *)
RowGoes(a, r, r2, R) ==
  /\ r2.state # "absent" /\ r2.batch = r.batch /\ r2.adapter = r.adapter /\ r2.session = r.session
  /\ r.rpc = "accepted" => r2.rpc = "accepted"
  /\ r2.rpc = "rejected_before_accept" => r.rpc = "rejected_before_accept" \/ a \in R
  /\ r2.rpc = "accepted" /\ r2.state = "abandoned" =>
       \/ r.rpc = "accepted" /\ r.state = "abandoned"
       \/ sessions'[Mine].state \notin Bound
  /\ r2.event = "turn_failed" => r2.state = "abandoned"

RowMoves(a, R) ==
  IF attempts[a].state = "absent" THEN attempts'[a] = attempts[a] \/ Begun(attempts'[a])
                                  ELSE RowGoes(a, attempts[a], attempts'[a], R)

BatchMoves(b, D) ==
  batches'[b].close_reason = "delivered" => batches[b].close_reason = "delivered" \/ b \in D

(* A step refuses no other attempts than R, and delivers no other batches  *)
(* than D.                                                                 *)
RowsMove(R, D) == /\ \A a \in Attempt : RowMoves(a, R)
                  /\ \A b \in Batch : BatchMoves(b, D)

(* What the updates of the store make of a row.                            *)
LEMMA RowUpdates ==
  ASSUME NEW a, NEW R, NEW r \in AttemptRecord, r.state # "absent",
         r.event = "turn_failed" => r.state = "abandoned"
  PROVE  /\ RowGoes(a, r, r, R)
         /\ r.state \in ActiveStates => RowGoes(a, r, [r EXCEPT !.state = "closed"], R)
         /\ \A obs : r.state = "abandoned" \/ sessions'[Mine].state \notin Bound =>
              RowGoes(a, r, Abandoned(r, obs), R)
         /\ \A obs, event : sessions'[Mine].state \notin Bound =>
              RowGoes(a, r, [Abandoned(r, obs) EXCEPT !.event = event], R)
         /\ r.rpc = "pending_acceptance" => RowGoes(a, r, AbandonedUnknown(r), R)
         /\ r.rpc = "pending_acceptance" /\ a \in R => RowGoes(a, r, Rejected(r), R)
         /\ \A deadline : r.state = "accept_pending" =>
              RowGoes(a, r, [r EXCEPT !.state = "cooldown", !.rpc = "accepted",
                                      !.obs = "tracking", !.deadline = deadline], R)
         /\ \A event : event # "turn_failed" \/ r.state = "abandoned" =>
              RowGoes(a, r, [r EXCEPT !.event = event], R)
<1>1. RowGoes(a, r, r, R) BY DEF RowGoes
<1>2. r.state \in ActiveStates => RowGoes(a, r, [r EXCEPT !.state = "closed"], R)
  BY DEF RowGoes, AttemptRecord, ActiveStates
<1>3. ASSUME NEW obs, r.state = "abandoned" \/ sessions'[Mine].state \notin Bound
      PROVE  RowGoes(a, r, Abandoned(r, obs), R)
  <2>. DEFINE d == Abandoned(r, obs)
  <2>1. /\ d.state = "abandoned" /\ d.batch = r.batch /\ d.adapter = r.adapter
        /\ d.session = r.session /\ d.rpc = r.rpc
    BY DEF Abandoned, AttemptRecord
  <2>. HIDE DEF d
  <2>. QED BY <1>3, <2>1 DEF RowGoes, d
<1>4. ASSUME NEW obs, NEW event, sessions'[Mine].state \notin Bound
      PROVE  RowGoes(a, r, [Abandoned(r, obs) EXCEPT !.event = event], R)
  <2>. DEFINE d == [Abandoned(r, obs) EXCEPT !.event = event]
  <2>1. /\ d.state = "abandoned" /\ d.batch = r.batch /\ d.adapter = r.adapter
        /\ d.session = r.session /\ d.rpc = r.rpc
    BY DEF Abandoned, AttemptRecord
  <2>. HIDE DEF d
  <2>. QED BY <1>4, <2>1 DEF RowGoes, d
<1>5. r.rpc = "pending_acceptance" => RowGoes(a, r, AbandonedUnknown(r), R)
  <2>. DEFINE d == AbandonedUnknown(r)
  <2>1. /\ d.state = "abandoned" /\ d.batch = r.batch /\ d.adapter = r.adapter
        /\ d.session = r.session /\ d.rpc = "unknown"
    BY DEF AbandonedUnknown, AttemptRecord
  <2>. HIDE DEF d
  <2>. QED BY <2>1 DEF RowGoes, d
<1>6. r.rpc = "pending_acceptance" /\ a \in R => RowGoes(a, r, Rejected(r), R)
  <2>. DEFINE d == Rejected(r)
  <2>1. /\ d.state = "abandoned" /\ d.batch = r.batch /\ d.adapter = r.adapter
        /\ d.session = r.session /\ d.rpc = "rejected_before_accept"
    BY DEF Rejected, AttemptRecord
  <2>. HIDE DEF d
  <2>. QED BY <2>1 DEF RowGoes, d
<1>7. ASSUME NEW deadline, r.state = "accept_pending"
      PROVE  RowGoes(a, r, [r EXCEPT !.state = "cooldown", !.rpc = "accepted",
                                     !.obs = "tracking", !.deadline = deadline], R)
  <2>. DEFINE d == [r EXCEPT !.state = "cooldown", !.rpc = "accepted",
                             !.obs = "tracking", !.deadline = deadline]
  <2>1. /\ d.state = "cooldown" /\ d.batch = r.batch /\ d.adapter = r.adapter
        /\ d.session = r.session /\ d.rpc = "accepted" /\ d.event = r.event
    BY DEF AttemptRecord
  <2>. HIDE DEF d
  <2>. QED BY <1>7, <2>1 DEF RowGoes, d
<1>8. ASSUME NEW event, event # "turn_failed" \/ r.state = "abandoned"
      PROVE  RowGoes(a, r, [r EXCEPT !.event = event], R)
  <2>. DEFINE d == [r EXCEPT !.event = event]
  <2>1. /\ d.state = r.state /\ d.batch = r.batch /\ d.adapter = r.adapter
        /\ d.session = r.session /\ d.rpc = r.rpc /\ d.event = event
    BY DEF AttemptRecord
  <2>. HIDE DEF d
  <2>. QED BY <1>8, <2>1 DEF RowGoes, d
<1>. QED BY <1>1, <1>2, <1>3, <1>4, <1>5, <1>6, <1>7, <1>8

(* One row changes, or none.                                               *)
LEMMA OneRowMoves ==
  ASSUME TypeOK, MyRows, NEW R, NEW a \in Attempt, NEW r, attempts' = [attempts EXCEPT ![a] = r],
         attempts[a].state # "absent", RowGoes(a, attempts[a], r, R)
  PROVE  \A c \in Attempt : RowMoves(c, R)
<1>1. attempts'[a] = r /\ \A c \in Attempt \ {a} : attempts'[c] = attempts[c] BY DEF TypeOK
<1>2. ASSUME NEW c \in Attempt \ {a} PROVE RowMoves(c, R)
  <2>1. attempts[c] \in AttemptRecord BY DEF TypeOK
  <2>. QED BY <1>1, <2>1, RowUpdates DEF RowMoves, MyRows
<1>. QED BY <1>1, <1>2 DEF RowMoves

(* Rows that are left alone move by the same rules.                        *)
LEMMA NoRowMoves ==
  ASSUME TypeOK, MyRows, NEW R, attempts' = attempts PROVE \A c \in Attempt : RowMoves(c, R)
<1>1. ASSUME NEW c \in Attempt PROVE RowMoves(c, R)
  <2>1. attempts[c] \in AttemptRecord BY DEF TypeOK
  <2>. QED BY <2>1, RowUpdates DEF RowMoves, MyRows
<1>. QED BY <1>1

(* Nothing is delivered.                                                   *)
LEMMA NoneDelivered ==
  ASSUME TypeOK, NEW D,
         \/ batches' = batches
         \/ \E b : batches' = Counted(batches, b)
         \/ \E B, at : batches' = Manualized(batches, B, at)
  PROVE  \A b \in Batch : BatchMoves(b, D)
<1>. SUFFICES ASSUME NEW b \in Batch PROVE BatchMoves(b, D) OBVIOUS
<1>1. batches[b] \in BatchRecord BY DEF TypeOK
<1>2. CASE batches' = batches BY <1>2 DEF BatchMoves
<1>3. ASSUME NEW c, batches' = Counted(batches, c) PROVE BatchMoves(b, D)
  <2>1. \/ batches'[b] = batches[b]
        \/ batches'[b] = [batches[b] EXCEPT !.attempt_count = batches[b].attempt_count + 1]
    BY <1>3 DEF Counted, TypeOK
  <2>2. batches'[b].close_reason = batches[b].close_reason BY <1>1, <2>1 DEF BatchRecord
  <2>. QED BY <2>2 DEF BatchMoves
<1>4. ASSUME NEW B, NEW at, batches' = Manualized(batches, B, at) PROVE BatchMoves(b, D)
  <2>1. \/ batches'[b] = batches[b]
        \/ batches'[b] = [batches[b] EXCEPT !.policy = "manual_resolution_only",
                                            !.window_ends_at = Later(@, at + ManualWindow)]
    BY <1>4 DEF Manualized
  <2>2. batches'[b].close_reason = batches[b].close_reason BY <1>1, <2>1 DEF BatchRecord
  <2>. QED BY <2>2 DEF BatchMoves
<1>. QED BY <1>2, <1>3, <1>4

-----------------------------------------------------------------------------
(* What each operation makes of the rows.                                  *)

(* A session that is given up takes no further proof.                      *)
LEMMA LostSession ==
  ASSUME TypeOK, NEW A, NEW a \in A, attempts[a].adapter = "cli", attempts[a].session = Mine
  PROVE  SessionsAfterLoss(A)[Mine].state \notin Bound
<1>. DEFINE ss == SessionsAfterLoss(A)
<1>1. \A e \in Nat : Past(ss, Mine, e) BY SidecarAssumption, LossSession
<1>2. ss[Mine].epoch \in Nat
  <2>1. ss \in [Session -> SessionRecord] BY LossAfter
  <2>. HIDE DEF ss
  <2>. QED BY <2>1, SidecarAssumption DEF SessionRecord
<1>. HIDE DEF ss
<1>3. Past(ss, Mine, ss[Mine].epoch) BY <1>1, <1>2
<1>4. ss[Mine].state \notin Bound BY <1>2, <1>3 DEF Past, Bound
<1>. QED BY <1>4 DEF ss

(* No update of its proof binds it again.                                  *)
LEMMA StaysLost ==
  ASSUME NEW ss \in [Session -> SessionRecord], NEW F, ss[Mine].state \notin Bound
  PROVE  Invalidated(ss, F)[Mine].state \notin Bound
BY SidecarAssumption DEF Invalidated, Bound

(* A turn that is given up.                                                *)
LEMMA GiveUpRows ==
  ASSUME TypeOK, MyRows, NEW a \in Attempt, attempts[a].state # "absent", NEW r, NEW at,
         GiveUp(a, r, at), NEW R, NEW D,
         \E obs, event : \/ r = Abandoned(attempts[a], obs)
                         \/ r = [Abandoned(attempts[a], obs) EXCEPT !.event = event]
  PROVE  RowsMove(R, D)
<1>1. /\ attempts' = [attempts EXCEPT ![a] = r] /\ sessions' = SessionsAfterLoss({a})
      /\ \E B : batches' = Manualized(batches, B, at)
  BY DEF GiveUp
<1>2. sessions'[Mine].state \notin Bound
  <2>1. a \in {a} /\ attempts[a].adapter = "cli" /\ attempts[a].session = Mine BY DEF MyRows
  <2>. QED BY <1>1, <2>1, LostSession
<1>3. /\ attempts[a] \in AttemptRecord
      /\ attempts[a].event = "turn_failed" => attempts[a].state = "abandoned"
  BY DEF TypeOK, MyRows
<1>4. RowGoes(a, attempts[a], r, R)
  <2>1. PICK obs, event : \/ r = Abandoned(attempts[a], obs)
                          \/ r = [Abandoned(attempts[a], obs) EXCEPT !.event = event]
    OBVIOUS
  <2>2. RowGoes(a, attempts[a], Abandoned(attempts[a], obs), R) BY <1>2, <1>3, RowUpdates
  <2>3. RowGoes(a, attempts[a], [Abandoned(attempts[a], obs) EXCEPT !.event = event], R)
    BY <1>2, <1>3, RowUpdates
  <2>. QED BY <2>1, <2>2, <2>3
<1>5. attempts' = [attempts EXCEPT ![a] = r] BY <1>1
<1>6. \A c \in Attempt : RowMoves(c, R) BY ONLY TypeOK, MyRows, attempts[a].state # "absent",
                                               a \in Attempt, <1>4, <1>5, OneRowMoves
<1>7. \A b \in Batch : BatchMoves(b, D) BY <1>1, NoneDelivered
<1>. QED BY <1>6, <1>7 DEF RowsMove

(* A turn that completed.                                                  *)
LEMMA DeliverRows ==
  ASSUME TypeOK, MyRows, NEW a \in Attempt, attempts[a].state # "absent", Deliver(a),
         NEW R, NEW D, attempts[a].batch \in D
  PROVE  RowsMove(R, D)
<1>. DEFINE b == attempts[a].batch
            r == [attempts[a] EXCEPT !.state = "cooldown", !.obs = "completed",
                                     !.event = "turn_completed"]
            as == [attempts EXCEPT ![a] = r]
<1>1. attempts' = AttemptsClosedWith(as, {b}) BY DEF Deliver
<1>2. batches' = Closed(batches, {b}, "delivered") BY DEF Deliver
<1>3. attempts[a] \in AttemptRecord BY DEF TypeOK
<1>4. /\ r \in AttemptRecord /\ r.state = "cooldown" /\ r.batch = b
      /\ r.event = "turn_completed" /\ r.rpc = attempts[a].rpc
      /\ r.adapter = attempts[a].adapter /\ r.session = attempts[a].session
  <2>1. r \in AttemptRecord BY <1>3, ZenonT(60) DEF AttemptRecord
  <2>2. r.state = "cooldown" /\ r.batch = b /\ r.event = "turn_completed"
    BY <1>3 DEF AttemptRecord
  <2>3. /\ r.rpc = attempts[a].rpc /\ r.adapter = attempts[a].adapter
        /\ r.session = attempts[a].session
    BY <1>3 DEF AttemptRecord
  <2>. QED BY <2>1, <2>2, <2>3
<1>. HIDE DEF r
<1>5. as[a] = r /\ \A c \in Attempt \ {a} : as[c] = attempts[c] BY DEF TypeOK
<1>. HIDE DEF as
<1>6. ASSUME NEW c \in Attempt
      PROVE  attempts'[c] = IF as[c].batch = b /\ as[c].state \in ActiveStates
                            THEN [as[c] EXCEPT !.state = "closed"] ELSE as[c]
  BY <1>1 DEF AttemptsClosedWith
<1>7. RowMoves(a, R)
  <2>1. attempts'[a] = [r EXCEPT !.state = "closed"] BY <1>4, <1>5, <1>6 DEF ActiveStates
  <2>2. /\ attempts'[a].state = "closed" /\ attempts'[a].batch = r.batch
        /\ attempts'[a].event = r.event /\ attempts'[a].rpc = r.rpc
        /\ attempts'[a].adapter = r.adapter /\ attempts'[a].session = r.session
    BY <1>4, <2>1 DEF AttemptRecord
  <2>. QED BY <1>4, <2>2 DEF RowMoves, RowGoes
<1>8. ASSUME NEW c \in Attempt, c # a PROVE RowMoves(c, R)
  <2>1. as[c] = attempts[c] /\ attempts[c] \in AttemptRecord BY <1>5, <1>8 DEF TypeOK
  <2>2. \/ attempts'[c] = attempts[c]
        \/ /\ attempts[c].state \in ActiveStates
           /\ attempts'[c] = [attempts[c] EXCEPT !.state = "closed"]
    BY <1>6, <2>1
  <2>3. attempts[c].event = "turn_failed" => attempts[c].state = "abandoned" BY DEF MyRows
  <2>4. attempts[c].state \in ActiveStates => attempts[c].state # "absent" BY DEF ActiveStates
  <2>. QED BY <2>1, <2>2, <2>3, <2>4, RowUpdates DEF RowMoves
<1>9. ASSUME NEW c \in Batch PROVE BatchMoves(c, D)
  <2>1. c # b => batches'[c] = batches[c] BY <1>2 DEF Closed
  <2>. QED BY <2>1 DEF BatchMoves
<1>. QED BY <1>7, <1>8, <1>9 DEF RowsMove

(* Turns that are given up with the proof.                                 *)
LEMMA LoseRows ==
  ASSUME TypeOK, MyRows, NEW at, LoseObservations(Mine, at), NEW R, NEW D,
         \/ \A a \in ObservedUnder(Mine) : attempts[a].state = "abandoned"
         \/ ObservedUnder(Mine) # {} => sessions'[Mine].state \notin Bound
  PROVE  RowsMove(R, D)
<1>1. ASSUME NEW a \in Attempt PROVE RowMoves(a, R)
  <2>1. attempts'[a] = IF a \in ObservedUnder(Mine) THEN Abandoned(attempts[a], "abandoned")
                                                    ELSE attempts[a]
    BY DEF LoseObservations
  <2>2. a \in ObservedUnder(Mine) => attempts[a].state # "absent" BY DEF ObservedUnder
  <2>3. a \in ObservedUnder(Mine) =>
          attempts[a].state = "abandoned" \/ sessions'[Mine].state \notin Bound
    OBVIOUS
  <2>4. /\ attempts[a] \in AttemptRecord
        /\ attempts[a].event = "turn_failed" => attempts[a].state = "abandoned"
    BY DEF TypeOK, MyRows
  <2>. QED BY <2>1, <2>2, <2>3, <2>4, RowUpdates DEF RowMoves
<1>2. \E B : batches' = Manualized(batches, B, at) BY DEF LoseObservations
<1>3. \A b \in Batch : BatchMoves(b, D) BY <1>2, NoneDelivered
<1>. QED BY <1>1, <1>3 DEF RowsMove

(* An attempt that is begun.                                               *)
LEMMA BeginRows ==
  ASSUME TypeOK, MyRows, NEW a \in Attempt, NEW b, BeginCli(a, b, Mine, "trusted_all"),
         NEW R, NEW D
  PROVE  RowsMove(R, D)
<1>1. PICK g, at : attempts' = [attempts EXCEPT ![a] = NewCliAttempt(b, Mine, "trusted_all", g, at)]
  BY DEF BeginCli
<1>. DEFINE r == NewCliAttempt(b, Mine, "trusted_all", g, at)
<1>2. Begun(r) BY DEF NewCliAttempt, Begun
<1>. HIDE DEF r
<1>3. attempts'[a] = r /\ \A c \in Attempt \ {a} : attempts'[c] = attempts[c]
  BY <1>1 DEF TypeOK, r
<1>4. attempts[a].state = "absent" /\ batches' = batches BY DEF BeginCli
<1>5. ASSUME NEW c \in Attempt, c # a PROVE RowMoves(c, R)
  <2>1. attempts[c] \in AttemptRecord /\ attempts'[c] = attempts[c] BY <1>3, <1>5 DEF TypeOK
  <2>. QED BY <2>1, RowUpdates DEF RowMoves, MyRows
<1>6. RowMoves(a, R) BY <1>2, <1>3, <1>4 DEF RowMoves
<1>7. \A c \in Batch : BatchMoves(c, D) BY <1>4, NoneDelivered
<1>. QED BY <1>5, <1>6, <1>7 DEF RowsMove

(* An answer that is recorded.                                             *)
LEMMA AnswerRows ==
  ASSUME TypeOK, MyRows, NEW a \in Attempt, NEW R, NEW D,
         \/ AcceptCli(a)
         \/ a \in R /\ \E manual \in BOOLEAN : RejectCli(a, manual)
         \/ RejectCliAgain(a)
  PROVE  RowsMove(R, D)
<1>0. /\ attempts[a] \in AttemptRecord
      /\ attempts[a].event = "turn_failed" => attempts[a].state = "abandoned"
  BY DEF TypeOK, MyRows
<1>1. CASE AcceptCli(a)
  <2>1. PICK deadline : attempts' = [attempts EXCEPT ![a] =
          [attempts[a] EXCEPT !.state = "cooldown", !.rpc = "accepted", !.obs = "tracking",
                              !.deadline = deadline]]
    BY <1>1 DEF AcceptCli
  <2>2. attempts[a].state = "accept_pending" /\ \E b : batches' = Counted(batches, b)
    BY <1>1 DEF AcceptCli, IsAcceptPending
  <2>3. RowGoes(a, attempts[a], [attempts[a] EXCEPT !.state = "cooldown", !.rpc = "accepted",
                                 !.obs = "tracking", !.deadline = deadline], R)
    BY <1>0, <2>2, RowUpdates
  <2>4. \A c \in Attempt : RowMoves(c, R) BY <2>1, <2>2, <2>3, OneRowMoves
  <2>5. \A b \in Batch : BatchMoves(b, D) BY <2>2, NoneDelivered
  <2>. QED BY <2>4, <2>5 DEF RowsMove
<1>2. CASE a \in R /\ \E manual \in BOOLEAN : RejectCli(a, manual)
  <2>1. /\ attempts' = [attempts EXCEPT ![a] = Rejected(attempts[a])]
        /\ attempts[a].state = "accept_pending" /\ attempts[a].rpc = "pending_acceptance"
        /\ batches' = batches \/ \E B, at : batches' = Manualized(batches, B, at)
    BY <1>2 DEF RejectCli, IsAcceptPending
  <2>2. RowGoes(a, attempts[a], Rejected(attempts[a]), R) BY <1>0, <1>2, <2>1, RowUpdates
  <2>3. \A c \in Attempt : RowMoves(c, R) BY <2>1, <2>2, OneRowMoves
  <2>4. \A b \in Batch : BatchMoves(b, D) BY <2>1, NoneDelivered
  <2>. QED BY <2>3, <2>4 DEF RowsMove
<1>3. CASE RejectCliAgain(a)
  <2>1. attempts' = attempts /\ \E B, at : batches' = Manualized(batches, B, at)
    BY <1>3 DEF RejectCliAgain
  <2>2. \A c \in Attempt : RowMoves(c, R) BY <2>1, NoRowMoves
  <2>3. \A b \in Batch : BatchMoves(b, D) BY <2>1, NoneDelivered
  <2>. QED BY <2>2, <2>3 DEF RowsMove
<1>. QED BY <1>1, <1>2, <1>3

(* A turn that is observed, or has not been for too long.                  *)
LEMMA ObserveRows ==
  ASSUME TypeOK, MyRows, NEW a \in Attempt, NEW R, NEW D,
         \/ ExpireCli(a)
         \/ \E event \in TurnEvents : /\ event = "turn_completed" => attempts[a].batch \in D
                                      /\ ObserveCli(a, event)
  PROVE  RowsMove(R, D)
<1>0. /\ attempts[a] \in AttemptRecord
      /\ attempts[a].event = "turn_failed" => attempts[a].state = "abandoned"
  BY DEF TypeOK, MyRows
<1>1. CASE ExpireCli(a)
  <2>1. attempts[a].state # "absent" BY <1>1 DEF ExpireCli, IsTracking
  <2>2. PICK at, obs : GiveUp(a, Abandoned(attempts[a], obs), at) BY <1>1, Zenon DEF ExpireCli
  <2>. QED BY <2>1, <2>2, GiveUpRows
<1>2. ASSUME NEW event \in TurnEvents, event = "turn_completed" => attempts[a].batch \in D,
             ObserveCli(a, event)
      PROVE  RowsMove(R, D)
  <2>1. attempts[a].state # "absent" BY <1>2 DEF ObserveCli, MyRows
  <2>2. \/ event = "turn_completed" /\ Deliver(a)
        \/ \E at, obs : GiveUp(a, [Abandoned(attempts[a], obs) EXCEPT !.event = event], at)
        \/ /\ attempts' = [attempts EXCEPT ![a].event = event] /\ batches' = batches
           /\ event # "turn_failed" \/ attempts[a].state = "abandoned"
    BY <1>2, Zenon DEF ObserveCli, ObserveDelayed, ObserveLate, ObserveAfterLoss,
                       ObserveAfterDeadline, ObserveInTime, CompletesDelayed, AwaitsLateEvidence
  <2>3. CASE event = "turn_completed" /\ Deliver(a) BY <1>2, <2>1, <2>3, DeliverRows
  <2>4. CASE \E at, obs : GiveUp(a, [Abandoned(attempts[a], obs) EXCEPT !.event = event], at)
    <3>1. PICK at, obs : GiveUp(a, [Abandoned(attempts[a], obs) EXCEPT !.event = event], at)
      BY <2>4
    <3>. QED BY <2>1, <3>1, GiveUpRows
  <2>5. CASE /\ attempts' = [attempts EXCEPT ![a].event = event] /\ batches' = batches
             /\ event # "turn_failed" \/ attempts[a].state = "abandoned"
    <3>1. RowGoes(a, attempts[a], [attempts[a] EXCEPT !.event = event], R)
      BY <1>0, <2>1, <2>5, RowUpdates
    <3>2. \A c \in Attempt : RowMoves(c, R) BY <2>1, <2>5, <3>1, OneRowMoves
    <3>3. \A b \in Batch : BatchMoves(b, D) BY <2>5, NoneDelivered
    <3>. QED BY <3>2, <3>3 DEF RowsMove
  <2>. QED BY <2>2, <2>3, <2>4, <2>5
<1>. QED BY <1>1, <1>2

(* What the sweep gives up.                                                *)
LEMMA SweepTablesRows ==
  ASSUME TypeOK, MyRows, NEW U, NEW C, NEW P, NEW at,
         \A a \in U : attempts[a].state = "accept_pending" /\ attempts[a].rpc = "pending_acceptance",
         \A a \in C : attempts[a].state = "cooldown",
         \A a \in P : attempts[a].state # "absent" /\ attempts[a].adapter # "cli",
         SweepTables(U, C, P, at), NEW R, NEW D
  PROVE  RowsMove(R, D)
<1>. DEFINE B == {attempts[a].batch : a \in U \union C \union P}
            bs == Manualized(batches, B, at)
            as == AttemptsAfter(U, C, P)
            ss == SessionsAfterLoss(U \union C)
<1>1. PICK M, A :
        /\ \A b \in M \union A :
             \A a \in Attempt : as[a].batch = b => as[a].state \notin ActiveStates
        /\ batches' = Closed(Closed(bs, M, "manual_resolution_expired"), A,
                             "redelivery_window_exhausted")
        /\ attempts' = AttemptsClosedWith(as, M \union A)
        /\ \E F : sessions' = Invalidated(ss, F)
  <2>. DEFINE windows == [b \in Batch |-> bs[b].window_ends_at]
  <2>1. PICK M \in Oldest(ExpiredBatches(as, bs, "manual_resolution_only", at), windows, SweepLimit),
             A \in Oldest(ExpiredBatches(as, bs, "automatic", at), windows, SweepLimit) :
          /\ batches' = Closed(Closed(bs, M, "manual_resolution_expired"), A,
                               "redelivery_window_exhausted")
          /\ attempts' = AttemptsClosedWith(as, M \union A)
          /\ \E F : sessions' = Invalidated(ss, F)
    BY Zenon DEF SweepTables
  <2>. HIDE DEF bs, as, ss, windows
  <2>2. M \subseteq ExpiredBatches(as, bs, "manual_resolution_only", at) BY DEF Oldest
  <2>3. A \subseteq ExpiredBatches(as, bs, "automatic", at) BY DEF Oldest
  <2>4. \A b \in M \union A :
          \A a \in Attempt : as[a].batch = b => as[a].state \notin ActiveStates
    BY <2>2, <2>3 DEF ExpiredBatches
  <2>. QED BY ONLY <2>1, <2>4, Zenon
<1>2. ASSUME NEW a \in Attempt
      PROVE  IF a \in U THEN as[a] = AbandonedUnknown(attempts[a])
             ELSE IF a \in C \union P THEN \E obs : as[a] = Abandoned(attempts[a], obs)
             ELSE as[a] = attempts[a]
  BY DEF AttemptsAfter
<1>3. \A a \in C \cap Attempt : ss[Mine].state \notin Bound
  <2>1. ASSUME NEW a \in C \cap Attempt PROVE ss[Mine].state \notin Bound
    <3>1. a \in U \union C /\ attempts[a].adapter = "cli" /\ attempts[a].session = Mine
      BY DEF MyRows
    <3>. QED BY <3>1, LostSession
  <2>. QED BY <2>1
<1>4. ss \in [Session -> SessionRecord] BY LossAfter
<1>. HIDE DEF as, ss, bs, B
<1>5. ASSUME NEW a \in Attempt PROVE attempts'[a] = as[a]
  <2>. DEFINE G == M \union A
  <2>1. attempts' = AttemptsClosedWith(as, G) /\ (as[a].batch \in G => as[a].state \notin ActiveStates)
    BY <1>1
  <2>. HIDE DEF G
  <2>. QED BY <2>1 DEF AttemptsClosedWith
<1>6. \A a \in C \cap Attempt : sessions'[Mine].state \notin Bound
  <2>1. PICK F : sessions' = Invalidated(ss, F) BY <1>1
  <2>. QED BY <1>3, <1>4, <2>1, StaysLost
<1>7. ASSUME NEW a \in Attempt PROVE RowMoves(a, R)
  <2>1. /\ attempts[a] \in AttemptRecord
        /\ attempts[a].event = "turn_failed" => attempts[a].state = "abandoned"
    BY DEF TypeOK, MyRows
  <2>2. CASE a \in U
    <3>1. attempts'[a] = AbandonedUnknown(attempts[a]) BY <1>2, <1>5, <2>2
    <3>. QED BY <2>1, <2>2, <3>1, RowUpdates DEF RowMoves
  <2>3. CASE a \notin U /\ a \in C
    <3>1. PICK obs : attempts'[a] = Abandoned(attempts[a], obs) BY <1>2, <1>5, <2>3
    <3>2. sessions'[Mine].state \notin Bound BY <1>6, <2>3
    <3>3. attempts[a].state # "absent" BY <2>3
    <3>. QED BY <2>1, <3>1, <3>2, <3>3, RowUpdates DEF RowMoves
  <2>4. CASE a \in P BY <2>4 DEF MyRows
  <2>5. CASE a \notin U \union C \union P
    <3>1. attempts'[a] = attempts[a] BY <1>2, <1>5, <2>5
    <3>. QED BY <2>1, <3>1, RowUpdates DEF RowMoves
  <2>. QED BY <2>2, <2>3, <2>4, <2>5
<1>8. ASSUME NEW b \in Batch PROVE BatchMoves(b, D)
  <2>1. bs[b].close_reason = batches[b].close_reason
    <3>1. batches[b] \in BatchRecord BY DEF TypeOK
    <3>2. \/ bs[b] = batches[b]
          \/ bs[b] = [batches[b] EXCEPT !.policy = "manual_resolution_only",
                        !.window_ends_at = Later(batches[b].window_ends_at, at + ManualWindow)]
      BY DEF Manualized, bs
    <3>. QED BY <3>1, <3>2 DEF BatchRecord
  <2>2. batches'[b].close_reason \in {bs[b].close_reason, "manual_resolution_expired",
                                      "redelivery_window_exhausted"}
    <3>. DEFINE cs == Closed(bs, M, "manual_resolution_expired")
    <3>1. "close_reason" \in DOMAIN bs[b]
      <4>1. batches[b] \in BatchRecord BY DEF TypeOK
      <4>. QED BY <4>1 DEF Manualized, BatchRecord, bs
    <3>2. cs[b] = IF b \in M THEN [bs[b] EXCEPT !.state = "closed",
                                     !.close_reason = "manual_resolution_expired"] ELSE bs[b]
      BY DEF Closed
    <3>3. batches'[b] = IF b \in A THEN [cs[b] EXCEPT !.state = "closed",
                                     !.close_reason = "redelivery_window_exhausted"] ELSE cs[b]
      BY <1>1 DEF Closed
    <3>. HIDE DEF cs
    <3>4. /\ cs[b].close_reason \in {bs[b].close_reason, "manual_resolution_expired"}
          /\ "close_reason" \in DOMAIN cs[b]
      BY <3>1, <3>2
    <3>. QED BY <3>3, <3>4
  <2>. QED BY <2>1, <2>2 DEF BatchMoves
<1>. QED BY <1>7, <1>8 DEF RowsMove

(* The attempts a call may refuse, and the batches it may deliver.         *)
Refuses(call) == IF call.kind = "reject" THEN {call.attempt} ELSE {}

Delivers(call) ==
  IF /\ call.kind = "observe" /\ call.event = "turn_completed"
     /\ attempts[call.attempt].state # "absent"
  THEN {attempts[call.attempt].batch} ELSE {}

(* A call refuses and delivers no others.                                  *)
LEMMA ExecutesRows ==
  ASSUME Typed, MyRows, NEW call \in Calls, Executes(call)
  PROVE  RowsMove(Refuses(call), Delivers(call))
<1>. DEFINE R == Refuses(call)
            D == Delivers(call)
<1>0. TypeOK BY DEF Typed, SidecarTypeOK
<1>1. CASE UNCHANGED <<batches, attempts>>
  <2>1. attempts' = attempts /\ batches' = batches BY <1>1
  <2>. QED BY <1>0, <2>1, NoRowMoves, NoneDelivered DEF RowsMove
<1>2. CASE call.kind \in {"activity", "capabilities"}
  <2>1. UNCHANGED <<batches, attempts>>
    BY <1>2, Zenon DEF Executes, NotesActivity, NotesCapabilities, storeVars, vars, NoteActivity,
                       NoteCapabilities
  <2>. QED BY <1>1, <2>1
<1>3. storeVars' = storeVars => UNCHANGED <<batches, attempts>> BY DEF storeVars, vars
<1>4. CASE call.kind = "invalidate"
  <2>1. storeVars' = storeVars \/ InvalidateProof(Mine) BY <1>4 DEF Executes, Invalidates
  <2>2. CASE InvalidateProof(Mine)
    <3>1. PICK at \in Recent : LoseObservations(Mine, at) BY <2>2 DEF InvalidateProof
    <3>2. sessions[Mine].state # "absent" BY <2>2 DEF InvalidateProof, IsAttachable
    <3>3. sessions' = Invalidated(ParkedIfObserving(Mine), {<<Mine, sessions[Mine].epoch>>})
      BY <2>2 DEF InvalidateProof
    <3>4. ObservedUnder(Mine) # {} => \A e \in Nat : Past(sessions', Mine, e)
      BY <1>0, <3>2, <3>3, TakenBack, SidecarAssumption
    <3>5. sessions' \in [Session -> SessionRecord] BY <1>0, <3>2, <3>3, TakenBack, SidecarAssumption
    <3>6. ObservedUnder(Mine) # {} => sessions'[Mine].state \notin Bound
      <4>1. sessions'[Mine].epoch \in Nat BY <3>5, SidecarAssumption DEF SessionRecord
      <4>. QED BY <3>4, <4>1 DEF Past, Bound
    <3>. QED BY <1>0, <3>1, <3>6, LoseRows
  <2>. QED BY <1>1, <1>3, <2>1, <2>2
<1>5. CASE call.kind = "begin"
  <2>1. call.attempt \in Attempt BY <1>5, CallFields
  <2>2. storeVars' = storeVars \/ BeginCli(call.attempt, call.batch, Mine, "trusted_all")
    BY <1>5 DEF Executes, BeginsAttempt
  <2>. QED BY <1>0, <1>1, <1>3, <2>1, <2>2, BeginRows
<1>6. CASE call.kind = "reject"
  <2>1. call.attempt \in Attempt /\ call.manual \in BOOLEAN /\ call.attempt \in R
    BY <1>6, CallFields DEF Refuses
  <2>2. storeVars' = storeVars \/ RejectCli(call.attempt, call.manual) \/ RejectCliAgain(call.attempt)
    BY <1>6 DEF Executes, RejectsAttempt
  <2>. HIDE DEF R, D
  <2>3. CASE storeVars' = storeVars BY <1>1, <1>3, <2>3 DEF R, D
  <2>4. CASE RejectCli(call.attempt, call.manual) \/ RejectCliAgain(call.attempt)
    <3>1. RowsMove(R, D) BY <1>0, <2>1, <2>4, AnswerRows
    <3>. QED BY <3>1 DEF R, D
  <2>. QED BY <2>2, <2>3, <2>4
<1>7. CASE call.kind = "accept"
  <2>1. call.attempt \in Attempt BY <1>7, CallFields
  <2>2. storeVars' = storeVars \/ AcceptCli(call.attempt) BY <1>7 DEF Executes, AcceptsAttempt
  <2>. QED BY <1>0, <1>1, <1>3, <2>1, <2>2, AnswerRows
<1>8. CASE call.kind = "observe"
  <2>1. call.attempt \in Attempt /\ call.event \in TurnEvents BY <1>8, CallFields
  <2>2. storeVars' = storeVars \/ ObserveCli(call.attempt, call.event)
    BY <1>8 DEF Executes, ObservesTurn
  <2>3. ObserveCli(call.attempt, call.event) /\ call.event = "turn_completed" =>
          attempts[call.attempt].batch \in D
    BY <1>8, <2>1 DEF ObserveCli, MyRows, Delivers
  <2>. HIDE DEF R, D
  <2>4. CASE storeVars' = storeVars BY <1>1, <1>3, <2>4 DEF R, D
  <2>5. CASE ObserveCli(call.attempt, call.event)
    <3>1. RowsMove(R, D) BY <1>0, <2>1, <2>3, <2>5, ObserveRows
    <3>. QED BY <3>1 DEF R, D
  <2>. QED BY <2>2, <2>4, <2>5
<1>9. CASE call.kind = "expire"
  <2>1. call.attempt \in Attempt BY <1>9, CallFields
  <2>2. storeVars' = storeVars \/ ExpireCli(call.attempt) BY <1>9 DEF Executes, ExpiresObservation
  <2>. QED BY <1>0, <1>1, <1>3, <2>1, <2>2, ObserveRows
<1>. QED BY <1>2, <1>4, <1>5, <1>6, <1>7, <1>8, <1>9, Zenon DEF Executes

(* The daemon, the sweep and the clock refuse and deliver nothing.         *)
LEMMA MaintenanceRows ==
  ASSUME Typed, MyRows,
         \/ InvalidateCurrentProof(Mine)
         \/ \E required \in Requirements : Reattach(Mine, required)
         \/ Sweep \/ Tick
  PROVE  RowsMove({}, {})
<1>0. TypeOK BY DEF Typed, SidecarTypeOK
<1>1. CASE InvalidateCurrentProof(Mine)
  <2>. DEFINE ss == Invalidated(ParkedIfObserving(Mine), {<<Mine, sessions[Mine].epoch>>})
  <2>1. PICK at \in Recent : LoseObservations(Mine, at) BY <1>1 DEF InvalidateCurrentProof
  <2>2. sessions[Mine].state # "absent" BY <1>1 DEF InvalidateCurrentProof, IsAttachable
  <2>3. sessions' = [ss EXCEPT ![Mine] = Detached(ss[Mine])] BY <1>1 DEF InvalidateCurrentProof
  <2>4. /\ ObservedUnder(Mine) # {} => \A e \in Nat : Past(ss, Mine, e)
        /\ ss \in [Session -> SessionRecord]
    BY <1>0, <2>2, TakenBack, SidecarAssumption
  <2>. HIDE DEF ss
  <2>5. ss[Mine].epoch \in Nat BY <2>4, SidecarAssumption DEF SessionRecord
  <2>6. ObservedUnder(Mine) # {} => ss[Mine].state \notin Bound BY <2>4, <2>5 DEF Past, Bound
  <2>7. sessions'[Mine] = Detached(ss[Mine]) BY <2>3, <2>4, SidecarAssumption
  <2>8. ObservedUnder(Mine) # {} => sessions'[Mine].state \notin Bound
    BY <2>6, <2>7 DEF Detached, Bound
  <2>. QED BY <1>0, <2>1, <2>8, LoseRows
<1>2. CASE \E required \in Requirements : Reattach(Mine, required)
  <2>1. NoRecoveryBlockers(Mine) /\ \E at \in Recent : LoseObservations(Mine, at)
    BY <1>2 DEF Reattach
  <2>2. \A a \in ObservedUnder(Mine) : attempts[a].state = "abandoned"
    BY <2>1 DEF NoRecoveryBlockers, ObservedUnder, Active, ActiveStates
  <2>. QED BY <1>0, <2>1, <2>2, LoseRows
<1>3. CASE Sweep
  <2>0. ASSUME NEW adapter, NEW timeout, NEW at, NEW U \in StaleToSweep(adapter, timeout, at)
        PROVE  \A a \in U : /\ attempts[a].state = "accept_pending" /\ attempts[a].adapter = adapter
                             /\ attempts[a].rpc = "pending_acceptance" /\ a \in Attempt
    <3>1. U \subseteq StaleAcceptances(adapter, timeout, at) BY DEF StaleToSweep, Oldest
    <3>. QED BY <3>1 DEF StaleAcceptances, IsAcceptPending
  <2>1. ASSUME NEW adapter, NEW at, NEW P \in DueToSweep(adapter, at)
        PROVE  \A a \in P : attempts[a].state = "cooldown" /\ attempts[a].adapter = adapter
    <3>1. P \subseteq DueObservations(adapter, at) BY DEF DueToSweep, Oldest
    <3>. QED BY <3>1 DEF DueObservations
  <2>2. PICK at \in Recent :
               \E U1 \in StaleToSweep("cli", AcceptTimeout, at),
                  C \in DueToSweep("cli", at),
                  U2 \in StaleToSweep("codex_app_server", AppServerAcceptTimeout, at),
                  P \in DueToSweep("codex_app_server", at) :
                 SweepTables(U1 \union U2, C, P, at)
    BY <1>3 DEF Sweep
  <2>3. PICK U1 \in StaleToSweep("cli", AcceptTimeout, at),
             C \in DueToSweep("cli", at),
             U2 \in StaleToSweep("codex_app_server", AppServerAcceptTimeout, at),
             P \in DueToSweep("codex_app_server", at) :
                 SweepTables(U1 \union U2, C, P, at)
    BY <2>2
  <2>. DEFINE U == U1 \union U2
  <2>4. /\ \A a \in U : attempts[a].state = "accept_pending" /\ attempts[a].rpc = "pending_acceptance"
        /\ \A a \in C : attempts[a].state = "cooldown"
        /\ \A a \in P : attempts[a].state # "absent" /\ attempts[a].adapter # "cli"
        /\ SweepTables(U, C, P, at)
    BY <2>0, <2>1, <2>3
  <2>. HIDE DEF U
  <2>. QED BY <1>0, <2>4, SweepTablesRows
<1>4. CASE Tick
  <2>1. attempts' = attempts /\ batches' = batches BY <1>4 DEF Tick
  <2>. QED BY <1>0, <2>1, NoRowMoves, NoneDelivered DEF RowsMove
<1>. QED BY <1>1, <1>2, <1>3, <1>4

-----------------------------------------------------------------------------
(***************************************************************************)
(* What a step of the sidecar, or around it, makes of the store.           *)
(***************************************************************************)

(* Only a call that is answered, or executed late, gives proof.            *)
LEMMA SessionStep ==
  ASSUME Typed, SidecarNext
  PROVE  \/ Holds \/ Clears
         \/ Answered /\ Carries(Call)
         \/ \E call \in late : RunsLate(call) /\ Carries(call)
<1>1. late \subseteq Calls BY DEF Typed, SidecarTypeOK
<1>2. CASE UNCHANGED storeVars BY <1>2 DEF storeVars, vars, Holds, Same
<1>3. CASE Answered
  <2>1. Call \in Calls /\ Executes(Call) BY <1>3, CallType DEF Answered, Typed
  <2>. QED BY <1>3, <2>1, ExecutesSession
<1>4. CASE \E call \in late : RunsLate(call)
  <2>1. PICK call \in late : RunsLate(call) BY <1>4
  <2>2. call \in Calls /\ Executes(call) BY <1>1, <2>1 DEF RunsLate
  <2>. QED BY <2>1, <2>2, ExecutesSession
<1>5. CASE RecordsStart
  <2>1. Started \in Calls /\ Executes(Started) BY <1>5, StartedType DEF RecordsStart, Typed
  <2>2. ~Carries(Started) BY DEF Started, Carries
  <2>. QED BY <2>1, <2>2, ExecutesSession
<1>6. CASE DaemonDrops BY <1>6, MaintenanceSession DEF DaemonDrops
<1>7. CASE StartsAgain BY <1>7, MaintenanceSession DEF StartsAgain
<1>8. CASE Maintains BY <1>8, MaintenanceSession DEF Maintains
<1>. QED BY <1>2, <1>3, <1>4, <1>5, <1>6, <1>7, <1>8, StoreOrNot

(* Only such a call refuses an attempt or delivers a batch.                *)
LEMMA RowsStep ==
  ASSUME Typed, MyRows, SidecarNext
  PROVE  \/ RowsMove({}, {})
         \/ Answered /\ RowsMove(Refuses(Call), Delivers(Call))
         \/ \E call \in late : RunsLate(call) /\ RowsMove(Refuses(call), Delivers(call))
<1>1. late \subseteq Calls /\ TypeOK BY DEF Typed, SidecarTypeOK
<1>2. CASE UNCHANGED storeVars
  <2>1. attempts' = attempts /\ batches' = batches BY <1>2 DEF storeVars, vars
  <2>. QED BY <1>1, <2>1, NoRowMoves, NoneDelivered DEF RowsMove
<1>3. CASE Answered
  <2>1. Call \in Calls /\ Executes(Call) BY <1>3, CallType DEF Answered, Typed
  <2>. QED BY <1>3, <2>1, ExecutesRows
<1>4. CASE \E call \in late : RunsLate(call)
  <2>1. PICK call \in late : RunsLate(call) BY <1>4
  <2>2. call \in Calls /\ Executes(call) BY <1>1, <2>1 DEF RunsLate
  <2>. QED BY <2>1, <2>2, ExecutesRows
<1>5. CASE RecordsStart
  <2>1. Started \in Calls /\ Executes(Started) BY <1>5, StartedType DEF RecordsStart, Typed
  <2>2. Refuses(Started) = {} /\ Delivers(Started) = {} BY DEF Started, Refuses, Delivers
  <2>3. RowsMove(Refuses(Started), Delivers(Started)) BY <2>1, ExecutesRows
  <2>. QED BY <2>2, <2>3
<1>6. CASE DaemonDrops BY <1>6, MaintenanceRows DEF DaemonDrops
<1>7. CASE StartsAgain BY <1>7, MaintenanceRows DEF StartsAgain
<1>8. CASE Maintains BY <1>8, MaintenanceRows DEF Maintains
<1>. QED BY <1>2, <1>3, <1>4, <1>5, <1>6, <1>7, <1>8, StoreOrNot

(* A session that takes no proof never does again.                         *)
LEMMA SessionsStay ==
  ASSUME Typed, SidecarNext, sessions[Mine].state \notin Bound
  PROVE  sessions'[Mine].state \notin Bound
BY SessionStep DEF Holds, Same, Clears, Gone, Carries, IsAttachable, Bound

(* What holds of a row and a batch after any step.                         *)
LEMMA SomeRowsStep ==
  ASSUME Typed, MyRows, SidecarNext
  PROVE  /\ \A a \in Attempt : \E R : RowMoves(a, R)
         /\ \A b \in Batch : \E D : BatchMoves(b, D)
<1>1. PICK R, D : RowsMove(R, D) BY RowsStep, Zenon
<1>. QED BY <1>1, Zenon DEF RowsMove

(* The rows say the same after each step.                                  *)
LEMMA MyRowsStep == ASSUME Typed, MyRows, SidecarNext PROVE MyRows'
<1>. SUFFICES ASSUME NEW a \in Attempt
              PROVE  /\ attempts'[a].state = "absent" => attempts'[a].rpc = "none"
                     /\ attempts'[a].state # "absent" =>
                          attempts'[a].adapter = "cli" /\ attempts'[a].session = Mine
                     /\ attempts'[a].rpc = "accepted" /\ attempts'[a].state = "abandoned" =>
                          sessions'[Mine].state \notin Bound
                     /\ attempts'[a].event = "turn_failed" => attempts'[a].state = "abandoned"
  BY DEF MyRows
<1>1. PICK R : RowMoves(a, R) BY SomeRowsStep, Zenon
<1>2. CASE attempts[a].state = "absent" /\ attempts'[a] = attempts[a]
  BY <1>2, SessionsStay DEF MyRows
<1>3. CASE Begun(attempts'[a]) BY <1>3 DEF Begun
<1>4. CASE attempts[a].state # "absent"
  <2>1. RowGoes(a, attempts[a], attempts'[a], R) BY <1>1, <1>4 DEF RowMoves
  <2>. QED BY <1>4, <2>1, SessionsStay DEF MyRows, RowGoes
<1>. QED BY <1>1, <1>2, <1>3, <1>4 DEF RowMoves

(* An attempt that is recorded stays so, with its batch.                   *)
LEMMA RecordedStays ==
  ASSUME Typed, MyRows, SidecarNext, NEW a \in Attempt, attempts[a].state # "absent"
  PROVE  /\ attempts'[a].state # "absent" /\ attempts'[a].batch = attempts[a].batch
         /\ attempts[a].rpc = "accepted" => attempts'[a].rpc = "accepted"
<1>1. PICK R : RowMoves(a, R) BY SomeRowsStep, Zenon
<1>. QED BY <1>1 DEF RowMoves, RowGoes

-----------------------------------------------------------------------------
(***************************************************************************)
(* How a delivery goes on.                                                 *)
(***************************************************************************)

Within(from, to) == car.at \in from /\ car'.at \in to /\ car'.attempt = car.attempt

(* The sidecar has heard, or read, that its turn completed.                *)
Heard ==
  \/ turns[car.attempt] = "completed"
  \/ \E i \in 1 .. Len(wire.msgs) : /\ wire.msgs[i].kind = "completed"
                                    /\ wire.msgs[i].turn = car.attempt

DeliveryMoves ==
  \/ car'.at = car.at /\ car'.attempt = car.attempt /\ car'.event = car.event
  \/ /\ Polls /\ car'.at = "beginning"
     /\ turns[car'.attempt] = "unused" /\ turns'[car'.attempt] = "drawn"
  \/ Answered /\ Within({"beginning"}, {"sending"})
  \/ Answered /\ Within({"accepting"}, {"observing"})
  \/ Within({"beginning", "sending"}, {"cancelling"})
  \/ Sends /\ Within({"sending"}, {"sent"})
  \/ Within({"sent"}, {"accepting"}) /\ turns[car.attempt] \in Ran
  \/ Within({"sent"}, {"refusing", "parking"}) /\ turns[car.attempt] = "refused"
  \/ Within({"observing"}, {"reporting"}) /\ (car'.event = "turn_completed" => Heard)
  \/ Within({"observing"}, {"expiring"})

(* What fails is not within a delivery any longer.                         *)
LEMMA FailsRests ==
  ASSUME NEW c \in CarRecord, NEW next \in Nexts, car' = Drop(c, next)
  PROVE  car'.at \notin Delivering
BY DropFacts DEF Delivering

(* Each step within a delivery is one of these.                            *)
LEMMA DeliveryStep ==
  ASSUME Typed, SidecarNext, car'.at \in Delivering, sessions'[Mine].epoch \in Nat
  PROVE  DeliveryMoves
<1>0. Placed(car) /\ car \in CarRecord BY DEF Typed, Placed
<1>00. Observed \in Activities BY DEF Observed, Activities
<1>01. ASSUME NEW c \in CarRecord, Fails(c) PROVE FALSE
  BY <1>01, FailsRests DEF Fails, Nexts
<1>02. Stopped(car).at \notin Delivering BY <1>0, StoppedFacts DEF Delivering
<1>1. CASE UNCHANGED car BY <1>1 DEF DeliveryMoves
<1>2. CASE Answered
  <2>. DEFINE d == AfterAnswer(car)
  <2>1. car' = d /\ car.at \in Calling BY <1>2 DEF Answered
  <2>2. CASE car.at = "beginning"
    <3>1. d.at = "sending" /\ d.attempt = car.attempt BY <1>0, <2>1, <2>2, AfterAnswerFacts
    <3>. QED BY <1>2, <2>1, <2>2, <3>1 DEF DeliveryMoves, Within
  <2>3. CASE car.at = "accepting"
    <3>1. d.at = "observing" /\ d.attempt = car.attempt BY <1>0, <2>1, <2>3, AfterAnswerFacts
    <3>. QED BY <1>2, <2>1, <2>3, <3>1 DEF DeliveryMoves, Within
  <2>4. CASE car.at = "dropping"
    <3>1. d.at \in {"connecting", "rereading", "listening", "over"}
      BY <1>0, <2>1, <2>4, AfterAnswerFacts DEF Placed, Nexts
    <3>. QED BY <2>1, <3>1 DEF Delivering
  <2>5. CASE car.at \in {"proving", "noting"}
    <3>1. d.at \in {"noting", "listening"} BY <1>0, <2>1, <2>5, AfterAnswerFacts
    <3>. QED BY <2>1, <3>1 DEF Delivering
  <2>6. CASE car.at = "cancelling"
    <3>1. d.at = car.next BY <1>0, <2>1, <2>6, AfterAnswerFacts
    <3>2. d.at \in {"connecting", "listening"} BY <1>0, <2>6, <3>1 DEF Placed
    <3>. QED BY <2>1, <3>2 DEF Delivering
  <2>7. CASE car.at \in {"refusing", "parking", "expiring", "reporting"}
    <3>1. d = Stopped(car) \/ d = Drop(car, "rereading")
      BY <1>0, <2>1, <2>7, AfterAnswerFacts
    <3>. QED BY <1>0, <1>02, <2>1, <3>1, FailsRests DEF Nexts
  <2>. QED BY <2>1, <2>2, <2>3, <2>4, <2>5, <2>6, <2>7 DEF Calling
<1>3. CASE GivesUp
  <2>1. CASE car.at = "beginning" /\ car' = [car EXCEPT !.at = "cancelling", !.next = "listening"]
    <3>1. car'.at = "cancelling" /\ car'.attempt = car.attempt
      BY <1>0, <2>1, CancellingFacts DEF Delivering
    <3>. QED BY <2>1, <3>1 DEF DeliveryMoves, Within
  <2>2. CASE car.at = "cancelling" /\ car' = Cancelled(car)
    <3>1. car'.at \in {"connecting", "listening"} BY <1>0, <2>2, CancelledFacts DEF Placed
    <3>. QED BY <3>1 DEF Delivering
  <2>3. CASE car.at = "dropping" /\ car.next \in {"connecting", "over"} /\ car' = Proceed(car, car.next)
    <3>1. car'.at \in {"connecting", "over"} BY <1>0, <2>3, ProceedFacts DEF Nexts
    <3>. QED BY <3>1 DEF Delivering
  <2>4. CASE Fails(IF car.at \in {"proving", "noting"} THEN [car EXCEPT !.durable = TRUE] ELSE car)
    BY <1>0, <1>01, <2>4, DurableFacts
  <2>. QED BY <1>3, <2>1, <2>2, <2>3, <2>4 DEF GivesUp
<1>4. CASE Connects
  <2>. DEFINE c == [car EXCEPT !.activity = "none"]
  <2>1. c \in CarRecord BY <1>0, UnseenFacts
  <2>2. car' \in {Prove(c, Observed), Drop(c, "listening")} \/ Fails(c) BY <1>4 DEF Connects
  <2>. HIDE DEF c
  <2>3. Prove(c, Observed).at \notin Delivering BY <1>00, <2>1, ProveFacts DEF Delivering
  <2>4. car' = Drop(c, "listening") => car'.at \notin Delivering BY <2>1, FailsRests DEF Nexts
  <2>. QED BY <1>01, <2>1, <2>2, <2>3, <2>4
<1>5. CASE Rereads
  <2>1. Prove(car, Observed).at \notin Delivering BY <1>0, <1>00, ProveFacts DEF Delivering
  <2>. QED BY <1>0, <1>01, <1>5, <2>1 DEF Rereads
<1>6. CASE Listens
  <2>1. \/ car' = NoteSeen(car, "active") \/ car' = NoteSeen(car, "idle") \/ car' = car
        \/ car' = Drop(car, "listening")
    <3>. DEFINE n == Head(wire.msgs)
    <3>1. n \in Notes BY <1>6 DEF Listens, Typed
    <3>2. n.kind \in Ended \cup {"started", "invalidated"} BY <3>1 DEF Notes
    <3>. QED BY <1>6, <3>2 DEF Listens, Ended
  <2>2. car.at = "listening" BY <1>6 DEF Listens
  <2>3. ASSUME NEW activity \in Activities, car' = NoteSeen(car, activity)
        PROVE  car'.at \notin Delivering
    BY <1>0, <2>2, <2>3, NoteSeenFacts DEF Delivering
  <2>4. car' = Drop(car, "listening") => car'.at \notin Delivering BY <1>0, FailsRests DEF Nexts
  <2>5. car'.at \notin Delivering BY <2>1, <2>2, <2>3, <2>4 DEF Activities, Delivering
  <2>. QED BY <2>5
<1>7. CASE LosesConnection \/ Leaves
  <2>1. \E next \in Nexts : car' = Drop(car, next)
    BY <1>7 DEF LosesConnection, Leaves, Nexts
  <2>. QED BY <1>0, <2>1, FailsRests
<1>8. CASE Polls
  <2>1. PICK b \in Batch, a \in Attempt :
          /\ turns[a] = "unused" /\ turns' = [turns EXCEPT ![a] = "drawn"]
          /\ car' = [car EXCEPT !.at = "beginning", !.attempt = a, !.batch = b]
    BY <1>8, Zenon DEF Polls
  <2>2. car'.at = "beginning" /\ car'.attempt = a
    <3>1. car' = [car EXCEPT !.at = "beginning", !.attempt = a, !.batch = b] BY <2>1
    <3>. QED BY <1>0, <3>1 DEF CarRecord
  <2>3. turns'[a] = "drawn" BY <2>1 DEF Typed, SidecarTypeOK
  <2>. QED BY <1>8, <2>1, <2>2, <2>3 DEF DeliveryMoves
<1>9. CASE Sends
  <2>1. car.at = "sending" /\ car.at \in Delivering BY <1>9 DEF Sends, Delivering
  <2>2. CASE car' = [car EXCEPT !.at = "sent"]
    <3>1. car'.at = "sent" /\ car'.attempt = car.attempt
      BY <1>0, <2>1, <2>2, MovedFacts DEF Delivering
    <3>. QED BY <1>9, <2>1, <3>1 DEF DeliveryMoves, Within
  <2>3. ASSUME NEW next \in {"connecting", "listening"},
               car' = [car EXCEPT !.at = "cancelling", !.next = next]
        PROVE  DeliveryMoves
    <3>1. car'.at = "cancelling" /\ car'.attempt = car.attempt
      BY <1>0, <2>1, <2>3, CancellingFacts
    <3>. QED BY <2>1, <3>1 DEF DeliveryMoves, Within
  <2>. QED BY <1>9, <2>2, <2>3 DEF Sends
<1>10. CASE HearsOfTurn
  <2>1. car.at = "sent" /\ car.at \in Delivering BY <1>10 DEF HearsOfTurn, Delivering
  <2>2. ASSUME NEW at \in {"accepting", "refusing", "parking"}, car' = [car EXCEPT !.at = at]
        PROVE  car'.at = at /\ car'.attempt = car.attempt
    BY <1>0, <2>1, <2>2, MovedFacts DEF Delivering
  <2>3. CASE turns[car.attempt] \in Ran /\ car' = [car EXCEPT !.at = "accepting"]
    BY <2>1, <2>2, <2>3 DEF DeliveryMoves, Within
  <2>4. CASE /\ turns[car.attempt] = "refused"
             /\ \E at \in {"refusing", "parking"} : car' = [car EXCEPT !.at = at]
    BY <2>1, <2>2, <2>4 DEF DeliveryMoves, Within
  <2>. QED BY <1>0, <1>01, <1>10, <2>3, <2>4 DEF HearsOfTurn, AfterSending
<1>11. CASE ObservesMessage
  <2>. DEFINE n == Head(wire.msgs)
  <2>1. CASE car' = car BY <1>1, <2>1
  <2>2. CASE car' # car
    <3>1. /\ car.at = "observing" /\ wire.msgs # <<>>
          /\ n.kind \in Ended /\ n.turn = car.attempt /\ car' = Reports(n.kind)
      BY <1>11, <2>2 DEF ObservesMessage, EndsOwnTurn
    <3>2. n = wire.msgs[1] /\ 1 \in 1 .. Len(wire.msgs) BY <3>1 DEF Typed
    <3>. HIDE DEF n
    <3>3. /\ car'.at = "reporting" /\ car'.attempt = car.attempt
          /\ car'.event = "turn_completed" => n.kind = "completed"
      BY <1>0, <3>1, ReportsFacts
    <3>. QED BY <3>1, <3>2, <3>3 DEF DeliveryMoves, Within, Heard
  <2>. QED BY <2>1, <2>2
<1>12. CASE Reconciles
  <2>1. CASE /\ car.at = "observing" /\ turns[car.attempt] \in Ended
             /\ car' = Reports(turns[car.attempt])
    <3>1. /\ car'.at = "reporting" /\ car'.attempt = car.attempt
          /\ car'.event = "turn_completed" => turns[car.attempt] = "completed"
      BY <1>0, <2>1, ReportsFacts
    <3>. QED BY <2>1, <3>1 DEF DeliveryMoves, Within, Heard
  <2>. QED BY <1>0, <1>01, <1>12, <2>1 DEF Reconciles
<1>13. CASE ReachesDeadline
  <2>1. car.at = "observing" /\ car' = [car EXCEPT !.at = "expiring"]
    BY <1>13 DEF ReachesDeadline
  <2>2. car'.at = "expiring" /\ car'.attempt = car.attempt
    BY <1>0, <2>1, MovedFacts DEF Delivering
  <2>. QED BY <2>1, <2>2 DEF DeliveryMoves, Within
<1>14. CASE ForegroundExits BY <1>0, <1>14, ExitedFacts DEF ForegroundExits, DeliveryMoves
<1>15. CASE Killed
  <2>1. car'.at = "over" BY <1>15, KilledFacts DEF Killed
  <2>. QED BY <2>1 DEF Delivering
<1>16. CASE StartsAgain
  <2>1. car'.at = "connecting" BY <1>16 DEF StartsAgain, FreshCar
  <2>. QED BY <2>1 DEF Delivering
<1>17. TimesOut \/ LateRuns \/ LateLost \/ UserStarts \/ UserEnds \/ LosesTrack \/ ServerStops
       \/ DaemonDrops \/ Maintains \/ (\E a \in Attempt : AnswersRequest(a) \/ EndsTurn(a))
       => UNCHANGED car
  BY Zenon DEF TimesOut, LateRuns, LateLost, UserStarts, UserEnds, LosesTrack, ServerStops,
               DaemonDrops, Maintains, AnswersRequest, EndsTurn
<1>. QED BY <1>1, <1>2, <1>3, <1>4, <1>5, <1>6, <1>7, <1>8, <1>9, <1>10, <1>11, <1>12, <1>13,
            <1>14, <1>15, <1>16, <1>17, Zenon DEF SidecarNext, SidecarStep

-----------------------------------------------------------------------------
(***************************************************************************)
(* The turn that is followed is one that was accepted.                     *)
(***************************************************************************)

FollowInv ==
  car.at \in {"observing", "reporting", "expiring"} => attempts[car.attempt].rpc = "accepted"

(* An attempt that is observed has been accepted, also after each step.    *)
LEMMA FollowStep ==
  ASSUME Typed, MyRows, FollowInv, SidecarNext, sessions'[Mine].epoch \in Nat
  PROVE  FollowInv'
<1>. SUFFICES ASSUME car'.at \in {"observing", "reporting", "expiring"}
              PROVE  attempts'[car'.attempt].rpc = "accepted"
  BY DEF FollowInv
<1>1. DeliveryMoves BY DeliveryStep DEF Delivering
<1>2. CASE car.at \in {"observing", "reporting", "expiring"} /\ car'.attempt = car.attempt
  <2>1. car.attempt \in Attempt BY <1>2 DEF Typed, Placed, Delivering
  <2>2. attempts[car.attempt].rpc = "accepted" BY <1>2 DEF FollowInv
  <2>3. attempts[car.attempt].state # "absent" BY <2>1, <2>2 DEF MyRows
  <2>. QED BY <1>2, <2>1, <2>2, <2>3, RecordedStays
<1>3. CASE Answered /\ Within({"accepting"}, {"observing"})
  <2>1. /\ car.attempt \in Attempt /\ car'.attempt = car.attempt /\ car.at = "accepting"
    BY <1>3 DEF Typed, Placed, Delivering, Within
  <2>2. Call = [kind |-> "accept", attempt |-> car.attempt] BY <2>1 DEF Call
  <2>3. AcceptsAttempt(Call) /\ Call.attempt = car.attempt
    BY <1>3, <2>2 DEF Answered, Executes
  <2>4. CASE AcceptCli(car.attempt)
    <3>1. PICK at : attempts' = [attempts EXCEPT ![car.attempt] =
                      [attempts[car.attempt] EXCEPT !.state = "cooldown", !.rpc = "accepted",
                          !.obs = "tracking", !.deadline = at + ObservationWindow]]
      BY <2>4, Zenon DEF AcceptCli
    <3>2. attempts \in [Attempt -> AttemptRecord] BY DEF Typed, SidecarTypeOK, TypeOK
    <3>. QED BY <2>1, <3>1, <3>2 DEF AttemptRecord
  <2>5. CASE IsTracking(car.attempt, "cli") /\ UNCHANGED storeVars
    <3>1. attempts' = attempts BY <2>5 DEF storeVars, vars
    <3>. QED BY <2>1, <2>5, <3>1 DEF IsTracking
  <2>. QED BY <2>3, <2>4, <2>5 DEF AcceptsAttempt
<1>. QED BY <1>1, <1>2, <1>3 DEF DeliveryMoves, Within

-----------------------------------------------------------------------------
(***************************************************************************)
(* What became of the turns: one is only requested once its attempt is     *)
(* recorded, and is only refused where it never was, or the app-server has *)
(* refused it.                                                             *)
(***************************************************************************)

NeverSent(a) ==
  \/ turns[a] = "refused"
  \/ turns[a] = "drawn" /\ ~(car.at \in {"beginning", "sending"} /\ car.attempt = a)

TurnInv ==
  /\ car.at \in {"beginning", "sending"} => turns[car.attempt] = "drawn"
  /\ car.at \in {"cancelling", "refusing", "parking"} => turns[car.attempt] \in {"drawn", "refused"}
  /\ car.at = "sending" => attempts[car.attempt].state # "absent"
  /\ \A a \in Attempt : turns[a] \in Ran \cup {"requested", "refused"} =>
       attempts[a].state # "absent"
  /\ \A a \in Attempt : attempts[a].rpc = "rejected_before_accept" => NeverSent(a)
  /\ \A call \in late : call.kind = "reject" => NeverSent(call.attempt)

(* A turn that was refused, or that has completed, stays so, and one that  *)
(* is drawn is sent or stays so.                                           *)
LEMMA TurnStays ==
  ASSUME Typed, TurnInv, SidecarNext, NEW a \in Attempt
  PROVE  /\ turns[a] = "refused" => turns'[a] = "refused"
         /\ turns[a] = "completed" => turns'[a] = "completed"
         /\ turns[a] = "drawn" => \/ turns'[a] = "drawn"
                                  \/ car.at = "sending" /\ car.attempt = a /\ car'.at = "sent"
<1>1. TurnMoves(a) BY TurnsStep
<1>2. CASE Sends /\ car.attempt = a /\ car'.at = "sent"
  <2>1. car.at = "sending" BY <1>2 DEF Sends
  <2>. QED BY <1>2, <2>1 DEF TurnInv
<1>. QED BY <1>1, <1>2 DEF TurnMoves

(* What was never sent never is.                                           *)
LEMMA NeverSentStays ==
  ASSUME Typed, TurnInv, SidecarNext, sessions'[Mine].epoch \in Nat,
         NEW a \in Attempt, NeverSent(a)
  PROVE  NeverSent(a)'
<1>1. CASE turns[a] = "refused" BY <1>1, TurnStays DEF NeverSent
<1>2. CASE turns[a] = "drawn" /\ ~(car.at \in {"beginning", "sending"} /\ car.attempt = a)
  <2>1. turns'[a] = "drawn" BY <1>2, TurnStays
  <2>2. ~(car'.at \in {"beginning", "sending"} /\ car'.attempt = a)
    <3>1. SUFFICES ASSUME car'.at \in {"beginning", "sending"}, car'.attempt = a PROVE FALSE
      OBVIOUS
    <3>2. DeliveryMoves BY <3>1, DeliveryStep DEF Delivering
    <3>. QED BY <1>2, <3>1, <3>2 DEF DeliveryMoves, Within
  <2>. QED BY <2>1, <2>2 DEF NeverSent
<1>. QED BY <1>1, <1>2 DEF NeverSent

(* The attempts that a call refuses were never sent.                       *)
LEMMA RefusesNeverSent ==
  ASSUME Typed, TurnInv,
         NEW call, \/ car.at \in Calling /\ call = Call
                   \/ call \in late,
         call.kind = "reject"
  PROVE  NeverSent(call.attempt)
<1>1. CASE car.at \in Calling /\ call = Call
  <2>1. car.at \in {"cancelling", "refusing", "parking"}
    BY <1>1 DEF Call, Calling
  <2>2. call.attempt = car.attempt BY <1>1, <2>1 DEF Call
  <2>. QED BY <2>1, <2>2 DEF TurnInv, NeverSent
<1>2. CASE call \in late BY <1>2 DEF TurnInv
<1>. QED BY <1>1, <1>2

(* The turns and the attempts still fit after each step.                   *)
LEMMA TurnStep ==
  ASSUME Typed, MyRows, TurnInv, SidecarNext, sessions'[Mine].epoch \in Nat
  PROVE  TurnInv'
<1>0. car.at \in Delivering => car.attempt \in Attempt BY DEF Typed, Placed
<1>1. ASSUME car'.at \in {"beginning", "sending"} PROVE turns'[car'.attempt] = "drawn"
  <2>1. DeliveryMoves BY <1>1, DeliveryStep DEF Delivering
  <2>2. CASE car.at \in {"beginning", "sending"} /\ car'.attempt = car.attempt
    <3>1. turns[car.attempt] = "drawn" BY <2>2 DEF TurnInv
    <3>. QED BY <1>0, <1>1, <2>2, <3>1, TurnStays DEF Delivering
  <2>. QED BY <1>1, <2>1, <2>2 DEF DeliveryMoves, Within
<1>2. ASSUME car'.at \in {"cancelling", "refusing", "parking"}
      PROVE  turns'[car'.attempt] \in {"drawn", "refused"}
  <2>1. DeliveryMoves BY <1>2, DeliveryStep DEF Delivering
  <2>2. CASE /\ car.at \in {"beginning", "sending", "cancelling", "refusing", "parking"}
             /\ car'.attempt = car.attempt
    <3>1. turns[car.attempt] \in {"drawn", "refused"} BY <2>2 DEF TurnInv
    <3>. QED BY <1>0, <1>2, <2>2, <3>1, TurnStays DEF Delivering
  <2>3. CASE /\ car.at = "sent" /\ car'.attempt = car.attempt /\ turns[car.attempt] = "refused"
    BY <1>0, <2>3, TurnStays DEF Delivering
  <2>. QED BY <1>2, <2>1, <2>2, <2>3 DEF DeliveryMoves, Within
<1>3. ASSUME car'.at = "sending" PROVE attempts'[car'.attempt].state # "absent"
  <2>1. DeliveryMoves BY <1>3, DeliveryStep DEF Delivering
  <2>2. CASE car.at = "sending" /\ car'.attempt = car.attempt
    <3>1. attempts[car.attempt].state # "absent" BY <2>2 DEF TurnInv
    <3>. QED BY <1>0, <2>2, <3>1, RecordedStays DEF Delivering
  <2>3. CASE Answered /\ car.at = "beginning" /\ car'.attempt = car.attempt
    <3>1. Call.kind = "begin" /\ Call.attempt = car.attempt BY <2>3 DEF Call
    <3>2. BeginsAttempt(Call) BY <2>3, <3>1 DEF Answered, Executes
    <3>3. car.attempt \in Attempt BY <1>0, <2>3 DEF Delivering
    <3>4. CASE attempts[car.attempt].state # "absent" BY <2>3, <3>3, <3>4, RecordedStays
    <3>5. CASE BeginCli(car.attempt, Call.batch, Mine, "trusted_all")
      <4>1. PICK g, at : attempts' = [attempts EXCEPT ![car.attempt] =
                           NewCliAttempt(Call.batch, Mine, "trusted_all", g, at)]
        BY <3>5, Zenon DEF BeginCli
      <4>2. attempts'[car.attempt] = NewCliAttempt(Call.batch, Mine, "trusted_all", g, at)
        BY <3>3, <4>1 DEF Typed, SidecarTypeOK, TypeOK
      <4>. QED BY <2>3, <4>2 DEF NewCliAttempt
    <3>. QED BY <3>1, <3>2, <3>4, <3>5 DEF BeginsAttempt
  <2>. QED BY <1>3, <2>1, <2>2, <2>3 DEF DeliveryMoves, Within
<1>4. ASSUME NEW a \in Attempt, turns'[a] \in Ran \cup {"requested", "refused"}
      PROVE  attempts'[a].state # "absent"
  <2>1. TurnMoves(a) BY TurnsStep
  <2>2. CASE Sends /\ car.attempt = a
    <3>1. car.at = "sending" BY <2>2 DEF Sends
    <3>2. attempts[a].state # "absent" BY <2>2, <3>1 DEF TurnInv
    <3>. QED BY <3>2, RecordedStays
  <2>3. CASE turns[a] \in Ran \cup {"requested", "refused"}
    <3>1. attempts[a].state # "absent" BY <2>3 DEF TurnInv
    <3>. QED BY <3>1, RecordedStays
  <2>. QED BY <1>4, <2>1, <2>2, <2>3 DEF TurnMoves, Ran, Ended
<1>5. ASSUME NEW a \in Attempt, attempts'[a].rpc = "rejected_before_accept"
      PROVE  NeverSent(a)'
  <2>1. NeverSent(a)
    <3>1. ASSUME NEW R, RowMoves(a, R)
          PROVE  attempts[a].rpc = "rejected_before_accept" \/ a \in R
      BY <1>5, <3>1 DEF RowMoves, RowGoes, Begun
    <3>2. ASSUME NEW call, a \in Refuses(call), \/ car.at \in Calling /\ call = Call
                                                \/ call \in late
          PROVE  NeverSent(a)
      <4>1. call.kind = "reject" /\ call.attempt = a BY <3>2 DEF Refuses
      <4>. QED BY <3>2, <4>1, RefusesNeverSent
    <3>3. CASE RowsMove({}, {}) BY <3>1, <3>3 DEF RowsMove, TurnInv
    <3>4. CASE Answered /\ RowsMove(Refuses(Call), Delivers(Call))
      <4>1. car.at \in Calling BY <3>4 DEF Answered
      <4>2. RowMoves(a, Refuses(Call)) BY <3>4 DEF RowsMove
      <4>. QED BY <3>1, <3>2, <4>1, <4>2 DEF TurnInv
    <3>5. ASSUME NEW call \in late, RowsMove(Refuses(call), Delivers(call)) PROVE NeverSent(a)
      <4>1. RowMoves(a, Refuses(call)) BY <3>5 DEF RowsMove
      <4>. QED BY <3>1, <3>2, <4>1 DEF TurnInv
    <3>6. CASE \E call \in late : RunsLate(call) /\ RowsMove(Refuses(call), Delivers(call))
      <4>1. PICK call \in late : RowsMove(Refuses(call), Delivers(call)) BY <3>6
      <4>. QED BY <3>5, <4>1
    <3>. QED BY <3>3, <3>4, <3>6, RowsStep
  <2>. QED BY <2>1, NeverSentStays
<1>6. ASSUME NEW call \in late', call.kind = "reject" PROVE NeverSent(call.attempt)'
  <2>1. \/ call \in late
        \/ car.at \in Calling /\ call = Call
        \/ call = Started
    BY <1>6, LateStep
  <2>2. call # Started BY <1>6 DEF Started
  <2>3. NeverSent(call.attempt) BY <1>6, <2>1, <2>2, RefusesNeverSent
  <2>4. late' \subseteq Calls
    <3>1. car.at \in Calling => Call \in Calls BY CallType DEF Typed
    <3>2. car.at = "observing" => Started \in Calls BY StartedType DEF Typed
    <3>. QED BY <3>1, <3>2, LateStep DEF Typed, SidecarTypeOK
  <2>5. call.attempt \in Attempt BY <1>6, <2>4, CallFields
  <2>. QED BY <2>3, <2>5, NeverSentStays
<1>. QED BY <1>1, <1>2, <1>3, <1>4, <1>5, <1>6, Zenon DEF TurnInv, NeverSent

(* What was refused never ran, and a batch is given to the thread once.    *)
LEMMA NeverRan ==
  ASSUME TurnInv, TableInv(batches, attempts) PROVE RejectedNeverRan
<1>1. ASSUME NEW a \in Attempt, attempts[a].rpc = "rejected_before_accept"
      PROVE  turns[a] \notin Ran \cup {"requested"}
  BY <1>1 DEF TurnInv, NeverSent, Ran, Ended
<1>2. ASSUME NEW a \in Attempt, NEW c \in Attempt, turns[a] \in Ran, turns[c] \in Ran,
             attempts[a].batch = attempts[c].batch, a # c
      PROVE  FALSE
  <2>1. attempts[a].state # "absent" /\ attempts[c].state # "absent" BY <1>2 DEF TurnInv
  <2>2. "rejected_before_accept" \in {attempts[a].rpc, attempts[c].rpc}
    BY <1>2, <2>1 DEF TableInv, OneExposure
  <2>. QED BY <1>1, <1>2, <2>2
<1>. QED BY <1>1, <1>2 DEF RejectedNeverRan

-----------------------------------------------------------------------------
(***************************************************************************)
(* A turn is reported as completed, whichever way that is heard of, after  *)
(* it has completed.                                                       *)
(***************************************************************************)

CompletedInv ==
  /\ car.at = "reporting" /\ car.event = "turn_completed" => turns[car.attempt] = "completed"
  /\ \A call \in late : call.kind = "observe" /\ call.event = "turn_completed" =>
       turns[call.attempt] = "completed"
  /\ \A i \in 1 .. Len(wire.msgs) :
       wire.msgs[i].kind = "completed" /\ wire.msgs[i].turn # NoDelivery =>
         turns[wire.msgs[i].turn] = "completed"
  /\ DeliveredMeansCompleted

(* What a call reports as completed has completed.                         *)
LEMMA ReportedCompleted ==
  ASSUME Typed, CompletedInv,
         NEW call, \/ car.at \in Calling /\ call = Call
                   \/ call \in late,
         call.kind = "observe", call.event = "turn_completed"
  PROVE  turns[call.attempt] = "completed"
<1>1. CASE car.at \in Calling /\ call = Call
  <2>1. car.at = "reporting" BY <1>1 DEF Call, Calling
  <2>2. call.attempt = car.attempt /\ call.event = car.event BY <1>1, <2>1 DEF Call
  <2>. QED BY <2>1, <2>2 DEF CompletedInv
<1>2. CASE call \in late BY <1>2 DEF CompletedInv
<1>. QED BY <1>1, <1>2

(* It holds after each step.                                               *)
LEMMA CompletedStep ==
  ASSUME Typed, MyRows, TurnInv, CompletedInv, SidecarNext, sessions'[Mine].epoch \in Nat
  PROVE  CompletedInv'
<1>0. car.at \in Delivering => car.attempt \in Attempt BY DEF Typed, Placed
<1>1. ASSUME car'.at = "reporting", car'.event = "turn_completed"
      PROVE  turns'[car'.attempt] = "completed"
  <2>1. DeliveryMoves BY <1>1, DeliveryStep DEF Delivering
  <2>2. CASE car.at = "reporting" /\ car'.attempt = car.attempt /\ car'.event = car.event
    BY <1>0, <1>1, <2>2, TurnStays DEF Delivering, CompletedInv
  <2>3. CASE car.at = "observing" /\ car'.attempt = car.attempt /\ Heard
    <3>1. car.attempt \in Attempt /\ car.attempt # NoDelivery
      BY <1>0, <2>3, SidecarAssumption DEF Delivering
    <3>2. turns[car.attempt] = "completed" BY <2>3, <3>1 DEF Heard, CompletedInv
    <3>. QED BY <2>3, <3>1, <3>2, TurnStays
  <2>. QED BY <1>1, <2>1, <2>2, <2>3 DEF DeliveryMoves, Within
<1>2. ASSUME NEW call \in late', call.kind = "observe", call.event = "turn_completed"
      PROVE  turns'[call.attempt] = "completed"
  <2>1. \/ call \in late
        \/ car.at \in Calling /\ call = Call
        \/ call = Started
    BY <1>2, LateStep
  <2>2. call # Started BY <1>2 DEF Started
  <2>3. turns[call.attempt] = "completed" BY <1>2, <2>1, <2>2, ReportedCompleted
  <2>4. call \in Calls
    <3>1. car.at \in Calling => Call \in Calls BY CallType DEF Typed
    <3>. QED BY <2>1, <2>2, <3>1 DEF Typed, SidecarTypeOK
  <2>5. call.attempt \in Attempt BY <1>2, <2>4, CallFields
  <2>. QED BY <2>3, <2>5, TurnStays
<1>3. ASSUME NEW i \in 1 .. Len(wire'.msgs),
             wire'.msgs[i].kind = "completed", wire'.msgs[i].turn # NoDelivery
      PROVE  turns'[wire'.msgs[i].turn] = "completed"
  <2>. DEFINE n == wire'.msgs[i]
  <2>1. \/ \E j \in 1 .. Len(wire.msgs) : n = wire.msgs[j]
        \/ TrueNote(n)
    BY WireStep DEF WireMoves
  <2>2. CASE \E j \in 1 .. Len(wire.msgs) : n = wire.msgs[j]
    <3>1. PICK j \in 1 .. Len(wire.msgs) : n = wire.msgs[j] BY <2>2
    <3>2. wire.msgs[j] \in Notes BY DEF Typed
    <3>. HIDE DEF n
    <3>3. turns[n.turn] = "completed" /\ n.turn \in Attempt
      BY <1>3, <3>1, <3>2 DEF CompletedInv, Notes, n
    <3>4. turns'[n.turn] = "completed" BY <3>3, TurnStays
    <3>. QED BY <3>4 DEF n
  <2>3. CASE TrueNote(n)
    <3>1. PICK a \in Attempt : n = Note("completed", a) /\ turns'[a] = "completed"
      BY <1>3, <2>3, Zenon DEF TrueNote
    <3>. QED BY <3>1 DEF Note
  <2>. QED BY <2>1, <2>2, <2>3
<1>4. ASSUME NEW b \in Batch, batches'[b].close_reason = "delivered"
      PROVE  \E a \in OnBatch(b)' : turns'[a] = "completed"
  <2>1. \E a \in Attempt : /\ attempts[a].state # "absent" /\ attempts[a].batch = b
                           /\ turns[a] = "completed"
    <3>1. CASE batches[b].close_reason = "delivered"
      BY <3>1 DEF CompletedInv, DeliveredMeansCompleted, OnBatch
    <3>2. ASSUME NEW call, b \in Delivers(call), call \in Calls,
                 \/ car.at \in Calling /\ call = Call
                 \/ call \in late
          PROVE  \E a \in Attempt : /\ attempts[a].state # "absent" /\ attempts[a].batch = b
                                    /\ turns[a] = "completed"
      <4>1. /\ call.kind = "observe" /\ call.event = "turn_completed"
            /\ attempts[call.attempt].state # "absent" /\ attempts[call.attempt].batch = b
        BY <3>2 DEF Delivers
      <4>2. call.attempt \in Attempt BY <3>2, <4>1, CallFields
      <4>. QED BY <3>2, <4>1, <4>2, ReportedCompleted
    <3>3. ASSUME NEW D, BatchMoves(b, D)
          PROVE  batches[b].close_reason = "delivered" \/ b \in D
      BY <1>4, <3>3 DEF BatchMoves
    <3>4. CASE RowsMove({}, {}) BY <3>1, <3>3, <3>4 DEF RowsMove
    <3>5. CASE Answered /\ RowsMove(Refuses(Call), Delivers(Call))
      <4>1. car.at \in Calling /\ Call \in Calls BY <3>5, CallType DEF Answered, Typed
      <4>2. BatchMoves(b, Delivers(Call)) BY <3>5 DEF RowsMove
      <4>. QED BY <3>1, <3>2, <3>3, <4>1, <4>2
    <3>6. CASE \E call \in late : RowsMove(Refuses(call), Delivers(call))
      <4>1. PICK call \in late : RowsMove(Refuses(call), Delivers(call)) BY <3>6
      <4>2. BatchMoves(b, Delivers(call)) /\ call \in Calls
        BY <4>1 DEF RowsMove, Typed, SidecarTypeOK
      <4>. QED BY <3>1, <3>2, <3>3, <4>2
    <3>. QED BY <3>4, <3>5, <3>6, RowsStep
  <2>2. PICK a \in Attempt : /\ attempts[a].state # "absent" /\ attempts[a].batch = b
                             /\ turns[a] = "completed"
    BY <2>1
  <2>3. attempts'[a].state # "absent" /\ attempts'[a].batch = b BY <2>2, RecordedStays
  <2>4. turns'[a] = "completed" BY <2>2, TurnStays
  <2>. QED BY <2>3, <2>4 DEF OnBatch
<1>. QED BY <1>1, <1>2, <1>3, <1>4, Zenon DEF CompletedInv, DeliveredMeansCompleted

-----------------------------------------------------------------------------
(***************************************************************************)
(* What a step makes of the proof that the sidecar believes to have given. *)
(***************************************************************************)

(* It believes the same, ...                                               *)
Keeps ==
  /\ SameProof(car, car')
  /\ \/ car'.at = car.at
     \/ car.at \in Delivering \cup {"listening"} /\ car'.at \in Delivering
     \/ car.at \notin {"proving", "noting", "over"} /\ car'.at = "dropping"
     \/ car.at = "dropping" /\ car'.at \in {"connecting", "over"}
     \/ car.at = "listening" /\ car'.at = "noting"
     \/ car.at = "rereading" /\ car'.at = "proving" /\ ~car.capable
     \/ car.at = "rereading" /\ car'.at = "noting"
     \/ car.at = "rereading" /\ car'.at = "listening" /\ car.activity # "none"

(* ... may have given what it tried to give, ...                           *)
Marks ==
  /\ car.at \in {"proving", "noting"} /\ car'.at = "dropping" /\ car'.durable
  /\ car'.epoch = car.epoch /\ car'.arev = car.arev /\ car'.crev = car.crev
  /\ car'.activity = car.activity /\ car'.capable = car.capable

(* ... looks at the thread anew, ...                                       *)
Sees ==
  /\ car.at = "connecting" /\ car'.at \in {"proving", "noting", "dropping"}
  /\ car'.at = "proving" => ~car.capable
  /\ car'.epoch = car.epoch /\ car'.arev = car.arev /\ car'.crev = car.crev
  /\ car'.activity = "none" /\ car'.capable = car.capable /\ car'.durable = car.durable

(* ... has cancelled a delivery, ...                                       *)
Cancels ==
  /\ car.at = "cancelling" /\ car'.at \in {"connecting", "listening"}
  /\ car'.epoch = car.epoch /\ car'.arev = car.arev /\ car'.crev = car.crev
  /\ car'.activity = "none" /\ ~car'.capable /\ car'.durable = car.durable

(* ... has none to drop, ...                                               *)
Forgets ==
  /\ car.at \notin {"proving", "noting", "over"} /\ ~car.durable
  /\ car'.at \in {"connecting", "rereading", "listening", "over"}
  /\ car'.epoch = car.epoch /\ ~car'.durable
  /\ car'.at # "over" => car'.activity = "none" /\ ~car'.capable

(* ... has dropped it, ...                                                 *)
Renews ==
  /\ car'.at \in {"connecting", "rereading", "listening", "over"}
  /\ car'.epoch = sessions'[Mine].epoch /\ ~car'.durable
  /\ car'.at # "over" => car'.activity = "none" /\ ~car'.capable

(* ... or is over.                                                         *)
Stops ==
  /\ Answered
  /\ car.at \in {"parking", "expiring", "reporting"}
  /\ car.at = "reporting" => car.event = "turn_failed"
  /\ car'.at = "over" /\ car'.epoch = car.epoch /\ ~car'.durable

Dies == car'.at = "over" /\ car'.epoch = 0 /\ car'.durable

(* What it has proved, it has proved.                                      *)
Proved ==
  /\ car'.epoch = car.epoch /\ car'.durable
  /\ \/ /\ car.at = "proving"
        /\ car'.arev = car.arev /\ car'.crev = car.crev + 1
        /\ car'.activity = car.activity /\ car'.capable
        /\ car'.at = "noting" \/ (car'.at = "listening" /\ car.activity # "none")
     \/ /\ car.at = "noting" /\ car'.at = "listening"
        /\ car'.arev = car.arev + 1 /\ car'.crev = car.crev
        /\ car'.activity = car.seen /\ car'.capable = car.capable

Proves == Answered /\ car.at \in {"proving", "noting"}

ProofMoves ==
  \/ Keeps \/ Marks \/ Sees \/ Cancels \/ Forgets \/ Stops \/ Dies
  \/ Answered /\ car.at = "dropping" /\ Renews
  \/ StartsAgain /\ Renews

(* The sidecar drops its proof.                                            *)
LEMMA DropMoves ==
  ASSUME Placed(car), car.at \notin {"proving", "noting", "over"}, NEW next \in Nexts,
         car' = Drop(car, next)
  PROVE  Keeps \/ Forgets
<1>1. car \in CarRecord BY DEF Placed
<1>. QED BY <1>1, DropFacts DEF Keeps, Forgets, NoProof

(* The answers to its calls.                                               *)
LEMMA AnswerMoves ==
  ASSUME Placed(car), Answered, sessions'[Mine].epoch \in Nat
  PROVE  IF car.at \in {"proving", "noting"} THEN Proved ELSE ProofMoves
<1>. DEFINE d == AfterAnswer(car)
<1>0. car \in CarRecord BY DEF Placed
<1>1. car' = d /\ car.at \in Calling BY DEF Answered
<1>2. CASE car.at = "dropping"
  <2>1. /\ d.at = IF car.next = "parked" THEN "over" ELSE car.next
        /\ d.epoch = sessions'[Mine].epoch /\ ~d.durable
        /\ d.at # "over" => d.arev = 0 /\ d.crev = 0 /\ d.activity = "none" /\ ~d.capable
    BY <1>1, <1>2, AfterAnswerFacts
  <2>2. car.next \in Nexts BY <1>2 DEF Placed
  <2>. HIDE DEF d
  <2>3. Renews BY <1>1, <2>1, <2>2 DEF Renews, Nexts
  <2>. QED BY <1>2, <2>3 DEF ProofMoves
<1>3. CASE car.at = "proving"
  <2>1. /\ d.epoch = car.epoch /\ d.arev = car.arev /\ d.crev = car.crev + 1
        /\ d.activity = car.activity /\ d.capable /\ d.durable
        /\ d.at = IF car.activity # car.seen THEN "noting" ELSE "listening"
    BY <1>1, <1>3, AfterAnswerFacts
  <2>2. car.seen # "none" BY <1>3 DEF Placed, Activities
  <2>. HIDE DEF d
  <2>. QED BY <1>1, <1>3, <2>1, <2>2 DEF Proved
<1>4. CASE car.at = "noting"
  <2>1. /\ d.epoch = car.epoch /\ d.arev = car.arev + 1 /\ d.crev = car.crev
        /\ d.activity = car.seen /\ d.capable = car.capable /\ d.durable
        /\ d.at = "listening"
    BY <1>1, <1>4, AfterAnswerFacts
  <2>. HIDE DEF d
  <2>. QED BY <1>1, <1>4, <2>1 DEF Proved
<1>5. CASE car.at \in {"beginning", "accepting"}
  <2>1. SameProof(car, d) /\ d.at \in {"sending", "observing"}
    BY <1>1, <1>5, AfterAnswerFacts
  <2>2. Keeps BY <1>1, <1>5, <2>1 DEF Keeps, Delivering
  <2>. QED BY <1>5, <2>2 DEF ProofMoves
<1>6. CASE car.at = "cancelling"
  <2>1. /\ d.epoch = car.epoch /\ d.arev = car.arev /\ d.crev = car.crev
        /\ d.activity = "none" /\ ~d.capable /\ d.durable = car.durable
        /\ d.at = car.next
    BY <1>1, <1>6, AfterAnswerFacts
  <2>2. car.next \in {"connecting", "listening"} BY <1>6 DEF Placed
  <2>. HIDE DEF d
  <2>3. Cancels BY <1>1, <1>6, <2>1, <2>2 DEF Cancels
  <2>. QED BY <1>6, <2>3 DEF ProofMoves
<1>7. CASE car.at \in {"refusing", "parking", "expiring", "reporting"}
  <2>1. CASE d = Drop(car, "rereading")
    <3>1. Keeps \/ Forgets BY <1>1, <1>7, <2>1, DropMoves DEF Nexts
    <3>. QED BY <1>7, <3>1 DEF ProofMoves
  <2>2. CASE /\ d = Stopped(car) /\ car.at \in {"parking", "expiring", "reporting"}
             /\ car.at = "reporting" => car.event = "turn_failed"
    <3>1. /\ Stopped(car).at = "over" /\ Stopped(car).epoch = car.epoch
          /\ ~Stopped(car).durable
      BY <1>0, StoppedFacts
    <3>2. car' = Stopped(car) BY <1>1, <2>2
    <3>3. Stops BY <2>2, <3>1, <3>2 DEF Stops
    <3>. QED BY <1>7, <3>3 DEF ProofMoves
  <2>3. /\ car.at = "refusing" => d = Drop(car, "rereading")
        /\ car.at \in {"parking", "expiring"} => d = Stopped(car)
        /\ car.at = "reporting" =>
             d = IF car.event = "turn_completed" THEN Drop(car, "rereading") ELSE Stopped(car)
    BY <1>1, AfterAnswerFacts
  <2>4. car.at = "reporting" => car.event \in {"turn_completed", "turn_failed"} BY DEF Placed
  <2>. HIDE DEF d
  <2>. QED BY <1>7, <2>1, <2>2, <2>3, <2>4
<1>. QED BY <1>1, <1>2, <1>3, <1>4, <1>5, <1>6, <1>7 DEF Calling

(* Each other step is one of these.                                        *)
LEMMA ProofStep ==
  ASSUME Typed, SidecarNext, sessions'[Mine].epoch \in Nat
  PROVE  IF Proves THEN Proved ELSE ProofMoves
<1>0. Placed(car) /\ car \in CarRecord BY DEF Typed, Placed
<1>00. Observed \in Activities BY DEF Observed, Activities
<1>1. CASE Answered BY <1>0, <1>1, AnswerMoves DEF Proves
<1>. SUFFICES ASSUME ~Answered PROVE ProofMoves BY <1>1 DEF Proves
<1>01. ASSUME Fails(car), car.at \notin {"proving", "noting", "over"} PROVE ProofMoves
  BY <1>0, <1>01, DropMoves DEF Fails, Nexts, ProofMoves
<1>2. CASE UNCHANGED car
  <2>1. Keeps BY <1>2 DEF Keeps, SameProof
  <2>. QED BY <2>1 DEF ProofMoves
<1>3. CASE GivesUp
  <2>1. CASE car.at = "beginning" /\ car' = [car EXCEPT !.at = "cancelling", !.next = "listening"]
    <3>1. car'.at = "cancelling" /\ SameProof(car, car')
      BY <1>0, <2>1, CancellingFacts DEF Delivering
    <3>2. Keeps BY <2>1, <3>1 DEF Keeps, Delivering
    <3>. QED BY <3>2 DEF ProofMoves
  <2>2. CASE car.at = "cancelling" /\ car' = Cancelled(car)
    <3>1. Cancels BY <1>0, <2>2, CancelledFacts DEF Cancels, Placed
    <3>. QED BY <3>1 DEF ProofMoves
  <2>3. CASE car.at = "dropping" /\ car.next \in {"connecting", "over"} /\ car' = Proceed(car, car.next)
    <3>1. car'.at \in {"connecting", "over"} /\ SameProof(car, car')
      BY <1>0, <2>3, ProceedFacts DEF Nexts
    <3>2. Keeps BY <2>3, <3>1 DEF Keeps
    <3>. QED BY <3>2 DEF ProofMoves
  <2>4. CASE car.at \in {"proving", "noting"} /\ Fails([car EXCEPT !.durable = TRUE])
    <3>. DEFINE d == [car EXCEPT !.durable = TRUE]
    <3>1. /\ d \in CarRecord /\ d.durable = TRUE
          /\ d.epoch = car.epoch /\ d.arev = car.arev /\ d.crev = car.crev
          /\ d.activity = car.activity /\ d.capable = car.capable
      BY <1>0, DurableFacts
    <3>2. car' = Drop(d, "connecting") BY <2>4 DEF Fails
    <3>. HIDE DEF d
    <3>3. Drop(d, "connecting").at = "dropping" /\ SameProof(d, Drop(d, "connecting"))
      BY <3>1, DropFacts DEF Nexts
    <3>4. Marks BY <2>4, <3>1, <3>2, <3>3 DEF Marks, SameProof
    <3>. QED BY <3>4 DEF ProofMoves
  <2>5. CASE car.at \notin {"proving", "noting"} /\ Fails(car)
    <3>1. car.at # "over" BY <1>3 DEF GivesUp, Calling
    <3>. QED BY <1>01, <2>5, <3>1
  <2>. QED BY <1>3, <2>1, <2>2, <2>3, <2>4, <2>5 DEF GivesUp
<1>4. CASE Connects
  <2>. DEFINE c == [car EXCEPT !.activity = "none"]
  <2>1. /\ c \in CarRecord /\ c.activity = "none" /\ c.at = car.at
        /\ c.epoch = car.epoch /\ c.arev = car.arev /\ c.crev = car.crev
        /\ c.durable = car.durable /\ c.capable = car.capable
    BY <1>0, UnseenFacts
  <2>2. car.at = "connecting" BY <1>4 DEF Connects
  <2>3. car' = Prove(c, Observed) \/ \E next \in Nexts : car' = Drop(c, next)
    BY <1>4 DEF Connects, Fails, Nexts
  <2>. HIDE DEF c
  <2>4. CASE car' = Prove(c, Observed)
    <3>1. Observed # "none" BY DEF Observed
    <3>2. /\ SameProof(c, car')
          /\ car'.at = IF ~c.capable THEN "proving"
                       ELSE IF c.activity # Observed THEN "noting" ELSE "listening"
      BY <1>00, <2>1, <2>4, ProveFacts
    <3>3. Sees BY <2>1, <2>2, <3>1, <3>2 DEF Sees, SameProof
    <3>. QED BY <3>3 DEF ProofMoves
  <2>5. CASE \E next \in Nexts : car' = Drop(c, next)
    <3>1. \/ car'.at = "dropping" /\ SameProof(c, car')
          \/ /\ c.arev = 0 /\ c.crev = 0 /\ ~c.durable
             /\ car'.at \in {"connecting", "rereading", "listening", "over"}
             /\ car'.at # "over" => NoProof(c, car')
             /\ car'.epoch = c.epoch /\ ~car'.durable
      BY <2>1, <2>5, DropFacts
    <3>2. Sees \/ Forgets BY <2>1, <2>2, <3>1 DEF Sees, Forgets, SameProof, NoProof
    <3>. QED BY <3>2 DEF ProofMoves
  <2>. QED BY <2>3, <2>4, <2>5
<1>5. CASE Rereads
  <2>1. car.at = "rereading" BY <1>5 DEF Rereads
  <2>2. CASE car' = Prove(car, Observed)
    <3>1. Observed # "none" BY DEF Observed
    <3>2. /\ SameProof(car, car')
          /\ car'.at = IF ~car.capable THEN "proving"
                       ELSE IF car.activity # Observed THEN "noting" ELSE "listening"
      BY <1>0, <1>00, <2>2, ProveFacts
    <3>3. Keeps BY <2>1, <3>1, <3>2 DEF Keeps
    <3>. QED BY <3>3 DEF ProofMoves
  <2>. QED BY <1>01, <1>5, <2>1, <2>2 DEF Rereads
<1>6. CASE Listens
  <2>1. \/ car' = NoteSeen(car, "active") \/ car' = NoteSeen(car, "idle") \/ car' = car
        \/ car' = Drop(car, "listening")
    <3>. DEFINE n == Head(wire.msgs)
    <3>1. n \in Notes BY <1>6 DEF Listens, Typed
    <3>2. n.kind \in Ended \cup {"started", "invalidated"} BY <3>1 DEF Notes
    <3>. QED BY <1>6, <3>2 DEF Listens, Ended
  <2>2. car.at = "listening" BY <1>6 DEF Listens
  <2>3. ASSUME NEW activity \in Activities, car' = NoteSeen(car, activity) PROVE Keeps
    <3>1. SameProof(car, car') /\ (car' = car \/ car'.at = "noting")
      BY <1>0, <2>2, <2>3, NoteSeenFacts
    <3>. QED BY <2>2, <3>1 DEF Keeps
  <2>4. car' = Drop(car, "listening") => Keeps \/ Forgets
    BY <1>0, <2>2, DropMoves DEF Nexts
  <2>5. Keeps \/ Forgets \/ car' = car BY <2>1, <2>3, <2>4 DEF Activities
  <2>. QED BY <1>2, <2>5 DEF ProofMoves
<1>7. CASE LosesConnection \/ Leaves
  <2>1. car.at \notin {"proving", "noting", "over"} /\ \E next \in Nexts : car' = Drop(car, next)
    BY <1>7 DEF LosesConnection, Leaves, Nexts
  <2>. QED BY <1>0, <2>1, DropMoves DEF ProofMoves
<1>8. CASE Polls
  <2>1. PICK b \in Batch, a \in Attempt :
          car' = [car EXCEPT !.at = "beginning", !.attempt = a, !.batch = b]
    BY <1>8, Zenon DEF Polls
  <2>2. car'.at = "beginning" /\ SameProof(car, car')
    <3>1. car' = [car EXCEPT !.at = "beginning", !.attempt = a, !.batch = b] BY <2>1
    <3>2. car'.at = "beginning" BY <1>0, <3>1 DEF CarRecord
    <3>3. SameProof(car, car') BY <1>0, <3>1 DEF CarRecord, SameProof
    <3>. QED BY <3>2, <3>3
  <2>3. Keeps BY <1>8, <2>2 DEF Polls, Keeps, Delivering
  <2>. QED BY <2>3 DEF ProofMoves
<1>9. CASE Sends
  <2>1. car.at = "sending" /\ car.at \in Delivering BY <1>9 DEF Sends, Delivering
  <2>2. CASE car' = [car EXCEPT !.at = "sent"]
    <3>1. car'.at = "sent" /\ SameProof(car, car')
      BY <1>0, <2>1, <2>2, MovedFacts DEF Delivering
    <3>. QED BY <2>1, <3>1 DEF ProofMoves, Keeps, Delivering
  <2>3. ASSUME NEW next \in {"connecting", "listening"},
               car' = [car EXCEPT !.at = "cancelling", !.next = next]
        PROVE  ProofMoves
    <3>1. car'.at = "cancelling" /\ SameProof(car, car')
      BY <1>0, <2>1, <2>3, CancellingFacts
    <3>. QED BY <2>1, <3>1 DEF ProofMoves, Keeps, Delivering
  <2>. QED BY <1>9, <2>2, <2>3 DEF Sends
<1>10. CASE HearsOfTurn
  <2>1. car.at = "sent" /\ car.at \in Delivering BY <1>10 DEF HearsOfTurn, Delivering
  <2>2. ASSUME NEW at \in {"accepting", "refusing", "parking"}, car' = [car EXCEPT !.at = at]
        PROVE  ProofMoves
    <3>1. car'.at = at /\ SameProof(car, car') BY <1>0, <2>1, <2>2, MovedFacts DEF Delivering
    <3>. QED BY <2>1, <3>1 DEF ProofMoves, Keeps, Delivering
  <2>3. Fails(car) \/ \E at \in {"accepting", "refusing", "parking"} : car' = [car EXCEPT !.at = at]
    BY <1>10 DEF HearsOfTurn, AfterSending
  <2>. QED BY <1>01, <2>1, <2>2, <2>3
<1>11. CASE ObservesMessage \/ Reconciles
  <2>1. car.at = "observing" BY <1>11 DEF ObservesMessage, Reconciles
  <2>2. car' = car \/ Fails(car) \/ \E status \in Ended : car' = Reports(status)
    BY <1>11 DEF ObservesMessage, EndsOwnTurn, Reconciles
  <2>3. ASSUME NEW status \in Ended, car' = Reports(status) PROVE ProofMoves
    <3>1. SameProof(car, car') /\ car'.at = "reporting" BY <1>0, <2>1, <2>3, ReportsFacts
    <3>. QED BY <2>1, <3>1 DEF ProofMoves, Keeps, Delivering
  <2>. QED BY <1>2, <1>01, <2>1, <2>2, <2>3
<1>12. CASE ReachesDeadline
  <2>1. car.at = "observing" /\ car' = [car EXCEPT !.at = "expiring"]
    BY <1>12 DEF ReachesDeadline
  <2>2. car'.at = "expiring" /\ SameProof(car, car') BY <1>0, <2>1, MovedFacts DEF Delivering
  <2>. QED BY <2>1, <2>2 DEF ProofMoves, Keeps, Delivering
<1>13. CASE ForegroundExits
  <2>1. SameProof(car, car') /\ car'.at = car.at BY <1>0, <1>13, ExitedFacts DEF ForegroundExits
  <2>. QED BY <2>1 DEF ProofMoves, Keeps
<1>14. CASE Killed
  <2>1. Dies BY <1>14, KilledFacts DEF Killed, Dies
  <2>. QED BY <2>1 DEF ProofMoves
<1>15. CASE StartsAgain
  <2>1. Renews BY <1>15 DEF StartsAgain, FreshCar, Renews
  <2>. QED BY <1>15, <2>1 DEF ProofMoves
<1>16. TimesOut \/ LateRuns \/ LateLost \/ UserStarts \/ UserEnds \/ LosesTrack \/ ServerStops
       \/ DaemonDrops \/ Maintains \/ (\E a \in Attempt : AnswersRequest(a) \/ EndsTurn(a))
       => UNCHANGED car
  BY Zenon DEF TimesOut, LateRuns, LateLost, UserStarts, UserEnds, LosesTrack, ServerStops,
               DaemonDrops, Maintains, AnswersRequest, EndsTurn
<1>. QED BY <1>2, <1>3, <1>4, <1>5, <1>6, <1>7, <1>8, <1>9, <1>10, <1>11, <1>12, <1>13,
            <1>14, <1>15, <1>16, Zenon DEF SidecarNext, SidecarStep

-----------------------------------------------------------------------------
(***************************************************************************)
(* Epochs: the sidecar is never ahead of its session, and no call given up *)
(* is ahead of the sidecar that gave it up.                                *)
(***************************************************************************)

ProofKinds == {"activity", "capabilities"}

EpochInv ==
  /\ sessions[Mine].state \in Bound \cup {"parked"}
  /\ sessions[Mine].state \notin Bound => IsClear
  /\ car.epoch <= sessions[Mine].epoch
  /\ \A call \in late : call.kind \in ProofKinds =>
       /\ call.epoch <= sessions[Mine].epoch
       /\ car.at # "over" => call.epoch <= car.epoch

(* The numbers that are compared.                                          *)
LEMMA EpochTypes ==
  ASSUME Typed
  PROVE  /\ sessions[Mine].epoch \in Nat /\ car.epoch \in Nat /\ car.arev \in Nat /\ car.crev \in Nat
         /\ revs.activity \in Nat /\ revs.capability \in Nat
         /\ \A call \in late : call.kind \in ProofKinds => call.epoch \in Nat /\ call.rev \in Nat
<1>1. sessions[Mine].epoch \in Nat
  BY SidecarAssumption DEF Typed, SidecarTypeOK, TypeOK, SessionRecord
<1>2. car.epoch \in Nat /\ car.arev \in Nat /\ car.crev \in Nat
  BY DEF Typed, Placed, CarRecord
<1>3. revs.activity \in Nat /\ revs.capability \in Nat BY DEF Typed, SidecarTypeOK
<1>4. ASSUME NEW call \in late, call.kind \in ProofKinds
      PROVE  call.epoch \in Nat /\ call.rev \in Nat
  <2>1. call \in Calls BY DEF Typed, SidecarTypeOK
  <2>. QED BY <1>4, <2>1, CallFields DEF ProofKinds
<1>. QED BY <1>1, <1>2, <1>3, <1>4

(* An epoch never comes back.                                              *)
LEMMA EpochsGrow ==
  ASSUME Typed, SidecarNext, sessions'[Mine].epoch \in Nat
  PROVE  sessions[Mine].epoch <= sessions'[Mine].epoch
<1>1. sessions[Mine].epoch \in Nat BY EpochTypes
<1>2. CASE Holds BY <1>1, <1>2 DEF Holds, Same
<1>3. CASE Clears BY <1>1, <1>3 DEF Clears, Gone
<1>4. ASSUME NEW call, Carries(call) PROVE sessions[Mine].epoch <= sessions'[Mine].epoch
  BY <1>1, <1>4 DEF Carries
<1>. QED BY <1>2, <1>3, <1>4, SessionStep

(* The proofs that are given up are those the sidecar was giving.          *)
LEMMA LateProofs ==
  ASSUME Typed, SidecarNext, NEW call \in late', call.kind \in ProofKinds
  PROVE  \/ call \in late
         \/ /\ car.at \in {"proving", "noting"} /\ call = Call
            /\ UNCHANGED car /\ UNCHANGED storeVars
<1>1. \/ call \in late
      \/ car.at \in Calling /\ call = Call /\ TimesOut
      \/ call = Started
  BY LateStep
<1>2. call # Started BY DEF Started, ProofKinds
<1>3. CASE car.at \in Calling /\ call = Call /\ TimesOut
  <2>1. car.at \in {"proving", "noting"}
    BY <1>3 DEF Call, Calling, ProofKinds
  <2>2. UNCHANGED car /\ UNCHANGED storeVars BY <1>3 DEF TimesOut
  <2>. QED BY <1>3, <2>1, <2>2
<1>. QED BY <1>1, <1>2, <1>3

(* What the sidecar asks for is about its own epoch.                       *)
LEMMA CallEpoch ==
  ASSUME car.at \in {"proving", "noting"}
  PROVE  /\ Call.kind \in ProofKinds /\ Call.epoch = car.epoch
         /\ car.at = "proving" => Call.kind = "capabilities" /\ Call.rev = car.crev + 1
         /\ car.at = "noting" => /\ Call.kind = "activity" /\ Call.rev = car.arev + 1
                                 /\ Call.value = car.seen
<1>1. CASE car.at = "proving" BY <1>1 DEF Call, ProofKinds
<1>2. CASE car.at = "noting" BY <1>2 DEF Call, ProofKinds
<1>. QED BY <1>1, <1>2

(* The sidecar stays in its epoch, or takes that of the session.           *)
LEMMA CarEpoch ==
  ASSUME Typed, SidecarNext, sessions'[Mine].epoch \in Nat
  PROVE  /\ \/ car'.epoch = car.epoch
            \/ car'.epoch = sessions'[Mine].epoch
            \/ car'.at = "over" /\ car'.epoch = 0
         /\ car.at = "over" /\ car'.at # "over" => car'.epoch = sessions'[Mine].epoch
<1>1. IF Proves THEN Proved ELSE ProofMoves BY ProofStep
<1>2. CASE Proves /\ Proved BY <1>2 DEF Proves, Proved
<1>3. CASE ProofMoves
  <2>1. CASE Keeps BY <2>1 DEF Keeps, SameProof, Delivering
  <2>2. CASE Marks \/ Sees \/ Cancels \/ Forgets BY <2>2 DEF Marks, Sees, Cancels, Forgets
  <2>3. CASE Stops \/ Dies \/ Renews BY <2>3 DEF Stops, Dies, Renews
  <2>. QED BY <1>3, <2>1, <2>2, <2>3 DEF ProofMoves
<1>. QED BY <1>1, <1>2, <1>3

(* The epochs still fit after each step.                                   *)
LEMMA EpochStep ==
  ASSUME Typed, EpochInv, SidecarNext, sessions'[Mine].epoch \in Nat
  PROVE  EpochInv'
<1>1. /\ sessions'[Mine].state \in Bound \cup {"parked"}
      /\ sessions'[Mine].state \notin Bound =>
           /\ sessions'[Mine].activity = "unknown" /\ ~sessions'[Mine].capable /\ revs' = NoRevs
  <2>1. CASE Holds BY <2>1 DEF Holds, Same, EpochInv, IsClear
  <2>2. CASE Clears BY <2>2 DEF Clears, Gone
  <2>3. ASSUME NEW call, Carries(call)
        PROVE  sessions'[Mine].state \in Bound
    BY <2>3 DEF Carries, IsAttachable, Bound
  <2>. QED BY <2>1, <2>2, <2>3, SessionStep
<1>2. /\ sessions[Mine].epoch \in Nat /\ car.epoch \in Nat
      /\ sessions[Mine].epoch <= sessions'[Mine].epoch
      /\ car.epoch <= sessions[Mine].epoch
  BY EpochTypes, EpochsGrow DEF EpochInv
<1>3. car'.epoch <= sessions'[Mine].epoch BY <1>2, CarEpoch
<1>4. ASSUME NEW call \in late', call.kind \in ProofKinds
      PROVE  /\ call.epoch <= sessions'[Mine].epoch
             /\ car'.at # "over" => call.epoch <= car'.epoch
  <2>1. CASE call \in late
    <3>1. call.epoch \in Nat BY <1>4, <2>1, EpochTypes
    <3>2. /\ call.epoch <= sessions[Mine].epoch
          /\ car.at # "over" => call.epoch <= car.epoch
      BY <1>4, <2>1 DEF EpochInv
    <3>. QED BY <1>2, <3>1, <3>2, CarEpoch
  <2>2. CASE call = Call /\ car.at \in {"proving", "noting"} /\ UNCHANGED car
    <3>1. call.epoch = car.epoch BY <2>2, CallEpoch
    <3>. QED BY <1>2, <2>2, <3>1
  <2>. QED BY <1>4, <2>1, <2>2, LateProofs
<1>. QED BY <1>1, <1>3, <1>4 DEF EpochInv, IsClear

-----------------------------------------------------------------------------
(***************************************************************************)
(* A proof that was dropped: the store has none, and no call that is still *)
(* to come can give one.                                                   *)
(***************************************************************************)

Silent ==
  /\ IsClear
  /\ sessions[Mine].state \in Bound =>
       \A call \in late : call.kind \in ProofKinds => call.epoch < sessions[Mine].epoch

DropInv == ~car.durable /\ car.at \notin {"proving", "noting"} => Silent

(* Clearing the proof silences the calls of its epoch.                     *)
LEMMA ClearsSilent ==
  ASSUME Typed, EpochInv, SidecarNext, sessions'[Mine].epoch \in Nat,
         car.at \notin {"proving", "noting"}, Clears
  PROVE  Silent'
<1>1. IsClear' BY DEF Clears, Gone, IsClear
<1>2. ASSUME sessions'[Mine].state \in Bound, NEW call \in late', call.kind \in ProofKinds
      PROVE  call.epoch < sessions'[Mine].epoch
  <2>1. call \in late BY <1>2, LateProofs
  <2>2. call.epoch \in Nat /\ sessions[Mine].epoch \in Nat BY <1>2, <2>1, EpochTypes
  <2>3. call.epoch <= sessions[Mine].epoch BY <1>2, <2>1 DEF EpochInv
  <2>4. sessions'[Mine].epoch > sessions[Mine].epoch BY <1>2 DEF Clears, Gone, Bound
  <2>. QED BY <2>2, <2>3, <2>4
<1>. QED BY <1>1, <1>2 DEF Silent

(* A session without a proof stays so, until the sidecar gives one.        *)
LEMMA SilentStays ==
  ASSUME Typed, EpochInv, SidecarNext, sessions'[Mine].epoch \in Nat,
         car.at \notin {"proving", "noting"}, Silent
  PROVE  Silent'
<1>1. CASE Clears BY <1>1, ClearsSilent
<1>2. CASE Holds
  <2>1. IsClear' BY <1>2 DEF Holds, Same, Silent, IsClear
  <2>2. ASSUME sessions'[Mine].state \in Bound, NEW call \in late', call.kind \in ProofKinds
        PROVE  call.epoch < sessions'[Mine].epoch
    <3>1. call \in late BY <2>2, LateProofs
    <3>2. sessions[Mine].state \in Bound /\ sessions'[Mine].epoch = sessions[Mine].epoch
      BY <1>2, <2>2 DEF Holds, Same
    <3>. QED BY <2>2, <3>1, <3>2 DEF Silent
  <2>. QED BY <2>1, <2>2 DEF Silent
<1>3. CASE Answered /\ Carries(Call)
  <2>1. Call.kind \in ProofKinds BY <1>3 DEF Carries, ProofKinds
  <2>2. car.at \in Calling \ {"proving", "noting"} BY <1>3 DEF Answered
  <2>. QED BY <2>1, <2>2 DEF Call, Calling, ProofKinds
<1>4. ASSUME NEW call \in late, Carries(call) PROVE FALSE
  <2>1. /\ call.kind \in ProofKinds /\ sessions[Mine].state \in Bound
        /\ call.epoch = sessions[Mine].epoch
    BY <1>4 DEF Carries, ProofKinds, IsAttachable, Bound
  <2>2. call.epoch < sessions[Mine].epoch BY <2>1 DEF Silent
  <2>. QED BY <2>1, <2>2, EpochTypes
<1>. QED BY <1>1, <1>2, <1>3, <1>4, SessionStep

(* An invalidation in the epoch of the session clears the proof, ...       *)
LEMMA TakesBack ==
  ASSUME Typed, InvalidateProof(Mine), RevsFollow PROVE Clears
<1>. DEFINE q == sessions[Mine]
            p == ParkedIfObserving(Mine)
<1>0. /\ TypeOK /\ sessions \in [Session -> SessionRecord] /\ Mine \in Session
      /\ q \in SessionRecord /\ q.epoch \in Nat
  BY SidecarAssumption DEF Typed, SidecarTypeOK, TypeOK, SessionRecord
<1>1. /\ sessions' = Invalidated(p, {<<Mine, q.epoch>>})
      /\ q.state \in Bound
  BY DEF InvalidateProof, IsAttachable, Bound
<1>2. After(q, sessions'[Mine])
  BY <1>0, <1>1, TakenBackAfter
<1>3. CASE ObservedUnder(Mine) = {}
  <2>1. p = sessions BY <1>3 DEF ParkedIfObserving
  <2>2. sessions'[Mine] = [ProofCleared(q) EXCEPT !.epoch = ProofCleared(q).epoch + 1]
    BY <1>0, <1>1, <2>1 DEF Invalidated, Bound
  <2>3. ProofCleared(q).epoch = q.epoch /\ ProofCleared(q) \in SessionRecord
    BY <1>0 DEF ProofCleared, SessionRecord
  <2>4. sessions'[Mine].epoch = q.epoch + 1 BY <2>2, <2>3 DEF SessionRecord
  <2>. QED BY <1>0, <1>2, <2>4, RevsAfter DEF Holds, Same
<1>4. CASE ObservedUnder(Mine) # {}
  <2>1. p = Parked(sessions, {Mine}) BY <1>4 DEF ParkedIfObserving
  <2>2. p[Mine] = [ProofCleared(q) EXCEPT !.state = "parked", !.pinned = FALSE]
    BY <1>0, <1>1, <2>1 DEF Parked, Bound
  <2>3. ProofCleared(q) \in SessionRecord BY <1>0 DEF ProofCleared, SessionRecord
  <2>4. p[Mine].state = "parked" BY <2>2, <2>3 DEF SessionRecord
  <2>5. sessions'[Mine] = p[Mine]
    <3>. HIDE DEF p
    <3>. QED BY <1>0, <1>1, <2>4 DEF Invalidated
  <2>6. sessions'[Mine].state = "parked" BY <2>4, <2>5
  <2>. QED BY <1>0, <1>1, <1>2, <2>6, RevsAfter DEF Holds, Same, Bound
<1>. QED BY <1>3, <1>4

(* ... and so does the next sidecar that is bound to the session.          *)
LEMMA BindsAgain ==
  ASSUME Typed, StartsAgain PROVE Clears
<1>. DEFINE q == sessions[Mine]
<1>0. /\ sessions \in [Session -> SessionRecord] /\ Mine \in Session
      /\ q \in SessionRecord /\ q.epoch \in Nat
  BY SidecarAssumption DEF Typed, SidecarTypeOK, TypeOK, SessionRecord
<1>1. sessions' = [sessions EXCEPT ![Mine] = Attached(q)] BY DEF StartsAgain, Reattach
<1>2. sessions'[Mine] = Attached(q) BY <1>0, <1>1
<1>3. ProofCleared(q).epoch = q.epoch /\ ProofCleared(q) \in SessionRecord
  BY <1>0 DEF ProofCleared, SessionRecord
<1>4. Attached(q).epoch = q.epoch + 1 BY <1>3 DEF Attached, SessionRecord
<1>5. Holds \/ Clears BY MaintenanceSession DEF StartsAgain
<1>. QED BY <1>0, <1>2, <1>4, <1>5 DEF Holds, Same

(* What is invalidated on behalf of the sidecar stays so.                  *)
LEMMA DroppedSilent ==
  ASSUME Typed, EpochInv, SidecarNext, sessions'[Mine].epoch \in Nat,
         Answered, car.at = "dropping"
  PROVE  Silent'
<1>1. Call = [kind |-> "invalidate", epoch |-> car.epoch] BY DEF Call
<1>2. Invalidates(Call) /\ Call.epoch = car.epoch BY <1>1 DEF Answered, Executes
<1>3. CASE Clears BY <1>3, ClearsSilent
<1>4. CASE InvalidateProof(Mine) /\ RevsFollow BY <1>3, <1>4, TakesBack
<1>5. CASE UNCHANGED storeVars /\ Silent BY <1>5, SilentStays
<1>6. CASE UNCHANGED storeVars /\ ~IsAttachable(Mine)
  <2>1. Silent BY <1>6 DEF EpochInv, IsAttachable, Bound, Silent
  <2>. QED BY <1>6, <2>1, SilentStays
<1>7. CASE UNCHANGED storeVars /\ sessions[Mine].epoch > Call.epoch /\ IsClear
  <2>1. ASSUME NEW call \in late, call.kind \in ProofKinds PROVE call.epoch < sessions[Mine].epoch
    <3>1. call.epoch <= car.epoch BY <2>1 DEF EpochInv
    <3>2. call.epoch \in Nat /\ car.epoch \in Nat /\ sessions[Mine].epoch \in Nat
      BY <2>1, EpochTypes
    <3>. QED BY <1>2, <1>7, <3>1, <3>2
  <2>2. Silent BY <1>7, <2>1 DEF Silent
  <2>. QED BY <2>2, SilentStays
<1>. QED BY <1>2, <1>4, <1>6, <1>7 DEF Invalidates

(* A sidecar that stops leaves a session that takes no proof.              *)
LEMMA StopsUnbound ==
  ASSUME Typed, MyRows, FollowInv, SidecarNext, sessions'[Mine].epoch \in Nat, Stops
  PROVE  sessions'[Mine].state \notin Bound
<1>. DEFINE a == car.attempt
<1>0. /\ a \in Attempt /\ TypeOK /\ attempts \in [Attempt -> AttemptRecord]
      /\ sessions \in [Session -> SessionRecord]
  BY DEF Stops, Typed, Placed, Delivering, SidecarTypeOK, TypeOK
<1>1. CASE car.at = "parking"
  <2>1. Call.kind = "reject" /\ Call.attempt = a /\ Call.manual = TRUE BY <1>1 DEF Call
  <2>2. RejectCli(a, TRUE) \/ RejectCliAgain(a)
    BY <2>1 DEF Stops, Answered, Executes, RejectsAttempt
  <2>3. sessions' = Parked(sessions, {attempts[a].session}) /\ attempts[a].state # "absent"
    BY <2>2 DEF RejectCli, RejectCliAgain, IsAcceptPending
  <2>4. attempts[a].session = Mine BY <1>0, <2>3 DEF MyRows
  <2>5. CASE sessions[Mine].state \in Bound
    <3>1. sessions'[Mine] = [ProofCleared(sessions[Mine]) EXCEPT !.state = "parked", !.pinned = FALSE]
      BY <2>3, <2>4, <2>5, SidecarAssumption DEF Parked, Bound
    <3>2. sessions[Mine] \in SessionRecord BY <1>0, SidecarAssumption
    <3>3. sessions'[Mine].state = "parked"
      BY <3>1, <3>2 DEF ProofCleared, SessionRecord
    <3>. QED BY <3>3 DEF Bound
  <2>. QED BY <2>5, SessionsStay
<1>2. CASE car.at \in {"expiring", "reporting"}
  <2>1. attempts[a].rpc = "accepted" BY <1>2 DEF FollowInv
  <2>2. attempts[a].state # "absent" BY <1>0, <2>1 DEF MyRows
  <2>3. attempts'[a].rpc = "accepted" BY <1>0, <2>1, <2>2, RecordedStays
  <2>4. CASE attempts[a].state = "abandoned" BY <1>0, <2>1, <2>4, SessionsStay DEF MyRows
  <2>5. ASSUME NEW r, NEW at, GiveUp(a, r, at) PROVE sessions'[Mine].state \notin Bound
    <3>1. sessions' = SessionsAfterLoss({a}) BY <2>5 DEF GiveUp
    <3>2. attempts[a].adapter = "cli" /\ attempts[a].session = Mine BY <1>0, <2>2 DEF MyRows
    <3>. QED BY <1>0, <3>1, <3>2, LostSession
  <2>6. CASE car.at = "expiring"
    <3>1. Call.kind = "expire" /\ Call.attempt = a BY <2>6 DEF Call
    <3>2. ExpireCli(a) \/ attempts[a].state = "abandoned"
      BY <3>1 DEF Stops, Answered, Executes, ExpiresObservation
    <3>3. CASE ExpireCli(a)
      <4>1. \E r, at : GiveUp(a, r, at) BY <3>3, Zenon DEF ExpireCli
      <4>. QED BY <2>5, <4>1
    <3>. QED BY <2>4, <3>2, <3>3
  <2>7. CASE car.at = "reporting"
    <3>1. Call.kind = "observe" /\ Call.attempt = a /\ Call.event = "turn_failed"
      BY <2>7 DEF Call, Stops
    <3>2. ObserveCli(a, "turn_failed") \/ attempts[a].event = "turn_failed"
      BY <3>1 DEF Stops, Answered, Executes, ObservesTurn
    <3>3. CASE ObserveCli(a, "turn_failed")
      <4>1. attempts[a].state = "abandoned" \/ \E r, at : GiveUp(a, r, at)
        BY <3>3, Zenon DEF ObserveCli, ObserveDelayed, ObserveLate, ObserveAfterLoss,
                           ObserveAfterDeadline, ObserveInTime, CompletesDelayed,
                           AwaitsLateEvidence
      <4>. QED BY <2>4, <2>5, <4>1
    <3>4. CASE attempts[a].event = "turn_failed" BY <1>0, <2>4, <3>4 DEF MyRows
    <3>. QED BY <3>2, <3>3, <3>4
  <2>. QED BY <1>2, <2>6, <2>7
<1>. QED BY <1>1, <1>2 DEF Stops

(* A proof that was dropped is cleared after each step.                    *)
LEMMA DropStep ==
  ASSUME Typed, MyRows, FollowInv, EpochInv, DropInv, SidecarNext, sessions'[Mine].epoch \in Nat
  PROVE  DropInv'
<1>. SUFFICES ASSUME ~car'.durable, car'.at \notin {"proving", "noting"} PROVE Silent'
  BY DEF DropInv
<1>1. IF Proves THEN Proved ELSE ProofMoves BY ProofStep
<1>2. CASE Proves BY <1>1, <1>2 DEF Proved
<1>3. CASE ~car.durable /\ car.at \notin {"proving", "noting"} BY <1>3, SilentStays DEF DropInv
<1>4. CASE Keeps BY <1>3, <1>4 DEF Keeps, SameProof, Delivering
<1>5. CASE Sees \/ Cancels \/ Forgets BY <1>3, <1>5 DEF Sees, Cancels, Forgets
<1>6. CASE Stops
  <2>1. sessions'[Mine].state \notin Bound BY <1>6, StopsUnbound
  <2>2. EpochInv' BY EpochStep
  <2>. QED BY <2>1, <2>2 DEF EpochInv, Silent
<1>7. CASE Answered /\ car.at = "dropping" BY <1>7, DroppedSilent
<1>8. CASE StartsAgain
  <2>1. car.at = "over" BY <1>8 DEF StartsAgain
  <2>. QED BY <1>8, <2>1, BindsAgain, ClearsSilent
<1>. QED BY <1>1, <1>2, <1>4, <1>5, <1>6, <1>7, <1>8 DEF ProofMoves, Marks, Dies

-----------------------------------------------------------------------------
(***************************************************************************)
(* The proof the sidecar believes to have given: the store has it, and no  *)
(* call given up is ahead of what the sidecar has had confirmed.           *)
(***************************************************************************)

InStep == car.at # "over" /\ sessions[Mine].state \in Bound /\ car.epoch = sessions[Mine].epoch

Shown == car.at = "listening" /\ car.activity # "none"

LateFits == \A call \in late : call.kind \in ProofKinds /\ call.epoch = car.epoch =>
  /\ call.kind = "activity" => /\ call.rev <= car.arev + 1
                               /\ Shown => call.rev <= car.arev
  /\ call.kind = "capabilities" => /\ call.rev <= car.crev + 1
                                   /\ car.capable => call.rev <= car.crev

StoreFits ==
  /\ car.capable => sessions[Mine].capable /\ revs.capability = car.crev
  /\ Shown => sessions[Mine].activity = car.activity /\ revs.activity = car.arev

Unseen == /\ car.at = "proving" => ~car.capable
          /\ car.at \in {"proving", "rereading"} => car.activity = "none"

MatchInv == Unseen /\ (InStep => LateFits /\ StoreFits)

(* What was not seen is not proved, after each step.                       *)
LEMMA UnseenStep ==
  ASSUME Typed, Unseen, SidecarNext, sessions'[Mine].epoch \in Nat
  PROVE  Unseen'
<1>1. IF Proves THEN Proved ELSE ProofMoves BY ProofStep
<1>2. CASE Proves /\ Proved BY <1>2 DEF Proved, Unseen
<1>3. CASE Keeps BY <1>3 DEF Keeps, SameProof, Unseen, Delivering
<1>4. CASE Marks \/ Sees \/ Cancels \/ Forgets
  BY <1>4 DEF Marks, Sees, Cancels, Forgets, Unseen
<1>5. CASE Stops \/ Dies \/ Renews BY <1>5 DEF Stops, Dies, Renews, Unseen
<1>. QED BY <1>1, <1>2, <1>3, <1>4, <1>5 DEF ProofMoves

(* Where it has lost its proof the sidecar claims nothing, and no call     *)
(* does.                                                                   *)
LEMMA NothingFits ==
  ASSUME sessions'[Mine].epoch \in Nat, Silent', InStep', ~car'.capable, car'.activity = "none"
  PROVE  LateFits' /\ StoreFits'
<1>1. ASSUME NEW call \in late', call.kind \in ProofKinds PROVE call.epoch # car'.epoch
  <2>1. call.epoch < sessions'[Mine].epoch BY <1>1 DEF Silent, InStep
  <2>2. car'.epoch = sessions'[Mine].epoch BY DEF InStep
  <2>. QED BY <2>1, <2>2
<1>2. ~Shown' BY DEF Shown
<1>. QED BY <1>1, <1>2 DEF LateFits, StoreFits

(* A sidecar that is in step in the epoch it was in has been so before.    *)
LEMMA WasInStep ==
  ASSUME Typed, EpochInv, SidecarNext, sessions'[Mine].epoch \in Nat,
         car.at # "over", car'.epoch = car.epoch, InStep'
  PROVE  InStep /\ ~Clears
<1>1. sessions[Mine].epoch <= sessions'[Mine].epoch /\ car.epoch <= sessions[Mine].epoch
  BY EpochsGrow DEF EpochInv
<1>2. car'.epoch = sessions'[Mine].epoch /\ sessions'[Mine].state \in Bound BY DEF InStep
<1>3. sessions[Mine].epoch \in Nat /\ car.epoch \in Nat BY EpochTypes
<1>4. sessions[Mine].epoch = car.epoch /\ sessions'[Mine].epoch = sessions[Mine].epoch
  BY <1>1, <1>2, <1>3
<1>5. sessions[Mine].state \in Bound BY <1>2, SessionsStay
<1>6. ~Clears BY <1>2, <1>3, <1>4 DEF Clears, Gone, Bound
<1>. QED BY <1>4, <1>5, <1>6 DEF InStep

(* The steps that claim no more than before.                               *)
ClaimsNoMore ==
  /\ car.at # "over" /\ car'.epoch = car.epoch
  /\ car'.arev = car.arev /\ car'.crev = car.crev
  /\ car'.capable => car.capable
  /\ Shown' => Shown /\ car'.activity = car.activity

(* After such a step the store still has what was claimed.                 *)
LEMMA ClaimsStay ==
  ASSUME Typed, EpochInv, MatchInv, SidecarNext, sessions'[Mine].epoch \in Nat,
         ~Proves, ClaimsNoMore, InStep'
  PROVE  LateFits' /\ StoreFits'
<1>1. InStep /\ ~Clears BY WasInStep DEF ClaimsNoMore
<1>2. LateFits /\ StoreFits BY <1>1 DEF MatchInv
<1>3. car.epoch \in Nat /\ car.arev \in Nat /\ car.crev \in Nat
      /\ revs.activity \in Nat /\ revs.capability \in Nat
  BY EpochTypes
<1>4. LateFits'
  <2>1. SUFFICES ASSUME NEW call \in late', call.kind \in ProofKinds, call.epoch = car'.epoch
                 PROVE  /\ call.kind = "activity" => /\ call.rev <= car'.arev + 1
                                                     /\ Shown' => call.rev <= car'.arev
                        /\ call.kind = "capabilities" => /\ call.rev <= car'.crev + 1
                                                         /\ car'.capable => call.rev <= car'.crev
    BY DEF LateFits
  <2>2. CASE call \in late BY <1>2, <2>1, <2>2 DEF LateFits, ClaimsNoMore
  <2>3. CASE car.at = "proving" /\ call = Call /\ UNCHANGED car
    <3>1. call.kind = "capabilities" /\ call.rev = car.crev + 1 BY <2>3, CallEpoch
    <3>2. ~car'.capable /\ car'.crev = car.crev BY <2>3 DEF MatchInv, Unseen
    <3>. QED BY <1>3, <3>1, <3>2
  <2>4. CASE car.at = "noting" /\ call = Call /\ UNCHANGED car
    <3>1. call.kind = "activity" /\ call.rev = car.arev + 1 BY <2>4, CallEpoch
    <3>2. ~Shown' /\ car'.arev = car.arev BY <2>4 DEF Shown
    <3>. QED BY <1>3, <3>1, <3>2
  <2>. QED BY <2>1, <2>2, <2>3, <2>4, LateProofs
<1>5. StoreFits'
  <2>1. CASE Holds BY <1>2, <2>1 DEF Holds, Same, StoreFits, ClaimsNoMore
  <2>2. CASE Answered /\ Carries(Call)
    <3>1. Call.kind \in ProofKinds /\ car.at \in Calling \ {"proving", "noting"}
      BY <2>2 DEF Carries, ProofKinds, Answered, Proves
    <3>. QED BY <3>1 DEF Call, Calling, ProofKinds
  <2>3. CASE \E call \in late : RunsLate(call) /\ Carries(call)
    <3>1. PICK call \in late : RunsLate(call) /\ Carries(call) BY <2>3
    <3>2. call.kind \in ProofKinds /\ call.epoch = car.epoch
      BY <1>1, <3>1 DEF Carries, ProofKinds, InStep
    <3>3. UNCHANGED car BY <3>1 DEF RunsLate
    <3>4. CASE call.kind = "activity"
      <4>1. /\ call.rev = revs.activity + 1
            /\ sessions'[Mine].capable = sessions[Mine].capable
            /\ revs'.capability = revs.capability
        BY <3>1, <3>4 DEF Carries
      <4>2. ~Shown BY <1>2, <1>3, <3>2, <3>4, <4>1 DEF LateFits, StoreFits
      <4>. QED BY <1>2, <3>3, <4>1, <4>2 DEF StoreFits, Shown
    <3>5. CASE call.kind = "capabilities"
      <4>1. /\ call.rev = revs.capability + 1
            /\ sessions'[Mine].activity = sessions[Mine].activity
            /\ revs'.activity = revs.activity
        BY <3>1, <3>5 DEF Carries
      <4>2. ~car.capable BY <1>2, <1>3, <3>2, <3>5, <4>1 DEF LateFits, StoreFits
      <4>. QED BY <1>2, <3>3, <4>1, <4>2 DEF StoreFits, Shown
    <3>. QED BY <3>2, <3>4, <3>5 DEF ProofKinds
  <2>. QED BY <1>1, <2>1, <2>2, <2>3, SessionStep
<1>. QED BY <1>4, <1>5

(* A call about the proof that is answered has brought it to the store.    *)
LEMMA AnswerGives ==
  ASSUME Typed, Proves
  PROVE  /\ late' = late
         /\ car.at = "proving" =>
              /\ sessions'[Mine].capable /\ revs'.capability = car.crev + 1
              /\ sessions'[Mine].activity = sessions[Mine].activity
              /\ revs'.activity = revs.activity
         /\ car.at = "noting" =>
              /\ sessions'[Mine].activity = car.seen /\ revs'.activity = car.arev + 1
              /\ sessions'[Mine].capable = sessions[Mine].capable
              /\ revs'.capability = revs.capability
<1>0. /\ sessions \in [Session -> SessionRecord] /\ Mine \in Session
      /\ sessions[Mine] \in SessionRecord
      /\ revs \in [activity : Nat, capability : Nat]
  BY SidecarAssumption DEF Typed, SidecarTypeOK, TypeOK
<1>1. late' = late /\ Executes(Call) BY DEF Proves, Answered
<1>2. CASE car.at = "proving"
  <2>1. Call.kind = "capabilities" /\ Call.rev = car.crev + 1 BY <1>2, CallEpoch
  <2>2. NotesCapabilities(Call) BY <1>1, <2>1 DEF Executes
  <2>3. CASE UNCHANGED storeVars /\ Call.rev = revs.capability /\ sessions[Mine].capable
    BY <1>1, <1>2, <2>1, <2>3 DEF storeVars, vars
  <2>4. CASE /\ sessions' = [sessions EXCEPT ![Mine].capable = TRUE]
             /\ revs' = [revs EXCEPT !.capability = Call.rev]
    <3>1. sessions'[Mine] = [sessions[Mine] EXCEPT !.capable = TRUE] BY <1>0, <2>4
    <3>2. sessions'[Mine].activity = sessions[Mine].activity BY <1>0, <3>1 DEF SessionRecord
    <3>3. sessions'[Mine].capable = TRUE BY <1>0, <3>1 DEF SessionRecord
    <3>4. revs'.capability = Call.rev /\ revs'.activity = revs.activity BY <1>0, <2>4
    <3>. QED BY <1>1, <1>2, <2>1, <3>2, <3>3, <3>4
  <2>. QED BY <2>2, <2>3, <2>4 DEF NotesCapabilities, NoteCapabilities
<1>3. CASE car.at = "noting"
  <2>1. Call.kind = "activity" /\ Call.rev = car.arev + 1 /\ Call.value = car.seen
    BY <1>3, CallEpoch
  <2>2. NotesActivity(Call) BY <1>1, <2>1 DEF Executes
  <2>3. CASE UNCHANGED storeVars /\ Call.rev = revs.activity /\ Call.value = sessions[Mine].activity
    BY <1>1, <1>3, <2>1, <2>3 DEF storeVars, vars
  <2>4. CASE /\ sessions' = [sessions EXCEPT ![Mine].activity = Call.value]
             /\ revs' = [revs EXCEPT !.activity = Call.rev]
    <3>1. sessions'[Mine] = [sessions[Mine] EXCEPT !.activity = Call.value] BY <1>0, <2>4
    <3>2. sessions'[Mine].activity = Call.value BY <1>0, <3>1 DEF SessionRecord
    <3>3. sessions'[Mine].capable = sessions[Mine].capable BY <1>0, <3>1 DEF SessionRecord
    <3>4. revs'.activity = Call.rev /\ revs'.capability = revs.capability BY <1>0, <2>4
    <3>. QED BY <1>1, <1>3, <2>1, <3>2, <3>3, <3>4
  <2>. QED BY <2>2, <2>3, <2>4 DEF NotesActivity, NoteActivity
<1>. QED BY <1>1, <1>2, <1>3 DEF Proves

(* The store has what was proved.                                          *)
LEMMA ProvedFits ==
  ASSUME Typed, EpochInv, MatchInv, SidecarNext, sessions'[Mine].epoch \in Nat,
         Proves, Proved, InStep'
  PROVE  LateFits' /\ StoreFits'
<1>0. car.at \in {"proving", "noting"} BY DEF Proves
<1>1. InStep /\ ~Clears BY <1>0, WasInStep DEF Proved
<1>2. LateFits /\ StoreFits /\ Unseen BY <1>1 DEF MatchInv
<1>3. car.arev \in Nat /\ car.crev \in Nat BY EpochTypes
<1>4. late' = late /\ car'.epoch = car.epoch BY AnswerGives DEF Proved
<1>5. CASE car.at = "proving"
  <2>1. /\ car'.arev = car.arev /\ car'.crev = car.crev + 1 /\ car'.capable
        /\ car'.at = "noting"
    BY <1>2, <1>5 DEF Proved, Unseen
  <2>2. ~Shown' BY <2>1 DEF Shown
  <2>3. LateFits'
    <3>1. SUFFICES ASSUME NEW call \in late, call.kind \in ProofKinds, call.epoch = car.epoch
                   PROVE  /\ call.kind = "activity" => call.rev <= car'.arev + 1
                          /\ call.kind = "capabilities" => /\ call.rev <= car'.crev + 1
                                                           /\ call.rev <= car'.crev
      BY <1>4, <2>2 DEF LateFits
    <3>2. call.rev \in Nat BY <3>1, EpochTypes
    <3>3. /\ call.kind = "activity" => call.rev <= car.arev + 1
          /\ call.kind = "capabilities" => call.rev <= car.crev + 1
      BY <1>2, <3>1 DEF LateFits
    <3>. QED BY <1>3, <2>1, <3>2, <3>3
  <2>4. StoreFits' BY <1>5, <2>1, <2>2, AnswerGives DEF StoreFits
  <2>. QED BY <2>3, <2>4
<1>6. CASE car.at = "noting"
  <2>1. /\ car'.arev = car.arev + 1 /\ car'.crev = car.crev /\ car'.capable = car.capable
        /\ car'.at = "listening" /\ car'.activity = car.seen
    BY <1>6 DEF Proved
  <2>2. LateFits'
    <3>1. SUFFICES ASSUME NEW call \in late, call.kind \in ProofKinds, call.epoch = car.epoch
                   PROVE  /\ call.kind = "activity" => /\ call.rev <= car'.arev + 1
                                                       /\ call.rev <= car'.arev
                          /\ call.kind = "capabilities" =>
                               /\ call.rev <= car'.crev + 1
                               /\ car'.capable => call.rev <= car'.crev
      BY <1>4 DEF LateFits
    <3>2. call.rev \in Nat BY <3>1, EpochTypes
    <3>3. /\ call.kind = "activity" => call.rev <= car.arev + 1
          /\ call.kind = "capabilities" => /\ call.rev <= car.crev + 1
                                           /\ car.capable => call.rev <= car.crev
      BY <1>2, <3>1 DEF LateFits
    <3>. QED BY <1>3, <2>1, <3>2, <3>3
  <2>3. StoreFits' BY <1>2, <1>6, <2>1, AnswerGives DEF StoreFits, Shown
  <2>. QED BY <2>2, <2>3
<1>. QED BY <1>0, <1>5, <1>6

(* The sidecar and the store agree after each step.                        *)
LEMMA MatchStep ==
  ASSUME Typed, MyRows, FollowInv, EpochInv, DropInv, MatchInv, SidecarNext,
         sessions'[Mine].epoch \in Nat
  PROVE  MatchInv'
<1>1. Unseen' BY UnseenStep DEF MatchInv
<1>. SUFFICES ASSUME InStep' PROVE LateFits' /\ StoreFits' BY <1>1 DEF MatchInv
<1>2. car'.at # "over" BY DEF InStep
<1>3. IF Proves THEN Proved ELSE ProofMoves BY ProofStep
<1>4. CASE Proves BY <1>3, <1>4, ProvedFits
<1>5. CASE Forgets \/ Renews
  <2>1. /\ ~car'.durable /\ car'.at \notin {"proving", "noting"}
        /\ car'.activity = "none" /\ ~car'.capable
    BY <1>2, <1>5 DEF Forgets, Renews
  <2>2. Silent' BY <2>1, DropStep DEF DropInv
  <2>. QED BY <2>1, <2>2, NothingFits
<1>6. CASE ~Proves /\ (Keeps \/ Marks \/ Sees \/ Cancels)
  <2>1. CASE Keeps
    <3>1. car.at # "over" BY <1>2, <2>1 DEF Keeps, Delivering
    <3>2. Shown' => Shown BY <2>1 DEF Keeps, SameProof, Shown, Delivering, MatchInv, Unseen
    <3>3. ClaimsNoMore BY <2>1, <3>1, <3>2 DEF ClaimsNoMore, Keeps, SameProof
    <3>. QED BY <1>6, <3>3, ClaimsStay
  <2>2. CASE Marks \/ Sees \/ Cancels
    <3>1. ClaimsNoMore BY <2>2 DEF ClaimsNoMore, Marks, Sees, Cancels, Shown
    <3>. QED BY <1>6, <3>1, ClaimsStay
  <2>. QED BY <1>6, <2>1, <2>2
<1>. QED BY <1>2, <1>3, <1>4, <1>5, <1>6 DEF ProofMoves, Stops, Dies

-----------------------------------------------------------------------------
(***************************************************************************)
(* The inductive invariant, and what follows from it.                      *)
(***************************************************************************)

SidecarInv ==
  /\ Typed /\ TableInv(batches, attempts)
  /\ MyRows /\ FollowInv /\ TurnInv /\ CompletedInv
  /\ EpochInv /\ DropInv /\ MatchInv

(* A sidecar starts with a session just bound, and an empty store else.    *)
LEMMA SidecarInitTyped == ASSUME SidecarInit PROVE Typed
<1>1. batches \in [Batch -> BatchRecord]
  <2>1. PICK max \in Budgets : batches = [b \in Batch |-> NewBatch(FALSE, FALSE, 0, max)]
    BY DEF SidecarInit
  <2>2. NewBatch(FALSE, FALSE, 0, max) \in BatchRecord BY BudgetAssumption, NewRowType
  <2>. QED BY <2>1, <2>2
<1>2. attempts \in [Attempt -> AttemptRecord]
  <2>1. NoAttempt \in AttemptRecord BY DEF NoAttempt, AttemptRecord
  <2>. QED BY <2>1 DEF SidecarInit
<1>3. sessions \in [Session -> SessionRecord]
  <2>1. NewSession(FALSE) \in SessionRecord BY DEF NewSession, SessionRecord
  <2>2. AbsentSession \in SessionRecord BY DEF AbsentSession, SessionRecord
  <2>. QED BY <2>1, <2>2 DEF SidecarInit
<1>4. TypeOK BY <1>1, <1>2, <1>3 DEF TypeOK, SidecarInit
<1>5. Placed(car) /\ car.at = "connecting"
  BY FreshCarType DEF SidecarInit, FreshCar
<1>6. wire \in [open : BOOLEAN, msgs : Seq(Notes)] BY DEF SidecarInit, Disconnected
<1>7. /\ revs \in [activity : Nat, capability : Nat] /\ late \subseteq Calls
      /\ turns \in [Attempt -> Ran \cup {"unused", "drawn", "requested", "refused"}]
  BY DEF SidecarInit, NoRevs
<1>. QED BY <1>4, <1>5, <1>6, <1>7 DEF Typed, SidecarTypeOK

(* At first nothing has been delivered or proved.                          *)
LEMMA SidecarInitInv == SidecarInit => SidecarInv
<1>. SUFFICES ASSUME SidecarInit PROVE SidecarInv OBVIOUS
<1>1. Typed BY SidecarInitTyped
<1>2. \A a \in Attempt : /\ attempts[a].state = "absent" /\ attempts[a].rpc = "none"
                         /\ attempts[a].event = "none"
  BY DEF SidecarInit, NoAttempt
<1>3. /\ sessions[Mine].state = "live" /\ sessions[Mine].epoch = 1
      /\ sessions[Mine].activity = "unknown" /\ sessions[Mine].capable = FALSE
  BY SidecarAssumption DEF SidecarInit, NewSession
<1>4. /\ car.at = "connecting" /\ car.epoch = 1 /\ ~car.durable /\ ~car.capable
      /\ car.activity = "none"
  BY DEF SidecarInit, FreshCar
<1>5. \A a \in Attempt : turns[a] = "unused" BY DEF SidecarInit
<1>6. late = {} /\ revs = NoRevs BY DEF SidecarInit
<1>7. TableInv(batches, attempts) BY <1>2, NoAttemptsInv
<1>8. MyRows /\ FollowInv BY <1>2, <1>4 DEF MyRows, FollowInv
<1>9. TurnInv BY <1>2, <1>4, <1>5, <1>6 DEF TurnInv, Ran, Ended
<1>10. CompletedInv
  <2>1. Len(wire.msgs) = 0 BY DEF SidecarInit, Disconnected
  <2>2. \A b \in Batch : batches[b].close_reason = "none" BY DEF SidecarInit, NewBatch
  <2>3. DeliveredMeansCompleted BY <2>2 DEF DeliveredMeansCompleted
  <2>. QED BY <1>4, <1>6, <2>1, <2>3 DEF CompletedInv
<1>11. EpochInv BY <1>3, <1>4, <1>6 DEF EpochInv, Bound
<1>12. DropInv BY <1>3, <1>6 DEF DropInv, Silent, IsClear
<1>13. MatchInv
  <2>1. Unseen BY <1>4 DEF Unseen
  <2>2. LateFits BY <1>6 DEF LateFits
  <2>3. StoreFits BY <1>4 DEF StoreFits, Shown
  <2>. QED BY <2>1, <2>2, <2>3 DEF MatchInv
<1>. QED BY <1>1, <1>7, <1>8, <1>9, <1>10, <1>11, <1>12, <1>13 DEF SidecarInv

(* A step that changes nothing changes nothing of it.                      *)
LEMMA StillInv == SidecarInv /\ UNCHANGED carVars => SidecarInv'
<1>. SUFFICES ASSUME SidecarInv, UNCHANGED carVars PROVE SidecarInv' OBVIOUS
<1>1. /\ batches' = batches /\ attempts' = attempts /\ sessions' = sessions /\ clock' = clock
      /\ revs' = revs /\ late' = late /\ car' = car /\ wire' = wire /\ turns' = turns
  BY DEF carVars, storeVars, vars
<1>2. Typed' BY TypedStep DEF SidecarInv
<1>3. TableInv(batches', attempts') BY <1>1 DEF SidecarInv
<1>4. (MyRows /\ FollowInv)' BY <1>1 DEF SidecarInv, MyRows, FollowInv
<1>5. TurnInv' BY <1>1 DEF SidecarInv, TurnInv, NeverSent
<1>6. CompletedInv'
  BY <1>1 DEF SidecarInv, CompletedInv, DeliveredMeansCompleted, OnBatch
<1>7. EpochInv' BY <1>1 DEF SidecarInv, EpochInv, IsClear
<1>8. DropInv' BY <1>1 DEF SidecarInv, DropInv, Silent, IsClear
<1>9. MatchInv'
  BY <1>1 DEF SidecarInv, MatchInv, Unseen, InStep, LateFits, StoreFits, Shown
<1>. QED BY <1>2, <1>3, <1>4, <1>5, <1>6, <1>7, <1>8, <1>9 DEF SidecarInv

(* Each step of the sidecar, and of what surrounds it, keeps it.           *)
LEMMA SidecarInvStep == SidecarInv /\ [SidecarNext]_carVars => SidecarInv'
<1>. SUFFICES ASSUME SidecarInv, SidecarNext PROVE SidecarInv' BY StillInv
<1>1. Typed /\ Typed' BY TypedStep DEF SidecarInv
<1>2. sessions'[Mine].epoch \in Nat
  BY <1>1, SidecarAssumption DEF Typed, SidecarTypeOK, TypeOK, SessionRecord
<1>3. TableInv(batches', attempts')
  <2>1. [Next]_vars BY <1>1, IsStoreStep
  <2>2. Inv BY <1>1 DEF SidecarInv, Inv, Typed, SidecarTypeOK
  <2>. QED BY <2>1, <2>2, InvStep DEF Inv
<1>4. (MyRows /\ FollowInv)' BY <1>1, <1>2, MyRowsStep, FollowStep DEF SidecarInv
<1>5. (TurnInv /\ CompletedInv)' BY <1>1, <1>2, TurnStep, CompletedStep DEF SidecarInv
<1>6. (EpochInv /\ DropInv)' BY <1>1, <1>2, EpochStep, DropStep DEF SidecarInv
<1>7. MatchInv' BY <1>1, <1>2, MatchStep DEF SidecarInv
<1>. QED BY <1>1, <1>3, <1>4, <1>5, <1>6, <1>7 DEF SidecarInv

(* The invariant holds throughout.                                         *)
LEMMA SidecarInvHolds == SidecarSpec => []SidecarInv
BY SidecarInitInv, SidecarInvStep, PTL DEF SidecarSpec

(* The variables of the sidecar, the calls given up and the store keep     *)
(* their types, whatever the sidecar, the user and the app-server do in    *)
(* between.                                                                *)
THEOREM SidecarTypeCorrect == SidecarSpec => []SidecarTypeOK
<1>1. SidecarInv => SidecarTypeOK BY DEF SidecarInv, Typed
<1>. QED BY <1>1, SidecarInvHolds, PTL

(* Whatever the sidecar calls, and however late its calls are executed,    *)
(* the store only makes steps of its own: DeliveryStore allows for all of  *)
(* them.                                                                   *)
THEOREM SidecarUsesStore == SidecarSpec => [][Next]_vars
<1>1. SidecarInv /\ [SidecarNext]_carVars => [Next]_vars BY IsStoreStep DEF SidecarInv
<1>. QED BY <1>1, SidecarInvHolds, PTL DEF SidecarSpec

(* Used by a sidecar, from a session just bound on, the store goes on as   *)
(* the abstract queue does: no call executed late, no kill and no second   *)
(* start makes it send a batch twice, or two at a time.                    *)
THEOREM SidecarMovesQueue == SidecarSpec => [][Queue!QueueNext]_(Queue!qvars)
<1>1. SidecarInv => Inv /\ TypeOK BY DEF SidecarInv, Typed, SidecarTypeOK, Inv
<1>2. Inv /\ TypeOK' /\ [Next]_vars => [Queue!QueueNext]_(Queue!qvars) BY RefinementStep
<1>3. SidecarSpec => []Inv /\ []TypeOK BY <1>1, SidecarInvHolds, PTL
<1>. QED BY <1>2, <1>3, SidecarUsesStore, PTL

(* Of an attempt recorded as rejected before the accept no turn ever runs  *)
(* (reject_cli_accept), so that a batch offered again runs once.           *)
THEOREM RejectedNeverRanAlways == SidecarSpec => []RejectedNeverRan
<1>1. SidecarInv => RejectedNeverRan BY NeverRan DEF SidecarInv
<1>. QED BY <1>1, SidecarInvHolds, PTL

(* The turn of a batch that is closed as delivered has completed           *)
(* (observe_cli_turn).                                                     *)
THEOREM DeliveredMeansCompletedAlways == SidecarSpec => []DeliveredMeansCompleted
<1>1. SidecarInv => DeliveredMeansCompleted BY DEF SidecarInv, CompletedInv
<1>. QED BY <1>1, SidecarInvHolds, PTL

(* Once the sidecar has had its proof invalidated the store has none, also *)
(* after calls that were given up, a kill and a new start.                 *)
THEOREM DroppedIsClearedAlways == SidecarSpec => []DroppedIsCleared
<1>1. SidecarInv => DroppedIsCleared BY DEF SidecarInv, DropInv, Silent, DroppedIsCleared
<1>. QED BY <1>1, SidecarInvHolds, PTL

(* The proof the sidecar believes to have given is the one the store has.  *)
THEOREM ProofMatchesAlways == SidecarSpec => []ProofMatches
<1>1. ASSUME SidecarInv PROVE ProofMatches
  <2>. SUFFICES ASSUME car.at = "listening", car.activity # "none", IsAttachable(Mine),
                       car.epoch = sessions[Mine].epoch
                PROVE  /\ sessions[Mine].activity = car.activity /\ revs.activity = car.arev
                       /\ car.capable => sessions[Mine].capable /\ revs.capability = car.crev
    BY DEF ProofMatches
  <2>1. InStep /\ Shown BY DEF InStep, Shown, IsAttachable, Bound
  <2>. QED BY <1>1, <2>1 DEF SidecarInv, MatchInv, StoreFits
<1>. QED BY <1>1, SidecarInvHolds, PTL

=============================================================================
