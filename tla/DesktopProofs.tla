--------------------------- MODULE DesktopProofs ---------------------------
(***************************************************************************)
(* Proofs about the Desktop bridge, modules DesktopArm and DesktopRelay.   *)
(* The invariant Inv has three parts: the tables of batches and attempts   *)
(* (TableInv: one busy attempt, counters that agree with what was charged, *)
(* nothing after a hand-over), the markers (MarkerInv: an arm_accepted     *)
(* marker follows on an arm_pending marker that was taken under the same   *)
(* binding), and the scans (ScanInv: what lies behind a cursor, and what a *)
(* scan is about to put behind it, is dealt with).  From it: TypeCorrect,  *)
(* OneAttemptInFlightAlways, EachArmCountedOnceAlways,                     *)
(* HandedOverOnceAlways, ArmedAsPendedAlways and NothingSkippedAlways.     *)
(***************************************************************************)
EXTENDS DesktopRelay, FiniteSetTheorems, SequenceTheorems, TLAPS

(***************************************************************************)
(* The tables of batches and attempts.                                     *)
(***************************************************************************)

(* The rows of the two tables.                                             *)
BatchRow == [open : BOOLEAN, count : 0 .. MaxDeliveries]
Tables(bs, as) == bs \in [Batch -> BatchRow] /\ as \in Seq(AttemptRecord)

(* An attempt is in flight, and at most one is.                            *)
Busy(bs, as, a) == as[a].state \in ActiveStates /\ bs[as[a].batch].open

OneBusy(bs, as) == \A a, c \in DOMAIN as : Busy(bs, as, a) /\ Busy(bs, as, c) => a = c

(* A batch's counter is the number of the attempts charged to it.          *)
ChargedTo(as, b) == {a \in DOMAIN as : as[a].batch = b /\ as[a].counted}

CountsAgree(bs, as) == \A b \in Batch : bs[b].count = Cardinality(ChargedTo(as, b))

(* An attempt is charged when it reaches cooldown, and not before.         *)
Uncharged == {"prepared", "accept_pending", "arm_pending"}
NotYetCharged(as) == \A a \in DOMAIN as : as[a].state \in Uncharged => ~as[a].counted

(* The budget that was left when a CLI attempt began is left when it is    *)
(* accepted.                                                               *)
Affordable(bs, as) ==
  \A a \in DOMAIN as : as[a].state = "accept_pending" /\ bs[as[a].batch].open
     => bs[as[a].batch].count < MaxDeliveries

(* The attempt in flight is the last one of its batch: attempts begin only *)
(* when none is in flight, and one that has ended is in flight no more.    *)
BusyIsLast(bs, as) == \A a, c \in DOMAIN as : Busy(bs, as, a) /\ as[c].batch = as[a].batch => c <= a

(* A batch that was handed to Desktop is in cooldown until it is closed,   *)
(* and no attempt follows on the one that handed it over.                  *)
HandedOver(r) == r.adapter = "desktop" /\ r.counted

StaysHandedOver(bs, as) ==
  \A a \in DOMAIN as : HandedOver(as[a])
    => as[a].state \in {"cooldown", "closed"} /\ (bs[as[a].batch].open => as[a].state = "cooldown")

HandedOverIsLast(as) ==
  \A a, c \in DOMAIN as : HandedOver(as[a]) /\ as[c].batch = as[a].batch => c <= a

(* The invariant of the two tables.                                        *)
TableInv(bs, as) ==
  /\ Tables(bs, as)
  /\ OneBusy(bs, as)
  /\ CountsAgree(bs, as)
  /\ NotYetCharged(as)
  /\ Affordable(bs, as)
  /\ BusyIsLast(bs, as)
  /\ StaysHandedOver(bs, as)
  /\ HandedOverIsLast(as)

(* An attempt is pended or ended, or left as it is.                        *)
RowRelaxes(r, r2) ==
  /\ r2.batch = r.batch /\ r2.counted = r.counted /\ r2.adapter = r.adapter
  /\ r2.state \in ActiveStates => r.state \in ActiveStates
  /\ r2.state \in Uncharged => r.state \in Uncharged
  /\ r2.state = "accept_pending" => r.state = "accept_pending"
  /\ r.adapter = "desktop" /\ r.state \in {"cooldown", "closed"}
       => r2.state \in {"cooldown", "closed"}

(* What Desktop was handed over stays in cooldown.                         *)
CooldownKept(r, r2) == r.adapter = "desktop" /\ r.state = "cooldown" => r2.state = "cooldown"

(* Attempts are only pended or ended, batches only closed.                 *)
Relaxes(bs, bs2, as, as2) ==
  /\ DOMAIN as2 = DOMAIN as
  /\ \A b \in Batch : bs2[b].count = bs[b].count /\ (bs2[b].open => bs[b].open)
  /\ \A a \in DOMAIN as : RowRelaxes(as[a], as2[a])
  /\ \A a \in DOMAIN as : bs2[as[a].batch].open => CooldownKept(as[a], as2[a])

(* One attempt is charged to its batch.                                    *)
Charges(bs, bs2, as, as2, a) ==
  /\ as2 = [as EXCEPT ![a].state = "cooldown", ![a].counted = TRUE]
  /\ bs2 = [bs EXCEPT ![as[a].batch].count = @ + 1]

(* Every attempt belongs to a batch, and the sequence is its own domain.   *)
LEMMA RowOf ==
  ASSUME NEW as \in Seq(AttemptRecord), NEW a \in DOMAIN as
  PROVE  as[a] \in AttemptRecord /\ as[a].batch \in Batch /\ a \in Nat
<1>1. DOMAIN as = 1 .. Len(as) BY LenProperties
<1>2. as[a] \in AttemptRecord BY <1>1, ElementOfSeq
<1>3. a \in Nat BY <1>1
<1>. QED BY <1>2, <1>3 DEF AttemptRecord

(* An initial segment is finite.                                           *)
LEMMA SegmentFinite == ASSUME NEW n \in Nat PROVE IsFiniteSet(1 .. n) /\ Cardinality(1 .. n) = n
<1>1. n \in Int /\ 1 \in Int OBVIOUS
<1>2. Cardinality(1 .. n) = IF 1 > n THEN 0 ELSE n - 1 + 1 BY <1>1, FS_Interval
<1>3. IsFiniteSet(1 .. n) BY <1>1, FS_Interval
<1>. QED BY <1>2, <1>3

(* The attempts charged to a batch are finitely many.                      *)
LEMMA ChargedFinite ==
  ASSUME NEW as \in Seq(AttemptRecord), NEW b
  PROVE  IsFiniteSet(ChargedTo(as, b)) /\ ChargedTo(as, b) \subseteq 1 .. Len(as)
<1>1. DOMAIN as = 1 .. Len(as) /\ Len(as) \in Nat BY LenProperties
<1>2. IsFiniteSet(1 .. Len(as)) BY <1>1, SegmentFinite
<1>3. ChargedTo(as, b) \subseteq 1 .. Len(as) BY <1>1 DEF ChargedTo
<1>. QED BY <1>2, <1>3, FS_Subset

(* What appending leaves alone, and where it puts the new element.         *)
Appended(q, p, e) ==
  /\ DOMAIN p = DOMAIN q \cup {Len(q) + 1}
  /\ Len(q) + 1 \notin DOMAIN q
  /\ Len(p) = Len(q) + 1
  /\ p[Len(q) + 1] = e
  /\ \A i \in DOMAIN q : p[i] = q[i]

(* Appending does just that.                                               *)
LEMMA AppendFacts ==
  ASSUME NEW S, NEW q \in Seq(S), NEW e \in S, NEW p, p = Append(q, e)
  PROVE  Appended(q, p, e) /\ p \in Seq(S)
<1>1. DOMAIN q = 1 .. Len(q) /\ Len(q) \in Nat BY LenProperties
<1>2. /\ p \in Seq(S) /\ Len(p) = Len(q) + 1
      /\ p[Len(q) + 1] = e
      /\ \A i \in 1 .. Len(q) : p[i] = q[i]
  BY AppendProperties
<1>3. DOMAIN p = 1 .. Len(q) + 1 BY <1>2, LenProperties
<1>4. DOMAIN p = DOMAIN q \cup {Len(q) + 1} BY <1>1, <1>3
<1>. QED BY <1>1, <1>2, <1>4 DEF Appended

(* What is appended comes last.                                            *)
LEMMA NextIsLast ==
  ASSUME NEW S, NEW q \in Seq(S)
  PROVE  Len(q) + 1 \in Nat /\ \A i \in DOMAIN q : i \in Nat /\ i <= Len(q) + 1
<1>1. DOMAIN q = 1 .. Len(q) /\ Len(q) \in Nat BY LenProperties
<1>. QED BY <1>1

(* Pending and ending attempts, and closing batches, keeps the invariant.  *)
LEMMA RelaxKeeps ==
  ASSUME NEW bs, NEW bs2, NEW as, NEW as2,
         TableInv(bs, as), Tables(bs2, as2), Relaxes(bs, bs2, as, as2)
  PROVE  TableInv(bs2, as2)
<1>. USE DEF TableInv, Tables, Relaxes, RowRelaxes
<1>1. \A a \in DOMAIN as : as[a].batch \in Batch BY RowOf
<1>2. \A a \in DOMAIN as : Busy(bs2, as2, a) => Busy(bs, as, a) BY <1>1 DEF Busy
<1>3. OneBusy(bs2, as2) BY <1>2 DEF OneBusy
<1>4. \A b \in Batch : ChargedTo(as2, b) = ChargedTo(as, b) BY DEF ChargedTo
<1>5. CountsAgree(bs2, as2) BY <1>4 DEF CountsAgree
<1>6. NotYetCharged(as2) BY DEF NotYetCharged
<1>7. Affordable(bs2, as2) BY <1>1 DEF Affordable
<1>8. BusyIsLast(bs2, as2) BY <1>2 DEF BusyIsLast
<1>9. \A a \in DOMAIN as : HandedOver(as2[a]) <=> HandedOver(as[a]) BY DEF HandedOver
<1>10. StaysHandedOver(bs2, as2)
  <2>. SUFFICES ASSUME NEW a \in DOMAIN as, HandedOver(as[a])
                PROVE  /\ as2[a].state \in {"cooldown", "closed"}
                       /\ bs2[as2[a].batch].open => as2[a].state = "cooldown"
    BY <1>9 DEF StaysHandedOver
  <2>1. /\ as[a].adapter = "desktop" /\ as[a].state \in {"cooldown", "closed"}
        /\ bs[as[a].batch].open => as[a].state = "cooldown"
    BY DEF StaysHandedOver, HandedOver
  <2>. QED BY <1>1, <2>1 DEF CooldownKept
<1>11. HandedOverIsLast(as2) BY <1>9 DEF HandedOverIsLast
<1>. QED BY <1>3, <1>5, <1>6, <1>7, <1>8, <1>10, <1>11

(* A batch with budget left may be charged once more.                      *)
LEMMA CountedRow ==
  ASSUME NEW r \in BatchRow, r.count < MaxDeliveries
  PROVE  [r EXCEPT !.count = @ + 1] \in BatchRow
<1>1. MaxDeliveries \in Nat BY ArmAssumption
<1>2. r.count + 1 \in 0 .. MaxDeliveries BY <1>1 DEF BatchRow
<1>. QED BY <1>2 DEF BatchRow

(* Charging the attempt in flight, while its budget lasts, keeps it.       *)
LEMMA ChargeKeeps ==
  ASSUME NEW bs, NEW bs2, NEW as, NEW as2, NEW a \in DOMAIN as,
         TableInv(bs, as), Busy(bs, as, a), as[a].state \in Uncharged,
         bs[as[a].batch].count < MaxDeliveries, Charges(bs, bs2, as, as2, a)
  PROVE  TableInv(bs2, as2)
<1>. DEFINE b == as[a].batch
<1>. USE DEF TableInv, Tables
<1>1. \A c \in DOMAIN as : as[c] \in AttemptRecord /\ as[c].batch \in Batch BY RowOf
<1>2. b \in Batch /\ bs[b] \in BatchRow BY <1>1
<1>3. [bs[b] EXCEPT !.count = @ + 1] \in BatchRow BY <1>2, CountedRow
<1>4. bs2 = [bs EXCEPT ![b] = [bs[b] EXCEPT !.count = @ + 1]] BY <1>2 DEF Charges
<1>5. bs2 \in [Batch -> BatchRow] BY <1>3, <1>4
<1>6. [as[a] EXCEPT !.state = "cooldown", !.counted = TRUE] \in AttemptRecord
  BY <1>1 DEF AttemptRecord
<1>7. as2 = [as EXCEPT ![a] = [as[a] EXCEPT !.state = "cooldown", !.counted = TRUE]]
  BY DEF Charges
<1>8. as2 \in Seq(AttemptRecord)
  BY <1>6, <1>7, LenProperties, ExceptSeq
<1>9. DOMAIN as2 = DOMAIN as BY <1>7
<1>10. \A c \in DOMAIN as \ {a} : as2[c] = as[c] BY <1>7
<1>11. /\ as2[a].batch = b /\ as2[a].state = "cooldown" /\ as2[a].counted = TRUE
  BY <1>1, <1>7 DEF AttemptRecord
<1>12. \A d \in Batch : bs2[d].open = bs[d].open BY <1>2, <1>4 DEF BatchRow
<1>13. \A d \in Batch \ {b} : bs2[d] = bs[d] BY <1>4
<1>14. bs2[b].count = bs[b].count + 1 BY <1>2, <1>4 DEF BatchRow
<1>15. OneBusy(bs2, as2)
  <2>1. \A c \in DOMAIN as : Busy(bs2, as2, c) => Busy(bs, as, c)
    BY <1>1, <1>9, <1>10, <1>11, <1>12 DEF Busy
  <2>. QED BY <1>9, <2>1 DEF OneBusy
<1>16. ~as[a].counted BY DEF NotYetCharged
<1>17. \A d \in Batch \ {b} : ChargedTo(as2, d) = ChargedTo(as, d)
  BY <1>9, <1>10, <1>11 DEF ChargedTo
<1>18. ChargedTo(as2, b) = ChargedTo(as, b) \cup {a}
  BY <1>9, <1>10, <1>11 DEF ChargedTo
<1>19. a \notin ChargedTo(as, b) BY <1>16 DEF ChargedTo
<1>20. Cardinality(ChargedTo(as2, b)) = Cardinality(ChargedTo(as, b)) + 1
  BY <1>18, <1>19, ChargedFinite, FS_AddElement
<1>21. CountsAgree(bs2, as2)
  <2>1. ASSUME NEW d \in Batch PROVE bs2[d].count = Cardinality(ChargedTo(as2, d))
    <3>1. CASE d = b BY <1>2, <1>14, <1>20, <3>1 DEF CountsAgree
    <3>2. CASE d # b BY <1>13, <1>17, <3>2 DEF CountsAgree
    <3>. QED BY <3>1, <3>2
  <2>. QED BY <2>1 DEF CountsAgree
<1>22. NotYetCharged(as2) BY <1>9, <1>10, <1>11 DEF NotYetCharged, Uncharged
<1>23. Affordable(bs2, as2)
  <2>. SUFFICES ASSUME NEW c \in DOMAIN as, as2[c].state = "accept_pending",
                       bs2[as2[c].batch].open
                PROVE  bs2[as2[c].batch].count < MaxDeliveries
    BY <1>9 DEF Affordable
  <2>1. c # a BY <1>11
  <2>2. as2[c] = as[c] /\ bs[as[c].batch].open BY <1>1, <1>10, <1>12, <2>1
  <2>3. Busy(bs, as, c) BY <2>2 DEF Busy, ActiveStates
  <2>. QED BY <2>1, <2>3 DEF OneBusy
<1>24. \A c \in DOMAIN as : as[c].batch = b => c <= a BY DEF BusyIsLast
<1>25. BusyIsLast(bs2, as2)
  <2>1. \A c \in DOMAIN as : Busy(bs2, as2, c) => Busy(bs, as, c)
    BY <1>1, <1>9, <1>10, <1>11, <1>12 DEF Busy
  <2>2. \A c \in DOMAIN as : as2[c].batch = as[c].batch BY <1>10, <1>11
  <2>. QED BY <1>9, <2>1, <2>2 DEF BusyIsLast
<1>26. StaysHandedOver(bs2, as2)
  <2>. SUFFICES ASSUME NEW c \in DOMAIN as, HandedOver(as2[c])
                PROVE  /\ as2[c].state \in {"cooldown", "closed"}
                       /\ bs2[as2[c].batch].open => as2[c].state = "cooldown"
    BY <1>9 DEF StaysHandedOver
  <2>1. CASE c = a BY <1>11, <2>1
  <2>2. CASE c # a
    <3>1. as2[c] = as[c] /\ HandedOver(as[c]) BY <1>10, <2>2
    <3>2. bs2[as[c].batch].open = bs[as[c].batch].open BY <1>1, <1>12
    <3>3. /\ as[c].state \in {"cooldown", "closed"}
          /\ bs[as[c].batch].open => as[c].state = "cooldown"
      BY <3>1 DEF StaysHandedOver
    <3>. QED BY <3>1, <3>2, <3>3
  <2>. QED BY <2>1, <2>2
<1>27. HandedOverIsLast(as2)
  <2>. SUFFICES ASSUME NEW c \in DOMAIN as, NEW d \in DOMAIN as, HandedOver(as2[c]),
                       as2[d].batch = as2[c].batch
                PROVE  d <= c
    BY <1>9 DEF HandedOverIsLast
  <2>1. as2[d].batch = as[d].batch /\ as2[c].batch = as[c].batch BY <1>10, <1>11
  <2>2. CASE c = a BY <1>24, <2>1, <2>2
  <2>3. CASE c # a BY <1>10, <2>1, <2>3 DEF HandedOverIsLast
  <2>. QED BY <2>2, <2>3
<1>. QED BY <1>5, <1>8, <1>15, <1>21, <1>22, <1>23, <1>25, <1>26, <1>27

(* Beginning an attempt when none is in flight keeps it.                   *)
LEMMA AppendKeeps ==
  ASSUME NEW bs, NEW as, NEW as2, NEW r \in AttemptRecord,
         TableInv(bs, as), \A a \in DOMAIN as : ~Busy(bs, as, a), as2 = Append(as, r),
         bs[r.batch].open, ~r.counted,
         r.state = "accept_pending" => bs[r.batch].count < MaxDeliveries
  PROVE  TableInv(bs, as2)
<1>1. as \in Seq(AttemptRecord) BY DEF TableInv, Tables
<1>2. Len(as) + 1 \in Nat /\ \A a \in DOMAIN as : a \in Nat /\ a <= Len(as) + 1
  BY <1>1, NextIsLast
<1>3. Appended(as, as2, r) /\ as2 \in Seq(AttemptRecord) BY <1>1, AppendFacts
<1>. USE <1>3 DEF TableInv, Tables, Appended
<1>4. \A a \in DOMAIN as : ~Busy(bs, as2, a) BY DEF Busy
<1>5. OneBusy(bs, as2) BY <1>4 DEF OneBusy
<1>6. \A b \in Batch : ChargedTo(as2, b) = ChargedTo(as, b) BY DEF ChargedTo
<1>7. CountsAgree(bs, as2) BY <1>6 DEF CountsAgree
<1>8. NotYetCharged(as2) BY DEF NotYetCharged
<1>9. Affordable(bs, as2) BY DEF Affordable
<1>10. BusyIsLast(bs, as2)
  <2>. SUFFICES ASSUME NEW a \in DOMAIN as2, NEW c \in DOMAIN as2, Busy(bs, as2, a) PROVE c <= a
    BY DEF BusyIsLast
  <2>1. a = Len(as) + 1 BY <1>4
  <2>2. c \in DOMAIN as \/ c = Len(as) + 1 OBVIOUS
  <2>3. \A n \in Nat : n <= n OBVIOUS
  <2>. QED BY <1>2, <2>1, <2>2, <2>3, Zenon
<1>11. StaysHandedOver(bs, as2) BY DEF StaysHandedOver, HandedOver
<1>12. ASSUME NEW a \in DOMAIN as, HandedOver(as[a]), as[a].batch = r.batch PROVE FALSE
  <2>1. as[a].state = "cooldown" BY <1>12 DEF StaysHandedOver
  <2>. QED BY <1>12, <2>1 DEF Busy, ActiveStates
<1>13. HandedOverIsLast(as2)
  <2>. SUFFICES ASSUME NEW a \in DOMAIN as2, NEW c \in DOMAIN as2, HandedOver(as2[a]),
                       as2[c].batch = as2[a].batch
                PROVE  c <= a
    BY DEF HandedOverIsLast
  <2>1. a \in DOMAIN as BY DEF HandedOver
  <2>2. c \in DOMAIN as BY <1>12, <2>1
  <2>. QED BY <2>1, <2>2 DEF HandedOverIsLast
<1>. QED BY <1>3, <1>5, <1>7, <1>8, <1>9, <1>10, <1>11, <1>13

(* A function on the domain of a sequence is a sequence as long.           *)
LEMMA SameDomain ==
  ASSUME NEW S, NEW T, NEW q \in Seq(T), NEW p \in [DOMAIN q -> S]
  PROVE  p \in Seq(S) /\ Len(p) = Len(q) /\ DOMAIN p = DOMAIN q
<1>1. DOMAIN q = 1 .. Len(q) /\ Len(q) \in Nat BY LenProperties
<1>2. p \in [1 .. Len(q) -> S] BY <1>1
<1>3. p \in Seq(S) BY <1>1, <1>2, SeqDef
<1>4. DOMAIN p = 1 .. Len(p) /\ Len(p) \in Nat BY <1>3, LenProperties
<1>5. DOMAIN p = 1 .. Len(q) BY <1>2
<1>6. Len(p) = Len(q) BY <1>1, <1>4, <1>5
<1>. QED BY <1>1, <1>3, <1>4, <1>6

(* Sequences of one domain are of one length.                              *)
LEMMA SameLen ==
  ASSUME NEW S, NEW T, NEW q \in Seq(T), NEW p \in Seq(S), DOMAIN p = DOMAIN q
  PROVE  Len(p) = Len(q)
<1>1. DOMAIN q = 1 .. Len(q) /\ Len(q) \in Nat BY LenProperties
<1>2. DOMAIN p = 1 .. Len(p) /\ Len(p) \in Nat BY LenProperties
<1>3. \A m, n \in Nat : 1 .. m = 1 .. n => m = n
  <2>. SUFFICES ASSUME NEW m \in Nat, NEW n \in Nat, 1 .. m = 1 .. n PROVE m = n OBVIOUS
  <2>1. Cardinality(1 .. m) = m /\ Cardinality(1 .. n) = n BY SegmentFinite
  <2>. QED BY <2>1
<1>. QED BY <1>1, <1>2, <1>3

(* Replacing one element of a sequence.                                    *)
LEMMA Replaces ==
  ASSUME NEW S, NEW q \in Seq(S), NEW i \in DOMAIN q, NEW e \in S, NEW p, p = [q EXCEPT ![i] = e]
  PROVE  /\ p \in Seq(S) /\ DOMAIN p = DOMAIN q /\ Len(p) = Len(q) /\ p[i] = e
         /\ \A j \in DOMAIN q \ {i} : p[j] = q[j]
<1>1. DOMAIN q = 1 .. Len(q) BY LenProperties
<1>2. \A j \in DOMAIN q : q[j] \in S BY <1>1, ElementOfSeq
<1>3. p \in [DOMAIN q -> S] BY <1>2
<1>. QED BY <1>3, SameDomain

(* A row that changes while its batch stays open; a Desktop attempt is     *)
(* abandoned only before it is charged.                                    *)
RowChanges(r, r2) == RowRelaxes(r, r2) /\ CooldownKept(r, r2)
Abandonable(r) == r.adapter = "cli" \/ r.state \in Uncharged

(* How a row is pended and ended.                                          *)
LEMMA RowUpdates ==
  ASSUME NEW r \in AttemptRecord
  PROVE  /\ LET p == [r EXCEPT !.state = "abandoned"]
            IN  p \in AttemptRecord /\ (Abandonable(r) => RowChanges(r, p))
         /\ LET p == [r EXCEPT !.state = "closed"]
            IN  p \in AttemptRecord /\ RowRelaxes(r, p)
         /\ \A q, d \in Nat :
              LET p == [r EXCEPT !.state = "arm_pending", !.request = q, !.deadline = d]
              IN  p \in AttemptRecord /\ (r.state = "prepared" => RowChanges(r, p))
         /\ RowChanges(r, r)
<1>. USE DEF AttemptRecord, RowChanges, RowRelaxes, CooldownKept, Abandonable,
             ActiveStates, Uncharged
<1>1. LET p == [r EXCEPT !.state = "abandoned"]
      IN  p \in AttemptRecord /\ (Abandonable(r) => RowChanges(r, p))
  OBVIOUS
<1>2. LET p == [r EXCEPT !.state = "closed"]
      IN  p \in AttemptRecord /\ RowRelaxes(r, p)
  OBVIOUS
<1>3. ASSUME NEW q \in Nat, NEW d \in Nat
      PROVE  LET p == [r EXCEPT !.state = "arm_pending", !.request = q, !.deadline = d]
             IN  p \in AttemptRecord /\ (r.state = "prepared" => RowChanges(r, p))
  OBVIOUS
<1>. QED BY <1>1, <1>2, <1>3

(* Pending or ending one attempt keeps the invariant.                      *)
LEMMA OneRelaxed ==
  ASSUME NEW bs, NEW as, NEW as2, NEW a \in DOMAIN as, NEW r \in AttemptRecord,
         TableInv(bs, as), RowChanges(as[a], r), as2 = [as EXCEPT ![a] = r]
  PROVE  TableInv(bs, as2)
<1>1. as \in Seq(AttemptRecord) BY DEF TableInv, Tables
<1>2. \A c \in DOMAIN as : as[c] \in AttemptRecord BY <1>1, RowOf
<1>3. /\ as2 \in Seq(AttemptRecord) /\ DOMAIN as2 = DOMAIN as /\ as2[a] = r
      /\ \A c \in DOMAIN as \ {a} : as2[c] = as[c]
  BY <1>1, Replaces
<1>4. \A c \in DOMAIN as : RowChanges(as[c], as2[c]) BY <1>2, <1>3, RowUpdates
<1>5. Relaxes(bs, bs, as, as2) BY <1>3, <1>4 DEF Relaxes, RowChanges
<1>6. Tables(bs, as2) BY <1>3 DEF TableInv, Tables
<1>. QED BY <1>5, <1>6, RelaxKeeps

(* note_desktop_arm_pending_tx keeps the invariant.                        *)
LEMMA PendKeeps ==
  ASSUME TableInv(batches, attempts), NEW a \in DOMAIN attempts, NEW r \in Nat, NEW now \in Nat,
         NEW outcome, NotesArmPending(a, r, now, outcome)
  PROVE  TableInv(batches', attempts') /\ DOMAIN attempts' = DOMAIN attempts
<1>1. attempts \in Seq(AttemptRecord) BY DEF TableInv, Tables
<1>2. attempts[a] \in AttemptRecord BY <1>1, RowOf
<1>3. batches' = batches BY DEF NotesArmPending
<1>4. CASE UNCHANGED attempts BY <1>3, <1>4
<1>5. CASE MayPend(a, now) /\ Pends(a, r, now)
  <2>. DEFINE p == [attempts[a] EXCEPT !.state = "arm_pending", !.request = r,
                                       !.deadline = now + LeaseTtl]
  <2>1. now + LeaseTtl \in Nat BY ArmAssumption
  <2>2. p \in AttemptRecord /\ RowChanges(attempts[a], p)
    BY <1>2, <1>5, <2>1, RowUpdates DEF MayPend
  <2>3. attempts' = [attempts EXCEPT ![a] = p] BY <1>5 DEF Pends
  <2>. HIDE DEF p
  <2>. QED BY <1>1, <1>3, <2>2, <2>3, OneRelaxed, Replaces
<1>6. CASE PendLapses(a, r, now) /\ SetState(a, "abandoned")
  <2>. DEFINE p == [attempts[a] EXCEPT !.state = "abandoned"]
  <2>1. Abandonable(attempts[a]) BY <1>6 DEF PendLapses, IsPendingFor, Abandonable, Uncharged
  <2>2. p \in AttemptRecord /\ RowChanges(attempts[a], p) BY <1>2, <2>1, RowUpdates
  <2>3. attempts' = [attempts EXCEPT ![a] = p] BY <1>6 DEF SetState
  <2>. HIDE DEF p
  <2>. QED BY <1>1, <1>3, <2>2, <2>3, OneRelaxed, Replaces
<1>. QED BY <1>4, <1>5, <1>6 DEF NotesArmPending

(* note_desktop_arm_tx keeps it.                                           *)
LEMMA ArmKeeps ==
  ASSUME TableInv(batches, attempts), NEW a \in DOMAIN attempts, NEW r, NEW now,
         NEW outcome, NotesArm(a, r, now, outcome)
  PROVE  TableInv(batches', attempts') /\ DOMAIN attempts' = DOMAIN attempts
<1>1. attempts \in Seq(AttemptRecord) BY DEF TableInv, Tables
<1>2. attempts[a] \in AttemptRecord BY <1>1, RowOf
<1>4. CASE UNCHANGED <<attempts, batches, binding>> BY <1>4
<1>5. CASE MayArm(a, r, now) /\ Arms(a)
  <2>1. Busy(batches, attempts, a) /\ attempts[a].state \in Uncharged
    BY <1>5 DEF MayArm, IsPendingFor, Eligible, IsHead, Busy, ActiveStates, Uncharged
  <2>2. batches[attempts[a].batch].count < MaxDeliveries BY <1>5 DEF MayArm, HasBudget
  <2>3. Charges(batches, batches', attempts, attempts', a) BY <1>5 DEF Arms, Charges
  <2>4. TableInv(batches', attempts') BY <2>1, <2>2, <2>3, ChargeKeeps
  <2>5. DOMAIN attempts' = DOMAIN attempts BY <2>3 DEF Charges
  <2>. QED BY <2>4, <2>5
<1>6. CASE ArmLapses(a, r, now) /\ SetState(a, "abandoned") /\ UNCHANGED <<batches, binding>>
  <2>. DEFINE p == [attempts[a] EXCEPT !.state = "abandoned"]
  <2>1. Abandonable(attempts[a]) BY <1>6 DEF ArmLapses, IsPendingFor, Abandonable, Uncharged
  <2>2. p \in AttemptRecord /\ RowChanges(attempts[a], p) BY <1>2, <2>1, RowUpdates
  <2>3. attempts' = [attempts EXCEPT ![a] = p] BY <1>6 DEF SetState
  <2>. HIDE DEF p
  <2>. QED BY <1>1, <1>6, <2>2, <2>3, OneRelaxed, Replaces
<1>. QED BY <1>4, <1>5, <1>6 DEF NotesArm

(* The maintenance sweep keeps it.                                         *)
LEMMA SweepKeeps ==
  ASSUME TableInv(batches, attempts), NEW now, SweepAt(now)
  PROVE  /\ TableInv(batches', attempts') /\ Len(attempts') = Len(attempts)
         /\ DOMAIN attempts' = DOMAIN attempts
<1>1. attempts \in Seq(AttemptRecord) BY DEF TableInv, Tables
<1>2. \A a \in DOMAIN attempts : attempts[a] \in AttemptRecord BY <1>1, RowOf
<1>3. \A a \in DOMAIN attempts : /\ attempts'[a] \in AttemptRecord
                                 /\ RowChanges(attempts[a], attempts'[a])
  BY <1>2, RowUpdates DEF SweepAt, Swept, Attempt, Abandonable, Uncharged
<1>4. attempts' \in [DOMAIN attempts -> AttemptRecord] BY <1>3 DEF SweepAt, Swept, Attempt
<1>5. /\ attempts' \in Seq(AttemptRecord) /\ DOMAIN attempts' = DOMAIN attempts
      /\ Len(attempts') = Len(attempts)
  BY <1>1, <1>4, SameDomain
<1>6. batches \in [Batch -> BatchRow] BY DEF TableInv, Tables
<1>7. \A b \in Batch : \E open \in BOOLEAN :
        batches'[b] = [batches[b] EXCEPT !.open = open] /\ (open => batches[b].open)
  BY <1>6 DEF SweepAt, BatchRow
<1>8. batches' \in [Batch -> BatchRow] BY <1>6, <1>7 DEF SweepAt, BatchRow
<1>9. \A b \in Batch : /\ batches'[b].count = batches[b].count
                       /\ batches'[b].open => batches[b].open
  BY <1>6, <1>7 DEF BatchRow
<1>10. Relaxes(batches, batches', attempts, attempts') BY <1>3, <1>5, <1>9 DEF Relaxes, RowChanges
<1>11. Tables(batches', attempts') BY <1>5, <1>8 DEF Tables
<1>. QED BY <1>5, <1>10, <1>11, RelaxKeeps

(* Closing the head keeps it.                                              *)
LEMMA CloseHeadKeeps ==
  ASSUME TableInv(batches, attempts), CloseHead
  PROVE  /\ TableInv(batches', attempts') /\ Len(attempts') = Len(attempts)
         /\ DOMAIN attempts' = DOMAIN attempts
<1>1. attempts \in Seq(AttemptRecord) BY DEF TableInv, Tables
<1>2. \A a \in DOMAIN attempts : attempts[a] \in AttemptRecord BY <1>1, RowOf
<1>3. PICK b \in Batch :
        /\ batches' = [batches EXCEPT ![b].open = FALSE]
        /\ attempts' = [a \in Attempt |->
             IF attempts[a].batch = b /\ attempts[a].state \in ActiveStates
             THEN [attempts[a] EXCEPT !.state = "closed"] ELSE attempts[a]]
  BY DEF CloseHead
<1>4. ASSUME NEW a \in DOMAIN attempts
      PROVE  /\ attempts'[a] \in AttemptRecord
             /\ RowRelaxes(attempts[a], attempts'[a])
             /\ attempts[a].batch # b => attempts'[a] = attempts[a]
  <2>1. \/ attempts[a].batch = b /\ attempts'[a] = [attempts[a] EXCEPT !.state = "closed"]
        \/ attempts'[a] = attempts[a]
    BY <1>3 DEF Attempt
  <2>. QED BY <1>2, <2>1, RowUpdates DEF RowChanges
<1>5. attempts' \in [DOMAIN attempts -> AttemptRecord] BY <1>3, <1>4 DEF Attempt
<1>6. /\ attempts' \in Seq(AttemptRecord) /\ DOMAIN attempts' = DOMAIN attempts
      /\ Len(attempts') = Len(attempts)
  BY <1>1, <1>5, SameDomain
<1>7. batches \in [Batch -> BatchRow] BY DEF TableInv, Tables
<1>8. batches' = [batches EXCEPT ![b] = [batches[b] EXCEPT !.open = FALSE]] BY <1>3
<1>9. [batches[b] EXCEPT !.open = FALSE] \in BatchRow BY <1>7 DEF BatchRow
<1>10. batches' \in [Batch -> BatchRow] BY <1>7, <1>8, <1>9
<1>11. \A c \in Batch : /\ batches'[c].count = batches[c].count
                        /\ batches'[c].open => batches[c].open
  BY <1>7, <1>8 DEF BatchRow
<1>12. ~batches'[b].open BY <1>7, <1>8 DEF BatchRow
<1>13. \A a \in DOMAIN attempts :
         batches'[attempts[a].batch].open => CooldownKept(attempts[a], attempts'[a])
  BY <1>4, <1>12 DEF CooldownKept
<1>14. Relaxes(batches, batches', attempts, attempts')
  BY <1>4, <1>6, <1>11, <1>13 DEF Relaxes
<1>15. Tables(batches', attempts') BY <1>6, <1>10 DEF Tables
<1>. QED BY <1>6, <1>14, <1>15, RelaxKeeps

(* A new attempt is well formed, and nothing is charged for it yet.        *)
LEMMA FreshType ==
  ASSUME attempts \in Seq(AttemptRecord), NEW b \in Batch, NEW adapter \in {"desktop", "cli"},
         NEW state \in {"prepared", "accept_pending"}
  PROVE  /\ FreshAttempt(b, adapter, state) \in AttemptRecord
         /\ ~FreshAttempt(b, adapter, state).counted
         /\ FreshAttempt(b, adapter, state).state = state
         /\ FreshAttempt(b, adapter, state).batch = b
<1>1. DOMAIN attempts = 1 .. Len(attempts) /\ Len(attempts) \in Nat BY LenProperties
<1>2. IsFiniteSet(DOMAIN attempts) BY <1>1, SegmentFinite
<1>3. IsFiniteSet({x \in Attempt : attempts[x].batch = b})
  BY <1>2, FS_Subset DEF Attempt
<1>. DEFINE D == {x \in Attempt : attempts[x].batch = b}
            f == [x \in D |-> attempts[x].generation]
<1>onto. f \in Surjection(D, Generations(b)) BY DEF Surjection, Generations
<1>4. IsFiniteSet(Generations(b)) BY <1>3, <1>onto, FS_Surjection
<1>5. Cardinality(Generations(b)) \in Nat BY <1>4, FS_CardinalityType
<1>6. NextGeneration(b) \in Nat \ {0} BY <1>5 DEF NextGeneration
<1>. QED BY <1>6 DEF FreshAttempt, AttemptRecord, NoRequest

(* A CLI attempt of the thread keeps the invariant, from its beginning to  *)
(* its end.                                                                *)
LEMMA CliKeeps ==
  ASSUME TableInv(batches, attempts), CliBegins \/ CliAccepted \/ CliEnds,
         Len(attempts) <= MaxAttempts
  PROVE  /\ TableInv(batches', attempts') /\ Len(attempts') <= MaxAttempts
         /\ DOMAIN attempts \subseteq DOMAIN attempts'
<1>1. attempts \in Seq(AttemptRecord) BY DEF TableInv, Tables
<1>2. \A a \in DOMAIN attempts : attempts[a] \in AttemptRecord BY <1>1, RowOf
<1>3. CASE CliBegins
  <2>. PICK b \in Batch : /\ Len(attempts) < MaxAttempts /\ IsHead(b) /\ HasBudget(b) /\ Idle
                          /\ attempts' = Append(attempts, FreshAttempt(b, "cli", "accept_pending"))
                          /\ UNCHANGED batches
    BY <1>3 DEF CliBegins
  <2>. DEFINE r == FreshAttempt(b, "cli", "accept_pending")
  <2>1. /\ r \in AttemptRecord /\ ~r.counted /\ r.state = "accept_pending" /\ r.batch = b
    BY <1>1, FreshType
  <2>2. \A a \in DOMAIN attempts : ~Busy(batches, attempts, a)
    BY DEF Idle, Attempt, Active, Busy
  <2>3. batches[b].count < MaxDeliveries /\ batches[b].open BY DEF HasBudget, IsHead
  <2>4. attempts' = Append(attempts, r) OBVIOUS
  <2>. HIDE DEF r
  <2>5. TableInv(batches, attempts') BY <2>1, <2>2, <2>3, <2>4, AppendKeeps
  <2>6. Appended(attempts, attempts', r) BY <1>1, <2>1, <2>4, AppendFacts
  <2>7. Len(attempts) \in Nat /\ MaxAttempts \in Nat BY <1>1, LenProperties, ArmAssumption
  <2>. QED BY <2>5, <2>6, <2>7 DEF Appended
<1>4. CASE CliAccepted
  <2>. PICK a \in Attempt :
         /\ Active(a) /\ attempts[a].state = "accept_pending"
         /\ attempts' = [attempts EXCEPT ![a].state = "cooldown", ![a].counted = TRUE]
         /\ batches' = [batches EXCEPT ![attempts[a].batch].count = @ + 1]
    BY <1>4 DEF CliAccepted
  <2>1. a \in DOMAIN attempts BY DEF Attempt
  <2>2. Busy(batches, attempts, a) /\ attempts[a].state \in Uncharged
    BY DEF Active, Busy, Uncharged
  <2>3. batches[attempts[a].batch].count < MaxDeliveries
    BY <2>1, <2>2 DEF TableInv, Affordable, Busy
  <2>4. TableInv(batches', attempts') BY <2>1, <2>2, <2>3, ChargeKeeps, ZenonT(60) DEF Charges
  <2>5. DOMAIN attempts' = DOMAIN attempts OBVIOUS
  <2>6. Len(attempts') = Len(attempts)
    BY <1>1, <2>4, <2>5, SameLen DEF TableInv, Tables
  <2>. QED BY <2>4, <2>5, <2>6
<1>5. CASE CliEnds
  <2>. PICK a \in Attempt : /\ attempts[a].adapter = "cli"
                            /\ SetState(a, "abandoned") /\ UNCHANGED batches
    BY <1>5 DEF CliEnds
  <2>. DEFINE p == [attempts[a] EXCEPT !.state = "abandoned"]
  <2>1. a \in DOMAIN attempts BY DEF Attempt
  <2>2. p \in AttemptRecord /\ RowChanges(attempts[a], p)
    BY <1>2, <2>1, RowUpdates DEF Abandonable
  <2>3. attempts' = [attempts EXCEPT ![a] = p] BY DEF SetState
  <2>. HIDE DEF p
  <2>4. TableInv(batches', attempts') BY <2>1, <2>2, <2>3, OneRelaxed
  <2>5. Len(attempts') = Len(attempts) /\ DOMAIN attempts' = DOMAIN attempts
    BY <1>1, <2>1, <2>2, <2>3, Replaces
  <2>. QED BY <2>4, <2>5
<1>. QED BY <1>3, <1>4, <1>5

(***************************************************************************)
(* Markers.                                                                *)
(***************************************************************************)

(* Only a marker whose transition was made is consumed, and a scan that    *)
(* consumes an arm_accepted marker leaves it issued no longer.             *)
MarkerKept(m) ==
  /\ m.state = "consumed" => m.outcome = "done"
  /\ m.kind = "arm_accepted" /\ m.form = "expected" => m.state # "issued"

(* An arm_accepted marker follows on an arm_pending marker that was taken  *)
(* under the same binding.                                                 *)
Follows(m, p) ==
  /\ p.kind = "arm_pending_requested" /\ p.outcome = "done"
  /\ p.attempt = m.attempt /\ p.bound_to = m.bound_to

PendedBefore(ms) ==
  \A m \in DOMAIN ms : ms[m].kind = "arm_accepted" => \E p \in DOMAIN ms : Follows(ms[m], ms[p])

(* The invariant of the markers.                                           *)
MarkerInv(ms) ==
  /\ ms \in Seq(MarkerRecord) /\ Len(ms) <= MaxMarkers
  /\ \A m \in DOMAIN ms : MarkerKept(ms[m])
  /\ PendedBefore(ms)

(* A marker is about an attempt there is.                                  *)
MarkersKnown(ms, as) == \A m \in DOMAIN ms : ms[m].attempt \in DOMAIN as

(* What a marker says does not change, it is never issued again, and what  *)
(* became of it stays.                                                     *)
Ages(m, m2) ==
  /\ m2.bridge = m.bridge /\ m2.kind = m.kind /\ m2.attempt = m.attempt
  /\ m2.request = m.request /\ m2.bound_to = m.bound_to /\ m2.expires = m.expires
  /\ m2.state = "issued" => m.state = "issued"
  /\ m.outcome = "done" => m2.outcome = "done"

MarkersAge(ms, ms2) ==
  /\ DOMAIN ms \subseteq DOMAIN ms2
  /\ \A m \in DOMAIN ms : Ages(ms[m], ms2[m])

(* A marker in its next form.                                              *)
Succeeds(m, m2) == m2 \in MarkerRecord /\ MarkerKept(m2) /\ Ages(m, m2)

(* Markers are as they were, some of them in their next form.              *)
LEMMA MarkersSucceed ==
  ASSUME NEW ms, NEW ms2, MarkerInv(ms), DOMAIN ms2 = DOMAIN ms,
         ms2 \in [DOMAIN ms -> MarkerRecord],
         \A m \in DOMAIN ms : Succeeds(ms[m], ms2[m])
  PROVE  MarkerInv(ms2) /\ MarkersAge(ms, ms2)
<1>1. ms \in Seq(MarkerRecord) BY DEF MarkerInv
<1>2. ms2 \in Seq(MarkerRecord) /\ Len(ms2) = Len(ms) BY <1>1, SameDomain
<1>3. MarkersAge(ms, ms2) BY DEF MarkersAge, Succeeds
<1>4. \A m \in DOMAIN ms2 : MarkerKept(ms2[m]) BY DEF Succeeds
<1>5. PendedBefore(ms2)
  <2>. SUFFICES ASSUME NEW m \in DOMAIN ms, ms2[m].kind = "arm_accepted"
                PROVE  \E p \in DOMAIN ms : Follows(ms2[m], ms2[p])
    BY DEF PendedBefore
  <2>1. ms[m].kind = "arm_accepted" BY DEF Succeeds, Ages
  <2>. PICK p \in DOMAIN ms : Follows(ms[m], ms[p]) BY <2>1 DEF MarkerInv, PendedBefore
  <2>2. Follows(ms2[m], ms2[p]) BY DEF Follows, Succeeds, Ages
  <2>. QED BY <2>2
<1>. QED BY <1>2, <1>3, <1>4, <1>5 DEF MarkerInv

(* A marker is issued.                                                     *)
LEMMA MarkerIssued ==
  ASSUME NEW ms, NEW ms2, NEW r \in MarkerRecord, MarkerInv(ms), Len(ms) < MaxMarkers,
         MarkerKept(r), ms2 = Append(ms, r),
         r.kind = "arm_accepted" => \E p \in DOMAIN ms : Follows(r, ms[p])
  PROVE  MarkerInv(ms2) /\ MarkersAge(ms, ms2) /\ Appended(ms, ms2, r)
<1>1. ms \in Seq(MarkerRecord) BY DEF MarkerInv
<1>2. Appended(ms, ms2, r) /\ ms2 \in Seq(MarkerRecord) BY <1>1, AppendFacts
<1>3. Len(ms) \in Nat /\ MaxMarkers \in Nat BY <1>1, LenProperties, RelayAssumption
<1>4. Len(ms2) <= MaxMarkers BY <1>2, <1>3 DEF Appended
<1>5. MarkersAge(ms, ms2) BY <1>2 DEF Appended, MarkersAge, Ages
<1>6. \A m \in DOMAIN ms2 : MarkerKept(ms2[m]) BY <1>2 DEF Appended, MarkerInv
<1>7. PendedBefore(ms2)
  <2>. SUFFICES ASSUME NEW m \in DOMAIN ms2, ms2[m].kind = "arm_accepted"
                PROVE  \E p \in DOMAIN ms2 : Follows(ms2[m], ms2[p])
    BY DEF PendedBefore
  <2>1. \E p \in DOMAIN ms : Follows(ms2[m], ms[p])
    BY <1>2 DEF Appended, MarkerInv, PendedBefore
  <2>. QED BY <1>2, <2>1 DEF Appended
<1>. QED BY <1>2, <1>4, <1>5, <1>6, <1>7 DEF MarkerInv

(* The forms a marker takes: reconciled, expired, rejected, and consumed   *)
(* by a scan or by hand.                                                   *)
LEMMA MarkerForms ==
  ASSUME NEW m \in MarkerRecord, MarkerKept(m)
  PROVE  /\ Succeeds(m, m)
         /\ Succeeds(m, Reconciled(m))
         /\ \A now : Succeeds(m, Expired(Reconciled(m), now))
         /\ Succeeds(m, [m EXCEPT !.state = "rejected"])
         /\ \A o \in {"done", "failed"} : m.outcome \in {"none", o} =>
              Succeeds(m, [m EXCEPT !.outcome = o, !.form = "expected",
                             !.state = IF o = "done" THEN "consumed" ELSE "rejected"])
         /\ \A o \in {"done", "failed"} : m.outcome = "none" /\ m.state = "issued" =>
              Succeeds(m, [m EXCEPT !.outcome = o,
                             !.form = IF m.kind = "arm_accepted" THEN "other" ELSE "expected"])
<1>1. Succeeds(m, m) BY DEF Succeeds, Ages
<1>2. ASSUME NEW q \in MarkerRecord, MarkerKept(q),
             NEW st \in {"consumed", "rejected", "expired"}, st = "consumed" => q.outcome = "done"
      PROVE  Succeeds(q, [q EXCEPT !.state = st])
  BY <1>2 DEF Succeeds, Ages, MarkerKept, MarkerRecord
<1>3. Succeeds(m, Reconciled(m))
  BY <1>1, <1>2 DEF Reconciled
<1>4. ASSUME NEW now PROVE Succeeds(m, Expired(Reconciled(m), now))
  <2>1. PICK q : q = Reconciled(m) OBVIOUS
  <2>2. Succeeds(m, q) BY <1>3, <2>1
  <2>3. q \in MarkerRecord /\ MarkerKept(q) BY <2>2 DEF Succeeds
  <2>4. Succeeds(q, q) BY <2>3 DEF Succeeds, Ages
  <2>5. PICK r : r = Expired(q, now) OBVIOUS
  <2>6. Succeeds(q, r) BY <1>2, <2>3, <2>4, <2>5 DEF Expired
  <2>7. Succeeds(m, r) BY <2>2, <2>6 DEF Succeeds, Ages
  <2>. QED BY <2>1, <2>5, <2>7
<1>5. Succeeds(m, [m EXCEPT !.state = "rejected"]) BY <1>2
<1>6. ASSUME NEW o \in {"done", "failed"}, m.outcome \in {"none", o}
      PROVE  Succeeds(m, [m EXCEPT !.outcome = o, !.form = "expected",
                            !.state = IF o = "done" THEN "consumed" ELSE "rejected"])
  BY <1>6 DEF Succeeds, Ages, MarkerKept, MarkerRecord, Form
<1>7. ASSUME NEW o \in {"done", "failed"}, m.outcome = "none", m.state = "issued"
      PROVE  Succeeds(m, [m EXCEPT !.outcome = o,
                            !.form = IF m.kind = "arm_accepted" THEN "other" ELSE "expected"])
  BY <1>7 DEF Succeeds, Ages, MarkerKept, MarkerRecord, Form
<1>. QED BY <1>1, <1>3, <1>4, <1>5, <1>6, <1>7

(***************************************************************************)
(* The rest of the state.                                                  *)
(***************************************************************************)

(* What no scan touches.                                                   *)
PlainInv ==
  /\ binding \in BindingRecord
  /\ installation \in InstallationRecord /\ Generation \in Nat \ {0}
  /\ helper \in Fingerprint /\ clock \in Time
  /\ preflights \in [Bridge -> PreflightRecord]
  /\ interventions \in 0 .. MaxInterventions

(* The tables, the markers and what they need of each other.               *)
StoreInv ==
  /\ TableInv(batches, attempts) /\ Len(attempts) <= MaxAttempts
  /\ PlainInv
  /\ MarkerInv(markers) /\ MarkersKnown(markers, attempts)
  /\ ticks \in [Scan -> TickRecord]

(* What a marker of the sequence says.                                     *)
LEMMA MarkerOf ==
  ASSUME MarkerInv(markers), NEW m \in Marker
  PROVE  /\ markers[m] \in MarkerRecord /\ MarkerKept(markers[m])
         /\ markers[m].request \in Nat /\ m \in 1 .. MaxMarkers
<1>1. markers \in Seq(MarkerRecord) BY DEF MarkerInv
<1>2. DOMAIN markers = 1 .. Len(markers) /\ Len(markers) \in Nat BY <1>1, LenProperties
<1>3. m \in 1 .. Len(markers) BY <1>2 DEF Marker
<1>4. markers[m] \in MarkerRecord BY <1>1, <1>3, ElementOfSeq
<1>5. m \in 1 .. MaxMarkers BY <1>2, <1>3, RelayAssumption DEF MarkerInv
<1>. QED BY <1>4, <1>5 DEF MarkerInv, MarkerRecord, Marker

(* The transition a marker asks for.                                       *)
LEMMA TransitionKeeps ==
  ASSUME StoreInv, NEW m \in Marker, NEW now \in Nat, NEW outcome, Transition(m, now, outcome)
  PROVE  /\ TableInv(batches', attempts')
         /\ DOMAIN attempts' = DOMAIN attempts
<1>1. markers[m].attempt \in DOMAIN attempts BY DEF StoreInv, MarkersKnown, Marker
<1>2. markers[m].request \in Nat BY MarkerOf DEF StoreInv
<1>. QED BY <1>1, <1>2, PendKeeps, ArmKeeps DEF Transition, StoreInv

(* Which steps change the tables.                                          *)
LEMMA TableSteps ==
  ASSUME Next
  PROVE  \/ UNCHANGED <<batches, attempts>>
         \/ SweepAt(clock) \/ CloseHead \/ CliBegins \/ CliAccepted \/ CliEnds
         \/ \E b \in Bridge : Materializes(b)
         \/ \E m \in Marker, s \in Scan, outcome \in Outcome :
              Transition(m, ticks[s].now, outcome)
         \/ \E m \in Marker, outcome \in Outcome : Transition(m, clock, outcome)
         \/ \E a \in Attempt, m \in Marker, outcome \in Outcome :
              NotesArmPending(a, markers[m].request, clock, outcome)
         \/ \E a \in Attempt, outcome \in Outcome :
              NotesArm(a, attempts[a].request, clock, outcome)
<1>. USE DEF Outcome
<1>1. CASE BridgeNext BY <1>1 DEF BridgeNext, PreflightSweeps, Emits, armVars
<1>2. CASE ScanNext
  <2>. PICK s \in Scan :
         \/ \E b \in Bridge : ScanStarts(s, b)
         \/ ListsMarkers(s) \/ GivesUp(s) \/ AdvancesCursor(s)
         \/ \E m \in Marker : LooksUpLease(s, m) \/ Consumes(s, m) \/ RejectsEnvelope(s, m)
    BY <1>2 DEF ScanNext
  <2>1. ASSUME NEW m \in Marker, LooksUpLease(s, m) PROVE UNCHANGED <<batches, attempts>>
    BY <2>1 DEF LooksUpLease, Rejects
  <2>2. ASSUME NEW m \in Marker, RejectsEnvelope(s, m) PROVE UNCHANGED <<batches, attempts>>
    BY <2>2, SMTT(60) DEF RejectsEnvelope, Rejects
  <2>3. ASSUME NEW m \in Marker, Consumes(s, m)
        PROVE  \/ UNCHANGED <<batches, attempts>>
               \/ \E outcome \in Outcome : Transition(m, ticks[s].now, outcome)
    BY <2>3, Zenon DEF Consumes, Rejects
  <2>. QED BY <2>1, <2>2, <2>3 DEF ScanStarts, ListsMarkers, GivesUp, AdvancesCursor, armVars
<1>3. CASE ElsewhereNext BY <1>3 DEF ElsewhereNext, Sweeps, Tick
<1>4. CASE InterventionNext
  <2>1. ASSUME NEW m \in Marker, ConsumesByHand(m)
        PROVE  \E outcome \in Outcome : Transition(m, clock, outcome)
    BY <2>1 DEF ConsumesByHand
  <2>2. ASSUME NEW a \in Attempt, ArmsDirectly(a)
        PROVE  \E outcome \in Outcome : NotesArm(a, attempts[a].request, clock, outcome)
    BY <2>2 DEF ArmsDirectly
  <2>3. ASSUME NEW a \in Attempt, NEW m \in Marker, PendsDirectly(a, m)
        PROVE  \E outcome \in Outcome : NotesArmPending(a, markers[m].request, clock, outcome)
    BY <2>3 DEF PendsDirectly
  <2>. QED BY <1>4, <2>1, <2>2, <2>3 DEF InterventionNext, Replaced, BindsScanner, ScanDies,
         RepairInstallation, RepairBinding, Upgrade, armVars
<1>. QED BY <1>1, <1>2, <1>3, <1>4 DEF Next

(* A preflight issues its markers, for an attempt that it may begin.       *)
LEMMA MaterializeKeeps ==
  ASSUME StoreInv, NEW b \in Bridge, Materializes(b)
  PROVE  /\ TableInv(batches', attempts') /\ Len(attempts') <= MaxAttempts
         /\ DOMAIN attempts \subseteq DOMAIN attempts'
         /\ MarkerInv(markers') /\ MarkersAge(markers, markers')
         /\ \A m \in DOMAIN markers' \ DOMAIN markers : markers'[m].attempt \in DOMAIN attempts'
<1>. DEFINE p == preflights[b]
            known == [m \in Marker |-> Reconciled(markers[m])]
<1>1. /\ attempts \in Seq(AttemptRecord) /\ Len(attempts) \in Nat
      /\ DOMAIN attempts = 1 .. Len(attempts) /\ markers \in Seq(MarkerRecord)
  BY LenProperties DEF StoreInv, TableInv, Tables, MarkerInv
<1>2. p \in PreflightRecord /\ p.now \in Nat
  BY ArmAssumption DEF StoreInv, PlainInv, PreflightRecord, Time
<1>3. BoundTo \in Caller \X Nat BY DEF StoreInv, PlainInv, BindingRecord, BoundTo
<1>4. MarkerInv(known) /\ MarkersAge(markers, known) /\ DOMAIN known = DOMAIN markers
  <2>1. \A m \in DOMAIN markers : Succeeds(markers[m], known[m])
    BY MarkerOf, MarkerForms, Zenon DEF StoreInv, Marker
  <2>2. known \in [DOMAIN markers -> MarkerRecord] BY <2>1 DEF Succeeds, Marker
  <2>3. DOMAIN known = DOMAIN markers BY DEF Marker
  <2>. HIDE DEF known
  <2>4. MarkerInv(known) /\ MarkersAge(markers, known)
    BY <2>1, <2>2, <2>3, MarkersSucceed DEF StoreInv
  <2>. QED BY <2>3, <2>4, SMTT(60)
<1>5. PICK q : q = known OBVIOUS
<1>6. ASSUME NEW kind \in {"arm_pending_requested", "arm_accepted"}, NEW a \in 1 .. MaxAttempts,
             NEW request \in Nat, NEW expires \in Nat,
             a \in DOMAIN attempts',
             Issues(q, b, kind, a, request, expires),
             kind = "arm_accepted" =>
               \E m \in DOMAIN q : /\ q[m].kind = "arm_pending_requested"
                                   /\ q[m].outcome = "done"
                                   /\ q[m].attempt = a /\ q[m].bound_to = BoundTo
      PROVE  /\ MarkerInv(markers') /\ MarkersAge(markers, markers')
             /\ \A m \in DOMAIN markers' \ DOMAIN markers :
                  markers'[m].attempt \in DOMAIN attempts'
  <2>1. PICK r : r = IssuedFor(b, kind, a, request, expires) OBVIOUS
  <2>2. /\ r \in MarkerRecord /\ MarkerKept(r) /\ r.kind = kind /\ r.attempt = a
        /\ r.bound_to = BoundTo
    BY <1>3, <2>1 DEF IssuedFor, MarkerRecord, Kind, MarkerKept
  <2>3. r.kind = "arm_accepted" => \E m \in DOMAIN q : Follows(r, q[m])
    BY <1>6, <2>2 DEF Follows
  <2>4. Len(q) < MaxMarkers /\ markers' = Append(q, r) BY <1>6, <2>1 DEF Issues
  <2>5. MarkerInv(q) /\ MarkersAge(markers, q) /\ DOMAIN q = DOMAIN markers BY <1>4, <1>5
  <2>6. MarkerInv(markers') /\ MarkersAge(q, markers') /\ Appended(q, markers', r)
    BY <2>2, <2>3, <2>4, <2>5, MarkerIssued
  <2>7. MarkersAge(markers, markers') BY <2>5, <2>6 DEF MarkersAge, Ages
  <2>8. \A m \in DOMAIN markers' \ DOMAIN markers : markers'[m] = r
    BY <2>5, <2>6 DEF Appended
  <2>. QED BY <1>6, <2>2, <2>6, <2>7, <2>8
<1>7. Len(q) \in Nat BY <1>4, <1>5, LenProperties DEF MarkerInv
<1>8. ASSUME NEW x \in Nat PROVE Lesser(p.now + MarkerTtl, x) \in Nat
  BY <1>2, RelayAssumption DEF Lesser
<1>9. WindowEnds \in Nat /\ MaxAttempts \in Nat BY ArmAssumption
<1>. HIDE DEF p, known
<1>10. ASSUME NEW c \in {d \in Candidate(p) : Idle}, Len(attempts) < MaxAttempts,
              attempts' = Append(attempts, FreshAttempt(c, "desktop", "prepared")),
              IssuesReady(q, b, Len(attempts) + 1, p), UNCHANGED batches
       PROVE  /\ TableInv(batches', attempts') /\ Len(attempts') <= MaxAttempts
              /\ DOMAIN attempts \subseteq DOMAIN attempts'
              /\ MarkerInv(markers') /\ MarkersAge(markers, markers')
              /\ \A m \in DOMAIN markers' \ DOMAIN markers :
                   markers'[m].attempt \in DOMAIN attempts'
  <2>1. c \in Batch /\ Idle /\ batches[c].open BY DEF Candidate, IsHead
  <2>2. PICK r : r = FreshAttempt(c, "desktop", "prepared") OBVIOUS
  <2>3. /\ r \in AttemptRecord /\ ~r.counted /\ r.state = "prepared" /\ r.batch = c
    BY <1>1, <2>1, <2>2, FreshType
  <2>4. \A a \in DOMAIN attempts : ~Busy(batches, attempts, a)
    BY <2>1 DEF Idle, Attempt, Active, Busy
  <2>5. TableInv(batches, attempts') BY <1>10, <2>1, <2>2, <2>3, <2>4, AppendKeeps DEF StoreInv
  <2>6. Appended(attempts, attempts', r) BY <1>1, <1>10, <2>2, <2>3, AppendFacts
  <2>7. /\ DOMAIN attempts \subseteq DOMAIN attempts' /\ Len(attempts) + 1 \in DOMAIN attempts'
        /\ Len(attempts') = Len(attempts) + 1
    BY <2>6 DEF Appended
  <2>8. Len(attempts) + 1 \in 1 .. MaxAttempts BY <1>1, <1>9, <1>10
  <2>9. Lesser(p.now + MarkerTtl, WindowEnds) \in Nat BY <1>8, <1>9
  <2>10. Issues(q, b, "arm_pending_requested", Len(attempts) + 1, Len(q) + 1,
                Lesser(p.now + MarkerTtl, WindowEnds))
    BY <1>10 DEF IssuesReady
  <2>11. Len(q) + 1 \in Nat BY <1>7
  <2>12. /\ MarkerInv(markers') /\ MarkersAge(markers, markers')
         /\ \A m \in DOMAIN markers' \ DOMAIN markers : markers'[m].attempt \in DOMAIN attempts'
    BY <1>6, <2>7, <2>8, <2>9, <2>10, <2>11
  <2>. QED BY <1>10, <2>5, <2>7, <2>8, <2>12
<1>11. ASSUME NEW a \in Unready(q, b, p), IssuesReady(q, b, a, p), UNCHANGED attempts
       PROVE  /\ MarkerInv(markers') /\ MarkersAge(markers, markers')
              /\ \A m \in DOMAIN markers' \ DOMAIN markers :
                   markers'[m].attempt \in DOMAIN attempts'
  <2>1. a \in DOMAIN attempts BY DEF Unready, Attempt
  <2>2. a \in 1 .. MaxAttempts BY <1>1, <1>9, <2>1 DEF StoreInv
  <2>3. Lesser(p.now + MarkerTtl, WindowEnds) \in Nat BY <1>8, <1>9
  <2>4. Issues(q, b, "arm_pending_requested", a, Len(q) + 1, Lesser(p.now + MarkerTtl, WindowEnds))
    BY <1>11 DEF IssuesReady
  <2>5. Len(q) + 1 \in Nat BY <1>7
  <2>. QED BY <1>6, <1>11, <2>1, <2>2, <2>3, <2>4, <2>5
<1>12. ASSUME NEW a \in Unaccepted(q, b, p), UNCHANGED attempts,
              Issues(q, b, "arm_accepted", a, attempts[a].request,
                     Lesser(Lesser(p.now + MarkerTtl, WindowEnds), attempts[a].deadline))
       PROVE  /\ MarkerInv(markers') /\ MarkersAge(markers, markers')
              /\ \A m \in DOMAIN markers' \ DOMAIN markers :
                   markers'[m].attempt \in DOMAIN attempts'
  <2>1. a \in DOMAIN attempts /\ PendedByRelay(q, a) BY DEF Unaccepted, Attempt
  <2>2. a \in 1 .. MaxAttempts BY <1>1, <1>9, <2>1 DEF StoreInv
  <2>3. attempts[a].request \in Nat /\ attempts[a].deadline \in Nat
    BY <1>1, <2>1, RowOf DEF AttemptRecord
  <2>4. Lesser(Lesser(p.now + MarkerTtl, WindowEnds), attempts[a].deadline) \in Nat
    BY <1>8, <1>9, <2>3 DEF Lesser
  <2>5. \E m \in DOMAIN q : /\ q[m].kind = "arm_pending_requested"
                            /\ q[m].outcome = "done"
                            /\ q[m].attempt = a /\ q[m].bound_to = BoundTo
    BY <1>4, <1>5, <2>1 DEF PendedByRelay, MarkerInv, MarkerKept
  <2>. QED BY <1>6, <1>12, <2>1, <2>2, <2>3, <2>4, <2>5
<1>13. ASSUME markers' = q
       PROVE  /\ MarkerInv(markers') /\ MarkersAge(markers, markers')
              /\ DOMAIN markers' = DOMAIN markers
  BY <1>4, <1>5, <1>13
<1>14. UNCHANGED batches BY DEF Materializes
<1>15. \/ \E c \in {d \in Candidate(p) : Idle} :
            /\ Len(attempts) < MaxAttempts
            /\ attempts' = Append(attempts, FreshAttempt(c, "desktop", "prepared"))
            /\ IssuesReady(q, b, Len(attempts) + 1, p)
       \/ \E a \in Unready(q, b, p) : IssuesReady(q, b, a, p) /\ UNCHANGED attempts
       \/ \E a \in Unaccepted(q, b, p) :
            /\ UNCHANGED attempts
            /\ Issues(q, b, "arm_accepted", a, attempts[a].request,
                      Lesser(Lesser(p.now + MarkerTtl, WindowEnds), attempts[a].deadline))
       \/ markers' = q /\ UNCHANGED attempts
  BY <1>5, Zenon DEF Materializes, p, known
<1>. QED
  <2>1. CASE UNCHANGED attempts
    BY <1>11, <1>12, <1>13, <1>14, <1>15, <2>1, <1>10 DEF StoreInv
  <2>2. CASE \E c \in {d \in Candidate(p) : Idle} :
            /\ Len(attempts) < MaxAttempts
            /\ attempts' = Append(attempts, FreshAttempt(c, "desktop", "prepared"))
            /\ IssuesReady(q, b, Len(attempts) + 1, p)
    BY <1>10, <1>14, <2>2
  <2>. QED BY <1>15, <2>1, <2>2

(* Every step keeps the two tables, and begins attempts within the bound.  *)
LEMMA TableStep ==
  ASSUME StoreInv, Next
  PROVE  /\ TableInv(batches', attempts') /\ Len(attempts') <= MaxAttempts
         /\ DOMAIN attempts \subseteq DOMAIN attempts'
<1>1. /\ TableInv(batches, attempts) /\ Len(attempts) <= MaxAttempts
      /\ attempts \in Seq(AttemptRecord)
  BY DEF StoreInv, TableInv, Tables
<1>2. clock \in Nat BY ArmAssumption DEF StoreInv, PlainInv, Time
<1>3. \A s \in Scan : ticks[s].now \in Nat BY ArmAssumption DEF StoreInv, TickRecord, Time
<1>4. ASSUME TableInv(batches', attempts'), DOMAIN attempts' = DOMAIN attempts
      PROVE  /\ TableInv(batches', attempts') /\ Len(attempts') <= MaxAttempts
             /\ DOMAIN attempts \subseteq DOMAIN attempts'
  <2>1. attempts' \in Seq(AttemptRecord) BY <1>4 DEF TableInv, Tables
  <2>2. Len(attempts') = Len(attempts) BY <1>1, <1>4, <2>1, SameLen
  <2>. QED BY <1>1, <1>4, <2>2
<1>5. CASE UNCHANGED <<batches, attempts>> BY <1>1, <1>5
<1>6. CASE SweepAt(clock) BY <1>1, <1>4, <1>6, SweepKeeps
<1>7. CASE CloseHead BY <1>1, <1>4, <1>7, CloseHeadKeeps
<1>8. CASE CliBegins \/ CliAccepted \/ CliEnds BY <1>1, <1>8, CliKeeps
<1>9. CASE \E b \in Bridge : Materializes(b) BY <1>9, MaterializeKeeps
<1>10. CASE \E m \in Marker, s \in Scan, outcome \in Outcome :
               Transition(m, ticks[s].now, outcome)
  BY <1>3, <1>4, <1>10, TransitionKeeps
<1>11. CASE \E m \in Marker, outcome \in Outcome : Transition(m, clock, outcome)
  BY <1>2, <1>4, <1>11, TransitionKeeps
<1>12. CASE \E a \in Attempt, m \in Marker, outcome \in Outcome :
              NotesArmPending(a, markers[m].request, clock, outcome)
  <2>. PICK a \in Attempt, m \in Marker, outcome \in Outcome :
              NotesArmPending(a, markers[m].request, clock, outcome)
    BY <1>12
  <2>1. markers[m].request \in Nat /\ a \in DOMAIN attempts BY MarkerOf DEF StoreInv, Attempt
  <2>. QED BY <1>1, <1>2, <1>4, <2>1, PendKeeps
<1>13. CASE \E a \in Attempt, outcome \in Outcome :
              NotesArm(a, attempts[a].request, clock, outcome)
  BY <1>1, <1>4, <1>13, ArmKeeps DEF Attempt
<1>. QED BY <1>5, <1>6, <1>7, <1>8, <1>9, <1>10, <1>11, <1>12, <1>13, TableSteps

(* Every step keeps the binding, the installation state, the clock and the *)
(* preflights.                                                             *)
LEMMA PlainStep ==
  ASSUME StoreInv, Next
  PROVE  PlainInv' /\ clock <= clock'
<1>. USE DEF PlainInv
<1>1. PlainInv /\ attempts \in Seq(AttemptRecord) BY DEF StoreInv, TableInv, Tables
<1>2. clock \in Nat /\ MaxTime \in Nat /\ MaxInterventions \in Nat /\ interventions \in Nat
  BY ArmAssumption, RelayAssumption DEF StoreInv, Time
<1>3. ASSUME NEW a \in Attempt, Arms(a) PROVE binding' \in BindingRecord
  <2>1. attempts[a].generation \in Nat BY <1>1, RowOf DEF Attempt, AttemptRecord
  <2>. QED BY <1>1, <1>3, <2>1 DEF Arms, BindingRecord
<1>4. ASSUME NEW a \in Attempt, NEW r, NEW now, NEW outcome,
             NotesArm(a, r, now, outcome) \/ NotesArmPending(a, r, now, outcome)
      PROVE  binding' \in BindingRecord
  BY <1>1, <1>3, <1>4 DEF NotesArm, NotesArmPending
<1>5. ASSUME NEW m \in Marker, NEW now, NEW outcome, Transition(m, now, outcome)
      PROVE  binding' \in BindingRecord
  <2>1. markers[m].attempt \in Attempt BY DEF StoreInv, MarkersKnown, Attempt, Marker
  <2>. QED BY <1>4, <1>5, <2>1 DEF Transition
<1>6. /\ \/ binding' \in BindingRecord
         \/ \E c \in Caller : RepairBinding(c)
         \/ \E f \in Fingerprint, v \in BOOLEAN : RepairInstallation(f, v)
      /\ \/ UNCHANGED installation
         \/ \E f \in Fingerprint, v \in BOOLEAN : RepairInstallation(f, v)
      /\ UNCHANGED helper \/ \E f \in Fingerprint : Upgrade(f)
      /\ UNCHANGED clock \/ Tick
      /\ \/ UNCHANGED preflights
         \/ \E b \in Bridge : PreflightSweeps(b) \/ Materializes(b)
  <2>. USE <1>1 DEF armVars, relayVars
  <2>1. CASE BridgeNext
    <3>. PICK b \in Bridge : PreflightSweeps(b) \/ Materializes(b) \/ Emits(b)
      BY <2>1 DEF BridgeNext
    <3>. QED BY DEF PreflightSweeps, Materializes, Emits
  <2>2. CASE ScanNext
    <3>. PICK s \in Scan :
           \/ \E b \in Bridge : ScanStarts(s, b)
           \/ ListsMarkers(s) \/ GivesUp(s) \/ AdvancesCursor(s)
           \/ \E m \in Marker : LooksUpLease(s, m) \/ Consumes(s, m) \/ RejectsEnvelope(s, m)
      BY <2>2 DEF ScanNext
    <3>1. ASSUME NEW m \in Marker, LooksUpLease(s, m)
          PROVE  UNCHANGED <<binding, installation, helper, clock, preflights>>
      BY <3>1 DEF LooksUpLease, Rejects
    <3>2. ASSUME NEW m \in Marker, RejectsEnvelope(s, m)
          PROVE  UNCHANGED <<binding, installation, helper, clock, preflights>>
      BY <3>2, SMTT(60) DEF RejectsEnvelope, Rejects
    <3>3. ASSUME NEW m \in Marker, Consumes(s, m)
          PROVE  /\ binding' \in BindingRecord
                 /\ UNCHANGED <<installation, helper, clock, preflights>>
      BY <1>5, <3>3, Zenon DEF Consumes, Rejects
    <3>. QED BY <3>1, <3>2, <3>3 DEF ScanStarts, ListsMarkers, GivesUp, AdvancesCursor
  <2>3. CASE ElsewhereNext
    BY <2>3 DEF ElsewhereNext, Sweeps, Tick, CliBegins, CliAccepted, CliEnds
  <2>4. CASE InterventionNext
    <3>1. ASSUME NEW m \in Marker, ConsumesByHand(m)
          PROVE  /\ binding' \in BindingRecord
                 /\ UNCHANGED <<installation, helper, clock, preflights>>
      BY <1>5, <3>1 DEF ConsumesByHand
    <3>2. ASSUME NEW a \in Attempt, ArmsDirectly(a)
          PROVE  /\ binding' \in BindingRecord
                 /\ UNCHANGED <<installation, helper, clock, preflights>>
      BY <1>4, <3>2 DEF ArmsDirectly
    <3>3. ASSUME NEW a \in Attempt, NEW m \in Marker, PendsDirectly(a, m)
          PROVE  /\ binding' \in BindingRecord
                 /\ UNCHANGED <<installation, helper, clock, preflights>>
      BY <1>4, <3>3 DEF PendsDirectly
    <3>4. ASSUME CloseHead
          PROVE  UNCHANGED <<binding, installation, helper, clock>>
      BY <3>4 DEF CloseHead
    <3>5. ASSUME NEW c \in Caller, RepairBinding(c)
          PROVE  UNCHANGED <<installation, helper, clock>>
      BY <3>5 DEF RepairBinding
    <3>6. ASSUME NEW f \in Fingerprint, NEW v \in BOOLEAN, RepairInstallation(f, v)
          PROVE  UNCHANGED <<helper, clock>>
      BY <3>6 DEF RepairInstallation
    <3>7. ASSUME NEW f \in Fingerprint, Upgrade(f)
          PROVE  UNCHANGED <<binding, installation, clock>>
      BY <3>7 DEF Upgrade
    <3>8. ASSUME NEW b \in Bridge, Replaced(b) \/ \E from \in BOOLEAN : BindsScanner(b, from)
          PROVE  UNCHANGED <<binding, installation, helper, clock, preflights>>
      BY <3>8 DEF Replaced, BindsScanner
    <3>9. ASSUME NEW s \in Scan, ScanDies(s)
          PROVE  UNCHANGED <<binding, installation, helper, clock, preflights>>
      BY <3>9 DEF ScanDies
    <3>. QED BY <2>4, <3>1, <3>2, <3>3, <3>4, <3>5, <3>6, <3>7, <3>8, <3>9 DEF InterventionNext
  <2>. QED BY <2>1, <2>2, <2>3, <2>4 DEF Next
<1>7. /\ installation' \in InstallationRecord
      /\ Len(installation'.fingerprints) \in Nat \ {0}
  <2>1. CASE UNCHANGED installation BY <1>1, <2>1 DEF Generation
  <2>2. ASSUME NEW f \in Fingerprint, NEW v \in BOOLEAN, RepairInstallation(f, v)
        PROVE  /\ installation' \in InstallationRecord
               /\ Len(installation'.fingerprints) \in Nat \ {0}
    <3>1. PICK q \in Seq(Fingerprint) : q = installation.fingerprints
      BY <1>1 DEF InstallationRecord
    <3>2. PICK p : p = Append(q, f) OBVIOUS
    <3>3. p \in Seq(Fingerprint) /\ Len(p) = Len(q) + 1 /\ Len(q) \in Nat
      BY <3>2, AppendProperties, LenProperties
    <3>4. installation' = [fingerprints |-> p, validated |-> v]
      BY <2>2, <3>1, <3>2 DEF RepairInstallation
    <3>. QED BY <3>3, <3>4 DEF InstallationRecord
  <2>. QED BY <1>6, <2>1, <2>2
<1>8. binding' \in BindingRecord
  <2>1. ASSUME NEW c \in Caller, RepairBinding(c) PROVE binding' \in BindingRecord
    BY <1>1, <2>1 DEF RepairBinding, BindingRecord
  <2>2. ASSUME NEW f \in Fingerprint, NEW v \in BOOLEAN, RepairInstallation(f, v)
        PROVE  binding' \in BindingRecord
    BY <1>1, <2>2 DEF RepairInstallation, BindingRecord
  <2>. QED BY <1>6, <2>1, <2>2
<1>9. helper' \in Fingerprint BY <1>1, <1>6 DEF Upgrade
<1>10. clock' \in Time /\ clock <= clock' BY <1>1, <1>2, <1>6 DEF Tick, Time
<1>11. preflights' \in [Bridge -> PreflightRecord]
  <2>1. NoPreflight \in PreflightRecord BY <1>2 DEF NoPreflight, PreflightRecord, Time
  <2>2. ASSUME NEW b \in Bridge, PreflightSweeps(b)
        PROVE  preflights' \in [Bridge -> PreflightRecord]
    <3>1. PICK r : r = [ doing |-> "swept", now |-> clock, transport |-> Generation,
                         validated |-> installation.validated
                               /\ installation.fingerprints[Generation] = helper ]
      OBVIOUS
    <3>2. r \in PreflightRecord BY <1>1, <3>1 DEF PreflightRecord, InstallationRecord
    <3>3. preflights' = [preflights EXCEPT ![b] = r] BY <2>2, <3>1 DEF PreflightSweeps
    <3>. QED BY <1>1, <3>2, <3>3
  <2>3. ASSUME NEW b \in Bridge, Materializes(b)
        PROVE  preflights' \in [Bridge -> PreflightRecord]
    <3>1. preflights' = [preflights EXCEPT ![b] = NoPreflight] BY <2>3 DEF Materializes
    <3>. QED BY <1>1, <2>1, <3>1
  <2>. QED BY <1>1, <1>6, <2>2, <2>3
<1>12. interventions' \in 0 .. MaxInterventions BY <1>1, <1>2 DEF Next
<1>. QED BY <1>7, <1>8, <1>9, <1>10, <1>11, <1>12 DEF Generation

(* One marker takes its next form.                                         *)
LEMMA MarkerChanged ==
  ASSUME StoreInv, NEW m \in Marker, NEW r, Succeeds(markers[m], r),
         markers' = [markers EXCEPT ![m] = r]
  PROVE  MarkerInv(markers') /\ MarkersAge(markers, markers') /\ DOMAIN markers' = DOMAIN markers
<1>1. \A n \in DOMAIN markers : Succeeds(markers[n], markers'[n])
  BY MarkerOf, MarkerForms, Zenon DEF StoreInv, Marker
<1>2. DOMAIN markers' = DOMAIN markers OBVIOUS
<1>3. markers' \in [DOMAIN markers -> MarkerRecord] BY <1>1, <1>2, ZenonT(60) DEF Succeeds
<1>. QED BY <1>1, <1>2, <1>3, MarkersSucceed, Zenon DEF StoreInv

(* Which steps change markers.                                             *)
LEMMA MarkerSteps ==
  ASSUME MarkerInv(markers), Next
  PROVE  \/ UNCHANGED markers
         \/ \E b \in Bridge : Materializes(b)
         \/ markers' = [m \in Marker |-> Expired(Reconciled(markers[m]), clock)]
         \/ \E m \in Marker :
              \/ markers' = [markers EXCEPT ![m] = [markers[m] EXCEPT !.state = "rejected"]]
              \/ \E o \in {"done", "failed"} :
                   \/ /\ markers[m].outcome \in {"none", o}
                      /\ markers' = [markers EXCEPT ![m] =
                           [markers[m] EXCEPT !.outcome = o, !.form = "expected",
                              !.state = IF o = "done" THEN "consumed" ELSE "rejected"]]
                   \/ /\ markers[m].outcome = "none" /\ markers[m].state = "issued"
                      /\ markers' = [markers EXCEPT ![m] =
                           [markers[m] EXCEPT !.outcome = o,
                              !.form = IF markers[m].kind = "arm_accepted" THEN "other"
                                                                           ELSE "expected"]]
<1>. USE DEF relayVars
<1>1. CASE BridgeNext BY <1>1, ZenonT(60) DEF BridgeNext, PreflightSweeps, Emits
<1>2. CASE ScanNext
  <2>. PICK s \in Scan :
         \/ \E b \in Bridge : ScanStarts(s, b)
         \/ ListsMarkers(s) \/ GivesUp(s) \/ AdvancesCursor(s)
         \/ \E m \in Marker : LooksUpLease(s, m) \/ Consumes(s, m) \/ RejectsEnvelope(s, m)
    BY <1>2 DEF ScanNext
  <2>1. ASSUME NEW m \in Marker, Rejects(s, m)
        PROVE  \/ UNCHANGED markers
               \/ markers' = [markers EXCEPT ![m] = [markers[m] EXCEPT !.state = "rejected"]]
    BY <2>1 DEF Rejects
  <2>2. ASSUME NEW m \in Marker, LooksUpLease(s, m) \/ RejectsEnvelope(s, m)
        PROVE  \/ UNCHANGED markers
               \/ markers' = [markers EXCEPT ![m] = [markers[m] EXCEPT !.state = "rejected"]]
    BY <2>1, <2>2 DEF LooksUpLease, RejectsEnvelope
  <2>3. ASSUME NEW m \in Marker, NEW o \in {"done", "failed"},
               markers' = [markers EXCEPT ![m].outcome = o, ![m].form = "expected",
                             ![m].state = IF o = "done" THEN "consumed" ELSE "rejected"]
        PROVE  markers' = [markers EXCEPT ![m] =
                  [markers[m] EXCEPT !.outcome = o, !.form = "expected",
                     !.state = IF o = "done" THEN "consumed" ELSE "rejected"]]
    BY <2>3, Zenon
  <2>4. ASSUME NEW m \in Marker, Consumes(s, m)
        PROVE  \/ UNCHANGED markers \/ Rejects(s, m)
               \/ \E o \in {"done", "failed"} :
                   /\ markers[m].outcome \in {"none", o}
                   /\ markers' = [markers EXCEPT ![m].outcome = o, ![m].form = "expected",
                                    ![m].state = IF o = "done" THEN "consumed" ELSE "rejected"]
    <3>1. markers[m].outcome \in {"none", "done", "failed"} BY MarkerOf, SMTT(60) DEF MarkerRecord
    <3>. QED BY <2>4, <3>1, Zenon DEF Consumes
  <2>5. ASSUME NEW m \in Marker, Consumes(s, m)
        PROVE  \/ UNCHANGED markers
               \/ markers' = [markers EXCEPT ![m] = [markers[m] EXCEPT !.state = "rejected"]]
               \/ \E o \in {"done", "failed"} :
                   /\ markers[m].outcome \in {"none", o}
                   /\ markers' = [markers EXCEPT ![m] =
                        [markers[m] EXCEPT !.outcome = o, !.form = "expected",
                           !.state = IF o = "done" THEN "consumed" ELSE "rejected"]]
    BY <2>1, <2>3, <2>4, <2>5, ZenonT(60)
  <2>. QED BY <2>2, <2>5, Zenon DEF ScanStarts, ListsMarkers, GivesUp, AdvancesCursor
<1>3. CASE ElsewhereNext BY <1>3 DEF ElsewhereNext
<1>4. CASE InterventionNext
  <2>1. ASSUME NEW m \in Marker, ConsumesByHand(m)
        PROVE  \E o \in {"done", "failed"} :
                 /\ markers[m].outcome = "none" /\ markers[m].state = "issued"
                 /\ markers' = [markers EXCEPT ![m] =
                      [markers[m] EXCEPT !.outcome = o,
                         !.form = IF markers[m].kind = "arm_accepted" THEN "other"
                                                                      ELSE "expected"]]
    BY <2>1, ZenonT(60) DEF ConsumesByHand, Usable, Consumable
  <2>2. ASSUME NEW a \in Attempt, ArmsDirectly(a) \/ \E m \in Marker : PendsDirectly(a, m)
        PROVE  UNCHANGED markers
    BY <2>2, SMTT(60) DEF ArmsDirectly, PendsDirectly
  <2>. QED BY <1>4, <2>1, <2>2, Zenon DEF InterventionNext, Replaced, BindsScanner, ScanDies
<1>. QED BY <1>1, <1>2, <1>3, <1>4, Zenon DEF Next

(* Every step keeps the markers.                                           *)
LEMMA MarkerStep ==
  ASSUME StoreInv, Next
  PROVE  MarkerInv(markers') /\ MarkersAge(markers, markers') /\ MarkersKnown(markers', attempts')
<1>1. MarkerInv(markers) BY DEF StoreInv
<1>2. DOMAIN attempts \subseteq DOMAIN attempts' BY TableStep
<1>3. ASSUME MarkerInv(markers'), MarkersAge(markers, markers'), DOMAIN markers' = DOMAIN markers
      PROVE  MarkersKnown(markers', attempts')
  BY <1>2, <1>3 DEF MarkersAge, Ages, MarkersKnown, StoreInv
<1>4. CASE UNCHANGED markers
  <2>1. MarkersAge(markers, markers') BY <1>4 DEF MarkersAge, Ages
  <2>. QED BY <1>1, <1>3, <1>4, <2>1
<1>5. CASE \E b \in Bridge : Materializes(b)
  <2>1. /\ MarkerInv(markers') /\ MarkersAge(markers, markers')
        /\ \A m \in DOMAIN markers' \ DOMAIN markers : markers'[m].attempt \in DOMAIN attempts'
    BY <1>5, MaterializeKeeps
  <2>. QED BY <1>2, <2>1 DEF MarkersAge, Ages, MarkersKnown, StoreInv
<1>6. CASE markers' = [m \in Marker |-> Expired(Reconciled(markers[m]), clock)]
  <2>1. DOMAIN markers' = DOMAIN markers BY <1>6, SMTT(60) DEF Marker
  <2>2. \A m \in DOMAIN markers : Succeeds(markers[m], markers'[m])
    BY <1>1, <1>6, MarkerOf, MarkerForms, Zenon DEF Marker
  <2>3. markers' \in [DOMAIN markers -> MarkerRecord] BY <1>6, <2>1, <2>2 DEF Succeeds, Marker
  <2>. QED BY <1>1, <1>3, <2>1, <2>2, <2>3, MarkersSucceed
<1>7. ASSUME NEW m \in Marker, NEW r, Succeeds(markers[m], r),
             markers' = [markers EXCEPT ![m] = r]
      PROVE  /\ MarkerInv(markers') /\ MarkersAge(markers, markers')
             /\ MarkersKnown(markers', attempts')
  BY <1>3, <1>7, MarkerChanged
<1>8. ASSUME NEW m \in Marker,
             markers' = [markers EXCEPT ![m] = [markers[m] EXCEPT !.state = "rejected"]]
      PROVE  /\ MarkerInv(markers') /\ MarkersAge(markers, markers')
             /\ MarkersKnown(markers', attempts')
  BY <1>1, <1>7, <1>8, MarkerOf, MarkerForms
<1>9. ASSUME NEW m \in Marker, NEW o \in {"done", "failed"}, markers[m].outcome \in {"none", o},
             markers' = [markers EXCEPT ![m] =
               [markers[m] EXCEPT !.outcome = o, !.form = "expected",
                  !.state = IF o = "done" THEN "consumed" ELSE "rejected"]]
      PROVE  /\ MarkerInv(markers') /\ MarkersAge(markers, markers')
             /\ MarkersKnown(markers', attempts')
  <2>1. PICK r : r = [markers[m] EXCEPT !.outcome = o, !.form = "expected",
                        !.state = IF o = "done" THEN "consumed" ELSE "rejected"]
    OBVIOUS
  <2>2. Succeeds(markers[m], r) BY <1>1, <1>9, <2>1, MarkerOf, MarkerForms, Zenon
  <2>. QED BY <1>7, <1>9, <2>1, <2>2, Zenon
<1>10. ASSUME NEW m \in Marker, NEW o \in {"done", "failed"},
              markers[m].outcome = "none", markers[m].state = "issued",
              markers' = [markers EXCEPT ![m] =
                [markers[m] EXCEPT !.outcome = o,
                   !.form = IF markers[m].kind = "arm_accepted" THEN "other" ELSE "expected"]]
      PROVE  /\ MarkerInv(markers') /\ MarkersAge(markers, markers')
             /\ MarkersKnown(markers', attempts')
  <2>1. PICK r : r = [markers[m] EXCEPT !.outcome = o,
                        !.form = IF markers[m].kind = "arm_accepted" THEN "other" ELSE "expected"]
    OBVIOUS
  <2>2. Succeeds(markers[m], r) BY <1>1, <1>10, <2>1, MarkerOf, MarkerForms, Zenon
  <2>. QED BY <1>7, <1>10, <2>1, <2>2, Zenon
<1>. QED BY <1>1, <1>4, <1>5, <1>6, <1>8, <1>9, <1>10, MarkerSteps, Zenon

(***************************************************************************)
(* Rollouts.                                                               *)
(***************************************************************************)

(* The lines of all rollouts, of a given state of theirs.                  *)
LinesIn(rs) == UNION {UNION {{<<b, f>>} \X DOMAIN rs[b][f] : f \in DOMAIN rs[b]} : b \in Bridge}

(* A line carries a marker there is.                                       *)
LinesKnown(ms, rs) ==
  \A b \in Bridge : \A f \in DOMAIN rs[b] : \A i \in DOMAIN rs[b][f] :
    rs[b][f][i].marker \in DOMAIN ms

(* The rollouts are files of lines, within the bounds.                     *)
RolloutsOK(rs) ==
  /\ rs \in [Bridge -> Seq(Seq(Line))]
  /\ \A b \in Bridge : Len(rs[b]) \in 1 .. MaxFiles
  /\ IsFiniteSet(LinesIn(rs)) /\ Cardinality(LinesIn(rs)) <= MaxLines

(* Files and lines are only added.                                         *)
RolloutsGrow(rs, rs2) ==
  \A b \in Bridge :
    /\ DOMAIN rs[b] \subseteq DOMAIN rs2[b]
    /\ \A f \in DOMAIN rs[b] :
         /\ DOMAIN rs[b][f] \subseteq DOMAIN rs2[b][f]
         /\ Len(rs[b][f]) <= Len(rs2[b][f])
         /\ \A i \in DOMAIN rs[b][f] : rs2[b][f][i] = rs[b][f][i]

(* Which lines those are.                                                  *)
LEMMA LinesAre ==
  ASSUME NEW rs, NEW x
  PROVE  x \in LinesIn(rs) <=>
           \E b \in Bridge : \E f \in DOMAIN rs[b] : \E i \in DOMAIN rs[b][f] : x = <<<<b, f>>, i>>
BY DEF LinesIn

(* What the rollouts are made of.                                          *)
LEMMA FileOf ==
  ASSUME NEW rs, RolloutsOK(rs), NEW b \in Bridge, NEW f \in DOMAIN rs[b]
  PROVE  /\ rs[b] \in Seq(Seq(Line)) /\ DOMAIN rs[b] = 1 .. Len(rs[b]) /\ f \in 1 .. MaxFiles
         /\ rs[b][f] \in Seq(Line)
         /\ DOMAIN rs[b][f] = 1 .. Len(rs[b][f]) /\ Len(rs[b][f]) \in 0 .. MaxLines
<1>1. rs[b] \in Seq(Seq(Line)) /\ Len(rs[b]) \in 1 .. MaxFiles BY DEF RolloutsOK
<1>2. DOMAIN rs[b] = 1 .. Len(rs[b]) BY <1>1, LenProperties
<1>3. f \in 1 .. MaxFiles BY <1>1, <1>2, RelayAssumption
<1>4. rs[b][f] \in Seq(Line) BY <1>1, <1>2, ElementOfSeq
<1>5. PICK q \in Seq(Line) : q = rs[b][f] BY <1>4
<1>6. DOMAIN q = 1 .. Len(q) /\ Len(q) \in Nat BY LenProperties
<1>7. {<<b, f>>} \X DOMAIN q \subseteq LinesIn(rs) BY <1>5, LinesAre
<1>8. IsFiniteSet(DOMAIN q) /\ Cardinality(DOMAIN q) = Len(q) BY <1>6, SegmentFinite
<1>9. Cardinality(DOMAIN q) <= Cardinality(LinesIn(rs))
  <2>. DEFINE g == [i \in DOMAIN q |-> <<<<b, f>>, i>>]
              T == {<<b, f>>} \X DOMAIN q
  <2>maps. g \in [DOMAIN q -> T] OBVIOUS
  <2>once. \A i, j \in DOMAIN q : g[i] = g[j] => i = j OBVIOUS
  <2>all. \A t \in T : \E i \in DOMAIN q : g[i] = t OBVIOUS
  <2>. HIDE DEF g, T
  <2>1. g \in Bijection(DOMAIN q, T)
    BY <2>maps, <2>once, <2>all DEF Bijection, Injection, Surjection, IsInjective
  <2>same. ExistsBijection(DOMAIN q, T) BY <2>1 DEF ExistsBijection
  <2>2. Cardinality(T) = Cardinality(DOMAIN q) BY <1>8, <2>same, FS_Bijection
  <2>3. T \subseteq LinesIn(rs) BY <1>7 DEF T
  <2>4. Cardinality(T) <= Cardinality(LinesIn(rs)) BY <2>3, FS_Subset DEF RolloutsOK
  <2>. QED BY <2>2, <2>4
<1>10. Cardinality(LinesIn(rs)) \in Nat BY FS_CardinalityType DEF RolloutsOK
<1>11. Len(q) \in 0 .. MaxLines BY <1>6, <1>8, <1>9, <1>10, RelayAssumption DEF RolloutsOK
<1>. QED BY <1>1, <1>2, <1>3, <1>5, <1>6, <1>11

(* Rollouts that do not change grow.                                       *)
LEMMA GrowSame == ASSUME NEW rs, RolloutsOK(rs) PROVE RolloutsGrow(rs, rs)
<1>1. ASSUME NEW b \in Bridge, NEW f \in DOMAIN rs[b] PROVE Len(rs[b][f]) <= Len(rs[b][f])
  <2>1. Len(rs[b][f]) \in Nat BY FileOf, RelayAssumption
  <2>. QED BY <2>1
<1>. QED BY <1>1 DEF RolloutsGrow

(* One line more, in the file k of the bridge b.                           *)
AddsLine(rs, rs2, b, k, n) ==
  /\ b \in Bridge /\ k \in DOMAIN rs[b]
  /\ \A c \in Bridge : DOMAIN rs2[c] = DOMAIN rs[c]
  /\ \A c \in Bridge : \A f \in DOMAIN rs[c] :
       DOMAIN rs2[c][f] = IF c = b /\ f = k THEN DOMAIN rs[c][f] \cup {n}
                                            ELSE DOMAIN rs[c][f]

(* Then there is that line more, and no other.                             *)
LEMMA LinesGrow ==
  ASSUME NEW rs, NEW rs2, NEW b, NEW k, NEW n, AddsLine(rs, rs2, b, k, n)
  PROVE  LinesIn(rs2) = LinesIn(rs) \cup {<<<<b, k>>, n>>}
<1>. USE DEF AddsLine
<1>1. ASSUME NEW x \in LinesIn(rs2) PROVE x \in LinesIn(rs) \cup {<<<<b, k>>, n>>}
  <2>1. PICK c \in Bridge : \E f \in DOMAIN rs2[c] : \E i \in DOMAIN rs2[c][f] : x = <<<<c, f>>, i>>
    BY LinesAre
  <2>2. PICK f \in DOMAIN rs[c] : \E i \in DOMAIN rs2[c][f] : x = <<<<c, f>>, i>> BY <2>1
  <2>3. PICK i \in DOMAIN rs2[c][f] : x = <<<<c, f>>, i>> BY <2>2
  <2>4. CASE i \in DOMAIN rs[c][f] BY <2>3, <2>4, LinesAre
  <2>5. CASE i \notin DOMAIN rs[c][f]
    <3>1. c = b /\ f = k /\ i = n BY <2>5
    <3>. QED BY <2>3, <3>1
  <2>. QED BY <2>4, <2>5
<1>2. ASSUME NEW x \in LinesIn(rs) PROVE x \in LinesIn(rs2)
  <2>1. PICK c \in Bridge : \E f \in DOMAIN rs[c] : \E i \in DOMAIN rs[c][f] : x = <<<<c, f>>, i>>
    BY LinesAre
  <2>2. PICK f \in DOMAIN rs[c] : \E i \in DOMAIN rs[c][f] : x = <<<<c, f>>, i>> BY <2>1
  <2>3. PICK i \in DOMAIN rs[c][f] : x = <<<<c, f>>, i>> BY <2>2
  <2>4. f \in DOMAIN rs2[c] /\ i \in DOMAIN rs2[c][f] OBVIOUS
  <2>. QED BY <2>3, <2>4, LinesAre
<1>3. <<<<b, k>>, n>> \in LinesIn(rs2)
  <2>1. k \in DOMAIN rs2[b] /\ n \in DOMAIN rs2[b][k] OBVIOUS
  <2>. QED BY <2>1, LinesAre
<1>. QED BY <1>1, <1>2, <1>3

(* A bridge puts an envelope into its rollout.                             *)
LEMMA EmitGrows ==
  ASSUME RolloutsOK(rollouts), MarkerInv(markers), LinesKnown(markers, rollouts),
         NEW b \in Bridge, Emits(b)
  PROVE  /\ RolloutsOK(rollouts') /\ RolloutsGrow(rollouts, rollouts')
         /\ LinesKnown(markers, rollouts')
<1>. PICK m \in Marker, form \in Form :
       /\ Cardinality(Written) < MaxLines
       /\ rollouts' = [rollouts EXCEPT ![b][File(b)] = Append(@, [marker |-> m, form |-> form])]
  BY DEF Emits
<1>. DEFINE k == File(b)
            line == [marker |-> m, form |-> form]
<1>1. PICK fs \in Seq(Seq(Line)) : fs = rollouts[b] BY DEF RolloutsOK
<1>2. k \in DOMAIN fs /\ k = Len(fs) /\ Len(fs) \in 1 .. MaxFiles
  <2>1. DOMAIN fs = 1 .. Len(fs) BY LenProperties
  <2>2. Len(fs) \in 1 .. MaxFiles /\ k = Len(fs) BY <1>1 DEF RolloutsOK, File
  <2>. QED BY <2>1, <2>2, RelayAssumption
<1>3. line \in Line /\ line.marker \in DOMAIN markers
  BY MarkerOf DEF Line, Marker
<1>4. PICK q \in Seq(Line) : q = fs[k] BY <1>1, <1>2, FileOf
<1>5. PICK p : p = Append(q, line) OBVIOUS
<1>6. Appended(q, p, line) /\ p \in Seq(Line) BY <1>3, <1>5, AppendFacts
<1>7. PICK gs : gs = [fs EXCEPT ![k] = p] OBVIOUS
<1>8. /\ gs \in Seq(Seq(Line)) /\ DOMAIN gs = DOMAIN fs /\ Len(gs) = Len(fs) /\ gs[k] = p
      /\ \A j \in DOMAIN fs \ {k} : gs[j] = fs[j]
  BY <1>2, <1>6, <1>7, Replaces
<1>9. rollouts' = [rollouts EXCEPT ![b] = gs] BY <1>1, <1>4, <1>5, <1>7
<1>10. rollouts \in [Bridge -> Seq(Seq(Line))] BY DEF RolloutsOK
<1>. HIDE DEF k, line
<1>11. rollouts' \in [Bridge -> Seq(Seq(Line))] BY <1>8, <1>9, <1>10
<1>12. rollouts'[b] = gs /\ \A c \in Bridge \ {b} : rollouts'[c] = rollouts[c] BY <1>9, <1>10
<1>13. \A c \in Bridge : Len(rollouts'[c]) \in 1 .. MaxFiles
  BY <1>1, <1>8, <1>12 DEF RolloutsOK
<1>14. Len(q) \in Nat /\ DOMAIN q = 1 .. Len(q) BY LenProperties
<1>15. PICK rs2 : rs2 = rollouts' OBVIOUS
<1>lines. LinesIn(rs2) = LinesIn(rollouts) \cup {<<<<b, k>>, Len(q) + 1>>}
  <2>1. \A c \in Bridge : DOMAIN rs2[c] = DOMAIN rollouts[c] BY <1>1, <1>8, <1>12, <1>15
  <2>2. \A c \in Bridge : \A f \in DOMAIN rollouts[c] :
          DOMAIN rs2[c][f] = IF c = b /\ f = k THEN DOMAIN rollouts[c][f] \cup {Len(q) + 1}
                                                ELSE DOMAIN rollouts[c][f]
    BY <1>1, <1>4, <1>6, <1>8, <1>12, <1>15, ZenonT(60) DEF Appended
  <2>3. k \in DOMAIN rollouts[b] BY <1>1, <1>2
  <2>4. PICK n, rs : n = Len(q) + 1 /\ rs = rollouts OBVIOUS
  <2>5. AddsLine(rs, rs2, b, k, n) BY ONLY <2>1, <2>2, <2>3, <2>4, b \in Bridge DEF AddsLine
  <2>6. LinesIn(rs2) = LinesIn(rs) \cup {<<<<b, k>>, n>>} BY ONLY <2>5, LinesGrow
  <2>. QED BY ONLY <2>4, <2>6
<1>16. Cardinality(LinesIn(rollouts)) < MaxLines BY DEF Written, LinesIn
<1>17. IsFiniteSet(LinesIn(rs2)) /\ Cardinality(LinesIn(rs2)) <= MaxLines
  <2>. PICK S, x : S = LinesIn(rollouts) /\ x = <<<<b, k>>, Len(q) + 1>> OBVIOUS
  <2>1. IsFiniteSet(S) /\ Cardinality(S) \in Nat BY FS_CardinalityType DEF RolloutsOK
  <2>2. IsFiniteSet(S \cup {x}) /\ Cardinality(S \cup {x}) <= Cardinality(S) + 1
    <3>1. /\ IsFiniteSet(S \cup {x})
          /\ Cardinality(S \cup {x}) = IF x \in S THEN Cardinality(S) ELSE Cardinality(S) + 1
      BY <2>1, FS_AddElement
    <3>. QED BY <2>1, <3>1
  <2>3. Cardinality(S) < MaxLines BY <1>16
  <2>4. Cardinality(S \cup {x}) \in Nat BY <2>2, FS_CardinalityType
  <2>5. Cardinality(S \cup {x}) <= MaxLines BY <2>1, <2>2, <2>3, <2>4, RelayAssumption
  <2>. QED BY <1>lines, <2>2, <2>5
<1>18. RolloutsOK(rs2) BY <1>11, <1>13, <1>15, <1>17 DEF RolloutsOK
<1>19. ASSUME NEW c \in Bridge, NEW f \in DOMAIN rollouts[c]
       PROVE  /\ f \in DOMAIN rollouts'[c]
              /\ DOMAIN rollouts[c][f] \subseteq DOMAIN rollouts'[c][f]
              /\ Len(rollouts[c][f]) <= Len(rollouts'[c][f])
              /\ \A i \in DOMAIN rollouts[c][f] : rollouts'[c][f][i] = rollouts[c][f][i]
  <2>1. CASE c = b /\ f = k
    BY <1>1, <1>4, <1>6, <1>8, <1>12, <1>14, <2>1, SMTT(60) DEF Appended
  <2>2. CASE ~(c = b /\ f = k)
    <3>1. rollouts'[c][f] = rollouts[c][f] /\ f \in DOMAIN rollouts'[c]
      BY <1>1, <1>8, <1>12, <2>2
    <3>2. Len(rollouts[c][f]) \in Nat BY FileOf, RelayAssumption
    <3>. QED BY <3>1, <3>2
  <2>. QED BY <2>1, <2>2
<1>20. RolloutsGrow(rollouts, rollouts') BY <1>19 DEF RolloutsGrow
<1>21. LinesKnown(markers, rollouts')
  <2>. SUFFICES ASSUME NEW c \in Bridge, NEW f \in DOMAIN rollouts'[c],
                       NEW i \in DOMAIN rollouts'[c][f]
                PROVE  rollouts'[c][f][i].marker \in DOMAIN markers
    BY DEF LinesKnown
  <2>1. CASE c = b /\ f = k
    BY <1>1, <1>2, <1>3, <1>4, <1>6, <1>8, <1>12, <2>1 DEF Appended, LinesKnown
  <2>2. CASE ~(c = b /\ f = k)
    BY <1>1, <1>8, <1>12, <2>2 DEF LinesKnown
  <2>. QED BY <2>1, <2>2
<1>. QED BY <1>15, <1>18, <1>20, <1>21

(* A rollout is replaced by an empty file.                                 *)
LEMMA ReplacedGrows ==
  ASSUME RolloutsOK(rollouts), LinesKnown(markers, rollouts), NEW b \in Bridge, Replaced(b)
  PROVE  /\ RolloutsOK(rollouts') /\ RolloutsGrow(rollouts, rollouts')
         /\ LinesKnown(markers, rollouts')
<1>1. PICK rs2 : rs2 = rollouts' OBVIOUS
<1>2. PICK fs \in Seq(Seq(Line)) : fs = rollouts[b] BY DEF RolloutsOK
<1>3. PICK e : e = << >> OBVIOUS
<1>4. e \in Seq(Line) /\ DOMAIN e = {} /\ Len(e) = 0 BY <1>3, EmptySeq
<1>5. PICK gs : gs = Append(fs, e) OBVIOUS
<1>6. Appended(fs, gs, e) /\ gs \in Seq(Seq(Line)) BY <1>4, <1>5, AppendFacts
<1>7. rollouts \in [Bridge -> Seq(Seq(Line))] BY DEF RolloutsOK
<1>8. rs2 = [rollouts EXCEPT ![b] = gs] BY <1>1, <1>2, <1>3, <1>5 DEF Replaced
<1>9. /\ rs2 \in [Bridge -> Seq(Seq(Line))]
      /\ rs2[b] = gs /\ \A c \in Bridge \ {b} : rs2[c] = rollouts[c]
  BY <1>6, <1>7, <1>8
<1>10. Len(fs) \in 1 .. MaxFiles /\ Len(fs) < MaxFiles
  BY <1>2 DEF RolloutsOK, Replaced, File
<1>11. Len(gs) \in 1 .. MaxFiles BY <1>6, <1>10, RelayAssumption DEF Appended
<1>12. \A c \in Bridge : Len(rs2[c]) \in 1 .. MaxFiles BY <1>9, <1>11 DEF RolloutsOK
<1>13. ASSUME NEW c \in Bridge, NEW f \in DOMAIN rollouts[c]
       PROVE  f \in DOMAIN rs2[c] /\ rs2[c][f] = rollouts[c][f]
  BY <1>2, <1>6, <1>9 DEF Appended
<1>14. ASSUME NEW c \in Bridge, NEW f \in DOMAIN rs2[c], NEW i \in DOMAIN rs2[c][f]
       PROVE  f \in DOMAIN rollouts[c]
  BY <1>2, <1>4, <1>6, <1>9 DEF Appended
<1>15. LinesIn(rs2) = LinesIn(rollouts)
  <2>1. ASSUME NEW x \in LinesIn(rs2) PROVE x \in LinesIn(rollouts)
    <3>1. PICK c \in Bridge : \E f \in DOMAIN rs2[c] : \E i \in DOMAIN rs2[c][f] :
            x = <<<<c, f>>, i>>
      BY LinesAre
    <3>2. PICK f \in DOMAIN rs2[c] : \E i \in DOMAIN rs2[c][f] : x = <<<<c, f>>, i>> BY <3>1
    <3>3. PICK i \in DOMAIN rs2[c][f] : x = <<<<c, f>>, i>> BY <3>2
    <3>4. f \in DOMAIN rollouts[c] /\ i \in DOMAIN rollouts[c][f] BY <1>13, <1>14
    <3>. QED BY <3>3, <3>4, LinesAre
  <2>2. ASSUME NEW x \in LinesIn(rollouts) PROVE x \in LinesIn(rs2)
    <3>1. PICK c \in Bridge : \E f \in DOMAIN rollouts[c] : \E i \in DOMAIN rollouts[c][f] :
            x = <<<<c, f>>, i>>
      BY LinesAre
    <3>2. PICK f \in DOMAIN rollouts[c] : \E i \in DOMAIN rollouts[c][f] : x = <<<<c, f>>, i>>
      BY <3>1
    <3>3. PICK i \in DOMAIN rollouts[c][f] : x = <<<<c, f>>, i>> BY <3>2
    <3>4. f \in DOMAIN rs2[c] /\ i \in DOMAIN rs2[c][f] BY <1>13
    <3>. QED BY <3>3, <3>4, LinesAre
  <2>. QED BY <2>1, <2>2
<1>16. RolloutsOK(rs2) BY <1>9, <1>12, <1>15 DEF RolloutsOK
<1>17. RolloutsGrow(rollouts, rs2)
  <2>1. ASSUME NEW c \in Bridge, NEW f \in DOMAIN rollouts[c]
        PROVE  Len(rollouts[c][f]) <= Len(rs2[c][f])
    <3>1. Len(rollouts[c][f]) \in Nat BY FileOf, RelayAssumption
    <3>. QED BY <1>13, <3>1
  <2>. QED BY <1>13, <2>1 DEF RolloutsGrow
<1>18. LinesKnown(markers, rs2) BY <1>13, <1>14 DEF LinesKnown
<1>. QED BY <1>1, <1>16, <1>17, <1>18

(* Who changes the rollouts.                                               *)
LEMMA RolloutSteps ==
  ASSUME Next
  PROVE  UNCHANGED rollouts \/ \E b \in Bridge : Emits(b) \/ Replaced(b)
<1>1. CASE BridgeNext
  BY <1>1 DEF BridgeNext, PreflightSweeps, Materializes
<1>2. CASE ScanNext
  <2>1. ASSUME NEW s \in Scan, NEW b \in Bridge, ScanStarts(s, b) PROVE UNCHANGED rollouts
    BY <2>1 DEF ScanStarts
  <2>2. ASSUME NEW s \in Scan, ListsMarkers(s) \/ GivesUp(s) \/ AdvancesCursor(s)
        PROVE  UNCHANGED rollouts
    BY <2>2 DEF ListsMarkers, GivesUp, AdvancesCursor
  <2>3. ASSUME NEW s \in Scan, NEW m \in Marker,
               LooksUpLease(s, m) \/ Consumes(s, m) \/ RejectsEnvelope(s, m)
        PROVE  UNCHANGED rollouts
    BY <2>3 DEF LooksUpLease, Consumes, RejectsEnvelope
  <2>. QED BY <1>2, <2>1, <2>2, <2>3 DEF ScanNext
<1>3. CASE ElsewhereNext BY <1>3 DEF ElsewhereNext, relayVars
<1>4. CASE InterventionNext
  BY <1>4 DEF InterventionNext, BindsScanner, ScanDies, ConsumesByHand, ArmsDirectly, PendsDirectly,
     relayVars
<1>. QED BY <1>1, <1>2, <1>3, <1>4 DEF Next

(* What a step does to the rollouts.                                       *)
LEMMA RolloutStep ==
  ASSUME StoreInv, RolloutsOK(rollouts), LinesKnown(markers, rollouts), Next
  PROVE  /\ RolloutsOK(rollouts') /\ RolloutsGrow(rollouts, rollouts')
         /\ LinesKnown(markers', rollouts')
<1>1. MarkerInv(markers) BY DEF StoreInv
<1>2. PICK rs2, ms2 : rs2 = rollouts' /\ ms2 = markers' OBVIOUS
<1>3. DOMAIN markers \subseteq DOMAIN ms2 BY <1>2, MarkerStep DEF MarkersAge
<1>4. RolloutsOK(rs2) /\ RolloutsGrow(rollouts, rs2) /\ LinesKnown(markers, rs2)
  <2>1. CASE UNCHANGED rollouts BY <1>2, <2>1, GrowSame
  <2>2. ASSUME NEW b \in Bridge, Emits(b)
        PROVE  RolloutsOK(rs2) /\ RolloutsGrow(rollouts, rs2) /\ LinesKnown(markers, rs2)
    BY <1>1, <1>2, <2>2, EmitGrows
  <2>3. ASSUME NEW b \in Bridge, Replaced(b)
        PROVE  RolloutsOK(rs2) /\ RolloutsGrow(rollouts, rs2) /\ LinesKnown(markers, rs2)
    BY <1>2, <2>3, ReplacedGrows
  <2>. QED BY <2>1, <2>2, <2>3, RolloutSteps
<1>5. LinesKnown(ms2, rs2) BY <1>3, <1>4 DEF LinesKnown
<1>. QED BY <1>2, <1>4, <1>5

(***************************************************************************)
(* Scans.                                                                  *)
(***************************************************************************)

(* A row's cursor lies in its file, not before the place it was bound at.  *)
RowInv(row, files) ==
  /\ row \in ScannerRow /\ row.file \in DOMAIN files
  /\ row.from <= row.cursor /\ row.cursor <= Len(files[row.file])

(* The markers of a bridge that can be consumed and have a line in a part  *)
(* of the file are among these.                                            *)
Covered(ms, file, b, now, first, last, todo) ==
  \A m \in DOMAIN ms :
    /\ ms[m].bridge = b /\ Usable(ms[m], now)
    /\ \E i \in first + 1 .. last : file[i].marker = m
    => m \in todo

(* Behind the cursor no such marker is left.                               *)
ScannerInv(row, b, ms, files, now) ==
  /\ RowInv(row, files)
  /\ Covered(ms, files[row.file], b, now, row.from, row.cursor, {})

(* A scan holds the current row unless that was written since, and once it *)
(* has listed the markers it knows all it has to take from what it reads.  *)
TickInv(t, ms, rs, scs, now) ==
  t.doing # "idle" =>
    /\ t.bridge \in Bridge /\ t.now <= now
    /\ RowInv(t.row, rs[t.bridge])
    /\ t.row.cursor <= t.eof /\ t.eof <= Len(rs[t.bridge][t.row.file])
    /\ t.overtaken \/ t.row = scs[t.bridge]
    /\ t.doing = "scanned" =>
         Covered(ms, rs[t.bridge][t.row.file], t.bridge, now, t.row.cursor,
                 Lesser(t.eof, t.row.cursor + LinesPerTick), t.todo)

(* The invariant of scanners and scans.                                    *)
ScanInv(ms, rs, scs, ts, now) ==
  /\ scs \in [Bridge -> ScannerRow] /\ ts \in [Scan -> TickRecord]
  /\ \A b \in Bridge : ScannerInv(scs[b], b, ms, rs[b], now)
  /\ \A s \in Scan : TickInv(ts[s], ms, rs, scs, now)

(* Markers that come later are on no line that there is, and a marker that *)
(* cannot be consumed stays so: what is covered remains covered.           *)
LEMMA CoveredStays ==
  ASSUME NEW ms, NEW ms2, NEW file, NEW file2, NEW b, NEW now \in Nat, NEW now2 \in Nat,
         NEW first \in Nat, NEW last \in Nat, NEW todo,
         Covered(ms, file, b, now, first, last, todo),
         MarkerInv(ms), MarkersAge(ms, ms2), now <= now2,
         \A i \in first + 1 .. last :
           file2[i] = file[i] /\ file[i].marker \in DOMAIN ms
  PROVE  Covered(ms2, file2, b, now2, first, last, todo)
<1>. SUFFICES ASSUME NEW m \in DOMAIN ms2, ms2[m].bridge = b, Usable(ms2[m], now2),
                     NEW i \in first + 1 .. last, file2[i].marker = m
              PROVE  m \in todo
  BY DEF Covered
<1>1. m \in DOMAIN ms /\ file[i].marker = m OBVIOUS
<1>2. Ages(ms[m], ms2[m]) BY <1>1 DEF MarkersAge
<1>3. ms[m].expires \in Nat
  <2>1. ms \in Seq(MarkerRecord) BY DEF MarkerInv
  <2>2. ms[m] \in MarkerRecord BY <1>1, <2>1, LenProperties, ElementOfSeq
  <2>. QED BY <2>2 DEF MarkerRecord
<1>4. ms[m].bridge = b /\ Usable(ms[m], now) BY <1>2, <1>3 DEF Ages, Usable
<1>. QED BY <1>1, <1>4 DEF Covered

(* The files a row points into only grow.                                  *)
LEMMA RowStays ==
  ASSUME NEW rs, NEW rs2, RolloutsOK(rs), RolloutsOK(rs2), RolloutsGrow(rs, rs2), NEW ms,
         LinesKnown(ms, rs), NEW b \in Bridge, NEW row, RowInv(row, rs[b])
  PROVE  /\ RowInv(row, rs2[b])
         /\ row.from \in Nat /\ row.cursor \in Nat
         /\ Len(rs[b][row.file]) \in Nat /\ Len(rs2[b][row.file]) \in Nat
         /\ Len(rs[b][row.file]) <= Len(rs2[b][row.file])
         /\ \A i \in Nat \ {0} : i <= Len(rs[b][row.file]) =>
              /\ rs2[b][row.file][i] = rs[b][row.file][i]
              /\ rs[b][row.file][i].marker \in DOMAIN ms
<1>1. row \in ScannerRow /\ row.file \in DOMAIN rs[b] BY DEF RowInv
<1>2. row.from \in Nat /\ row.cursor \in Nat BY <1>1, RelayAssumption DEF ScannerRow
<1>3. row.file \in DOMAIN rs2[b] BY <1>1 DEF RolloutsGrow
<1>4. /\ DOMAIN rs[b][row.file] = 1 .. Len(rs[b][row.file]) /\ Len(rs[b][row.file]) \in Nat
      /\ Len(rs2[b][row.file]) \in Nat
  BY <1>1, <1>3, FileOf, RelayAssumption, SMTT(60)
<1>5. Len(rs[b][row.file]) <= Len(rs2[b][row.file]) BY <1>1 DEF RolloutsGrow
<1>6. RowInv(row, rs2[b]) BY <1>2, <1>3, <1>4, <1>5 DEF RowInv
<1>7. ASSUME NEW i \in Nat \ {0}, i <= Len(rs[b][row.file])
      PROVE  /\ rs2[b][row.file][i] = rs[b][row.file][i]
             /\ rs[b][row.file][i].marker \in DOMAIN ms
  <2>1. i \in DOMAIN rs[b][row.file] BY <1>4, <1>7
  <2>. QED BY <1>1, <2>1 DEF RolloutsGrow, LinesKnown
<1>. QED BY <1>2, <1>4, <1>5, <1>6, <1>7

(* A row that is not written.                                              *)
LEMMA ScannerStays ==
  ASSUME NEW rs, NEW rs2, RolloutsOK(rs), RolloutsOK(rs2), RolloutsGrow(rs, rs2),
         NEW ms, NEW ms2, LinesKnown(ms, rs), MarkerInv(ms), MarkersAge(ms, ms2),
         NEW now \in Nat, NEW now2 \in Nat, now <= now2,
         NEW b \in Bridge, NEW row, ScannerInv(row, b, ms, rs[b], now)
  PROVE  ScannerInv(row, b, ms2, rs2[b], now2)
<1>1. RowInv(row, rs[b]) /\ Covered(ms, rs[b][row.file], b, now, row.from, row.cursor, {})
  BY DEF ScannerInv
<1>2. /\ RowInv(row, rs2[b]) /\ row.from \in Nat /\ row.cursor \in Nat
      /\ Len(rs[b][row.file]) \in Nat
      /\ \A i \in Nat \ {0} : i <= Len(rs[b][row.file]) =>
           rs2[b][row.file][i] = rs[b][row.file][i] /\ rs[b][row.file][i].marker \in DOMAIN ms
  BY <1>1, RowStays
<1>3. row.cursor <= Len(rs[b][row.file]) BY <1>1 DEF RowInv
<1>4. \A i \in row.from + 1 .. row.cursor :
        rs2[b][row.file][i] = rs[b][row.file][i] /\ rs[b][row.file][i].marker \in DOMAIN ms
  <2>1. \A i \in row.from + 1 .. row.cursor : i \in Nat \ {0} /\ i <= Len(rs[b][row.file])
    BY <1>2, <1>3
  <2>. QED BY <1>2, <2>1
<1>5. Covered(ms2, rs2[b][row.file], b, now2, row.from, row.cursor, {})
  <2>. PICK file, file2 : file = rs[b][row.file] /\ file2 = rs2[b][row.file] OBVIOUS
  <2>1. Covered(ms, file, b, now, row.from, row.cursor, {}) BY <1>1
  <2>2. \A i \in row.from + 1 .. row.cursor : file2[i] = file[i] /\ file[i].marker \in DOMAIN ms
    BY <1>4
  <2>3. row.from \in Nat /\ row.cursor \in Nat BY <1>2
  <2>4. Covered(ms2, file2, b, now2, row.from, row.cursor, {})
    BY <2>1, <2>2, <2>3, CoveredStays
  <2>. QED BY <2>4
<1>. QED BY <1>2, <1>5 DEF ScannerInv

(* What a step does to the rest of the state.                              *)
Later(ms, rs, now, ms2, rs2, now2) ==
  /\ RolloutsOK(rs) /\ RolloutsOK(rs2) /\ RolloutsGrow(rs, rs2)
  /\ MarkerInv(ms) /\ MarkersAge(ms, ms2) /\ LinesKnown(ms, rs)
  /\ now \in Nat /\ now2 \in Nat /\ now <= now2

(* A scan that goes on: its row is the current one only if neither was     *)
(* written, and what it need not take any more cannot be consumed.         *)
Proceeds(t, t2, ms2, scs, scs2) ==
  /\ t2.doing = t.doing /\ t2.bridge = t.bridge /\ t2.now = t.now
  /\ t2.row = t.row /\ t2.eof = t.eof
  /\ t2.overtaken \/ (~t.overtaken /\ scs2[t.bridge] = scs[t.bridge])
  /\ \A m \in t.todo : m \in t2.todo \/ ms2[m].state # "issued"

(* What a scan knows, it knows after a step of others.                     *)
LEMMA TickStays ==
  ASSUME NEW ms, NEW rs, NEW now, NEW ms2, NEW rs2, NEW now2, Later(ms, rs, now, ms2, rs2, now2),
         NEW scs, NEW scs2, NEW t \in TickRecord, TickInv(t, ms, rs, scs, now),
         NEW t2, t2.doing = "idle" \/ Proceeds(t, t2, ms2, scs, scs2)
  PROVE  TickInv(t2, ms2, rs2, scs2, now2)
<1>. SUFFICES ASSUME t2.doing # "idle" PROVE TickInv(t2, ms2, rs2, scs2, now2) BY DEF TickInv
<1>. USE DEF Later
<1>1. Proceeds(t, t2, ms2, scs, scs2) /\ t.doing # "idle" BY DEF Proceeds
<1>2. PICK b \in Bridge : b = t.bridge BY <1>1 DEF TickInv
<1>row. PICK row : row = t.row OBVIOUS
<1>3. /\ RowInv(row, rs[b]) /\ row.cursor <= t.eof /\ t.eof <= Len(rs[b][row.file])
      /\ t.now <= now
  BY <1>1, <1>2, <1>row DEF TickInv
<1>4. /\ RowInv(row, rs2[b]) /\ row.cursor \in Nat
      /\ Len(rs[b][row.file]) \in Nat /\ Len(rs2[b][row.file]) \in Nat
      /\ Len(rs[b][row.file]) <= Len(rs2[b][row.file])
      /\ \A i \in Nat \ {0} : i <= Len(rs[b][row.file]) =>
           rs2[b][row.file][i] = rs[b][row.file][i] /\ rs[b][row.file][i].marker \in DOMAIN ms
  BY <1>3, RowStays
<1>5. t.eof \in Nat /\ t.now \in Nat BY RelayAssumption, ArmAssumption DEF TickRecord, Time
<1>6. t.eof <= Len(rs2[b][row.file]) /\ t.now <= now2 BY <1>3, <1>4, <1>5, SMTT(60)
<1>7. PICK last : last = Lesser(t.eof, row.cursor + LinesPerTick) OBVIOUS
<1>8. last \in Nat /\ last <= Len(rs[b][row.file])
  BY <1>3, <1>4, <1>5, <1>7, RelayAssumption, SMTT(60) DEF Lesser
<1>9. \A i \in row.cursor + 1 .. last :
        rs2[b][row.file][i] = rs[b][row.file][i] /\ rs[b][row.file][i].marker \in DOMAIN ms
  <2>1. \A i \in row.cursor + 1 .. last : i \in Nat \ {0} /\ i <= Len(rs[b][row.file])
    BY <1>4, <1>8
  <2>. QED BY <1>4, <2>1
<1>10. ASSUME t.doing = "scanned"
       PROVE  Covered(ms2, rs2[b][row.file], b, now2, row.cursor, last, t2.todo)
  <2>. PICK file, file2 : file = rs[b][row.file] /\ file2 = rs2[b][row.file] OBVIOUS
  <2>1. Covered(ms, file, b, now, row.cursor, last, t.todo)
    BY <1>1, <1>2, <1>row, <1>7, <1>10 DEF TickInv
  <2>2. Covered(ms2, file2, b, now2, row.cursor, last, t.todo)
    <3>1. \A i \in row.cursor + 1 .. last : file2[i] = file[i] /\ file[i].marker \in DOMAIN ms
      BY <1>9
    <3>. QED BY <1>4, <1>8, <2>1, <3>1, CoveredStays, ZenonT(60)
  <2>3. \A m \in t.todo : m \in t2.todo \/ ms2[m].state # "issued" BY <1>1 DEF Proceeds
  <2>. QED BY <2>2, <2>3 DEF Covered, Usable
<1>11. t2.overtaken \/ row = scs2[b] BY <1>1, <1>2, <1>row DEF TickInv, Proceeds
<1>12. t2.bridge = b /\ t2.row = row /\ t2.now = t.now /\ t2.eof = t.eof /\ t2.doing = t.doing
  BY <1>1, <1>2, <1>row DEF Proceeds
<1>. QED BY <1>3, <1>4, <1>6, <1>7, <1>10, <1>11, <1>12 DEF TickInv

(* What scans hold is of the type of ticks.                                *)
LEMMA TickForms ==
  /\ NoTick \in TickRecord /\ NoTick.doing = "idle"
  /\ FirstRow \in ScannerRow
  /\ \A row \in ScannerRow : [row EXCEPT !.state = "degraded"] \in ScannerRow
<1>1. FirstRow \in ScannerRow BY RelayAssumption DEF FirstRow, ScannerRow
<1>2. NoTick \in TickRecord /\ NoTick.doing = "idle"
  BY <1>1, ArmAssumption, RelayAssumption DEF NoTick, TickRecord, Time
<1>3. \A row \in ScannerRow : [row EXCEPT !.state = "degraded"] \in ScannerRow BY DEF ScannerRow
<1>. QED BY <1>1, <1>2, <1>3

(* One scan moves on or ends.                                              *)
LEMMA OneTick ==
  ASSUME NEW ms, NEW rs, NEW now, NEW ms2, NEW rs2, NEW now2, Later(ms, rs, now, ms2, rs2, now2),
         NEW scs, NEW ts, ScanInv(ms, rs, scs, ts, now),
         NEW s \in Scan, NEW t2 \in TickRecord, TickInv(t2, ms2, rs2, scs, now2),
         NEW ts2, ts2 = [ts EXCEPT ![s] = t2]
  PROVE  ScanInv(ms2, rs2, scs, ts2, now2)
<1>1. ts \in [Scan -> TickRecord] BY DEF ScanInv
<1>2. ts2 \in [Scan -> TickRecord] BY <1>1
<1>3. ASSUME NEW b \in Bridge PROVE ScannerInv(scs[b], b, ms2, rs2[b], now2)
  <2>1. ScannerInv(scs[b], b, ms, rs[b], now) BY DEF ScanInv
  <2>. QED BY <2>1, ScannerStays DEF Later
<1>4. ASSUME NEW r \in Scan PROVE TickInv(ts2[r], ms2, rs2, scs, now2)
  <2>1. CASE r = s BY <1>1, <2>1
  <2>2. CASE r # s
    <3>1. PICK t \in TickRecord : t = ts[r] BY <1>1
    <3>2. TickInv(t, ms, rs, scs, now) /\ ts2[r] = t BY <1>1, <2>2, <3>1 DEF ScanInv
    <3>3. CASE t.doing = "idle" BY <3>2, <3>3 DEF TickInv
    <3>4. CASE t.doing # "idle" /\ ~t.overtaken
      <4>1. Proceeds(t, t, ms2, scs, scs) BY <3>4 DEF Proceeds
      <4>. QED BY <3>2, <4>1, TickStays
    <3>5. CASE t.overtaken
      <4>1. Proceeds(t, t, ms2, scs, scs) BY <3>5 DEF Proceeds
      <4>. QED BY <3>2, <4>1, TickStays
    <3>. QED BY <3>3, <3>4, <3>5
  <2>. QED BY <2>1, <2>2
<1>. QED BY <1>2, <1>3, <1>4 DEF ScanInv

(* Nothing of it changes.                                                  *)
LEMMA NoTickMoves ==
  ASSUME NEW ms, NEW rs, NEW now, NEW ms2, NEW rs2, NEW now2, Later(ms, rs, now, ms2, rs2, now2),
         NEW scs, NEW ts, ScanInv(ms, rs, scs, ts, now)
  PROVE  ScanInv(ms2, rs2, scs, ts, now2)
<1>1. ts \in [Scan -> TickRecord] BY DEF ScanInv
<1>2. ASSUME NEW b \in Bridge PROVE ScannerInv(scs[b], b, ms2, rs2[b], now2)
  <2>1. ScannerInv(scs[b], b, ms, rs[b], now) BY DEF ScanInv
  <2>. QED BY <2>1, ScannerStays DEF Later
<1>3. ASSUME NEW r \in Scan PROVE TickInv(ts[r], ms2, rs2, scs, now2)
  <2>1. PICK t \in TickRecord : t = ts[r] BY <1>1
  <2>2. TickInv(t, ms, rs, scs, now) BY <2>1 DEF ScanInv
  <2>3. Proceeds(t, t, ms2, scs, scs) BY DEF Proceeds
  <2>. QED BY <2>1, <2>2, <2>3, TickStays
<1>. QED BY <1>1, <1>2, <1>3 DEF ScanInv

(* Every scan that holds the row of this bridge is told, or has ended.     *)
Told(ts, ts2, b) ==
  /\ DOMAIN ts2 = Scan /\ ts2 = [s \in Scan |-> ts2[s]]
  /\ \A s \in Scan :
       \/ ts2[s] = NoTick
       \/ ts2[s] = IF ts[s].doing # "idle" /\ ts[s].bridge = b
                   THEN [ts[s] EXCEPT !.overtaken = TRUE] ELSE ts[s]

(* A row is written, and every scan that holds it is told.                 *)
LEMMA RowWritten ==
  ASSUME NEW ms, NEW rs, NEW now, NEW ms2, NEW rs2, NEW now2, Later(ms, rs, now, ms2, rs2, now2),
         NEW scs, NEW ts, ScanInv(ms, rs, scs, ts, now),
         NEW b \in Bridge, NEW row, ScannerInv(row, b, ms2, rs2[b], now2),
         NEW scs2, scs2 = [scs EXCEPT ![b] = row], NEW ts2, Told(ts, ts2, b)
  PROVE  ScanInv(ms2, rs2, scs2, ts2, now2)
<1>. USE DEF Told
<1>1. ts \in [Scan -> TickRecord] /\ scs \in [Bridge -> ScannerRow] BY DEF ScanInv
<1>2. row \in ScannerRow BY DEF ScannerInv, RowInv
<1>3. scs2 \in [Bridge -> ScannerRow] BY <1>1, <1>2
<1>4. ASSUME NEW c \in Bridge PROVE ScannerInv(scs2[c], c, ms2, rs2[c], now2)
  <2>1. CASE c = b BY <1>1, <2>1
  <2>2. CASE c # b
    <3>1. ScannerInv(scs[c], c, ms, rs[c], now) BY DEF ScanInv
    <3>2. ScannerInv(scs[c], c, ms2, rs2[c], now2) BY <3>1, ScannerStays DEF Later
    <3>. QED BY <1>1, <2>2, <3>2
  <2>. QED BY <2>1, <2>2
<1>5. ASSUME NEW s \in Scan
      PROVE  ts2[s] \in TickRecord /\ TickInv(ts2[s], ms2, rs2, scs2, now2)
  <2>1. PICK t \in TickRecord : t = ts[s] BY <1>1
  <2>2. TickInv(t, ms, rs, scs, now) BY <2>1 DEF ScanInv
  <2>3. CASE ts2[s] = NoTick BY <2>3, TickForms DEF TickInv
  <2>4. CASE t.doing # "idle" /\ t.bridge = b /\ ts2[s] = [t EXCEPT !.overtaken = TRUE]
    <3>1. PICK t2 : t2 = [t EXCEPT !.overtaken = TRUE] OBVIOUS
    <3>2. /\ t2 \in TickRecord /\ t2.doing = t.doing /\ t2.bridge = t.bridge /\ t2.now = t.now
          /\ t2.row = t.row /\ t2.eof = t.eof /\ t2.todo = t.todo /\ t2.overtaken
      BY <3>1 DEF TickRecord
    <3>3. Proceeds(t, t2, ms2, scs, scs2) BY <3>2 DEF Proceeds
    <3>4. TickInv(t2, ms2, rs2, scs2, now2) BY <2>2, <3>3, TickStays
    <3>5. ts2[s] = t2 BY <2>4, <3>1
    <3>. QED BY <3>2, <3>4, <3>5
  <2>5. CASE t.doing # "idle" /\ t.bridge # b /\ ts2[s] = t
    <3>1. t.bridge \in Bridge BY <2>2, <2>5 DEF TickInv
    <3>2. scs2[t.bridge] = scs[t.bridge] BY <1>1, <2>5, <3>1
    <3>3. Proceeds(t, t, ms2, scs, scs2) BY <3>2 DEF Proceeds
    <3>. QED BY <2>2, <2>5, <3>3, TickStays
  <2>6. CASE t.doing = "idle" /\ ts2[s] = t BY <2>6 DEF TickInv
  <2>. QED BY <2>1, <2>3, <2>4, <2>5, <2>6
<1>6. ts2 \in [Scan -> TickRecord] BY <1>5
<1>. QED BY <1>3, <1>4, <1>5, <1>6 DEF ScanInv

(* Degrading a row keeps the invariant of the row.                         *)
LEMMA DegradeKeeps ==
  ASSUME NEW row, NEW b, NEW ms, NEW files, NEW now, ScannerInv(row, b, ms, files, now),
         NEW row2, row2 = [row EXCEPT !.state = "degraded"]
  PROVE  ScannerInv(row2, b, ms, files, now)
<1>1. row \in ScannerRow /\ RowInv(row, files) BY DEF ScannerInv, RowInv
<1>2. /\ row2 \in ScannerRow /\ row2.file = row.file /\ row2.cursor = row.cursor
      /\ row2.from = row.from
  BY <1>1 DEF ScannerRow
<1>. QED BY <1>1, <1>2 DEF ScannerInv, RowInv

(* So does moving its cursor past lines of which none is left to take.     *)
LEMMA AdvanceKeeps ==
  ASSUME NEW row, NEW b, NEW ms, NEW files, NEW now, ScannerInv(row, b, ms, files, now),
         NEW last \in 0 .. MaxLines, row.cursor <= last, last <= Len(files[row.file]),
         Covered(ms, files[row.file], b, now, row.cursor, last, {}),
         NEW row2, row2 = [row EXCEPT !.cursor = last]
  PROVE  ScannerInv(row2, b, ms, files, now)
<1>1. row \in ScannerRow /\ RowInv(row, files) BY DEF ScannerInv, RowInv
<1>2. row2 \in ScannerRow /\ row2.file = row.file /\ row2.cursor = last /\ row2.from = row.from
  BY <1>1 DEF ScannerRow
<1>3. row.from \in Nat /\ row.cursor \in Nat /\ row.from <= row.cursor
  BY <1>1, RelayAssumption DEF ScannerRow, RowInv
<1>4. RowInv(row2, files) BY <1>1, <1>2, <1>3, RelayAssumption DEF RowInv
<1>5. \A i \in row.from + 1 .. last :
        i \in row.from + 1 .. row.cursor \/ i \in row.cursor + 1 .. last
  BY <1>3, RelayAssumption
<1>6. Covered(ms, files[row.file], b, now, row.from, last, {})
  BY <1>5 DEF ScannerInv, Covered
<1>. QED BY <1>2, <1>4, <1>6 DEF ScannerInv

(* A scanner that is bound anew, to the start or to the end of the file    *)
(* that is at the path now.                                                *)
LEMMA BindKeeps ==
  ASSUME NEW rs, RolloutsOK(rs), NEW b \in Bridge, NEW ms, NEW now, NEW f, f = Len(rs[b]),
         NEW at, at = 0 \/ at = Len(rs[b][f]),
         NEW row, row = [state |-> "active", file |-> f, cursor |-> at, from |-> at]
  PROVE  ScannerInv(row, b, ms, rs[b], now)
<1>1. f \in DOMAIN rs[b] /\ f \in 1 .. MaxFiles
  <2>1. rs[b] \in Seq(Seq(Line)) /\ Len(rs[b]) \in 1 .. MaxFiles BY DEF RolloutsOK
  <2>2. DOMAIN rs[b] = 1 .. Len(rs[b]) BY <2>1, LenProperties
  <2>. QED BY <2>1, <2>2, RelayAssumption
<1>2. Len(rs[b][f]) \in 0 .. MaxLines BY <1>1, FileOf
<1>3. at \in 0 .. MaxLines /\ at <= Len(rs[b][f]) BY <1>2, RelayAssumption
<1>4. row \in ScannerRow BY <1>1, <1>3 DEF ScannerRow
<1>5. RowInv(row, rs[b]) BY <1>1, <1>3, <1>4, RelayAssumption DEF RowInv
<1>6. at + 1 .. at = {} BY <1>3, RelayAssumption
<1>. QED BY <1>5, <1>6 DEF ScannerInv, Covered

(* A scan takes the current row and the length of the file.                *)
Opens(s, b) ==
  /\ File(b) = scanners[b].file
  /\ ticks' = [ticks EXCEPT ![s] =
       [NoTick EXCEPT !.doing = "opened", !.bridge = b, !.now = clock, !.helper = helper,
                      !.row = scanners[b], !.eof = Len(rollouts[b][File(b)])]]

(* What scans and operators do to scanners and scans.  A scan that is done *)
(* with a marker leaves it in a state in which nobody can consume it.      *)
LEMMA ScanSteps ==
  ASSUME MarkerInv(markers), Next
  PROVE  \/ UNCHANGED <<scanners, ticks>>
         \/ \E s \in Scan : Ends(s) /\ UNCHANGED scanners
         \/ \E s \in Scan, b \in Bridge : Opens(s, b) /\ UNCHANGED scanners
         \/ \E b \in Bridge :
              /\ scanners' = [scanners EXCEPT ![b].state = "degraded"]
              /\ ticks' = Overtakes(b)
         \/ \E b \in Bridge, from_start \in BOOLEAN : BindsScanner(b, from_start)
         \/ \E s \in Scan :
              \/ ListsMarkers(s)
              \/ /\ ticks[s].doing = "scanned" /\ IsCurrentRow(s)
                 /\ Writes(s, [ticks[s].row EXCEPT !.state = "degraded"])
              \/ /\ ticks[s].doing = "scanned" /\ ticks[s].todo = {} /\ IsCurrentRow(s)
                 /\ Writes(s, [ticks[s].row EXCEPT !.cursor = ReadTo(s)])
              \/ /\ ticks' = [ticks EXCEPT ![s].lease = TRUE]
                 /\ UNCHANGED scanners
              \/ \E m \in Marker :
                   /\ Handled(s, m) /\ UNCHANGED scanners
                   /\ markers'[m].state # "issued"
<1>. USE DEF Marker
<1>kept. \A m \in Marker : MarkerKept(markers[m]) BY DEF MarkerInv
<1>typed. \A m \in Marker : markers[m] \in MarkerRecord BY MarkerOf
<1>self. markers = [m \in Marker |-> markers[m]]
  <2>1. markers \in Seq(MarkerRecord) BY DEF MarkerInv
  <2>. QED BY <2>1, SeqDef
<1>0. ASSUME NEW s \in Scan, NEW m \in Marker, Rejects(s, m), UNCHANGED scanners
      PROVE  \/ Ends(s) /\ UNCHANGED scanners
             \/ Handled(s, m) /\ UNCHANGED scanners /\ markers'[m].state # "issued"
  <2>1. CASE Ends(s) BY <1>0, <2>1
  <2>2. CASE Handled(s, m) /\ markers' = [markers EXCEPT ![m].state = "rejected"]
    <3>1. markers'[m] = [markers[m] EXCEPT !.state = "rejected"] BY <1>self, <2>2
    <3>2. markers'[m].state = "rejected" BY <1>typed, <3>1 DEF MarkerRecord
    <3>. QED BY <1>0, <2>2, <3>2
  <2>. QED BY <1>0, <2>1, <2>2 DEF Rejects
<1>1. CASE BridgeNext
  BY <1>1 DEF BridgeNext, PreflightSweeps, Materializes, Emits
<1>2. ASSUME NEW s \in Scan, NEW b \in Bridge, ScanStarts(s, b)
      PROVE  \/ UNCHANGED <<scanners, ticks>>
             \/ Opens(s, b) /\ UNCHANGED scanners
             \/ /\ scanners' = [scanners EXCEPT ![b].state = "degraded"]
                /\ ticks' = Overtakes(b)
  BY <1>2 DEF ScanStarts, Opens
<1>3. ASSUME NEW s \in Scan, GivesUp(s)
      PROVE  \/ Ends(s) /\ UNCHANGED scanners
             \/ /\ ticks[s].doing = "scanned" /\ IsCurrentRow(s)
                /\ Writes(s, [ticks[s].row EXCEPT !.state = "degraded"])
  BY <1>3 DEF GivesUp, Degrades
<1>4. ASSUME NEW s \in Scan, AdvancesCursor(s)
      PROVE  \/ Ends(s) /\ UNCHANGED scanners
             \/ /\ ticks[s].doing = "scanned" /\ ticks[s].todo = {} /\ IsCurrentRow(s)
                /\ Writes(s, [ticks[s].row EXCEPT !.cursor = ReadTo(s)])
  BY <1>4 DEF AdvancesCursor
<1>5. ASSUME NEW s \in Scan, NEW m \in Marker, LooksUpLease(s, m)
      PROVE  \/ Ends(s) /\ UNCHANGED scanners
             \/ ticks' = [ticks EXCEPT ![s].lease = TRUE] /\ UNCHANGED scanners
             \/ Handled(s, m) /\ UNCHANGED scanners /\ markers'[m].state # "issued"
  <2>. UNCHANGED scanners BY <1>5 DEF LooksUpLease
  <2>1. CASE ticks' = [ticks EXCEPT ![s].lease = TRUE] BY <2>1
  <2>2. CASE Rejects(s, m) BY <1>0, <2>2
  <2>3. CASE Ends(s) BY <2>3
  <2>4. CASE /\ Handled(s, m) /\ UNCHANGED markers
             /\ markers[m].kind = "arm_accepted" /\ markers[m].form = "expected"
    BY <1>kept, <2>4, SMTT(60) DEF MarkerKept
  <2>. QED BY <1>5, <2>1, <2>2, <2>3, <2>4 DEF LooksUpLease
<1>6. ASSUME NEW s \in Scan, NEW m \in Marker, Consumes(s, m)
      PROVE  \/ Ends(s) /\ UNCHANGED scanners
             \/ Handled(s, m) /\ UNCHANGED scanners /\ markers'[m].state # "issued"
  <2>. UNCHANGED scanners BY <1>6 DEF Consumes
  <2>1. CASE Rejects(s, m) BY <1>0, <2>1
  <2>2. ASSUME NEW o, Handled(s, m),
               markers' = [markers EXCEPT ![m].outcome = o, ![m].form = "expected",
                             ![m].state = IF o = "done" THEN "consumed" ELSE "rejected"]
        PROVE  Handled(s, m) /\ UNCHANGED scanners /\ markers'[m].state # "issued"
    <3>1. PICK st \in {"consumed", "rejected"} : st = IF o = "done" THEN "consumed" ELSE "rejected"
      OBVIOUS
    <3>2. markers'[m] = [markers[m] EXCEPT !.outcome = o, !.form = "expected", !.state = st]
      BY <1>self, <2>2, <3>1
    <3>3. markers'[m].state = st BY <1>typed, <3>2 DEF MarkerRecord
    <3>. QED BY <2>2, <3>3
  <2>. QED BY <1>6, <2>1, <2>2 DEF Consumes
<1>7. ASSUME NEW s \in Scan, NEW m \in Marker, RejectsEnvelope(s, m)
      PROVE  \/ Ends(s) /\ UNCHANGED scanners
             \/ Handled(s, m) /\ UNCHANGED scanners /\ markers'[m].state # "issued"
  <2>1. UNCHANGED scanners /\ Rejects(s, m) BY <1>7 DEF RejectsEnvelope
  <2>. QED BY <1>0, <2>1
<1>8. CASE ScanNext BY <1>2, <1>3, <1>4, <1>5, <1>6, <1>7, <1>8 DEF ScanNext
<1>9. CASE ElsewhereNext BY <1>9 DEF ElsewhereNext, relayVars
<1>10. CASE InterventionNext
  <2>1. ASSUME NEW s \in Scan, ScanDies(s) PROVE Ends(s) /\ UNCHANGED scanners
    BY <2>1 DEF ScanDies
  <2>2. ASSUME NEW b \in Bridge, Replaced(b) PROVE UNCHANGED <<scanners, ticks>>
    BY <2>2 DEF Replaced
  <2>3. ASSUME NEW m \in Marker, ConsumesByHand(m) PROVE UNCHANGED <<scanners, ticks>>
    BY <2>3 DEF ConsumesByHand
  <2>4. ASSUME NEW a \in Attempt, ArmsDirectly(a) PROVE UNCHANGED <<scanners, ticks>>
    BY <2>4 DEF ArmsDirectly, relayVars
  <2>5. ASSUME NEW a \in Attempt, NEW m \in Marker, PendsDirectly(a, m)
        PROVE  UNCHANGED <<scanners, ticks>>
    BY <2>5 DEF PendsDirectly, relayVars
  <2>6. ASSUME UNCHANGED relayVars PROVE UNCHANGED <<scanners, ticks>> BY <2>6 DEF relayVars
  <2>. QED BY <1>10, <2>1, <2>2, <2>3, <2>4, <2>5, <2>6 DEF InterventionNext
<1>. QED BY <1>1, <1>8, <1>9, <1>10 DEF Next

(* A scan that lists the markers knows all it has to take.                 *)
LEMMA ListKeeps ==
  ASSUME StoreInv, RolloutsOK(rollouts), ScanInv(markers, rollouts, scanners, ticks, clock),
         NEW s \in Scan, ListsMarkers(s), NEW t, t = ticks'[s], t.doing # "idle"
  PROVE  t \in TickRecord /\ TickInv(t, markers, rollouts, scanners, clock)
<1>1. PICK t1 \in TickRecord : t1 = ticks[s] BY DEF ScanInv
<1>2. TickInv(t1, markers, rollouts, scanners, clock) /\ t1.doing = "opened"
  BY <1>1 DEF ScanInv, ListsMarkers
<1>3. ticks \in [Scan -> TickRecord] BY DEF ScanInv
<1>4. ~Ends(s) BY <1>3, TickForms DEF Ends
<1>5. PICK listed, todo :
        /\ listed = {m \in Marker : markers[m].bridge = t1.bridge /\ Usable(markers[m], t1.now)}
        /\ todo = {m \in listed : FormsRead(s, m) # {}}
  BY <1>1
<1>6. t = [t1 EXCEPT !.doing = "scanned", !.todo = todo]
  <2>1. ticks' = [ticks EXCEPT ![s].doing = "scanned", ![s].todo = todo]
    BY <1>1, <1>4, <1>5 DEF ListsMarkers
  <2>. QED BY <1>1, <1>3, <2>1
<1>7. todo \subseteq 1 .. MaxMarkers BY <1>5, MarkerOf DEF StoreInv, Marker
<1>8. /\ t \in TickRecord /\ t.doing = "scanned" /\ t.todo = todo /\ t.bridge = t1.bridge
      /\ t.now = t1.now /\ t.row = t1.row /\ t.eof = t1.eof /\ t.overtaken = t1.overtaken
  BY <1>6, <1>7 DEF TickRecord
<1>9. PICK b, row : b \in Bridge /\ b = t1.bridge /\ row = t1.row BY <1>2 DEF TickInv
<1>10. /\ RowInv(row, rollouts[b]) /\ row.cursor <= t1.eof /\ t1.eof <= Len(rollouts[b][row.file])
       /\ t1.now <= clock /\ (t1.overtaken \/ row = scanners[b])
  BY <1>2, <1>9 DEF TickInv
<1>11. clock \in Nat /\ t1.now \in Nat BY ArmAssumption DEF StoreInv, PlainInv, Time, TickRecord
<1>12. PICK file, last :
         file = rollouts[b][row.file] /\ last = Lesser(t1.eof, row.cursor + LinesPerTick)
  OBVIOUS
<1>13. \A m : FormsRead(s, m) = {file[i].form : i \in LinesOf(file, m, row.cursor + 1, last)}
  BY <1>1, <1>9, <1>12 DEF FormsRead, ReadFile, ReadTo
<1>14. Covered(markers, file, b, clock, row.cursor, last, todo)
  <2>. SUFFICES ASSUME NEW m \in DOMAIN markers, markers[m].bridge = b, Usable(markers[m], clock),
                       NEW i \in row.cursor + 1 .. last, file[i].marker = m
                PROVE  m \in todo
    BY DEF Covered
  <2>1. markers[m].expires \in Nat BY MarkerOf DEF StoreInv, Marker, MarkerRecord
  <2>2. m \in listed BY <1>5, <1>9, <1>10, <1>11, <2>1 DEF Usable, Marker
  <2>3. i \in LinesOf(file, m, row.cursor + 1, last) BY DEF LinesOf
  <2>4. FormsRead(s, m) # {}
    <3>1. PICK lines : lines = LinesOf(file, m, row.cursor + 1, last) OBVIOUS
    <3>2. FormsRead(s, m) = {file[j].form : j \in lines} BY <1>13, <3>1
    <3>3. file[i].form \in FormsRead(s, m) BY <2>3, <3>1, <3>2
    <3>. QED BY <3>3
  <2>. QED BY <1>5, <2>2, <2>4
<1>. QED BY <1>8, <1>9, <1>10, <1>12, <1>14 DEF TickInv

(* What a step does to scanners and scans.                                 *)
LEMMA ScanStep ==
  ASSUME StoreInv, RolloutsOK(rollouts), LinesKnown(markers, rollouts),
         ScanInv(markers, rollouts, scanners, ticks, clock), Next
  PROVE  ScanInv(markers', rollouts', scanners', ticks', clock')
<1>. PICK ms2, rs2, scs2, ts2, now2 :
       /\ ms2 = markers' /\ rs2 = rollouts' /\ scs2 = scanners' /\ ts2 = ticks'
       /\ now2 = clock'
  OBVIOUS
<1>1. Later(markers, rollouts, clock, ms2, rs2, now2)
  <2>1. clock \in Nat BY ArmAssumption DEF StoreInv, PlainInv, Time
  <2>2. clock' \in Nat /\ clock <= clock' BY PlainStep, ArmAssumption DEF PlainInv, Time
  <2>3. MarkersAge(markers, markers') BY MarkerStep
  <2>4. RolloutsOK(rollouts') /\ RolloutsGrow(rollouts, rollouts') BY RolloutStep
  <2>5. RolloutsOK(rs2) /\ RolloutsGrow(rollouts, rs2) BY <2>4
  <2>6. MarkersAge(markers, ms2) BY <2>3
  <2>. QED BY <2>1, <2>2, <2>5, <2>6 DEF Later, StoreInv
<1>2. ScanInv(markers, rollouts, scanners, ticks, clock) OBVIOUS
<1>3. ticks \in [Scan -> TickRecord] /\ scanners \in [Bridge -> ScannerRow] BY DEF ScanInv
<1>4. \A s \in Scan : TickInv(ticks[s], markers, rollouts, scanners, clock) BY DEF ScanInv
<1>5. \A b \in Bridge : ScannerInv(scanners[b], b, markers, rollouts[b], clock) BY DEF ScanInv
<1>6. \A b \in Bridge : ScannerInv(scanners[b], b, ms2, rs2[b], now2)
  BY <1>1, <1>5, ScannerStays DEF Later
<1>. SUFFICES ScanInv(ms2, rs2, scs2, ts2, now2) OBVIOUS
<1>7. CASE UNCHANGED <<scanners, ticks>>
  <2>1. ScanInv(ms2, rs2, scanners, ticks, now2) BY <1>1, <1>2, NoTickMoves
  <2>. QED BY <1>7, <2>1
<1>8. ASSUME NEW s \in Scan, NEW t2 \in TickRecord,
             t2.doing = "idle" \/ Proceeds(ticks[s], t2, ms2, scanners, scanners),
             ts2 = [ticks EXCEPT ![s] = t2], scs2 = scanners
      PROVE  ScanInv(ms2, rs2, scs2, ts2, now2)
  <2>1. PICK t \in TickRecord : t = ticks[s] BY <1>3
  <2>2. TickInv(t2, ms2, rs2, scanners, now2)
    <3>1. TickInv(t, markers, rollouts, scanners, clock) BY <1>4, <2>1
    <3>2. t2.doing = "idle" \/ Proceeds(t, t2, ms2, scanners, scanners) BY <1>8, <2>1
    <3>. QED BY <1>1, <3>1, <3>2, TickStays
  <2>3. ScanInv(ms2, rs2, scanners, ts2, now2) BY <1>1, <1>2, <1>8, <2>2, OneTick
  <2>. QED BY <1>8, <2>3
<1>9. ASSUME NEW s \in Scan, Ends(s), UNCHANGED scanners
      PROVE  ScanInv(ms2, rs2, scs2, ts2, now2)
  BY <1>8, <1>9, TickForms DEF Ends
<1>10. ASSUME NEW s \in Scan, NEW b \in Bridge, Opens(s, b), UNCHANGED scanners
       PROVE  ScanInv(ms2, rs2, scs2, ts2, now2)
  <2>1. PICK row \in ScannerRow : row = scanners[b] BY <1>3
  <2>2. RowInv(row, rollouts[b]) BY <1>5, <2>1 DEF ScannerInv
  <2>3. PICK eof : eof = Len(rollouts[b][row.file]) OBVIOUS
  <2>4. eof \in 0 .. MaxLines /\ row.cursor <= eof BY <2>2, <2>3, FileOf DEF RowInv
  <2>5. RowInv(row, rs2[b]) /\ eof <= Len(rs2[b][row.file])
    BY <1>1, <2>2, <2>3, RowStays DEF Later
  <2>6. PICK t2 : t2 = [NoTick EXCEPT !.doing = "opened", !.bridge = b, !.now = clock,
                           !.helper = helper, !.row = row, !.eof = eof]
    OBVIOUS
  <2>7. /\ t2 \in TickRecord /\ t2.doing = "opened" /\ t2.bridge = b /\ t2.now = clock
        /\ t2.row = row /\ t2.eof = eof /\ ~t2.overtaken
    BY <2>1, <2>4, <2>6, TickForms DEF NoTick, TickRecord, StoreInv, PlainInv
  <2>8. TickInv(t2, ms2, rs2, scanners, now2)
    BY <1>1, <2>1, <2>4, <2>5, <2>7 DEF TickInv, Later
  <2>9. ts2 = [ticks EXCEPT ![s] = t2] BY <1>10, <2>1, <2>3, <2>6 DEF Opens
  <2>10. ScanInv(ms2, rs2, scanners, ts2, now2)
    BY <1>1, <1>2, <2>7, <2>8, <2>9, OneTick
  <2>. QED BY <1>10, <2>10
<1>11. ASSUME NEW b \in Bridge, NEW row, ScannerInv(row, b, ms2, rs2[b], now2),
              scs2 = [scanners EXCEPT ![b] = row],
              ts2 = Overtakes(b) \/ \E s \in Scan : ts2 = [Overtakes(b) EXCEPT ![s] = NoTick]
       PROVE  ScanInv(ms2, rs2, scs2, ts2, now2)
  <2>1. Told(ticks, ts2, b)
    <3>1. CASE ts2 = Overtakes(b) BY <3>1 DEF Overtakes, Told
    <3>2. ASSUME NEW s \in Scan, ts2 = [Overtakes(b) EXCEPT ![s] = NoTick]
          PROVE  Told(ticks, ts2, b)
      BY <3>2 DEF Overtakes, Told
    <3>. QED BY <1>11, <3>1, <3>2
  <2>. QED BY <1>1, <1>2, <1>11, <2>1, RowWritten
<1>12. ASSUME NEW b \in Bridge, scs2 = [scanners EXCEPT ![b].state = "degraded"],
              ts2 = Overtakes(b)
       PROVE  ScanInv(ms2, rs2, scs2, ts2, now2)
  <2>1. PICK row, row2 : row = scanners[b] /\ row2 = [row EXCEPT !.state = "degraded"] OBVIOUS
  <2>2. ScannerInv(row2, b, ms2, rs2[b], now2)
    <3>1. ScannerInv(row, b, ms2, rs2[b], now2) BY <1>6, <2>1
    <3>. QED BY <2>1, <3>1, DegradeKeeps
  <2>3. scs2 = [scanners EXCEPT ![b] = row2] BY <1>12, <2>1
  <2>. QED BY <1>11, <1>12, <2>2, <2>3
<1>13. ASSUME NEW b \in Bridge, NEW from_start \in BOOLEAN, BindsScanner(b, from_start)
       PROVE  ScanInv(ms2, rs2, scs2, ts2, now2)
  <2>1. PICK f, at : /\ f = Len(rollouts[b])
                     /\ at = IF from_start THEN 0 ELSE Len(rollouts[b][f])
    OBVIOUS
  <2>2. PICK row : row = [state |-> "active", file |-> f, cursor |-> at, from |-> at] OBVIOUS
  <2>3. rs2 = rollouts /\ scs2 = [scanners EXCEPT ![b] = row] /\ ts2 = Overtakes(b)
    BY <1>13, <2>1, <2>2 DEF BindsScanner, File
  <2>4. ScannerInv(row, b, ms2, rs2[b], now2)
    <3>1. at = 0 \/ at = Len(rollouts[b][f]) BY <2>1
    <3>2. ScannerInv(row, b, ms2, rollouts[b], now2) BY <2>1, <2>2, <3>1, BindKeeps
    <3>. QED BY <2>3, <3>2
  <2>. QED BY <1>11, <2>3, <2>4
<1>14. ASSUME NEW s \in Scan, ListsMarkers(s)
       PROVE  ScanInv(ms2, rs2, scs2, ts2, now2)
  <2>1. /\ scs2 = scanners /\ ms2 = markers /\ rs2 = rollouts /\ now2 = clock
    BY <1>14 DEF ListsMarkers, armVars
  <2>2. CASE Ends(s) BY <1>9, <2>1, <2>2
  <2>3. CASE ~Ends(s)
    <3>1. PICK t2 : t2 = ts2[s] OBVIOUS
    <3>2. PICK todo : ts2 = [ticks EXCEPT ![s].doing = "scanned", ![s].todo = todo]
      BY <1>14, <2>3 DEF ListsMarkers
    <3>3. t2 = [ticks[s] EXCEPT !.doing = "scanned", !.todo = todo] BY <1>3, <3>1, <3>2
    <3>4. ts2 = [ticks EXCEPT ![s] = t2] BY <3>2, <3>3
    <3>5. t2.doing = "scanned" BY <1>3, <3>3 DEF TickRecord
    <3>6. t2 \in TickRecord /\ TickInv(t2, markers, rollouts, scanners, clock)
      BY <1>14, <3>1, <3>5, ListKeeps
    <3>7. TickInv(t2, ms2, rs2, scanners, now2) BY <2>1, <3>6
    <3>8. ScanInv(ms2, rs2, scanners, ts2, now2) BY <1>1, <1>2, <3>4, <3>6, <3>7, OneTick
    <3>. QED BY <2>1, <3>8
  <2>. QED BY <2>2, <2>3
<1>15. ASSUME NEW s \in Scan, ticks[s].doing = "scanned", IsCurrentRow(s)
       PROVE  /\ ticks[s].bridge \in Bridge /\ ticks[s].row = scanners[ticks[s].bridge]
              /\ ticks[s] \in TickRecord
  BY <1>3, <1>4, <1>15 DEF TickInv, IsCurrentRow
<1>16. ASSUME NEW s \in Scan, ticks[s].doing = "scanned", IsCurrentRow(s),
              Writes(s, [ticks[s].row EXCEPT !.state = "degraded"])
       PROVE  ScanInv(ms2, rs2, scs2, ts2, now2)
  <2>1. PICK b, row, row2 :
          /\ b \in Bridge /\ b = ticks[s].bridge /\ row = scanners[b] /\ row = ticks[s].row
          /\ row2 = [row EXCEPT !.state = "degraded"]
    BY <1>15, <1>16
  <2>2. ScannerInv(row2, b, ms2, rs2[b], now2)
    <3>1. ScannerInv(row, b, ms2, rs2[b], now2) BY <1>6, <2>1
    <3>. QED BY <2>1, <3>1, DegradeKeeps
  <2>3. scs2 = [scanners EXCEPT ![b] = row2] /\ ts2 = [Overtakes(b) EXCEPT ![s] = NoTick]
    BY <1>16, <2>1 DEF Writes
  <2>. QED BY <1>11, <2>1, <2>2, <2>3
<1>17. ASSUME NEW s \in Scan, ticks[s].doing = "scanned", ticks[s].todo = {}, IsCurrentRow(s),
              Writes(s, [ticks[s].row EXCEPT !.cursor = ReadTo(s)])
       PROVE  ScanInv(ms2, rs2, scs2, ts2, now2)
  <2>1. PICK b, row, last, row2 :
          /\ b \in Bridge /\ b = ticks[s].bridge /\ row = scanners[b] /\ row = ticks[s].row
          /\ last = ReadTo(s) /\ row2 = [row EXCEPT !.cursor = last]
    BY <1>15, <1>17
  <2>2. PICK t \in TickRecord : t = ticks[s] BY <1>3
  <2>3. TickInv(t, ms2, rs2, scanners, now2)
    <3>1. Proceeds(t, t, ms2, scanners, scanners) BY DEF Proceeds
    <3>2. TickInv(t, markers, rollouts, scanners, clock) BY <1>4, <2>2
    <3>. QED BY <1>1, <3>1, <3>2, TickStays
  <2>4. t.doing = "scanned" /\ t.todo = {} /\ t.bridge = b /\ t.row = row
    BY <1>17, <2>1, <2>2
  <2>5. last = Lesser(t.eof, row.cursor + LinesPerTick) BY <2>1, <2>2, <2>4 DEF ReadTo
  <2>6. /\ row.cursor <= t.eof /\ t.eof <= Len(rs2[b][row.file]) /\ RowInv(row, rs2[b])
        /\ Covered(ms2, rs2[b][row.file], b, now2, row.cursor, last, {})
    BY <2>3, <2>4, <2>5 DEF TickInv
  <2>7. Len(rs2[b][row.file]) \in 0 .. MaxLines
    <3>1. row.file \in DOMAIN rs2[b] BY <2>6 DEF RowInv
    <3>. QED BY <1>1, <2>1, <3>1, FileOf DEF Later
  <2>8. row.cursor \in Nat /\ t.eof \in Nat
    BY <2>6, RelayAssumption DEF RowInv, ScannerRow, TickRecord
  <2>9. last \in 0 .. MaxLines /\ row.cursor <= last /\ last <= Len(rs2[b][row.file])
    BY <2>5, <2>6, <2>7, <2>8, RelayAssumption, SMTT(60) DEF Lesser
  <2>10. ScannerInv(row2, b, ms2, rs2[b], now2)
    <3>1. ScannerInv(row, b, ms2, rs2[b], now2) BY <1>6, <2>1
    <3>. QED BY <2>1, <2>6, <2>9, <3>1, AdvanceKeeps
  <2>11. scs2 = [scanners EXCEPT ![b] = row2] /\ ts2 = [Overtakes(b) EXCEPT ![s] = NoTick]
    BY <1>17, <2>1 DEF Writes
  <2>. QED BY <1>11, <2>1, <2>10, <2>11
<1>18. ASSUME NEW s \in Scan, ticks' = [ticks EXCEPT ![s].lease = TRUE], UNCHANGED scanners
       PROVE  ScanInv(ms2, rs2, scs2, ts2, now2)
  <2>1. PICK t, t2 : t \in TickRecord /\ t = ticks[s] /\ t2 = [t EXCEPT !.lease = TRUE]
    BY <1>3
  <2>2. /\ t2 \in TickRecord /\ t2.doing = t.doing /\ t2.bridge = t.bridge /\ t2.now = t.now
        /\ t2.row = t.row /\ t2.eof = t.eof /\ t2.overtaken = t.overtaken /\ t2.todo = t.todo
    BY <2>1 DEF TickRecord
  <2>3. Proceeds(t, t2, ms2, scanners, scanners) BY <2>2 DEF Proceeds
  <2>4. ts2 = [ticks EXCEPT ![s] = t2] BY <1>18, <2>1
  <2>5. scs2 = scanners BY <1>18
  <2>. QED BY <1>8, <2>1, <2>2, <2>3, <2>4, <2>5
<1>19. ASSUME NEW s \in Scan, NEW m \in Marker, Handled(s, m), UNCHANGED scanners,
              markers'[m].state # "issued"
       PROVE  ScanInv(ms2, rs2, scs2, ts2, now2)
  <2>1. PICK t, t2 :
          t \in TickRecord /\ t = ticks[s] /\ t2 = [t EXCEPT !.todo = @ \ {m}, !.lease = FALSE]
    BY <1>3
  <2>2. /\ t2 \in TickRecord /\ t2.doing = t.doing /\ t2.bridge = t.bridge /\ t2.now = t.now
        /\ t2.row = t.row /\ t2.eof = t.eof /\ t2.overtaken = t.overtaken
        /\ t2.todo = t.todo \ {m}
    BY <2>1 DEF TickRecord
  <2>3. Proceeds(t, t2, ms2, scanners, scanners) BY <1>19, <2>2 DEF Proceeds
  <2>4. ts2 = [ticks EXCEPT ![s] = t2] BY <1>19, <2>1 DEF Handled
  <2>5. scs2 = scanners BY <1>19
  <2>. QED BY <1>8, <2>1, <2>2, <2>3, <2>4, <2>5
<1>20. MarkerInv(markers) BY DEF StoreInv
<1>. QED
  BY <1>7, <1>9, <1>10, <1>12, <1>13, <1>14, <1>16, <1>17, <1>18, <1>19, <1>20, ScanSteps

(***************************************************************************)
(* The invariant, and what follows from it.                                *)
(***************************************************************************)
Inv ==
  /\ StoreInv
  /\ RolloutsOK(rollouts) /\ LinesKnown(markers, rollouts)
  /\ ScanInv(markers, rollouts, scanners, ticks, clock)

(* At first nothing has been attempted.                                    *)
LEMMA InitTables ==
  ASSUME Init
  PROVE  TableInv(batches, attempts) /\ Len(attempts) = 0 /\ DOMAIN attempts = {}
<1>. PICK as : as = attempts OBVIOUS
<1>1. batches = [b \in Batch |-> [open |-> TRUE, count |-> 0]] /\ as = << >>
  BY DEF Init, ArmInit
<1>2. as \in Seq(AttemptRecord) /\ Len(as) = 0 BY <1>1, EmptySeq
<1>3. DOMAIN as = {} BY <1>1
<1>4. Tables(batches, as) BY <1>1, <1>2, ArmAssumption DEF Tables, BatchRow
<1>5. CountsAgree(batches, as)
  <2>. SUFFICES ASSUME NEW b \in Batch PROVE batches[b].count = Cardinality(ChargedTo(as, b))
    BY DEF CountsAgree
  <2>1. ChargedTo(as, b) = {} BY <1>3 DEF ChargedTo
  <2>. QED BY <1>1, <2>1, FS_EmptySet
<1>. QED BY <1>2, <1>3, <1>4, <1>5
     DEF TableInv, OneBusy, NotYetCharged, Affordable, BusyIsLast, StaysHandedOver, HandedOverIsLast

(* Nothing has been issued, and the rollouts are empty.                    *)
LEMMA InitRollouts ==
  ASSUME Init
  PROVE  /\ MarkerInv(markers) /\ DOMAIN markers = {}
         /\ RolloutsOK(rollouts) /\ LinesKnown(markers, rollouts)
         /\ \A b \in Bridge : 1 \in DOMAIN rollouts[b] /\ Len(rollouts[b][1]) = 0
<1>1. PICK ms, e, fs : ms = markers /\ e = << >> /\ fs = <<e>> OBVIOUS
<1>2. ms = << >> /\ rollouts = [b \in Bridge |-> fs] BY <1>1 DEF Init, RelayInit
<1>3. ms \in Seq(MarkerRecord) /\ Len(ms) = 0 /\ DOMAIN ms = {} BY <1>2, EmptySeq
<1>4. MarkerInv(ms) BY <1>3, RelayAssumption DEF MarkerInv, PendedBefore
<1>5. e \in Seq(Line) /\ DOMAIN e = {} /\ Len(e) = 0 BY <1>1, EmptySeq
<1>6. DOMAIN fs = 1 .. 1 /\ fs[1] = e /\ Len(fs) = 1 BY <1>1
<1>7. fs \in Seq(Seq(Line)) BY <1>1, <1>5
<1>8. \A b \in Bridge : rollouts[b] = fs BY <1>2
<1>9. LinesIn(rollouts) = {}
  <2>1. ASSUME NEW x \in LinesIn(rollouts) PROVE FALSE
    <3>1. \E b \in Bridge : \E f \in DOMAIN rollouts[b] : \E i \in DOMAIN rollouts[b][f] :
            x = <<<<b, f>>, i>>
      BY LinesAre
    <3>2. \A f \in DOMAIN fs : fs[f] = e BY <1>6
    <3>. QED BY <1>5, <1>8, <3>1, <3>2
  <2>. QED BY <2>1
<1>10. RolloutsOK(rollouts)
  <2>1. rollouts \in [Bridge -> Seq(Seq(Line))] BY <1>2, <1>7
  <2>2. ASSUME NEW b \in Bridge PROVE Len(rollouts[b]) \in 1 .. MaxFiles
    <3>1. Len(rollouts[b]) = 1 BY <1>6, <1>8
    <3>2. 1 \in 1 .. MaxFiles BY RelayAssumption
    <3>. QED BY <3>1, <3>2
  <2>. QED BY <1>9, <2>1, <2>2, FS_EmptySet, RelayAssumption DEF RolloutsOK
<1>11. LinesKnown(ms, rollouts) BY <1>5, <1>6, <1>8 DEF LinesKnown
<1>. QED BY <1>1, <1>3, <1>4, <1>5, <1>6, <1>8, <1>10, <1>11

(* So the invariant holds at first.                                        *)
LEMMA InitInv == ASSUME Init PROVE Inv
<1>1. /\ TableInv(batches, attempts) /\ Len(attempts) <= MaxAttempts
  BY InitTables, ArmAssumption
<1>2. /\ MarkerInv(markers) /\ DOMAIN markers = {} /\ RolloutsOK(rollouts)
      /\ LinesKnown(markers, rollouts)
      /\ \A b \in Bridge : 1 \in DOMAIN rollouts[b] /\ Len(rollouts[b][1]) = 0
  BY InitRollouts
<1>3. PlainInv
  <2>1. PICK fs : fs = <<1>> OBVIOUS
  <2>2. fs \in Seq(Fingerprint) /\ Len(fs) = 1 BY <2>1, ArmAssumption
  <2>3. installation \in InstallationRecord /\ Generation \in Nat \ {0}
    BY <2>1, <2>2 DEF Init, ArmInit, InstallationRecord, Generation
  <2>4. binding \in BindingRecord BY DEF Init, ArmInit, BindingRecord
  <2>5. preflights \in [Bridge -> PreflightRecord]
    BY ArmAssumption DEF Init, RelayInit, NoPreflight, PreflightRecord, Time
  <2>. QED BY <2>3, <2>4, <2>5, ArmAssumption, RelayAssumption
       DEF Init, ArmInit, RelayInit, PlainInv, Time
<1>4. ticks = [s \in Scan |-> NoTick] /\ scanners = [b \in Bridge |-> FirstRow]
  BY DEF Init, RelayInit
<1>5. StoreInv BY <1>1, <1>2, <1>3, <1>4, TickForms DEF StoreInv, MarkersKnown
<1>6. ASSUME NEW b \in Bridge PROVE ScannerInv(scanners[b], b, markers, rollouts[b], clock)
  <2>1. PICK row : row = scanners[b] OBVIOUS
  <2>2. row \in ScannerRow /\ row.file = 1 /\ row.cursor = 0 /\ row.from = 0
    BY <1>4, <2>1, TickForms DEF FirstRow
  <2>3. RowInv(row, rollouts[b]) BY <1>2, <2>2 DEF RowInv
  <2>. QED BY <1>2, <2>1, <2>3 DEF ScannerInv, Covered
<1>7. ScanInv(markers, rollouts, scanners, ticks, clock)
  BY <1>4, <1>6, TickForms DEF ScanInv, TickInv
<1>. QED BY <1>2, <1>5, <1>7 DEF Inv

(* Every step of preflights, bridges, scans, operators, the CLI adapter    *)
(* and the clock keeps the invariant.                                      *)
LEMMA InvStep == ASSUME Inv, [Next]_vars PROVE Inv'
<1>1. CASE Next
  <2>. USE DEF Inv
  <2>1. TableInv(batches', attempts') /\ Len(attempts') <= MaxAttempts BY <1>1, TableStep
  <2>2. PlainInv' BY <1>1, PlainStep
  <2>3. MarkerInv(markers') /\ MarkersKnown(markers', attempts') BY <1>1, MarkerStep
  <2>4. RolloutsOK(rollouts') /\ LinesKnown(markers', rollouts') BY <1>1, RolloutStep
  <2>5. ScanInv(markers', rollouts', scanners', ticks', clock') BY <1>1, ScanStep
  <2>6. ticks' \in [Scan -> TickRecord] BY <2>5 DEF ScanInv
  <2>7. StoreInv' BY <2>1, <2>2, <2>3, <2>6 DEF StoreInv
  <2>. QED BY <2>4, <2>5, <2>7
<1>2. CASE UNCHANGED vars
  <2>1. /\ UNCHANGED <<batches, attempts, markers, rollouts, scanners, ticks, clock>>
        /\ UNCHANGED <<binding, installation, helper, preflights, interventions>>
    BY <1>2 DEF vars, armVars, relayVars
  <2>2. PlainInv' BY <2>1 DEF Inv, StoreInv, PlainInv, Generation
  <2>3. StoreInv' BY <2>1, <2>2 DEF Inv, StoreInv
  <2>. QED BY <2>1, <2>3 DEF Inv
<1>. QED BY <1>1, <1>2

(* It holds in every state that the Desktop bridge reaches.                *)
THEOREM InvHolds == Spec => []Inv
BY InitInv, InvStep, PTL DEF Spec

(* The rows of the store and of the scans keep their types.                *)
THEOREM TypeCorrect == Spec => []TypeOK
<1>1. Inv => TypeOK
  BY DEF Inv, StoreInv, PlainInv, TableInv, Tables, BatchRow, MarkerInv, RolloutsOK, ScanInv, TypeOK
<1>. QED BY <1>1, InvHolds, PTL

(* One attempt at most is in flight on the thread.                         *)
THEOREM OneAttemptInFlightAlways == Spec => []OneAttemptInFlight
<1>1. ASSUME Inv PROVE OneAttemptInFlight
  <2>. DEFINE S == {a \in Attempt : Active(a)}
  <2>1. \A a, c \in S : a = c
    BY <1>1 DEF Inv, StoreInv, TableInv, OneBusy, Busy, Active, Attempt
  <2>2. CASE S = {} BY <2>2, FS_EmptySet DEF OneAttemptInFlight
  <2>3. CASE S # {}
    <3>1. PICK a : a \in S BY <2>3
    <3>2. S = {a} BY <2>1, <3>1
    <3>3. Cardinality(S) = 1 BY <3>2, FS_Singleton
    <3>. QED BY <3>3 DEF OneAttemptInFlight
  <2>. QED BY <2>2, <2>3
<1>. QED BY <1>1, InvHolds, PTL

(* A batch's counter is the number of its attempts that were charged.      *)
THEOREM EachArmCountedOnceAlways == Spec => []EachArmCountedOnce
<1>1. Inv => EachArmCountedOnce
  BY DEF Inv, StoreInv, TableInv, CountsAgree, ChargedTo, Attempt, EachArmCountedOnce
<1>. QED BY <1>1, InvHolds, PTL

(* A batch that was handed to Desktop, by a scan, by hand or by a direct   *)
(* note-arm, is not attempted again, not by another bridge, not by a CLI   *)
(* sidecar and not after a repair of the binding: the attempt that handed  *)
(* it over is the last one of the batch, and stays in cooldown until the   *)
(* batch is closed.                                                        *)
HandedOverOnce ==
  \A a, c \in Attempt :
    attempts[a].adapter = "desktop" /\ attempts[a].counted /\ attempts[c].batch = attempts[a].batch
      => /\ c <= a
         /\ attempts[a].state \in {"cooldown", "closed"}
         /\ batches[attempts[a].batch].open => attempts[a].state = "cooldown"

(* What Desktop was handed is handed over once, whoever else works on it.  *)
THEOREM HandedOverOnceAlways == Spec => []HandedOverOnce
<1>1. Inv => HandedOverOnce
  BY DEF Inv, StoreInv, TableInv, StaysHandedOver, HandedOverIsLast, HandedOver, Attempt,
         HandedOverOnce
<1>. QED BY <1>1, InvHolds, PTL

(* No scanner's cursor is past an envelope that can still be consumed.     *)
THEOREM NothingSkippedAlways == Spec => []NothingSkipped
<1>1. Inv => NothingSkipped
  BY DEF Inv, ScanInv, ScannerInv, Covered, NothingSkipped, Marker, LinesOf
<1>. QED BY <1>1, InvHolds, PTL

(* The steps in which a marker and what becomes of an attempt change       *)
(* together: a preflight, or the consumption of a marker that is still     *)
(* bound as the thread is now.                                             *)
LEMMA ConsumingSteps ==
  ASSUME Next
  PROVE  \/ UNCHANGED attempts \/ UNCHANGED markers
         \/ \E b \in Bridge : Materializes(b)
         \/ \E m \in Marker : \E now, outcome, fingerprint :
              StillBound(m, fingerprint) /\ Transition(m, now, outcome)
<1>1. CASE BridgeNext BY <1>1 DEF BridgeNext, PreflightSweeps, Emits
<1>2. CASE ScanNext
  <2>1. ASSUME NEW s \in Scan, NEW b \in Bridge, ScanStarts(s, b) PROVE UNCHANGED attempts
    BY <2>1 DEF ScanStarts, armVars
  <2>2. ASSUME NEW s \in Scan, ListsMarkers(s) \/ GivesUp(s) \/ AdvancesCursor(s)
        PROVE  UNCHANGED attempts
    BY <2>2 DEF ListsMarkers, GivesUp, AdvancesCursor, armVars
  <2>3. ASSUME NEW s \in Scan, NEW m \in Marker, LooksUpLease(s, m) \/ RejectsEnvelope(s, m)
        PROVE  UNCHANGED attempts
    BY <2>3 DEF LooksUpLease, RejectsEnvelope, Rejects
  <2>4. ASSUME NEW s \in Scan, NEW m \in Marker, Consumes(s, m)
        PROVE  \/ UNCHANGED attempts
               \/ \E now, outcome, fingerprint :
                    StillBound(m, fingerprint) /\ Transition(m, now, outcome)
    BY <2>4, Zenon DEF Consumes, Rejects
  <2>. QED BY <1>2, <2>1, <2>2, <2>3, <2>4 DEF ScanNext
<1>3. CASE ElsewhereNext BY <1>3 DEF ElsewhereNext, relayVars
<1>4. CASE InterventionNext
  <2>1. ASSUME NEW m \in Marker, ConsumesByHand(m)
        PROVE  \E now, outcome, fingerprint :
                 StillBound(m, fingerprint) /\ Transition(m, now, outcome)
    BY <2>1, Zenon DEF ConsumesByHand
  <2>. QED BY <1>4, <2>1 DEF InterventionNext, Replaced, BindsScanner, ScanDies, ArmsDirectly,
         PendsDirectly, relayVars, armVars
<1>. QED BY <1>1, <1>2, <1>3, <1>4 DEF Next

(* A preflight charges nothing.                                            *)
LEMMA PreflightsChargeNothing ==
  ASSUME Inv, NEW a \in Attempt, ~attempts[a].counted, attempts'[a].counted,
         NEW b \in Bridge, Materializes(b)
  PROVE  FALSE
<1>1. attempts \in Seq(AttemptRecord) BY DEF Inv, StoreInv, TableInv, Tables
<1>2. attempts[a] \in AttemptRecord /\ a \in DOMAIN attempts BY <1>1, RowOf DEF Attempt
<1>3. PICK c \in Batch : attempts' = Append(attempts, FreshAttempt(c, "desktop", "prepared"))
  BY DEF Materializes, Candidate
<1>4. PICK r : r = FreshAttempt(c, "desktop", "prepared") OBVIOUS
<1>5. r \in AttemptRecord BY <1>1, <1>4, FreshType
<1>6. PICK as2 : as2 = attempts' OBVIOUS
<1>7. Appended(attempts, as2, r) BY <1>1, <1>3, <1>4, <1>5, <1>6, AppendFacts
<1>. QED BY <1>2, <1>6, <1>7 DEF Appended

(* A transition that charges an attempt is the one of its arm_accepted     *)
(* marker.                                                                 *)
LEMMA OnlyArmsCharge ==
  ASSUME Inv, NEW a \in Attempt, ~attempts[a].counted, attempts'[a].counted,
         NEW m \in Marker, NEW now, NEW outcome, Transition(m, now, outcome)
  PROVE  markers[m].kind = "arm_accepted" /\ markers[m].attempt = a
<1>1. attempts \in Seq(AttemptRecord) BY DEF Inv, StoreInv, TableInv, Tables
<1>2. attempts[a] \in AttemptRecord /\ a \in DOMAIN attempts BY <1>1, RowOf DEF Attempt
<1>3. ASSUME NEW c, NEW st, SetState(c, st) PROVE FALSE
  <2>1. attempts'[a] = attempts[a] \/ attempts'[a] = [attempts[a] EXCEPT !.state = st]
    BY <1>2, <1>3 DEF SetState
  <2>. QED BY <1>2, <2>1 DEF AttemptRecord
<1>4. ASSUME NEW c, NEW r, Pends(c, r, now) PROVE FALSE
  <2>1. \/ attempts'[a] = attempts[a]
        \/ attempts'[a] = [attempts[a] EXCEPT !.state = "arm_pending", !.request = r,
                                              !.deadline = now + LeaseTtl]
    BY <1>2, <1>4 DEF Pends
  <2>. QED BY <1>2, <2>1 DEF AttemptRecord
<1>5. ASSUME NEW c, Arms(c) PROVE c = a BY <1>2, <1>5 DEF Arms
<1>6. ~UNCHANGED attempts OBVIOUS
<1>7. ASSUME NotesArmPending(markers[m].attempt, markers[m].request, now, outcome) PROVE FALSE
  BY <1>3, <1>4, <1>6, <1>7 DEF NotesArmPending
<1>8. ASSUME NotesArm(markers[m].attempt, markers[m].request, now, outcome)
      PROVE  markers[m].attempt = a
  BY <1>3, <1>5, <1>6, <1>8 DEF NotesArm
<1>. QED BY <1>7, <1>8 DEF Transition

(* The relay arms an attempt only after it took the attempt's arm_pending  *)
(* marker under the binding and the installation generation of now.        *)
THEOREM ArmedAsPendedAlways == Spec => ArmedAsPended
<1>1. ASSUME Inv, [Next]_vars, NEW a \in Attempt, ~attempts[a].counted, attempts'[a].counted,
             attempts[a].adapter = "desktop", markers' # markers
      PROVE  \E m \in Marker :
               /\ markers[m].kind = "arm_pending_requested" /\ markers[m].attempt = a
               /\ markers[m].outcome = "done" /\ markers[m].bound_to = BoundTo
  <2>1. Next BY <1>1 DEF vars, relayVars
  <2>2. PICK m \in Marker : \E now, outcome, fingerprint :
          StillBound(m, fingerprint) /\ Transition(m, now, outcome)
    BY <1>1, <2>1, ConsumingSteps, PreflightsChargeNothing
  <2>3. PICK now, outcome, fingerprint :
          StillBound(m, fingerprint) /\ Transition(m, now, outcome)
    BY <2>2
  <2>4. markers[m].kind = "arm_accepted" /\ markers[m].attempt = a
    BY <1>1, <2>3, OnlyArmsCharge
  <2>5. markers[m].bound_to = BoundTo BY <2>3 DEF StillBound
  <2>6. PendedBefore(markers) BY <1>1 DEF Inv, StoreInv, MarkerInv
  <2>7. PICK p \in DOMAIN markers : Follows(markers[m], markers[p])
    BY <2>4, <2>6 DEF PendedBefore, Marker
  <2>. QED BY <2>4, <2>5, <2>7 DEF Follows, Marker
<1>2. Inv /\ [Next]_vars =>
        [ \A a \in Attempt :
            ~attempts[a].counted /\ attempts'[a].counted
            /\ attempts[a].adapter = "desktop" /\ markers' # markers
            => \E m \in Marker :
                 /\ markers[m].kind = "arm_pending_requested" /\ markers[m].attempt = a
                 /\ markers[m].outcome = "done" /\ markers[m].bound_to = BoundTo ]_vars
  BY <1>1
<1>. QED BY <1>2, InvHolds, PTL DEF Spec, ArmedAsPended

=============================================================================
