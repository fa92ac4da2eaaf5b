--------------------------- MODULE ArtifactProofs ---------------------------
(***************************************************************************)
(* Proofs about the managed store of result files, module ArtifactStore:   *)
(* for any artifacts, jobs, sweeps, grace and lifetimes, an artifact keeps *)
(* its payload while it is needed, and no directory is left that no row    *)
(* leads to.  The inductive invariant says how far a copy has come when    *)
(* its row, its ingest and its directory look as they do, and what every   *)
(* sweep under way may still believe of each artifact on its lists.        *)
(***************************************************************************)
EXTENDS ArtifactStore, TLAPS

(* Types.  The two orders tried and updated are left out: what SelectSeq   *)
(* makes of a sequence is recursion over data, and no proof here needs it. *)
JobsOK == jobs \in [Job -> {"pending", "open", "closed"}]
RowsOK == rows \in [Artifact -> RowRecord]
IngestsOK == ingests \in [Artifact -> IngestRecord]
DirsOK == dirs \in [Artifact -> DirRecord]
CopiesOK == copies \in [Artifact -> CopyRecord]
SweepsOK == sweeps \in [Sweep -> SweepRecord]
TypeInv == JobsOK /\ RowsOK /\ IngestsOK /\ DirsOK /\ CopiesOK /\ SweepsOK

(* What the assumption on the constants says of ages and lifetimes.        *)
LEMMA Bounds == /\ Grace \in Nat \ {0} /\ MaxSilence \in 0 .. Grace - 1
                /\ MinTtl \in Nat \ {0} /\ PostCloseTtl \in Nat \ {0} /\ MinTtl <= PostCloseTtl
                /\ 0 \in Age /\ None \notin Age
                /\ JobOf \in [Artifact -> Job]
BY ArtifactAssumption DEF Age, None

(* The rows, directories and sweeps that are not there have their types.   *)
LEMMA NoRecords == NoIngest \in IngestRecord /\ NoDir \in DirRecord /\ NoSweep \in SweepRecord
BY Bounds DEF NoIngest, IngestRecord, NoDir, DirRecord, NoSweep, SweepRecord

(* A tick keeps ages and lifetimes in their ranges; a copy that is heard   *)
(* of in time stays so.                                                    *)
LEMMA Ages ==
  /\ \A age \in Age \union {None} : Older(age) \in Age \union {None}
  /\ \A age \in Age : Older(age) \in Age /\ (age < MaxSilence => Older(age) \in 0 .. MaxSilence)
  /\ \A n \in Nat : \A left \in 0 .. n : Sooner(left) \in 0 .. n /\ (left = 0 => Sooner(left) = 0)
BY Bounds DEF Older, Sooner, Age, None

(* A copy that moves on is the only one to, and keeps its lifetime.        *)
LEMMA CopyMovesType ==
  ASSUME CopiesOK, NEW a \in Artifact, NEW from,
         NEW to \in {"begun", "copying", "renamed", "described", "committed", "refused",
                     "emptied", "over"},
         Moves(a, from, to)
  PROVE  /\ CopiesOK'
         /\ copies[a].at = from /\ copies'[a].at = to /\ copies'[a].left = copies[a].left
         /\ \A b \in Artifact \ {a} : copies'[b] = copies[b]
BY DEF CopiesOK, CopyRecord, Moves

(* Writing a manifest leaves marker and payload alone.                     *)
LEMMA WritesType ==
  ASSUME DirsOK, NEW a \in Artifact, NEW m \in {None, 0, 1}, Writes(a, "manifest", m)
  PROVE  /\ DirsOK'
         /\ dirs'[a].exists /\ dirs'[a].marker = dirs[a].marker
         /\ dirs'[a].payload = dirs[a].payload
         /\ \A b \in Artifact \ {a} : dirs'[b] = dirs[b]
BY DEF DirsOK, DirRecord, Writes

(* Each change of an ingest keeps their type.                              *)
LEMMA IngestType ==
  ASSUME IngestsOK, NEW a \in Artifact,
         PutsIngest(a) \/ DropsIngest(a) \/ TouchesIngest(a) \/ UNCHANGED ingestVars
  PROVE  IngestsOK'
<1>1. [present |-> TRUE, updated |-> 0] \in IngestRecord BY Bounds DEF IngestRecord
<1>2. CASE PutsIngest(a) BY <1>1, <1>2 DEF PutsIngest, IngestsOK
<1>3. CASE DropsIngest(a) BY NoRecords, <1>3 DEF DropsIngest, IngestsOK
<1>4. CASE UNCHANGED ingestVars BY <1>4 DEF ingestVars, IngestsOK
<1>. QED BY <1>2, <1>3, <1>4 DEF TouchesIngest

(* The actions in groups.                                                  *)
CopyStarts(a) ==
  \/ Begins(a) \/ OpensDir(a) \/ RefreshesMarker(a) \/ RenamesPayload(a)
  \/ WritesManifest(a)
CopyEnds(a) ==
  \/ CopyFails(a) \/ Commits(a) \/ IsRefused(a) \/ RemovesMarker(a) \/ RemovesCopy(a)
  \/ AbandonsCopy(a) \/ CopyDies(a)

(* Types, while a copy is under way.                                       *)
LEMMA CopyStartsType ==
  ASSUME TypeInv, NEW a \in Artifact, CopyStarts(a)
  PROVE  TypeInv'
<1>. USE DEF TypeInv
<1>1. CASE Begins(a)
  <2>1. IngestsOK' BY <1>1, IngestType DEF Begins
  <2>2. CopiesOK' BY <1>1, CopyMovesType DEF Begins
  <2>. QED BY <1>1, <2>1, <2>2 DEF Begins, JobsOK, RowsOK, DirsOK, SweepsOK, rowVars
<1>2. CASE OpensDir(a)
  <2>1. [NoDir EXCEPT !.exists = TRUE, !.marker = 0, !.payload = "tmp"] \in DirRecord
    BY Bounds, NoRecords DEF DirRecord
  <2>2. DirsOK' BY <1>2, <2>1 DEF OpensDir, DirsOK
  <2>3. CopiesOK' BY <1>2, CopyMovesType DEF OpensDir
  <2>. QED BY <1>2, <2>2, <2>3
       DEF OpensDir, JobsOK, RowsOK, IngestsOK, SweepsOK, rowVars, ingestVars
<1>3. CASE RefreshesMarker(a)
  <2>1. DirsOK' BY <1>3, Bounds DEF RefreshesMarker, Writes, DirsOK, DirRecord
  <2>. QED BY <1>3, <2>1
       DEF RefreshesMarker, JobsOK, RowsOK, IngestsOK, SweepsOK, CopiesOK, rowVars, ingestVars
<1>4. CASE RenamesPayload(a)
  <2>1. DirsOK' BY <1>4 DEF RenamesPayload, Writes, DirsOK, DirRecord
  <2>2. CopiesOK' BY <1>4, CopyMovesType DEF RenamesPayload
  <2>. QED BY <1>4, <2>1, <2>2
       DEF RenamesPayload, JobsOK, RowsOK, IngestsOK, SweepsOK, rowVars, ingestVars
<1>5. CASE WritesManifest(a)
  <2>1. DirsOK' BY <1>5, WritesType DEF WritesManifest
  <2>2. CopiesOK' BY <1>5, CopyMovesType DEF WritesManifest
  <2>. QED BY <1>5, <2>1, <2>2
       DEF WritesManifest, JobsOK, RowsOK, IngestsOK, SweepsOK, rowVars, ingestVars
<1>. QED BY <1>1, <1>2, <1>3, <1>4, <1>5 DEF CopyStarts

(* Types, when a copy comes to its end.                                    *)
LEMMA CopyEndsType ==
  ASSUME TypeInv, NEW a \in Artifact, CopyEnds(a)
  PROVE  TypeInv'
<1>. USE DEF TypeInv
<1>0. ASSUME dirs' \in {dirs, [dirs EXCEPT ![a] = NoDir]} PROVE DirsOK'
  BY <1>0, NoRecords DEF DirsOK
<1>1. CASE CopyFails(a)
  <2>1. DirsOK' BY <1>0, <1>1 DEF CopyFails
  <2>2. CopiesOK' BY <1>1, CopyMovesType DEF CopyFails
  <2>. QED BY <1>1, <2>1, <2>2
       DEF CopyFails, JobsOK, RowsOK, IngestsOK, SweepsOK, rowVars, ingestVars
<1>2. CASE Commits(a)
  <2>1. IngestsOK' BY <1>2, IngestType DEF Commits
  <2>2. CopiesOK' BY <1>2, CopyMovesType DEF Commits
  <2>3. copies[a].left \in 0 .. PostCloseTtl BY Bounds DEF CopiesOK, CopyRecord
  <2>4. [rows[a] EXCEPT !.present = TRUE, !.left = copies[a].left] \in RowRecord
    BY <2>3 DEF RowsOK, RowRecord
  <2>5. RowsOK' BY <1>2, <2>4 DEF Commits, RowsOK
  <2>6. JobsOK' BY <1>2, Bounds DEF Commits, JobsOK
  <2>. QED BY <1>2, <2>1, <2>2, <2>5, <2>6 DEF Commits, DirsOK, SweepsOK
<1>3. CASE IsRefused(a)
  <2>1. CopiesOK' BY <1>3, CopyMovesType DEF IsRefused
  <2>. QED BY <1>3, <2>1
       DEF IsRefused, JobsOK, RowsOK, IngestsOK, DirsOK, SweepsOK, rowVars, ingestVars
<1>4. CASE RemovesMarker(a)
  <2>1. CopiesOK' BY <1>4, CopyMovesType DEF RemovesMarker
  <2>2. DirsOK' BY <1>4 DEF RemovesMarker, DirsOK, DirRecord
  <2>. QED BY <1>4, <2>1, <2>2
       DEF RemovesMarker, JobsOK, RowsOK, IngestsOK, SweepsOK, rowVars, ingestVars
<1>5. CASE RemovesCopy(a)
  <2>1. DirsOK' BY <1>0, <1>5 DEF RemovesCopy
  <2>2. CopiesOK' BY <1>5, CopyMovesType DEF RemovesCopy
  <2>. QED BY <1>5, <2>1, <2>2
       DEF RemovesCopy, JobsOK, RowsOK, IngestsOK, SweepsOK, rowVars, ingestVars
<1>6. CASE AbandonsCopy(a)
  <2>1. IngestsOK' BY <1>6, IngestType DEF AbandonsCopy
  <2>2. CopiesOK' BY <1>6, CopyMovesType DEF AbandonsCopy
  <2>. QED BY <1>6, <2>1, <2>2 DEF AbandonsCopy, JobsOK, RowsOK, DirsOK, SweepsOK, rowVars
<1>7. CASE CopyDies(a)
  <2>1. CopiesOK' BY <1>7 DEF CopyDies, CopiesOK, CopyRecord
  <2>. QED BY <1>7, <2>1
       DEF CopyDies, JobsOK, RowsOK, IngestsOK, DirsOK, SweepsOK, rowVars, ingestVars
<1>. QED BY <1>1, <1>2, <1>3, <1>4, <1>5, <1>6, <1>7 DEF CopyEnds

(* Types, when jobs end, batches close, manifests are synced, time passes. *)
LEMMA JobsAndTimeType ==
  ASSUME TypeInv, JobNext \/ Tick
  PROVE  TypeInv'
<1>. USE DEF TypeInv
<1>1. ASSUME NEW j \in Job, FailsJob(j) PROVE TypeInv'
  BY <1>1 DEF FailsJob, JobsOK, RowsOK, IngestsOK, DirsOK, CopiesOK, SweepsOK, rowVars, ingestVars
<1>2. ASSUME NEW j \in Job, ClosesBatch(j) PROVE TypeInv'
  <2>1. ASSUME NEW a \in Artifact PROVE Extended(rows[a]) \in RowRecord
    <3>. DEFINE v == IF rows[a].left < PostCloseTtl THEN 1 ELSE rows[a].version
    <3>1. v \in 0 .. 1 BY DEF RowsOK, RowRecord
    <3>2. Extended(rows[a]) = [rows[a] EXCEPT !.left = PostCloseTtl, !.version = v] BY DEF Extended
    <3>3. PostCloseTtl \in 0 .. PostCloseTtl BY Bounds
    <3>. HIDE DEF v
    <3>. QED BY <3>1, <3>2, <3>3 DEF RowsOK, RowRecord
  <2>2. RowsOK' BY <1>2, <2>1 DEF ClosesBatch, RowsOK
  <2>. QED BY <1>2, <2>2
       DEF ClosesBatch, JobsOK, IngestsOK, DirsOK, CopiesOK, SweepsOK, ingestVars
<1>3. ASSUME NEW a \in Artifact, SyncsAfterClose(a) PROVE TypeInv'
  <2>1. rows[a].version \in 0 .. 1 BY DEF RowsOK, RowRecord
  <2>2. RowsOK' BY <1>3, <2>1 DEF SyncsAfterClose, Synced, RowsOK, RowRecord
  <2>3. DirsOK' BY <1>3, <2>1, WritesType DEF SyncsAfterClose, Synced
  <2>. QED BY <1>3, <2>2, <2>3
       DEF SyncsAfterClose, JobsOK, IngestsOK, CopiesOK, SweepsOK, ingestVars
<1>4. CASE Tick
  <2>1. RowsOK'
    <3>1. \A a \in Artifact : Sooner(rows[a].left) \in 0 .. PostCloseTtl
      BY Ages, Bounds DEF RowsOK, RowRecord
    <3>. QED BY <1>4, <3>1 DEF Tick, RowsOK, RowRecord
  <2>2. IngestsOK'
    <3>1. \A a \in Artifact : Older(ingests[a].updated) \in Age BY Ages DEF IngestsOK, IngestRecord
    <3>. QED BY <1>4, <3>1 DEF Tick, IngestsOK, IngestRecord
  <2>3. DirsOK'
    <3>1. \A a \in Artifact : Older(dirs[a].marker) \in Age \union {None}
      BY Ages DEF DirsOK, DirRecord
    <3>. QED BY <1>4, <3>1 DEF Tick, DirsOK, DirRecord
  <2>4. CopiesOK'
    <3>1. \A a \in Artifact : Sooner(copies[a].left) \in 0 .. MinTtl
      BY Ages, Bounds DEF CopiesOK, CopyRecord
    <3>. QED BY <1>4, <3>1 DEF Tick, CopiesOK, CopyRecord
  <2>. QED BY <1>4, <2>1, <2>2, <2>3, <2>4 DEF Tick, JobsOK, SweepsOK
<1>. QED BY <1>1, <1>2, <1>3, <1>4 DEF JobNext

(* Those of a sweep.                                                       *)
SweepBegins(s) == SweepLists(s) \/ SweepSyncs(s) \/ SweepRemoves(s) \/ SweepListsIngests(s)
SweepEnds(s) == SweepDeletes(s) \/ SweepDies(s)

(* A sweep s becomes w, and the others stay.                               *)
Becomes(s, w) == sweeps' = [sweeps EXCEPT ![s] = w]

(* A sweep that becomes another record is the only one to.                 *)
LEMMA BecomesType ==
  ASSUME SweepsOK, NEW s \in Sweep, NEW w \in SweepRecord, Becomes(s, w)
  PROVE  SweepsOK' /\ sweeps'[s] = w /\ \A u \in Sweep \ {s} : sweeps'[u] = sweeps[u]
BY DEF SweepsOK, Becomes

(* Types, in the first half of a sweep.                                    *)
LEMMA SweepBeginsType ==
  ASSUME TypeInv, NEW s \in Sweep, SweepBegins(s)
  PROVE  TypeInv'
<1>. USE DEF TypeInv
<1>w. sweeps[s] \in SweepRecord BY DEF SweepsOK
<1>1. CASE SweepLists(s)
  <2>1. PICK page \in SUBSET Deletable :
           Becomes(s, [NoSweep EXCEPT !.at = "syncing", !.expired = page, !.syncs = Unsynced])
    BY <1>1 DEF SweepLists, Becomes
  <2>2. page \in SUBSET Artifact /\ Unsynced \in SUBSET Artifact BY DEF Deletable, Unsynced
  <2>3. [NoSweep EXCEPT !.at = "syncing", !.expired = page, !.syncs = Unsynced] \in SweepRecord
    BY <2>2, NoRecords DEF SweepRecord
  <2>4. SweepsOK' BY <2>1, <2>3, BecomesType
  <2>. QED BY <1>1, <2>4
       DEF SweepLists, JobsOK, RowsOK, IngestsOK, DirsOK, CopiesOK, rowVars, ingestVars
<1>2. CASE SweepSyncs(s)
  <2>1. PICK a \in sweeps[s].syncs :
          /\ sweeps' = [sweeps EXCEPT ![s].syncs = @ \ {a}]
          /\ \/ a \in Unsynced /\ Synced(a)
             \/ UNCHANGED <<rowVars, dirs>>
    BY <1>2 DEF SweepSyncs
  <2>2. a \in Artifact BY <1>w, <2>1 DEF SweepRecord
  <2>3. SweepsOK' BY <1>w, <2>1, <2>2 DEF SweepsOK, SweepRecord
  <2>4. rows[a].version \in 0 .. 1 BY <2>2 DEF RowsOK, RowRecord
  <2>5. RowsOK' BY <2>1, <2>2, <2>4 DEF Synced, RowsOK, RowRecord, rowVars
  <2>6. DirsOK'
    <3>1. CASE Synced(a) BY <3>1, <2>2, <2>4, WritesType DEF Synced
    <3>2. CASE UNCHANGED dirs BY <3>2 DEF DirsOK
    <3>. QED BY <2>1, <3>1, <3>2
  <2>. QED BY <1>2, <2>3, <2>5, <2>6 DEF SweepSyncs, JobsOK, IngestsOK, CopiesOK, ingestVars
<1>3. CASE SweepRemoves(s)
  <2>1. PICK a \in sweeps[s].expired :
          /\ \/ dirs' = [dirs EXCEPT ![a] = NoDir]
             \/ dirs' = dirs
          /\ \/ sweeps' = [sweeps EXCEPT ![s].expired = @ \ {a}, ![s].deleted = @ \union {a}]
             \/ sweeps' = [sweeps EXCEPT ![s].expired = @ \ {a}]
          /\ rows' = rows
    BY <1>3 DEF SweepRemoves, rowVars
  <2>2. a \in Artifact BY <1>w, <2>1 DEF SweepRecord
  <2>3. SweepsOK' BY <1>w, <2>1, <2>2 DEF SweepsOK, SweepRecord
  <2>4. DirsOK' BY <2>1, <2>2, NoRecords DEF DirsOK
  <2>. QED BY <1>3, <2>1, <2>3, <2>4
       DEF SweepRemoves, JobsOK, RowsOK, IngestsOK, CopiesOK, ingestVars
<1>4. CASE SweepListsIngests(s)
  <2>1. PICK page \in SUBSET StaleIngests :
          sweeps' = [sweeps EXCEPT ![s].at = "checking", ![s].stale = page]
    BY <1>4 DEF SweepListsIngests
  <2>2. page \in SUBSET Artifact BY DEF StaleIngests
  <2>3. SweepsOK' BY <1>w, <2>1, <2>2 DEF SweepsOK, SweepRecord
  <2>. QED BY <1>4, <2>3
       DEF SweepListsIngests, JobsOK, RowsOK, IngestsOK, DirsOK, CopiesOK, rowVars, ingestVars
<1>. QED BY <1>1, <1>2, <1>3, <1>4 DEF SweepBegins

(* Types, while a sweep looks at a stale ingest.                           *)
LEMMA SweepLooksType ==
  ASSUME TypeInv, NEW s \in Sweep, NEW a \in Artifact,
         LooksForRow(s, a) \/ LooksAtMarker(s, a) \/ RemovesStale(s, a)
  PROVE  TypeInv'
<1>. USE DEF TypeInv
<1>w. sweeps[s] \in SweepRecord BY DEF SweepsOK
<1>1. CASE LooksForRow(s, a)
  <2>1. SweepsOK' BY <1>w, <1>1 DEF LooksForRow, SweepsOK, SweepRecord
  <2>2. IngestsOK' BY <1>1, IngestType DEF LooksForRow
  <2>. QED BY <1>1, <2>1, <2>2 DEF LooksForRow, JobsOK, RowsOK, DirsOK, CopiesOK, rowVars
<1>2. CASE LooksAtMarker(s, a)
  <2>1. SweepsOK' BY <1>w, <1>2 DEF LooksAtMarker, SweepsOK, SweepRecord
  <2>2. IngestsOK' BY <1>2, IngestType DEF LooksAtMarker
  <2>. QED BY <1>2, <2>1, <2>2 DEF LooksAtMarker, JobsOK, RowsOK, DirsOK, CopiesOK, rowVars
<1>3. CASE RemovesStale(s, a)
  <2>1. SweepsOK' BY <1>w, <1>3 DEF RemovesStale, SweepsOK, SweepRecord
  <2>2. IngestsOK' BY <1>3, IngestType DEF RemovesStale
  <2>3. DirsOK' BY <1>3, NoRecords DEF RemovesStale, DirsOK
  <2>. QED BY <1>3, <2>1, <2>2, <2>3 DEF RemovesStale, JobsOK, RowsOK, CopiesOK, rowVars
<1>. QED BY <1>1, <1>2, <1>3

(* Types, when a sweep deletes its rows or dies.                           *)
LEMMA SweepEndsType ==
  ASSUME TypeInv, NEW s \in Sweep, SweepEnds(s)
  PROVE  TypeInv'
<1>. USE DEF TypeInv
<1>1. CASE SweepDeletes(s)
  <2>1. RowsOK' BY <1>1 DEF SweepDeletes, RowsOK, RowRecord
  <2>2. SweepsOK' BY <1>1, NoRecords DEF SweepDeletes, SweepsOK
  <2>. QED BY <1>1, <2>1, <2>2 DEF SweepDeletes, JobsOK, IngestsOK, DirsOK, CopiesOK, ingestVars
<1>2. CASE SweepDies(s)
  <2>1. SweepsOK' BY <1>2, NoRecords DEF SweepDies, SweepsOK
  <2>. QED BY <1>2, <2>1
       DEF SweepDies, JobsOK, RowsOK, IngestsOK, DirsOK, CopiesOK, rowVars, ingestVars
<1>. QED BY <1>1, <1>2 DEF SweepEnds

(* The groups of actions that the lemmas go by are all there is.           *)
LEMMA NextParts ==
  ASSUME [Next]_vars
  PROVE  \/ \E a \in Artifact : CopyStarts(a) \/ CopyEnds(a)
         \/ \E s \in Sweep : \/ SweepBegins(s) \/ SweepEnds(s)
                             \/ \E a \in Artifact : \/ LooksForRow(s, a) \/ LooksAtMarker(s, a)
                                                    \/ RemovesStale(s, a)
         \/ JobNext \/ Tick
         \/ UNCHANGED vars
BY Zenon DEF Next, CopyNext, CopyGoesOn, SweepNext, SweepGoesOn,
            CopyStarts, CopyEnds, SweepBegins, SweepEnds

(* The first state has the types.                                          *)
LEMMA TypeInvInit == Init => TypeInv
<1>. SUFFICES ASSUME Init PROVE TypeInv OBVIOUS
<1>1. [present |-> FALSE, left |-> 0, version |-> 0, synced |-> 0] \in RowRecord
  BY Bounds DEF RowRecord
<1>2. [at |-> "idle", left |-> MinTtl] \in CopyRecord BY Bounds DEF CopyRecord
<1>. QED BY <1>1, <1>2, NoRecords
     DEF Init, TypeInv, JobsOK, RowsOK, IngestsOK, DirsOK, CopiesOK, SweepsOK

(* Every step keeps them.                                                  *)
LEMMA TypeInvStep == TypeInv /\ [Next]_vars => TypeInv'
<1>. SUFFICES ASSUME TypeInv, [Next]_vars PROVE TypeInv' OBVIOUS
<1>1. CASE UNCHANGED vars
  BY <1>1 DEF vars, rowVars, ingestVars, TypeInv, JobsOK, RowsOK, IngestsOK, DirsOK,
              CopiesOK, SweepsOK
<1>. QED BY <1>1, NextParts, CopyStartsType, CopyEndsType, SweepBeginsType, SweepLooksType,
            SweepEndsType, JobsAndTimeType

(* Jobs, rows, ingests, directories, copies and sweeps have their types.   *)
THEOREM TypeCorrect == Spec => []TypeInv
BY TypeInvInit, TypeInvStep, PTL DEF Spec

(* A copy that has committed its row, and one that has a directory to work *)
(* in.                                                                     *)
Landed == {"committed", "over"}
Underway == {"copying", "renamed", "described"}

(* How far the copy of a has come, when its row, its ingest and its        *)
(* directory look as they do.                                              *)
CopyFine(a) ==
  /\ rows[a].present => copies[a].at \in Landed /\ jobs[JobOf[a]] # "pending"
  /\ copies[a].at \in {"idle", "begun"} => ingests[a].updated = 0
  /\ copies[a].at = "idle" => ~ingests[a].present
  /\ copies[a].at \in Alive => ingests[a].present
  /\ copies[a].at \in Underway => dirs[a].exists /\ dirs[a].marker \in 0 .. MaxSilence
  /\ copies[a].at \in {"renamed", "described"} => dirs[a].payload = "final"
  /\ copies[a].at \in {"idle", "begun", "emptied"} => ~dirs[a].exists

IsUnsynced(a) == rows[a].present /\ rows[a].synced < rows[a].version

(* What sweep s may still believe of a. On the list of stale ingests: the  *)
(* copy is past its beginning. Seen without a row: there is still none.    *)
(* Found silent: the copy is not alive. To be deleted: committed, its      *)
(* batch closed, its time over, and its manifest written for the last      *)
(* time.                                                                   *)
SweepFine(s, a) ==
  /\ a \in sweeps[s].stale \union sweeps[s].seen => copies[a].at \notin {"idle", "begun"}
  /\ a \in sweeps[s].empty => copies[a].at \notin Alive \union {"idle"}
  /\ a \in sweeps[s].seen \union sweeps[s].empty => CommitsMeetSweeps \/ ~rows[a].present
  /\ a \in sweeps[s].expired \union sweeps[s].deleted =>
       copies[a].at \in Landed /\ jobs[JobOf[a]] = "closed" /\ rows[a].left = 0
  /\ a \in sweeps[s].expired => SyncsFail \/ a \in sweeps[s].syncs \/ ~IsUnsynced(a)
  /\ a \in sweeps[s].deleted => SyncsFail \/ (~IsUnsynced(a) /\ ~dirs[a].exists)

(* The two properties, for one artifact.                                   *)
KeptFor(a) ==
  rows[a].present /\ (IsOpen(JobOf[a]) \/ rows[a].left > 0) => dirs[a].payload = "final"
FoundFor(a) == dirs[a].exists => rows[a].present \/ ingests[a].present

(* The inductive invariant. CommitsMeetSweeps and SyncsFail are the two    *)
(* switches of the model under which the code is known to break one of the *)
(* properties.                                                             *)
ArtifactFine(a) ==
  /\ CopyFine(a)
  /\ \A s \in Sweep : SweepFine(s, a)
  /\ CommitsMeetSweeps \/ KeptFor(a)
  /\ SyncsFail \/ FoundFor(a)

IInv == TypeInv /\ \A a \in Artifact : ArtifactFine(a)

(* What a step leaves as it was.                                           *)
Same(a) == UNCHANGED <<rows[a], ingests[a], dirs[a], copies[a]>>
JobStaysOrOpens(a) ==
  \/ jobs'[JobOf[a]] = jobs[JobOf[a]]
  \/ jobs[JobOf[a]] = "pending" /\ jobs'[JobOf[a]] = "open"

(* The step adds a to no list of s, and takes it off the list of manifests *)
(* to be written only when that does no harm.                              *)
Regards(s, a) ==
  /\ a \in sweeps'[s].stale => a \in sweeps[s].stale
  /\ a \in sweeps'[s].seen => a \in sweeps[s].seen
  /\ a \in sweeps'[s].empty => a \in sweeps[s].empty
  /\ a \in sweeps'[s].expired => a \in sweeps[s].expired
  /\ a \in sweeps'[s].deleted => a \in sweeps[s].deleted
  /\ a \in sweeps'[s].expired /\ a \in sweeps[s].syncs =>
       a \in sweeps'[s].syncs \/ SyncsFail \/ ~IsUnsynced(a)

(* A sweep believes no more of an artifact that the step left alone.       *)
LEMMA RegardsFine ==
  ASSUME NEW a \in Artifact, NEW s \in Sweep, SweepFine(s, a), Same(a), Regards(s, a),
         UNCHANGED jobs
  PROVE  SweepFine(s, a)'
BY DEF SweepFine, IsUnsynced, Same, Regards

(* An artifact left alone, as long as the sweeps' beliefs hold.            *)
LEMMA OnlySweepsFine ==
  ASSUME NEW a \in Artifact, ArtifactFine(a), Same(a), UNCHANGED jobs,
         \A s \in Sweep : SweepFine(s, a)'
  PROVE  ArtifactFine(a)'
<1>1. CopyFine(a)' BY DEF ArtifactFine, CopyFine, Same
<1>2. (CommitsMeetSweeps \/ KeptFor(a))' BY DEF ArtifactFine, CopyFine, KeptFor, IsOpen, Same
<1>3. (SyncsFail \/ FoundFor(a))' BY DEF ArtifactFine, FoundFor, Same
<1>. QED BY <1>1, <1>2, <1>3 DEF ArtifactFine

(* An artifact left alone by a step that leaves the sweeps alone, whether  *)
(* or not its job ends.                                                    *)
LEMMA SameFine ==
  ASSUME TypeInv, NEW a \in Artifact, ArtifactFine(a), Same(a), UNCHANGED sweeps,
         JobStaysOrOpens(a)
  PROVE  ArtifactFine(a)'
<1>1. CopyFine(a)' BY DEF ArtifactFine, CopyFine, Same, JobStaysOrOpens
<1>2. ASSUME NEW s \in Sweep PROVE SweepFine(s, a)'
  BY DEF ArtifactFine, SweepFine, IsUnsynced, Same, JobStaysOrOpens
<1>3. (CommitsMeetSweeps \/ KeptFor(a))'
  BY DEF ArtifactFine, CopyFine, KeptFor, IsOpen, Same, JobStaysOrOpens
<1>4. (SyncsFail \/ FoundFor(a))' BY DEF ArtifactFine, FoundFor, Same
<1>. QED BY <1>1, <1>2, <1>3, <1>4 DEF ArtifactFine

(* A copy under way: no sweep has its artifact on a list to be removed,    *)
(* and its ingest is there.                                                *)
LEMMA CopyStartsFine ==
  ASSUME IInv, NEW a \in Artifact, CopyStarts(a)
  PROVE  \A b \in Artifact : ArtifactFine(b)'
<1>t. TypeInv /\ ArtifactFine(a) BY DEF IInv
<1>c. CopiesOK /\ DirsOK /\ IngestsOK BY <1>t DEF TypeInv
<1>u. UNCHANGED <<jobs, rows, sweeps>>
  BY DEF CopyStarts, Begins, OpensDir, RefreshesMarker, RenamesPayload, WritesManifest, rowVars
<1>1. ASSUME NEW b \in Artifact \ {a} PROVE Same(b)
  <2>1. CASE Begins(a)
    BY <2>1, <1>c DEF Begins, Moves, PutsIngest, CopiesOK, IngestsOK, Same, rowVars
  <2>2. CASE OpensDir(a)
    BY <2>2, <1>c DEF OpensDir, Moves, CopiesOK, DirsOK, Same, rowVars, ingestVars
  <2>3. CASE RefreshesMarker(a)
    BY <2>3, <1>c DEF RefreshesMarker, Writes, DirsOK, Same, rowVars, ingestVars
  <2>4. CASE RenamesPayload(a)
    BY <2>4, <1>c DEF RenamesPayload, Moves, Writes, CopiesOK, DirsOK, Same, rowVars, ingestVars
  <2>5. CASE WritesManifest(a)
    BY <2>5, <1>c DEF WritesManifest, Moves, Writes, CopiesOK, DirsOK, Same, rowVars, ingestVars
  <2>. QED BY <2>1, <2>2, <2>3, <2>4, <2>5 DEF CopyStarts
<1>2. /\ copies[a].at \in Alive \union {"idle"} /\ copies'[a].at \in Alive
      /\ copies[a].at \notin {"idle", "begun"} => copies'[a].at \notin {"idle", "begun"}
      /\ dirs[a].exists => dirs'[a].exists
  <2>1. CASE Begins(a)
    BY <2>1, <1>c DEF Begins, Moves, CopiesOK, CopyRecord, Alive
  <2>2. CASE OpensDir(a)
    BY <2>2, <1>c, NoRecords DEF OpensDir, Moves, CopiesOK, CopyRecord, DirsOK, DirRecord, Alive
  <2>3. CASE RefreshesMarker(a)
    BY <2>3, <1>c DEF RefreshesMarker, Writes, DirsOK, DirRecord, Alive
  <2>4. CASE RenamesPayload(a)
    BY <2>4, <1>c DEF RenamesPayload, Moves, Writes, CopiesOK, CopyRecord, DirsOK, DirRecord, Alive
  <2>5. CASE WritesManifest(a)
    BY <2>5, <1>c DEF WritesManifest, Moves, Writes, CopiesOK, CopyRecord, DirsOK, DirRecord, Alive
  <2>. QED BY <2>1, <2>2, <2>3, <2>4, <2>5 DEF CopyStarts
<1>3. ~rows[a].present BY <1>2, <1>t DEF ArtifactFine, CopyFine, Alive, Landed
<1>4. CopyFine(a)'
  <2>r. ~rows'[a].present BY <1>3, <1>u
  <2>1. CASE Begins(a)
    <3>1. /\ copies[a].at = "idle" /\ copies'[a].at = "begun" /\ dirs' = dirs
          /\ ingests'[a] = [present |-> TRUE, updated |-> 0]
      BY <2>1, <1>c DEF Begins, Moves, PutsIngest, CopiesOK, CopyRecord, IngestsOK
    <3>2. ~dirs[a].exists BY <3>1, <1>t DEF ArtifactFine, CopyFine
    <3>. QED BY <3>1, <3>2, <2>r DEF CopyFine, Underway
  <2>2. CASE OpensDir(a)
    <3>1. copies[a].at = "begun" /\ copies'[a].at = "copying" /\ ingests' = ingests
      BY <2>2, <1>c DEF OpensDir, Moves, CopiesOK, CopyRecord, ingestVars
    <3>2. dirs'[a].exists /\ dirs'[a].marker = 0
      BY <2>2, <1>c DEF OpensDir, DirsOK, NoDir
    <3>3. ingests[a].present BY <3>1, <1>t DEF ArtifactFine, CopyFine, Alive
    <3>. QED BY <3>1, <3>2, <3>3, <2>r, Bounds DEF CopyFine, Underway
  <2>3. CASE RefreshesMarker(a)
    <3>1. copies[a].at = "copying" /\ copies' = copies /\ ingests' = ingests
      BY <2>3 DEF RefreshesMarker, ingestVars
    <3>2. dirs'[a].exists /\ dirs'[a].marker = 0
      BY <2>3, <1>c DEF RefreshesMarker, Writes, DirsOK, DirRecord
    <3>3. ingests[a].present BY <3>1, <1>t DEF ArtifactFine, CopyFine, Alive
    <3>. QED BY <3>1, <3>2, <3>3, <2>r, Bounds DEF CopyFine, Underway
  <2>4. CASE RenamesPayload(a)
    <3>1. copies[a].at = "copying" /\ copies'[a].at = "renamed" /\ ingests' = ingests
      BY <2>4, <1>c DEF RenamesPayload, Moves, CopiesOK, CopyRecord, ingestVars
    <3>2. dirs'[a].exists /\ dirs'[a].marker = dirs[a].marker /\ dirs'[a].payload = "final"
      BY <2>4, <1>c DEF RenamesPayload, Writes, DirsOK, DirRecord
    <3>3. ingests[a].present /\ dirs[a].marker \in 0 .. MaxSilence
      BY <3>1, <1>t DEF ArtifactFine, CopyFine, Alive, Underway
    <3>. QED BY <3>1, <3>2, <3>3, <2>r DEF CopyFine, Underway
  <2>5. CASE WritesManifest(a)
    <3>1. copies[a].at = "renamed" /\ copies'[a].at = "described" /\ ingests' = ingests
      BY <2>5, <1>c DEF WritesManifest, Moves, CopiesOK, CopyRecord, ingestVars
    <3>2. dirs'[a].exists /\ dirs'[a].marker = dirs[a].marker /\ dirs'[a].payload = dirs[a].payload
      BY <2>5, <1>c, WritesType DEF WritesManifest
    <3>3. /\ ingests[a].present /\ dirs[a].marker \in 0 .. MaxSilence
          /\ dirs[a].payload = "final"
      BY <3>1, <1>t DEF ArtifactFine, CopyFine, Alive, Underway
    <3>. QED BY <3>1, <3>2, <3>3, <2>r DEF CopyFine, Underway
  <2>. QED BY <2>1, <2>2, <2>3, <2>4, <2>5 DEF CopyStarts
<1>5. ASSUME NEW s \in Sweep PROVE SweepFine(s, a)'
  <2>1. /\ SweepFine(s, a) /\ sweeps'[s] = sweeps[s] /\ rows'[a] = rows[a]
        /\ copies[a].at \notin Landed
    BY <1>t, <1>u, <1>2 DEF ArtifactFine, Alive, Landed
  <2>2. a \notin sweeps[s].expired \union sweeps[s].deleted \union sweeps[s].empty
    BY <2>1, <1>2 DEF SweepFine
  <2>. QED BY <2>1, <2>2, <1>2 DEF SweepFine
<1>6. KeptFor(a)' BY <1>3, <1>u DEF KeptFor
<1>7. FoundFor(a)'
  <2>1. ingests'[a].present BY <1>2, <1>4 DEF CopyFine
  <2>. QED BY <2>1 DEF FoundFor
<1>. QED BY <1>1, <1>4, <1>5, <1>6, <1>7, <1>u, SameFine DEF JobStaysOrOpens, IInv, ArtifactFine

(* The ends of a copy that commit nothing.                                 *)
GivesUpCopy(a) ==
  \/ CopyFails(a) \/ IsRefused(a) \/ RemovesMarker(a) \/ RemovesCopy(a)
  \/ AbandonsCopy(a) \/ CopyDies(a)

(* A copy that ends without a commit, or after it: the row of the ingest   *)
(* goes only after the directory.                                          *)
LEMMA GivesUpCopyFine ==
  ASSUME IInv, NEW a \in Artifact, GivesUpCopy(a)
  PROVE  \A b \in Artifact : ArtifactFine(b)'
<1>t. TypeInv /\ ArtifactFine(a) BY DEF IInv
<1>c. CopiesOK /\ DirsOK /\ IngestsOK BY <1>t DEF TypeInv
<1>u. UNCHANGED <<jobs, rows, sweeps>>
  BY DEF GivesUpCopy, CopyFails, IsRefused, RemovesMarker, RemovesCopy, AbandonsCopy,
         CopyDies, rowVars
<1>1. ASSUME NEW b \in Artifact \ {a} PROVE Same(b)
  <2>1. copies'[b] = copies[b]
    BY <1>c DEF GivesUpCopy, CopyFails, IsRefused, RemovesMarker, RemovesCopy, AbandonsCopy,
                CopyDies, Moves, CopiesOK
  <2>2. dirs'[b] = dirs[b]
    BY <1>c DEF GivesUpCopy, CopyFails, IsRefused, RemovesMarker, RemovesCopy, AbandonsCopy,
                CopyDies, DirsOK
  <2>3. ingests'[b] = ingests[b]
    BY <1>c DEF GivesUpCopy, CopyFails, IsRefused, RemovesMarker, RemovesCopy, AbandonsCopy,
                CopyDies, DropsIngest, IngestsOK, ingestVars
  <2>. QED BY <2>1, <2>2, <2>3, <1>u DEF Same
<1>2. /\ copies[a].at # "idle" /\ copies'[a].at \in {"refused", "emptied", "over"}
      /\ copies[a].at \in Landed => copies'[a].at = "over"
      /\ copies'[a].at = "emptied" => ~dirs'[a].exists
      /\ dirs'[a].exists => dirs[a].exists
      /\ copies[a].at \in Landed => dirs'[a].payload = dirs[a].payload
      /\ ingests[a].present /\ ~ingests'[a].present => copies[a].at = "emptied" /\ dirs' = dirs
  <2>1. CASE CopyFails(a)
    BY <2>1, <1>c DEF CopyFails, Moves, CopiesOK, CopyRecord, Landed, ingestVars, NoDir, DirsOK
  <2>2. CASE IsRefused(a)
    BY <2>2, <1>c DEF IsRefused, Moves, CopiesOK, CopyRecord, Landed, ingestVars
  <2>3. CASE RemovesMarker(a)
    BY <2>3, <1>c
    DEF RemovesMarker, Moves, CopiesOK, CopyRecord, Landed, ingestVars, DirsOK, DirRecord
  <2>4. CASE RemovesCopy(a)
    BY <2>4, <1>c DEF RemovesCopy, Moves, CopiesOK, CopyRecord, Landed, ingestVars, NoDir, DirsOK
  <2>5. CASE AbandonsCopy(a)
    BY <2>5, <1>c DEF AbandonsCopy, Moves, CopiesOK, CopyRecord, Landed
  <2>6. CASE CopyDies(a)
    BY <2>6, <1>c DEF CopyDies, CopiesOK, CopyRecord, Landed, ingestVars
  <2>. QED BY <2>1, <2>2, <2>3, <2>4, <2>5, <2>6 DEF GivesUpCopy
<1>3. CopyFine(a)' BY <1>2, <1>t, <1>u DEF ArtifactFine, CopyFine, Alive, Underway, Landed
<1>4. ASSUME NEW s \in Sweep PROVE SweepFine(s, a)'
  BY <1>2, <1>t, <1>u DEF ArtifactFine, SweepFine, IsUnsynced, Alive, Landed
<1>5. (CommitsMeetSweeps \/ KeptFor(a))'
  BY <1>2, <1>t, <1>u DEF ArtifactFine, CopyFine, KeptFor, IsOpen, Landed
<1>6. (SyncsFail \/ FoundFor(a))'
  BY <1>2, <1>t, <1>u DEF ArtifactFine, CopyFine, FoundFor
<1>. QED BY <1>1, <1>3, <1>4, <1>5, <1>6, <1>u, SameFine DEF JobStaysOrOpens, IInv, ArtifactFine

(* The commit: the payload is in its place, no sweep has gone so far as to *)
(* remove the directory, and the row takes the place of the ingest.        *)
LEMMA CommitsFine ==
  ASSUME IInv, NEW a \in Artifact, Commits(a)
  PROVE  \A b \in Artifact : ArtifactFine(b)'
<1>t. TypeInv /\ ArtifactFine(a) BY DEF IInv
<1>c. CopiesOK /\ RowsOK /\ IngestsOK /\ JobsOK BY <1>t DEF TypeInv
<1>u. UNCHANGED <<dirs, sweeps>> BY DEF Commits
<1>j. /\ jobs[JobOf[a]] = "pending" /\ jobs'[JobOf[a]] = "open"
      /\ \A j \in Job : j # JobOf[a] => jobs'[j] = jobs[j]
  BY <1>c, Bounds DEF Commits, JobsOK
<1>1. ASSUME NEW b \in Artifact \ {a}
      PROVE  Same(b) /\ JobStaysOrOpens(b)
  <2>1. Same(b)
    BY <1>c, <1>u DEF Commits, Moves, DropsIngest, CopiesOK, RowsOK, IngestsOK, Same
  <2>. QED BY <2>1, <1>j, Bounds DEF JobStaysOrOpens
<1>2. /\ copies[a].at = "described" /\ copies'[a].at = "committed"
      /\ rows'[a].present /\ rows'[a].version = rows[a].version /\ rows'[a].synced = rows[a].synced
      /\ ~ingests'[a].present
  BY <1>c DEF Commits, Moves, DropsIngest, NoIngest, CopiesOK, CopyRecord, RowsOK,
              RowRecord, IngestsOK
<1>3. dirs[a].exists /\ dirs[a].payload = "final"
  BY <1>2, <1>t DEF ArtifactFine, CopyFine, Underway
<1>4. CopyFine(a)' BY <1>2, <1>j DEF CopyFine, Landed, Alive, Underway
<1>5. ASSUME NEW s \in Sweep PROVE SweepFine(s, a)'
  <2>1. SweepFine(s, a) /\ sweeps'[s] = sweeps[s] BY <1>t, <1>u DEF ArtifactFine
  <2>2. /\ a \notin sweeps[s].expired \union sweeps[s].deleted \union sweeps[s].empty
        /\ a \in sweeps[s].seen => CommitsMeetSweeps
    BY <2>1, <1>2 DEF SweepFine, Landed, Alive, Commits, LookedFor
  <2>. QED BY <2>1, <2>2, <1>2 DEF SweepFine
<1>6. KeptFor(a)' BY <1>3, <1>u DEF KeptFor
<1>7. FoundFor(a)' BY <1>2 DEF FoundFor
<1>. QED BY <1>1, <1>4, <1>5, <1>6, <1>7, <1>t, <1>u, SameFine DEF IInv, ArtifactFine

(* A job that fails without a result had no artifact.                      *)
LEMMA JobsFine ==
  ASSUME IInv, NEW j \in Job, FailsJob(j)
  PROVE  \A b \in Artifact : ArtifactFine(b)'
<1>t. TypeInv BY DEF IInv
<1>1. ASSUME NEW b \in Artifact PROVE ArtifactFine(b)'
  <2>1. Same(b) /\ UNCHANGED sweeps BY DEF FailsJob, Same, rowVars, ingestVars
  <2>2. JobStaysOrOpens(b)
    BY <1>t, Bounds DEF JobStaysOrOpens, FailsJob, TypeInv, JobsOK
  <2>. QED BY <2>1, <2>2, <1>t, SameFine DEF IInv
<1>. QED BY <1>1

(* A batch that closes was open, so no sweep had its artifacts to delete.  *)
LEMMA ClosesBatchFine ==
  ASSUME IInv, NEW j \in Job, ClosesBatch(j)
  PROVE  \A b \in Artifact : ArtifactFine(b)'
<1>t. TypeInv BY DEF IInv
<1>u. UNCHANGED <<ingests, dirs, copies, sweeps>> BY DEF ClosesBatch, ingestVars
<1>1. ASSUME NEW b \in Artifact, JobOf[b] # j PROVE ArtifactFine(b)'
  <2>1. Same(b) BY <1>1, <1>u DEF ClosesBatch, Same
  <2>2. jobs'[JobOf[b]] = jobs[JobOf[b]] BY <1>1, <1>t, Bounds DEF ClosesBatch, TypeInv, JobsOK
  <2>. QED BY <2>1, <2>2, <1>t, <1>u, SameFine DEF JobStaysOrOpens, IInv
<1>2. ASSUME NEW b \in Artifact, JobOf[b] = j PROVE ArtifactFine(b)'
  <2>1. jobs[JobOf[b]] = "open" /\ jobs'[JobOf[b]] = "closed"
    BY <1>2, <1>t DEF ClosesBatch, TypeInv, JobsOK, IsOpen
  <2>2. rows'[b].present = rows[b].present
    BY <1>2, <1>t DEF ClosesBatch, TypeInv, RowsOK, RowRecord, Extended
  <2>3. ArtifactFine(b) BY DEF IInv
  <2>4. CopyFine(b)' BY <2>1, <2>2, <2>3, <1>u DEF ArtifactFine, CopyFine
  <2>5. ASSUME NEW s \in Sweep PROVE SweepFine(s, b)'
    <3>1. SweepFine(s, b) BY <2>3 DEF ArtifactFine
    <3>2. b \notin sweeps[s].expired \union sweeps[s].deleted BY <3>1, <2>1 DEF SweepFine
    <3>. QED BY <3>1, <3>2, <2>2, <1>u DEF SweepFine
  <2>6. (CommitsMeetSweeps \/ KeptFor(b))'
    BY <2>1, <2>2, <2>3, <1>u DEF ArtifactFine, KeptFor, IsOpen
  <2>7. (SyncsFail \/ FoundFor(b))' BY <2>2, <2>3, <1>u DEF ArtifactFine, FoundFor
  <2>. QED BY <2>4, <2>5, <2>6, <2>7 DEF ArtifactFine
<1>. QED BY <1>1, <1>2

(* A manifest is written only for an artifact not yet removed, unless a    *)
(* sweep went on although its own write had failed.                        *)
LEMMA SyncedFine ==
  ASSUME IInv, NEW a \in Artifact, a \in Unsynced, Synced(a), UNCHANGED <<jobs, ingests, copies>>,
         \A s \in Sweep : \A b \in Artifact \ {a} : Regards(s, b),
         \A s \in Sweep : Regards(s, a) \/ sweeps'[s] = [sweeps[s] EXCEPT !.syncs = @ \ {a}]
  PROVE  \A b \in Artifact : ArtifactFine(b)'
<1>t. TypeInv /\ ArtifactFine(a) /\ RowsOK /\ DirsOK /\ SweepsOK BY DEF IInv, TypeInv
<1>v. rows[a].version \in 0 .. 1 BY <1>t DEF RowsOK, RowRecord
<1>1. /\ dirs'[a].payload = dirs[a].payload /\ dirs'[a].marker = dirs[a].marker /\ dirs'[a].exists
      /\ \A b \in Artifact \ {a} : dirs'[b] = dirs[b]
  BY <1>t, <1>v, WritesType DEF Synced
<1>2. /\ rows'[a].present = rows[a].present /\ rows'[a].left = rows[a].left
      /\ rows'[a].synced = rows[a].version /\ rows'[a].version = rows[a].version
      /\ \A b \in Artifact \ {a} : rows'[b] = rows[b]
  BY <1>t DEF Synced, RowsOK, RowRecord
<1>3. rows[a].present BY DEF Unsynced
<1>4. ASSUME NEW b \in Artifact \ {a} PROVE ArtifactFine(b)'
  <2>1. Same(b) BY <1>1, <1>2 DEF Same
  <2>2. ArtifactFine(b) BY DEF IInv
  <2>. QED BY <2>1, <2>2, RegardsFine, OnlySweepsFine DEF ArtifactFine
<1>5. CopyFine(a)'
  BY <1>1, <1>2, <1>3, <1>t DEF ArtifactFine, CopyFine, Landed, Alive, Underway
<1>6. ~IsUnsynced(a)' BY <1>2, <1>v DEF IsUnsynced
<1>7. ASSUME NEW s \in Sweep PROVE SweepFine(s, a)'
  <2>1. /\ SweepFine(s, a) /\ rows'[a].present /\ rows'[a].left = rows[a].left
        /\ copies' = copies /\ jobs' = jobs
    BY <1>2, <1>3, <1>t DEF ArtifactFine
  <2>2. /\ a \in sweeps'[s].stale => a \in sweeps[s].stale
        /\ a \in sweeps'[s].seen => a \in sweeps[s].seen
        /\ a \in sweeps'[s].empty => a \in sweeps[s].empty
        /\ a \in sweeps'[s].expired => a \in sweeps[s].expired
        /\ a \in sweeps'[s].deleted => a \in sweeps[s].deleted
    <3>1. CASE Regards(s, a) BY <3>1 DEF Regards
    <3>2. CASE sweeps'[s] = [sweeps[s] EXCEPT !.syncs = @ \ {a}]
      <4>1. sweeps[s] \in SweepRecord BY <1>t DEF SweepsOK
      <4>. QED BY <3>2, <4>1 DEF SweepRecord
    <3>. QED BY <3>1, <3>2
  <2>3. a \in sweeps[s].deleted => SyncsFail BY <2>1 DEF SweepFine, IsUnsynced, Unsynced
  <2>. QED BY <2>1, <2>2, <2>3, <1>3, <1>6 DEF SweepFine
<1>8. (CommitsMeetSweeps \/ KeptFor(a))' BY <1>1, <1>2, <1>t DEF ArtifactFine, KeptFor, IsOpen
<1>9. FoundFor(a)' BY <1>2, <1>3 DEF FoundFor
<1>. QED BY <1>4, <1>5, <1>7, <1>8, <1>9 DEF ArtifactFine

(* So for the one who closed the batch.                                    *)
LEMMA SyncsAfterCloseFine ==
  ASSUME IInv, NEW a \in Artifact, SyncsAfterClose(a)
  PROVE  \A b \in Artifact : ArtifactFine(b)'
BY SyncedFine DEF SyncsAfterClose, Regards, ingestVars

(* So for a sweep, which then takes the artifact off its list.             *)
LEMMA SweepSyncsFine ==
  ASSUME IInv, NEW s \in Sweep, SweepSyncs(s)
  PROVE  \A b \in Artifact : ArtifactFine(b)'
<1>t. TypeInv /\ SweepsOK BY DEF IInv, TypeInv
<1>1. PICK a \in sweeps[s].syncs :
        /\ sweeps' = [sweeps EXCEPT ![s].syncs = @ \ {a}]
        /\ \/ a \in Unsynced /\ Synced(a)
           \/ (SyncsFail \/ a \notin Unsynced) /\ UNCHANGED <<rowVars, dirs>>
  BY DEF SweepSyncs
<1>2. a \in Artifact BY <1>t DEF SweepsOK, SweepRecord
<1>3. UNCHANGED <<jobs, ingests, copies>> BY DEF SweepSyncs, ingestVars
<1>4. /\ sweeps'[s] = [sweeps[s] EXCEPT !.syncs = @ \ {a}]
      /\ \A u \in Sweep \ {s} : sweeps'[u] = sweeps[u]
  BY <1>1, <1>t DEF SweepsOK
<1>5. ASSUME NEW u \in Sweep, NEW b \in Artifact,
             u # s \/ b # a \/ SyncsFail \/ b \notin Unsynced
      PROVE  Regards(u, b)
  <2>1. CASE u # s BY <1>4, <2>1 DEF Regards
  <2>2. CASE u = s
    BY <1>4, <1>5, <2>2, <1>t DEF Regards, SweepsOK, SweepRecord, Unsynced, IsUnsynced
  <2>. QED BY <2>1, <2>2
<1>6. CASE a \in Unsynced /\ Synced(a)
  <2>1. \A u \in Sweep : Regards(u, a) \/ sweeps'[u] = [sweeps[u] EXCEPT !.syncs = @ \ {a}]
    BY <1>2, <1>4, <1>5
  <2>2. \A u \in Sweep : \A b \in Artifact \ {a} : Regards(u, b) BY <1>5
  <2>. QED BY <1>2, <1>3, <1>6, <2>1, <2>2, SyncedFine
<1>7. CASE (SyncsFail \/ a \notin Unsynced) /\ UNCHANGED <<rowVars, dirs>>
  <2>1. ASSUME NEW b \in Artifact PROVE ArtifactFine(b)'
    <3>1. Same(b) BY <1>3, <1>7 DEF Same, rowVars
    <3>2. \A u \in Sweep : Regards(u, b) BY <1>5, <1>7
    <3>3. ArtifactFine(b) BY DEF IInv
    <3>. QED BY <1>3, <3>1, <3>2, <3>3, RegardsFine, OnlySweepsFine DEF ArtifactFine
  <2>. QED BY <2>1
<1>. QED BY <1>1, <1>6, <1>7

(* What a sweep lists to delete is committed, expired and of a closed      *)
(* batch; what is unsynced of it is on the other list.                     *)
LEMMA SweepListsFine ==
  ASSUME IInv, NEW s \in Sweep, SweepLists(s)
  PROVE  \A b \in Artifact : ArtifactFine(b)'
<1>t. TypeInv /\ SweepsOK /\ JobsOK /\ RowsOK BY DEF IInv, TypeInv
<1>u. UNCHANGED <<jobs, rows, ingests, dirs, copies>> BY DEF SweepLists, rowVars, ingestVars
<1>1. PICK page \in SUBSET Deletable :
        sweeps' = [sweeps EXCEPT ![s] =
                     [NoSweep EXCEPT !.at = "syncing", !.expired = page, !.syncs = Unsynced]]
  BY DEF SweepLists
<1>2. /\ sweeps'[s].expired = page /\ sweeps'[s].syncs = Unsynced
      /\ sweeps'[s].stale = {} /\ sweeps'[s].seen = {} /\ sweeps'[s].empty = {}
      /\ sweeps'[s].deleted = {}
      /\ \A u \in Sweep \ {s} : sweeps'[u] = sweeps[u]
  BY <1>1, <1>t DEF SweepsOK, NoSweep
<1>3. ASSUME NEW b \in Artifact PROVE ArtifactFine(b)'
  <2>1. ArtifactFine(b) /\ Same(b) BY <1>u DEF IInv, Same
  <2>2. ASSUME NEW u \in Sweep, u # s PROVE SweepFine(u, b)'
    BY <1>2, <1>u, <2>1, <2>2, RegardsFine DEF ArtifactFine, Regards
  <2>3. SweepFine(s, b)'
    <3>1. CASE b \in page
      <4>1. rows[b].present /\ rows[b].left = 0 /\ jobs[JobOf[b]] # "open"
        BY <3>1 DEF Deletable, IsOpen
      <4>2. copies[b].at \in Landed /\ jobs[JobOf[b]] = "closed"
        BY <2>1, <4>1, <1>t, Bounds DEF ArtifactFine, CopyFine, JobsOK
      <4>3. b \in Unsynced \/ ~IsUnsynced(b) BY DEF Unsynced, IsUnsynced
      <4>. QED BY <1>2, <1>u, <3>1, <4>1, <4>2, <4>3 DEF SweepFine, IsUnsynced
    <3>2. CASE b \notin page BY <1>2, <3>2 DEF SweepFine
    <3>. QED BY <3>1, <3>2
  <2>. QED BY <1>u, <2>1, <2>2, <2>3, OnlySweepsFine
<1>. QED BY <1>3

(* A sweep removes the directory of an expired artifact after the last     *)
(* manifest was written.                                                   *)
LEMMA SweepRemovesFine ==
  ASSUME IInv, NEW s \in Sweep, SweepRemoves(s)
  PROVE  \A b \in Artifact : ArtifactFine(b)'
<1>t. TypeInv /\ SweepsOK /\ DirsOK BY DEF IInv, TypeInv
<1>w. sweeps[s] \in SweepRecord BY <1>t DEF SweepsOK
<1>u. UNCHANGED <<jobs, rows, ingests, copies>> /\ sweeps[s].syncs = {}
  BY DEF SweepRemoves, rowVars, ingestVars
<1>1. CASE \E a \in sweeps[s].expired \intersect Stuck :
             /\ sweeps' = [sweeps EXCEPT ![s].expired = @ \ {a}]
             /\ dirs' = dirs
  <2>1. ASSUME NEW b \in Artifact, NEW u \in Sweep PROVE Regards(u, b)
    BY <1>1, <1>t, <1>u, <1>w DEF Regards, SweepsOK, SweepRecord
  <2>2. ASSUME NEW b \in Artifact PROVE Same(b) /\ ArtifactFine(b)
    BY <1>1, <1>u DEF Same, IInv
  <2>. QED BY <1>u, <2>1, <2>2, RegardsFine, OnlySweepsFine DEF ArtifactFine
<1>2. CASE \E a \in sweeps[s].expired \ Stuck :
             /\ dirs' = [dirs EXCEPT ![a] = NoDir]
             /\ sweeps' = [sweeps EXCEPT ![s].expired = @ \ {a}, ![s].deleted = @ \union {a}]
  <2>1. PICK a \in sweeps[s].expired :
           /\ dirs' = [dirs EXCEPT ![a] = NoDir]
           /\ sweeps' = [sweeps EXCEPT ![s].expired = @ \ {a}, ![s].deleted = @ \union {a}]
    BY <1>2
  <2>2. a \in Artifact BY <1>w DEF SweepRecord
  <2>3. /\ sweeps'[s].expired = sweeps[s].expired \ {a}
        /\ sweeps'[s].deleted = sweeps[s].deleted \union {a}
        /\ sweeps'[s].stale = sweeps[s].stale /\ sweeps'[s].seen = sweeps[s].seen
        /\ sweeps'[s].empty = sweeps[s].empty /\ sweeps'[s].syncs = sweeps[s].syncs
        /\ \A u \in Sweep \ {s} : sweeps'[u] = sweeps[u]
    BY <2>1, <1>t, <1>w DEF SweepsOK, SweepRecord
  <2>4. ~dirs'[a].exists /\ \A b \in Artifact \ {a} : dirs'[b] = dirs[b]
    BY <2>1, <2>2, <1>t DEF DirsOK, NoDir
  <2>5. ASSUME NEW b \in Artifact, b # a PROVE ArtifactFine(b)'
    <3>1. Same(b) /\ ArtifactFine(b) BY <1>u, <2>4, <2>5 DEF Same, IInv
    <3>2. \A u \in Sweep : Regards(u, b) BY <2>3, <2>5 DEF Regards
    <3>. QED BY <1>u, <3>1, <3>2, RegardsFine, OnlySweepsFine DEF ArtifactFine
  <2>6. ArtifactFine(a)'
    <3>1. ArtifactFine(a) BY <2>2 DEF IInv
    <3>2. /\ copies[a].at \in Landed /\ jobs[JobOf[a]] = "closed" /\ rows[a].left = 0
          /\ SyncsFail \/ ~IsUnsynced(a)
      BY <2>1, <3>1, <1>u DEF ArtifactFine, SweepFine
    <3>3. CopyFine(a)' BY <1>u, <2>4, <3>1, <3>2 DEF ArtifactFine, CopyFine, Landed, Alive, Underway
    <3>4. ASSUME NEW u \in Sweep PROVE SweepFine(u, a)'
      <4>1. SweepFine(u, a) BY <3>1 DEF ArtifactFine
      <4>2. CASE u = s BY <1>u, <2>3, <2>4, <3>2, <4>1, <4>2 DEF SweepFine, IsUnsynced
      <4>3. CASE u # s BY <1>u, <2>3, <2>4, <3>2, <4>1, <4>3 DEF SweepFine, IsUnsynced
      <4>. QED BY <4>2, <4>3
    <3>5. KeptFor(a)' BY <1>u, <3>2 DEF KeptFor, IsOpen
    <3>6. FoundFor(a)' BY <2>4 DEF FoundFor
    <3>. QED BY <3>3, <3>4, <3>5, <3>6 DEF ArtifactFine
  <2>. QED BY <2>5, <2>6
<1>. QED BY <1>1, <1>2 DEF SweepRemoves

(* An ingest is stale only when its copy has had time to make its          *)
(* directory.                                                              *)
LEMMA SweepListsIngestsFine ==
  ASSUME IInv, NEW s \in Sweep, SweepListsIngests(s)
  PROVE  \A b \in Artifact : ArtifactFine(b)'
<1>t. TypeInv /\ SweepsOK BY DEF IInv, TypeInv
<1>w. sweeps[s] \in SweepRecord BY <1>t DEF SweepsOK
<1>u. UNCHANGED <<jobs, rows, ingests, dirs, copies>> BY DEF SweepListsIngests, rowVars, ingestVars
<1>1. PICK page \in SUBSET StaleIngests :
        sweeps' = [sweeps EXCEPT ![s].at = "checking", ![s].stale = page]
  BY DEF SweepListsIngests
<1>2. /\ sweeps'[s].stale = page /\ sweeps'[s].seen = sweeps[s].seen
      /\ sweeps'[s].empty = sweeps[s].empty /\ sweeps'[s].expired = sweeps[s].expired
      /\ sweeps'[s].deleted = sweeps[s].deleted /\ sweeps'[s].syncs = sweeps[s].syncs
      /\ \A u \in Sweep \ {s} : sweeps'[u] = sweeps[u]
  BY <1>1, <1>t, <1>w DEF SweepsOK, SweepRecord
<1>3. ASSUME NEW b \in Artifact PROVE ArtifactFine(b)'
  <2>1. ArtifactFine(b) /\ Same(b) BY <1>u DEF IInv, Same
  <2>2. ASSUME NEW u \in Sweep, u # s PROVE SweepFine(u, b)'
    BY <1>2, <1>u, <2>1, <2>2, RegardsFine DEF ArtifactFine, Regards
  <2>3. b \in page => copies[b].at \notin {"idle", "begun"}
    BY <2>1, Bounds DEF StaleIngests, ArtifactFine, CopyFine
  <2>4. SweepFine(s, b)'
    <3>1. SweepFine(s, b) BY <2>1 DEF ArtifactFine
    <3>. QED BY <1>2, <1>u, <2>3, <3>1 DEF SweepFine, IsUnsynced
  <2>. QED BY <1>u, <2>1, <2>2, <2>4, OnlySweepsFine
<1>. QED BY <1>3

(* The look for a row: an ingest goes only when the row is there.          *)
LEMMA LooksForRowFine ==
  ASSUME IInv, NEW s \in Sweep, NEW a \in Artifact, LooksForRow(s, a)
  PROVE  \A b \in Artifact : ArtifactFine(b)'
<1>t. TypeInv /\ SweepsOK /\ IngestsOK /\ ArtifactFine(a) BY DEF IInv, TypeInv
<1>w. sweeps[s] \in SweepRecord BY <1>t DEF SweepsOK
<1>u. UNCHANGED <<jobs, rows, dirs, copies>> /\ a \in sweeps[s].stale
      /\ sweeps[s].seen = {} /\ sweeps[s].empty = {}
  BY DEF LooksForRow, rowVars
<1>1. /\ \A u \in Sweep \ {s} : sweeps'[u] = sweeps[u]
      /\ sweeps'[s].stale \subseteq sweeps[s].stale /\ sweeps'[s].empty = {}
      /\ sweeps'[s].seen \subseteq {a} /\ (rows[a].present => sweeps'[s].seen = {})
      /\ sweeps'[s].expired = sweeps[s].expired
      /\ sweeps'[s].deleted = sweeps[s].deleted /\ sweeps'[s].syncs = sweeps[s].syncs
  BY <1>t, <1>u, <1>w DEF LooksForRow, SweepsOK, SweepRecord
<1>2. /\ \A b \in Artifact \ {a} : ingests'[b] = ingests[b]
      /\ ingests'[a] # ingests[a] => rows[a].present
  BY <1>t DEF LooksForRow, DropsIngest, ingestVars, IngestsOK
<1>3. ASSUME NEW b \in Artifact, b # a PROVE ArtifactFine(b)'
  <2>1. Same(b) /\ ArtifactFine(b) BY <1>2, <1>3, <1>u DEF Same, IInv
  <2>2. \A u \in Sweep : Regards(u, b) BY <1>1, <1>3 DEF Regards
  <2>. QED BY <1>u, <2>1, <2>2, RegardsFine, OnlySweepsFine DEF ArtifactFine
<1>4. ArtifactFine(a)'
  <2>1. CopyFine(a)'
    BY <1>2, <1>u, <1>t DEF ArtifactFine, CopyFine, LooksForRow, DropsIngest, NoIngest, IngestsOK,
                            Landed, Alive
  <2>2. ASSUME NEW u \in Sweep PROVE SweepFine(u, a)'
    <3>1. SweepFine(u, a) BY <1>t DEF ArtifactFine
    <3>2. CASE u # s BY <1>1, <1>u, <3>1, <3>2 DEF SweepFine, IsUnsynced
    <3>3. CASE u = s BY <1>1, <1>u, <3>1, <3>3 DEF SweepFine, IsUnsynced
    <3>. QED BY <3>2, <3>3
  <2>3. (CommitsMeetSweeps \/ KeptFor(a))' BY <1>t, <1>u DEF ArtifactFine, KeptFor, IsOpen
  <2>4. (SyncsFail \/ FoundFor(a))' BY <1>2, <1>t, <1>u DEF ArtifactFine, FoundFor
  <2>. QED BY <2>1, <2>2, <2>3, <2>4 DEF ArtifactFine
<1>. QED BY <1>3, <1>4

(* Touching an ingest neither makes nor removes one.                       *)
LEMMA TouchesFacts ==
  ASSUME IngestsOK, NEW a \in Artifact, TouchesIngest(a) \/ UNCHANGED ingestVars
  PROVE  /\ \A b \in Artifact \ {a} : ingests'[b] = ingests[b]
         /\ ingests'[a].present = ingests[a].present
         /\ ingests'[a] # ingests[a] => ingests'[a].updated = 0
<1>1. CASE ingests' = ingests BY <1>1
<1>2. CASE PutsIngest(a) /\ ingests[a].present
  <2>1. /\ ingests'[a] = [present |-> TRUE, updated |-> 0]
        /\ \A b \in Artifact \ {a} : ingests'[b] = ingests[b]
    BY <1>2 DEF PutsIngest, IngestsOK
  <2>2. ingests[a].present \in BOOLEAN BY DEF IngestsOK, IngestRecord
  <2>. QED BY <1>2, <2>1, <2>2
<1>. QED BY <1>1, <1>2 DEF TouchesIngest, ingestVars

(* The look at the marker: without a recent one the copy is not alive.     *)
LEMMA LooksAtMarkerFine ==
  ASSUME IInv, NEW s \in Sweep, NEW a \in Artifact, LooksAtMarker(s, a)
  PROVE  \A b \in Artifact : ArtifactFine(b)'
<1>t. TypeInv /\ SweepsOK /\ IngestsOK /\ DirsOK /\ ArtifactFine(a) BY DEF IInv, TypeInv
<1>w. sweeps[s] \in SweepRecord BY <1>t DEF SweepsOK
<1>u. UNCHANGED <<jobs, rows, dirs, copies>> /\ a \in sweeps[s].seen
  BY DEF LooksAtMarker, rowVars
<1>1. /\ \A u \in Sweep \ {s} : sweeps'[u] = sweeps[u]
      /\ sweeps'[s].stale = sweeps[s].stale /\ sweeps'[s].seen = {}
      /\ sweeps'[s].empty \subseteq sweeps[s].empty \union {a}
      /\ a \in sweeps'[s].empty => a \in sweeps[s].empty \/ ~ActiveOrTooRecent(a)
      /\ sweeps'[s].expired = sweeps[s].expired
      /\ sweeps'[s].deleted = sweeps[s].deleted /\ sweeps'[s].syncs = sweeps[s].syncs
  BY <1>t, <1>u, <1>w DEF LooksAtMarker, SweepsOK, SweepRecord
<1>2. /\ \A b \in Artifact \ {a} : ingests'[b] = ingests[b]
      /\ ingests'[a].present = ingests[a].present
      /\ ingests'[a] # ingests[a] => ingests'[a].updated = 0
  BY <1>t, TouchesFacts DEF LooksAtMarker
<1>3. ASSUME NEW b \in Artifact, b # a PROVE ArtifactFine(b)'
  <2>1. Same(b) /\ ArtifactFine(b) BY <1>2, <1>3, <1>u DEF Same, IInv
  <2>2. \A u \in Sweep : Regards(u, b) BY <1>1, <1>3 DEF Regards
  <2>. QED BY <1>u, <2>1, <2>2, RegardsFine, OnlySweepsFine DEF ArtifactFine
<1>4. ArtifactFine(a)'
  <2>1. CopyFine(a)' BY <1>2, <1>u, <1>t DEF ArtifactFine, CopyFine
  <2>2. SweepFine(s, a) BY <1>t DEF ArtifactFine
  <2>3. copies[a].at \notin {"idle", "begun"} /\ (CommitsMeetSweeps \/ ~rows[a].present)
    BY <1>u, <2>2 DEF SweepFine
  <2>4. ~ActiveOrTooRecent(a) => copies[a].at \notin Underway
    <3>1. CASE copies[a].at \in Underway
      <4>1. dirs[a].marker \in 0 .. MaxSilence BY <3>1, <1>t DEF ArtifactFine, CopyFine
      <4>. QED BY <4>1, Bounds DEF ActiveOrTooRecent, None
    <3>. QED BY <3>1
  <2>5. ASSUME NEW u \in Sweep PROVE SweepFine(u, a)'
    <3>1. SweepFine(u, a) BY <1>t DEF ArtifactFine
    <3>2. CASE u # s BY <1>1, <1>u, <3>1, <3>2 DEF SweepFine, IsUnsynced
    <3>3. CASE u = s
      <4>1. a \in sweeps'[s].empty => copies[a].at \notin Alive \union {"idle"}
        BY <1>1, <2>2, <2>3, <2>4 DEF SweepFine, Alive, Underway
      <4>. QED BY <1>1, <1>u, <2>3, <3>1, <3>3, <4>1 DEF SweepFine, IsUnsynced
    <3>. QED BY <3>2, <3>3
  <2>6. (CommitsMeetSweeps \/ KeptFor(a))' BY <1>t, <1>u DEF ArtifactFine, KeptFor, IsOpen
  <2>7. (SyncsFail \/ FoundFor(a))' BY <1>2, <1>t, <1>u DEF ArtifactFine, FoundFor
  <2>. QED BY <2>1, <2>5, <2>6, <2>7 DEF ArtifactFine
<1>. QED BY <1>3, <1>4

(* A stale directory: its copy is not alive, no row has come in between,   *)
(* and the ingest goes after the directory.                                *)
LEMMA RemovesStaleFine ==
  ASSUME IInv, NEW s \in Sweep, NEW a \in Artifact, RemovesStale(s, a)
  PROVE  \A b \in Artifact : ArtifactFine(b)'
<1>t. TypeInv /\ SweepsOK /\ IngestsOK /\ DirsOK /\ ArtifactFine(a) BY DEF IInv, TypeInv
<1>w. sweeps[s] \in SweepRecord BY <1>t DEF SweepsOK
<1>u. UNCHANGED <<jobs, rows, copies>> /\ a \in sweeps[s].empty
  BY DEF RemovesStale, rowVars
<1>1. /\ \A u \in Sweep \ {s} : sweeps'[u] = sweeps[u]
      /\ sweeps'[s].stale = sweeps[s].stale /\ sweeps'[s].seen = sweeps[s].seen
      /\ sweeps'[s].empty \subseteq sweeps[s].empty
      /\ sweeps'[s].expired = sweeps[s].expired
      /\ sweeps'[s].deleted = sweeps[s].deleted /\ sweeps'[s].syncs = sweeps[s].syncs
  BY <1>t, <1>u, <1>w DEF RemovesStale, SweepsOK, SweepRecord
<1>2. /\ \A b \in Artifact \ {a} : ingests'[b] = ingests[b] /\ dirs'[b] = dirs[b]
      /\ dirs' = dirs \/ ~dirs'[a].exists
      /\ ingests'[a].present = ingests[a].present \/ ~dirs'[a].exists
  <2>1. CASE TouchesIngest(a) /\ UNCHANGED dirs BY <2>1, <1>t, TouchesFacts
  <2>2. CASE dirs' = [dirs EXCEPT ![a] = NoDir] /\ UNCHANGED ingests
    BY <2>2, <1>t DEF DirsOK, NoDir
  <2>3. CASE DropsIngest(a) /\ UNCHANGED dirs /\ ~dirs[a].exists
    BY <2>3, <1>t DEF DropsIngest, IngestsOK
  <2>. QED BY <2>1, <2>2, <2>3 DEF RemovesStale, ingestVars
<1>3. ASSUME NEW b \in Artifact, b # a PROVE ArtifactFine(b)'
  <2>1. Same(b) /\ ArtifactFine(b) BY <1>2, <1>3, <1>u DEF Same, IInv
  <2>2. \A u \in Sweep : Regards(u, b) BY <1>1, <1>3 DEF Regards
  <2>. QED BY <1>u, <2>1, <2>2, RegardsFine, OnlySweepsFine DEF ArtifactFine
<1>4. ArtifactFine(a)'
  <2>1. SweepFine(s, a) BY <1>t DEF ArtifactFine
  <2>2. copies[a].at \notin Alive \union {"idle"} /\ (CommitsMeetSweeps \/ ~rows[a].present)
    BY <1>u, <2>1 DEF SweepFine
  <2>3. ~dirs[a].exists => ~dirs'[a].exists BY <1>2
  <2>4. CopyFine(a)'
    BY <1>2, <1>u, <1>t, <2>2, <2>3 DEF ArtifactFine, CopyFine, Alive, Underway
  <2>5. ASSUME NEW u \in Sweep PROVE SweepFine(u, a)'
    <3>1. SweepFine(u, a) BY <1>t DEF ArtifactFine
    <3>2. CASE u # s BY <1>1, <1>u, <2>3, <3>1, <3>2 DEF SweepFine, IsUnsynced
    <3>3. CASE u = s BY <1>1, <1>u, <2>3, <3>1, <3>3 DEF SweepFine, IsUnsynced
    <3>. QED BY <3>2, <3>3
  <2>6. (CommitsMeetSweeps \/ KeptFor(a))' BY <1>u, <2>2 DEF KeptFor
  <2>7. (SyncsFail \/ FoundFor(a))' BY <1>2, <1>t, <1>u DEF ArtifactFine, FoundFor
  <2>. QED BY <2>4, <2>5, <2>6, <2>7 DEF ArtifactFine
<1>. QED BY <1>3, <1>4

(* The rows a sweep deletes are those whose directories it has removed.    *)
LEMMA SweepEndsFine ==
  ASSUME IInv, NEW s \in Sweep, SweepEnds(s)
  PROVE  \A b \in Artifact : ArtifactFine(b)'
<1>t. TypeInv /\ SweepsOK /\ RowsOK BY DEF IInv, TypeInv
<1>u. UNCHANGED <<jobs, ingests, dirs, copies>>
  BY DEF SweepEnds, SweepDeletes, SweepDies, ingestVars
<1>1. sweeps'[s] = NoSweep /\ \A u \in Sweep \ {s} : sweeps'[u] = sweeps[u]
  BY <1>t DEF SweepEnds, SweepDeletes, SweepDies, SweepsOK
<1>2. ASSUME NEW b \in Artifact, rows'[b] = rows[b] PROVE ArtifactFine(b)'
  <2>1. Same(b) /\ ArtifactFine(b) BY <1>2, <1>u DEF Same, IInv
  <2>2. \A u \in Sweep : Regards(u, b) BY <1>1 DEF Regards, NoSweep
  <2>. QED BY <1>u, <2>1, <2>2, RegardsFine, OnlySweepsFine DEF ArtifactFine
<1>3. ASSUME NEW b \in Artifact, rows'[b] # rows[b] PROVE ArtifactFine(b)'
  <2>1. b \in sweeps[s].deleted /\ rows'[b] = [rows[b] EXCEPT !.present = FALSE]
    BY <1>3 DEF SweepEnds, SweepDeletes, SweepDies, rowVars
  <2>2. ~rows'[b].present /\ rows'[b].left = rows[b].left
    BY <2>1, <1>t DEF RowsOK, RowRecord
  <2>3. ArtifactFine(b) BY DEF IInv
  <2>4. CopyFine(b)' BY <2>2, <2>3, <1>u DEF ArtifactFine, CopyFine
  <2>5. SyncsFail \/ ~dirs[b].exists BY <2>1, <2>3 DEF ArtifactFine, SweepFine
  <2>6. ASSUME NEW u \in Sweep PROVE SweepFine(u, b)'
    <3>1. SweepFine(u, b) BY <2>3 DEF ArtifactFine
    <3>2. CASE u = s BY <1>1, <3>2 DEF SweepFine, NoSweep
    <3>3. CASE u # s BY <1>1, <1>u, <2>2, <2>5, <3>1, <3>3 DEF SweepFine, IsUnsynced
    <3>. QED BY <3>2, <3>3
  <2>7. KeptFor(b)' BY <2>2 DEF KeptFor
  <2>8. (SyncsFail \/ FoundFor(b))' BY <2>5, <1>u DEF FoundFor
  <2>. QED BY <2>4, <2>6, <2>7, <2>8 DEF ArtifactFine
<1>. QED BY <1>2, <1>3

(* Time passes: no copy alive grows silent.                                *)
LEMMA TickFine ==
  ASSUME IInv, Tick
  PROVE  \A b \in Artifact : ArtifactFine(b)'
<1>t. TypeInv /\ RowsOK /\ IngestsOK /\ DirsOK /\ CopiesOK BY DEF IInv, TypeInv
<1>u. UNCHANGED <<jobs, sweeps>> BY DEF Tick
<1>1. ASSUME NEW b \in Artifact PROVE ArtifactFine(b)'
  <2>1. /\ rows'[b].present = rows[b].present /\ rows'[b].synced = rows[b].synced
        /\ rows'[b].version = rows[b].version /\ rows'[b].left = Sooner(rows[b].left)
    BY <1>t DEF Tick, RowsOK, RowRecord
  <2>2. /\ ingests'[b].present = ingests[b].present
        /\ ~ingests[b].present => ingests'[b].updated = ingests[b].updated
    BY <1>t DEF Tick, IngestsOK, IngestRecord
  <2>3. /\ dirs'[b].exists = dirs[b].exists /\ dirs'[b].payload = dirs[b].payload
        /\ dirs'[b].marker = Older(dirs[b].marker)
    BY <1>t DEF Tick, DirsOK, DirRecord
  <2>4. copies'[b].at = copies[b].at BY <1>t DEF Tick, CopiesOK, CopyRecord
  <2>5. /\ rows[b].left \in 0 .. PostCloseTtl /\ (rows[b].left = 0 => rows'[b].left = 0)
    BY <2>1, <1>t, Bounds, Ages DEF RowsOK, RowRecord
  <2>6. copies[b].at # "begun" /\ (copies[b].at \in Alive => dirs[b].marker < MaxSilence)
    BY DEF Tick, Prompt
  <2>7. copies[b].at \in Underway => dirs[b].exists /\ dirs'[b].marker \in 0 .. MaxSilence
    <3>1. CASE copies[b].at \in Underway
      <4>1. dirs[b].exists /\ dirs[b].marker \in 0 .. MaxSilence
        BY <3>1 DEF IInv, ArtifactFine, CopyFine
      <4>2. dirs[b].marker < MaxSilence BY <2>6, <3>1 DEF Alive, Underway
      <4>. QED BY <2>3, <4>1, <4>2, Ages, Bounds DEF Age
    <3>. QED BY <3>1
  <2>8. ArtifactFine(b) BY DEF IInv
  <2>9. CopyFine(b)'
    BY <1>u, <2>1, <2>2, <2>3, <2>4, <2>6, <2>7, <2>8 DEF ArtifactFine, CopyFine
  <2>10. ASSUME NEW u \in Sweep PROVE SweepFine(u, b)'
    <3>1. SweepFine(u, b) BY <2>8 DEF ArtifactFine
    <3>. QED BY <1>u, <2>1, <2>3, <2>4, <2>5, <3>1 DEF SweepFine, IsUnsynced
  <2>11. (CommitsMeetSweeps \/ KeptFor(b))'
    BY <1>u, <2>1, <2>3, <2>5, <2>8 DEF ArtifactFine, KeptFor, IsOpen
  <2>12. (SyncsFail \/ FoundFor(b))' BY <2>1, <2>2, <2>3, <2>8 DEF ArtifactFine, FoundFor
  <2>. QED BY <2>9, <2>10, <2>11, <2>12 DEF ArtifactFine
<1>. QED BY <1>1

(* The invariant holds in every reachable state.                           *)
LEMMA IInvHolds == Spec => []IInv
<1>1. Init => IInv
  <2>. SUFFICES ASSUME Init PROVE IInv OBVIOUS
  <2>1. TypeInv BY TypeInvInit
  <2>2. ASSUME NEW a \in Artifact PROVE ArtifactFine(a)
    <3>1. CopyFine(a) BY DEF Init, CopyFine, NoIngest, NoDir, Landed, Alive, Underway
    <3>2. \A s \in Sweep : SweepFine(s, a) BY DEF Init, SweepFine, NoSweep
    <3>3. KeptFor(a) /\ FoundFor(a) BY DEF Init, KeptFor, FoundFor, NoDir
    <3>. QED BY <3>1, <3>2, <3>3 DEF ArtifactFine
  <2>. QED BY <2>1, <2>2 DEF IInv
<1>2. IInv /\ [Next]_vars => IInv'
  <2>. SUFFICES ASSUME IInv, [Next]_vars PROVE IInv' OBVIOUS
  <2>1. TypeInv' BY TypeInvStep DEF IInv
  <2>2. CASE \E a \in Artifact : CopyStarts(a) \/ CopyEnds(a)
    BY <2>1, <2>2, CopyStartsFine, GivesUpCopyFine, CommitsFine DEF CopyEnds, GivesUpCopy, IInv
  <2>3. CASE JobNext
    BY <2>1, <2>3, JobsFine, ClosesBatchFine, SyncsAfterCloseFine DEF JobNext, IInv
  <2>4. CASE Tick BY <2>1, <2>4, TickFine DEF IInv
  <2>5. ASSUME NEW s \in Sweep, SweepBegins(s) PROVE IInv'
    BY <2>1, <2>5, SweepListsFine, SweepSyncsFine, SweepRemovesFine, SweepListsIngestsFine
       DEF SweepBegins, IInv
  <2>6. ASSUME NEW s \in Sweep, NEW a \in Artifact,
               LooksForRow(s, a) \/ LooksAtMarker(s, a) \/ RemovesStale(s, a)
        PROVE  IInv'
    BY <2>1, <2>6, LooksForRowFine, LooksAtMarkerFine, RemovesStaleFine DEF IInv
  <2>7. ASSUME NEW s \in Sweep, SweepEnds(s) PROVE IInv' BY <2>1, <2>7, SweepEndsFine DEF IInv
  <2>8. CASE UNCHANGED vars
    <3>1. TypeInv BY DEF IInv
    <3>2. ASSUME NEW a \in Artifact PROVE ArtifactFine(a)'
      <4>1. Same(a) /\ UNCHANGED <<sweeps, jobs>> BY <2>8 DEF vars, rowVars, ingestVars, Same
      <4>. QED BY <3>1, <4>1, SameFine DEF JobStaysOrOpens, IInv
    <3>. QED BY <2>1, <3>2 DEF IInv
  <2>. QED BY <2>2, <2>3, <2>4, <2>5, <2>6, <2>7, <2>8, NextParts
<1>. QED BY <1>1, <1>2, PTL DEF Spec

(* Unless a commit falls between the two looks of a sweep at a row and at  *)
(* its marker, an artifact has its payload for as long as its batch is     *)
(* open and for 72 hours after (src/artifact.rs,                           *)
(* cleanup_stale_artifact_ingests; src/store.rs, complete_job), whatever   *)
(* copies and sweeps die half-way.                                         *)
THEOREM KeptWhileNeededAlways == ~CommitsMeetSweeps => (Spec => []KeptWhileNeeded)
<1>. SUFFICES ASSUME ~CommitsMeetSweeps PROVE Spec => []KeptWhileNeeded OBVIOUS
<1>1. IInv => KeptWhileNeeded BY DEF IInv, ArtifactFine, KeptFor, KeptWhileNeeded
<1>. QED BY <1>1, IInvHolds, PTL

(* Unless writing a manifest fails, every directory in the store has a row *)
(* of artifacts or of artifact_ingests that leads to it (src/artifact.rs,  *)
(* sweep), so that a later sweep can collect it.                           *)
THEOREM NoOrphanDirAlways == ~SyncsFail => (Spec => []NoOrphanDir)
<1>. SUFFICES ASSUME ~SyncsFail PROVE Spec => []NoOrphanDir OBVIOUS
<1>1. IInv => NoOrphanDir BY DEF IInv, ArtifactFine, FoundFor, NoOrphanDir
<1>. QED BY <1>1, IInvHolds, PTL
===============================================================================
