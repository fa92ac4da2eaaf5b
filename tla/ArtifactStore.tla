---------------------------- MODULE ArtifactStore ----------------------------
(***************************************************************************)
(* The managed store of result files (src/artifact.rs, src/store.rs).      *)
(* Whoever completes a job copies its result into a directory of its own   *)
(* and then commits an artifact row together with the end of the job and   *)
(* its batch.  A row of artifact_ingests and a marker file in the          *)
(* directory say that a copy is under way; sweeps collect the directories  *)
(* of copies that died and of artifacts that nobody needs any more.        *)
(* Database and directories are changed one after the other, by processes  *)
(* that may die in between.                                                *)
(*                                                                         *)
(* Times are ages: a tick makes all of them older, up to where it no       *)
(* longer matters, so that time may pass for ever.                         *)
(***************************************************************************)
EXTENDS Integers, FiniteSets, Sequences

CONSTANTS
  Artifact,      \* artifact ids; one is drawn for each copy
  Job,
  JobOf,         \* [Artifact -> Job], the job that the artifact is for
  Sweep,         \* sweeps that may run at a time: daemon, start-up, command
  Grace,         \* ORPHAN_ARTIFACT_GRACE_SECONDS
  MaxSilence,    \* how old the marker of a copy that is alive can get
  MinTtl,        \* MIN_ARTIFACT_TTL_SECONDS
  PostCloseTtl,  \* POST_CLOSE_ARTIFACT_TTL_SECONDS
  PageLimit,     \* MAX_DELETABLE_ARTIFACTS_PER_SWEEP and its like
  Stuck,         \* artifacts whose directory cannot be removed
  MaxDeaths,     \* bound on the copies and sweeps that die
  SyncsFail,     \* writing a manifest may fail, again and again
  CommitsMeetSweeps  \* a commit may fall between two looks of a sweep

ASSUME ArtifactAssumption ==
  /\ {Grace, MinTtl, PostCloseTtl, PageLimit} \subseteq Nat \ {0}
  /\ MaxSilence \in 0 .. Grace - 1
  /\ MinTtl <= PostCloseTtl
  /\ Stuck \subseteq Artifact
  /\ JobOf \in [Artifact -> Job]
  /\ {SyncsFail, CommitsMeetSweeps} \subseteq BOOLEAN

VARIABLES
  jobs,     \* [Job -> state of the job and of the batch it inserted]
  rows,     \* [Artifact -> row of artifacts]
  ingests,  \* [Artifact -> row of artifact_ingests]
  tried,    \* artifacts in the order of gc_attempted_at
  updated,  \* ingests in the order of updated_at
  dirs,     \* [Artifact -> the artifact's directory]
  copies,   \* [Artifact -> process that brings the artifact in]
  sweeps,   \* [Sweep -> sweep under way]
  deaths    \* copies and sweeps that died; serves only as a bound

rowVars == <<rows, tried>>
ingestVars == <<ingests, updated>>
vars == <<jobs, rowVars, ingestVars, dirs, copies, sweeps, deaths>>

Age == 0 .. Grace
None == -1

(* left is retention_until as seen from now; version counts how often it   *)
(* was set, and synced and manifest say which one was written to the       *)
(* manifest, according to the row and in fact.                             *)
RowRecord ==
  [ present : BOOLEAN, left : 0 .. PostCloseTtl, version : 0 .. 1,
    synced : 0 .. 1 ]
IngestRecord == [present : BOOLEAN, updated : Age]
DirRecord ==
  [ exists : BOOLEAN, marker : Age \union {None}, payload : {"none", "tmp", "final"},
    manifest : {None, 0, 1} ]
CopyRecord ==
  [ at : {"idle", "begun", "copying", "renamed", "described", "committed", "refused",
          "emptied", "over"},
    left : 0 .. MinTtl ]
SweepRecord ==
  [ at : {"idle", "syncing", "checking"},
    syncs : SUBSET Artifact, expired : SUBSET Artifact, deleted : SUBSET Artifact,
    stale : SUBSET Artifact, seen : SUBSET Artifact, empty : SUBSET Artifact ]

NoIngest == [present |-> FALSE, updated |-> 0]
NoDir == [exists |-> FALSE, marker |-> None, payload |-> "none", manifest |-> None]
NoSweep ==
  [ at |-> "idle", syncs |-> {}, expired |-> {}, deleted |-> {}, stale |-> {},
    seen |-> {}, empty |-> {} ]

Init ==
  /\ jobs = [j \in Job |-> "pending"]
  /\ rows = [a \in Artifact |->
       [present |-> FALSE, left |-> 0, version |-> 0, synced |-> 0]]
  /\ ingests = [a \in Artifact |-> NoIngest]
  /\ tried = << >> /\ updated = << >>
  /\ dirs = [a \in Artifact |-> NoDir]
  /\ copies = [a \in Artifact |-> [at |-> "idle", left |-> MinTtl]]
  /\ sweeps = [s \in Sweep |-> NoSweep]
  /\ deaths = 0

(* Without a, and with a as the last.                                      *)
Without(order, a) == SelectSeq(order, LAMBDA x : x # a)
Latest(order, a) == Append(Without(order, a), a)

(* Rows of artifact_ingests are inserted, touched and deleted.             *)
PutsIngest(a) ==
  /\ ingests' = [ingests EXCEPT ![a] = [present |-> TRUE, updated |-> 0]]
  /\ updated' = Latest(updated, a)

(* A slip for the mutation runs: an ingest keeps its place in the order.   *)
TouchesNothing(a) == UNCHANGED ingestVars

TouchesIngest(a) == IF ingests[a].present THEN PutsIngest(a) ELSE UNCHANGED ingestVars

DropsIngest(a) ==
  /\ ingests' = [ingests EXCEPT ![a] = NoIngest]
  /\ updated' = Without(updated, a)

Alive == {"begun", "copying", "renamed", "described"}
IsOpen(j) == jobs[j] = "open"

(***************************************************************************)
(* Bringing a result in: close_task_job_with_result and `job complete`.    *)
(***************************************************************************)
Moves(a, from, to) == copies[a].at = from /\ copies' = [copies EXCEPT ![a].at = to]

Begins(a) ==
  /\ jobs[JobOf[a]] = "pending"
  /\ Moves(a, "idle", "begun")
  /\ PutsIngest(a)
  /\ UNCHANGED <<jobs, rowVars, dirs, sweeps>>

(* Writing a file into the directory makes the directory if need be.       *)
Writes(a, file, value) ==
  dirs' = [dirs EXCEPT ![a] = [[@ EXCEPT !.exists = TRUE] EXCEPT ![file] = value]]

OpensDir(a) ==
  /\ Moves(a, "begun", "copying")
  /\ dirs' = [dirs EXCEPT ![a] = [NoDir EXCEPT !.exists = TRUE, !.marker = 0, !.payload = "tmp"]]
  /\ UNCHANGED <<jobs, rowVars, ingestVars, sweeps>>

RefreshesMarker(a) ==
  /\ copies[a].at = "copying"
  /\ Writes(a, "marker", 0)
  /\ UNCHANGED <<jobs, rowVars, ingestVars, copies, sweeps>>

RenamesPayload(a) ==
  /\ dirs[a].payload = "tmp"
  /\ Moves(a, "copying", "renamed")
  /\ Writes(a, "payload", "final")
  /\ UNCHANGED <<jobs, rowVars, ingestVars, sweeps>>

WritesManifest(a) ==
  /\ Moves(a, "renamed", "described")
  /\ Writes(a, "manifest", 0)
  /\ UNCHANGED <<jobs, rowVars, ingestVars, sweeps>>

(* The copy fails: the directory is removed if possible, and the row is    *)
(* left for maintenance.                                                   *)
CopyFails(a) ==
  /\ Moves(a, "copying", "over") \/ Moves(a, "renamed", "over")
  /\ dirs' \in {dirs, [dirs EXCEPT ![a] = NoDir]} /\ (a \in Stuck => UNCHANGED dirs)
  /\ UNCHANGED <<jobs, rowVars, ingestVars, sweeps>>

(* A sweep has found no artifact row and is about to look at the marker.   *)
LookedFor(a) == \E s \in Sweep : a \in sweeps[s].seen

(* complete_job and fail_job_with_artifact, with the batch of the job.     *)
Commits(a) ==
  LET j == JobOf[a] IN
  /\ CommitsMeetSweeps \/ ~LookedFor(a)
  /\ jobs[j] = "pending"
  /\ Moves(a, "described", "committed")
  /\ jobs' = [jobs EXCEPT ![j] = "open"]
  /\ rows' = [rows EXCEPT ![a] = [@ EXCEPT !.present = TRUE, !.left = copies[a].left]]
  /\ UNCHANGED tried
  /\ DropsIngest(a)
  /\ UNCHANGED <<dirs, sweeps>>

(* The job was decided meanwhile, or the store has failed.                 *)
IsRefused(a) ==
  /\ Moves(a, "described", "refused")
  /\ UNCHANGED <<jobs, rowVars, ingestVars, dirs, sweeps>>

RemovesMarker(a) ==
  /\ Moves(a, "committed", "over")
  /\ dirs' = [dirs EXCEPT ![a].marker = None]
  /\ UNCHANGED <<jobs, rowVars, ingestVars, sweeps>>

(* A slip for the mutation runs: the row goes even if the directory stays. *)
RemovesCopyOrNot(a) ==
  /\ Moves(a, "refused", "emptied")
  /\ dirs' = IF a \in Stuck THEN dirs ELSE [dirs EXCEPT ![a] = NoDir]
  /\ UNCHANGED <<jobs, rowVars, ingestVars, sweeps>>

RemovesCopy(a) ==
  /\ \/ a \notin Stuck /\ Moves(a, "refused", "emptied") /\ dirs' = [dirs EXCEPT ![a] = NoDir]
     \/ Moves(a, "refused", "over") /\ UNCHANGED dirs
  /\ UNCHANGED <<jobs, rowVars, ingestVars, sweeps>>

AbandonsCopy(a) ==
  /\ Moves(a, "emptied", "over")
  /\ DropsIngest(a)
  /\ UNCHANGED <<jobs, rowVars, dirs, sweeps>>

Dies == deaths < MaxDeaths /\ deaths' = deaths + 1

CopyDies(a) ==
  /\ Dies
  /\ copies[a].at \notin {"idle", "over"}
  /\ copies' = [copies EXCEPT ![a].at = "over"]
  /\ UNCHANGED <<jobs, rowVars, ingestVars, dirs, sweeps>>

(* A job fails without a result, or without one to be kept.                *)
FailsJob(j) ==
  /\ jobs[j] = "pending"
  /\ jobs' = [jobs EXCEPT ![j] = "open"]
  /\ UNCHANGED <<rowVars, ingestVars, dirs, copies, sweeps>>

(* close_batch_tx with extend_closed_batch_artifact_retention_tx.          *)
Extended(row) ==
  [row EXCEPT !.left = PostCloseTtl,
              !.version = IF row.left < PostCloseTtl THEN 1 ELSE @]

ClosesBatch(j) ==
  /\ IsOpen(j)
  /\ jobs' = [jobs EXCEPT ![j] = "closed"]
  /\ rows' = [a \in Artifact |->
       IF rows[a].present /\ JobOf[a] = j THEN Extended(rows[a]) ELSE rows[a]]
  /\ UNCHANGED tried
  /\ UNCHANGED <<ingestVars, dirs, copies, sweeps>>

(***************************************************************************)
(* Sweeps.                                                                 *)
(***************************************************************************)
(* ORDER BY the time of the last attempt LIMIT PageLimit: what was never   *)
(* tried comes first, in any order.                                        *)
Before(order, a, b) ==
  \E j \in DOMAIN order : order[j] = b /\ \A i \in j .. Len(order) : order[i] # a

IsPage(page, set, order) ==
  /\ page \subseteq set
  /\ Cardinality(page) <= PageLimit
  /\ Cardinality(page) < PageLimit => page = set
  /\ \A a \in page, b \in set \ page : ~Before(order, b, a)

(* A slip for the mutation runs: open batches are not looked at.           *)
DeletableByTimeOnly == {a \in Artifact : rows[a].present /\ rows[a].left = 0}

Deletable == {a \in Artifact : rows[a].present /\ rows[a].left = 0 /\ ~IsOpen(JobOf[a])}

Unsynced == {a \in Artifact : rows[a].present /\ rows[a].synced < rows[a].version}

(* The first transaction of sweep; the batches it closes are closed by     *)
(* ClosesBatch.                                                            *)
SweepLists(s) ==
  /\ sweeps[s].at = "idle"
  /\ \E page \in SUBSET Deletable :
       /\ IsPage(page, Deletable, tried)
       /\ sweeps' = [sweeps EXCEPT ![s] =
            [NoSweep EXCEPT !.at = "syncing", !.expired = page,
                            !.syncs = Unsynced]]
  /\ UNCHANGED <<jobs, rowVars, ingestVars, dirs, copies>>

(* sync_artifact_manifest: one transaction, which writes the file.         *)
Synced(a) ==
  /\ rows' = [rows EXCEPT ![a].synced = rows[a].version]
  /\ UNCHANGED tried
  /\ Writes(a, "manifest", rows[a].version)

(* Whoever closes a batch does the same for its artifacts afterwards.      *)
SyncsAfterClose(a) ==
  /\ a \in Unsynced
  /\ Synced(a)
  /\ UNCHANGED <<jobs, ingestVars, copies, sweeps>>

SweepSyncs(s) ==
  /\ sweeps[s].at = "syncing"
  /\ \E a \in sweeps[s].syncs :
       /\ sweeps' = [sweeps EXCEPT ![s].syncs = @ \ {a}]
       /\ \/ a \in Unsynced /\ Synced(a)
          \/ /\ SyncsFail \/ a \notin Unsynced
             /\ UNCHANGED <<rowVars, dirs>>
  /\ UNCHANGED <<jobs, ingestVars, copies>>

TriedAgain(a) == IF rows[a].present THEN Latest(tried, a) ELSE tried

SweepRemoves(s) ==
  /\ sweeps[s].at = "syncing" /\ sweeps[s].syncs = {}
  /\ \/ \E a \in sweeps[s].expired \ Stuck :
          /\ dirs' = [dirs EXCEPT ![a] = NoDir]
          /\ sweeps' = [sweeps EXCEPT ![s].expired = @ \ {a}, ![s].deleted = @ \union {a}]
          /\ UNCHANGED rowVars
     \/ \E a \in sweeps[s].expired \intersect Stuck :
          /\ tried' = TriedAgain(a)
          /\ sweeps' = [sweeps EXCEPT ![s].expired = @ \ {a}]
          /\ UNCHANGED <<rows, dirs>>
  /\ UNCHANGED <<jobs, ingestVars, copies>>

StaleIngests == {a \in Artifact : ingests[a].present /\ ingests[a].updated = Grace}

SweepListsIngests(s) ==
  /\ sweeps[s].at = "syncing" /\ sweeps[s].syncs \union sweeps[s].expired = {}
  /\ \E page \in SUBSET StaleIngests :
       /\ IsPage(page, StaleIngests, updated)
       /\ sweeps' = [sweeps EXCEPT ![s].at = "checking", ![s].stale = page]
  /\ UNCHANGED <<jobs, rowVars, ingestVars, dirs, copies>>

(* cleanup_stale_artifact_ingests, for one row at a time: is there an      *)
(* artifact by now, and if not, is the copy alive?                         *)
LooksForRow(s, a) ==
  /\ sweeps[s].at = "checking" /\ a \in sweeps[s].stale
  /\ sweeps[s].seen \union sweeps[s].empty = {}
  /\ \/ /\ rows[a].present
        /\ sweeps' = [sweeps EXCEPT ![s].stale = @ \ {a}]
        /\ DropsIngest(a)
     \/ /\ ~rows[a].present
        /\ sweeps' = [sweeps EXCEPT ![s].stale = @ \ {a}, ![s].seen = {a}]
        /\ UNCHANGED ingestVars
  /\ UNCHANGED <<jobs, rowVars, dirs, copies>>

ActiveOrTooRecent(a) == dirs[a].marker # None /\ dirs[a].marker < Grace

LooksAtMarker(s, a) ==
  /\ a \in sweeps[s].seen
  /\ \/ /\ ActiveOrTooRecent(a)
        /\ TouchesIngest(a)
        /\ sweeps' = [sweeps EXCEPT ![s].seen = {}]
     \/ /\ ~ActiveOrTooRecent(a)
        /\ sweeps' = [sweeps EXCEPT ![s].seen = {}, ![s].empty = {a}]
        /\ UNCHANGED ingestVars
  /\ UNCHANGED <<jobs, rowVars, dirs, copies>>

RemovesStale(s, a) ==
  /\ a \in sweeps[s].empty
  /\ \/ /\ a \notin Stuck /\ dirs[a].exists
        /\ dirs' = [dirs EXCEPT ![a] = NoDir]
        /\ UNCHANGED <<ingestVars, sweeps>>
     \/ /\ ~dirs[a].exists
        /\ DropsIngest(a)
        /\ sweeps' = [sweeps EXCEPT ![s].empty = {}]
        /\ UNCHANGED dirs
     \/ /\ a \in Stuck /\ dirs[a].exists
        /\ TouchesIngest(a)
        /\ sweeps' = [sweeps EXCEPT ![s].empty = {}]
        /\ UNCHANGED dirs
  /\ UNCHANGED <<jobs, rowVars, copies>>

SweepDeletes(s) ==
  /\ sweeps[s].at = "checking"
  /\ sweeps[s].stale \union sweeps[s].seen \union sweeps[s].empty = {}
  /\ rows' = [a \in Artifact |->
       IF a \in sweeps[s].deleted THEN [rows[a] EXCEPT !.present = FALSE] ELSE rows[a]]
  /\ tried' = SelectSeq(tried, LAMBDA a : a \notin sweeps[s].deleted)
  /\ sweeps' = [sweeps EXCEPT ![s] = NoSweep]
  /\ UNCHANGED <<jobs, ingestVars, dirs, copies>>

(* Its process dies, or an error of the store ends it.                     *)
SweepDies(s) ==
  /\ Dies
  /\ sweeps[s].at # "idle"
  /\ sweeps' = [sweeps EXCEPT ![s] = NoSweep]
  /\ UNCHANGED <<jobs, rowVars, ingestVars, dirs, copies>>

(***************************************************************************)
(* Time.  A copy that is alive makes its directory at once, refreshes the  *)
(* marker every 5 seconds while it copies, and commits soon after.         *)
(***************************************************************************)
Prompt(a) ==
  /\ copies[a].at # "begun"
  /\ copies[a].at \in Alive => dirs[a].marker < MaxSilence

Older(age) == IF age = None \/ age = Grace THEN age ELSE age + 1
Sooner(left) == IF left = 0 THEN 0 ELSE left - 1

Tick ==
  /\ \A a \in Artifact : Prompt(a)
  /\ rows' = [a \in Artifact |->
       [rows[a] EXCEPT !.left = Sooner(@)]]
  /\ ingests' = [a \in Artifact |->
       [ingests[a] EXCEPT !.updated = IF ingests[a].present THEN Older(@) ELSE @]]
  /\ dirs' = [a \in Artifact |-> [dirs[a] EXCEPT !.marker = Older(@)]]
  /\ copies' = [a \in Artifact |->
       [copies[a] EXCEPT !.left = IF copies[a].at \in Alive THEN Sooner(@) ELSE @]]
  /\ UNCHANGED <<jobs, tried, updated, sweeps>>

(***************************************************************************)
(* The specification.                                                      *)
(***************************************************************************)
CopyGoesOn(a) ==
  /\ \/ OpensDir(a) \/ RefreshesMarker(a) \/ RenamesPayload(a) \/ WritesManifest(a)
     \/ CopyFails(a) \/ Commits(a) \/ IsRefused(a) \/ RemovesMarker(a) \/ RemovesCopy(a)
     \/ AbandonsCopy(a)
  /\ UNCHANGED deaths

CopyNext ==
  \E a \in Artifact : CopyGoesOn(a) \/ (Begins(a) /\ UNCHANGED deaths) \/ CopyDies(a)

SweepGoesOn(s) ==
  /\ \/ SweepLists(s) \/ SweepSyncs(s) \/ SweepRemoves(s) \/ SweepListsIngests(s)
     \/ \E a \in Artifact : LooksForRow(s, a) \/ LooksAtMarker(s, a) \/ RemovesStale(s, a)
     \/ SweepDeletes(s)
  /\ UNCHANGED deaths

SweepNext == \E s \in Sweep : SweepGoesOn(s) \/ SweepDies(s)

JobNext ==
  \/ \E j \in Job : FailsJob(j) \/ ClosesBatch(j)
  \/ \E a \in Artifact : SyncsAfterClose(a)

Next == SweepNext \/ CopyNext \/ ((JobNext \/ Tick) /\ UNCHANGED deaths)

Spec == Init /\ [][Next]_vars
FairSpec ==
  /\ Spec
  /\ WF_vars(Tick /\ UNCHANGED deaths)
  /\ \A s \in Sweep : WF_vars(SweepGoesOn(s))
  /\ \A a \in Artifact : WF_vars(CopyGoesOn(a))

(***************************************************************************)
(* Properties.                                                             *)
(***************************************************************************)
TypeOK ==
  /\ jobs \in [Job -> {"pending", "open", "closed"}]
  /\ rows \in [Artifact -> RowRecord]
  /\ ingests \in [Artifact -> IngestRecord]
  /\ {tried, updated} \subseteq Seq(Artifact)
  /\ dirs \in [Artifact -> DirRecord]
  /\ copies \in [Artifact -> CopyRecord]
  /\ sweeps \in [Sweep -> SweepRecord]
  /\ deaths \in 0 .. MaxDeaths

(* An artifact has its payload as long as its batch is open and for 72     *)
(* hours after: neither a sweep that takes its copy for dead, nor one that *)
(* takes it for expired, nor a copy whose directory was collected under    *)
(* it, leaves a row without a file.                                        *)
KeptWhileNeeded ==
  \A a \in Artifact :
    rows[a].present /\ (IsOpen(JobOf[a]) \/ rows[a].left > 0) => dirs[a].payload = "final"

(* No directory is left that no row leads to, however copies and sweeps    *)
(* die half-way.                                                           *)
NoOrphanDir ==
  \A a \in Artifact :
    dirs[a].exists => rows[a].present \/ ingests[a].present

(* What is not needed is collected in the end, and a directory that cannot *)
(* be removed does not keep others from being collected.                   *)
Collected ==
  \A a \in Artifact \ Stuck :
    [](dirs[a].exists ~>
         ~dirs[a].exists \/ (rows[a].present /\ IsOpen(JobOf[a])) \/ copies[a].at \in Alive)

=============================================================================
