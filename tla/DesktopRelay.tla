---------------------------- MODULE DesktopRelay ----------------------------
(***************************************************************************)
(* The transcript relay of the Desktop bridge.  A preflight issues markers *)
(* (src/store.rs), a bridge thread, which cannot write to the store, puts  *)
(* an envelope with a marker into its rollout file, and scanners           *)
(* (src/cli.rs) find the envelopes behind a durable cursor and consume     *)
(* each marker in one transaction together with the transition it asks     *)
(* for.  Scanners overlap: the daemon runs one every 2 seconds, an         *)
(* operator may run another, rebind a scanner, consume a marker by hand or *)
(* call the transitions directly.                                          *)
(*                                                                         *)
(* The retention of 7 days is not reached here: no marker or consumption   *)
(* is deleted.  A rollout is read behind a handle, so lines that were read *)
(* do not change.                                                          *)
(***************************************************************************)
EXTENDS DesktopArm

CONSTANTS
  Bridge,        \* bridge threads
  Scan,          \* processes that scan
  MarkerTtl,     \* DESKTOP_TRANSCRIPT_RELAY_MARKER_TTL_SECONDS
  LinesPerTick,  \* DESKTOP_TRANSCRIPT_SCANNER_MAX_LINES_PER_TICK
  MaxMarkers,    \* bound on the markers issued
  MaxLines,      \* bound on the lines of all rollouts
  MaxFiles,      \* bound on the files that replace each other as a rollout
  MaxInterventions  \* bound on what operators do, files replaced, dead scans

ASSUME RelayAssumption ==
  /\ {MarkerTtl, LinesPerTick, MaxFiles} \subseteq Nat \ {0}
  /\ {MaxMarkers, MaxLines, MaxInterventions} \subseteq Nat

VARIABLES
  markers,     \* Seq of markers with their consumptions, in order of issue
  rollouts,    \* [Bridge -> Seq of files], the last is the one at the path
  scanners,    \* [Bridge -> row of desktop_relay_scanner_bindings]
  preflights,  \* [Bridge -> preflight under way]
  ticks,       \* [Scan -> scan under way]
  interventions  \* how often one of them happened; serves only as a bound

relayVars == <<markers, rollouts, scanners, preflights, ticks>>
vars == <<armVars, relayVars, interventions>>

(* "expected" is the envelope a marker asks for.  "other" is one with the  *)
(* marker that is not: for an arm_accepted marker the arm_requested        *)
(* envelope, which only the manual consumer takes.                         *)
Form == {"expected", "other"}
Line == [marker : 1 .. MaxMarkers, form : Form]
Kind == {"arm_pending_requested", "arm_accepted"}

(* outcome and form are the row of desktop_transcript_relay_consumptions.  *)
(* A pending marker brings a bridge_request_id of its own: its number.     *)
MarkerRecord ==
  [ bridge : Bridge, kind : Kind, attempt : 1 .. MaxAttempts, request : Nat,
    bound_to : Caller \X Nat, expires : Nat,
    state : {"issued", "consumed", "rejected", "expired"},
    outcome : {"none", "done", "failed"}, form : Form \union {"none"} ]

(* from is history: where the cursor stood when the scanner was bound.     *)
ScannerRow ==
  [ state : {"active", "degraded"}, file : 1 .. MaxFiles,
    cursor : 0 .. MaxLines, from : 0 .. MaxLines ]

PreflightRecord ==
  [doing : {"idle", "swept"}, now : Time, transport : Nat, validated : BOOLEAN]

(* binding_revision serves only to compare the row with the scan's copy:   *)
(* overtaken says that the row was written since.                          *)
TickRecord ==
  [ doing : {"idle", "opened", "scanned"}, bridge : Bridge \union {"none"}, now : Time,
    helper : Fingerprint, row : ScannerRow, overtaken : BOOLEAN, eof : 0 .. MaxLines,
    todo : SUBSET (1 .. MaxMarkers), lease : BOOLEAN ]

NoPreflight == [doing |-> "idle", now |-> 0, transport |-> 0, validated |-> FALSE]
FirstRow == [state |-> "active", file |-> 1, cursor |-> 0, from |-> 0]
NoTick ==
  [ doing |-> "idle", bridge |-> "none", now |-> 0, helper |-> 1,
    row |-> FirstRow, overtaken |-> FALSE, eof |-> 0, todo |-> {}, lease |-> FALSE ]

(* Operators have bound a scanner to each bridge thread, still empty.      *)
RelayInit ==
  /\ markers = << >>
  /\ rollouts = [b \in Bridge |-> << << >> >>]
  /\ scanners = [b \in Bridge |-> FirstRow]
  /\ preflights = [b \in Bridge |-> NoPreflight]
  /\ ticks = [s \in Scan |-> NoTick]
  /\ interventions = 0

Marker == DOMAIN markers
File(b) == Len(rollouts[b])
Lesser(x, y) == IF x < y THEN x ELSE y

(***************************************************************************)
(* Markers.                                                                *)
(***************************************************************************)
Usable(m, now) == m.state = "issued" /\ now < m.expires

(* A consumption by hand leaves the marker issued until it is reconciled.  *)
Reconciled(m) ==
  IF m.state # "issued" \/ m.outcome = "none" THEN m
  ELSE [m EXCEPT !.state = IF m.outcome = "done" THEN "consumed" ELSE "rejected"]

Expired(m, now) ==
  IF m.state = "issued" /\ m.outcome = "none" /\ m.expires <= now
  THEN [m EXCEPT !.state = "expired"] ELSE m

IssuedFor(b, kind, a, request, expires) ==
  [ bridge |-> b, kind |-> kind, attempt |-> a, request |-> request, bound_to |-> BoundTo,
    expires |-> expires, state |-> "issued", outcome |-> "none", form |-> "none" ]

(* A slip for the mutation runs: the binding may have changed since.       *)
StillBoundAnyhow(m, fingerprint) == Bound

StillBound(m, fingerprint) ==
  /\ Bound
  /\ markers[m].bound_to = BoundTo
  /\ installation.fingerprints[binding.transport] = fingerprint

(***************************************************************************)
(* bridge-preflight: a sweep, a look at the installation state, and one    *)
(* transaction that issues markers.  A repair of the installation between  *)
(* sweep and look is as good as one before the sweep.                      *)
(***************************************************************************)
PreflightSweeps(b) ==
  /\ SweepAt(clock)
  /\ preflights' = [preflights EXCEPT ![b] =
       [ doing |-> "swept", now |-> clock, transport |-> Generation,
         validated |-> installation.validated
                       /\ installation.fingerprints[Generation] = helper ]]
  /\ UNCHANGED <<binding, installation, helper, clock, markers, rollouts, scanners, ticks>>

(* What list_desktop_arm_pending_bindings_tx and its predecessor look for, *)
(* for the one thread there is, in the markers known after reconciling.    *)
Matches(p) == Bound /\ p.validated /\ binding.transport = p.transport

Candidate(p) ==
  {c \in Batch : IsHead(c) /\ HasBudget(c) /\ p.now < WindowEnds /\ Matches(p) /\ Quiesced}

HasMarker(known, b, kind, a, now) ==
  \E m \in DOMAIN known :
    /\ Usable(known[m], now)
    /\ known[m].bridge = b /\ known[m].kind = kind
    /\ known[m].attempt = a /\ known[m].bound_to = BoundTo

Unready(known, b, p) ==
  { a \in Attempt :
      /\ attempts[a].adapter = "desktop" /\ attempts[a].state = "prepared"
      /\ attempts[a].batch \in Candidate(p) /\ IsCurrent(a) /\ OnlyActive(a)
      /\ ~HasMarker(known, b, "arm_pending_requested", a, p.now) }

PendedByRelay(known, a) ==
  \E m \in DOMAIN known :
    /\ known[m].kind = "arm_pending_requested" /\ known[m].state = "consumed"
    /\ known[m].attempt = a /\ known[m].request = attempts[a].request
    /\ known[m].bound_to = BoundTo

Unaccepted(known, b, p) ==
  { a \in Attempt :
      /\ attempts[a].state = "arm_pending" /\ Eligible(a) /\ ~Lapsed(a, p.now)
      /\ Matches(p) /\ PendedByRelay(known, a)
      /\ ~HasMarker(known, b, "arm_accepted", a, p.now) }

Issues(known, b, kind, a, request, expires) ==
  /\ Len(known) < MaxMarkers
  /\ markers' = Append(known, IssuedFor(b, kind, a, request, expires))

IssuesReady(known, b, a, p) ==
  Issues(known, b, "arm_pending_requested", a, Len(known) + 1,
         Lesser(p.now + MarkerTtl, WindowEnds))

Materializes(b) ==
  LET p == preflights[b]
      known == [m \in Marker |-> Reconciled(markers[m])]
      fresh == {c \in Candidate(p) : Idle}
  IN /\ p.doing = "swept"
     /\ preflights' = [preflights EXCEPT ![b] = NoPreflight]
     /\ \/ \E c \in fresh :
             /\ Len(attempts) < MaxAttempts
             /\ attempts' = Append(attempts, FreshAttempt(c, "desktop", "prepared"))
             /\ IssuesReady(known, b, Len(attempts) + 1, p)
        \/ \E a \in Unready(known, b, p) :
             IssuesReady(known, b, a, p) /\ UNCHANGED attempts
        \/ \E a \in Unaccepted(known, b, p) :
             /\ Issues(known, b, "arm_accepted", a, attempts[a].request,
                       Lesser(Lesser(p.now + MarkerTtl, WindowEnds), attempts[a].deadline))
             /\ UNCHANGED attempts
        \/ /\ fresh = {} /\ Unready(known, b, p) = {} /\ Unaccepted(known, b, p) = {}
           /\ markers' = known /\ UNCHANGED attempts
     /\ UNCHANGED <<batches, binding, installation, helper, clock, rollouts, scanners, ticks>>

(***************************************************************************)
(* Bridges and operators.  A bridge knows the markers that were issued to  *)
(* it from the snapshot the preflight publishes.                           *)
(***************************************************************************)
Written ==
  UNION {UNION {{<<b, f>>} \X DOMAIN rollouts[b][f] : f \in DOMAIN rollouts[b]} : b \in Bridge}

Emits(b) ==
  \E m \in Marker, form \in Form :
    /\ markers[m].bridge = b
    /\ form = "other" => markers[m].kind = "arm_accepted"
    /\ Cardinality(Written) < MaxLines
    /\ rollouts' = [rollouts EXCEPT ![b][File(b)] = Append(@, [marker |-> m, form |-> form])]
    /\ UNCHANGED <<armVars, markers, scanners, preflights, ticks>>

Replaced(b) ==
  /\ File(b) < MaxFiles
  /\ rollouts' = [rollouts EXCEPT ![b] = Append(@, << >>)]
  /\ UNCHANGED <<armVars, markers, scanners, preflights, ticks>>

(* The forms in which a file brings an envelope for a marker, and how often. *)
LinesOf(file, m, first, last) == {i \in first .. last : file[i].marker = m}
Trusted(file, m) ==
  LET lines == LinesOf(file, m, 1, Len(file))
  IN {file[i].form : i \in {j \in lines : lines = {j}}}

Consumable(m) == IF markers[m].kind = "arm_accepted" THEN "other" ELSE "expected"

(* The transition a marker asks for, and the consumption that records how  *)
(* it ended.                                                               *)
Transition(m, now, outcome) ==
  \/ markers[m].kind = "arm_pending_requested"
     /\ NotesArmPending(markers[m].attempt, markers[m].request, now, outcome)
  \/ markers[m].kind = "arm_accepted"
     /\ NotesArm(markers[m].attempt, markers[m].request, now, outcome)

Overtakes(b) ==
  [s \in Scan |-> IF ticks[s].doing # "idle" /\ ticks[s].bridge = b
                  THEN [ticks[s] EXCEPT !.overtaken = TRUE] ELSE ticks[s]]

BindsScanner(b, from_start) ==
  LET at == IF from_start THEN 0 ELSE Len(rollouts[b][File(b)])
  IN /\ scanners' = [scanners EXCEPT ![b] =
          [state |-> "active", file |-> File(b), cursor |-> at, from |-> at]]
     /\ ticks' = Overtakes(b)
     /\ UNCHANGED <<armVars, markers, rollouts, preflights>>

(* consume_desktop_transcript_relay; a repeated call only replays.         *)
ConsumesByHand(m) ==
  \E b \in Bridge, outcome \in {"done", "failed"} :
    /\ Consumable(m) \in Trusted(rollouts[b][File(b)], m)
    /\ markers[m].outcome = "none" /\ Usable(markers[m], clock)
    /\ StillBound(m, helper)
    /\ Transition(m, clock, outcome)
    /\ markers' = [markers EXCEPT ![m].outcome = outcome, ![m].form = Consumable(m)]
    /\ UNCHANGED <<installation, helper, clock, rollouts, scanners, preflights, ticks>>

(* note-arm-pending and note-arm; the requests known are those of markers. *)
PendsDirectly(a, m) ==
  \E outcome \in {"done", "failed"} :
    /\ attempts[a].adapter = "desktop" /\ markers[m].attempt = a
    /\ NotesArmPending(a, markers[m].request, clock, outcome)
    /\ UNCHANGED <<installation, helper, clock, relayVars>>

ArmsDirectly(a) ==
  \E outcome \in {"done", "failed"} :
    /\ attempts[a].adapter = "desktop" /\ attempts[a].request # NoRequest
    /\ NotesArm(a, attempts[a].request, clock, outcome)
    /\ UNCHANGED <<installation, helper, clock, relayVars>>

(***************************************************************************)
(* scan_desktop_relay_binding_once.  Whatever ends a scan with an error    *)
(* ends it where it is; so does the death of its process.                  *)
(***************************************************************************)
Ends(s) == ticks' = [ticks EXCEPT ![s] = NoTick]

Writes(s, row) ==
  /\ scanners' = [scanners EXCEPT ![ticks[s].bridge] = row]
  /\ ticks' = [Overtakes(ticks[s].bridge) EXCEPT ![s] = NoTick]

IsCurrentRow(s) == scanners[ticks[s].bridge].state = "active" /\ ~ticks[s].overtaken

Degrades(s) ==
  \/ IsCurrentRow(s) /\ Writes(s, [ticks[s].row EXCEPT !.state = "degraded"])
  \/ ~IsCurrentRow(s) /\ Ends(s) /\ UNCHANGED scanners

(* A scan takes the time and the row, opens the rollout and takes its      *)
(* length.  A row that is written in between makes all the scan tries in   *)
(* vain, so that here the row is current when the length is taken.         *)
ScanStarts(s, b) ==
  /\ ticks[s].doing = "idle"
  /\ markers' = [m \in Marker |-> Expired(Reconciled(markers[m]), clock)]
  /\ \/ /\ scanners[b].state = "active" /\ File(b) = scanners[b].file
        /\ ticks' = [ticks EXCEPT ![s] =
             [NoTick EXCEPT !.doing = "opened", !.bridge = b, !.now = clock, !.helper = helper,
                            !.row = scanners[b], !.eof = Len(rollouts[b][File(b)])]]
        /\ UNCHANGED scanners
     \/ /\ scanners[b].state = "active" /\ File(b) # scanners[b].file
        /\ scanners' = [scanners EXCEPT ![b].state = "degraded"]
        /\ ticks' = Overtakes(b)
     \/ /\ scanners[b].state = "degraded"
        /\ UNCHANGED <<scanners, ticks>>
  /\ UNCHANGED <<armVars, rollouts, preflights>>

(* A slip for the mutation runs: the length is not frozen before the       *)
(* markers are listed.                                                     *)
ReadToNow(s) ==
  Lesser(Len(rollouts[ticks[s].bridge][ticks[s].row.file]), ticks[s].row.cursor + LinesPerTick)

ReadTo(s) == Lesser(ticks[s].eof, ticks[s].row.cursor + LinesPerTick)
ReadFile(s) == rollouts[ticks[s].bridge][ticks[s].row.file]
FormsRead(s, m) ==
  {ReadFile(s)[i].form : i \in LinesOf(ReadFile(s), m, ticks[s].row.cursor + 1, ReadTo(s))}

ListsMarkers(s) ==
  LET listed == {m \in Marker : markers[m].bridge = ticks[s].bridge
                                /\ Usable(markers[m], ticks[s].now)}
  IN /\ ticks[s].doing = "opened"
     /\ \/ listed = {} /\ Ends(s)
        \/ /\ listed # {}
           /\ ticks' = [ticks EXCEPT ![s].doing = "scanned",
                                     ![s].todo = {m \in listed : FormsRead(s, m) # {}}]
     /\ UNCHANGED <<armVars, markers, rollouts, scanners, preflights>>

ReadAll(s) == ReadTo(s) = ticks[s].eof

GivesUp(s) ==
  /\ ticks[s].doing = "scanned" /\ ticks[s].todo # {} /\ ~ReadAll(s)
  /\ Degrades(s)
  /\ UNCHANGED <<armVars, markers, rollouts, preflights>>

(* Pending markers come first, each kind in order of issue.                *)
IsNext(s, m) ==
  /\ ticks[s].doing = "scanned" /\ ReadAll(s)
  /\ m \in ticks[s].todo
  /\ \A n \in ticks[s].todo :
       \/ markers[m].kind = markers[n].kind /\ m <= n
       \/ markers[m].kind = "arm_pending_requested" /\ markers[n].kind = "arm_accepted"

Handled(s, m) ==
  ticks' = [ticks EXCEPT ![s].todo = @ \ {m}, ![s].lease = FALSE]

(* mark_desktop_transcript_relay_marker_rejected_for_scanner               *)
Rejects(s, m) ==
  /\ \/ /\ markers[m].state \in {"issued", "rejected"} /\ IsCurrentRow(s)
        /\ markers' = [markers EXCEPT ![m].state = "rejected"]
        /\ Handled(s, m)
     \/ /\ ~(markers[m].state \in {"issued", "rejected"} /\ IsCurrentRow(s))
        /\ Ends(s) /\ UNCHANGED markers
  /\ UNCHANGED <<batches, attempts, binding>>

(* For an arm_accepted marker the scan looks up the lease of the attempt,  *)
(* outside the transaction that consumes the marker.                       *)
LooksUpLease(s, m) ==
  LET a == markers[m].attempt
      replayed == markers[m].outcome = "done" /\ markers[m].form = "expected"
  IN /\ IsNext(s, m) /\ FormsRead(s, m) = {"expected"}
     /\ markers[m].kind = "arm_accepted" /\ ~ticks[s].lease
     /\ \/ /\ markers[m].outcome = "none" /\ IsPendingFor(a, markers[m].request)
           /\ ticks' = [ticks EXCEPT ![s].lease = TRUE]
           /\ UNCHANGED <<markers, batches, attempts, binding>>
        \/ /\ replayed
           /\ (IF IsCurrentRow(s) THEN Handled(s, m) ELSE Ends(s))
           /\ UNCHANGED <<markers, batches, attempts, binding>>
        \/ /\ ~replayed
           /\ markers[m].outcome # "none" \/ ~IsPendingFor(a, markers[m].request)
           /\ Rejects(s, m)
     /\ UNCHANGED <<installation, helper, clock, rollouts, scanners, preflights>>

(* consume_issued_desktop_transcript_relay_marker, and the rejection that  *)
(* follows when it is refused.                                             *)
Consumes(s, m) ==
  LET now == ticks[s].now
      admitted ==
        /\ Usable(markers[m], now) /\ IsCurrentRow(s) /\ StillBound(m, ticks[s].helper)
        /\ markers[m].form \in {"none", "expected"}
      Concludes(outcome) ==
        /\ markers' = [markers EXCEPT ![m].outcome = outcome, ![m].form = "expected",
                ![m].state = IF outcome = "done" THEN "consumed" ELSE "rejected"]
        /\ Handled(s, m)
  IN /\ IsNext(s, m) /\ FormsRead(s, m) = {"expected"}
     /\ markers[m].kind = "arm_accepted" => ticks[s].lease
     /\ \/ /\ admitted /\ markers[m].outcome # "none"
           /\ Concludes(markers[m].outcome)
           /\ UNCHANGED <<batches, attempts, binding>>
        \/ /\ admitted /\ markers[m].outcome = "none"
           /\ \E outcome \in {"done", "failed"} :
                Transition(m, now, outcome) /\ Concludes(outcome)
        \/ /\ admitted /\ markers[m].outcome = "none"
           /\ Transition(m, now, "refused")
           /\ Rejects(s, m)
        \/ ~admitted /\ Rejects(s, m)
     /\ UNCHANGED <<installation, helper, clock, rollouts, scanners, preflights>>

(* An envelope that is not the expected one, or several that differ.       *)
RejectsEnvelope(s, m) ==
  /\ IsNext(s, m) /\ FormsRead(s, m) # {"expected"}
  /\ Rejects(s, m)
  /\ UNCHANGED <<installation, helper, clock, rollouts, scanners, preflights>>

AdvancesCursor(s) ==
  /\ ticks[s].doing = "scanned" /\ ticks[s].todo = {}
  /\ \/ IsCurrentRow(s) /\ Writes(s, [ticks[s].row EXCEPT !.cursor = ReadTo(s)])
     \/ ~IsCurrentRow(s) /\ Ends(s) /\ UNCHANGED scanners
  /\ UNCHANGED <<armVars, markers, rollouts, preflights>>

ScanDies(s) ==
  /\ ticks[s].doing # "idle"
  /\ Ends(s)
  /\ UNCHANGED <<armVars, markers, rollouts, scanners, preflights>>

(***************************************************************************)
(* The specification.                                                      *)
(***************************************************************************)
Init == ArmInit /\ RelayInit

BridgeNext ==
  \E b \in Bridge : PreflightSweeps(b) \/ Materializes(b) \/ Emits(b)

ScanNext ==
  \E s \in Scan :
    \/ \E b \in Bridge : ScanStarts(s, b)
    \/ ListsMarkers(s) \/ GivesUp(s) \/ AdvancesCursor(s)
    \/ \E m \in Marker : LooksUpLease(s, m) \/ Consumes(s, m) \/ RejectsEnvelope(s, m)

ElsewhereNext ==
  /\ CliBegins \/ CliAccepted \/ CliEnds \/ Sweeps \/ Tick
  /\ UNCHANGED relayVars

InterventionNext ==
  \/ \E b \in Bridge : Replaced(b) \/ \E from_start \in BOOLEAN : BindsScanner(b, from_start)
  \/ \E s \in Scan : ScanDies(s)
  \/ \E m \in Marker : ConsumesByHand(m)
  \/ \E a \in Attempt : ArmsDirectly(a) \/ \E m \in Marker : PendsDirectly(a, m)
  \/ /\ \/ \E f \in Fingerprint, v \in BOOLEAN : RepairInstallation(f, v)
        \/ \E c \in Caller : RepairBinding(c)
        \/ \E f \in Fingerprint : Upgrade(f)
        \/ CloseHead
     /\ UNCHANGED relayVars

Next ==
  \/ (BridgeNext \/ ScanNext \/ ElsewhereNext) /\ UNCHANGED interventions
  \/ /\ interventions < MaxInterventions
     /\ interventions' = interventions + 1
     /\ InterventionNext

Spec == Init /\ [][Next]_vars

(***************************************************************************)
(* Properties.                                                             *)
(***************************************************************************)

(* The state is made of rows as the store and the scans hold them.         *)
TypeOK ==
  /\ batches \in [Batch -> [open : BOOLEAN, count : 0 .. MaxDeliveries]]
  /\ attempts \in Seq(AttemptRecord)
  /\ binding \in BindingRecord
  /\ installation \in InstallationRecord
  /\ helper \in Fingerprint /\ clock \in Time
  /\ markers \in Seq(MarkerRecord)
  /\ rollouts \in [Bridge -> Seq(Seq(Line))]
  /\ scanners \in [Bridge -> ScannerRow]
  /\ preflights \in [Bridge -> PreflightRecord]
  /\ ticks \in [Scan -> TickRecord]
  /\ interventions \in 0 .. MaxInterventions

(* However many bridges, preflights, scans, manual calls and CLI sidecars  *)
(* work on the thread, one attempt at most is in flight on it.             *)
OneAttemptInFlight == Cardinality({a \in Attempt : Active(a)}) <= 1

(* delivery_attempt_count is the number of attempts that were armed or     *)
(* accepted: a marker that is consumed twice, by two bridges, two scans or *)
(* by hand, or a repeated note-arm, does not charge the batch again.       *)
EachArmCountedOnce ==
  \A b \in Batch :
    batches[b].count = Cardinality({a \in Attempt : attempts[a].batch = b /\ attempts[a].counted})

(* When the relay arms an attempt, it has taken the attempt's arm_pending  *)
(* marker under the binding and the installation generation of now: the    *)
(* two phases never straddle a repair.  (A direct note-arm may.)           *)
ArmedAsPended ==
  [][ \A a \in Attempt :
        ~attempts[a].counted /\ attempts'[a].counted
        /\ attempts[a].adapter = "desktop" /\ markers' # markers
        => \E m \in Marker :
             /\ markers[m].kind = "arm_pending_requested" /\ markers[m].attempt = a
             /\ markers[m].outcome = "done" /\ markers[m].bound_to = BoundTo ]_vars

(* The cursor never moves past an envelope that can still be consumed:     *)
(* neither overlapping scans, nor rebinding, nor a marker issued or        *)
(* reconciled meanwhile makes a scanner skip one.                          *)
NothingSkipped ==
  \A b \in Bridge, m \in Marker :
    markers[m].bridge = b /\ Usable(markers[m], clock)
      => LinesOf(rollouts[b][scanners[b].file], m, scanners[b].from + 1, scanners[b].cursor) = {}

=============================================================================
