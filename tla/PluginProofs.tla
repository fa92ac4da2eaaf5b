---------------------------- MODULE PluginProofs ----------------------------
(***************************************************************************)
(* Theorems about PluginDelivery, for any number of connections, plugin    *)
(* instances, deliveries and attempts, and any timeouts.                   *)
(*                                                                         *)
(* Every step of the plugin service is a step of the store or none, so the *)
(* theorems of DeliveryProofs hold here as well.  On top of TableInv stand *)
(* TurnInv (the one who begins an attempt is the only one to send it, and  *)
(* what was sent is not recorded as refused), HolderInv (who was given a   *)
(* lease is registered as a holder of it) and LeaseInv (the lease outlasts *)
(* the deliveries under way and the turns that are observed).              *)
(***************************************************************************)
EXTENDS PluginDelivery, DeliveryProofs

(***************************************************************************)
(* What the steps of the store that a plugin can cause do to the attempts. *)
(***************************************************************************)

(* Only the app-server adapter delivers what plugins enqueue. *)
PluginRows == \A a \in Attempt : attempts[a].state # "absent" =>
  attempts[a].batch = a[1] /\ attempts[a].adapter = "codex_app_server"

Tracks(r) == /\ r.adapter = "codex_app_server" /\ r.state = "cooldown"
             /\ r.rpc = "accepted" /\ r.obs = "tracking"

(* The row r goes on as r2: nothing is sent, refused or accepted. *)
Keeps(r, r2) ==
  /\ r2.state = "absent" <=> r.state = "absent"
  /\ r2.batch = r.batch /\ r2.adapter = r.adapter
  /\ r2.rpc = "rejected_before_accept" => r.rpc = "rejected_before_accept"
  /\ r2.state \in ActiveStates => r.state \in ActiveStates
  /\ Tracks(r2) => Tracks(r) /\ r2.deadline = r.deadline

Calm == \A a \in Attempt : Keeps(attempts[a], attempts'[a])

LEMMA KeepsItself == ASSUME NEW r PROVE Keeps(r, r)
BY DEF Keeps

LEMMA RowKeeps ==
  ASSUME NEW r \in AttemptRecord, r.state # "absent"
  PROVE  /\ Keeps(r, AbandonedUnknown(r))
         /\ \A obs : Keeps(r, Abandoned(r, obs))
         /\ \A obs, event : Keeps(r, [Abandoned(r, obs) EXCEPT !.event = event])
         /\ \A event : Keeps(r, [r EXCEPT !.event = event])
         /\ Keeps(r, [r EXCEPT !.state = "closed"])
         /\ r.adapter = "codex_app_server" => Keeps(r, TakenOver(r))
<1>. USE DEF AttemptRecord, Keeps, Tracks, ActiveStates
<1>1. Keeps(r, AbandonedUnknown(r)) BY DEF AbandonedUnknown
<1>2. \A obs : Keeps(r, Abandoned(r, obs)) BY DEF Abandoned
<1>3. \A obs, event : Keeps(r, [Abandoned(r, obs) EXCEPT !.event = event]) BY DEF Abandoned
<1>4. \A event : Keeps(r, [r EXCEPT !.event = event]) OBVIOUS
<1>5. Keeps(r, [r EXCEPT !.state = "closed"]) OBVIOUS
<1>6. r.adapter = "codex_app_server" => Keeps(r, TakenOver(r)) BY DEF TakenOver
<1>. HIDE DEF AttemptRecord, Keeps
<1>. QED BY <1>1, <1>2, <1>3, <1>4, <1>5, <1>6

LEMMA KeepsTwice ==
  ASSUME NEW r, NEW r2, NEW r3, Keeps(r, r2), Keeps(r2, r3) PROVE Keeps(r, r3)
BY DEF Keeps

LEMMA OneKeeps ==
  ASSUME TypeOK, NEW a \in Attempt, NEW r, attempts' = [attempts EXCEPT ![a] = r],
         Keeps(attempts[a], r)
  PROVE  Calm
BY KeepsItself DEF TypeOK, Calm

LEMMA ClosedWithKeeps ==
  ASSUME NEW as \in AttemptTable, NEW B, NEW a \in Attempt
  PROVE  Keeps(as[a], AttemptsClosedWith(as, B)[a])
<1>1. as[a] \in AttemptRecord BY DEF AttemptTable
<1>2. CASE as[a].batch \in B /\ as[a].state \in ActiveStates
  <2>1. AttemptsClosedWith(as, B)[a] = [as[a] EXCEPT !.state = "closed"]
    BY <1>2 DEF AttemptsClosedWith
  <2>. QED BY <1>1, <1>2, <2>1, RowKeeps DEF ActiveStates
<1>3. CASE ~(as[a].batch \in B /\ as[a].state \in ActiveStates)
  BY <1>3, KeepsItself DEF AttemptsClosedWith
<1>. QED BY <1>2, <1>3

LEMMA AbandonCalm ==
  ASSUME TypeOK, NEW a \in Attempt, AbandonAppServerUnknown(a) PROVE Calm
<1>1. CASE attempts' = attempts BY <1>1, KeepsItself DEF Calm
<1>2. CASE IsAcceptPending(a, "codex_app_server")
           /\ attempts' = [attempts EXCEPT ![a] = AbandonedUnknown(@)]
  <2>1. attempts' = [attempts EXCEPT ![a] = AbandonedUnknown(attempts[a])] BY <1>2 DEF TypeOK
  <2>2. attempts[a] \in AttemptRecord /\ attempts[a].state # "absent"
    BY <1>2 DEF TypeOK, IsAcceptPending
  <2>. QED BY <2>1, <2>2, RowKeeps, OneKeeps
<1>. QED BY <1>1, <1>2 DEF AbandonAppServerUnknown

LEMMA ManualizeCalm ==
  ASSUME TypeOK, PluginRows, NEW b, ManualizePlugin(b) PROVE Calm
<1>. SUFFICES ASSUME NEW a \in Attempt PROVE Keeps(attempts[a], attempts'[a]) BY DEF Calm
<1>1. CASE a \in ActiveOn(b)
  <2>1. attempts'[a] = TakenOver(attempts[a]) BY <1>1 DEF ManualizePlugin
  <2>2. attempts[a] \in AttemptRecord /\ attempts[a].state # "absent"
    BY <1>1 DEF TypeOK, ActiveOn, OnBatch
  <2>. QED BY <2>1, <2>2, RowKeeps DEF PluginRows
<1>2. CASE a \notin ActiveOn(b) BY <1>2, KeepsItself DEF ManualizePlugin
<1>. QED BY <1>1, <1>2

LEMMA ObserveCalm ==
  ASSUME TypeOK, NEW a \in Attempt, NEW event, ObserveAppServer(a, event) PROVE Calm
<1>1. attempts[a] \in AttemptRecord BY DEF TypeOK
<1>2. PICK at \in Recent : \/ ObserveAppServerLate(a, event)
                           \/ ObserveAppServerAfterDeadline(a, event, at)
                           \/ ObserveAppServerInTime(a, event, at)
  BY DEF ObserveAppServer
<1>3. attempts[a].state # "absent"
  BY <1>2 DEF ObserveAppServerLate, ObserveAppServerAfterDeadline, ObserveAppServerInTime,
              AwaitsLateEvidence, IsTracking
<1>4. CASE attempts' = [attempts EXCEPT ![a].event = event]
  <2>1. attempts' = [attempts EXCEPT ![a] = [attempts[a] EXCEPT !.event = event]]
    BY <1>4 DEF TypeOK
  <2>. QED BY <1>1, <1>3, <2>1, RowKeeps, OneKeeps
<1>5. CASE \E obs :
             attempts' = [attempts EXCEPT ![a] = [Abandoned(attempts[a], obs) EXCEPT !.event = event]]
  <2>1. PICK obs :
          attempts' = [attempts EXCEPT ![a] = [Abandoned(attempts[a], obs) EXCEPT !.event = event]]
    BY <1>5
  <2>2. Keeps(attempts[a], [Abandoned(attempts[a], obs) EXCEPT !.event = event])
    BY <1>1, <1>3, RowKeeps
  <2>. QED BY <2>1, <2>2, OneKeeps
<1>6. CASE IsTracking(a, "codex_app_server") /\ Deliver(a)
  <2>. DEFINE r == [attempts[a] EXCEPT !.state = "cooldown", !.obs = "completed",
                                       !.event = "turn_completed"]
              as == [attempts EXCEPT ![a] = r]
  <2>1. r \in AttemptRecord /\ Keeps(attempts[a], r)
    BY <1>1, <1>6 DEF AttemptRecord, Keeps, Tracks, ActiveStates, IsTracking
  <2>2. as \in AttemptTable BY <2>1 DEF TypeOK, AttemptTable
  <2>3. attempts' = AttemptsClosedWith(as, {attempts[a].batch}) BY <1>6 DEF Deliver, TypeOK
  <2>4. \A c \in Attempt : Keeps(attempts[c], as[c]) BY <2>1, KeepsItself DEF TypeOK
  <2>. HIDE DEF as
  <2>. QED BY <2>2, <2>3, <2>4, ClosedWithKeeps, KeepsTwice DEF Calm
<1>7. CASE ObserveAppServerLate(a, event) BY <1>4, <1>7 DEF ObserveAppServerLate
<1>8. CASE ObserveAppServerAfterDeadline(a, event, at)
  BY <1>5, <1>8 DEF ObserveAppServerAfterDeadline, GiveUpAppServer
<1>9. CASE ObserveAppServerInTime(a, event, at)
  BY <1>4, <1>5, <1>6, <1>9 DEF ObserveAppServerInTime, GiveUpAppServer
<1>. QED BY <1>2, <1>7, <1>8, <1>9

LEMMA SweptKeeps ==
  ASSUME TypeOK, NEW U, NEW C, NEW P, NEW a \in Attempt,
         a \in U \union C \union P => attempts[a].state # "absent"
  PROVE  Keeps(attempts[a], AttemptsAfter(U, C, P)[a])
<1>1. attempts[a] \in AttemptRecord BY DEF TypeOK
<1>2. CASE a \notin U \union C \union P BY <1>2, KeepsItself DEF AttemptsAfter
<1>3. CASE a \in U BY <1>1, <1>3, RowKeeps DEF AttemptsAfter
<1>4. CASE a \notin U /\ a \in C \union P
  <2>1. PICK obs : AttemptsAfter(U, C, P)[a] = Abandoned(attempts[a], obs)
    BY <1>4 DEF AttemptsAfter
  <2>. QED BY <1>1, <1>4, <2>1, RowKeeps
<1>. QED BY <1>2, <1>3, <1>4

LEMMA SweepCalm == ASSUME TypeOK, Sweep PROVE Calm
<1>1. PICK at \in Recent :
        \E U1 \in StaleToSweep("cli", AcceptTimeout, at),
           C \in DueToSweep("cli", at),
           U2 \in StaleToSweep("codex_app_server", AppServerAcceptTimeout, at),
           P \in DueToSweep("codex_app_server", at) :
          SweepTables(U1 \union U2, C, P, at)
  BY DEF Sweep
<1>2. PICK U1 \in StaleToSweep("cli", AcceptTimeout, at),
           C \in DueToSweep("cli", at),
           U2 \in StaleToSweep("codex_app_server", AppServerAcceptTimeout, at),
           P \in DueToSweep("codex_app_server", at) :
          SweepTables(U1 \union U2, C, P, at)
  BY <1>1
<1>. DEFINE U == U1 \union U2
            as == AttemptsAfter(U, C, P)
<1>3. \A a \in Attempt : a \in U \union C \union P => attempts[a].state # "absent"
  BY DEF StaleToSweep, DueToSweep, Oldest, StaleAcceptances, DueObservations, IsAcceptPending
<1>4. as \in AttemptTable BY AttemptsAfterType DEF AttemptTable
<1>5. PICK B : attempts' = AttemptsClosedWith(as, B) BY <1>2 DEF SweepTables
<1>6. \A a \in Attempt : Keeps(attempts[a], as[a]) BY <1>3, SweptKeeps
<1>. HIDE DEF as
<1>. QED BY <1>4, <1>5, <1>6, ClosedWithKeeps, KeepsTwice DEF Calm

(***************************************************************************)
(* Types.                                                                  *)
(***************************************************************************)

Sending == {"enqueueing", "beginning", "sending", "accepting", "leasing"}

CallsFit == \A c \in Conn : conns[c].doing \in Sending => conns[c].attempt \in Attempt

PluginType ==
  /\ conns \in [Conn -> ConnRecord]
  /\ holders \in [Instance -> SUBSET Conn]
  /\ service \in ServiceRecord
  /\ server \in ServerRecord
  /\ turns \in [Attempt -> TurnStates]
  /\ CallsFit

LEMMA IdsAreKnown ==
  /\ \A c \in Conn : InstanceOf[c] \in Instance
  /\ \A b \in Batch : <<b, 1>> \in Attempt
BY ConnAssumption, PluginAssumption

OthersWait(c) == \A d \in Conn \ {c} : conns'[d] = conns[d]

(* What becomes of a connection c, and of no other.                        *)
LEMMA CallFacts ==
  ASSUME PluginType, NEW c \in Conn
  PROVE  /\ \A doing \in Busy : Does(c, doing) =>
              /\ conns' \in [Conn -> ConnRecord] /\ OthersWait(c)
              /\ conns'[c].doing = doing /\ conns'[c].lease = conns[c].lease
              /\ conns'[c].attempt = conns[c].attempt /\ conns'[c].since = conns[c].since
         /\ Idles(c) =>
              /\ conns' \in [Conn -> ConnRecord] /\ OthersWait(c)
              /\ conns'[c].doing = "idle" /\ conns'[c].lease = conns[c].lease
         /\ Drops(c) =>
              /\ conns' \in [Conn -> ConnRecord] /\ OthersWait(c)
              /\ conns'[c].doing = "idle" /\ conns'[c].lease = FALSE
         /\ \A doing \in Busy, a \in Attempt : TypeOK /\ Delivers(c, doing, a) =>
              /\ conns' \in [Conn -> ConnRecord] /\ OthersWait(c)
              /\ conns'[c].doing = doing /\ conns'[c].lease = conns[c].lease
              /\ conns'[c].attempt = a /\ conns'[c].since = clock
<1>1. conns \in [Conn -> ConnRecord] /\ conns[c] \in ConnRecord BY DEF PluginType
<1>2. FreshConn \in ConnRecord BY DEF FreshConn, ConnRecord
<1>3. \A doing \in Busy : [conns[c] EXCEPT !.doing = doing] \in ConnRecord
  BY <1>1 DEF ConnRecord
<1>4. [FreshConn EXCEPT !.lease = conns[c].lease] \in ConnRecord BY <1>1 DEF FreshConn, ConnRecord
<1>5. ASSUME NEW doing \in Busy, Does(c, doing)
      PROVE  /\ conns' \in [Conn -> ConnRecord] /\ OthersWait(c)
             /\ conns'[c].doing = doing /\ conns'[c].lease = conns[c].lease
             /\ conns'[c].attempt = conns[c].attempt /\ conns'[c].since = conns[c].since
  <2>1. conns' = [conns EXCEPT ![c] = [conns[c] EXCEPT !.doing = doing]] BY <1>1, <1>5 DEF Does
  <2>2. conns' \in [Conn -> ConnRecord] BY <1>1, <1>3, <2>1
  <2>3. conns'[c] = [conns[c] EXCEPT !.doing = doing] BY <1>1, <2>1
  <2>. QED BY <1>1, <2>1, <2>2, <2>3 DEF OthersWait, ConnRecord
<1>6. ASSUME Idles(c)
      PROVE  /\ conns' \in [Conn -> ConnRecord] /\ OthersWait(c)
             /\ conns'[c].doing = "idle" /\ conns'[c].lease = conns[c].lease
  BY <1>1, <1>4, <1>6 DEF Idles, OthersWait, FreshConn
<1>7. ASSUME Drops(c)
      PROVE  /\ conns' \in [Conn -> ConnRecord] /\ OthersWait(c)
             /\ conns'[c].doing = "idle" /\ conns'[c].lease = FALSE
  BY <1>1, <1>2, <1>7 DEF Drops, OthersWait, FreshConn
<1>8. ASSUME NEW doing \in Busy, NEW a \in Attempt, TypeOK, Delivers(c, doing, a)
      PROVE  /\ conns' \in [Conn -> ConnRecord] /\ OthersWait(c)
             /\ conns'[c].doing = doing /\ conns'[c].lease = conns[c].lease
             /\ conns'[c].attempt = a /\ conns'[c].since = clock
  <2>. DEFINE r == [conns[c] EXCEPT !.doing = doing, !.attempt = a, !.since = clock]
  <2>1. conns' = [conns EXCEPT ![c] = r] BY <1>1, <1>8 DEF Delivers
  <2>2. clock \in Nat BY <1>8 DEF TypeOK
  <2>3. /\ r \in ConnRecord /\ r.doing = doing /\ r.lease = conns[c].lease
        /\ r.attempt = a /\ r.since = clock
    BY <1>1, <2>2 DEF ConnRecord
  <2>. HIDE DEF r
  <2>. QED BY <1>1, <2>1, <2>3 DEF OthersWait
<1>. QED BY <1>5, <1>6, <1>7, <1>8

LEMMA ServerTypes ==
  ASSUME PluginType, TypeOK
  PROVE  /\ \A i \in Instance, ttl \in Nat : Ensured(i, ttl) => server' \in ServerRecord
         /\ \A ttl \in Nat : Renewed(ttl) => server' \in ServerRecord
         /\ \A state \in {"gone", "stopped"}, turn \in TurnStates :
              Ends(state, turn) => server' \in ServerRecord /\ turns' \in [Attempt -> TurnStates]
<1>1. clock \in Nat /\ DeliveryTtl \in Nat BY PluginAssumption DEF TypeOK
<1>2. server \in ServerRecord /\ turns \in [Attempt -> TurnStates] BY DEF PluginType
<1>3. \A i \in Instance, ttl \in Nat : Ensured(i, ttl) => server' \in ServerRecord
  BY <1>1 DEF Ensured, ServerRecord
<1>4. ASSUME NEW ttl \in Nat, Renewed(ttl) PROVE server' \in ServerRecord
  <2>. DEFINE short == ttl < DeliveryTtl
  <2>1. short \in BOOLEAN /\ clock + ttl \in Nat BY <1>1
  <2>2. server' = [server EXCEPT !.expires = clock + ttl, !.short = short] BY <1>4 DEF Renewed
  <2>. HIDE DEF short
  <2>. QED BY <1>2, <2>1, <2>2 DEF ServerRecord
<1>5. ASSUME NEW state \in {"gone", "stopped"}, NEW turn \in TurnStates, Ends(state, turn)
      PROVE  server' \in ServerRecord /\ turns' \in [Attempt -> TurnStates]
  <2>1. server' \in ServerRecord BY <1>5 DEF Ends, NoServer, ServerRecord
  <2>2. turns' \in [Attempt -> TurnStates] BY <1>2, <1>5 DEF Ends
  <2>. QED BY <2>1, <2>2
<1>. QED BY <1>3, <1>4, <1>5

LEMMA StopTypes ==
  ASSUME PluginType, TypeOK, NEW i, NEW turn \in TurnStates,
         StoppedAtBest(i, turn) \/ StoppedFor(i, turn)
  PROVE  server' \in ServerRecord /\ turns' \in [Attempt -> TurnStates]
<1>1. CASE UNCHANGED <<server, turns>> BY <1>1 DEF PluginType
<1>2. CASE Ends("stopped", turn) BY <1>2, ServerTypes
<1>. QED BY <1>1, <1>2 DEF StoppedAtBest, StoppedFor

LEMMA OneCallFits ==
  ASSUME PluginType, NEW c \in Conn, OthersWait(c),
         conns'[c].doing \in Sending => conns'[c].attempt \in Attempt
  PROVE  CallsFit'
BY DEF PluginType, CallsFit, OthersWait

LEMMA SomeType ==
  ASSUME PluginType
  PROVE  /\ UNCHANGED conns => conns' \in [Conn -> ConnRecord] /\ CallsFit'
         /\ UNCHANGED holders => holders' \in [Instance -> SUBSET Conn]
         /\ UNCHANGED service => service' \in ServiceRecord
         /\ UNCHANGED server => server' \in ServerRecord
         /\ UNCHANGED turns => turns' \in [Attempt -> TurnStates]
BY DEF PluginType, CallsFit

LEMMA CallType ==
  ASSUME PluginType, NEW c \in Conn
  PROVE  /\ \A doing \in Busy : Does(c, doing) /\ (doing \in Sending => conns[c].doing \in Sending)
              => conns' \in [Conn -> ConnRecord] /\ CallsFit'
         /\ Idles(c) \/ Drops(c) => conns' \in [Conn -> ConnRecord] /\ CallsFit'
         /\ \A doing \in Busy, a \in Attempt : TypeOK /\ Delivers(c, doing, a)
              => conns' \in [Conn -> ConnRecord] /\ CallsFit'
<1>1. ASSUME NEW doing \in Busy, Does(c, doing), doing \in Sending => conns[c].doing \in Sending
      PROVE  conns' \in [Conn -> ConnRecord] /\ CallsFit'
  <2>1. /\ conns' \in [Conn -> ConnRecord] /\ OthersWait(c)
        /\ conns'[c].doing = doing /\ conns'[c].attempt = conns[c].attempt
    BY <1>1, CallFacts
  <2>2. doing \in Sending => conns[c].attempt \in Attempt BY <1>1 DEF PluginType, CallsFit
  <2>. QED BY <2>1, <2>2, OneCallFits
<1>2. ASSUME Idles(c) \/ Drops(c) PROVE conns' \in [Conn -> ConnRecord] /\ CallsFit'
  <2>1. conns' \in [Conn -> ConnRecord] /\ OthersWait(c) /\ conns'[c].doing = "idle"
    BY <1>2, CallFacts
  <2>. QED BY <2>1, OneCallFits DEF Sending
<1>3. ASSUME NEW doing \in Busy, NEW a \in Attempt, TypeOK, Delivers(c, doing, a)
      PROVE  conns' \in [Conn -> ConnRecord] /\ CallsFit'
  <2>1. conns' \in [Conn -> ConnRecord] /\ OthersWait(c) /\ conns'[c].attempt = a
    BY <1>3, CallFacts
  <2>. QED BY <2>1, OneCallFits
<1>. QED BY <1>1, <1>2, <1>3

LEMMA HoldersType ==
  ASSUME PluginType, NEW c \in Conn, NEW i \in Instance
  PROVE  /\ holders' = [holders EXCEPT ![i] = @ \union {c}] => holders' \in [Instance -> SUBSET Conn]
         /\ \A D : holders' = [holders EXCEPT ![i] = @ \ D] => holders' \in [Instance -> SUBSET Conn]
         /\ holders' = [holders EXCEPT ![i] = {}] => holders' \in [Instance -> SUBSET Conn]
BY DEF PluginType

LEMMA LeaseStepType ==
  ASSUME TypeOK, PluginType, NEW c \in Conn, LeaseStep(c) PROVE PluginType'
<1>. DEFINE i == InstanceOf[c]
<1>i. i \in Instance BY IdsAreKnown
<1>b. /\ {"ensuring", "ensured", "refused", "unfollowed", "stopping"} \subseteq Busy
      /\ {"ensuring", "ensured", "refused", "unfollowed", "stopping"} \cap Sending = {}
  BY DEF Busy, Sending
<1>f. \A fate \in {"undone", "stopped", "cut"} : By(fate) \in TurnStates BY DEF By, TurnStates
<1>t. PluginTtls \subseteq Nat BY PluginAssumption
<1>. HIDE DEF i
<1>1. CASE EnsureStarts(c)
  <2>. DEFINE r == [conns[c] EXCEPT !.doing = "ensuring", !.lease = TRUE, !.joined = ~conns[c].lease]
  <2>1. conns \in [Conn -> ConnRecord] /\ conns[c] \in ConnRecord BY DEF PluginType
  <2>2. r \in ConnRecord /\ r.doing = "ensuring" BY <2>1 DEF ConnRecord, Busy
  <2>3. conns' = [conns EXCEPT ![c] = r] BY <1>1, <2>1 DEF EnsureStarts
  <2>. HIDE DEF r
  <2>4. conns' \in [Conn -> ConnRecord] /\ OthersWait(c) /\ conns'[c].doing = "ensuring"
    BY <2>1, <2>2, <2>3 DEF OthersWait
  <2>5. CallsFit' BY <2>4, OneCallFits DEF Sending
  <2>6. holders' \in [Instance -> SUBSET Conn]
    BY <1>1, <1>i, HoldersType, SomeType DEF EnsureStarts, Join, i
  <2>. QED BY <1>1, <2>4, <2>5, <2>6, SomeType DEF EnsureStarts, PluginType
<1>2. CASE EnsureAsks(c)
  <2>1. conns' \in [Conn -> ConnRecord] /\ CallsFit' BY <1>2, <1>b, CallType DEF EnsureAsks
  <2>2. server' \in ServerRecord BY <1>2, <1>i, <1>t, ServerTypes, SomeType DEF EnsureAsks, i
  <2>. QED BY <1>2, <2>1, <2>2, SomeType DEF EnsureAsks, PluginType
<1>3. CASE EnsureEnds(c)
  BY <1>3, <1>i, CallType, HoldersType, SomeType DEF EnsureEnds, PluginType, i
<1>4. CASE EnsureFails(c)
  <2>1. conns' \in [Conn -> ConnRecord] /\ CallsFit' BY <1>4, CallType DEF EnsureFails
  <2>2. holders' \in [Instance -> SUBSET Conn]
    BY <1>4, <1>i, HoldersType, SomeType DEF EnsureFails, i
  <2>3. server' \in ServerRecord /\ turns' \in [Attempt -> TurnStates]
    BY <1>4, <1>f, StopTypes, SomeType DEF EnsureFails
  <2>. QED BY <1>4, <2>1, <2>2, <2>3, SomeType DEF EnsureFails, PluginType
<1>5. CASE RefreshLease(c)
  <2>1. server' \in ServerRecord BY <1>5, <1>t, ServerTypes DEF RefreshLease
  <2>. QED BY <1>5, <2>1, SomeType DEF RefreshLease, PluginType, brokerVars
<1>6. CASE StopStarts(c)
  <2>1. conns' \in [Conn -> ConnRecord] /\ CallsFit' BY <1>6, <1>b, CallType DEF StopStarts
  <2>. QED BY <1>6, <2>1, SomeType DEF StopStarts, PluginType
<1>7. CASE StopAsks(c)
  <2>1. conns' \in [Conn -> ConnRecord] /\ CallsFit' BY <1>7, CallType DEF StopAsks
  <2>2. holders' \in [Instance -> SUBSET Conn] BY <1>7, <1>i, HoldersType, SomeType DEF StopAsks, i
  <2>3. server' \in ServerRecord /\ turns' \in [Attempt -> TurnStates]
    BY <1>7, <1>f, StopTypes, SomeType DEF StopAsks
  <2>. QED BY <1>7, <2>1, <2>2, <2>3, SomeType DEF StopAsks, PluginType
<1>8. CASE Disconnect(c)
  <2>1. conns' \in [Conn -> ConnRecord] /\ CallsFit' BY <1>8, CallType DEF Disconnect
  <2>2. holders' \in [Instance -> SUBSET Conn]
    BY <1>8, <1>i, HoldersType, SomeType DEF Disconnect, i
  <2>3. server' \in ServerRecord /\ turns' \in [Attempt -> TurnStates]
    BY <1>8, <1>f, StopTypes, SomeType DEF Disconnect, Released
  <2>. QED BY <1>8, <2>1, <2>2, <2>3, SomeType DEF Disconnect, PluginType
<1>. QED BY <1>1, <1>2, <1>3, <1>4, <1>5, <1>6, <1>7, <1>8 DEF LeaseStep

LEMMA EnqueueStepType ==
  ASSUME TypeOK, PluginType, NEW c \in Conn, EnqueueStep(c) PROVE PluginType'
<1>b. Sending \subseteq Busy BY DEF Busy, Sending
<1>d. DeliveryTtl \in Nat BY PluginAssumption
<1>r. \A a \in Attempt : StartsTurn(a) => turns' \in [Attempt -> TurnStates]
  BY DEF StartsTurn, PluginType, TurnStates
<1>1. ASSUME NEW b \in Batch, EnqueueStarts(c, b) PROVE PluginType'
  <2>1. <<b, 1>> \in Attempt /\ "enqueueing" \in Busy BY IdsAreKnown DEF Busy
  <2>2. conns' \in [Conn -> ConnRecord] /\ CallsFit' BY <1>1, <2>1, CallType DEF EnqueueStarts
  <2>3. server' \in ServerRecord BY <1>1, <1>d, ServerTypes DEF EnqueueStarts, Targets
  <2>. QED BY <1>1, <2>2, <2>3, SomeType DEF EnqueueStarts, PluginType
<1>2. ASSUME NEW b \in Batch, ReplayStarts(c, b) PROVE PluginType'
  <2>. DEFINE next == <<b, Cardinality(OnBatch(b)) + 1>>
  <2>1. next \in Attempt /\ Delivers(c, "beginning", next) BY <1>2 DEF ReplayStarts
  <2>. HIDE DEF next
  <2>2. "beginning" \in Busy BY DEF Busy
  <2>3. conns' \in [Conn -> ConnRecord] /\ CallsFit' BY <2>1, <2>2, CallType
  <2>4. server' \in ServerRecord BY <1>2, <1>d, ServerTypes DEF ReplayStarts, Targets
  <2>. QED BY <1>2, <2>3, <2>4, SomeType DEF ReplayStarts, PluginType
<1>3. ASSUME NEW b \in Batch, ReplayRecovers(c, b) PROVE PluginType'
  BY <1>3, SomeType DEF ReplayRecovers, brokerVars, PluginType
<1>4. CASE EnqueueInserts(c)
  <2>1. conns' \in [Conn -> ConnRecord] /\ CallsFit'
    BY <1>4, <1>b, CallType DEF EnqueueInserts, GivesUp, Sending
  <2>. QED BY <1>4, <2>1, SomeType DEF EnqueueInserts, UnchangedAround, PluginType
<1>5. CASE BeginRow(c)
  <2>1. conns' \in [Conn -> ConnRecord] /\ CallsFit'
    BY <1>5, <1>b, CallType DEF BeginRow, GivesUp, Sending
  <2>. QED BY <1>5, <2>1, SomeType DEF BeginRow, UnchangedAround, PluginType
<1>6. CASE TurnStarted(c)
  <2>1. conns' \in [Conn -> ConnRecord] /\ CallsFit' BY <1>6, <1>b, CallType DEF TurnStarted, Sending
  <2>2. conns[c].attempt \in Attempt BY <1>6 DEF TurnStarted, PluginType, CallsFit, Sending
  <2>. QED BY <1>6, <1>r, <2>1, <2>2, SomeType DEF TurnStarted, PluginType
<1>7. CASE TurnUnanswered(c)
  <2>1. conns' \in [Conn -> ConnRecord] /\ CallsFit' BY <1>7, CallType DEF TurnUnanswered
  <2>2. conns[c].attempt \in Attempt BY <1>7 DEF TurnUnanswered, PluginType, CallsFit, Sending
  <2>. QED BY <1>7, <1>r, <2>1, <2>2, SomeType DEF TurnUnanswered, PluginType
<1>8. CASE TurnAccepted(c)
  <2>1. conns' \in [Conn -> ConnRecord] /\ CallsFit'
    BY <1>8, <1>b, CallType DEF TurnAccepted, GivesUp, Sending
  <2>. QED BY <1>8, <2>1, SomeType DEF TurnAccepted, UnchangedAround, PluginType
<1>9. CASE LeaseForTurn(c)
  <2>1. conns' \in [Conn -> ConnRecord] /\ CallsFit' BY <1>9, CallType DEF LeaseForTurn
  <2>2. server' \in ServerRecord BY <1>9, <1>d, ServerTypes, SomeType DEF LeaseForTurn
  <2>. QED BY <1>9, <2>1, <2>2, SomeType DEF LeaseForTurn, PluginType
<1>10. CASE TurnRejected(c)
  <2>1. conns' \in [Conn -> ConnRecord] /\ CallsFit' BY <1>10, CallType DEF TurnRejected
  <2>. QED BY <1>10, <2>1, SomeType DEF TurnRejected, UnchangedAround, PluginType
<1>. QED BY <1>1, <1>2, <1>3, <1>4, <1>5, <1>6, <1>7, <1>8, <1>9, <1>10 DEF EnqueueStep

LEMMA ServiceStepType == ASSUME TypeOK, PluginType, ServiceStep PROVE PluginType'
<1>s. service \in ServiceRecord BY DEF PluginType
<1>l. LastInstance \in Nat BY PluginAssumption
<1>1. CASE PluginRestarts
  <2>1. service' \in ServiceRecord BY <1>1, <1>s, <1>l DEF PluginRestarts, ServiceRecord
  <2>. QED BY <1>1, <2>1, SomeType DEF PluginRestarts, PluginType
<1>2. CASE Drain
  <2>1. service' \in ServiceRecord BY <1>2, <1>s, <1>l DEF Drain, ServiceRecord
  <2>2. holders' \in [Instance -> SUBSET Conn] BY <1>2 DEF Drain
  <2>. QED BY <1>2, <2>1, <2>2, SomeType DEF Drain, PluginType
<1>3. CASE ServiceEnds
  <2>1. service' \in ServiceRecord BY <1>3, <1>s DEF ServiceEnds, ServiceRecord
  <2>2. holders' \in [Instance -> SUBSET Conn] BY <1>3 DEF ServiceEnds
  <2>3. FreshConn \in ConnRecord /\ FreshConn.doing = "idle" BY DEF FreshConn, ConnRecord
  <2>4. conns' \in [Conn -> ConnRecord] /\ \A c \in Conn : conns'[c].doing = "idle"
    BY <1>3, <2>3 DEF ServiceEnds
  <2>. QED BY <1>3, <2>1, <2>2, <2>4, SomeType DEF ServiceEnds, PluginType, CallsFit, Sending
<1>4. CASE ServiceStarts
  <2>1. service.current + 1 \in 1 .. LastInstance + 1
    BY <1>4, <1>s, <1>l DEF ServiceStarts, ServiceRecord
  <2>2. service' = [service EXCEPT !.phase = "running", !.current = service.current + 1]
    BY <1>4, <1>s DEF ServiceStarts, ServiceRecord
  <2>3. service' \in ServiceRecord BY <1>s, <2>1, <2>2 DEF ServiceRecord
  <2>. QED BY <1>4, <2>3, SomeType DEF ServiceStarts, PluginType
<1>5. ASSUME NEW i \in Instance, DrainChecks(i) PROVE PluginType'
  <2>1. service' \in ServiceRecord BY <1>5, <1>s DEF DrainChecks, ServiceRecord
  <2>. QED BY <1>5, <2>1, SomeType DEF DrainChecks, PluginType
<1>6. ASSUME NEW i \in Instance, DrainStops(i) PROVE PluginType'
  <2>1. service' \in ServiceRecord BY <1>6, <1>s DEF DrainStops, ServiceRecord
  <2>2. server' \in ServerRecord /\ turns' \in [Attempt -> TurnStates]
    BY <1>6, StopTypes DEF DrainStops, TurnStates
  <2>. QED BY <1>6, <2>1, <2>2, SomeType DEF DrainStops, PluginType
<1>. QED BY <1>1, <1>2, <1>3, <1>4, <1>5, <1>6 DEF ServiceStep

LEMMA PluginTypeStep == ASSUME TypeOK, PluginType, [PluginNext]_pluginVars PROVE PluginType'
<1>1. ASSUME NEW c \in Conn, InspectStep(c) PROVE PluginType'
  <2>1. ASSUME NEW a \in Attempt, Inspects(c, a) PROVE PluginType'
    <3>1. server' \in ServerRecord BY <2>1, PluginAssumption, ServerTypes DEF Inspects, Targets
    <3>. QED BY <2>1, <3>1, SomeType DEF Inspects, brokerVars, PluginType
  <2>2. ASSUME NEW b \in Batch, Manualizes(c, b) PROVE PluginType'
    BY <2>2, SomeType DEF Manualizes, PluginType
  <2>. QED BY <1>1, <2>1, <2>2 DEF InspectStep
<1>2. CASE ServerStep
  <2>1. CASE ReapServer
    <3>1. (IF server.short THEN "lapsed" ELSE "cut") \in TurnStates BY DEF TurnStates
    <3>2. server' \in ServerRecord /\ turns' \in [Attempt -> TurnStates]
      BY <2>1, <3>1, ServerTypes DEF ReapServer
    <3>. QED BY <1>2, <3>2, SomeType DEF ServerStep, brokerVars, PluginType
  <2>2. CASE ServerExits
    <3>1. server' \in ServerRecord /\ turns' \in [Attempt -> TurnStates]
      BY <2>2, ServerTypes DEF ServerExits, TurnStates
    <3>. QED BY <1>2, <3>1, SomeType DEF ServerStep, brokerVars, PluginType
  <2>3. ASSUME NEW a \in Attempt, TurnEnds(a) PROVE PluginType'
    <3>1. turns' \in [Attempt -> TurnStates] BY <2>3 DEF TurnEnds, PluginType, TurnStates
    <3>. QED BY <1>2, <2>3, <3>1, SomeType DEF ServerStep, TurnEnds, brokerVars, PluginType
  <2>. QED BY <1>2, <2>1, <2>2, <2>3 DEF ServerStep
<1>3. CASE StoreStep BY <1>3, SomeType DEF StoreStep, PluginType
<1>4. CASE UNCHANGED pluginVars BY <1>4, SomeType DEF pluginVars, PluginType
<1>. QED BY <1>1, <1>2, <1>3, <1>4, LeaseStepType, EnqueueStepType, ServiceStepType DEF PluginNext

(***************************************************************************)
(* The service only ever changes the store by the transactions of the      *)
(* store.                                                                  *)
(***************************************************************************)

LEMMA StoreCalls ==
  /\ \A b \in Batch : EnqueuePlugin(b) \/ ManualizePlugin(b) => Next
  /\ \A a \in Attempt, b \in Batch : BeginAppServer(a, b) => Next
  /\ \A a \in Attempt : AcceptAppServer(a) \/ AbandonAppServerUnknown(a) => Next
  /\ \A a \in Attempt, manual \in BOOLEAN : RejectAppServer(a, manual) => Next
  /\ \A a \in Attempt, event \in TurnEvents : ObserveAppServer(a, event) => Next
  /\ Sweep \/ Tick => Next
<1>1. \A b \in Batch : EnqueuePlugin(b) \/ ManualizePlugin(b) => QueueNext BY DEF QueueNext
<1>2. \A a \in Attempt, b \in Batch : BeginAppServer(a, b) => AppServerNext BY DEF AppServerNext
<1>3. \A a \in Attempt : AcceptAppServer(a) \/ AbandonAppServerUnknown(a) => AppServerNext
  BY DEF AppServerNext
<1>4. \A a \in Attempt, manual \in BOOLEAN : RejectAppServer(a, manual) => AppServerNext
  BY DEF AppServerNext
<1>5. \A a \in Attempt, event \in TurnEvents : ObserveAppServer(a, event) => AppServerNext
  BY DEF AppServerNext
<1>. QED BY <1>1, <1>2, <1>3, <1>4, <1>5 DEF Next

LEMMA IdsOf == \A a \in Attempt : a[1] \in Batch BY PluginAssumption

LEMMA IsStoreStep == ASSUME PluginType, [PluginNext]_pluginVars PROVE [Next]_vars
<1>u. UNCHANGED storeVars => UNCHANGED vars BY DEF storeVars, vars
<1>1. ASSUME NEW c \in Conn, LeaseStep(c) PROVE UNCHANGED vars
  BY <1>1, <1>u DEF LeaseStep, EnsureStarts, EnsureAsks, EnsureEnds, EnsureFails, RefreshLease,
                    StopStarts, StopAsks, Disconnect
<1>2. ASSUME NEW c \in Conn, EnqueueStep(c) PROVE [Next]_vars
  <2>s. conns[c].doing \in Sending => conns[c].attempt \in Attempt /\ conns[c].attempt[1] \in Batch
    BY IdsOf DEF PluginType, CallsFit
  <2>1. ASSUME NEW b \in Batch, EnqueueStarts(c, b) \/ ReplayStarts(c, b) PROVE UNCHANGED vars
    BY <2>1, <1>u DEF EnqueueStarts, ReplayStarts
  <2>2. ASSUME NEW b \in Batch, ReplayRecovers(c, b) PROVE Next
    BY <2>2, StoreCalls DEF ReplayRecovers, LastAttempts, OnBatch
  <2>3. CASE EnqueueInserts(c)
    BY <2>3, <2>s, <1>u, StoreCalls DEF EnqueueInserts, GivesUp, Sending
  <2>4. CASE BeginRow(c)
    BY <2>4, <2>s, <1>u, StoreCalls DEF BeginRow, Begins, GivesUp, Sending
  <2>5. CASE TurnStarted(c) \/ TurnUnanswered(c) \/ LeaseForTurn(c)
    BY <2>5, <1>u DEF TurnStarted, TurnUnanswered, LeaseForTurn
  <2>6. CASE TurnAccepted(c)
    BY <2>6, <2>s, <1>u, StoreCalls DEF TurnAccepted, GivesUp, Sending
  <2>7. CASE TurnRejected(c)
    BY <2>7, <2>s, <1>u, StoreCalls DEF TurnRejected, Sending
  <2>. QED BY <1>2, <2>1, <2>2, <2>3, <2>4, <2>5, <2>6, <2>7 DEF EnqueueStep
<1>3. ASSUME NEW c \in Conn, InspectStep(c) PROVE [Next]_vars
  <2>1. ASSUME NEW a \in Attempt, Inspects(c, a) PROVE [Next]_vars
    <3>1. EventsOf(turns[a]) \subseteq TurnEvents BY DEF EventsOf, TurnEvents
    <3>. QED BY <2>1, <3>1, <1>u, StoreCalls DEF Inspects
  <2>2. ASSUME NEW b \in Batch, Manualizes(c, b) PROVE Next BY <2>2, StoreCalls DEF Manualizes
  <2>. QED BY <1>3, <2>1, <2>2 DEF InspectStep
<1>4. CASE ServiceStep
  BY <1>4, <1>u DEF ServiceStep, PluginRestarts, Drain, ServiceEnds, ServiceStarts, DrainChecks,
                    DrainStops
<1>5. CASE ServerStep BY <1>5, <1>u DEF ServerStep
<1>6. CASE StoreStep BY <1>6, StoreCalls DEF StoreStep
<1>7. CASE UNCHANGED pluginVars BY <1>7 DEF pluginVars, vars
<1>. QED BY <1>1, <1>2, <1>3, <1>4, <1>5, <1>6, <1>7 DEF PluginNext

(***************************************************************************)
(* The steps of PluginNext, by what they mean for the turns and the lease. *)
(***************************************************************************)

(* The lease of an app-server that goes on, as long as a delivery asks for.  *)
Fresh == server'.state = "live" /\ ~server'.short => server'.expires >= clock + DeliveryTtl

(* What cbth itself cuts a turn by: no delivery is active, or the lease ended. *)
MayCut == \/ ~ActiveDelivery
          \/ server.state = "live" /\ ~server.short /\ server.expires <= clock

TurnsGoOn == \A a \in Attempt :
  \/ turns'[a] = turns[a]
  \/ /\ turns[a] = "running"
     /\ turns'[a] \in {"ended", "stopped", "undone", "lapsed", "cut", "lost"}
     /\ turns'[a] = "cut" => MayCut

CallGoesOn(c) == \/ conns'[c] = conns[c]
                 \/ conns'[c].doing \notin Sending
                 \/ /\ conns'[c].doing \in {"enqueueing", "beginning"}
                    /\ conns'[c].since = clock /\ Fresh

(* Nothing is begun, sent, refused or accepted. *)
Around == /\ Calm /\ clock' = clock
          /\ server' = server \/ Fresh
          /\ TurnsGoOn
          /\ \A c \in Conn : CallGoesOn(c)

IsSending(c, a) == conns[c].doing = "sending" /\ conns[c].attempt = a

(* c goes on with its delivery, and the lease and the other calls stay. *)
MovesOn(c, doing) ==
  /\ OthersWait(c) /\ server' = server /\ clock' = clock
  /\ conns'[c].doing = doing
  /\ doing \in Sending =>
       /\ conns'[c].attempt = conns[c].attempt /\ conns'[c].since = conns[c].since
       /\ conns[c].doing \in Sending

OthersSame(a) == \A d \in Attempt \ {a} : attempts'[d] = attempts[d]

Begun(c, a) ==
  /\ conns[c].attempt = a /\ MovesOn(c, "sending") /\ turns' = turns
  /\ attempts[a].state = "absent" /\ OthersSame(a)
  /\ \E g, at : attempts'[a] = NewAppServerAttempt(a[1], g, at)

Started(c, a) ==
  /\ IsSending(c, a) /\ (MovesOn(c, "accepting") \/ MovesOn(c, "idle"))
  /\ StartsTurn(a) /\ attempts' = attempts

Refused(c, a) ==
  /\ IsSending(c, a) /\ MovesOn(c, "idle") /\ turns' = turns
  /\ OthersSame(a) /\ attempts'[a] = Rejected(attempts[a])

Accepted(c, a) ==
  /\ conns[c].doing = "accepting" /\ conns[c].attempt = a
  /\ MovesOn(c, "leasing") /\ turns' = turns
  /\ IsAcceptPending(a, "codex_app_server") /\ OthersSame(a)
  /\ \E at \in Recent :
       attempts'[a] = [attempts[a] EXCEPT !.state = "cooldown", !.rpc = "accepted",
                         !.obs = "tracking", !.deadline = at + ObservationWindow]

Ticked ==
  /\ clock' = clock + 1
  /\ \A c \in Conn : conns[c].doing \in Sending => clock < conns[c].since + CallTime
  /\ UNCHANGED <<attempts, conns, server, turns>>

Kinds == \/ Around
         \/ \E c \in Conn, a \in Attempt :
              Begun(c, a) \/ Started(c, a) \/ Refused(c, a) \/ Accepted(c, a)
         \/ Ticked

LEMMA NothingMoves ==
  /\ attempts' = attempts => Calm
  /\ turns' = turns => TurnsGoOn
  /\ conns' = conns => \A c \in Conn : CallGoesOn(c)
BY KeepsItself DEF Calm, TurnsGoOn, CallGoesOn

LEMMA ServerFacts ==
  ASSUME TypeOK, PluginType
  PROVE  /\ \A i, ttl : ttl \in PluginTtls \/ ttl = DeliveryTtl =>
              (Ensured(i, ttl) \/ (server.state = "live" /\ Renewed(ttl)) => Fresh)
         /\ \A state \in {"gone", "stopped"} : \A turn : Ends(state, turn) =>
              /\ Fresh
              /\ /\ turn \in {"stopped", "undone", "lapsed", "cut", "lost"}
                 /\ turn = "cut" => MayCut
                 => TurnsGoOn
<1>1. clock \in Nat /\ DeliveryTtl \in Nat /\ PluginTtls \subseteq Nat
  BY PluginAssumption DEF TypeOK
<1>2. server \in ServerRecord BY DEF PluginType
<1>3. ASSUME NEW i, NEW ttl \in Nat, Ensured(i, ttl) PROVE Fresh
  <2>. DEFINE short == ttl < DeliveryTtl
  <2>1. server'.expires = clock + ttl /\ server'.short = short BY <1>3 DEF Ensured
  <2>2. ~short => clock + ttl >= clock + DeliveryTtl BY <1>1
  <2>. HIDE DEF short
  <2>. QED BY <2>1, <2>2 DEF Fresh
<1>4. ASSUME NEW ttl \in Nat, Renewed(ttl) PROVE Fresh
  <2>. DEFINE short == ttl < DeliveryTtl
  <2>1. server' = [server EXCEPT !.expires = clock + ttl, !.short = short] BY <1>4 DEF Renewed
  <2>2. ~short => clock + ttl >= clock + DeliveryTtl BY <1>1
  <2>. HIDE DEF short
  <2>. QED BY <1>2, <2>1, <2>2 DEF Fresh, ServerRecord
<1>5. ASSUME NEW state \in {"gone", "stopped"}, NEW turn, Ends(state, turn)
      PROVE  /\ Fresh
             /\ /\ turn \in {"stopped", "undone", "lapsed", "cut", "lost"}
                /\ turn = "cut" => MayCut
                => TurnsGoOn
  BY <1>5 DEF Ends, NoServer, Fresh, TurnsGoOn
<1>. QED BY <1>1, <1>3, <1>4, <1>5

LEMMA StopFacts ==
  ASSUME TypeOK, PluginType, NEW i, NEW turn \in {"stopped", "undone", "cut", "lost"},
         turn = "cut" => MayCut,
         StoppedAtBest(i, turn) \/ StoppedFor(i, turn)
  PROVE  (server' = server \/ Fresh) /\ TurnsGoOn
<1>1. CASE UNCHANGED <<server, turns>> BY <1>1, NothingMoves
<1>2. CASE Ends("stopped", turn) BY <1>2, ServerFacts
<1>. QED BY <1>1, <1>2 DEF StoppedAtBest, StoppedFor

(* A connection that turns to something else, or starts a delivery now. *)
LEMMA OthersGoOn ==
  ASSUME NEW c \in Conn, OthersWait(c), CallGoesOn(c)
  PROVE  \A d \in Conn : CallGoesOn(d)
BY DEF OthersWait, CallGoesOn

LEMMA CallEnds ==
  ASSUME PluginType, NEW c \in Conn
  PROVE  /\ Idles(c) \/ Drops(c) => \A d \in Conn : CallGoesOn(d)
         /\ \A doing \in Busy \ Sending : Does(c, doing) => \A d \in Conn : CallGoesOn(d)
<1>1. Idles(c) \/ Drops(c) => OthersWait(c) /\ conns'[c].doing = "idle" BY CallFacts
<1>2. \A doing \in Busy \ Sending : Does(c, doing) => OthersWait(c) /\ conns'[c].doing = doing
  BY CallFacts
<1>. QED BY <1>1, <1>2, OthersGoOn DEF CallGoesOn, Sending

LEMMA LeaseAround == ASSUME TypeOK, PluginType, NEW c \in Conn, LeaseStep(c) PROVE Around
<1>b. {"ensuring", "ensured", "refused", "unfollowed", "stopping"} \subseteq Busy \ Sending
  BY DEF Busy, Sending
<1>f. \A fate \in {"undone", "stopped"} : By(fate) \in {"stopped", "undone", "lost"} BY DEF By
<1>s. attempts' = attempts /\ clock' = clock
  BY DEF LeaseStep, EnsureStarts, EnsureAsks, EnsureEnds, EnsureFails, RefreshLease, StopStarts,
         StopAsks, Disconnect, storeVars
<1>1. CASE EnsureStarts(c)
  <2>1. conns \in [Conn -> ConnRecord] /\ conns[c] \in ConnRecord BY DEF PluginType
  <2>2. OthersWait(c) /\ conns'[c].doing = "ensuring"
    BY <1>1, <2>1 DEF EnsureStarts, OthersWait, ConnRecord
  <2>3. \A d \in Conn : CallGoesOn(d) BY <2>2, OthersGoOn DEF CallGoesOn, Sending
  <2>. QED BY <1>1, <1>s, <2>3, NothingMoves DEF EnsureStarts, Around
<1>2. CASE EnsureAsks(c)
  <2>1. \A d \in Conn : CallGoesOn(d) BY <1>2, <1>b, CallEnds DEF EnsureAsks
  <2>2. server' = server \/ Fresh BY <1>2, ServerFacts DEF EnsureAsks
  <2>. QED BY <1>2, <1>s, <2>1, <2>2, NothingMoves DEF EnsureAsks, Around
<1>3. CASE EnsureEnds(c)
  <2>1. \A d \in Conn : CallGoesOn(d) BY <1>3, CallEnds DEF EnsureEnds
  <2>. QED BY <1>3, <1>s, <2>1, NothingMoves DEF EnsureEnds, Around
<1>4. CASE EnsureFails(c)
  <2>1. \A d \in Conn : CallGoesOn(d) BY <1>4, CallEnds DEF EnsureFails
  <2>2. (server' = server \/ Fresh) /\ TurnsGoOn
    BY <1>4, <1>f, StopFacts, NothingMoves DEF EnsureFails
  <2>. QED BY <1>s, <2>1, <2>2, NothingMoves DEF Around
<1>5. CASE RefreshLease(c)
  <2>1. Fresh BY <1>5, ServerFacts DEF RefreshLease, LiveFor
  <2>. QED BY <1>5, <1>s, <2>1, NothingMoves DEF RefreshLease, brokerVars, Around
<1>6. CASE StopStarts(c)
  <2>1. \A d \in Conn : CallGoesOn(d) BY <1>6, <1>b, CallEnds DEF StopStarts
  <2>. QED BY <1>6, <1>s, <2>1, NothingMoves DEF StopStarts, Around
<1>7. CASE StopAsks(c)
  <2>1. \A d \in Conn : CallGoesOn(d) BY <1>7, CallEnds DEF StopAsks
  <2>2. (server' = server \/ Fresh) /\ TurnsGoOn
    BY <1>7, <1>f, StopFacts, NothingMoves DEF StopAsks
  <2>. QED BY <1>s, <2>1, <2>2, NothingMoves DEF Around
<1>8. CASE Disconnect(c)
  <2>1. \A d \in Conn : CallGoesOn(d) BY <1>8, CallEnds DEF Disconnect
  <2>2. By("cut") \in {"cut", "lost"} BY DEF By
  <2>3. (server' = server \/ Fresh) /\ TurnsGoOn
    BY <1>8, <2>2, StopFacts, NothingMoves DEF Disconnect, Released, MayCut
  <2>. QED BY <1>s, <2>1, <2>3, NothingMoves DEF Around
<1>. QED BY <1>1, <1>2, <1>3, <1>4, <1>5, <1>6, <1>7, <1>8 DEF LeaseStep

(* A request that ends, or fails, around a step of the store. *)
LEMMA CallCalm ==
  ASSUME PluginType, NEW c \in Conn, Idles(c), Calm,
         UNCHANGED <<holders, service, server, turns>>, clock' = clock
  PROVE  Around
BY CallEnds, NothingMoves DEF Around

LEMMA StoreUnchanged == UNCHANGED storeVars => attempts' = attempts /\ clock' = clock
BY DEF storeVars

(* A delivery that starts renews the lease. *)
LEMMA DeliversAround ==
  ASSUME TypeOK, PluginType, NEW c \in Conn, NEW doing \in {"enqueueing", "beginning"},
         NEW a \in Attempt, Targets(c), Delivers(c, doing, a),
         UNCHANGED <<holders, service, turns, storeVars>>
  PROVE  Around
<1>1. doing \in Busy BY DEF Busy
<1>2. Fresh BY ServerFacts DEF Targets, LiveFor
<1>3. OthersWait(c) /\ conns'[c].doing = doing /\ conns'[c].since = clock BY <1>1, CallFacts
<1>4. \A d \in Conn : CallGoesOn(d) BY <1>2, <1>3, OthersGoOn DEF CallGoesOn
<1>. QED BY <1>2, <1>4, NothingMoves, StoreUnchanged DEF Around

LEMMA CallMovesOn ==
  ASSUME PluginType, NEW c \in Conn, server' = server, clock' = clock
  PROVE  /\ Idles(c) => MovesOn(c, "idle")
         /\ \A doing \in Sending : conns[c].doing \in Sending /\ Does(c, doing) => MovesOn(c, doing)
<1>1. Idles(c) => OthersWait(c) /\ conns'[c].doing = "idle" BY CallFacts
<1>2. \A doing \in Sending : Does(c, doing) =>
        /\ OthersWait(c) /\ conns'[c].doing = doing
        /\ conns'[c].attempt = conns[c].attempt /\ conns'[c].since = conns[c].since
  BY CallFacts DEF Busy, Sending
<1>3. "idle" \notin Sending BY DEF Sending
<1>. QED BY <1>1, <1>2, <1>3 DEF MovesOn

LEMMA EnqueueKinds ==
  ASSUME TypeOK, PluginType, PluginRows, NEW c \in Conn, EnqueueStep(c) PROVE Kinds
<1>. DEFINE a == conns[c].attempt
<1>a. conns[c].doing \in Sending => a \in Attempt /\ a[1] \in Batch BY IdsOf DEF PluginType, CallsFit
<1>. HIDE DEF a
<1>t. attempts \in [Attempt -> AttemptRecord] BY DEF TypeOK
<1>1. ASSUME NEW b \in Batch, EnqueueStarts(c, b) PROVE Around
  BY <1>1, IdsAreKnown, DeliversAround DEF EnqueueStarts
<1>2. ASSUME NEW b \in Batch, ReplayStarts(c, b) PROVE Around
  BY <1>2, DeliversAround DEF ReplayStarts
<1>3. ASSUME NEW b \in Batch, ReplayRecovers(c, b) PROVE Around
  <2>1. PICK d \in Attempt : AbandonAppServerUnknown(d)
    BY <1>3 DEF ReplayRecovers, LastAttempts, OnBatch
  <2>2. Calm /\ clock' = clock BY <2>1, AbandonCalm DEF AbandonAppServerUnknown
  <2>. QED BY <1>3, <2>2, NothingMoves DEF ReplayRecovers, brokerVars, Around
<1>4. CASE EnqueueInserts(c)
  <2>1. CASE GivesUp(c)
    BY <1>4, <2>1, CallCalm, NothingMoves, StoreUnchanged
       DEF GivesUp, EnqueueInserts, UnchangedAround, Kinds
  <2>2. CASE EnqueuePlugin(a[1]) /\ attempts' = attempts /\ Idles(c)
    BY <1>4, <2>2, CallCalm, NothingMoves
       DEF EnqueueInserts, EnqueuePlugin, UnchangedAround, Kinds
  <2>3. CASE /\ EnqueuePlugin(a[1]) /\ attempts' # attempts /\ Does(c, "sending")
             /\ \A d \in Attempt \ {a} : attempts'[d] = attempts[d]
    <3>1. PICK at \in Recent, d \in Attempt :
            /\ attempts[d].state = "absent"
            /\ attempts' = [attempts EXCEPT ![d] = NewAppServerAttempt(a[1], 1, at)]
      BY <2>3 DEF EnqueuePlugin
    <3>2. NewAppServerAttempt(a[1], 1, at) # attempts[d] BY <3>1 DEF NewAppServerAttempt
    <3>3. attempts'[d] = NewAppServerAttempt(a[1], 1, at) BY <1>t, <3>1
    <3>4. d = a BY <2>3, <3>2, <3>3
    <3>5. conns[c].doing = "enqueueing" /\ server' = server /\ turns' = turns /\ clock' = clock
      BY <1>4, <2>3 DEF EnqueueInserts, UnchangedAround, EnqueuePlugin
    <3>6. MovesOn(c, "sending") BY <2>3, <3>5, CallMovesOn DEF Sending
    <3>7. Begun(c, a) BY <2>3, <3>1, <3>3, <3>4, <3>5, <3>6 DEF Begun, OthersSame, a
    <3>. QED BY <3>4, <3>7 DEF Kinds
  <2>. QED BY <1>4, <2>1, <2>2, <2>3 DEF EnqueueInserts, a
<1>5. CASE BeginRow(c)
  <2>1. CASE GivesUp(c)
    BY <1>5, <2>1, CallCalm, NothingMoves, StoreUnchanged
       DEF GivesUp, BeginRow, UnchangedAround, Kinds
  <2>2. CASE BeginAppServer(a, a[1]) /\ Does(c, "sending")
    <3>1. conns[c].doing = "beginning" /\ server' = server /\ turns' = turns /\ clock' = clock
      BY <1>5, <2>2 DEF BeginRow, UnchangedAround, BeginAppServer
    <3>2. a \in Attempt BY <1>a, <3>1 DEF Sending
    <3>3. PICK g, at : attempts' = [attempts EXCEPT ![a] = NewAppServerAttempt(a[1], g, at)]
      BY <2>2 DEF BeginAppServer
    <3>4. attempts'[a] = NewAppServerAttempt(a[1], g, at) /\ OthersSame(a)
      BY <1>t, <3>2, <3>3 DEF OthersSame
    <3>5. attempts[a].state = "absent" BY <2>2 DEF BeginAppServer
    <3>6. MovesOn(c, "sending") BY <2>2, <3>1, CallMovesOn DEF Sending
    <3>7. Begun(c, a) BY <3>1, <3>4, <3>5, <3>6 DEF Begun, a
    <3>. QED BY <3>2, <3>7 DEF Kinds
  <2>. QED BY <1>5, <2>1, <2>2 DEF BeginRow, Begins, a
<1>6. CASE TurnStarted(c)
  <2>1. /\ conns[c].doing = "sending" /\ StartsTurn(a) /\ server' = server
        /\ attempts' = attempts /\ clock' = clock /\ Does(c, "accepting")
    BY <1>6, StoreUnchanged DEF TurnStarted, a
  <2>2. MovesOn(c, "accepting") BY <2>1, CallMovesOn DEF Sending
  <2>3. a \in Attempt BY <1>a, <2>1 DEF Sending
  <2>4. Started(c, a) BY <2>1, <2>2 DEF Started, IsSending, a
  <2>. QED BY <2>3, <2>4 DEF Kinds
<1>7. CASE TurnUnanswered(c)
  <2>1. /\ conns[c].doing = "sending" /\ server' = server /\ Idles(c)
        /\ attempts' = attempts /\ clock' = clock
    BY <1>7, StoreUnchanged DEF TurnUnanswered
  <2>2. CASE turns' = turns BY <1>7, <2>1, <2>2, CallCalm, NothingMoves DEF TurnUnanswered, Kinds
  <2>3. CASE StartsTurn(a)
    <3>1. MovesOn(c, "idle") BY <2>1, CallMovesOn
    <3>2. a \in Attempt BY <1>a, <2>1 DEF Sending
    <3>3. Started(c, a) BY <2>1, <2>3, <3>1 DEF Started, IsSending, a
    <3>. QED BY <3>2, <3>3 DEF Kinds
  <2>. QED BY <1>7, <2>2, <2>3 DEF TurnUnanswered, a
<1>8. CASE TurnAccepted(c)
  <2>1. CASE GivesUp(c)
    BY <1>8, <2>1, CallCalm, NothingMoves, StoreUnchanged
       DEF GivesUp, TurnAccepted, UnchangedAround, Kinds
  <2>2. CASE AcceptAppServer(a) /\ Does(c, "leasing")
    <3>1. /\ conns[c].doing = "accepting" /\ server' = server /\ turns' = turns /\ clock' = clock
          /\ IsAcceptPending(a, "codex_app_server")
      BY <1>8, <2>2 DEF TurnAccepted, UnchangedAround, AcceptAppServer
    <3>2. a \in Attempt BY <1>a, <3>1 DEF Sending
    <3>3. PICK at \in Recent :
            attempts' = [attempts EXCEPT ![a] = [@ EXCEPT !.state = "cooldown", !.rpc = "accepted",
                           !.obs = "tracking", !.deadline = at + ObservationWindow]]
      BY <2>2 DEF AcceptAppServer
    <3>4. /\ OthersSame(a)
          /\ attempts'[a] = [attempts[a] EXCEPT !.state = "cooldown", !.rpc = "accepted",
                               !.obs = "tracking", !.deadline = at + ObservationWindow]
      BY <1>t, <3>2, <3>3 DEF OthersSame
    <3>5. MovesOn(c, "leasing") BY <2>2, <3>1, CallMovesOn DEF Sending
    <3>6. Accepted(c, a) BY <3>1, <3>4, <3>5 DEF Accepted, a
    <3>. QED BY <3>2, <3>6 DEF Kinds
  <2>. QED BY <1>8, <2>1, <2>2 DEF TurnAccepted, a
<1>9. CASE LeaseForTurn(c)
  <2>1. \A d \in Conn : CallGoesOn(d) BY <1>9, CallEnds DEF LeaseForTurn
  <2>2. server' = server \/ Fresh BY <1>9, ServerFacts DEF LeaseForTurn, LiveFor
  <2>. QED BY <1>9, <2>1, <2>2, NothingMoves, StoreUnchanged DEF LeaseForTurn, Around, Kinds
<1>10. CASE TurnRejected(c)
  <2>1. CASE UNCHANGED storeVars
    BY <1>10, <2>1, CallCalm, NothingMoves, StoreUnchanged
       DEF TurnRejected, UnchangedAround, Kinds
  <2>2. CASE \E manual \in BOOLEAN : RejectAppServer(a, manual)
    <3>1. /\ conns[c].doing = "sending" /\ server' = server /\ turns' = turns /\ clock' = clock
          /\ Idles(c)
      BY <1>10, <2>2 DEF TurnRejected, UnchangedAround, RejectAppServer
    <3>2. a \in Attempt BY <1>a, <3>1 DEF Sending
    <3>3. attempts' = [attempts EXCEPT ![a] = Rejected(@)] BY <2>2 DEF RejectAppServer
    <3>4. OthersSame(a) /\ attempts'[a] = Rejected(attempts[a]) BY <1>t, <3>2, <3>3 DEF OthersSame
    <3>5. MovesOn(c, "idle") BY <3>1, CallMovesOn
    <3>6. Refused(c, a) BY <3>1, <3>4, <3>5 DEF Refused, IsSending, a
    <3>. QED BY <3>2, <3>6 DEF Kinds
  <2>. QED BY <1>10, <2>1, <2>2 DEF TurnRejected, a
<1>. QED BY <1>1, <1>2, <1>3, <1>4, <1>5, <1>6, <1>7, <1>8, <1>9, <1>10 DEF EnqueueStep, Kinds

LEMMA ServiceAround == ASSUME TypeOK, PluginType, ServiceStep PROVE Around
<1>s. attempts' = attempts /\ clock' = clock
  BY DEF ServiceStep, PluginRestarts, Drain, ServiceEnds, ServiceStarts, DrainChecks, DrainStops,
         storeVars
<1>1. CASE PluginRestarts BY <1>1, <1>s, NothingMoves DEF PluginRestarts, Around
<1>2. CASE Drain BY <1>2, <1>s, NothingMoves DEF Drain, Around
<1>3. CASE ServiceEnds
  <2>1. \A c \in Conn : conns'[c].doing = "idle" BY <1>3 DEF ServiceEnds, FreshConn
  <2>2. \A c \in Conn : CallGoesOn(c) BY <2>1 DEF CallGoesOn, Sending
  <2>. QED BY <1>3, <1>s, <2>2, NothingMoves DEF ServiceEnds, Around
<1>4. CASE ServiceStarts BY <1>4, <1>s, NothingMoves DEF ServiceStarts, Around
<1>5. ASSUME NEW i, DrainChecks(i) PROVE Around BY <1>5, <1>s, NothingMoves DEF DrainChecks, Around
<1>6. ASSUME NEW i, DrainStops(i) PROVE Around
  <2>1. (server' = server \/ Fresh) /\ TurnsGoOn BY <1>6, StopFacts DEF DrainStops
  <2>. QED BY <1>6, <1>s, <2>1, NothingMoves DEF DrainStops, Around
<1>. QED BY <1>1, <1>2, <1>3, <1>4, <1>5, <1>6 DEF ServiceStep

LEMMA InspectAround ==
  ASSUME TypeOK, PluginType, PluginRows, NEW c \in Conn, InspectStep(c) PROVE Around
<1>1. ASSUME NEW a \in Attempt, Inspects(c, a) PROVE Around
  <2>1. Fresh BY <1>1, ServerFacts DEF Inspects, Targets, LiveFor
  <2>2. Calm /\ clock' = clock
    BY <1>1, ObserveCalm, NothingMoves, StoreUnchanged DEF Inspects, ObserveAppServer
  <2>. QED BY <1>1, <2>1, <2>2, NothingMoves DEF Inspects, brokerVars, Around
<1>2. ASSUME NEW b \in Batch, Manualizes(c, b) PROVE Around
  <2>1. Calm /\ clock' = clock BY <1>2, ManualizeCalm DEF Manualizes, ManualizePlugin
  <2>. QED BY <1>2, <2>1, NothingMoves DEF Manualizes, Around
<1>. QED BY <1>1, <1>2 DEF InspectStep

LEMMA ServerAround == ASSUME TypeOK, PluginType, ServerStep PROVE Around
<1>s. attempts' = attempts /\ clock' = clock /\ conns' = conns
  BY DEF ServerStep, storeVars, brokerVars
<1>1. CASE ReapServer
  <2>1. CASE server.short
    BY <1>1, <1>s, <2>1, ServerFacts, NothingMoves DEF ReapServer, Around
  <2>2. CASE ~server.short
    BY <1>1, <1>s, <2>2, ServerFacts, NothingMoves DEF ReapServer, MayCut, Around
  <2>. QED BY <2>1, <2>2
<1>2. CASE ServerExits BY <1>2, <1>s, ServerFacts, NothingMoves DEF ServerExits, Around
<1>3. ASSUME NEW a \in Attempt, TurnEnds(a) PROVE Around
  <2>1. TurnsGoOn BY <1>3 DEF TurnEnds, TurnsGoOn, PluginType
  <2>. QED BY <1>3, <1>s, <2>1, NothingMoves DEF TurnEnds, Around
<1>. QED BY <1>1, <1>2, <1>3 DEF ServerStep

LEMMA StepKinds ==
  ASSUME TypeOK, PluginType, PluginRows, [PluginNext]_pluginVars PROVE Kinds
<1>1. CASE StoreStep
  <2>1. CASE Sweep
    <3>1. Calm /\ clock' = clock BY <2>1, SweepCalm DEF Sweep
    <3>. QED BY <1>1, <3>1, NothingMoves DEF StoreStep, Around, Kinds
  <2>2. CASE /\ \A c \in Conn : conns[c].doing \in Sending => clock < conns[c].since + CallTime
             /\ Tick
    BY <1>1, <2>2 DEF StoreStep, Tick, Ticked, Kinds
  <2>. QED BY <1>1, <2>1, <2>2 DEF StoreStep, Sending
<1>2. CASE UNCHANGED pluginVars
  BY <1>2, NothingMoves DEF pluginVars, vars, Around, Kinds
<1>. QED BY <1>1, <1>2, LeaseAround, EnqueueKinds, InspectAround, ServiceAround, ServerAround
         DEF PluginNext, Kinds

(***************************************************************************)
(* One turn per delivery: who begins an attempt is the only one to send it, *)
(* and while it sends no turn was started for it.                           *)
(***************************************************************************)

NotRefused(a) == attempts[a].state # "absent" /\ attempts[a].rpc # "rejected_before_accept"

TurnInv ==
  /\ PluginRows
  /\ \A c \in Conn, a \in Attempt : IsSending(c, a) => NotRefused(a) /\ turns[a] = "none"
  /\ \A c, d \in Conn, a \in Attempt : IsSending(c, a) /\ IsSending(d, a) => c = d
  /\ \A a \in Attempt : turns[a] # "none" => NotRefused(a) /\ turns[a] # "repeated"

(* Only the one that moves on can come to send anything. *)
LEMMA SendersStay ==
  ASSUME NEW c \in Conn, NEW doing, MovesOn(c, doing)
  PROVE  \A d \in Conn, a \in Attempt : IsSending(d, a)' =>
           \/ IsSending(d, a) /\ d # c
           \/ d = c /\ doing = "sending" /\ a = conns[c].attempt
<1>. SUFFICES ASSUME NEW d \in Conn, NEW a \in Attempt, IsSending(d, a)'
              PROVE  \/ IsSending(d, a) /\ d # c
                     \/ d = c /\ doing = "sending" /\ a = conns[c].attempt
  OBVIOUS
<1>1. conns'[d].doing = "sending" /\ conns'[d].attempt = a BY DEF IsSending
<1>2. CASE d # c BY <1>1, <1>2 DEF MovesOn, OthersWait, IsSending
<1>3. CASE d = c BY <1>1, <1>3 DEF MovesOn, Sending
<1>. QED BY <1>2, <1>3

LEMMA TurnStep ==
  ASSUME TypeOK, PluginType, TurnInv, Kinds PROVE TurnInv'
<1>t. /\ attempts \in [Attempt -> AttemptRecord]
      /\ turns \in [Attempt -> TurnStates]
  BY DEF TypeOK, PluginType
<1>1. CASE Around
  <2>1. \A a \in Attempt : NotRefused(a) => NotRefused(a)' BY <1>1 DEF Around, Calm, Keeps, NotRefused
  <2>2. PluginRows' BY <1>1 DEF Around, Calm, Keeps, TurnInv, PluginRows
  <2>3. \A c \in Conn, a \in Attempt : IsSending(c, a)' => IsSending(c, a)
    BY <1>1 DEF Around, CallGoesOn, IsSending, Sending
  <2>4. \A a \in Attempt :
          /\ turns[a] = "none" => turns'[a] = "none"
          /\ turns'[a] # "none" => turns[a] # "none"
          /\ turns[a] # "repeated" => turns'[a] # "repeated"
    BY <1>1 DEF Around, TurnsGoOn
  <2>. QED BY <2>1, <2>2, <2>3, <2>4 DEF TurnInv
<1>2. ASSUME NEW c \in Conn, NEW a \in Attempt, Begun(c, a) PROVE TurnInv'
  <2>1. /\ attempts'[a].state = "accept_pending" /\ attempts'[a].rpc = "pending_acceptance"
        /\ attempts'[a].batch = a[1] /\ attempts'[a].adapter = "codex_app_server"
    BY <1>2 DEF Begun, NewAppServerAttempt
  <2>2. /\ attempts[a].state = "absent" /\ turns' = turns
        /\ \A d \in Attempt : d # a => attempts'[d] = attempts[d]
    BY <1>2 DEF Begun, OthersSame
  <2>3. PluginRows' BY <2>1, <2>2 DEF TurnInv, PluginRows
  <2>4. \A d \in Attempt : NotRefused(d) => NotRefused(d)' BY <2>1, <2>2 DEF NotRefused
  <2>5. NotRefused(a)' /\ turns[a] = "none" BY <2>1, <2>2 DEF NotRefused, TurnInv
  <2>6. \A d \in Conn : ~IsSending(d, a) BY <2>2 DEF TurnInv, NotRefused
  <2>7. \A d \in Conn, e \in Attempt : IsSending(d, e)' =>
           (IsSending(d, e) /\ d # c) \/ (d = c /\ e = a)
    BY <1>2, SendersStay DEF Begun
  <2>. QED BY <2>2, <2>3, <2>4, <2>5, <2>6, <2>7 DEF TurnInv
<1>3. ASSUME NEW c \in Conn, NEW a \in Attempt, Started(c, a) PROVE TurnInv'
  <2>1. \A d \in Conn, e \in Attempt : IsSending(d, e)' => IsSending(d, e) /\ d # c
    BY <1>3, SendersStay DEF Started
  <2>2. turns[a] = "none" /\ NotRefused(a) BY <1>3 DEF Started, TurnInv
  <2>3. turns'[a] = "running" /\ \A d \in Attempt : d # a => turns'[d] = turns[d]
    BY <1>3, <1>t, <2>2 DEF Started, StartsTurn
  <2>4. \A d \in Conn : IsSending(d, a) => d = c BY <1>3 DEF Started, TurnInv
  <2>5. attempts' = attempts BY <1>3 DEF Started
  <2>. QED BY <2>1, <2>2, <2>3, <2>4, <2>5 DEF TurnInv, PluginRows, NotRefused
<1>4. ASSUME NEW c \in Conn, NEW a \in Attempt, Refused(c, a) PROVE TurnInv'
  <2>1. \A d \in Conn, e \in Attempt : IsSending(d, e)' => IsSending(d, e) /\ d # c
    BY <1>4, SendersStay DEF Refused
  <2>2. turns[a] = "none" /\ NotRefused(a) BY <1>4 DEF Refused, TurnInv
  <2>3. \A d \in Conn : IsSending(d, a) => d = c BY <1>4 DEF Refused, TurnInv
  <2>4. turns' = turns /\ \A d \in Attempt : d # a => attempts'[d] = attempts[d]
    BY <1>4 DEF Refused, OthersSame
  <2>5. /\ attempts'[a].batch = attempts[a].batch /\ attempts'[a].adapter = attempts[a].adapter
    BY <1>4, <1>t DEF Refused, Rejected, AttemptRecord
  <2>6. PluginRows' BY <2>2, <2>4, <2>5 DEF TurnInv, PluginRows, NotRefused
  <2>7. \A d \in Attempt : d # a => (NotRefused(d) <=> NotRefused(d)') BY <2>4 DEF NotRefused
  <2>. QED BY <2>1, <2>2, <2>3, <2>4, <2>6, <2>7 DEF TurnInv
<1>5. ASSUME NEW c \in Conn, NEW a \in Attempt, Accepted(c, a) PROVE TurnInv'
  <2>1. \A d \in Conn, e \in Attempt : IsSending(d, e)' => IsSending(d, e)
    BY <1>5, SendersStay DEF Accepted
  <2>2. turns' = turns /\ \A d \in Attempt : d # a => attempts'[d] = attempts[d]
    BY <1>5 DEF Accepted, OthersSame
  <2>3. /\ attempts'[a].batch = attempts[a].batch /\ attempts'[a].adapter = attempts[a].adapter
        /\ attempts'[a].state = "cooldown" /\ attempts'[a].rpc = "accepted"
        /\ attempts[a].state = "accept_pending"
    BY <1>5, <1>t DEF Accepted, IsAcceptPending, AttemptRecord
  <2>4. PluginRows' BY <2>2, <2>3 DEF TurnInv, PluginRows
  <2>5. \A d \in Attempt : NotRefused(d) => NotRefused(d)' BY <2>2, <2>3 DEF NotRefused
  <2>. QED BY <2>1, <2>2, <2>4, <2>5 DEF TurnInv
<1>6. CASE Ticked
  <2>1. attempts' = attempts /\ conns' = conns /\ turns' = turns BY <1>6 DEF Ticked
  <2>. QED BY <2>1 DEF TurnInv, PluginRows, NotRefused, IsSending
<1>. QED BY <1>1, <1>2, <1>3, <1>4, <1>5, <1>6 DEF Kinds

PluginInv == Inv /\ PluginType /\ TurnInv

LEMMA PluginInitInv == PluginInit => PluginInv
<1>. SUFFICES ASSUME PluginInit PROVE PluginInv OBVIOUS
<1>1. \A a \in Attempt : attempts[a].state = "absent" BY DEF PluginInit, Init, NoAttempt
<1>2. Inv BY <1>1, InitType, NoAttemptsInv DEF PluginInit, Inv
<1>3. LastInstance \in Nat BY PluginAssumption
<1>4. PluginType
  <2>1. conns \in [Conn -> ConnRecord] /\ CallsFit
    BY DEF PluginInit, BrokerInit, FreshConn, ConnRecord, CallsFit, Sending
  <2>2. holders \in [Instance -> SUBSET Conn] BY DEF PluginInit, BrokerInit
  <2>3. service \in ServiceRecord BY <1>3 DEF PluginInit, BrokerInit, ServiceRecord
  <2>4. server \in ServerRecord /\ turns \in [Attempt -> TurnStates]
    BY DEF PluginInit, ServerInit, NoServer, ServerRecord, TurnStates
  <2>. QED BY <2>1, <2>2, <2>3, <2>4 DEF PluginType
<1>5. TurnInv
  <2>1. \A c \in Conn : conns[c].doing = "idle" BY DEF PluginInit, BrokerInit, FreshConn
  <2>2. \A a \in Attempt : turns[a] = "none" BY DEF PluginInit, ServerInit
  <2>. QED BY <1>1, <2>1, <2>2 DEF TurnInv, PluginRows, IsSending
<1>. QED BY <1>2, <1>4, <1>5 DEF PluginInv

LEMMA PluginInvStep == PluginInv /\ [PluginNext]_pluginVars => PluginInv'
<1>. SUFFICES ASSUME PluginInv, [PluginNext]_pluginVars PROVE PluginInv' OBVIOUS
<1>1. Inv /\ TypeOK /\ PluginType /\ TurnInv /\ PluginRows BY DEF PluginInv, Inv, TurnInv
<1>2. Inv' BY <1>1, IsStoreStep, InvStep
<1>3. PluginType' BY <1>1, PluginTypeStep
<1>4. TurnInv' BY <1>1, StepKinds, TurnStep
<1>. QED BY <1>2, <1>3, <1>4 DEF PluginInv

LEMMA PluginInvHolds == PluginSpec => []PluginInv
BY PluginInitInv, PluginInvStep, PTL DEF PluginSpec

(* Whatever the connections of the plugin service do, the store only goes    *)
(* through its own transactions, so that every theorem about the store's     *)
(* Spec is one about a store that plugins use.                               *)
THEOREM PluginUsesStore == PluginSpec => Spec
<1>1. PluginInit => Init BY DEF PluginInit
<1>2. PluginInv /\ [PluginNext]_pluginVars => [Next]_vars BY IsStoreStep DEF PluginInv
<1>. QED BY <1>1, <1>2, PluginInvHolds, PTL DEF PluginSpec, Spec

(* Used by plugins, whatever connections, instances, service processes and   *)
(* app-server do, the store implements the abstract queue: a batch reaches   *)
(* its thread at most once, and no two at a time.                            *)
THEOREM PluginRefinesQueue == PluginSpec => RefinesQueue
BY PluginUsesStore, StoreRefinesQueue, PTL

(* At most one turn is started for a delivery, through however many          *)
(* connections, instances and service processes it is asked for: of its      *)
(* attempts at most one was not refused, and that one is sent by the         *)
(* connection that began it, once.                                           *)
THEOREM OneTurnPerDeliveryAlways == PluginSpec => []OneTurnPerDelivery
<1>1. PluginInv => OneTurnPerDelivery
  <2>. SUFFICES ASSUME Inv, TurnInv PROVE OneTurnPerDelivery BY DEF PluginInv
  <2>1. \A a \in Attempt : turns[a] # "repeated" BY DEF TurnInv
  <2>2. ASSUME NEW a \in Attempt, NEW d \in Attempt, turns[a] # "none", turns[d] # "none",
               a[1] = d[1]
        PROVE  a = d
    <3>1. NotRefused(a) /\ NotRefused(d) BY <2>2 DEF TurnInv
    <3>2. attempts[a].batch = attempts[d].batch BY <2>2, <3>1 DEF TurnInv, PluginRows, NotRefused
    <3>. QED BY <3>1, <3>2 DEF Inv, TableInv, OneExposure, NotRefused
  <2>. QED BY <2>1, <2>2 DEF OneTurnPerDelivery
<1>. QED BY <1>1, PluginInvHolds, PTL

(***************************************************************************)
(* The lease outlasts the deliveries under way and the observed turns.     *)
(***************************************************************************)

Outlasts(t) == server.state = "live" /\ ~server.short => server.expires >= t

CallsLeased == \A c \in Conn : conns[c].doing \in Sending =>
  /\ conns[c].since <= clock /\ clock <= conns[c].since + CallTime
  /\ Outlasts(conns[c].since + DeliveryTtl)

AcceptingRuns == \A c \in Conn, a \in Attempt :
  /\ conns[c].doing = "accepting" /\ conns[c].attempt = a
  /\ Active(a) /\ ObservationWindow > 0
  => turns[a] # "cut"

TurnsLeased == \A a \in Attempt : IsTracking(a, "codex_app_server") =>
  /\ attempts[a].deadline <= clock + ObservationWindow
  /\ Outlasts(attempts[a].deadline)
  /\ turns[a] = "cut" => attempts[a].deadline <= clock

LeaseInv == CallsLeased /\ AcceptingRuns /\ TurnsLeased

(* The expiry only ever moves beyond what anyone counts on. *)
LEMMA OutlastsStays ==
  ASSUME TypeOK, PluginType', server' = server \/ Fresh, NEW t \in Nat,
         t <= clock + DeliveryTtl, Outlasts(t)
  PROVE  Outlasts(t)'
<1>1. clock \in Nat /\ DeliveryTtl \in Nat BY PluginAssumption DEF TypeOK
<1>2. CASE server' = server BY <1>2 DEF Outlasts
<1>3. CASE Fresh
  <2>1. CASE server'.state = "live" /\ ~server'.short
    <3>1. server'.expires >= clock + DeliveryTtl BY <1>3, <2>1 DEF Fresh
    <3>2. server'.expires \in Nat BY DEF PluginType, ServerRecord
    <3>. QED BY <1>1, <3>1, <3>2 DEF Outlasts
  <2>. QED BY <2>1 DEF Outlasts
<1>. QED BY <1>2, <1>3

(* A turn is not cut while its delivery is active, unless the lease ran out. *)
LEMMA CutsLate ==
  ASSUME Inv, TurnInv, TurnsGoOn, NEW a \in Attempt, Active(a),
         turns'[a] = "cut", turns[a] # "cut"
  PROVE  server.state = "live" /\ ~server.short /\ server.expires <= clock
<1>1. attempts[a].state # "absent" BY DEF Active, ActiveStates
<1>2. attempts[a].adapter = "codex_app_server" BY <1>1 DEF TurnInv, PluginRows
<1>3. IsOpen(attempts[a].batch) BY DEF Inv, TableInv, QuietWhenClosed, Active, IsOpen
<1>4. ActiveDelivery BY <1>2, <1>3 DEF ActiveDelivery
<1>. QED BY <1>4 DEF TurnsGoOn, MayCut

LEMMA LeaseStepKeeps ==
  ASSUME CallTime + ObservationWindow <= DeliveryTtl,
         PluginInv, PluginInv', LeaseInv, Kinds
  PROVE  LeaseInv'
<1>n. /\ CallTime \in Nat /\ ObservationWindow \in Nat /\ DeliveryTtl \in Nat
      /\ clock \in Nat /\ clock' \in Nat
  BY TimeAssumption, PluginAssumption, PluginTimeAssumption DEF PluginInv, Inv, TypeOK
<1>t. /\ TypeOK /\ PluginType /\ PluginType' /\ Inv /\ TurnInv
      /\ attempts \in [Attempt -> AttemptRecord] /\ conns \in [Conn -> ConnRecord]
      /\ turns \in [Attempt -> TurnStates] /\ server \in ServerRecord
  BY DEF PluginInv, Inv, TypeOK, PluginType
<1>r. /\ \A c \in Conn : conns[c].since \in Nat
      /\ \A a \in Attempt : attempts[a].deadline \in Nat
      /\ server.expires \in Nat
  BY <1>t DEF ConnRecord, AttemptRecord, ServerRecord
<1>1. CASE Around
  <2>1. CallsLeased'
    <3>. SUFFICES ASSUME NEW c \in Conn, conns'[c].doing \in Sending
                  PROVE  /\ conns'[c].since <= clock' /\ clock' <= conns'[c].since + CallTime
                         /\ Outlasts(conns[c].since + DeliveryTtl)'
      BY DEF CallsLeased
    <3>1. clock' = clock /\ (server' = server \/ Fresh) /\ CallGoesOn(c) BY <1>1 DEF Around
    <3>2. CASE conns'[c] = conns[c]
      <4>1. /\ conns[c].since <= clock /\ clock <= conns[c].since + CallTime
            /\ Outlasts(conns[c].since + DeliveryTtl)
        BY <3>2 DEF LeaseInv, CallsLeased
      <4>2. conns[c].since + DeliveryTtl \in Nat /\ conns[c].since + DeliveryTtl <= clock + DeliveryTtl
        BY <1>n, <1>r, <4>1
      <4>3. server' = server \/ Fresh BY <3>1
      <4>4. \A t \in Nat : t <= clock + DeliveryTtl /\ Outlasts(t) => Outlasts(t)'
        BY <1>t, <4>3, OutlastsStays
      <4>5. Outlasts(conns[c].since + DeliveryTtl)' BY <3>2, <4>1, <4>2, <4>4 DEF Outlasts
      <4>. QED BY <3>1, <3>2, <4>1, <4>5
    <3>3. CASE conns'[c].since = clock /\ Fresh
      BY <1>n, <3>1, <3>3 DEF Fresh, Outlasts
    <3>. QED BY <3>1, <3>2, <3>3 DEF CallGoesOn
  <2>2. AcceptingRuns'
    <3>. SUFFICES ASSUME NEW c \in Conn, NEW a \in Attempt, conns'[c].doing = "accepting",
                         conns'[c].attempt = a, Active(a)', ObservationWindow > 0,
                         turns'[a] = "cut"
                  PROVE  FALSE
      BY DEF AcceptingRuns
    <3>1. conns'[c] = conns[c] BY <1>1 DEF Around, CallGoesOn, Sending
    <3>2. Active(a) BY <1>1 DEF Around, Calm, Keeps, Active
    <3>3. turns[a] # "cut" BY <3>1, <3>2 DEF LeaseInv, AcceptingRuns
    <3>4. server.state = "live" /\ ~server.short /\ server.expires <= clock
      BY <1>1, <1>t, <3>2, <3>3, CutsLate DEF Around
    <3>5. /\ clock <= conns[c].since + CallTime
          /\ server.expires >= conns[c].since + DeliveryTtl
      BY <3>1, <3>4 DEF LeaseInv, CallsLeased, Sending, Outlasts
    <3>. QED BY <1>n, <1>r, <3>4, <3>5
  <2>3. TurnsLeased'
    <3>. SUFFICES ASSUME NEW a \in Attempt, IsTracking(a, "codex_app_server")'
                  PROVE  /\ attempts'[a].deadline <= clock' + ObservationWindow
                         /\ Outlasts(attempts[a].deadline)'
                         /\ turns'[a] = "cut" => attempts'[a].deadline <= clock'
      BY DEF TurnsLeased
    <3>1. IsTracking(a, "codex_app_server") /\ attempts'[a].deadline = attempts[a].deadline
      BY <1>1 DEF Around, Calm, Keeps, Tracks, IsTracking
    <3>2. /\ attempts[a].deadline <= clock + ObservationWindow
          /\ Outlasts(attempts[a].deadline)
          /\ turns[a] = "cut" => attempts[a].deadline <= clock
      BY <3>1 DEF LeaseInv, TurnsLeased
    <3>3. clock' = clock /\ (server' = server \/ Fresh) BY <1>1 DEF Around
    <3>4. \A t \in Nat : t <= clock + DeliveryTtl /\ Outlasts(t) => Outlasts(t)'
      BY <1>t, <3>3, OutlastsStays
    <3>5. attempts[a].deadline <= clock + DeliveryTtl BY <1>n, <1>r, <3>2
    <3>6. Outlasts(attempts[a].deadline)' BY <1>r, <3>1, <3>2, <3>4, <3>5 DEF Outlasts
    <3>7. ASSUME turns'[a] = "cut", turns[a] # "cut" PROVE attempts[a].deadline <= clock
      <4>1. Active(a) BY <3>1 DEF IsTracking, Active, ActiveStates
      <4>2. server.state = "live" /\ ~server.short /\ server.expires <= clock
        BY <1>1, <1>t, <3>7, <4>1, CutsLate DEF Around
      <4>3. server.expires >= attempts[a].deadline BY <3>2, <4>2 DEF Outlasts
      <4>. QED BY <1>n, <1>r, <4>2, <4>3
    <3>. QED BY <3>1, <3>2, <3>3, <3>6, <3>7
  <2>. QED BY <2>1, <2>2, <2>3 DEF LeaseInv
<1>m. ASSUME NEW c \in Conn, NEW doing, MovesOn(c, doing) PROVE CallsLeased'
  <2>1. ASSUME NEW d \in Conn, conns'[d].doing \in Sending
        PROVE  conns[d].doing \in Sending /\ conns'[d].since = conns[d].since
    BY <1>m, <2>1 DEF MovesOn, OthersWait
  <2>2. server' = server /\ clock' = clock BY <1>m DEF MovesOn
  <2>. QED BY <2>1, <2>2 DEF LeaseInv, CallsLeased, Outlasts
<1>2. ASSUME NEW c \in Conn, NEW a \in Attempt, Begun(c, a) PROVE LeaseInv'
  <2>1. /\ attempts'[a].state = "accept_pending" /\ attempts[a].state = "absent"
        /\ \A d \in Attempt : d # a => attempts'[d] = attempts[d]
        /\ turns' = turns /\ clock' = clock /\ server' = server
    BY <1>2 DEF Begun, OthersSame, NewAppServerAttempt, MovesOn
  <2>2. turns[a] = "none" BY <1>t, <2>1 DEF TurnInv, NotRefused
  <2>3. \A d \in Conn : conns'[d].doing = "accepting" => conns'[d] = conns[d]
    BY <1>2 DEF Begun, MovesOn, OthersWait
  <2>4. AcceptingRuns' BY <2>1, <2>2, <2>3 DEF LeaseInv, AcceptingRuns, Active
  <2>5. TurnsLeased' BY <2>1 DEF LeaseInv, TurnsLeased, IsTracking, Outlasts
  <2>6. CallsLeased' BY <1>2, <1>m DEF Begun
  <2>. QED BY <2>4, <2>5, <2>6 DEF LeaseInv
<1>3. ASSUME NEW c \in Conn, NEW a \in Attempt, Started(c, a) PROVE LeaseInv'
  <2>1. /\ turns'[a] # "cut" /\ \A d \in Attempt : d # a => turns'[d] = turns[d]
        /\ attempts' = attempts /\ clock' = clock /\ server' = server
    BY <1>3, <1>t DEF Started, StartsTurn, MovesOn
  <2>2. \A d \in Conn : d # c => conns'[d] = conns[d] BY <1>3 DEF Started, MovesOn, OthersWait
  <2>3. conns'[c].doing = "accepting" => conns'[c].attempt = a
    BY <1>3 DEF Started, MovesOn, IsSending, Sending
  <2>4. AcceptingRuns' BY <2>1, <2>2, <2>3 DEF LeaseInv, AcceptingRuns, Active
  <2>5. TurnsLeased' BY <2>1 DEF LeaseInv, TurnsLeased, IsTracking, Outlasts
  <2>6. CallsLeased' BY <1>3, <1>m DEF Started
  <2>. QED BY <2>4, <2>5, <2>6 DEF LeaseInv
<1>4. ASSUME NEW c \in Conn, NEW a \in Attempt, Refused(c, a) PROVE LeaseInv'
  <2>1. /\ attempts'[a].state = "abandoned"
        /\ \A d \in Attempt : d # a => attempts'[d] = attempts[d]
        /\ turns' = turns /\ clock' = clock /\ server' = server
    BY <1>4, <1>t DEF Refused, Rejected, OthersSame, MovesOn, AttemptRecord
  <2>2. \A d \in Conn : conns'[d].doing = "accepting" => conns'[d] = conns[d]
    BY <1>4 DEF Refused, MovesOn, OthersWait
  <2>3. AcceptingRuns' BY <2>1, <2>2 DEF LeaseInv, AcceptingRuns, Active, ActiveStates
  <2>4. TurnsLeased' BY <2>1 DEF LeaseInv, TurnsLeased, IsTracking, Outlasts
  <2>5. CallsLeased' BY <1>4, <1>m DEF Refused
  <2>. QED BY <2>3, <2>4, <2>5 DEF LeaseInv
<1>5. ASSUME NEW c \in Conn, NEW a \in Attempt, Accepted(c, a) PROVE LeaseInv'
  <2>1. PICK at \in Recent :
          attempts'[a] = [attempts[a] EXCEPT !.state = "cooldown", !.rpc = "accepted",
                            !.obs = "tracking", !.deadline = at + ObservationWindow]
    BY <1>5 DEF Accepted
  <2>2. /\ \A d \in Attempt : d # a => attempts'[d] = attempts[d]
        /\ turns' = turns /\ clock' = clock /\ server' = server
        /\ conns[c].doing = "accepting" /\ conns[c].attempt = a /\ Active(a)
    BY <1>5 DEF Accepted, OthersSame, MovesOn, IsAcceptPending, Active, ActiveStates
  <2>3. \A d \in Conn : conns'[d].doing = "accepting" => conns'[d] = conns[d]
    BY <1>5 DEF Accepted, MovesOn, OthersWait
  <2>4. AcceptingRuns' BY <2>2, <2>3 DEF LeaseInv, AcceptingRuns, Active
  <2>5. at \in Nat /\ at <= clock BY <1>n DEF Recent
  <2>6. attempts'[a].deadline = at + ObservationWindow BY <1>t, <2>1 DEF AttemptRecord
  <2>7. at + ObservationWindow <= clock + ObservationWindow BY <1>n, <2>5
  <2>8. Outlasts(at + ObservationWindow)
    <3>1. /\ clock <= conns[c].since + CallTime /\ Outlasts(conns[c].since + DeliveryTtl)
      BY <2>2 DEF LeaseInv, CallsLeased, Sending
    <3>2. at + ObservationWindow <= conns[c].since + DeliveryTtl BY <1>n, <1>r, <2>5, <3>1
    <3>. QED BY <1>n, <1>r, <2>5, <3>1, <3>2 DEF Outlasts
  <2>9. turns[a] = "cut" => at + ObservationWindow <= clock
    <3>1. turns[a] = "cut" => ~(ObservationWindow > 0) BY <2>2 DEF LeaseInv, AcceptingRuns
    <3>. QED BY <1>n, <2>5, <3>1
  <2>10. TurnsLeased'
    <3>. SUFFICES ASSUME NEW d \in Attempt, IsTracking(d, "codex_app_server")'
                  PROVE  /\ attempts'[d].deadline <= clock' + ObservationWindow
                         /\ Outlasts(attempts[d].deadline)'
                         /\ turns'[d] = "cut" => attempts'[d].deadline <= clock'
      BY DEF TurnsLeased
    <3>1. CASE d = a BY <2>2, <2>6, <2>7, <2>8, <2>9, <3>1 DEF Outlasts
    <3>2. CASE d # a BY <2>2, <3>2 DEF LeaseInv, TurnsLeased, IsTracking, Outlasts
    <3>. QED BY <3>1, <3>2
  <2>11. CallsLeased' BY <1>5, <1>m DEF Accepted
  <2>. QED BY <2>4, <2>10, <2>11 DEF LeaseInv
<1>6. CASE Ticked
  <2>1. /\ clock' = clock + 1 /\ attempts' = attempts /\ conns' = conns
        /\ server' = server /\ turns' = turns
        /\ \A c \in Conn : conns[c].doing \in Sending => clock < conns[c].since + CallTime
    BY <1>6 DEF Ticked
  <2>2. CallsLeased' BY <1>n, <1>r, <2>1 DEF LeaseInv, CallsLeased, Outlasts
  <2>3. AcceptingRuns' BY <2>1 DEF LeaseInv, AcceptingRuns, Active
  <2>4. TurnsLeased' BY <1>n, <1>r, <2>1 DEF LeaseInv, TurnsLeased, IsTracking, Outlasts
  <2>. QED BY <2>2, <2>3, <2>4 DEF LeaseInv
<1>. QED BY <1>1, <1>2, <1>3, <1>4, <1>5, <1>6 DEF Kinds

(* A turn whose delivery is active is only cut by the end of its lease, never *)
(* by a plugin or a connection that goes away; this needs no assumption on   *)
(* the times.                                                                *)
CutOnlyByExpiry == \A a \in Attempt :
  Active(a) /\ turns[a] # "cut" /\ turns'[a] = "cut"
  => server.state = "live" /\ ~server.short /\ server.expires <= clock

THEOREM CutOnlyByExpiryAlways == PluginSpec => [][CutOnlyByExpiry]_pluginVars
<1>1. PluginInv /\ [PluginNext]_pluginVars => [CutOnlyByExpiry]_pluginVars
  <2>. SUFFICES ASSUME PluginInv, [PluginNext]_pluginVars PROVE CutOnlyByExpiry OBVIOUS
  <2>1. /\ TypeOK /\ PluginType /\ Inv /\ TurnInv /\ PluginRows
        /\ turns \in [Attempt -> TurnStates]
    BY DEF PluginInv, Inv, TurnInv, PluginType
  <2>2. Kinds BY <2>1, StepKinds
  <2>3. CASE TurnsGoOn BY <2>1, <2>3, CutsLate DEF CutOnlyByExpiry
  <2>4. CASE turns' = turns BY <2>4 DEF CutOnlyByExpiry
  <2>5. CASE \E c \in Conn, a \in Attempt : Started(c, a)
    BY <2>1, <2>5 DEF Started, StartsTurn, CutOnlyByExpiry
  <2>. QED BY <2>2, <2>3, <2>4, <2>5 DEF Kinds, Around, Begun, Refused, Accepted, Ticked
<1>. QED BY <1>1, PluginInvHolds, PTL DEF PluginSpec

(* While a delivered turn is observed cbth does not cut it. DeliveryTtl is    *)
(* the observation window and a headroom, so the assumption says that the    *)
(* calls from the renewal of the lease to the acceptance fit in the headroom. *)
THEOREM WatchedTurnRunsAlways ==
  ASSUME CallTime + ObservationWindow <= DeliveryTtl
  PROVE  PluginSpec => []WatchedTurnRuns
<1>1. PluginInit => LeaseInv
  <2>1. ASSUME PluginInit
        PROVE  /\ \A c \in Conn : conns[c].doing = "idle"
               /\ \A a \in Attempt : attempts[a].state = "absent"
    BY <2>1 DEF PluginInit, BrokerInit, FreshConn, Init, NoAttempt
  <2>. QED BY <2>1 DEF LeaseInv, CallsLeased, AcceptingRuns, TurnsLeased, Sending, IsTracking
<1>2. PluginInv /\ PluginInv' /\ LeaseInv /\ [PluginNext]_pluginVars => LeaseInv'
  <2>1. PluginInv /\ [PluginNext]_pluginVars => Kinds
    BY StepKinds DEF PluginInv, Inv, TurnInv
  <2>. QED BY <2>1, LeaseStepKeeps
<1>3. PluginInv /\ LeaseInv => WatchedTurnRuns
  <2>. SUFFICES ASSUME PluginInv, LeaseInv, NEW a \in Attempt, Watched(a)
                PROVE  turns[a] # "cut"
    BY DEF WatchedTurnRuns
  <2>1. clock \in Nat /\ attempts[a].deadline \in Nat
    BY DEF PluginInv, Inv, TypeOK, AttemptRecord
  <2>2. turns[a] = "cut" => attempts[a].deadline <= clock BY DEF Watched, LeaseInv, TurnsLeased
  <2>3. clock < attempts[a].deadline BY DEF Watched
  <2>. QED BY <2>1, <2>2, <2>3
<1>. QED BY <1>1, <1>2, <1>3, PluginInvHolds, PTL DEF PluginSpec

(***************************************************************************)
(* Who was given a lease is registered as its holder, from before the      *)
(* daemon is asked until the connection lets go.                           *)
(***************************************************************************)

HolderInv ==
  /\ service.phase = "running" => \A c \in Conn : conns[c].lease => c \in holders[InstanceOf[c]]
  /\ service.phase = "down" => \A c \in Conn : conns[c] = FreshConn

(* A connection that is served is not one of a service that is down. *)
LEMMA Served ==
  ASSUME HolderInv, NEW c \in Conn, conns[c].doing # "idle" \/ conns[c].lease \/ MayAsk(c)
  PROVE  service.phase # "down"
BY DEF HolderInv, FreshConn, MayAsk

(* Steps that leave the leases of all connections as they are. *)
LEMMA LeasesStay ==
  ASSUME HolderInv, service' = service, service.phase # "down",
         holders' = holders,
         \A c \in Conn : conns'[c].lease => conns[c].lease
  PROVE  HolderInv'
BY DEF HolderInv

LEMMA CallLease ==
  ASSUME PluginType, NEW c \in Conn
  PROVE  /\ Idles(c) \/ (\E doing \in Busy : Does(c, doing)) =>
              \A d \in Conn : conns'[d].lease = conns[d].lease
         /\ \A doing \in Busy, a \in Attempt : TypeOK /\ Delivers(c, doing, a) =>
              \A d \in Conn : conns'[d].lease = conns[d].lease
         /\ Drops(c) => OthersWait(c) /\ conns'[c].lease = FALSE
BY CallFacts DEF OthersWait

(* c lets go of the lease of its instance, and the others stay. *)
LEMMA LetsGo ==
  ASSUME PluginType, HolderInv, NEW c \in Conn, service' = service, service.phase # "down",
         Drops(c), holders' = [holders EXCEPT ![InstanceOf[c]] = @ \ {c}]
  PROVE  HolderInv'
<1>1. OthersWait(c) /\ conns'[c].lease = FALSE BY CallLease
<1>2. \A d \in Conn \ {c} : \A i \in Instance : d \in holders[i] => d \in holders'[i]
  BY DEF PluginType
<1>. QED BY <1>1, <1>2, IdsAreKnown DEF HolderInv, OthersWait

LEMMA LeaseHolders ==
  ASSUME TypeOK, PluginType, HolderInv, NEW c \in Conn, LeaseStep(c) PROVE HolderInv'
<1>. DEFINE i == InstanceOf[c]
<1>i. i \in Instance /\ holders \in [Instance -> SUBSET Conn] BY IdsAreKnown DEF PluginType
<1>b. {"ensuring", "ensured", "refused", "unfollowed", "stopping"} \subseteq Busy BY DEF Busy
<1>1. CASE EnsureStarts(c)
  <2>1. conns \in [Conn -> ConnRecord] BY DEF PluginType
  <2>2. OthersWait(c) BY <1>1, <2>1 DEF EnsureStarts, OthersWait
  <2>3. c \in holders'[i] /\ \A j \in Instance : holders[j] \subseteq holders'[j]
    <3>1. CASE conns[c].lease BY <1>1, <3>1 DEF EnsureStarts, MayAsk, HolderInv
    <3>2. CASE ~conns[c].lease BY <1>1, <1>i, <3>2 DEF EnsureStarts, Join
    <3>. QED BY <3>1, <3>2
  <2>4. service' = service /\ service.phase # "down" BY <1>1, Served DEF EnsureStarts
  <2>. QED BY <2>2, <2>3, <2>4, IdsAreKnown DEF HolderInv, OthersWait
<1>2. CASE EnsureAsks(c)
  BY <1>2, <1>b, Served, LeasesStay, CallLease DEF EnsureAsks
<1>3. CASE EnsureEnds(c)
  <2>1. \A d \in Conn : conns'[d].lease = conns[d].lease BY <1>3, CallLease DEF EnsureEnds
  <2>2. \A j \in Instance : holders[j] \subseteq holders'[j] BY <1>3, <1>i DEF EnsureEnds
  <2>3. service' = service /\ service.phase # "down" BY <1>3, Served DEF EnsureEnds
  <2>. QED BY <2>1, <2>2, <2>3, IdsAreKnown DEF HolderInv
<1>4. CASE EnsureFails(c)
  <2>1. service' = service /\ service.phase # "down" BY <1>4, Served DEF EnsureFails
  <2>2. CASE conns[c].joined BY <1>4, <2>1, <2>2, LetsGo DEF EnsureFails
  <2>3. CASE ~conns[c].joined BY <1>4, <2>1, <2>3, LeasesStay, CallLease DEF EnsureFails
  <2>. QED BY <2>2, <2>3
<1>5. CASE RefreshLease(c)
  BY <1>5, Served, LeasesStay DEF RefreshLease, brokerVars
<1>6. CASE StopStarts(c)
  BY <1>6, <1>b, Served, LeasesStay, CallLease DEF StopStarts
<1>7. CASE StopAsks(c)
  <2>1. service' = service /\ service.phase # "down" BY <1>7, Served DEF StopAsks
  <2>2. CASE /\ holders' = [holders EXCEPT ![i] = @ \ {c}] /\ Drops(c)
    BY <2>1, <2>2, LetsGo
  <2>3. CASE /\ IsLastHolder(c) /\ holders' = [holders EXCEPT ![i] = {}] /\ Drops(c)
    <3>1. holders' = [holders EXCEPT ![i] = @ \ {c}] BY <1>i, <2>3 DEF IsLastHolder
    <3>. QED BY <2>1, <2>3, <3>1, LetsGo
  <2>4. CASE Idles(c) /\ holders' = holders BY <2>1, <2>4, LeasesStay, CallLease
  <2>. QED BY <1>7, <2>2, <2>3, <2>4 DEF StopAsks
<1>8. CASE Disconnect(c)
  <2>1. service' = service /\ service.phase # "down" BY <1>8, Served DEF Disconnect
  <2>2. holders' = [holders EXCEPT ![i] = @ \ {c}] BY <1>8 DEF Disconnect
  <2>. QED BY <1>8, <2>1, <2>2, LetsGo DEF Disconnect
<1>. QED BY <1>1, <1>2, <1>3, <1>4, <1>5, <1>6, <1>7, <1>8 DEF LeaseStep

LEMMA EnqueueHolders ==
  ASSUME TypeOK, PluginType, HolderInv, NEW c \in Conn, EnqueueStep(c) PROVE HolderInv'
<1>b. Sending \subseteq Busy BY DEF Busy, Sending
<1>1. ASSUME NEW b \in Batch, EnqueueStarts(c, b) PROVE HolderInv'
  <2>1. <<b, 1>> \in Attempt /\ "enqueueing" \in Busy BY IdsAreKnown DEF Busy
  <2>. QED BY <1>1, <2>1, Served, LeasesStay, CallLease DEF EnqueueStarts
<1>2. ASSUME NEW b \in Batch, ReplayStarts(c, b) PROVE HolderInv'
  <2>1. "beginning" \in Busy BY DEF Busy
  <2>2. PICK a \in Attempt : Delivers(c, "beginning", a) BY <1>2 DEF ReplayStarts
  <2>3. \A d \in Conn : conns'[d].lease = conns[d].lease BY <2>1, <2>2, CallLease
  <2>. QED BY <1>2, <2>3, Served, LeasesStay DEF ReplayStarts, MayReplay
<1>3. ASSUME NEW b \in Batch, ReplayRecovers(c, b) PROVE HolderInv'
  BY <1>3, Served, LeasesStay DEF ReplayRecovers, MayReplay, brokerVars
<1>4. ASSUME conns[c].doing \in Sending, Idles(c) \/ \E doing \in Sending : Does(c, doing),
             service' = service, holders' = holders
      PROVE  HolderInv'
  <2>1. \A d \in Conn : conns'[d].lease = conns[d].lease BY <1>4, <1>b, CallLease
  <2>2. service.phase # "down" BY <1>4, Served DEF Sending
  <2>. QED BY <1>4, <2>1, <2>2, LeasesStay
<1>5. CASE EnqueueInserts(c)
  BY <1>5, <1>4 DEF EnqueueInserts, GivesUp, UnchangedAround, Sending
<1>6. CASE BeginRow(c) BY <1>6, <1>4 DEF BeginRow, GivesUp, UnchangedAround, Sending
<1>7. CASE TurnStarted(c) BY <1>7, <1>4 DEF TurnStarted, Sending
<1>8. CASE TurnUnanswered(c) BY <1>8, <1>4 DEF TurnUnanswered, Sending
<1>9. CASE TurnAccepted(c) BY <1>9, <1>4 DEF TurnAccepted, GivesUp, UnchangedAround, Sending
<1>10. CASE LeaseForTurn(c) BY <1>10, <1>4 DEF LeaseForTurn, Sending
<1>11. CASE TurnRejected(c) BY <1>11, <1>4 DEF TurnRejected, UnchangedAround, Sending
<1>. QED BY <1>1, <1>2, <1>3, <1>5, <1>6, <1>7, <1>8, <1>9, <1>10, <1>11 DEF EnqueueStep

LEMMA HolderStep ==
  ASSUME TypeOK, PluginType, HolderInv, [PluginNext]_pluginVars PROVE HolderInv'
<1>u. UNCHANGED <<conns, holders, service>> => HolderInv' BY DEF HolderInv
<1>s. service \in ServiceRecord BY DEF PluginType
<1>1. ASSUME NEW c \in Conn, InspectStep(c) PROVE HolderInv'
  BY <1>1, <1>u DEF InspectStep, Inspects, Manualizes, brokerVars
<1>2. CASE ServiceStep
  <2>1. CASE PluginRestarts
    <3>1. service'.phase = service.phase BY <1>s, <2>1 DEF PluginRestarts, ServiceRecord
    <3>. QED BY <2>1, <3>1 DEF PluginRestarts, HolderInv
  <2>2. CASE Drain BY <2>2 DEF Drain, HolderInv
  <2>3. CASE ServiceEnds
    <3>1. service'.phase = "down" BY <1>s, <2>3 DEF ServiceEnds, ServiceRecord
    <3>. QED BY <2>3, <3>1 DEF ServiceEnds, HolderInv
  <2>4. CASE ServiceStarts
    <3>1. service'.phase = "running" /\ service.phase = "down" /\ conns' = conns
      BY <1>s, <2>4 DEF ServiceStarts, ServiceRecord
    <3>. QED BY <3>1 DEF HolderInv, FreshConn
  <2>5. ASSUME NEW i, DrainChecks(i) PROVE HolderInv'
    <3>1. service'.phase = "draining" BY <1>s, <2>5 DEF DrainChecks, ServiceRecord
    <3>. QED BY <3>1 DEF HolderInv
  <2>6. ASSUME NEW i, DrainStops(i) PROVE HolderInv'
    <3>1. service'.phase = "draining" BY <1>s, <2>6 DEF DrainStops, ServiceRecord
    <3>. QED BY <3>1 DEF HolderInv
  <2>. QED BY <1>2, <2>1, <2>2, <2>3, <2>4, <2>5, <2>6 DEF ServiceStep
<1>3. CASE ServerStep BY <1>3, <1>u DEF ServerStep, brokerVars
<1>4. CASE StoreStep BY <1>4, <1>u DEF StoreStep
<1>5. CASE UNCHANGED pluginVars BY <1>5, <1>u DEF pluginVars
<1>. QED BY <1>1, <1>2, <1>3, <1>4, <1>5, LeaseHolders, EnqueueHolders DEF PluginNext

(* Only the last holder stops the app-server, so a holder who is not letting *)
(* go is the one who acts, or there is none.                                 *)
LEMMA LastStops ==
  ASSUME PluginType, HolderInv, service.phase = "running", NEW c \in Conn,
         holders[InstanceOf[c]] \ {c} = {}, NEW d \in Conn, Holds(d), LiveFor(InstanceOf[c]),
         InstanceOf[d] = server.lease
  PROVE  d = c
BY DEF HolderInv, Holds, LiveFor

LEMMA HolderMoves ==
  ASSUME TypeOK, PluginType, HolderInv, [PluginNext]_pluginVars,
         server.state = "live", server'.state = "stopped", service.phase = "running",
         NEW d \in Conn, Holds(d), InstanceOf[d] = server.lease
  PROVE  conns'[d] # conns[d]
<1>s. server' # server OBVIOUS
<1>r. server \in ServerRecord BY DEF PluginType
<1>t. \A i, turn : StoppedAtBest(i, turn) \/ StoppedFor(i, turn) => LiveFor(i)
  BY <1>s DEF StoppedAtBest, StoppedFor
<1>e. ASSUME NEW ttl PROVE ~Renewed(ttl) /\ \A i : ~Ensured(i, ttl)
  <2>. DEFINE short == ttl < DeliveryTtl
              until == clock + ttl
  <2>1. Renewed(ttl) => server' = [server EXCEPT !.expires = until, !.short = short]
    BY DEF Renewed
  <2>2. \A i : Ensured(i, ttl) =>
          server' = [state |-> "live", lease |-> i, expires |-> until, short |-> short]
    BY DEF Ensured
  <2>. HIDE DEF short, until
  <2>3. ~Renewed(ttl) BY <1>r, <2>1 DEF ServerRecord
  <2>4. \A i : ~Ensured(i, ttl) BY <2>2
  <2>. QED BY <2>3, <2>4
<1>1. ASSUME NEW c \in Conn, LeaseStep(c) PROVE conns'[d] # conns[d]
  <2>1. /\ holders[InstanceOf[c]] \ {c} = {} /\ LiveFor(InstanceOf[c])
        /\ EnsureFails(c) \/ StopAsks(c) \/ Disconnect(c)
    BY <1>1, <1>s, <1>t, <1>e
       DEF LeaseStep, EnsureStarts, EnsureAsks, EnsureEnds, EnsureFails, RefreshLease, StopStarts,
           StopAsks, Disconnect, Released, IsLastHolder
  <2>2. d = c BY <2>1, LastStops
  <2>3. CASE Disconnect(c)
    <3>1. conns[c].lease /\ ~conns'[c].lease BY <2>3, CallLease DEF Disconnect
    <3>. QED BY <2>2, <3>1
  <2>4. CASE EnsureFails(c) \/ StopAsks(c)
    <3>1. conns[c].doing # "idle" BY <2>4 DEF EnsureFails, StopAsks
    <3>2. conns'[c].doing = "idle" BY <2>4, CallFacts DEF EnsureFails, StopAsks
    <3>. QED BY <2>2, <3>1, <3>2
  <2>. QED BY <2>1, <2>3, <2>4
<1>2. ASSUME NEW c \in Conn, EnqueueStep(c) PROVE FALSE
  BY <1>2, <1>s, <1>e
     DEF EnqueueStep, EnqueueStarts, ReplayStarts, ReplayRecovers, EnqueueInserts, BeginRow,
         TurnStarted, TurnUnanswered, TurnAccepted, LeaseForTurn, TurnRejected, UnchangedAround,
         Targets
<1>3. ASSUME NEW c \in Conn, InspectStep(c) PROVE FALSE
  BY <1>3, <1>s, <1>e DEF InspectStep, Inspects, Manualizes, Targets
<1>4. ~ServiceStep
  BY <1>s DEF ServiceStep, PluginRestarts, Drain, ServiceEnds, ServiceStarts, DrainChecks, DrainStops
<1>5. ~ServerStep
  BY <1>s DEF ServerStep, ReapServer, ServerExits, TurnEnds, Ends, NoServer
<1>6. ~StoreStep /\ ~UNCHANGED pluginVars BY <1>s DEF StoreStep, pluginVars
<1>. QED BY <1>1, <1>2, <1>3, <1>4, <1>5, <1>6 DEF PluginNext

(* The app-server of a connection that holds the lease is only stopped, in   *)
(* service, by a step of that connection itself.                             *)
THEOREM HolderKeepsServerAlways == PluginSpec => HolderKeepsServer
<1>1. PluginInit => HolderInv BY DEF PluginInit, BrokerInit, FreshConn, HolderInv
<1>2. PluginInv /\ HolderInv /\ [PluginNext]_pluginVars => HolderInv'
  BY HolderStep DEF PluginInv, Inv
<1>3. PluginInv /\ HolderInv /\ [PluginNext]_pluginVars =>
        [ server.state = "live" /\ server'.state = "stopped" /\ service.phase = "running" =>
            \A c \in Conn : Holds(c) /\ InstanceOf[c] = server.lease => conns'[c] # conns[c] ]_pluginVars
  BY HolderMoves DEF PluginInv, Inv
<1>. QED BY <1>1, <1>2, <1>3, PluginInvHolds, PTL DEF PluginSpec, HolderKeepsServer
=============================================================================
