--------------------------- MODULE HandoffProofs ----------------------------
(***************************************************************************)
(* Proofs about app-servers and their hand-off, module AppServerHandoff:   *)
(* the types (TypeCorrect), that a server in use is not stopped by the     *)
(* hand-off (KeptServerStaysAlways), and that no server is left to nobody  *)
(* and every redirect leads somewhere (NoStrayAlways, RedirectLeadsAlways) *)
(* as long as releases are answered and coordinators do not share a        *)
(* generation.                                                             *)
(***************************************************************************)
EXTENDS AppServerHandoff, TLAPS

(* The parts of the type invariant, one for each variable.                 *)
ProcsOK == procs \in [Proc -> {"unused", "live", "stopped", "exited"}]
ModesOK == modes \in [Daemon -> {"up", "quiescing", "stopping", "down"}]
ServersOK == servers \in [Daemon -> [Session -> Entry]]
ReservationsOK == reservations \in [Daemon -> [Thread -> Client \union {NoClient}]]
BootstrapsOK == bootstraps \in [Daemon -> [Client -> Proc \union {NoProc}]]
ReapingOK == reaping \in [Daemon -> SUBSET Proof]
ClientsOK == clients \in [Client -> ClientRecord]
CoordsOK == coords \in [Coordinator -> CoordinatorRecord]

(* An entry has a process and a lease, that lease's session, and only the  *)
(* legacy daemon has any to hand off.                                      *)
EntryFine(d, s) ==
  LET e == servers[d][s] IN
  /\ e.kind = "absent" => e.proc = NoProc /\ ~e.lapsed
  /\ e.kind # "absent" => e.proc \in Proc /\ e.lease \in Client /\ SessionOf[e.lease] = s
  /\ e.kind = "handed_off" => d = Legacy /\ e.to \in Daemon \ {Legacy}

(* A client has at most one bootstrap, at the daemon it talks to, and none *)
(* while another process is started for it or serves it.                   *)
ClientFine(c) ==
  /\ clients[c].doing \in {"spawning", "starting", "holding", "stopping"}
       => clients[c].proc \in Proc
  /\ clients[c].doing \notin {"idle", "gone"} => clients[c].at \in Daemon
  /\ \A d \in Daemon : bootstraps[d][c] # NoProc =>
       /\ clients[c].doing \in {"bootstrapped", "reserving", "asking", "gone"}
       /\ clients[c].doing # "gone" => clients[c].at = d /\ clients[c].proc \in Proc

(* An export names a session once, with a lease of that session.           *)
CoordFine(k) ==
  /\ coords[k].pc \in {"start", "done", "failed"} => coords[k].exports = {}
  /\ \A x \in coords[k].exports :
       /\ SessionOf[x.lease] = x.session
       /\ \A y \in coords[k].exports : y.session = x.session => y = x

(* Process p serves lease c, or did, according to anyone who knows of it. *)
Of(c, p) ==
  \/ clients[c].proc = p
  \/ \E d \in Daemon : bootstraps[d][c] = p
  \/ \E d \in Daemon, s \in Session : servers[d][s].lease = c /\ servers[d][s].proc = p
  \/ \E k \in Coordinator : \E x \in coords[k].exports : x.lease = c /\ x.proc = p

(* A process is started for one lease, and stays with it: whoever knows of *)
(* both a process and its lease agrees with everybody else.  So nobody     *)
(* stops a server for the sake of another client.                          *)
OneLease ==
  \A p \in Proc, c \in Client :
    Of(c, p) => procs[p] # "unused" /\ \A b \in Client : Of(b, p) => b = c

(* The inductive invariant behind the type invariant.                      *)
Types == /\ ProcsOK /\ ModesOK /\ ServersOK /\ ReservationsOK
         /\ BootstrapsOK /\ ReapingOK /\ ClientsOK /\ CoordsOK
Entries == \A d \in Daemon, s \in Session : EntryFine(d, s)
Clients == \A c \in Client : ClientFine(c)
Coords == \A k \in Coordinator : CoordFine(k)
TypeInv == Types /\ Entries /\ Clients /\ Coords /\ OneLease

(* The conjuncts are those of the type invariant of the model.             *)
LEMMA TypesAreOK == TypeOK <=> Types
BY DEF TypeOK, Types, ProcsOK, ModesOK, ServersOK, ReservationsOK, BootstrapsOK, ReapingOK,
       ClientsOK, CoordsOK

(* What the assumptions on the constants give.                             *)
LEMMA Constants ==
  /\ Legacy \in Daemon /\ NoDaemon \notin Daemon /\ NoClient \notin Client /\ NoProc \notin Proc
  /\ SessionOf \in [Client -> Session] /\ ThreadOf \in [Session -> Thread]
  /\ GenOf \in [Coordinator -> Daemon \ {Legacy}]
BY AppServersAssumption, HandoffAssumption

(* The empty records are records.                                          *)
LEMMA NoRecords == /\ NoEntry \in Entry /\ NoEntry.kind = "absent" /\ NoEntry.proc = NoProc
                   /\ NoEntry.lease = NoClient /\ ~NoEntry.lapsed
                   /\ NoRequest \in ClientRecord /\ Gone \in ClientRecord
                   /\ NoRequest.doing = "idle" /\ NoRequest.proc = NoProc
                   /\ Gone.doing = "gone" /\ Gone.proc = NoProc
BY Constants DEF NoEntry, Entry, Kinds, NoRequest, Gone, ClientRecord

(* The entry of (d, s) is the same, its lease lapsed or not. *)
SameEntry(d, s) ==
  /\ servers'[d][s].kind = servers[d][s].kind
  /\ servers'[d][s].proc = servers[d][s].proc
  /\ servers'[d][s].lease = servers[d][s].lease
  /\ servers'[d][s].to = servers[d][s].to
  /\ servers'[d][s].lapsed => servers[d][s].kind # "absent"

(* A step in which entries go or stay as they are.                         *)
Shrinks == \A d \in Daemon, s \in Session : servers'[d][s] = NoEntry \/ SameEntry(d, s)

(* Entries that go or stay are fine. *)
LEMMA ShrinksFine ==
  ASSUME ServersOK', Entries, Shrinks
  PROVE  Entries'
<1> SUFFICES ASSUME NEW d \in Daemon, NEW s \in Session PROVE EntryFine(d, s)'
  BY DEF Entries
<1>1. CASE servers'[d][s] = NoEntry
  BY <1>1, NoRecords DEF EntryFine
<1>2. CASE SameEntry(d, s)
  BY <1>2, NoRecords DEF Entries, EntryFine, SameEntry
<1> QED BY <1>1, <1>2 DEF Shrinks

(***************************************************************************)
(* Updates that several actions share.                                     *)
(***************************************************************************)

(* Moving a client changes its record only, or ends it.                    *)
LEMMA BecomesType ==
  ASSUME ClientsOK, NEW c \in Client, NEW r \in ClientRecord, Becomes(c, r)
  PROVE  /\ ClientsOK'
         /\ clients'[c] \in {r, Gone}
         /\ \A b \in Client \ {c} : clients'[b] = clients[b]
BY NoRecords DEF ClientsOK, Becomes

(* Moving a client on in its request changes where it is in it, or ends    *)
(* the client.                                                             *)
LEMMA MovesType ==
  ASSUME ClientsOK, NEW c \in Client,
         NEW doing \in {"reserved", "bootstrapped", "holding", "idle", "asking"},
         Moves(c, doing)
  PROVE  /\ ClientsOK'
         /\ clients'[c].doing \in {doing, "gone"}
         /\ clients'[c].doing = doing
              => clients'[c].at = clients[c].at /\ clients'[c].proc = clients[c].proc
         /\ clients'[c].proc \in {clients[c].proc, NoProc}
         /\ \A b \in Client \ {c} : clients'[b] = clients[b]
<1> DEFINE r == [clients[c] EXCEPT !.doing = doing]
<1>1. r \in ClientRecord /\ r.doing = doing /\ r.at = clients[c].at /\ r.proc = clients[c].proc
  BY DEF ClientsOK, ClientRecord, InFlight
<1>2. Becomes(c, r)
  BY DEF Moves
<1> HIDE DEF r
<1> QED BY <1>1, <1>2, BecomesType, NoRecords

(* Processes only end, and only those in P.                                *)
Ends(P) ==
  \A p \in Proc : procs'[p] = procs[p] \/ (p \in P /\ procs[p] = "live" /\ procs'[p] = "stopped")

(* Stopping a process ends no other one.                                   *)
LEMMA StopProcType ==
  ASSUME ProcsOK, NEW p \in Proc \union {NoProc}, procs' = StopProc(p, procs)
  PROVE  ProcsOK' /\ Ends({p}) /\ (p \in Proc => procs'[p] # "live")
BY DEF ProcsOK, StopProc, Ends

(* A stop by proof removes the entry the proof names, and ends its process *)
(* if the daemon is the one to.                                            *)
LEMMA InvalidateType ==
  ASSUME ProcsOK, ServersOK, Entries, NEW d \in Daemon, NEW x,
         x.session \in Session, InvalidateAndStop(d, x)
  PROVE  /\ ProcsOK' /\ ServersOK'
         /\ Ends({servers[d][x.session].proc})
         /\ procs' # procs => /\ Matches(d, x)
                             /\ servers[d][x.session].kind \in {"owned", "adopted"}
         /\ \A e \in Daemon, s \in Session :
              \/ servers'[e][s] = servers[e][s]
              \/ /\ servers'[e][s] = NoEntry
                 /\ servers[e][s].kind \in {"owned", "adopted"}
                      => procs'[servers[e][s].proc] # "live"
<1>1. CASE Matches(d, x)
  <2>1. servers' = [servers EXCEPT ![d][x.session] = NoEntry]
        /\ procs' = StopEntry(servers[d][x.session], procs)
    BY <1>1 DEF InvalidateAndStop
  <2>2. ServersOK' /\ servers'[d][x.session] = NoEntry
        /\ \A e \in Daemon, s \in Session :
              (e # d \/ s # x.session) => servers'[e][s] = servers[e][s]
    BY <2>1, NoRecords DEF ServersOK
  <2>3. servers[d][x.session].kind \in {"owned", "adopted"} => servers[d][x.session].proc \in Proc
    BY DEF Entries, EntryFine
  <2>4. /\ ProcsOK' /\ Ends({servers[d][x.session].proc})
        /\ procs' # procs => servers[d][x.session].kind \in {"owned", "adopted"}
        /\ servers[d][x.session].kind \in {"owned", "adopted"}
             => procs'[servers[d][x.session].proc] # "live"
    BY <2>1, <2>3 DEF ProcsOK, StopEntry, Ends
  <2> QED BY <1>1, <2>2, <2>4
<1>2. CASE ~Matches(d, x)
  BY <1>2 DEF InvalidateAndStop, Ends, ProcsOK, ServersOK
<1> QED BY <1>1, <1>2

(* Nobody connects a process with a lease that nobody connected it with    *)
(* before.                                                                 *)
NoNewUse ==
  /\ \A p \in Proc : procs[p] # "unused" => procs'[p] # "unused"
  /\ \A c \in Client : \/ clients'[c].proc \in {clients[c].proc, NoProc}
                       \/ Of(c, clients'[c].proc)
  /\ \A d \in Daemon, c \in Client : \/ bootstraps'[d][c] \in {bootstraps[d][c], NoProc}
                                     \/ Of(c, bootstraps'[d][c])
  /\ \A d \in Daemon, s \in Session :
       \/ servers'[d][s].proc = NoProc
       \/ /\ servers'[d][s].proc = servers[d][s].proc
          /\ servers'[d][s].lease = servers[d][s].lease
       \/ Of(servers'[d][s].lease, servers'[d][s].proc)

(* No export connects a process with another lease than somebody else does. *)
NoNewExport ==
  \A k \in Coordinator : \A x \in coords'[k].exports : Of(x.lease, x.proc)

(* A step with no new use keeps a process with its lease.                  *)
LEMMA UsesStay ==
  ASSUME OneLease, NoNewUse, NoNewExport
  PROVE  OneLease'
<1>1. ASSUME NEW p \in Proc, NEW c \in Client, Of(c, p)'
      PROVE  Of(c, p)
  <2>1. CASE clients'[c].proc = p
    BY <2>1, Constants DEF NoNewUse, Of
  <2>2. CASE \E d \in Daemon : bootstraps'[d][c] = p
    BY <2>2, Constants DEF NoNewUse, Of
  <2>3. CASE \E d \in Daemon, s \in Session : servers'[d][s].lease = c /\ servers'[d][s].proc = p
    BY <2>3, Constants DEF NoNewUse, Of
  <2>4. CASE \E k \in Coordinator : \E x \in coords'[k].exports : x.lease = c /\ x.proc = p
    BY <2>4 DEF NoNewExport
  <2> QED BY <1>1, <2>1, <2>2, <2>3, <2>4 DEF Of
<1> QED BY <1>1 DEF OneLease, NoNewUse

(* What a step that leaves the coordinators alone has to show.             *)
LEMMA TypeStays ==
  ASSUME TypeInv, Types', Entries', Clients', NoNewUse, UNCHANGED coords
  PROVE  TypeInv'
<1>1. NoNewExport
  BY DEF NoNewExport, Of
<1> QED BY <1>1, UsesStay DEF TypeInv, Coords, CoordFine

(* A step that leaves the registry alone keeps its entries fine.           *)
LEMMA SameEntries ==
  ASSUME Entries, UNCHANGED servers
  PROVE  Entries' /\ Shrinks
BY DEF Entries, EntryFine, Shrinks, SameEntry

USE DEF Types

(* A client that asks for its thread's server.                             *)
LEMMA ReserveScanType ==
  ASSUME TypeInv, UNCHANGED coords, NEW c \in Client, NEW d \in Daemon, ReserveScan(c, d)
  PROVE  TypeInv'
<1>1. Types'
  <2>1. ServersOK'
    BY NoRecords DEF TypeInv, ReserveScan, ServersOK
  <2>2. ClientsOK'
    <3> DEFINE r == [clients[c] EXCEPT !.doing = "reserving", !.at = d]
    <3>1. r \in ClientRecord
      BY DEF TypeInv, ClientsOK, ClientRecord, InFlight
    <3>2. clients' = [clients EXCEPT ![c] = r]
      BY DEF ReserveScan, TypeInv, ClientsOK
    <3> HIDE DEF r
    <3> QED BY <3>1, <3>2 DEF TypeInv, ClientsOK
  <2> QED BY <2>1, <2>2 DEF TypeInv, ReserveScan, ProcsOK, ModesOK, ReservationsOK, BootstrapsOK,
             ReapingOK, CoordsOK
<1>2. Entries'
  <2>1. Shrinks
    BY DEF TypeInv, ReserveScan, ServersOK, Shrinks, SameEntry, Entries, EntryFine
  <2> QED BY <1>1, <2>1, ShrinksFine DEF TypeInv
<1>3. Clients'
  BY DEF TypeInv, ReserveScan, Clients, ClientFine, ClientsOK
<1>4. NoNewUse
  BY NoRecords DEF TypeInv, ReserveScan, NoNewUse, ClientsOK, ServersOK
<1> QED BY <1>1, <1>2, <1>3, <1>4, TypeStays

(* ... gets the reservation, or does not.                                  *)
LEMMA ReserveInsertType ==
  ASSUME TypeInv, UNCHANGED coords, NEW c \in Client, ReserveInsert(c)
  PROVE  TypeInv'
<1> DEFINE d == clients[c].at
           t == ThreadOf[SessionOf[c]]
<1>0. /\ d \in Daemon /\ t \in Thread /\ clients[c].doing = "reserving"
      /\ UNCHANGED <<procs, modes, servers, bootstraps, reaping>>
  BY Constants DEF TypeInv, Clients, ClientFine, ReserveInsert
<1>1. PICK doing \in {"reserved", "bootstrapped", "idle"} :
        /\ Moves(c, doing)
        /\ doing # "bootstrapped" => bootstraps[d][c] = NoProc
  BY DEF ReserveInsert
<1>2. /\ ClientsOK'
      /\ clients'[c].doing \in {doing, "gone"}
      /\ clients'[c].doing = doing => clients'[c].at = d /\ clients'[c].proc = clients[c].proc
      /\ clients'[c].proc \in {clients[c].proc, NoProc}
      /\ \A b \in Client \ {c} : clients'[b] = clients[b]
  BY <1>1, MovesType DEF TypeInv
<1>3. ReservationsOK'
  BY <1>0 DEF TypeInv, ReservationsOK, ReserveInsert
<1>4. Types'
  BY <1>0, <1>2, <1>3 DEF TypeInv, ProcsOK, ModesOK, ServersOK, BootstrapsOK, ReapingOK, CoordsOK
<1>5. Clients'
  BY <1>0, <1>1, <1>2 DEF TypeInv, Clients, ClientFine
<1>6. NoNewUse
  BY <1>0, <1>2 DEF NoNewUse
<1> QED BY <1>0, <1>4, <1>5, <1>6, TypeStays, SameEntries DEF TypeInv

(* Dropping a client's reservations leaves a table of reservations.        *)
LEMMA UnreservedType ==
  ASSUME ReservationsOK, NEW c \in Client, clients[c].at \in Daemon
  PROVE  Unreserved(c) \in [Daemon -> [Thread -> Client \union {NoClient}]]
BY Constants DEF ReservationsOK, Unreserved

(* A client that gives its reservation back.                               *)
LEMMA ReleaseReservationType ==
  ASSUME TypeInv, UNCHANGED coords, NEW c \in Client, ReleaseReservation(c)
  PROVE  TypeInv'
<1>0. /\ clients[c].at \in Daemon
      /\ UNCHANGED <<procs, modes, servers, bootstraps, reaping>>
  BY DEF TypeInv, Clients, ClientFine, ReleaseReservation
<1>1. ReservationsOK'
  BY <1>0, UnreservedType DEF TypeInv, ReleaseReservation, ReservationsOK
<1>2. CASE clients[c].doing = "reserved"
  <2>1. Becomes(c, NoRequest)
    BY <1>2 DEF ReleaseReservation
  <2>2. /\ ClientsOK' /\ clients'[c] \in {NoRequest, Gone}
        /\ \A b \in Client \ {c} : clients'[b] = clients[b]
    BY <2>1, BecomesType, NoRecords DEF TypeInv
  <2>3. Types'
    BY <1>0, <1>1, <2>2 DEF TypeInv, ProcsOK, ModesOK, ServersOK, BootstrapsOK, ReapingOK, CoordsOK
  <2>4. Clients'
    BY <1>0, <1>2, <2>2, NoRecords DEF TypeInv, Clients, ClientFine
  <2>5. NoNewUse
    BY <1>0, <2>2, NoRecords DEF NoNewUse
  <2> QED BY <1>0, <2>3, <2>4, <2>5, TypeStays, SameEntries DEF TypeInv
<1>3. CASE clients[c].doing # "reserved"
  <2>1. UNCHANGED clients
    BY <1>3 DEF ReleaseReservation
  <2>2. Types'
    BY <1>0, <1>1, <2>1 DEF TypeInv, ProcsOK, ModesOK, ServersOK, BootstrapsOK, ReapingOK,
       ClientsOK, CoordsOK
  <2>3. Clients' /\ NoNewUse
    BY <1>0, <2>1 DEF TypeInv, Clients, ClientFine, NoNewUse
  <2> QED BY <1>0, <2>2, <2>3, TypeStays, SameEntries DEF TypeInv
<1> QED BY <1>2, <1>3

(* A reservation that runs out.                                            *)
LEMMA ReservationLapsesType ==
  ASSUME TypeInv, UNCHANGED coords, NEW d \in Daemon, NEW t \in Thread, ReservationLapses(d, t)
  PROVE  TypeInv'
<1>1. Types'
  BY DEF TypeInv, ReservationLapses, ProcsOK, ModesOK, ServersOK, ReservationsOK, BootstrapsOK,
       ReapingOK, ClientsOK, CoordsOK
<1>2. Clients' /\ NoNewUse
  BY DEF TypeInv, ReservationLapses, Clients, ClientFine, NoNewUse
<1> QED BY <1>1, <1>2, TypeStays, SameEntries DEF TypeInv, ReservationLapses

(* A step that connects lease c with a process it starts, and nobody else  *)
(* with anything.                                                          *)
NewUse(c, p) ==
  /\ procs[p] = "unused" /\ procs'[p] = "live"
  /\ \A q \in Proc : procs[q] # "unused" => procs'[q] # "unused"
  /\ clients'[c].proc = p
  /\ \A b \in Client : b # c => clients'[b].proc = clients[b].proc
  /\ UNCHANGED <<bootstraps, coords>>
  /\ \A d \in Daemon, s \in Session :
       \/ servers'[d][s].proc = NoProc
       \/ /\ servers'[d][s].proc = servers[d][s].proc
          /\ servers'[d][s].lease = servers[d][s].lease

(* A process that is new has no other lease yet.                           *)
LEMMA UsesGrow ==
  ASSUME OneLease, NEW c \in Client, NEW p \in Proc, NewUse(c, p)
  PROVE  OneLease'
<1>1. ASSUME NEW q \in Proc, NEW b \in Client, Of(b, q)'
      PROVE  Of(b, q) \/ (b = c /\ q = p)
  <2>1. CASE clients'[b].proc = q
    BY <2>1 DEF NewUse, Of
  <2>2. CASE \E d \in Daemon : bootstraps'[d][b] = q
    BY <2>2 DEF NewUse, Of
  <2>3. CASE \E d \in Daemon, s \in Session : servers'[d][s].lease = b /\ servers'[d][s].proc = q
    BY <2>3, Constants DEF NewUse, Of
  <2>4. CASE \E k \in Coordinator : \E x \in coords'[k].exports : x.lease = b /\ x.proc = q
    BY <2>4 DEF NewUse, Of
  <2> QED BY <1>1, <2>1, <2>2, <2>3, <2>4 DEF Of
<1>2. \A b \in Client : ~Of(b, p)
  BY DEF OneLease, NewUse
<1> QED BY <1>1, <1>2 DEF OneLease, NewUse

(* What a step that starts a process has to show.                          *)
LEMMA TypeGrows ==
  ASSUME TypeInv, Types', Entries', Clients', NEW c \in Client, NEW p \in Proc, NewUse(c, p)
  PROVE  TypeInv'
BY UsesGrow DEF TypeInv, Coords, CoordFine, NewUse

(* A server that is started for its session.                               *)
LEMMA EnsureSpawnType ==
  ASSUME TypeInv, UNCHANGED coords, NEW c \in Client, NEW p \in Proc, EnsureSpawn(c, p)
  PROVE  TypeInv'
<1> DEFINE d == clients[c].at
           s == SessionOf[c]
<1>0. /\ d \in Daemon /\ s \in Session /\ clients[c].doing = "reserved" /\ procs[p] = "unused"
      /\ servers' = [servers EXCEPT ![d][s] = NoEntry]
      /\ procs' = [procs EXCEPT ![p] = "live"]
      /\ clients' = [clients EXCEPT ![c].doing = "spawning", ![c].proc = p]
      /\ UNCHANGED <<modes, reservations, bootstraps, reaping>>
  BY Constants DEF TypeInv, Clients, ClientFine, EnsureSpawn, Free
<1>1. Types'
  <2>1. ServersOK'
    BY <1>0, NoRecords DEF TypeInv, ServersOK
  <2>2. ClientsOK'
    <3> DEFINE r == [clients[c] EXCEPT !.doing = "spawning", !.proc = p]
    <3>1. r \in ClientRecord
      BY DEF TypeInv, ClientsOK, ClientRecord, InFlight
    <3>2. clients' = [clients EXCEPT ![c] = r]
      BY <1>0 DEF TypeInv, ClientsOK
    <3> HIDE DEF r
    <3> QED BY <3>1, <3>2 DEF TypeInv, ClientsOK
  <2>3. ProcsOK'
    BY <1>0 DEF TypeInv, ProcsOK
  <2> QED BY <1>0, <2>1, <2>2, <2>3 DEF TypeInv, ModesOK, ReservationsOK, BootstrapsOK, ReapingOK,
             CoordsOK
<1>2. Entries'
  <2>1. Shrinks
    BY <1>0 DEF TypeInv, ServersOK, Shrinks, SameEntry, Entries, EntryFine
  <2> QED BY <1>1, <2>1, ShrinksFine DEF TypeInv
<1>3. Clients'
  BY <1>0 DEF TypeInv, Clients, ClientFine, ClientsOK
<1>4. NewUse(c, p)
  BY <1>0, NoRecords DEF TypeInv, NewUse, ClientsOK, ServersOK, ProcsOK
<1> QED BY <1>1, <1>2, <1>3, <1>4, TypeGrows

(* A new entry is one, with a lease that has not lapsed.                   *)
LEMMA NewEntryType ==
  ASSUME NEW p \in Proc, NEW c \in Client, NEW kind \in {"owned", "adopted"}
  PROVE  /\ NewEntry(kind, p, c) \in Entry
         /\ NewEntry(kind, p, c).kind = kind
         /\ NewEntry(kind, p, c).proc = p
         /\ NewEntry(kind, p, c).lease = c
BY DEF NewEntry, NoEntry, Entry, Kinds

(* A new entry for a process that belongs to its lease already is fine.    *)
LEMMA PlacesEntry ==
  ASSUME ServersOK, Entries, NEW d \in Daemon, NEW c \in Client, NEW p \in Proc,
         servers' = [servers EXCEPT ![d][SessionOf[c]] = NewEntry("owned", p, c)]
  PROVE  /\ ServersOK' /\ Entries'
         /\ servers'[d][SessionOf[c]] = NewEntry("owned", p, c)
         /\ \A e \in Daemon, s \in Session :
              (e # d \/ s # SessionOf[c]) => servers'[e][s] = servers[e][s]
<1> DEFINE new == NewEntry("owned", p, c)
           s0 == SessionOf[c]
<1>1. new \in Entry /\ new.kind = "owned" /\ new.proc = p /\ new.lease = c /\ s0 \in Session
  BY NewEntryType, Constants
<1>2. servers' = [servers EXCEPT ![d][s0] = new]
  OBVIOUS
<1> HIDE DEF new
<1>3. /\ ServersOK' /\ servers'[d][s0] = new
      /\ \A e \in Daemon, s \in Session : (e # d \/ s # s0) => servers'[e][s] = servers[e][s]
  BY <1>1, <1>2 DEF ServersOK
<1>4. Entries'
  BY <1>1, <1>3 DEF Entries, EntryFine
<1> QED BY <1>3, <1>4 DEF new

(* ... and registered, or stopped when another has been.                   *)
LEMMA EnsureRegisterType ==
  ASSUME TypeInv, UNCHANGED coords, NEW c \in Client, EnsureRegister(c)
  PROVE  TypeInv'
<1> DEFINE d == clients[c].at
           p == clients[c].proc
<1>0. /\ d \in Daemon /\ p \in Proc /\ clients[c].doing = "spawning"
      /\ servers' = [servers EXCEPT ![d][SessionOf[c]] = NewEntry("owned", p, c)]
      /\ Moves(c, "holding")
      /\ reservations' = Unreserved(c)
      /\ UNCHANGED <<procs, modes, bootstraps, reaping>>
  BY DEF TypeInv, Clients, ClientFine, EnsureRegister
<1>1. /\ ServersOK' /\ Entries'
      /\ servers'[d][SessionOf[c]] = NewEntry("owned", p, c)
      /\ \A e \in Daemon, s \in Session :
           (e # d \/ s # SessionOf[c]) => servers'[e][s] = servers[e][s]
  BY <1>0, PlacesEntry DEF TypeInv
<1>2. /\ ClientsOK'
      /\ clients'[c].doing \in {"holding", "gone"}
      /\ clients'[c].doing = "holding" => clients'[c].at = d /\ clients'[c].proc = clients[c].proc
      /\ clients'[c].proc \in {p, NoProc}
      /\ \A b \in Client \ {c} : clients'[b] = clients[b]
  BY <1>0, MovesType DEF TypeInv
<1>3. ReservationsOK'
  BY <1>0, UnreservedType DEF TypeInv, ReservationsOK
<1>4. Types'
  BY <1>0, <1>1, <1>2, <1>3 DEF TypeInv, ProcsOK, ModesOK, BootstrapsOK, ReapingOK, CoordsOK
<1>5. Clients'
  BY <1>0, <1>2 DEF TypeInv, Clients, ClientFine
<1>6. NoNewUse
  <2>1. Of(c, p)
    BY DEF Of
  <2> QED BY <1>0, <1>1, <1>2, <2>1, NewEntryType DEF NoNewUse
<1> QED BY <1>1, <1>4, <1>5, <1>6, TypeStays

(* A step that ends processes leaves none of them as never started.        *)
LEMMA EndsType ==
  ASSUME ProcsOK, NEW P, Ends(P), procs' \in [Proc -> {"unused", "live", "stopped", "exited"}]
  PROVE  \A p \in Proc : procs[p] # "unused" => procs'[p] # "unused"
BY DEF Ends

(* ... or fails to start.                                                  *)
LEMMA EnsureFailsType ==
  ASSUME TypeInv, UNCHANGED coords, NEW c \in Client, EnsureFails(c)
  PROVE  TypeInv'
<1> DEFINE r == [clients[c] EXCEPT !.doing = "reserved", !.proc = NoProc]
<1>0. /\ clients[c].at \in Daemon /\ clients[c].proc \in Proc /\ clients[c].doing = "spawning"
      /\ procs' = StopProc(clients[c].proc, procs)
      /\ Becomes(c, r)
      /\ UNCHANGED <<modes, servers, reservations, bootstraps, reaping>>
  BY DEF TypeInv, Clients, ClientFine, EnsureFails, registries
<1>1. ProcsOK' /\ \A p \in Proc : procs[p] # "unused" => procs'[p] # "unused"
  BY <1>0, StopProcType, EndsType DEF TypeInv, ProcsOK
<1>2. r \in ClientRecord /\ r.doing = "reserved" /\ r.proc = NoProc /\ r.at = clients[c].at
  BY DEF TypeInv, ClientsOK, ClientRecord
<1> HIDE DEF r
<1>3. /\ ClientsOK' /\ clients'[c] \in {r, Gone}
      /\ \A b \in Client \ {c} : clients'[b] = clients[b]
  BY <1>0, <1>2, BecomesType DEF TypeInv
<1>4. Types'
  BY <1>0, <1>1, <1>3 DEF TypeInv, ModesOK, ServersOK, ReservationsOK, BootstrapsOK, ReapingOK,
       CoordsOK
<1>5. Clients'
  BY <1>0, <1>2, <1>3, NoRecords DEF TypeInv, Clients, ClientFine
<1>6. NoNewUse
  BY <1>0, <1>1, <1>2, <1>3, NoRecords DEF NoNewUse
<1> QED BY <1>0, <1>4, <1>5, <1>6, TypeStays, SameEntries DEF TypeInv

(* Two ways to leave most of the state alone.                              *)
LEMMA OnlyClient ==
  ASSUME TypeInv, ClientsOK', NEW c \in Client,
         \A b \in Client \ {c} : clients'[b] = clients[b],
         ClientFine(c)', clients'[c].proc \in {clients[c].proc, NoProc} \/ Of(c, clients'[c].proc),
         UNCHANGED <<procs, modes, servers, reservations, bootstraps, reaping, coords>>
  PROVE  TypeInv'
<1>1. Types'
  BY DEF TypeInv, ProcsOK, ModesOK, ServersOK, ReservationsOK, BootstrapsOK, ReapingOK, CoordsOK
<1>2. Clients'
  BY DEF TypeInv, Clients, ClientFine
<1>3. NoNewUse
  BY DEF NoNewUse
<1> QED BY <1>1, <1>2, <1>3, TypeStays, SameEntries DEF TypeInv

(* A server that is started for a thread that does not exist yet.          *)
LEMMA BootstrapSpawnType ==
  ASSUME TypeInv, UNCHANGED coords, NEW c \in Client, NEW d \in Daemon, NEW p \in Proc,
         BootstrapSpawn(c, d, p)
  PROVE  TypeInv'
<1> DEFINE r == [doing |-> "starting", at |-> d, proc |-> p, alive |-> TRUE]
<1>0. /\ clients[c].doing = "idle" /\ procs[p] = "unused"
      /\ procs' = [procs EXCEPT ![p] = "live"]
      /\ clients' = [clients EXCEPT ![c] = r]
      /\ UNCHANGED <<modes, servers, reservations, bootstraps, reaping>>
  BY DEF BootstrapSpawn, Free, registries
<1>1. r \in ClientRecord
  BY DEF ClientRecord, InFlight
<1>2. Types'
  BY <1>0, <1>1 DEF TypeInv, ProcsOK, ModesOK, ServersOK, ReservationsOK, BootstrapsOK,
       ReapingOK, ClientsOK, CoordsOK
<1>3. Clients'
  BY <1>0 DEF TypeInv, Clients, ClientFine, ClientsOK
<1>4. NewUse(c, p)
  BY <1>0 DEF TypeInv, NewUse, ClientsOK, ProcsOK
<1> QED BY <1>0, <1>2, <1>3, <1>4, TypeGrows, SameEntries DEF TypeInv

(* Registering a bootstrap, whatever the client does next.                 *)
LEMMA BootstrapRegisterType ==
  ASSUME TypeInv, UNCHANGED coords, NEW c \in Client, BootstrapRegister(c) \/ AsksThread(c)
  PROVE  TypeInv'
<1> DEFINE d == clients[c].at
           p == clients[c].proc
<1>0. PICK doing \in {"bootstrapped", "asking"} :
      /\ d \in Daemon /\ p \in Proc /\ clients[c].doing = "starting"
      /\ bootstraps' = [bootstraps EXCEPT ![d][c] = p]
      /\ Moves(c, doing)
      /\ UNCHANGED <<procs, modes, servers, reservations, reaping>>
  BY DEF TypeInv, Clients, ClientFine, BootstrapRegister, AsksThread
<1>1. /\ ClientsOK'
      /\ clients'[c].doing \in {doing, "gone"}
      /\ clients'[c].doing = doing => clients'[c].at = d /\ clients'[c].proc = clients[c].proc
      /\ clients'[c].proc \in {p, NoProc}
      /\ \A b \in Client \ {c} : clients'[b] = clients[b]
  BY <1>0, MovesType DEF TypeInv
<1>2. /\ BootstrapsOK' /\ bootstraps'[d][c] = p
      /\ \A e \in Daemon, b \in Client :
           (e # d \/ b # c) => bootstraps'[e][b] = bootstraps[e][b]
  BY <1>0 DEF TypeInv, BootstrapsOK
<1>3. Types'
  BY <1>0, <1>1, <1>2 DEF TypeInv, ProcsOK, ModesOK, ServersOK, ReservationsOK, ReapingOK, CoordsOK
<1>4. Clients'
  <2>1. \A e \in Daemon : bootstraps[e][c] = NoProc
    BY <1>0 DEF TypeInv, Clients, ClientFine
  <2> QED BY <1>0, <1>1, <1>2, <2>1 DEF TypeInv, Clients, ClientFine
<1>5. NoNewUse
  <2>1. Of(c, p)
    BY DEF Of
  <2> QED BY <1>0, <1>1, <1>2, <2>1 DEF NoNewUse
<1> QED BY <1>0, <1>3, <1>4, <1>5, TypeStays, SameEntries DEF TypeInv

(* The server has answered with the new thread.                            *)
LEMMA ThreadAnsweredType ==
  ASSUME TypeInv, UNCHANGED coords, NEW c \in Client, ThreadAnswered(c)
  PROVE  TypeInv'
<1>0. /\ clients[c].doing = "asking" /\ clients[c].at \in Daemon
      /\ Moves(c, "bootstrapped")
      /\ UNCHANGED <<procs, modes, servers, reservations, bootstraps, reaping>>
  BY DEF TypeInv, Clients, ClientFine, ThreadAnswered, registries
<1>1. /\ ClientsOK'
      /\ clients'[c].doing \in {"bootstrapped", "gone"}
      /\ clients'[c].doing = "bootstrapped"
           => clients'[c].at = clients[c].at /\ clients'[c].proc = clients[c].proc
      /\ clients'[c].proc \in {clients[c].proc, NoProc}
      /\ \A b \in Client \ {c} : clients'[b] = clients[b]
  BY <1>0, MovesType DEF TypeInv
<1>2. ClientFine(c)'
  BY <1>0, <1>1 DEF TypeInv, Clients, ClientFine
<1> QED BY <1>0, <1>1, <1>2, OnlyClient

(* Dropping a bootstrap removes it and ends its process.                   *)
LEMMA DropBootstrapType ==
  ASSUME TypeInv, NEW d \in Daemon, NEW c \in Client, DropBootstrap(d, c)
  PROVE  /\ ProcsOK' /\ BootstrapsOK'
         /\ Ends({bootstraps[d][c]}) /\ bootstraps[d][c] \in Proc
         /\ procs'[bootstraps[d][c]] # "live"
         /\ bootstraps'[d][c] = NoProc
         /\ \A e \in Daemon, b \in Client :
              (e # d \/ b # c) => bootstraps'[e][b] = bootstraps[e][b]
         /\ \A p \in Proc : procs[p] # "unused" => procs'[p] # "unused"
<1>1. /\ bootstraps[d][c] \in Proc
      /\ bootstraps' = [bootstraps EXCEPT ![d][c] = NoProc]
      /\ procs' = StopProc(bootstraps[d][c], procs)
  BY DEF TypeInv, BootstrapsOK, DropBootstrap
<1>2. ProcsOK' /\ Ends({bootstraps[d][c]}) /\ procs'[bootstraps[d][c]] # "live"
  BY <1>1, StopProcType DEF TypeInv
<1> QED BY <1>1, <1>2, EndsType DEF TypeInv, BootstrapsOK, ProcsOK

(* A client is done with its bootstrap, which is dropped if it is there.   *)
LEMMA LeavesBootstrap ==
  ASSUME TypeInv, UNCHANGED coords, NEW c \in Client,
         clients[c].doing \in {"asking", "bootstrapped"},
         \/ DropBootstrap(clients[c].at, c)
         \/ bootstraps[clients[c].at][c] = NoProc /\ UNCHANGED <<procs, bootstraps>>,
         Becomes(c, NoRequest),
         UNCHANGED <<modes, servers, reservations, reaping>>
  PROVE  TypeInv'
<1>0. clients[c].at \in Daemon
  BY DEF TypeInv, Clients, ClientFine
<1>1. /\ ProcsOK' /\ BootstrapsOK' /\ bootstraps'[clients[c].at][c] = NoProc
      /\ \A e \in Daemon, b \in Client :
           (e # clients[c].at \/ b # c) => bootstraps'[e][b] = bootstraps[e][b]
      /\ \A p \in Proc : procs[p] # "unused" => procs'[p] # "unused"
  <2>1. CASE DropBootstrap(clients[c].at, c)
    BY <1>0, <2>1, DropBootstrapType
  <2>2. CASE bootstraps[clients[c].at][c] = NoProc /\ UNCHANGED <<procs, bootstraps>>
    BY <2>2 DEF TypeInv, ProcsOK, BootstrapsOK
  <2> QED BY <2>1, <2>2
<1>2. /\ ClientsOK' /\ clients'[c] \in {NoRequest, Gone}
      /\ \A b \in Client \ {c} : clients'[b] = clients[b]
  BY BecomesType, NoRecords DEF TypeInv
<1>3. Types'
  BY <1>1, <1>2 DEF TypeInv, ModesOK, ServersOK, ReservationsOK, ReapingOK, CoordsOK
<1>4. Clients'
  BY <1>0, <1>1, <1>2, NoRecords DEF TypeInv, Clients, ClientFine
<1>5. NoNewUse
  BY <1>0, <1>1, <1>2, NoRecords DEF NoNewUse
<1> QED BY <1>3, <1>4, <1>5, TypeStays, SameEntries DEF TypeInv

(* It has not, and is dropped.                                             *)
LEMMA ThreadFailsType ==
  ASSUME TypeInv, UNCHANGED coords, NEW c \in Client, ThreadFails(c)
  PROVE  TypeInv'
BY LeavesBootstrap DEF ThreadFails

(* A bootstrap the client gives up.                                        *)
LEMMA AbortType ==
  ASSUME TypeInv, UNCHANGED coords, NEW c \in Client, Abort(c)
  PROVE  TypeInv'
BY LeavesBootstrap DEF Abort

(* A bootstrap that fails to start.                                        *)
LEMMA BootstrapFailsType ==
  ASSUME TypeInv, UNCHANGED coords, NEW c \in Client, BootstrapFails(c)
  PROVE  TypeInv'
<1>0. /\ clients[c].proc \in Proc /\ clients[c].doing = "starting"
      /\ procs' = StopProc(clients[c].proc, procs)
      /\ Becomes(c, NoRequest)
      /\ UNCHANGED <<modes, servers, reservations, bootstraps, reaping>>
  BY DEF TypeInv, Clients, ClientFine, BootstrapFails, registries
<1>1. ProcsOK' /\ \A p \in Proc : procs[p] # "unused" => procs'[p] # "unused"
  BY <1>0, StopProcType, EndsType DEF TypeInv, ProcsOK
<1>2. /\ ClientsOK' /\ clients'[c] \in {NoRequest, Gone}
      /\ \A b \in Client \ {c} : clients'[b] = clients[b]
  BY <1>0, BecomesType, NoRecords DEF TypeInv
<1>3. Types'
  BY <1>0, <1>1, <1>2 DEF TypeInv, ModesOK, ServersOK, ReservationsOK, BootstrapsOK, ReapingOK,
       CoordsOK
<1>4. Clients'
  BY <1>0, <1>2, NoRecords DEF TypeInv, Clients, ClientFine
<1>5. NoNewUse
  BY <1>0, <1>1, <1>2, NoRecords DEF NoNewUse
<1> QED BY <1>0, <1>3, <1>4, <1>5, TypeStays, SameEntries DEF TypeInv

(* What a promotion does: the bootstrap becomes the entry of its session,  *)
(* or ends.                                                                *)
LEMMA PromoteCases ==
  ASSUME TypeInv, NEW c \in Client, Promote(c)
  PROVE  LET d == clients[c].at
             p == bootstraps[d][c]
             r == [clients[c] EXCEPT !.doing = "reserved", !.proc = NoProc]
         IN  /\ d \in Daemon /\ p \in Proc /\ clients[c].doing = "bootstrapped" /\ modes[d] = "up"
             /\ bootstraps' = [bootstraps EXCEPT ![d][c] = NoProc]
             /\ \/ /\ ~HasLive(d, SessionOf[c])
                   /\ servers' = [servers EXCEPT ![d][SessionOf[c]] = NewEntry("owned", p, c)]
                   /\ Moves(c, "holding")
                   /\ reservations' = Unreserved(c)
                   /\ procs' = procs
                \/ /\ procs' = StopProc(p, procs)
                   /\ Becomes(c, r)
                   /\ UNCHANGED <<servers, reservations>>
             /\ UNCHANGED <<modes, reaping>>
<1>1. clients[c].at \in Daemon /\ bootstraps[clients[c].at][c] \in Proc
  BY SMTT(40) DEF TypeInv, Clients, ClientFine, BootstrapsOK, Promote
<1> QED BY <1>1 DEF Promote, AcceptsWork

(* A bootstrap that becomes the server of its session, or is stopped when  *)
(* the session has one.                                                    *)
LEMMA PromoteType ==
  ASSUME TypeInv, UNCHANGED coords, NEW c \in Client, Promote(c)
  PROVE  TypeInv'
<1> DEFINE d == clients[c].at
           p == bootstraps[d][c]
           r == [clients[c] EXCEPT !.doing = "reserved", !.proc = NoProc]
<1>0. /\ d \in Daemon /\ p \in Proc /\ clients[c].doing = "bootstrapped"
      /\ bootstraps' = [bootstraps EXCEPT ![d][c] = NoProc]
      /\ UNCHANGED <<modes, reaping>>
  BY PromoteCases
<1>1. /\ BootstrapsOK' /\ bootstraps'[d][c] = NoProc
      /\ \A e \in Daemon, b \in Client :
           (e # d \/ b # c) => bootstraps'[e][b] = bootstraps[e][b]
  BY <1>0 DEF TypeInv, BootstrapsOK
<1>2. CASE /\ servers' = [servers EXCEPT ![d][SessionOf[c]] = NewEntry("owned", p, c)]
           /\ Moves(c, "holding")
           /\ reservations' = Unreserved(c)
           /\ procs' = procs
  <2>1. /\ ServersOK' /\ Entries'
        /\ servers'[d][SessionOf[c]] = NewEntry("owned", p, c)
        /\ \A e \in Daemon, s \in Session :
             (e # d \/ s # SessionOf[c]) => servers'[e][s] = servers[e][s]
    BY <1>0, <1>2, PlacesEntry DEF TypeInv
  <2>2. /\ ClientsOK'
        /\ clients'[c].doing \in {"holding", "gone"}
        /\ clients'[c].doing = "holding" => clients'[c].at = d /\ clients'[c].proc = clients[c].proc
        /\ clients'[c].proc \in {clients[c].proc, NoProc}
        /\ \A b \in Client \ {c} : clients'[b] = clients[b]
    BY <1>2, MovesType DEF TypeInv
  <2>3. ReservationsOK'
    BY <1>0, <1>2, UnreservedType DEF TypeInv, ReservationsOK
  <2>4. Types'
    BY <1>0, <1>1, <1>2, <2>1, <2>2, <2>3 DEF TypeInv, ProcsOK, ModesOK, ReapingOK, CoordsOK
  <2>5. Clients'
    <3>1. clients[c].proc \in Proc
      BY <1>0, Constants DEF TypeInv, Clients, ClientFine
    <3>2. ClientFine(c)'
      BY <1>0, <1>1, <2>2, <3>1 DEF TypeInv, Clients, ClientFine
    <3>3. \A b \in Client \ {c} : ClientFine(b)'
      BY <1>0, <1>1, <2>2, SMTT(40) DEF TypeInv, Clients, ClientFine
    <3> QED BY <3>2, <3>3 DEF Clients
  <2>6. NoNewUse
    <3>1. Of(c, p)
      BY <1>0 DEF Of
    <3>2. \A q \in Proc : procs[q] # "unused" => procs'[q] # "unused"
      BY <1>2
    <3>3. \A b \in Client : clients'[b].proc \in {clients[b].proc, NoProc}
      BY <2>2
    <3>4. \A e \in Daemon, b \in Client : bootstraps'[e][b] \in {bootstraps[e][b], NoProc}
      BY <1>1
    <3>5. \A e \in Daemon, s \in Session :
            \/ /\ servers'[e][s].proc = servers[e][s].proc
               /\ servers'[e][s].lease = servers[e][s].lease
            \/ Of(servers'[e][s].lease, servers'[e][s].proc)
      <4>1. NewEntry("owned", p, c).proc = p /\ NewEntry("owned", p, c).lease = c
        BY <1>0, NewEntryType
      <4> QED BY <2>1, <3>1, <4>1
    <3> QED BY <3>2, <3>3, <3>4, <3>5 DEF NoNewUse
  <2> QED BY <2>1, <2>4, <2>5, <2>6, TypeStays
<1>3. CASE /\ procs' = StopProc(p, procs)
           /\ Becomes(c, r)
           /\ UNCHANGED <<servers, reservations>>
  <2>1. ProcsOK' /\ \A q \in Proc : procs[q] # "unused" => procs'[q] # "unused"
    BY <1>0, <1>3, StopProcType, EndsType DEF TypeInv, ProcsOK
  <2>2. r \in ClientRecord /\ r.doing = "reserved" /\ r.proc = NoProc /\ r.at = d
    BY DEF TypeInv, ClientsOK, ClientRecord
  <2> HIDE DEF r
  <2>3. /\ ClientsOK' /\ clients'[c] \in {r, Gone}
        /\ \A b \in Client \ {c} : clients'[b] = clients[b]
    BY <1>3, <2>2, BecomesType DEF TypeInv
  <2>4. Types'
    BY <1>0, <1>1, <1>3, <2>1, <2>3 DEF TypeInv, ModesOK, ServersOK, ReservationsOK, ReapingOK,
       CoordsOK
  <2>5. Clients'
    BY <1>0, <1>1, <2>2, <2>3, NoRecords DEF TypeInv, Clients, ClientFine
  <2>6. NoNewUse
    BY <1>0, <1>1, <1>3, <2>1, <2>2, <2>3, NoRecords DEF NoNewUse
  <2> QED BY <1>3, <2>4, <2>5, <2>6, TypeStays, SameEntries DEF TypeInv
<1> QED BY <1>2, <1>3, PromoteCases, ZenonT(60)

(* A bootstrap that the daemon drops.                                      *)
LEMMA ReapBootstrapType ==
  ASSUME TypeInv, UNCHANGED coords, NEW d \in Daemon, NEW c \in Client, ReapBootstrap(d, c)
  PROVE  TypeInv'
<1>0. DropBootstrap(d, c) /\ UNCHANGED <<modes, servers, reservations, reaping, clients>>
  BY DEF ReapBootstrap
<1>1. /\ ProcsOK' /\ BootstrapsOK' /\ bootstraps'[d][c] = NoProc
      /\ \A e \in Daemon, b \in Client :
           (e # d \/ b # c) => bootstraps'[e][b] = bootstraps[e][b]
      /\ \A p \in Proc : procs[p] # "unused" => procs'[p] # "unused"
  BY <1>0, DropBootstrapType
<1>2. Types'
  BY <1>0, <1>1 DEF TypeInv, ModesOK, ServersOK, ReservationsOK, ReapingOK, ClientsOK, CoordsOK
<1>3. Clients'
  BY <1>0, <1>1 DEF TypeInv, Clients, ClientFine
<1>4. NoNewUse
  BY <1>0, <1>1 DEF NoNewUse
<1> QED BY <1>0, <1>2, <1>3, <1>4, TypeStays, SameEntries DEF TypeInv

(* A stop by proof keeps what is not about clients.                        *)
LEMMA InvalidateKeeps ==
  ASSUME TypeInv, NEW d \in Daemon, NEW x, x.session \in Session, InvalidateAndStop(d, x)
  PROVE  /\ ProcsOK' /\ ServersOK' /\ Entries'
         /\ \A p \in Proc : procs[p] # "unused" => procs'[p] # "unused"
         /\ \A e \in Daemon, s \in Session : servers'[e][s] \in {servers[e][s], NoEntry}
<1>1. /\ ProcsOK' /\ ServersOK' /\ Ends({servers[d][x.session].proc})
      /\ \A e \in Daemon, s \in Session : servers'[e][s] \in {servers[e][s], NoEntry}
  BY InvalidateType DEF TypeInv
<1>2. Shrinks
  BY <1>1 DEF Shrinks, SameEntry, TypeInv, Entries, EntryFine
<1> QED BY <1>1, <1>2, EndsType, ShrinksFine DEF TypeInv, ProcsOK

(* A proof read off an entry names that entry.                             *)
LEMMA ProofFields ==
  ASSUME NEW d \in Daemon, NEW s \in Session
  PROVE  /\ ProofOf(d, s).session = s /\ ProofOf(d, s).proc = servers[d][s].proc
         /\ ProofOf(d, s).lease = servers[d][s].lease
BY DEF ProofOf

(* A refresh renews the lease, or finds the server dead and drops it.      *)
LEMMA RefreshType ==
  ASSUME TypeInv, UNCHANGED coords, NEW c \in Client, Refresh(c)
  PROVE  TypeInv'
<1> DEFINE d == clients[c].at
           s == SessionOf[c]
           e == servers[d][s]
<1>0. /\ d \in Daemon /\ s \in Session /\ clients[c].doing = "holding" /\ e.kind # "absent"
      /\ UNCHANGED <<modes, reservations, bootstraps, reaping>>
  BY Constants DEF TypeInv, Clients, ClientFine, Refresh, Present
<1>1. CASE /\ e.kind = "handed_off" /\ clients' = [clients EXCEPT ![c].at = e.to]
           /\ UNCHANGED <<servers, procs>>
  <2>1. e.to \in Daemon
    BY <1>0, <1>1 DEF TypeInv, Entries, EntryFine
  <2>2. /\ ClientsOK' /\ \A b \in Client \ {c} : clients'[b] = clients[b]
        /\ clients'[c].at = e.to /\ clients'[c].doing = "holding"
        /\ clients'[c].proc = clients[c].proc
    BY <1>0, <1>1, <2>1 DEF TypeInv, ClientsOK, ClientRecord
  <2>3. ClientFine(c)'
    BY <1>0, <2>1, <2>2 DEF TypeInv, Clients, ClientFine
  <2> QED BY <1>0, <1>1, <2>2, <2>3, OnlyClient
<1>2. CASE servers' = [servers EXCEPT ![d][s].lapsed = FALSE] /\ UNCHANGED <<clients, procs>>
  <2>0. ServersOK'
    <3> DEFINE new == [e EXCEPT !.lapsed = FALSE]
    <3>1. e \in Entry
      BY <1>0 DEF TypeInv, ServersOK
    <3>2. new \in Entry
      BY <3>1 DEF Entry
    <3>3. servers' = [servers EXCEPT ![d][s] = new]
      BY <1>2
    <3> HIDE DEF new
    <3> QED BY <1>0, <3>2, <3>3 DEF TypeInv, ServersOK
  <2>1. Types'
    BY <1>0, <1>2, <2>0 DEF TypeInv, ProcsOK, ModesOK, ReservationsOK, BootstrapsOK,
       ReapingOK, ClientsOK, CoordsOK
  <2>2. Shrinks
    BY <1>0, <1>2, SMTT(40) DEF TypeInv, ServersOK, Entry, Shrinks, SameEntry, Entries, EntryFine
  <2>3. Clients' /\ NoNewUse
    BY <1>0, <1>2, <2>2, NoRecords DEF TypeInv, Clients, ClientFine, NoNewUse, Shrinks, SameEntry
  <2> QED BY <2>1, <2>2, <2>3, TypeStays, ShrinksFine DEF TypeInv
<1>3. CASE InvalidateAndStop(d, ProofOf(d, s)) /\ UNCHANGED clients
  <2>1. /\ ProcsOK' /\ ServersOK' /\ Entries'
        /\ \A p \in Proc : procs[p] # "unused" => procs'[p] # "unused"
        /\ \A f \in Daemon, t \in Session : servers'[f][t] \in {servers[f][t], NoEntry}
    BY <1>0, <1>3, InvalidateKeeps, ProofFields
  <2>2. Types'
    BY <1>0, <1>3, <2>1 DEF TypeInv, ModesOK, ReservationsOK, BootstrapsOK, ReapingOK, ClientsOK,
       CoordsOK
  <2>3. Clients' /\ NoNewUse
    BY <1>0, <1>3, <2>1, NoRecords DEF TypeInv, Clients, ClientFine, NoNewUse
  <2> QED BY <2>1, <2>2, <2>3, TypeStays
<1> QED BY <1>1, <1>2, <1>3 DEF Refresh

(* A client that looks up what to stop.                                    *)
LEMMA StopLookupType ==
  ASSUME TypeInv, UNCHANGED coords, NEW c \in Client, StopLookup(c)
  PROVE  TypeInv'
<1> DEFINE d == clients[c].at
           e == servers[d][SessionOf[c]]
<1>0. /\ d \in Daemon /\ SessionOf[c] \in Session /\ clients[c].doing = "holding"
      /\ UNCHANGED <<procs, modes, servers, reservations, bootstraps, reaping>>
  BY Constants DEF TypeInv, Clients, ClientFine, StopLookup, registries
<1>1. CASE e.kind = "handed_off" /\ clients' = [clients EXCEPT ![c].at = e.to]
  <2>1. e.to \in Daemon
    BY <1>0, <1>1 DEF TypeInv, Entries, EntryFine
  <2>2. /\ ClientsOK' /\ \A b \in Client \ {c} : clients'[b] = clients[b]
        /\ clients'[c].at = e.to /\ clients'[c].doing = "holding"
        /\ clients'[c].proc = clients[c].proc
    BY <1>0, <1>1, <2>1 DEF TypeInv, ClientsOK, ClientRecord
  <2>3. ClientFine(c)'
    BY <1>0, <2>1, <2>2 DEF TypeInv, Clients, ClientFine
  <2> QED BY <1>0, <2>2, <2>3, OnlyClient
<1>2. CASE /\ e.kind # "absent" /\ e.lease = c
           /\ clients' = [clients EXCEPT ![c].doing = "stopping", ![c].proc = e.proc]
  <2>1. e.proc \in Proc /\ Of(c, e.proc)
    BY <1>0, <1>2 DEF TypeInv, Entries, EntryFine, Of
  <2>2. /\ ClientsOK' /\ \A b \in Client \ {c} : clients'[b] = clients[b]
        /\ clients'[c].at = d /\ clients'[c].doing = "stopping"
        /\ clients'[c].proc = e.proc
    BY <1>0, <1>2, <2>1 DEF TypeInv, ClientsOK, ClientRecord, InFlight
  <2>3. ClientFine(c)'
    BY <1>0, <2>1, <2>2 DEF TypeInv, Clients, ClientFine
  <2> QED BY <1>0, <2>1, <2>2, <2>3, OnlyClient
<1>3. CASE clients' = [clients EXCEPT ![c] = Gone]
  <2>1. /\ ClientsOK' /\ \A b \in Client \ {c} : clients'[b] = clients[b]
        /\ clients'[c] = Gone
    BY <1>3, NoRecords DEF TypeInv, ClientsOK
  <2>2. ClientFine(c)'
    BY <1>0, <2>1, NoRecords DEF TypeInv, Clients, ClientFine
  <2> QED BY <1>0, <2>1, <2>2, NoRecords, OnlyClient
<1> QED BY <1>1, <1>2, <1>3 DEF StopLookup, Present

(* The proof a stop took names the session of its client.                  *)
StopProof(c) == [session |-> SessionOf[c], proc |-> clients[c].proc, lease |-> c]

(* ... and stops it, if it is still what it looked up.                     *)
LEMMA StopFinishType ==
  ASSUME TypeInv, UNCHANGED coords, NEW c \in Client, StopFinish(c)
  PROVE  TypeInv'
<1>0. /\ clients[c].at \in Daemon /\ StopProof(c).session \in Session
      /\ clients[c].doing = "stopping"
      /\ InvalidateAndStop(clients[c].at, StopProof(c))
      /\ clients' = [clients EXCEPT ![c] = Gone]
      /\ UNCHANGED <<modes, reservations, bootstraps, reaping>>
  BY Constants DEF TypeInv, Clients, ClientFine, StopFinish, StopProof
<1>1. /\ ProcsOK' /\ ServersOK' /\ Entries'
      /\ \A p \in Proc : procs[p] # "unused" => procs'[p] # "unused"
      /\ \A f \in Daemon, t \in Session : servers'[f][t] \in {servers[f][t], NoEntry}
  BY <1>0, InvalidateKeeps
<1>2. /\ ClientsOK' /\ \A b \in Client \ {c} : clients'[b] = clients[b]
      /\ clients'[c] = Gone
  BY <1>0, NoRecords DEF TypeInv, ClientsOK
<1>3. Types'
  BY <1>0, <1>1, <1>2 DEF TypeInv, ModesOK, ReservationsOK, BootstrapsOK, ReapingOK, CoordsOK
<1>4. Clients'
  BY <1>0, <1>2, NoRecords DEF TypeInv, Clients, ClientFine
<1>5. NoNewUse
  BY <1>0, <1>1, <1>2, NoRecords DEF NoNewUse
<1> QED BY <1>1, <1>3, <1>4, <1>5, TypeStays

(* A client that dies.                                                     *)
LEMMA ClientDiesType ==
  ASSUME TypeInv, UNCHANGED coords, NEW c \in Client, ClientDies(c)
  PROVE  TypeInv'
<1>0. UNCHANGED <<procs, modes, servers, reservations, bootstraps, reaping>>
  BY DEF ClientDies, registries
<1>1. /\ ClientsOK' /\ \A b \in Client \ {c} : clients'[b] = clients[b]
      /\ \/ clients'[c] = Gone
         \/ /\ clients'[c].doing = clients[c].doing /\ clients'[c].at = clients[c].at
            /\ clients'[c].proc = clients[c].proc
  BY NoRecords DEF TypeInv, ClientsOK, ClientRecord, ClientDies
<1>2. ClientFine(c)' /\ clients'[c].proc \in {clients[c].proc, NoProc}
  <2>1. CASE clients'[c] = Gone
    <3>1. \A d \in Daemon : bootstraps'[d][c] = bootstraps[d][c]
      BY <1>0
    <3> QED BY <2>1, <3>1, NoRecords DEF ClientFine
  <2>2. CASE /\ clients'[c].doing = clients[c].doing /\ clients'[c].at = clients[c].at
             /\ clients'[c].proc = clients[c].proc
    BY <1>0, <2>2 DEF TypeInv, Clients, ClientFine
  <2> QED BY <1>1, <2>1, <2>2
<1> QED BY <1>0, <1>1, <1>2, OnlyClient

(* A process that ends by itself.                                          *)
LEMMA ProcExitsType ==
  ASSUME TypeInv, UNCHANGED coords, NEW p \in Proc, ProcExits(p)
  PROVE  TypeInv'
<1>1. Types'
  BY DEF TypeInv, ProcExits, registries, ProcsOK, ModesOK, ServersOK, ReservationsOK, BootstrapsOK,
       ReapingOK, ClientsOK, CoordsOK
<1>2. Clients' /\ NoNewUse
  BY DEF TypeInv, ProcExits, registries, ProcsOK, Clients, ClientFine, NoNewUse
<1> QED BY <1>1, <1>2, TypeStays, SameEntries DEF TypeInv, ProcExits, registries

(* The reaper notes the entries whose lease has lapsed or whose process    *)
(* has ended.                                                              *)
LEMMA ReapScanType ==
  ASSUME TypeInv, UNCHANGED coords, NEW d \in Daemon, ReapScan(d)
  PROVE  TypeInv'
<1>1. ASSUME NEW s \in Session, servers[d][s].lapsed
      PROVE  ProofOf(d, s) \in Proof
  <2>1. servers[d][s].proc \in Proc /\ servers[d][s].lease \in Client
    BY <1>1 DEF TypeInv, Entries, EntryFine
  <2> QED BY <2>1 DEF ProofOf, Proof
<1>2. Types'
  BY <1>1 DEF TypeInv, ReapScan, ProcsOK, ModesOK, ServersOK, ReservationsOK, BootstrapsOK,
       ReapingOK, ClientsOK, CoordsOK
<1>3. Clients' /\ NoNewUse
  BY DEF TypeInv, ReapScan, Clients, ClientFine, NoNewUse
<1> QED BY <1>2, <1>3, TypeStays, SameEntries DEF TypeInv, ReapScan

(* A reaper ends an entry as a stop does, or drops a handed-off one.       *)
LEMMA ReapShape ==
  ASSUME TypeInv, NEW d \in Daemon, NEW x \in reaping[d], Reap(d, x)
  PROVE  /\ x \in Proof
         /\ \/ InvalidateAndStop(d, x)
            \/ /\ procs' = procs
               /\ servers[d][x.session].kind = "handed_off"
               /\ servers' = [servers EXCEPT ![d][x.session] = NoEntry]
            \/ UNCHANGED <<procs, servers>>
BY DEF Reap, TypeInv, ReapingOK

(* ... and stops them one by one.                                          *)
LEMMA ReapType ==
  ASSUME TypeInv, UNCHANGED coords, NEW d \in Daemon, NEW x \in reaping[d], Reap(d, x)
  PROVE  TypeInv'
<1>0. /\ x \in Proof /\ x.session \in Session
      /\ reaping' = [reaping EXCEPT ![d] = @ \ {x}]
      /\ UNCHANGED <<modes, reservations, bootstraps, clients>>
  BY ReapShape DEF Reap, Proof
<1>1. /\ ProcsOK' /\ ServersOK' /\ Entries'
      /\ \A p \in Proc : procs[p] # "unused" => procs'[p] # "unused"
      /\ \A f \in Daemon, t \in Session : servers'[f][t] \in {servers[f][t], NoEntry}
  <2>1. CASE InvalidateAndStop(d, x)
    BY <1>0, <2>1, InvalidateKeeps
  <2>2. CASE /\ procs' = procs /\ servers' = [servers EXCEPT ![d][x.session] = NoEntry]
    <3>1. /\ ServersOK'
          /\ \A f \in Daemon, t \in Session : servers'[f][t] \in {servers[f][t], NoEntry}
      BY <1>0, <2>2, NoRecords DEF TypeInv, ServersOK
    <3>2. Shrinks
      BY <3>1 DEF Shrinks, SameEntry, TypeInv, Entries, EntryFine
    <3> QED BY <2>2, <3>1, <3>2, ShrinksFine DEF TypeInv, ProcsOK
  <2>3. CASE UNCHANGED <<procs, servers>>
    BY <2>3, SameEntries DEF TypeInv, ProcsOK, ServersOK
  <2> QED BY <2>1, <2>2, <2>3, ReapShape
<1>2. ReapingOK'
  BY <1>0 DEF TypeInv, ReapingOK
<1>3. Types'
  BY <1>0, <1>1, <1>2 DEF TypeInv, ModesOK, ReservationsOK, BootstrapsOK, ClientsOK, CoordsOK
<1>4. Clients' /\ NoNewUse
  BY <1>0, <1>1, NoRecords DEF TypeInv, Clients, ClientFine, NoNewUse
<1> QED BY <1>1, <1>3, <1>4, TypeStays

(* A step that changes what a daemon accepts, and nothing else.            *)
LEMMA ModesType ==
  ASSUME TypeInv, ModesOK',
         UNCHANGED <<procs, servers, reservations, bootstraps, reaping, clients, coords>>
  PROVE  TypeInv'
<1>1. Types'
  BY DEF TypeInv, ProcsOK, ServersOK, ReservationsOK, BootstrapsOK, ReapingOK, ClientsOK, CoordsOK
<1>2. Clients' /\ NoNewUse
  BY DEF TypeInv, Clients, ClientFine, NoNewUse
<1> QED BY <1>1, <1>2, TypeStays, SameEntries DEF TypeInv

(* A daemon that starts, or is told to stop.                               *)
LEMMA SpawnDaemonType ==
  ASSUME TypeInv, UNCHANGED coords, NEW d \in Daemon, SpawnDaemon(d) \/ RequestStop(d)
  PROVE  TypeInv'
<1>1. ModesOK'
  BY DEF TypeInv, SpawnDaemon, RequestStop, ModesOK
<1> QED BY <1>1, ModesType DEF SpawnDaemon, RequestStop, registries

(* A daemon that stops everything ends what it holds and forgets the rest. *)
LEMMA StopAllShape ==
  ASSUME TypeInv, NEW d \in Daemon, StopAll(d)
  PROVE  /\ ProcsOK' /\ ServersOK' /\ ReservationsOK' /\ BootstrapsOK'
         /\ Ends(Held(d)) /\ \A p \in Held(d) : procs'[p] # "live"
         /\ \A e \in Daemon, s \in Session :
              servers'[e][s] = IF e = d THEN NoEntry ELSE servers[e][s]
         /\ \A e \in Daemon, c \in Client :
              bootstraps'[e][c] = IF e = d THEN NoProc ELSE bootstraps[e][c]
<1>1. Held(d) \subseteq Proc
  BY DEF TypeInv, Held, Entries, EntryFine, BootstrapsOK
<1>2. ProcsOK' /\ Ends(Held(d)) /\ \A p \in Held(d) : procs'[p] # "live"
  BY <1>1 DEF TypeInv, ProcsOK, StopAll, Ends
<1>3. ServersOK' /\ \A e \in Daemon, s \in Session :
                      servers'[e][s] = IF e = d THEN NoEntry ELSE servers[e][s]
  BY NoRecords DEF TypeInv, ServersOK, StopAll
<1>4. ReservationsOK' /\ BootstrapsOK'
      /\ \A e \in Daemon, c \in Client :
           bootstraps'[e][c] = IF e = d THEN NoProc ELSE bootstraps[e][c]
  BY DEF TypeInv, ReservationsOK, BootstrapsOK, StopAll
<1> QED BY <1>2, <1>3, <1>4

(* A daemon that stops all it has.                                         *)
LEMMA StopAllType ==
  ASSUME TypeInv, NEW d \in Daemon, StopAll(d), ModesOK', UNCHANGED <<reaping, clients, coords>>
  PROVE  TypeInv'
<1>1. /\ ProcsOK' /\ ServersOK' /\ ReservationsOK' /\ BootstrapsOK' /\ Ends(Held(d))
      /\ \A e \in Daemon, s \in Session : servers'[e][s] \in {servers[e][s], NoEntry}
      /\ \A e \in Daemon, c \in Client : bootstraps'[e][c] \in {bootstraps[e][c], NoProc}
  BY StopAllShape
<1>2. Types'
  BY <1>1 DEF TypeInv, ReapingOK, ClientsOK, CoordsOK
<1>3. Shrinks
  BY <1>1 DEF Shrinks, SameEntry, TypeInv, Entries, EntryFine
<1>4. Clients'
  BY <1>1 DEF TypeInv, Clients, ClientFine
<1>5. NoNewUse
  BY <1>1, NoRecords, EndsType DEF TypeInv, NoNewUse, ProcsOK
<1> QED BY <1>2, <1>3, <1>4, <1>5, TypeStays, ShrinksFine DEF TypeInv

(* The ways in which it comes to that.                                     *)
LEMMA StopsType ==
  ASSUME TypeInv, UNCHANGED coords, NEW d \in Daemon,
         StopServers(d) \/ ExitStopped(d) \/ ExitIdle(d) \/ ExitDrained(d)
  PROVE  TypeInv'
<1>1. ModesOK' /\ StopAll(d) /\ UNCHANGED <<reaping, clients>>
  BY DEF TypeInv, ModesOK, StopServers, ExitStopped, ExitIdle, ExitDrained, Exit
<1> QED BY <1>1, StopAllType

(* Changing only whether leases have lapsed keeps entries fine.            *)
LapsesOnly == \A d \in Daemon, s \in Session : SameEntry(d, s)

(* Such a step keeps the types.                                            *)
LEMMA LapsesType ==
  ASSUME TypeInv, ServersOK', ModesOK', LapsesOnly,
         UNCHANGED <<procs, reservations, bootstraps, reaping, clients, coords>>
  PROVE  TypeInv'
<1>1. Types'
  BY DEF TypeInv, ProcsOK, ReservationsOK, BootstrapsOK, ReapingOK, ClientsOK, CoordsOK
<1>2. Clients' /\ NoNewUse /\ Shrinks
  BY DEF TypeInv, Clients, ClientFine, NoNewUse, LapsesOnly, SameEntry, Shrinks
<1> QED BY <1>1, <1>2, TypeStays, ShrinksFine DEF TypeInv

(* A lease that runs out is such a step of the registry.                   *)
LEMMA LapseShape ==
  ASSUME TypeInv, NEW d \in Daemon, NEW s \in Session, Lapse(d, s)
  PROVE  ServersOK' /\ LapsesOnly
<1> DEFINE new == [servers[d][s] EXCEPT !.lapsed = TRUE]
<1>1. servers[d][s] \in Entry
  BY DEF TypeInv, ServersOK
<1>2. /\ new \in Entry /\ new.kind = servers[d][s].kind /\ new.proc = servers[d][s].proc
      /\ new.lease = servers[d][s].lease /\ new.to = servers[d][s].to
  BY <1>1 DEF Entry
<1>3. servers' = [servers EXCEPT ![d][s] = new] /\ servers[d][s].kind # "absent"
  BY DEF Lapse, Present
<1> HIDE DEF new
<1>4. /\ ServersOK' /\ servers'[d][s] = new
      /\ \A e \in Daemon, t \in Session : (e # d \/ t # s) => servers'[e][t] = servers[e][t]
  BY <1>2, <1>3 DEF TypeInv, ServersOK
<1> QED BY <1>2, <1>3, <1>4 DEF LapsesOnly, SameEntry, TypeInv, Entries, EntryFine

(* A lease that runs out.                                                  *)
LEMMA LapseType ==
  ASSUME TypeInv, NEW d \in Daemon, NEW s \in Session, Lapse(d, s)
  PROVE  TypeInv'
BY LapseShape, LapsesType DEF Lapse, TypeInv, ModesOK

(***************************************************************************)
(* The coordinators.                                                       *)
(***************************************************************************)

(* Where a coordinator goes after its start.                               *)
Places == {"exported", "ready", "adopted", "unsure", "undo_adopt", "undo_release",
           "undo_losing", "unquiesce", "done", "failed"}

(* A coordinator that goes on keeps its exports, or is over and forgets    *)
(* them.                                                                   *)
LEMMA GoesType ==
  ASSUME CoordsOK, Coords, NEW k \in Coordinator, NEW pc \in Places, Goes(k, pc)
  PROVE  /\ CoordsOK' /\ Coords'
         /\ coords'[k].pc = pc
         /\ coords'[k].exports = IF pc \in {"done", "failed"} THEN {} ELSE coords[k].exports
         /\ \A j \in Coordinator \ {k} : coords'[j] = coords[j]
<1>1. /\ CoordsOK'
      /\ coords'[k].pc = pc
      /\ coords'[k].exports = IF pc \in {"done", "failed"} THEN {} ELSE coords[k].exports
      /\ \A j \in Coordinator \ {k} : coords'[j] = coords[j]
  BY DEF CoordsOK, CoordinatorRecord, Goes, Places
<1>2. CoordFine(k)'
  BY <1>1 DEF Places, Coords, CoordFine
<1>3. \A j \in Coordinator \ {k} : CoordFine(j)'
  BY <1>1 DEF Coords, CoordFine
<1> QED BY <1>1, <1>2, <1>3 DEF Coords

(* What a step of a coordinator that exports nothing has to show.          *)
LEMMA CoordinatorType ==
  ASSUME TypeInv, NEW k \in Coordinator, NEW pc \in Places, Goes(k, pc),
         ModesOK', ServersOK', Entries', NoNewUse,
         UNCHANGED <<procs, reservations, bootstraps, reaping, clients>>
  PROVE  TypeInv'
<1>1. /\ CoordsOK' /\ Coords'
      /\ \A j \in Coordinator : coords'[j].exports \in {coords[j].exports, {}}
  BY GoesType DEF TypeInv
<1>2. NoNewExport
  BY <1>1 DEF NoNewExport, Of
<1>3. Types'
  BY <1>1 DEF TypeInv, ProcsOK, ReservationsOK, BootstrapsOK, ReapingOK, ClientsOK
<1>4. Clients'
  BY DEF TypeInv, Clients, ClientFine
<1> QED BY <1>1, <1>2, <1>3, <1>4, UsesStay DEF TypeInv

(* The exports of a quiescing daemon are its owned entries.                *)
LEMMA ExportedShape ==
  ASSUME TypeInv, NEW x \in Exported
  PROVE  /\ x \in Export /\ SessionOf[x.lease] = x.session
         /\ servers[Legacy][x.session].kind = "owned" /\ procs[x.proc] = "live"
         /\ x.proc = servers[Legacy][x.session].proc
         /\ x.lease = servers[Legacy][x.session].lease
         /\ Of(x.lease, x.proc)
         /\ \A y \in Exported : y.session = x.session => y = x
<1>1. PICK s \in Session :
        /\ Exportable(s)
        /\ x = [session |-> s, proc |-> servers[Legacy][s].proc,
                lease |-> servers[Legacy][s].lease]
  BY DEF Exported
<1>2. /\ servers[Legacy][s].proc \in Proc /\ servers[Legacy][s].lease \in Client
      /\ SessionOf[servers[Legacy][s].lease] = s
      /\ servers[Legacy][s].kind = "owned" /\ procs[servers[Legacy][s].proc] = "live"
  BY <1>1, Constants DEF TypeInv, Entries, EntryFine, Exportable, HasLive
<1>3. x.session = s /\ x.proc = servers[Legacy][s].proc /\ x.lease = servers[Legacy][s].lease
  BY <1>1
<1>4. \A y \in Exported : y.session = s => y = x
  BY <1>1 DEF Exported
<1> QED BY <1>1, <1>2, <1>3, <1>4, Constants DEF Export, Of

(* Quiescing renews leases; the exports are the entries it finds.          *)
LEMMA QuiesceShape ==
  ASSUME TypeInv, NEW k \in Coordinator, Quiesce(k)
  PROVE  /\ ServersOK' /\ ModesOK' /\ LapsesOnly
         /\ \A s \in Session : servers[Legacy][s].kind = "owned"
                                 => servers'[Legacy][s].kind = "owned"
         /\ coords[k].pc = "start" /\ coords[k].exports = {}
         /\ UNCHANGED <<procs, reservations, bootstraps, reaping, clients>>
         /\ \A d \in Daemon : modes[d] # "down" => modes'[d] # "down"
         /\ \/ Goes(k, "done") \/ Goes(k, "failed")
            \/ /\ modes'[Legacy] # "down"
               /\ coords' = [coords EXCEPT ![k] = [pc |-> "exported", exports |-> Exported]]
<1>1. /\ coords[k].pc = "start" /\ coords[k].exports = {}
      /\ UNCHANGED <<procs, reservations, bootstraps, reaping, clients>>
  BY DEF TypeInv, Coords, CoordFine, Quiesce
<1>2. CASE Goes(k, "failed") /\ UNCHANGED <<modes, servers>>
  BY <1>1, <1>2 DEF TypeInv, ServersOK, ModesOK, LapsesOnly, SameEntry, Entries, EntryFine
<1>3. CASE /\ modes' = [modes EXCEPT ![Legacy] = "quiescing"]
           /\ servers' = [servers EXCEPT ![Legacy] =
                [s \in Session |-> IF Exportable(s) THEN [@[s] EXCEPT !.lapsed = FALSE] ELSE @[s]]]
  <2> DEFINE new(s) == IF Exportable(s) THEN [servers[Legacy][s] EXCEPT !.lapsed = FALSE]
                                        ELSE servers[Legacy][s]
  <2>1. \A s \in Session :
          /\ new(s) \in Entry
          /\ new(s).kind = servers[Legacy][s].kind /\ new(s).proc = servers[Legacy][s].proc
          /\ new(s).lease = servers[Legacy][s].lease /\ new(s).to = servers[Legacy][s].to
          /\ new(s).lapsed => servers[Legacy][s].kind # "absent"
    <3> SUFFICES ASSUME NEW s \in Session
                 PROVE  /\ new(s) \in Entry
                        /\ new(s).kind = servers[Legacy][s].kind
                        /\ new(s).proc = servers[Legacy][s].proc
                        /\ new(s).lease = servers[Legacy][s].lease
                        /\ new(s).to = servers[Legacy][s].to
                        /\ new(s).lapsed => servers[Legacy][s].kind # "absent"
      OBVIOUS
    <3>1. servers[Legacy][s] \in Entry
      BY Constants DEF TypeInv, ServersOK
    <3>2. servers[Legacy][s].kind = "absent" => ~servers[Legacy][s].lapsed
      BY Constants DEF TypeInv, Entries, EntryFine
    <3> QED BY <3>1, <3>2 DEF Entry
  <2>2. servers' = [servers EXCEPT ![Legacy] = [s \in Session |-> new(s)]]
    BY <1>3
  <2> HIDE DEF new
  <2>3. /\ ServersOK'
        /\ \A s \in Session : servers'[Legacy][s] = new(s)
        /\ \A d \in Daemon \ {Legacy}, s \in Session : servers'[d][s] = servers[d][s]
    BY <2>1, <2>2, Constants DEF TypeInv, ServersOK
  <2>4. LapsesOnly
    BY <2>1, <2>3 DEF LapsesOnly, SameEntry, TypeInv, Entries, EntryFine
  <2>5. /\ ModesOK' /\ modes'[Legacy] # "down"
        /\ \A d \in Daemon : modes[d] # "down" => modes'[d] # "down"
    BY <1>3, Constants DEF TypeInv, ModesOK
  <2>6. \/ Goes(k, "done") \/ Goes(k, "failed")
        \/ coords' = [coords EXCEPT ![k] = [pc |-> "exported", exports |-> Exported]]
    <3>1. coords[k] = [pc |-> "start", exports |-> {}]
      BY <1>1 DEF TypeInv, CoordsOK, CoordinatorRecord
    <3>2. [coords[k] EXCEPT !.pc = "done"] = [pc |-> "done", exports |-> {}]
      BY <3>1
    <3>3. CASE coords' = [coords EXCEPT ![k] = [@ EXCEPT !.pc = "done"]]
      <4>1. coords' = [coords EXCEPT ![k] = [coords[k] EXCEPT !.pc = "done"]]
        BY <3>3
      <4> QED BY <4>1, <3>2 DEF Goes
    <3> QED BY <3>3 DEF Quiesce, Goes
  <2> QED BY <1>1, <2>1, <2>3, <2>4, <2>5, <2>6, Constants
<1> QED BY <1>2, <1>3 DEF Quiesce

(* Renewing leases connects no process with another one.                   *)
LEMMA LapsesUse ==
  ASSUME LapsesOnly, UNCHANGED <<procs, bootstraps, clients>>
  PROVE  NoNewUse
BY DEF LapsesOnly, SameEntry, NoNewUse

(* The legacy daemon is quiesced and exports what it has.                  *)
LEMMA QuiesceType ==
  ASSUME TypeInv, NEW k \in Coordinator, Quiesce(k)
  PROVE  TypeInv'
<1>1. /\ ServersOK' /\ ModesOK' /\ LapsesOnly /\ NoNewUse
      /\ UNCHANGED <<procs, reservations, bootstraps, reaping, clients>>
  BY QuiesceShape, LapsesUse
<1>2. Entries'
  BY <1>1, ShrinksFine DEF TypeInv, LapsesOnly, Shrinks
<1>3. CASE Goes(k, "done") \/ Goes(k, "failed")
  BY <1>1, <1>2, <1>3, CoordinatorType DEF Places
<1>4. CASE coords' = [coords EXCEPT ![k] = [pc |-> "exported", exports |-> Exported]]
  <2>1. /\ CoordsOK' /\ coords'[k].pc = "exported" /\ coords'[k].exports = Exported
        /\ \A j \in Coordinator \ {k} : coords'[j] = coords[j]
    BY <1>4, ExportedShape DEF TypeInv, CoordsOK, CoordinatorRecord
  <2>2. Coords'
    <3>1. CoordFine(k)'
      BY <2>1, ExportedShape DEF CoordFine
    <3>2. \A j \in Coordinator \ {k} : CoordFine(j)'
      BY <2>1 DEF TypeInv, Coords, CoordFine
    <3> QED BY <3>1, <3>2 DEF Coords
  <2>3. NoNewExport
    BY <2>1, ExportedShape DEF NoNewExport, Of
  <2>4. Types'
    BY <1>1, <2>1 DEF TypeInv, ProcsOK, ReservationsOK, BootstrapsOK, ReapingOK, ClientsOK
  <2>5. Clients'
    BY <1>1 DEF TypeInv, Clients, ClientFine
  <2> QED BY <1>1, <1>2, <2>2, <2>3, <2>4, <2>5, UsesStay DEF TypeInv
<1> QED BY <1>3, <1>4, QuiesceShape

(* Adopting, taking back and releasing touch the entries of the exports    *)
(* only.                                                                   *)
LEMMA AdoptShape ==
  ASSUME TypeInv, NEW k \in Coordinator, AdoptEntries(GenOf[k], coords[k].exports)
  PROVE  /\ ServersOK' /\ Entries'
         /\ \A d \in Daemon, s \in Session :
              (d # GenOf[k] \/ \A x \in coords[k].exports : x.session # s)
                => servers'[d][s] = servers[d][s]
         /\ \A x \in coords[k].exports :
              /\ servers'[GenOf[k]][x.session].kind = "adopted"
              /\ servers'[GenOf[k]][x.session].proc = x.proc
              /\ servers'[GenOf[k]][x.session].lease = x.lease
<1> DEFINE g == GenOf[k]
           xs == coords[k].exports
           pick(s) == CHOOSE y \in xs : y.session = s
           new(s) == IF \E x \in xs : x.session = s
                     THEN NewEntry("adopted", pick(s).proc, pick(s).lease) ELSE servers[g][s]
<1>0. g \in Daemon /\ g # Legacy /\ xs \subseteq Export
  BY Constants DEF TypeInv, CoordsOK, CoordinatorRecord
<1>1. \A x \in xs : x.session \in Session /\ x.proc \in Proc /\ x.lease \in Client
                      /\ SessionOf[x.lease] = x.session /\ pick(x.session) = x
  <2> SUFFICES ASSUME NEW x \in xs
               PROVE  x.session \in Session /\ x.proc \in Proc /\ x.lease \in Client
                        /\ SessionOf[x.lease] = x.session /\ pick(x.session) = x
    OBVIOUS
  <2>1. pick(x.session) \in xs /\ pick(x.session).session = x.session
    OBVIOUS
  <2> QED BY <1>0, <2>1 DEF TypeInv, Coords, CoordFine, Export
<1> HIDE DEF pick
<1>2. \A s \in Session :
        \/ \E x \in xs : x.session = s /\ new(s) = NewEntry("adopted", x.proc, x.lease)
        \/ (\A x \in xs : x.session # s) /\ new(s) = servers[g][s]
  BY <1>1
<1>3. servers' = [servers EXCEPT ![g] = [s \in Session |-> new(s)]]
  BY DEF AdoptEntries, pick
<1>4. \A s \in Session : new(s) \in Entry
  BY <1>0, <1>1, <1>2, NewEntryType DEF TypeInv, ServersOK
<1> HIDE DEF new
<1>5. /\ ServersOK' /\ \A s \in Session : servers'[g][s] = new(s)
      /\ \A d \in Daemon \ {g}, s \in Session : servers'[d][s] = servers[d][s]
  BY <1>0, <1>3, <1>4 DEF TypeInv, ServersOK
<1>6. \A x \in xs : new(x.session) = NewEntry("adopted", x.proc, x.lease)
  BY <1>1, <1>2 DEF TypeInv, Coords, CoordFine
<1>7. Entries'
  <2> SUFFICES ASSUME NEW d \in Daemon, NEW s \in Session PROVE EntryFine(d, s)'
    BY DEF Entries
  <2>1. CASE d # g
    BY <1>5, <2>1 DEF TypeInv, Entries, EntryFine
  <2>2. CASE d = g /\ \A x \in xs : x.session # s
    BY <1>2, <1>5, <2>2 DEF TypeInv, Entries, EntryFine
  <2>3. CASE d = g /\ \E x \in xs : x.session = s
    <3>1. PICK x \in xs : x.session = s
      BY <2>3
    <3>2. servers'[d][s] = NewEntry("adopted", x.proc, x.lease)
      BY <1>5, <1>6, <2>3, <3>1
    <3> QED BY <1>1, <3>1, <3>2, NewEntryType DEF EntryFine
  <2> QED BY <2>1, <2>2, <2>3
<1>8. \A x \in xs : servers'[g][x.session] = NewEntry("adopted", x.proc, x.lease)
  BY <1>1, <1>5, <1>6
<1>9. \A x \in xs : /\ servers'[g][x.session].kind = "adopted"
                    /\ servers'[g][x.session].proc = x.proc
                    /\ servers'[g][x.session].lease = x.lease
  BY <1>1, <1>8, NewEntryType
<1> QED BY <1>2, <1>5, <1>7, <1>9

(* Taking back removes entries of the generation that the exports name.    *)
LEMMA UnadoptShape ==
  ASSUME TypeInv, NEW k \in Coordinator, UnadoptEntries(GenOf[k], coords[k].exports)
  PROVE  /\ ServersOK' /\ Entries'
         /\ \A d \in Daemon, s \in Session :
              \/ servers'[d][s] = servers[d][s]
              \/ /\ d = GenOf[k] /\ servers'[d][s] = NoEntry
                 /\ \E x \in coords[k].exports : x.session = s
<1>1. GenOf[k] \in Daemon
  BY Constants
<1>2. /\ ServersOK'
      /\ \A d \in Daemon, s \in Session :
           \/ servers'[d][s] = servers[d][s]
           \/ /\ d = GenOf[k] /\ servers'[d][s] = NoEntry
              /\ \E x \in coords[k].exports : x.session = s
  BY <1>1, NoRecords DEF TypeInv, ServersOK, UnadoptEntries
<1>3. Shrinks
  BY <1>2 DEF Shrinks, SameEntry, TypeInv, Entries, EntryFine
<1> QED BY <1>2, <1>3, ShrinksFine DEF TypeInv

(* Releasing marks entries of the legacy daemon that match their exports   *)
(* as handed off to the generation.                                        *)
LEMMA ReleaseShape ==
  ASSUME TypeInv, NEW k \in Coordinator, CanRelease(GenOf[k], coords[k].exports),
         ReleaseEntries(GenOf[k], coords[k].exports)
  PROVE  /\ ServersOK' /\ Entries'
         /\ \A d \in Daemon, s \in Session :
              \/ servers'[d][s] = servers[d][s]
              \/ /\ d = Legacy /\ servers'[d][s].kind = "handed_off"
                 /\ servers'[d][s].proc = servers[d][s].proc
                 /\ servers'[d][s].lease = servers[d][s].lease
                 /\ servers'[d][s].to = GenOf[k]
                 /\ \E x \in coords[k].exports : x.session = s /\ Matches(Legacy, x)
<1> DEFINE g == GenOf[k]
           xs == coords[k].exports
           new(s) == IF \E x \in xs : x.session = s
                     THEN [servers[Legacy][s] EXCEPT !.kind = "handed_off", !.to = g,
                                                     !.lapsed = FALSE]
                     ELSE servers[Legacy][s]
<1>0. g \in Daemon \ {Legacy} /\ Legacy \in Daemon
  BY Constants
<1>1. ASSUME NEW s \in Session
      PROVE  /\ new(s) \in Entry
             /\ \/ new(s) = servers[Legacy][s]
                \/ /\ new(s).kind = "handed_off" /\ new(s).to = g
                   /\ new(s).proc = servers[Legacy][s].proc
                   /\ new(s).lease = servers[Legacy][s].lease
                   /\ \E x \in xs : x.session = s
  <2>1. servers[Legacy][s] \in Entry
    BY <1>0 DEF TypeInv, ServersOK
  <2> QED BY <1>0, <2>1 DEF Entry, Kinds
<1>2. servers' = [servers EXCEPT ![Legacy] = [s \in Session |-> new(s)]]
  BY DEF ReleaseEntries
<1> HIDE DEF new
<1>3. /\ ServersOK' /\ \A s \in Session : servers'[Legacy][s] = new(s)
      /\ \A d \in Daemon \ {Legacy}, s \in Session : servers'[d][s] = servers[d][s]
  BY <1>0, <1>1, <1>2 DEF TypeInv, ServersOK
<1>4. \A x \in xs : Matches(Legacy, x) /\ servers[Legacy][x.session].kind # "absent"
  BY DEF CanRelease, Present
<1>5. \A d \in Daemon, s \in Session :
        \/ servers'[d][s] = servers[d][s]
        \/ /\ d = Legacy /\ servers'[d][s].kind = "handed_off"
           /\ servers'[d][s].proc = servers[d][s].proc
           /\ servers'[d][s].lease = servers[d][s].lease
           /\ servers'[d][s].to = g
           /\ \E x \in xs : x.session = s /\ Matches(Legacy, x)
  BY <1>1, <1>3, <1>4
<1>6. Entries'
  <2> SUFFICES ASSUME NEW d \in Daemon, NEW s \in Session PROVE EntryFine(d, s)'
    BY DEF Entries
  <2>1. CASE servers'[d][s] = servers[d][s]
    BY <2>1 DEF TypeInv, Entries, EntryFine
  <2>2. CASE servers'[d][s] # servers[d][s]
    <3>1. servers[d][s].kind # "absent"
      BY <1>4, <1>5, <2>2
    <3> QED BY <1>0, <1>5, <2>2, <3>1 DEF TypeInv, Entries, EntryFine
  <2> QED BY <2>1, <2>2
<1> QED BY <1>3, <1>5, <1>6

(* The generation adopts the exports.                                      *)
LEMMA AdoptType ==
  ASSUME TypeInv, NEW k \in Coordinator, Adopt(k)
  PROVE  TypeInv'
<1>0. UNCHANGED <<procs, modes, reservations, bootstraps, reaping, clients>>
  BY DEF Adopt
<1>1. CASE Goes(k, "undo_adopt") /\ UNCHANGED servers
  <2>1. NoNewUse /\ ModesOK' /\ ServersOK'
    BY <1>0, <1>1 DEF NoNewUse, TypeInv, ModesOK, ServersOK
  <2> QED BY <1>0, <1>1, <2>1, SameEntries, CoordinatorType DEF TypeInv, Places
<1>2. CASE /\ AdoptEntries(GenOf[k], coords[k].exports)
           /\ Goes(k, "adopted") \/ Goes(k, "undo_adopt")
  <2>1. /\ ServersOK' /\ Entries'
        /\ \A d \in Daemon, s \in Session :
             (d # GenOf[k] \/ \A x \in coords[k].exports : x.session # s)
               => servers'[d][s] = servers[d][s]
        /\ \A x \in coords[k].exports :
             /\ servers'[GenOf[k]][x.session].proc = x.proc
             /\ servers'[GenOf[k]][x.session].lease = x.lease
    BY <1>2, AdoptShape
  <2>2. \A x \in coords[k].exports : Of(x.lease, x.proc)
    BY DEF Of
  <2>3. NoNewUse /\ ModesOK'
    BY <1>0, <2>1, <2>2 DEF NoNewUse, TypeInv, ModesOK
  <2> QED BY <1>0, <1>2, <2>1, <2>3, CoordinatorType DEF Places
<1> QED BY <1>1, <1>2 DEF Adopt, Answered

(* The legacy daemon releases them.                                        *)
LEMMA ReleaseType ==
  ASSUME TypeInv, NEW k \in Coordinator, Release(k)
  PROVE  TypeInv'
<1>0. UNCHANGED <<procs, modes, reservations, bootstraps, reaping, clients>>
  BY DEF Release
<1>1. CASE Goes(k, "unsure") /\ UNCHANGED servers
  <2>1. NoNewUse /\ ModesOK' /\ ServersOK'
    BY <1>0, <1>1 DEF NoNewUse, TypeInv, ModesOK, ServersOK
  <2> QED BY <1>0, <1>1, <2>1, SameEntries, CoordinatorType DEF TypeInv, Places
<1>2. CASE /\ CanRelease(GenOf[k], coords[k].exports)
           /\ ReleaseEntries(GenOf[k], coords[k].exports)
           /\ Goes(k, "done") \/ Goes(k, "unsure")
  <2>1. /\ ServersOK' /\ Entries'
        /\ \A d \in Daemon, s \in Session :
             /\ servers'[d][s].proc = servers[d][s].proc
             /\ servers'[d][s].lease = servers[d][s].lease
    BY <1>2, ReleaseShape
  <2>2. NoNewUse /\ ModesOK'
    BY <1>0, <2>1 DEF NoNewUse, TypeInv, ModesOK
  <2> QED BY <1>0, <1>2, <2>1, <2>2, CoordinatorType DEF Places
<1> QED BY <1>1, <1>2 DEF Release, Answered

(* The generation gives them back.                                         *)
LEMMA UnadoptType ==
  ASSUME TypeInv, NEW k \in Coordinator, Unadopt(k)
  PROVE  TypeInv'
<1>0. UNCHANGED <<procs, modes, reservations, bootstraps, reaping, clients>>
  BY DEF Unadopt
<1>1. PICK pc \in Places : Goes(k, pc)
  BY DEF Unadopt, Answered, Places
<1>2. ServersOK' /\ Entries'
      /\ \A d \in Daemon, s \in Session : servers'[d][s] \in {servers[d][s], NoEntry}
  <2>1. CASE UnadoptEntries(GenOf[k], coords[k].exports)
    BY <2>1, UnadoptShape
  <2>2. CASE UNCHANGED servers
    BY <2>2, SameEntries DEF TypeInv, ServersOK
  <2> QED BY <2>1, <2>2 DEF Unadopt
<1>3. NoNewUse /\ ModesOK'
  BY <1>0, <1>2, NoRecords DEF NoNewUse, TypeInv, ModesOK
<1> QED BY <1>0, <1>1, <1>2, <1>3, CoordinatorType

(* The steps of a coordinator that leave all entries alone.                *)
AsideStep(k) == EnsureGeneration(k) \/ ReleaseStatus(k) \/ Unquiesce(k) \/ CoordinatorDies(k)

(* They change what daemons accept, and where the coordinator is.          *)
LEMMA AsideShape ==
  ASSUME TypeInv, NEW k \in Coordinator, AsideStep(k)
  PROVE  /\ UNCHANGED <<procs, servers, reservations, bootstraps, reaping, clients>>
         /\ ModesOK'
         /\ \A d \in Daemon : modes[d] # "down" => modes'[d] # "down"
         /\ coords[k].pc \notin {"done", "failed"}
         /\ \E pc \in Places \ {"exported", "adopted"} : Goes(k, pc)
<1>0. GenOf[k] \in Daemon /\ Legacy \in Daemon
  BY Constants
<1>1. UNCHANGED <<procs, servers, reservations, bootstraps, reaping, clients>>
  BY DEF AsideStep, EnsureGeneration, ReleaseStatus, Unquiesce, CoordinatorDies, registries
<1>2. ModesOK' /\ \A d \in Daemon : modes[d] # "down" => modes'[d] # "down"
  BY <1>0 DEF TypeInv, ModesOK, AsideStep, EnsureGeneration, ReleaseStatus, Unquiesce,
     CoordinatorDies
<1>3. Decision(GenOf[k], coords[k].exports) \in {"done", "undo_release", "undo_losing", "failed"}
  BY DEF Decision
<1>4. \E pc \in Places \ {"exported", "adopted"} : Goes(k, pc)
  BY <1>3 DEF AsideStep, EnsureGeneration, ReleaseStatus, Unquiesce, CoordinatorDies, Answered,
     Places
<1>5. coords[k].pc \notin {"done", "failed"}
  BY DEF AsideStep, EnsureGeneration, ReleaseStatus, Unquiesce, CoordinatorDies
<1> QED BY <1>1, <1>2, <1>4, <1>5

(* They keep the types.                                                    *)
LEMMA AsideType ==
  ASSUME TypeInv, NEW k \in Coordinator, AsideStep(k)
  PROVE  TypeInv'
<1>0. UNCHANGED <<procs, servers, reservations, bootstraps, reaping, clients>> /\ ModesOK'
  BY AsideShape
<1>1. PICK pc \in Places : Goes(k, pc)
  BY AsideShape
<1>2. NoNewUse /\ ServersOK'
  BY <1>0 DEF NoNewUse, TypeInv, ServersOK
<1> QED BY <1>0, <1>1, <1>2, SameEntries, CoordinatorType DEF TypeInv

(***************************************************************************)
(* All steps, by who takes them.                                           *)
(***************************************************************************)
ClientStep(c) ==
  \/ \E d \in Daemon : ReserveScan(c, d)
  \/ ReserveInsert(c) \/ ReleaseReservation(c)
  \/ \E p \in Proc : EnsureSpawn(c, p)
  \/ EnsureRegister(c) \/ EnsureFails(c)
  \/ \E d \in Daemon, p \in Proc : BootstrapSpawn(c, d, p)
  \/ BootstrapRegister(c) \/ BootstrapFails(c)
  \/ AsksThread(c) \/ ThreadAnswered(c) \/ ThreadFails(c)
  \/ Promote(c) \/ Abort(c)
  \/ Refresh(c) \/ StopLookup(c) \/ StopFinish(c) \/ ClientDies(c)

(* The steps of a daemon.                                                  *)
DaemonStep(d) ==
  \/ \E t \in Thread : ReservationLapses(d, t)
  \/ \E c \in Client : ReapBootstrap(d, c)
  \/ ReapScan(d) \/ \E x \in reaping[d] : Reap(d, x)
  \/ SpawnDaemon(d) \/ RequestStop(d)
  \/ StopServers(d) \/ ExitStopped(d) \/ ExitIdle(d) \/ ExitDrained(d)

(* The steps of a coordinator.                                             *)
CoordinatorStep(k) == Quiesce(k) \/ Adopt(k) \/ Release(k) \/ Unadopt(k) \/ AsideStep(k)

(* A step is one of a client, a daemon, a process, a coordinator, or the   *)
(* clock.                                                                  *)
LEMMA NextCases ==
  ASSUME Next
  PROVE  \/ UNCHANGED coords /\ \E c \in Client : ClientStep(c)
         \/ UNCHANGED coords /\ \E d \in Daemon : DaemonStep(d)
         \/ UNCHANGED coords /\ \E p \in Proc : ProcExits(p)
         \/ \E k \in Coordinator : CoordinatorStep(k)
         \/ UNCHANGED coords /\ \E d \in Daemon, s \in Session : Lapse(d, s)
<1>1. ASSUME NEW c \in Client, ResumeRun(c) \/ NewThreadRun(c) \/ ClientDies(c)
      PROVE  ClientStep(c)
  BY <1>1 DEF ResumeRun, NewThreadRun, ClientStep
<1>2. DaemonNext => \E d \in Daemon : DaemonStep(d)
  BY Constants DEF DaemonNext, DaemonStep, EnsureDefault, EnsureOwnGeneration
<1>3. CoordinatorNext => \E k \in Coordinator : CoordinatorStep(k)
  BY DEF CoordinatorNext, CoordinatorStep, AsideStep
<1>4. \A d \in Daemon, s \in Session : Lapse(d, s) => UNCHANGED coords
  BY DEF Lapse
<1> QED BY <1>1, <1>2, <1>3, <1>4 DEF Next, ClientNext

(* All steps keep the types: those of clients,                             *)
LEMMA ClientStepType ==
  ASSUME TypeInv, UNCHANGED coords, NEW c \in Client, ClientStep(c)
  PROVE  TypeInv'
BY ReserveScanType, ReserveInsertType, ReleaseReservationType, EnsureSpawnType, EnsureRegisterType,
   EnsureFailsType, BootstrapSpawnType, BootstrapRegisterType, BootstrapFailsType,
   ThreadAnsweredType, ThreadFailsType, PromoteType, AbortType, RefreshType, StopLookupType,
   StopFinishType, ClientDiesType
   DEF ClientStep

(* those of daemons,                                                       *)
LEMMA DaemonStepType ==
  ASSUME TypeInv, UNCHANGED coords, NEW d \in Daemon, DaemonStep(d)
  PROVE  TypeInv'
BY ReservationLapsesType, ReapBootstrapType, ReapScanType, ReapType, SpawnDaemonType, StopsType
   DEF DaemonStep

(* those of coordinators,                                                  *)
LEMMA CoordinatorStepType ==
  ASSUME TypeInv, NEW k \in Coordinator, CoordinatorStep(k)
  PROVE  TypeInv'
BY QuiesceType, AdoptType, ReleaseType, UnadoptType, AsideType DEF CoordinatorStep

(* and those that change nothing.                                          *)
LEMMA StutterType ==
  ASSUME TypeInv, UNCHANGED vars
  PROVE  TypeInv'
<1>1. ModesOK'
  BY DEF TypeInv, ModesOK, vars
<1> QED BY <1>1, ModesType DEF vars

(* The inductive step of the type invariant.                               *)
LEMMA TypeStep ==
  ASSUME TypeInv, [Next]_vars
  PROVE  TypeInv'
<1>1. CASE Next
  BY <1>1, NextCases, ClientStepType, DaemonStepType, CoordinatorStepType, ProcExitsType, LapseType
<1> QED BY <1>1, StutterType

(* It holds at the start.                                                  *)
LEMMA InitType ==
  ASSUME Init
  PROVE  TypeInv
<1>1. Types
  BY Constants, NoRecords DEF Init, InitAppServers, ProcsOK, ModesOK, ServersOK, ReservationsOK,
     BootstrapsOK, ReapingOK, ClientsOK, CoordsOK, CoordinatorRecord
<1>2. Entries
  BY NoRecords DEF Init, InitAppServers, Entries, EntryFine
<1>3. Clients
  BY NoRecords DEF Init, InitAppServers, Clients, ClientFine
<1>4. Coords
  BY DEF Init, Coords, CoordFine
<1>5. OneLease
  BY Constants, NoRecords DEF Init, InitAppServers, OneLease, Of
<1> QED BY <1>1, <1>2, <1>3, <1>4, <1>5 DEF TypeInv

(* The variables keep their types, through every step of clients, daemons, *)
(* processes, coordinators and the clock.                                  *)
THEOREM TypeCorrect == Spec => []TypeOK
<1>1. Init => TypeInv
  BY InitType
<1>2. TypeInv /\ [Next]_vars => TypeInv'
  BY TypeStep
<1>3. TypeInv => TypeOK
  BY TypesAreOK DEF TypeInv
<1> QED BY <1>1, <1>2, <1>3, PTL DEF Spec

(***************************************************************************)
(* A server in use is only stopped by a daemon that may.  A process is     *)
(* connected with one lease (OneLease), and the holder of a lease has no   *)
(* bootstrap and starts nothing: so nobody can stop its server for that of *)
(* another, and it remains a daemon that has it in its registry.           *)
(***************************************************************************)
MayStop(c) ==
  \E d \in Daemon :
    /\ servers[d][SessionOf[c]].kind \in {"owned", "adopted"}
    /\ servers[d][SessionOf[c]].proc = clients[c].proc
    /\ modes[d] = "stopping" \/ servers[d][SessionOf[c]].lapsed
         \/ \E x \in reaping[d] : x.proc = clients[c].proc

(* A holder whose server a step stops.                                     *)
LosesServer(c) ==
  /\ clients[c].doing = "holding" /\ clients[c].alive
  /\ procs[clients[c].proc] = "live" /\ procs'[clients[c].proc] = "stopped"

(* The server of a holder is a process of no other client, no bootstrap,   *)
(* and its entries are those of its session.                               *)
LEMMA HolderAlone ==
  ASSUME TypeInv, NEW c \in Client, clients[c].doing = "holding", clients[c].proc \in Proc
  PROVE  /\ \A b \in Client : clients[b].proc = clients[c].proc => b = c
         /\ \A d \in Daemon, b \in Client : bootstraps[d][b] # clients[c].proc
         /\ \A d \in Daemon, s \in Session :
              servers[d][s].proc = clients[c].proc =>
                s = SessionOf[c] /\ servers[d][s].lease = c
<1> DEFINE p == clients[c].proc
<1>1. Of(c, p) /\ \A b \in Client : Of(b, p) => b = c
  BY DEF TypeInv, OneLease, Of
<1>2. \A b \in Client : clients[b].proc = p => b = c
  BY <1>1 DEF Of
<1>3. \A d \in Daemon, b \in Client : bootstraps[d][b] # p
  BY <1>1, Constants DEF Of, TypeInv, Clients, ClientFine
<1>4. ASSUME NEW d \in Daemon, NEW s \in Session, servers[d][s].proc = p
      PROVE  s = SessionOf[c] /\ servers[d][s].lease = c
  <2>1. servers[d][s].lease \in Client /\ SessionOf[servers[d][s].lease] = s
    BY <1>4, Constants, NoRecords DEF TypeInv, Entries, EntryFine
  <2>2. Of(servers[d][s].lease, p)
    BY <1>4 DEF Of
  <2> QED BY <1>1, <2>1, <2>2
<1> QED BY <1>2, <1>3, <1>4

(* No step of a client, of the holder or of another, stops a holder's      *)
(* server.                                                                 *)
LEMMA ClientsStopNoHeld ==
  ASSUME TypeInv, NEW c \in Client, NEW b \in Client, ClientStep(b), LosesServer(c)
  PROVE  FALSE
<1> DEFINE p == clients[c].proc
<1>1. p \in Proc /\ clients[c].doing = "holding" /\ procs[p] = "live" /\ procs'[p] = "stopped"
  BY DEF TypeInv, Clients, ClientFine, LosesServer
<1>2. /\ \A a \in Client : clients[a].proc = p => a = c
      /\ \A d \in Daemon, a \in Client : bootstraps[d][a] # p
      /\ \A d \in Daemon, s \in Session :
           servers[d][s].proc = p => s = SessionOf[c] /\ servers[d][s].lease = c
  BY <1>1, HolderAlone
<1>3. ~Ends({NoProc}) /\ \A q \in Proc : Ends({q}) => q = p
  BY <1>1, Constants DEF Ends
<1>4. procs' # procs /\ \A q \in Proc : procs[q] = "unused" => procs' # [procs EXCEPT ![q] = "live"]
  BY <1>1 DEF TypeInv, ProcsOK
<1>5. ~(EnsureFails(b) \/ BootstrapFails(b))
  <2>1. CASE EnsureFails(b)
    <3>1. clients[b].proc \in Proc /\ Ends({clients[b].proc}) /\ clients[b].doing = "spawning"
      BY <2>1, StopProcType DEF EnsureFails, TypeInv, Clients, ClientFine
    <3> QED BY <1>1, <1>2, <1>3, <3>1
  <2>2. CASE BootstrapFails(b)
    <3>1. clients[b].proc \in Proc /\ Ends({clients[b].proc}) /\ clients[b].doing = "starting"
      BY <2>2, StopProcType DEF BootstrapFails, TypeInv, Clients, ClientFine
    <3> QED BY <1>1, <1>2, <1>3, <3>1
  <2> QED BY <2>1, <2>2
<1>6. ~(ThreadFails(b) \/ Abort(b) \/ Promote(b))
  <2>0. ASSUME NEW d \in Daemon PROVE ~DropBootstrap(d, b)
    <3> SUFFICES ASSUME DropBootstrap(d, b) PROVE FALSE
      OBVIOUS
    <3>1. bootstraps[d][b] \in Proc /\ Ends({bootstraps[d][b]})
      BY DropBootstrapType
    <3> QED BY <1>2, <1>3, <3>1
  <2>1. CASE ThreadFails(b) \/ Abort(b)
    <3>1. clients[b].at \in Daemon
      BY <2>1 DEF ThreadFails, Abort, TypeInv, Clients, ClientFine
    <3>2. DropBootstrap(clients[b].at, b) \/ procs' = procs
      BY <2>1 DEF ThreadFails, Abort
    <3> QED BY <1>4, <2>0, <3>1, <3>2
  <2>2. CASE Promote(b)
    <3>1. PICK d \in Daemon : /\ bootstraps[d][b] \in Proc
                              /\ procs' = procs \/ procs' = StopProc(bootstraps[d][b], procs)
      BY <2>2, PromoteCases
    <3>2. procs' = procs \/ Ends({bootstraps[d][b]})
      BY <3>1, StopProcType DEF TypeInv
    <3> QED BY <1>2, <1>3, <1>4, <3>1, <3>2, SMTT(40)
  <2> QED BY <2>1, <2>2
<1>7. ~StopFinish(b)
  <2> SUFFICES ASSUME StopFinish(b) PROVE FALSE
    OBVIOUS
  <2>1. /\ clients[b].at \in Daemon /\ StopProof(b).session \in Session
        /\ StopProof(b).lease = b /\ clients[b].doing = "stopping"
        /\ InvalidateAndStop(clients[b].at, StopProof(b))
    BY Constants DEF TypeInv, Clients, ClientFine, StopFinish, StopProof
  <2>2. /\ Ends({servers[clients[b].at][StopProof(b).session].proc})
        /\ Matches(clients[b].at, StopProof(b))
        /\ servers[clients[b].at][StopProof(b).session].kind \in {"owned", "adopted"}
    BY <1>4, <2>1, InvalidateType DEF TypeInv
  <2>3. servers[clients[b].at][StopProof(b).session].proc \in Proc
    BY <2>1, <2>2 DEF TypeInv, Entries, EntryFine
  <2>4. servers[clients[b].at][StopProof(b).session].proc = p
    BY <1>3, <2>2, <2>3
  <2>5. b = c
    BY <1>2, <2>1, <2>2, <2>4 DEF Matches
  <2> QED BY <1>1, <2>1, <2>5
<1>8. ~Refresh(b)
  <2> SUFFICES ASSUME Refresh(b) PROVE FALSE
    OBVIOUS
  <2> DEFINE d == clients[b].at
             s == SessionOf[b]
  <2>1. /\ d \in Daemon /\ s \in Session /\ servers[d][s].proc \in Proc
        /\ procs[servers[d][s].proc] # "live"
        /\ InvalidateAndStop(d, ProofOf(d, s))
    BY <1>4, Constants DEF TypeInv, Clients, ClientFine, Entries, EntryFine, Refresh, Present
  <2>2. Ends({servers[d][s].proc})
    BY <2>1, InvalidateType, ProofFields DEF TypeInv
  <2> QED BY <1>1, <1>3, <2>1, <2>2
<1>9. ~((\E d \in Daemon : ReserveScan(b, d)) \/ ReserveInsert(b) \/ ReleaseReservation(b)
        \/ EnsureRegister(b) \/ BootstrapRegister(b) \/ AsksThread(b) \/ ThreadAnswered(b)
        \/ StopLookup(b) \/ ClientDies(b))
  BY <1>4 DEF ReserveScan, ReserveInsert, ReleaseReservation, EnsureRegister, BootstrapRegister,
     AsksThread, ThreadAnswered, StopLookup, ClientDies
<1>10. ~(\/ \E q \in Proc : EnsureSpawn(b, q)
         \/ \E d \in Daemon, q \in Proc : BootstrapSpawn(b, d, q))
  BY <1>4 DEF EnsureSpawn, BootstrapSpawn, Free
<1> QED BY <1>5, <1>6, <1>7, <1>8, <1>9, <1>10 DEF ClientStep

(* A daemon that stops a holder's server has it in its registry, and has   *)
(* been told to stop, or has seen its lease lapse.                         *)
LEMMA DaemonsStopTheirs ==
  ASSUME TypeInv, NEW c \in Client, NEW d \in Daemon, DaemonStep(d), LosesServer(c)
  PROVE  MayStop(c)
<1> DEFINE p == clients[c].proc
<1>1. p \in Proc /\ clients[c].doing = "holding" /\ procs[p] = "live" /\ procs'[p] = "stopped"
  BY DEF TypeInv, Clients, ClientFine, LosesServer
<1>2. /\ \A e \in Daemon, a \in Client : bootstraps[e][a] # p
      /\ \A e \in Daemon, s \in Session :
           servers[e][s].proc = p => s = SessionOf[c] /\ servers[e][s].lease = c
  BY <1>1, HolderAlone
<1>3. procs' # procs
  BY <1>1
<1>4. CASE \E b \in Client : ReapBootstrap(d, b)
  BY <1>1, <1>2, <1>4, DropBootstrapType DEF ReapBootstrap, Ends
<1>5. CASE \E x \in reaping[d] : Reap(d, x)
  <2>1. PICK x \in reaping[d] : Reap(d, x)
    BY <1>5
  <2>2. x \in Proof /\ x.session \in Session /\ InvalidateAndStop(d, x)
    BY <1>3, <2>1, ReapShape DEF Proof
  <2>3. /\ Ends({servers[d][x.session].proc}) /\ Matches(d, x)
        /\ servers[d][x.session].kind \in {"owned", "adopted"}
    BY <1>3, <2>2, InvalidateType DEF TypeInv
  <2>4. servers[d][x.session].proc = p
    BY <1>1, <2>3 DEF Ends
  <2> QED BY <1>2, <2>2, <2>3, <2>4 DEF MayStop, Matches
<1>6. CASE StopServers(d) \/ ExitStopped(d) \/ ExitIdle(d) \/ ExitDrained(d)
  <2>1. StopAll(d)
    BY <1>6 DEF StopServers, ExitStopped, ExitIdle, ExitDrained, Exit
  <2>2. p \in Held(d)
    BY <1>1, <2>1, StopAllShape DEF Ends
  <2>3. PICK s \in Session : servers[d][s].kind \in {"owned", "adopted"} /\ servers[d][s].proc = p
    BY <1>2, <2>2 DEF Held
  <2>4. modes[d] = "stopping"
    BY <1>6, <2>3 DEF StopServers, ExitStopped, ExitIdle, ExitDrained, Present
  <2> QED BY <1>2, <2>3, <2>4 DEF MayStop
<1>7. CASE \/ (\E t \in Thread : ReservationLapses(d, t)) \/ ReapScan(d)
           \/ SpawnDaemon(d) \/ RequestStop(d)
  BY <1>3, <1>7 DEF ReservationLapses, ReapScan, SpawnDaemon, RequestStop
<1> QED BY <1>4, <1>5, <1>6, <1>7 DEF DaemonStep

(* Nobody else does: neither a coordinator nor the clock.                  *)
LEMMA OnlyDaemonsStop ==
  ASSUME TypeInv, Next, NEW c \in Client, LosesServer(c)
  PROVE  MayStop(c)
<1>1. clients[c].proc \in Proc /\ procs'[clients[c].proc] = "stopped" /\ procs' # procs
  BY DEF TypeInv, Clients, ClientFine, LosesServer
<1>2. \A p \in Proc : ~ProcExits(p)
  BY <1>1 DEF TypeInv, ProcsOK, ProcExits, LosesServer
<1>3. \A k \in Coordinator : ~CoordinatorStep(k)
  BY <1>1, AsideShape DEF CoordinatorStep, Quiesce, Adopt, Release, Unadopt
<1>4. \A d \in Daemon, s \in Session : ~Lapse(d, s)
  BY <1>1 DEF Lapse
<1> QED BY <1>2, <1>3, <1>4, NextCases, ClientsStopNoHeld, DaemonsStopTheirs

(* A server in use is only stopped by a daemon that is told to stop, or    *)
(* that holds it with a lease that ran out: never by a hand-off, a         *)
(* rollback, or the stop request of somebody else.                         *)
THEOREM KeptServerStaysAlways == Spec => KeptServerStays
<1> DEFINE A == \A c \in Client :
                  LET p == clients[c].proc
                      s == SessionOf[c]
                  IN  /\ clients[c].doing = "holding" /\ clients[c].alive
                      /\ procs[p] = "live" /\ procs'[p] = "stopped"
                      => \E d \in Daemon :
                           /\ servers[d][s].kind \in {"owned", "adopted"} /\ servers[d][s].proc = p
                           /\ modes[d] = "stopping" \/ servers[d][s].lapsed
                                \/ \E proof \in reaping[d] : proof.proc = p
<1>1. TypeInv /\ [Next]_vars => [A]_vars
  BY OnlyDaemonsStop DEF LosesServer, MayStop
<1>2. Init => TypeInv
  BY InitType
<1>3. TypeInv /\ [Next]_vars => TypeInv'
  BY TypeStep
<1> QED BY <1>1, <1>2, <1>3, PTL DEF Spec, KeptServerStays

(***************************************************************************)
(* No app-server is left to nobody, and a redirect leads to the server.    *)
(* This needs two things that the code does not ensure: that no answer to  *)
(* a release is lost, and that each generation is moved to by one          *)
(* coordinator only.  Without either, a rollback takes back what has been  *)
(* given away for good.                                                    *)
(***************************************************************************)

(* No answer to a release is lost.                                         *)
ReleasesAnswered == "release" \notin LostAnswers

(* A generation is moved to by one coordinator only.                       *)
OneEach == \A k, j \in Coordinator : GenOf[k] = GenOf[j] => k = j

(* No coordinator will take anything back from d any more.                 *)
Settled(d) == \A k \in Coordinator : GenOf[k] = d => coords[k].pc \in {"done", "failed"}

(* Daemon d runs and has adopted what x names.                             *)
HasAdopted(d, x) ==
  /\ modes[d] # "down" /\ servers[d][x.session].kind = "adopted" /\ Matches(d, x)

(* The legacy daemon runs and still owns what x names.                     *)
OwnedByLegacy(x) ==
  /\ modes[Legacy] # "down" /\ servers[Legacy][x.session].kind = "owned" /\ Matches(Legacy, x)

(* What a coordinator exported is still with the legacy daemon, or with a  *)
(* generation for good that is not its own: so its own one can always be   *)
(* made to forget it.  Once it has been adopted, the own one has it too.   *)
HandFine(k) ==
  \A x \in coords[k].exports : procs[x.proc] = "live" =>
    /\ \/ OwnedByLegacy(x)
       \/ \E d \in Daemon \ {GenOf[k]} : Settled(d) /\ HasAdopted(d, x)
    /\ coords[k].pc = "adopted" => HasAdopted(GenOf[k], x)

(* What is handed off has arrived for good.                                *)
Redirect(s) == [session |-> s, proc |-> servers[Legacy][s].proc,
                lease |-> servers[Legacy][s].lease]
RedirectFine(s) ==
  servers[Legacy][s].kind = "handed_off" /\ procs[servers[Legacy][s].proc] = "live" =>
    Settled(servers[Legacy][s].to) /\ HasAdopted(servers[Legacy][s].to, Redirect(s))

(* What a hand-off keeps.                                                  *)
HandInv ==
  /\ \A k \in Coordinator : HandFine(k)
  /\ \A s \in Session : RedirectFine(s)

(* The entry of (d, s) names the same server.                              *)
KeepsEntry(d, s) ==
  /\ servers'[d][s].kind = servers[d][s].kind
  /\ servers'[d][s].proc = servers[d][s].proc
  /\ servers'[d][s].lease = servers[d][s].lease

(* A step that leaves the entries of running servers with their daemons,   *)
(* and hands nothing off.                                                  *)
Calm ==
  /\ \A d \in Daemon, s \in Session :
       /\ servers[d][s].kind \in {"owned", "adopted"} /\ modes[d] # "down"
       /\ procs'[servers[d][s].proc] = "live"
       => KeepsEntry(d, s) /\ modes'[d] # "down"
  /\ \A s \in Session : servers'[Legacy][s].kind = "handed_off" => SameEntry(Legacy, s)
  /\ \A p \in Proc : procs'[p] = "live" => procs[p] \in {"live", "unused"}

(* No coordinator takes up work at a daemon that has settled.              *)
SettledStays == \A d \in Daemon : Settled(d) => Settled(d)'

(* How it shows for one export.                                            *)
LEMMA CalmExport ==
  ASSUME TypeInv, Calm, NEW x \in Export, procs'[x.proc] = "live"
  PROVE  /\ OwnedByLegacy(x) => OwnedByLegacy(x)'
         /\ \A d \in Daemon : HasAdopted(d, x) => HasAdopted(d, x)'
<1>0. x.session \in Session /\ Legacy \in Daemon
  BY Constants DEF Export
<1>1. ASSUME OwnedByLegacy(x) PROVE OwnedByLegacy(x)'
  <2>1. /\ servers[Legacy][x.session].kind = "owned" /\ modes[Legacy] # "down"
        /\ servers[Legacy][x.session].proc = x.proc
    BY <1>1 DEF OwnedByLegacy, Matches
  <2>2. KeepsEntry(Legacy, x.session) /\ modes'[Legacy] # "down"
    BY <1>0, <2>1 DEF Calm
  <2> QED BY <1>1, <2>2 DEF OwnedByLegacy, Matches, KeepsEntry
<1>2. ASSUME NEW d \in Daemon, HasAdopted(d, x) PROVE HasAdopted(d, x)'
  <2>1. /\ servers[d][x.session].kind = "adopted" /\ modes[d] # "down"
        /\ servers[d][x.session].proc = x.proc
    BY <1>2 DEF HasAdopted, Matches
  <2>2. KeepsEntry(d, x.session) /\ modes'[d] # "down"
    BY <1>0, <2>1 DEF Calm
  <2> QED BY <1>2, <2>2 DEF HasAdopted, Matches, KeepsEntry
<1> QED BY <1>1, <1>2

(* Exports are of processes that have been started.                        *)
LEMMA ExportsUsed ==
  ASSUME TypeInv, NEW k \in Coordinator, NEW x \in coords[k].exports
  PROVE  x \in Export /\ x.proc \in Proc /\ procs[x.proc] # "unused"
<1>1. x \in Export /\ x.proc \in Proc /\ x.lease \in Client
  BY DEF TypeInv, CoordsOK, CoordinatorRecord, Export
<1>2. Of(x.lease, x.proc)
  BY DEF Of
<1> QED BY <1>1, <1>2 DEF TypeInv, OneLease

(* A calm step keeps what a coordinator relies on.                         *)
LEMMA CalmHandFine ==
  ASSUME TypeInv, HandInv, Calm, SettledStays, NEW k \in Coordinator,
         coords'[k].exports \subseteq coords[k].exports,
         coords'[k].pc = "adopted" => coords[k].pc = "adopted"
  PROVE  HandFine(k)'
<1> SUFFICES ASSUME NEW x \in coords'[k].exports, procs'[x.proc] = "live"
             PROVE  /\ \/ OwnedByLegacy(x)'
                       \/ \E d \in Daemon \ {GenOf[k]} : Settled(d)' /\ HasAdopted(d, x)'
                    /\ coords'[k].pc = "adopted" => HasAdopted(GenOf[k], x)'
  BY DEF HandFine
<1>1. x \in coords[k].exports /\ x \in Export /\ procs[x.proc] = "live"
  BY ExportsUsed DEF Calm
<1>2. /\ \/ OwnedByLegacy(x)
         \/ \E d \in Daemon \ {GenOf[k]} : Settled(d) /\ HasAdopted(d, x)
      /\ coords[k].pc = "adopted" => HasAdopted(GenOf[k], x)
  BY <1>1 DEF HandInv, HandFine
<1>3. /\ OwnedByLegacy(x) => OwnedByLegacy(x)'
      /\ \A d \in Daemon : HasAdopted(d, x) => HasAdopted(d, x)'
  BY <1>1, CalmExport
<1> QED BY <1>2, <1>3, Constants DEF SettledStays

(* A calm step keeps redirects leading to the server.                      *)
LEMMA CalmRedirect ==
  ASSUME TypeInv, HandInv, Calm, SettledStays, NEW s \in Session
  PROVE  RedirectFine(s)'
<1> SUFFICES ASSUME servers'[Legacy][s].kind = "handed_off",
                    procs'[servers'[Legacy][s].proc] = "live"
             PROVE  /\ Settled(servers[Legacy][s].to)'
                    /\ HasAdopted(servers[Legacy][s].to, Redirect(s))'
  BY DEF RedirectFine
<1> DEFINE e == servers[Legacy][s]
<1>1. SameEntry(Legacy, s) /\ e.kind = "handed_off"
  BY DEF Calm, SameEntry
<1>2. e.proc \in Proc /\ e.lease \in Client /\ SessionOf[e.lease] = s /\ e.to \in Daemon
  BY <1>1, Constants DEF TypeInv, Entries, EntryFine
<1>3. procs[e.proc] = "live"
  <2>1. Of(e.lease, e.proc)
    BY Constants DEF Of
  <2> QED BY <1>1, <1>2, <2>1 DEF Calm, SameEntry, TypeInv, OneLease
<1>4. Settled(e.to) /\ HasAdopted(e.to, Redirect(s))
  BY <1>1, <1>3 DEF HandInv, RedirectFine
<1>5. PICK d \in Daemon, x \in Export :
        /\ d = e.to
        /\ x = [session |-> s, proc |-> e.proc, lease |-> e.lease]
        /\ Settled(d) /\ HasAdopted(d, x)
  BY <1>2, <1>4 DEF Export, Redirect
<1>6. /\ servers'[Legacy][s].to = d /\ servers'[Legacy][s].proc = x.proc
      /\ servers'[Legacy][s].lease = x.lease /\ x.session = s
  BY <1>1, <1>5 DEF SameEntry
<1>7. Settled(d)' /\ HasAdopted(d, x)'
  BY <1>5, <1>6, CalmExport DEF SettledStays
<1>8. Redirect(s)' = x
  BY <1>5, <1>6 DEF Redirect
<1> QED BY <1>6, <1>7, <1>8 DEF HasAdopted, Matches, Settled

(* When a step is calm.                                                    *)
LEMMA CalmIf ==
  ASSUME TypeInv,
         \A d \in Daemon : modes[d] # "down" => modes'[d] # "down",
         \A d \in Daemon, s \in Session :
           \/ SameEntry(d, s)
           \/ /\ servers'[d][s].kind # "handed_off"
              /\ servers[d][s].kind \in {"owned", "adopted"}
                   => procs'[servers[d][s].proc] # "live",
         \A p \in Proc : procs'[p] = "live" => procs[p] \in {"live", "unused"}
  PROVE  Calm
BY Constants DEF Calm, SameEntry, KeepsEntry

(* Processes that end do not start.                                        *)
LEMMA EndsCalm ==
  ASSUME NEW P, Ends(P)
  PROVE  \A p \in Proc : procs'[p] = "live" => procs[p] \in {"live", "unused"}
BY DEF Ends

(* The steps of clients are calm: what a client removes is not running,    *)
(* and what it stops is nobody else's.                                     *)
LEMMA ClientCalm ==
  ASSUME TypeInv, NEW c \in Client, ClientStep(c)
  PROVE  Calm /\ UNCHANGED modes
<1> USE Constants
<1>0. \A d \in Daemon, s \in Session : servers'[d][s] = servers[d][s] => SameEntry(d, s)
  BY DEF SameEntry, TypeInv, Entries, EntryFine
<1>a. \A d \in Daemon, s \in Session :
        servers[d][s].kind # "absent" =>
          servers[d][s].proc \in Proc /\ procs[servers[d][s].proc] # "unused"
  <2> SUFFICES ASSUME NEW d \in Daemon, NEW s \in Session, servers[d][s].kind # "absent"
               PROVE  servers[d][s].proc \in Proc /\ procs[servers[d][s].proc] # "unused"
    OBVIOUS
  <2>1. servers[d][s].proc \in Proc /\ servers[d][s].lease \in Client
    BY DEF TypeInv, Entries, EntryFine
  <2>2. Of(servers[d][s].lease, servers[d][s].proc)
    BY DEF Of
  <2> QED BY <2>1, <2>2 DEF TypeInv, OneLease
<1>1. CASE \/ ReserveInsert(c) \/ ReleaseReservation(c) \/ BootstrapRegister(c) \/ AsksThread(c)
           \/ ThreadAnswered(c) \/ StopLookup(c) \/ ClientDies(c)
  <2>1. UNCHANGED <<procs, modes, servers>>
    BY <1>1 DEF ReserveInsert, ReleaseReservation, BootstrapRegister, AsksThread, ThreadAnswered,
       StopLookup, ClientDies, registries
  <2> QED BY <1>0, <2>1, CalmIf
<1>2. CASE EnsureFails(c) \/ BootstrapFails(c) \/ ThreadFails(c) \/ Abort(c)
  <2>1. UNCHANGED <<modes, servers>>
    BY <1>2 DEF EnsureFails, BootstrapFails, ThreadFails, Abort, registries
  <2>2. procs' = procs \/ \E P : Ends(P)
    <3>1. CASE EnsureFails(c) \/ BootstrapFails(c)
      <4>1. clients[c].proc \in Proc /\ procs' = StopProc(clients[c].proc, procs)
        BY <3>1 DEF EnsureFails, BootstrapFails, TypeInv, Clients, ClientFine
      <4> QED BY <4>1, StopProcType DEF TypeInv
    <3>2. CASE ThreadFails(c) \/ Abort(c)
      <4>1. clients[c].at \in Daemon /\ (procs' = procs \/ DropBootstrap(clients[c].at, c))
        BY <3>2 DEF ThreadFails, Abort, TypeInv, Clients, ClientFine
      <4> QED BY <4>1, DropBootstrapType
    <3> QED BY <1>2, <3>1, <3>2
  <2> QED BY <1>0, <2>1, <2>2, CalmIf, EndsCalm
<1>3. CASE \E d \in Daemon : ReserveScan(c, d)
  <2>1. PICK d \in Daemon : ReserveScan(c, d)
    BY <1>3
  <2>2. UNCHANGED <<procs, modes>>
    BY <2>1 DEF ReserveScan
  <2>3. \A e \in Daemon, s \in Session :
          \/ servers'[e][s] = servers[e][s]
          \/ servers'[e][s] = NoEntry /\ ~HasLive(e, s)
    BY <2>1 DEF ReserveScan, TypeInv, ServersOK
  <2>4. \A e \in Daemon, s \in Session :
          \/ SameEntry(e, s)
          \/ /\ servers'[e][s].kind # "handed_off"
             /\ servers[e][s].kind \in {"owned", "adopted"}
                  => procs'[servers[e][s].proc] # "live"
    BY <1>0, <2>2, <2>3, NoRecords DEF HasLive, Present
  <2> QED BY <2>2, <2>4, CalmIf
<1>4. CASE \E p \in Proc : EnsureSpawn(c, p)
  <2>1. PICK p \in Proc : EnsureSpawn(c, p)
    BY <1>4
  <2>2. UNCHANGED modes /\ procs[p] = "unused" /\ procs' = [procs EXCEPT ![p] = "live"]
    BY <2>1 DEF EnsureSpawn, Free
  <2>3. \A e \in Daemon, s \in Session :
          \/ servers'[e][s] = servers[e][s]
          \/ servers'[e][s] = NoEntry /\ ~HasLive(e, s)
    BY <2>1 DEF EnsureSpawn, TypeInv, ServersOK
  <2>4. \A e \in Daemon, s \in Session :
          \/ SameEntry(e, s)
          \/ /\ servers'[e][s].kind # "handed_off"
             /\ servers[e][s].kind \in {"owned", "adopted"}
                  => procs'[servers[e][s].proc] # "live"
    BY <1>0, <1>a, <2>2, <2>3, NoRecords DEF HasLive, Present, TypeInv, ProcsOK
  <2> QED BY <2>2, <2>4, CalmIf DEF TypeInv, ProcsOK
<1>5. CASE EnsureRegister(c)
  <2>1. /\ UNCHANGED <<procs, modes>> /\ clients[c].at \in Daemon /\ clients[c].proc \in Proc
        /\ ~HasLive(clients[c].at, SessionOf[c])
        /\ servers' = [servers EXCEPT ![clients[c].at][SessionOf[c]] =
                         NewEntry("owned", clients[c].proc, c)]
    BY <1>5 DEF EnsureRegister, TypeInv, Clients, ClientFine
  <2>2. \A e \in Daemon, s \in Session :
          \/ servers'[e][s] = servers[e][s]
          \/ servers'[e][s].kind # "handed_off" /\ ~HasLive(e, s)
    BY <2>1, PlacesEntry, NewEntryType DEF TypeInv
  <2>3. \A e \in Daemon, s \in Session :
          \/ SameEntry(e, s)
          \/ /\ servers'[e][s].kind # "handed_off"
             /\ servers[e][s].kind \in {"owned", "adopted"}
                  => procs'[servers[e][s].proc] # "live"
    BY <1>0, <2>1, <2>2 DEF HasLive, Present
  <2> QED BY <2>1, <2>3, CalmIf
<1>6. CASE \E d \in Daemon, p \in Proc : BootstrapSpawn(c, d, p)
  <2>1. PICK p \in Proc :
          /\ procs[p] = "unused" /\ procs' = [procs EXCEPT ![p] = "live"]
          /\ UNCHANGED <<modes, servers>>
    BY <1>6 DEF BootstrapSpawn, Free, registries
  <2> QED BY <1>0, <2>1, CalmIf DEF TypeInv, ProcsOK
<1>7. CASE Promote(c)
  <2> DEFINE d == clients[c].at
             p == bootstraps[d][c]
  <2>1. /\ d \in Daemon /\ p \in Proc /\ UNCHANGED modes
        /\ \/ /\ ~HasLive(d, SessionOf[c]) /\ procs' = procs
              /\ servers' = [servers EXCEPT ![d][SessionOf[c]] = NewEntry("owned", p, c)]
           \/ procs' = StopProc(p, procs) /\ UNCHANGED servers
    BY <1>7, PromoteCases
  <2>2. CASE /\ ~HasLive(d, SessionOf[c]) /\ procs' = procs
             /\ servers' = [servers EXCEPT ![d][SessionOf[c]] = NewEntry("owned", p, c)]
    <3>1. \A e \in Daemon, s \in Session :
            \/ servers'[e][s] = servers[e][s]
            \/ servers'[e][s].kind # "handed_off" /\ ~HasLive(e, s)
      BY <2>1, <2>2, PlacesEntry, NewEntryType, SMTT(40) DEF TypeInv
    <3>2. \A e \in Daemon, s \in Session :
            \/ SameEntry(e, s)
            \/ /\ servers'[e][s].kind # "handed_off"
               /\ servers[e][s].kind \in {"owned", "adopted"}
                    => procs'[servers[e][s].proc] # "live"
      BY <1>0, <2>2, <3>1 DEF HasLive, Present
    <3> QED BY <2>1, <2>2, <3>2, CalmIf
  <2>3. CASE procs' = StopProc(p, procs) /\ UNCHANGED servers
    <3>1. Ends({p})
      BY <2>1, <2>3, StopProcType DEF TypeInv
    <3> QED BY <1>0, <2>1, <2>3, <3>1, CalmIf, EndsCalm
  <2> QED BY <2>1, <2>2, <2>3
<1>8. CASE Refresh(c)
  <2> DEFINE d == clients[c].at
             s == SessionOf[c]
  <2>1. d \in Daemon /\ s \in Session /\ UNCHANGED modes /\ servers[d][s].kind # "absent"
    BY <1>8 DEF TypeInv, Clients, ClientFine, Refresh, Present
  <2>2. CASE UNCHANGED <<servers, procs>>
    BY <1>0, <2>1, <2>2, CalmIf
  <2>3. CASE servers' = [servers EXCEPT ![d][s].lapsed = FALSE] /\ UNCHANGED procs
    <3>1. \A e \in Daemon, t \in Session : SameEntry(e, t)
      BY <2>1, <2>3 DEF TypeInv, ServersOK, Entry, SameEntry, Entries, EntryFine
    <3> QED BY <2>1, <2>3, <3>1, CalmIf
  <2>4. CASE InvalidateAndStop(d, ProofOf(d, s))
    <3>0. ProofOf(d, s).session \in Session
      BY <2>1, ProofFields
    <3>1. /\ Ends({servers[d][ProofOf(d, s).session].proc})
          /\ \A e \in Daemon, t \in Session :
               \/ servers'[e][t] = servers[e][t]
               \/ /\ servers'[e][t] = NoEntry
                  /\ servers[e][t].kind \in {"owned", "adopted"}
                       => procs'[servers[e][t].proc] # "live"
      BY <2>1, <2>4, <3>0, InvalidateType DEF TypeInv
    <3> QED BY <1>0, <2>1, <3>1, CalmIf, EndsCalm, NoRecords
  <2> QED BY <1>8, <2>2, <2>3, <2>4 DEF Refresh
<1>9. CASE StopFinish(c)
  <2>1. /\ clients[c].at \in Daemon /\ StopProof(c).session \in Session /\ UNCHANGED modes
        /\ InvalidateAndStop(clients[c].at, StopProof(c))
    BY <1>9 DEF TypeInv, Clients, ClientFine, StopFinish, StopProof
  <2>2. /\ Ends({servers[clients[c].at][StopProof(c).session].proc})
        /\ \A e \in Daemon, t \in Session :
             \/ servers'[e][t] = servers[e][t]
             \/ /\ servers'[e][t] = NoEntry
                /\ servers[e][t].kind \in {"owned", "adopted"}
                     => procs'[servers[e][t].proc] # "live"
    BY <2>1, InvalidateType DEF TypeInv
  <2> QED BY <1>0, <2>1, <2>2, CalmIf, EndsCalm, NoRecords
<1> QED BY <1>1, <1>2, <1>3, <1>4, <1>5, <1>6, <1>7, <1>8, <1>9 DEF ClientStep

(* The steps of daemons are calm: what a daemon forgets it stops.          *)
LEMMA DaemonCalm ==
  ASSUME TypeInv, NEW d \in Daemon, DaemonStep(d)
  PROVE  Calm
<1> USE Constants
<1>0. \A e \in Daemon, s \in Session : servers'[e][s] = servers[e][s] => SameEntry(e, s)
  BY DEF SameEntry, TypeInv, Entries, EntryFine
<1>1. CASE \/ (\E t \in Thread : ReservationLapses(d, t)) \/ ReapScan(d)
           \/ SpawnDaemon(d) \/ RequestStop(d)
  <2>1. /\ UNCHANGED <<procs, servers>>
        /\ \A e \in Daemon : modes[e] # "down" => modes'[e] # "down"
    BY <1>1 DEF ReservationLapses, ReapScan, SpawnDaemon, RequestStop, registries, TypeInv, ModesOK
  <2> QED BY <1>0, <2>1, CalmIf
<1>2. CASE \E c \in Client : ReapBootstrap(d, c)
  <2>1. (\E P : Ends(P)) /\ UNCHANGED <<modes, servers>>
    BY <1>2, DropBootstrapType DEF ReapBootstrap
  <2> QED BY <1>0, <2>1, CalmIf, EndsCalm
<1>3. CASE \E x \in reaping[d] : Reap(d, x)
  <2>1. PICK x \in reaping[d] : Reap(d, x)
    BY <1>3
  <2>2. x.session \in Session /\ UNCHANGED modes
    BY <2>1, ReapShape DEF Proof, Reap
  <2>3. /\ \A p \in Proc : procs'[p] = "live" => procs[p] \in {"live", "unused"}
        /\ \A e \in Daemon, t \in Session :
             \/ servers'[e][t] = servers[e][t]
             \/ /\ servers'[e][t] = NoEntry
                /\ servers[e][t].kind \in {"owned", "adopted"}
                     => procs'[servers[e][t].proc] # "live"
    <3>1. CASE InvalidateAndStop(d, x)
      BY <2>2, <3>1, InvalidateType, EndsCalm DEF TypeInv
    <3>2. CASE /\ procs' = procs /\ servers[d][x.session].kind = "handed_off"
               /\ servers' = [servers EXCEPT ![d][x.session] = NoEntry]
      BY <2>2, <3>2 DEF TypeInv, ServersOK
    <3>3. CASE UNCHANGED <<procs, servers>>
      BY <3>3
    <3> QED BY <2>1, <3>1, <3>2, <3>3, ReapShape
  <2> QED BY <1>0, <2>2, <2>3, CalmIf, NoRecords
<1>4. CASE StopServers(d) \/ ExitStopped(d) \/ ExitIdle(d) \/ ExitDrained(d)
  <2>1. /\ StopAll(d)
        /\ \A e \in Daemon : e # d => modes'[e] = modes[e]
    BY <1>4 DEF StopServers, ExitStopped, ExitIdle, ExitDrained, Exit, TypeInv, ModesOK
  <2>2. /\ Ends(Held(d)) /\ \A p \in Held(d) : procs'[p] # "live"
        /\ \A e \in Daemon, s \in Session :
             servers'[e][s] = IF e = d THEN NoEntry ELSE servers[e][s]
    BY <2>1, StopAllShape
  <2>3. \A s \in Session : servers[d][s].kind \in {"owned", "adopted"}
                             => procs'[servers[d][s].proc] # "live"
    BY <2>2 DEF Held
  <2>4. \A e \in Daemon, s \in Session : e # d => SameEntry(e, s)
    BY <1>0, <2>2
  <2>5. \A s \in Session : servers'[d][s].kind # "handed_off"
    BY <2>2, NoRecords
  <2> QED BY <2>1, <2>2, <2>3, <2>4, <2>5, EndsCalm DEF Calm, SameEntry, KeepsEntry
<1> QED BY <1>1, <1>2, <1>3, <1>4 DEF DaemonStep

(***************************************************************************)
(* Who holds a process: a registry, a bootstrap, or a client being served. *)
(***************************************************************************)

(* A daemon that runs has it in its registry, and is the one to stop it.   *)
InRegistry(p) == \E d \in Daemon, s \in Session :
  /\ modes[d] # "down" /\ servers[d][s].kind \in {"owned", "adopted"} /\ servers[d][s].proc = p

(* A daemon that runs keeps it as a bootstrap.                             *)
InBootstrap(p) == \E d \in Daemon, c \in Client :
  modes[d] # "down" /\ bootstraps[d][c] = p

(* A daemon that runs is starting it for a client.                         *)
Starting(p) == \E c \in Client :
  /\ clients[c].doing \in {"spawning", "starting"} /\ clients[c].proc = p
  /\ modes[clients[c].at] # "down"

(* Somebody answers for p.                                                 *)
Covered(p) == InRegistry(p) \/ InBootstrap(p) \/ Starting(p)

(* Somebody answers for every process that runs.                           *)
NoneStrays == \A p \in Proc : procs[p] = "live" => Covered(p)

(* Which is what the model's property says.                                *)
LEMMA CoveredIsHeld == NoneStrays => NoStray
<1>1. \A p \in Proc : Covered(p) =>
        \/ \E d \in Daemon : modes[d] # "down" /\ p \in Held(d)
        \/ \E c \in Client : /\ clients[c].doing \in {"spawning", "starting"}
                             /\ clients[c].proc = p /\ modes[clients[c].at] # "down"
  BY Constants DEF Covered, InRegistry, InBootstrap, Starting, Held
<1> QED BY <1>1 DEF NoStray, NoneStrays

(* A calm step leaves a running server in its registry.                    *)
LEMMA CalmRegistry ==
  ASSUME TypeInv, Calm, NEW p \in Proc, InRegistry(p), procs'[p] = "live"
  PROVE  InRegistry(p)'
BY DEF Calm, KeepsEntry, InRegistry

(* What is left to show of a calm step.                                    *)
LEMMA CalmCovers ==
  ASSUME TypeInv, NoneStrays, Calm,
         \A p \in Proc : procs'[p] = "live" /\ (InBootstrap(p) \/ Starting(p)) => Covered(p)',
         \A p \in Proc : procs'[p] = "live" /\ procs[p] = "unused" => Covered(p)'
  PROVE  NoneStrays'
<1>1. ASSUME NEW p \in Proc, procs'[p] = "live" PROVE Covered(p)'
  <2>1. CASE procs[p] = "unused"
    BY <1>1, <2>1
  <2>2. CASE procs[p] = "live"
    BY <1>1, <2>2, CalmRegistry DEF Covered, NoneStrays
  <2> QED BY <1>1, <2>1, <2>2 DEF Calm
<1> QED BY <1>1 DEF NoneStrays

(* A client's step covers what it had started or kept as a bootstrap.      *)
LEMMA ClientCovers ==
  ASSUME TypeInv, NoneStrays, NEW c \in Client, ClientStep(c)
  PROVE  NoneStrays'
<1> USE Constants
<1>0. Calm /\ UNCHANGED modes
  BY ClientCalm
<1>a. \A b \in Client : clients[b].doing \in {"spawning", "starting"} =>
                          clients[b].at \in Daemon /\ clients[b].proc \in Proc
  BY DEF TypeInv, Clients, ClientFine
<1>b. ASSUME \A b \in Client \ {c} : clients'[b] = clients[b],
             \A p \in Proc : procs'[p] = "live" => procs[p] # "unused",
             \A d \in Daemon, b \in Client, p \in Proc :
               modes[d] # "down" /\ procs'[p] = "live" /\ bootstraps[d][b] = p
                 => bootstraps'[d][b] = p \/ Covered(p)',
             \A p \in Proc :
               /\ clients[c].doing \in {"spawning", "starting"} /\ clients[c].proc = p
               /\ modes[clients[c].at] # "down" /\ procs'[p] = "live"
               => Covered(p)'
      PROVE  NoneStrays'
  <2>1. ASSUME NEW p \in Proc, procs'[p] = "live", InBootstrap(p) PROVE Covered(p)'
    BY <1>0, <1>b, <2>1 DEF InBootstrap, Covered
  <2>2. ASSUME NEW p \in Proc, procs'[p] = "live", Starting(p) PROVE Covered(p)'
    <3>1. PICK b \in Client : /\ clients[b].doing \in {"spawning", "starting"}
                              /\ clients[b].proc = p /\ modes[clients[b].at] # "down"
      BY <2>2 DEF Starting
    <3>2. CASE b # c
      <4>1. Starting(p)'
        BY <1>0, <1>b, <3>1, <3>2 DEF Starting
      <4> QED BY <4>1 DEF Covered
    <3> QED BY <1>b, <2>2, <3>1, <3>2
  <2> QED BY <1>0, <1>b, <2>1, <2>2, CalmCovers
<1>1. CASE \/ (\E d \in Daemon : ReserveScan(c, d)) \/ ReserveInsert(c) \/ ReleaseReservation(c)
           \/ ThreadAnswered(c) \/ Refresh(c) \/ StopLookup(c) \/ StopFinish(c)
  <2>1. /\ UNCHANGED bootstraps /\ clients[c].doing \notin {"spawning", "starting"}
        /\ \A b \in Client \ {c} : clients'[b] = clients[b]
    BY <1>1 DEF ReserveScan, ReserveInsert, ReleaseReservation, ThreadAnswered, Refresh, StopLookup,
       StopFinish, Becomes, Moves, TypeInv, ClientsOK, registries
  <2>2. \A p \in Proc : procs'[p] = "live" => procs[p] # "unused"
    <3>1. CASE UNCHANGED procs
      BY <3>1
    <3>2. CASE \E d \in Daemon : \E x : x.session \in Session /\ InvalidateAndStop(d, x)
      BY <3>2, InvalidateType DEF TypeInv, Ends
    <3>3. CASE Refresh(c) /\ ~UNCHANGED procs
      <4>1. /\ clients[c].at \in Daemon /\ SessionOf[c] \in Session
            /\ InvalidateAndStop(clients[c].at, ProofOf(clients[c].at, SessionOf[c]))
        BY <3>3 DEF Refresh, TypeInv, Clients, ClientFine
      <4> QED BY <3>2, <4>1, ProofFields
    <3>4. CASE StopFinish(c)
      <4>1. /\ clients[c].at \in Daemon /\ StopProof(c).session \in Session
            /\ InvalidateAndStop(clients[c].at, StopProof(c))
        BY <3>4 DEF TypeInv, Clients, ClientFine, StopFinish, StopProof
      <4> QED BY <3>2, <4>1
    <3> QED BY <1>1, <3>1, <3>3, <3>4 DEF ReserveScan, ReserveInsert, ReleaseReservation,
               ThreadAnswered, StopLookup, registries
  <2> QED BY <1>b, <2>1, <2>2, SMTT(40)
<1>2. CASE ClientDies(c)
  <2>1. UNCHANGED <<procs, bootstraps>>
    BY <1>2 DEF ClientDies, registries
  <2>2. /\ \A b \in Client \ {c} : clients'[b] = clients[b]
        /\ clients[c].doing \in InFlight =>
             /\ clients'[c].doing = clients[c].doing /\ clients'[c].at = clients[c].at
             /\ clients'[c].proc = clients[c].proc
    BY <1>2 DEF ClientDies, TypeInv, ClientsOK, ClientRecord
  <2>3. ASSUME NEW p \in Proc, clients[c].doing \in {"spawning", "starting"}, clients[c].proc = p,
               modes[clients[c].at] # "down"
        PROVE  Covered(p)'
    <3>1. /\ clients'[c].doing = clients[c].doing /\ clients'[c].at = clients[c].at
          /\ clients'[c].proc = clients[c].proc
      BY <2>2, <2>3 DEF InFlight
    <3> QED BY <1>0, <2>3, <3>1 DEF Covered, Starting
  <2>4. \A p \in Proc : procs[p] = "unused" => procs'[p] # "live"
    BY <2>1
  <2> QED BY <1>b, <2>1, <2>2, <2>3, <2>4
<1>3. CASE EnsureFails(c) \/ BootstrapFails(c)
  <2>1. /\ clients[c].proc \in Proc /\ procs' = StopProc(clients[c].proc, procs)
        /\ UNCHANGED bootstraps
        /\ \A b \in Client \ {c} : clients'[b] = clients[b]
    BY <1>3 DEF EnsureFails, BootstrapFails, TypeInv, Clients, ClientFine, Becomes, ClientsOK,
       registries
  <2>2. /\ procs'[clients[c].proc] # "live"
        /\ \A p \in Proc : procs'[p] = "live" => procs[p] # "unused"
    BY <2>1, StopProcType DEF TypeInv, Ends
  <2> QED BY <1>b, <2>1, <2>2
<1>4. CASE ThreadFails(c) \/ Abort(c)
  <2>1. /\ clients[c].at \in Daemon /\ clients[c].doing \notin {"spawning", "starting"}
        /\ \/ DropBootstrap(clients[c].at, c)
           \/ UNCHANGED <<procs, bootstraps>>
        /\ \A b \in Client \ {c} : clients'[b] = clients[b]
    BY <1>4 DEF ThreadFails, Abort, TypeInv, Clients, ClientFine, Becomes, ClientsOK
  <2>2. CASE DropBootstrap(clients[c].at, c)
    BY <1>b, <2>1, <2>2, DropBootstrapType DEF Ends
  <2>3. CASE UNCHANGED <<procs, bootstraps>>
    BY <1>b, <2>1, <2>3
  <2> QED BY <2>1, <2>2, <2>3
<1>5. CASE EnsureRegister(c)
  <2> DEFINE d == clients[c].at
             s == SessionOf[c]
  <2>1. /\ UNCHANGED <<procs, bootstraps>> /\ d \in Daemon /\ clients[c].proc \in Proc
        /\ s \in Session
        /\ servers' = [servers EXCEPT ![d][s] = NewEntry("owned", clients[c].proc, c)]
        /\ \A b \in Client \ {c} : clients'[b] = clients[b]
    BY <1>5 DEF EnsureRegister, TypeInv, Clients, ClientFine, Moves, Becomes, ClientsOK
  <2>2. servers'[d][s] = NewEntry("owned", clients[c].proc, c)
    BY <2>1 DEF TypeInv, ServersOK
  <2>3. ASSUME NEW p \in Proc, clients[c].proc = p, modes[d] # "down"
        PROVE  Covered(p)'
    <3>1. servers'[d][s].kind = "owned" /\ servers'[d][s].proc = p
      BY <2>1, <2>2, <2>3, NewEntryType
    <3> QED BY <1>0, <2>1, <2>3, <3>1 DEF Covered, InRegistry
  <2>4. \A p \in Proc : procs'[p] = "live" => procs[p] # "unused"
    BY <2>1
  <2> QED BY <1>b, <2>1, <2>3, <2>4
<1>6. CASE BootstrapRegister(c) \/ AsksThread(c)
  <2> DEFINE d == clients[c].at
  <2>1. /\ UNCHANGED procs /\ d \in Daemon /\ clients[c].proc \in Proc
        /\ clients[c].doing = "starting"
        /\ bootstraps' = [bootstraps EXCEPT ![d][c] = clients[c].proc]
        /\ \A b \in Client \ {c} : clients'[b] = clients[b]
    BY <1>6 DEF BootstrapRegister, AsksThread, TypeInv, Clients, ClientFine, Moves, Becomes,
       ClientsOK
  <2>2. \A e \in Daemon : bootstraps[e][c] = NoProc
    BY <2>1 DEF TypeInv, Clients, ClientFine
  <2>3. /\ bootstraps'[d][c] = clients[c].proc
        /\ \A e \in Daemon, b \in Client : b # c => bootstraps'[e][b] = bootstraps[e][b]
    BY <2>1 DEF TypeInv, BootstrapsOK
  <2>4. ASSUME NEW p \in Proc, clients[c].proc = p, modes[d] # "down"
        PROVE  Covered(p)'
    BY <1>0, <2>1, <2>3, <2>4 DEF Covered, InBootstrap
  <2>5. \A p \in Proc : procs'[p] = "live" => procs[p] # "unused"
    BY <2>1
  <2> QED BY <1>b, <2>1, <2>2, <2>3, <2>4, <2>5
<1>7. CASE Promote(c)
  <2> DEFINE d == clients[c].at
             s == SessionOf[c]
  <2>1. PICK p \in Proc :
          /\ p = bootstraps[d][c] /\ d \in Daemon /\ clients[c].doing = "bootstrapped"
          /\ s \in Session
          /\ bootstraps' = [bootstraps EXCEPT ![d][c] = NoProc]
          /\ \/ /\ procs' = procs
                /\ servers' = [servers EXCEPT ![d][s] = NewEntry("owned", p, c)]
             \/ procs' = StopProc(p, procs)
    BY <1>7, PromoteCases
  <2>2. \A b \in Client \ {c} : clients'[b] = clients[b]
    BY <1>7 DEF Promote, TypeInv, Moves, Becomes, ClientsOK
  <2>3. \A e \in Daemon, b \in Client : (e # d \/ b # c) => bootstraps'[e][b] = bootstraps[e][b]
    BY <2>1 DEF TypeInv, BootstrapsOK
  <2>4. /\ procs'[p] = "live" /\ modes[d] # "down" => Covered(p)'
        /\ \A q \in Proc : procs'[q] = "live" => procs[q] # "unused"
    <3>1. CASE /\ procs' = procs
               /\ servers' = [servers EXCEPT ![d][s] = NewEntry("owned", p, c)]
      <4>1. servers'[d][s] = NewEntry("owned", p, c)
        BY <2>1, <3>1 DEF TypeInv, ServersOK
      <4>2. modes[d] # "down" => Covered(p)'
        BY <1>0, <2>1, <4>1, NewEntryType DEF Covered, InRegistry
      <4> QED BY <3>1, <4>2
    <3>2. CASE procs' = StopProc(p, procs)
      BY <2>1, <3>2, StopProcType DEF TypeInv, Ends
    <3> QED BY <2>1, <3>1, <3>2
  <2> QED BY <1>b, <2>1, <2>2, <2>3, <2>4, SMTT(40)
<1>8. CASE (\E p \in Proc : EnsureSpawn(c, p))
           \/ \E d \in Daemon, p \in Proc : BootstrapSpawn(c, d, p)
  <2>1. PICK p \in Proc, d \in Daemon :
          /\ procs' = [procs EXCEPT ![p] = "live"]
          /\ modes[d] = "up" /\ UNCHANGED bootstraps
          /\ clients[c].doing \notin {"spawning", "starting"}
          /\ clients'[c].doing \in {"spawning", "starting"}
          /\ clients'[c].proc = p /\ clients'[c].at = d
          /\ \A b \in Client \ {c} : clients'[b] = clients[b]
    <3>1. CASE \E p \in Proc : EnsureSpawn(c, p)
      <4>1. PICK p \in Proc : EnsureSpawn(c, p)
        BY <3>1
      <4>2. PICK d \in Daemon : d = clients[c].at
        BY <4>1 DEF EnsureSpawn, TypeInv, Clients, ClientFine
      <4>3. /\ procs' = [procs EXCEPT ![p] = "live"] /\ clients[c].doing = "reserved"
            /\ modes[d] = "up" /\ UNCHANGED bootstraps
            /\ clients' = [clients EXCEPT ![c].doing = "spawning", ![c].proc = p]
        BY <4>1, <4>2 DEF EnsureSpawn, AcceptsWork
      <4>4. /\ clients'[c].doing = "spawning" /\ clients'[c].proc = p /\ clients'[c].at = d
            /\ \A b \in Client \ {c} : clients'[b] = clients[b]
        BY <4>2, <4>3 DEF TypeInv, ClientsOK, ClientRecord
      <4> QED BY <4>3, <4>4
    <3>2. CASE \E d \in Daemon, p \in Proc : BootstrapSpawn(c, d, p)
      <4>1. PICK d \in Daemon, p \in Proc : BootstrapSpawn(c, d, p)
        BY <3>2
      <4>2. /\ procs' = [procs EXCEPT ![p] = "live"] /\ clients[c].doing = "idle"
            /\ modes[d] = "up" /\ UNCHANGED bootstraps
            /\ clients' = [clients EXCEPT ![c] =
                             [doing |-> "starting", at |-> d, proc |-> p, alive |-> TRUE]]
        BY <4>1 DEF BootstrapSpawn, AcceptsWork, registries
      <4>3. /\ clients'[c].doing = "starting" /\ clients'[c].proc = p /\ clients'[c].at = d
            /\ \A b \in Client \ {c} : clients'[b] = clients[b]
        BY <4>2 DEF TypeInv, ClientsOK
      <4> QED BY <4>2, <4>3
    <3> QED BY <1>8, <3>1, <3>2
  <2>2. Covered(p)'
    BY <1>0, <2>1 DEF Covered, Starting
  <2>3. \A q \in Proc : procs[q] = "unused" /\ procs'[q] = "live" => q = p
    BY <2>1 DEF TypeInv, ProcsOK
  <2>4. ASSUME NEW q \in Proc, InBootstrap(q) PROVE Covered(q)'
    BY <1>0, <2>1, <2>4 DEF InBootstrap, Covered
  <2>5. ASSUME NEW q \in Proc, Starting(q) PROVE Covered(q)'
    <3>1. Starting(q)'
      BY <1>0, <2>1, <2>5 DEF Starting
    <3> QED BY <3>1 DEF Covered
  <2> QED BY <1>0, <2>2, <2>3, <2>4, <2>5, CalmCovers
<1> QED BY <1>1, <1>2, <1>3, <1>4, <1>5, <1>6, <1>7, <1>8 DEF ClientStep

(* A daemon ends what it forgets, and does not exit under a request.       *)
LEMMA DaemonCovers ==
  ASSUME TypeInv, NoneStrays, NEW d \in Daemon, DaemonStep(d)
  PROVE  NoneStrays'
<1>0. Calm
  BY DaemonCalm
<1>1. UNCHANGED clients
  BY DEF DaemonStep, ReservationLapses, ReapBootstrap, ReapScan, Reap, SpawnDaemon, RequestStop,
     StopServers, ExitStopped, ExitIdle, ExitDrained, Exit
<1>2. \A c \in Client : clients[c].doing \in {"spawning", "starting"} => clients[c].at \in Daemon
  BY DEF TypeInv, Clients, ClientFine
<1>3. CASE StopServers(d) \/ ExitStopped(d) \/ ExitIdle(d) \/ ExitDrained(d)
  <2>1. /\ StopAll(d)
        /\ \A e \in Daemon : e # d => modes'[e] = modes[e]
        /\ modes'[d] = modes[d] \/ Workers(d) = {}
    BY <1>3 DEF StopServers, ExitStopped, ExitIdle, ExitDrained, Unused, Exit, TypeInv, ModesOK
  <2>2. /\ Ends(Held(d)) /\ \A p \in Held(d) : procs'[p] # "live"
        /\ \A e \in Daemon, c \in Client :
             bootstraps'[e][c] = IF e = d THEN NoProc ELSE bootstraps[e][c]
    BY <2>1, StopAllShape
  <2>3. ASSUME NEW p \in Proc, procs'[p] = "live", InBootstrap(p) PROVE Covered(p)'
    <3>1. PICK e \in Daemon, c \in Client : modes[e] # "down" /\ bootstraps[e][c] = p
      BY <2>3 DEF InBootstrap
    <3>2. e # d
      BY <2>2, <2>3, <3>1, Constants DEF Held
    <3> QED BY <2>1, <2>2, <3>1, <3>2 DEF Covered, InBootstrap
  <2>4. ASSUME NEW p \in Proc, Starting(p) PROVE Covered(p)'
    <3>1. PICK c \in Client : /\ clients[c].doing \in {"spawning", "starting"}
                              /\ clients[c].proc = p /\ modes[clients[c].at] # "down"
      BY <2>4 DEF Starting
    <3>2. modes'[clients[c].at] = modes[clients[c].at]
      BY <1>2, <2>1, <3>1 DEF Workers, InFlight
    <3> QED BY <1>1, <3>1, <3>2 DEF Covered, Starting
  <2>5. \A p \in Proc : procs'[p] = "live" => procs[p] # "unused"
    BY <2>2 DEF Ends
  <2> QED BY <1>0, <2>3, <2>4, <2>5, CalmCovers
<1>4. CASE ~(StopServers(d) \/ ExitStopped(d) \/ ExitIdle(d) \/ ExitDrained(d))
  <2>1. \A e \in Daemon : modes[e] # "down" => modes'[e] # "down"
    BY <1>4 DEF DaemonStep, ReservationLapses, ReapBootstrap, ReapScan, Reap, SpawnDaemon,
       RequestStop, TypeInv, ModesOK
  <2>2. /\ \A e \in Daemon, c \in Client, p \in Proc :
             bootstraps[e][c] = p /\ procs'[p] = "live" => bootstraps'[e][c] = p
        /\ \A p \in Proc : procs'[p] = "live" => procs[p] # "unused"
    <3>1. CASE \E c \in Client : ReapBootstrap(d, c)
      BY <3>1, DropBootstrapType DEF ReapBootstrap, Ends
    <3>2. CASE \E x \in reaping[d] : Reap(d, x)
      <4>1. PICK x \in reaping[d] : Reap(d, x)
        BY <3>2
      <4>2. UNCHANGED bootstraps /\ x.session \in Session
        BY <4>1, ReapShape DEF Reap, Proof
      <4>3. \A p \in Proc : procs'[p] = "live" => procs[p] # "unused"
        BY <4>1, <4>2, ReapShape, InvalidateType DEF TypeInv, Ends
      <4> QED BY <4>2, <4>3
    <3>3. CASE \/ (\E t \in Thread : ReservationLapses(d, t)) \/ ReapScan(d)
               \/ SpawnDaemon(d) \/ RequestStop(d)
      BY <3>3 DEF ReservationLapses, ReapScan, SpawnDaemon, RequestStop, registries
    <3> QED BY <1>4, <3>1, <3>2, <3>3 DEF DaemonStep
  <2>3. ASSUME NEW p \in Proc, procs'[p] = "live", InBootstrap(p) PROVE Covered(p)'
    BY <2>1, <2>2, <2>3 DEF InBootstrap, Covered
  <2>4. ASSUME NEW p \in Proc, Starting(p) PROVE Covered(p)'
    <3>1. Starting(p)'
      BY <1>1, <1>2, <2>1, <2>4 DEF Starting
    <3> QED BY <3>1 DEF Covered
  <2> QED BY <1>0, <2>2, <2>3, <2>4, CalmCovers
<1> QED BY <1>3, <1>4

(* A calm step that starts and stops nothing keeps everything covered.     *)
LEMMA StillCovers ==
  ASSUME TypeInv, NoneStrays, Calm, UNCHANGED <<procs, bootstraps, clients>>,
         \A d \in Daemon : modes[d] # "down" => modes'[d] # "down"
  PROVE  NoneStrays'
<1>1. ASSUME NEW p \in Proc, InBootstrap(p) PROVE Covered(p)'
  BY <1>1 DEF InBootstrap, Covered
<1>2. ASSUME NEW p \in Proc, Starting(p) PROVE Covered(p)'
  <2>1. \A c \in Client : clients[c].doing \in {"spawning", "starting"} => clients[c].at \in Daemon
    BY DEF TypeInv, Clients, ClientFine
  <2>2. Starting(p)'
    BY <1>2, <2>1 DEF Starting
  <2> QED BY <2>2 DEF Covered
<1>3. \A p \in Proc : procs[p] = "unused" => procs'[p] # "live"
  OBVIOUS
<1> QED BY <1>1, <1>2, <1>3, CalmCovers

(* A coordinator that is at work has no settled generation.                *)
LEMMA WorkUnsettles ==
  ASSUME NEW k \in Coordinator, coords[k].pc \notin {"done", "failed"},
         \A j \in Coordinator \ {k} : coords'[j] = coords[j]
  PROVE  ~Settled(GenOf[k]) /\ SettledStays
BY DEF Settled, SettledStays

(* Steps that leave the coordinators alone.                                *)
LEMMA CalmHand ==
  ASSUME TypeInv, HandInv, Calm, UNCHANGED coords
  PROVE  HandInv'
<1>1. SettledStays
  BY DEF SettledStays, Settled
<1>2. \A k \in Coordinator : HandFine(k)'
  BY <1>1, CalmHandFine
<1>3. \A s \in Session : RedirectFine(s)'
  BY <1>1, CalmRedirect
<1> QED BY <1>2, <1>3 DEF HandInv

(* The steps of a coordinator that leave all entries alone.                *)
LEMMA AsideHand ==
  ASSUME TypeInv, HandInv, NoneStrays, NEW k \in Coordinator, AsideStep(k)
  PROVE  HandInv' /\ NoneStrays'
<1>1. /\ UNCHANGED <<procs, servers, reservations, bootstraps, reaping, clients>>
      /\ \A d \in Daemon : modes[d] # "down" => modes'[d] # "down"
      /\ coords[k].pc \notin {"done", "failed"}
  BY AsideShape
<1>2. PICK pc \in Places \ {"exported", "adopted"} : Goes(k, pc)
  BY AsideShape
<1>3. /\ coords'[k].pc # "adopted" /\ coords'[k].exports \subseteq coords[k].exports
      /\ \A j \in Coordinator \ {k} : coords'[j] = coords[j]
  BY <1>2, GoesType DEF TypeInv
<1>4. Calm
  <2>1. \A d \in Daemon, s \in Session : SameEntry(d, s)
    BY <1>1 DEF SameEntry, TypeInv, Entries, EntryFine
  <2> QED BY <1>1, <2>1, CalmIf
<1>5. SettledStays
  BY <1>1, <1>3, WorkUnsettles
<1>6. \A j \in Coordinator : HandFine(j)'
  BY <1>3, <1>4, <1>5, CalmHandFine
<1>7. \A s \in Session : RedirectFine(s)'
  BY <1>4, <1>5, CalmRedirect
<1> QED BY <1>1, <1>4, <1>6, <1>7, StillCovers DEF HandInv

(* What is exported is owned by the legacy daemon at that moment.          *)
LEMMA QuiesceHand ==
  ASSUME TypeInv, HandInv, NoneStrays, NEW k \in Coordinator, Quiesce(k)
  PROVE  HandInv' /\ NoneStrays'
<1>1. /\ LapsesOnly /\ UNCHANGED <<procs, bootstraps, clients>>
      /\ \A d \in Daemon : modes[d] # "down" => modes'[d] # "down"
      /\ coords[k].pc = "start" /\ coords[k].exports = {}
  BY QuiesceShape
<1>2. Calm
  BY <1>1, CalmIf DEF LapsesOnly
<1>3. /\ \A j \in Coordinator \ {k} : coords'[j] = coords[j]
      /\ coords'[k].pc # "adopted"
      /\ \/ coords'[k].exports = {}
         \/ modes'[Legacy] # "down" /\ coords'[k].exports = Exported
  <2>1. CASE Goes(k, "done") \/ Goes(k, "failed")
    BY <1>1, <2>1, GoesType DEF Places, TypeInv
  <2>2. CASE /\ modes'[Legacy] # "down"
             /\ coords' = [coords EXCEPT ![k] = [pc |-> "exported", exports |-> Exported]]
    BY <2>2 DEF TypeInv, CoordsOK
  <2> QED BY <2>1, <2>2, QuiesceShape
<1>4. SettledStays
  BY <1>1, <1>3, WorkUnsettles
<1>5. HandFine(k)'
  <2>1. CASE coords'[k].exports = {}
    BY <2>1 DEF HandFine
  <2>2. CASE modes'[Legacy] # "down" /\ coords'[k].exports = Exported
    <3>1. ASSUME NEW x \in Exported PROVE OwnedByLegacy(x)'
      <4>1. /\ x.session \in Session /\ servers[Legacy][x.session].kind = "owned"
            /\ x.proc = servers[Legacy][x.session].proc
            /\ x.lease = servers[Legacy][x.session].lease
        BY ExportedShape DEF Export
      <4> QED BY <1>1, <2>2, <4>1, Constants DEF OwnedByLegacy, Matches, LapsesOnly, SameEntry
    <3> QED BY <1>3, <2>2, <3>1 DEF HandFine
  <2> QED BY <1>3, <2>1, <2>2
<1>6. \A j \in Coordinator \ {k} : HandFine(j)'
  BY <1>2, <1>3, <1>4, CalmHandFine
<1>7. \A s \in Session : RedirectFine(s)'
  BY <1>2, <1>4, CalmRedirect
<1> QED BY <1>1, <1>2, <1>5, <1>6, <1>7, StillCovers DEF HandInv

(* Once adopted, the generation has the exports, and others have them      *)
(* still.                                                                  *)
LEMMA AdoptHand ==
  ASSUME TypeInv, HandInv, NoneStrays, NEW k \in Coordinator, Adopt(k)
  PROVE  HandInv' /\ NoneStrays'
<1> DEFINE g == GenOf[k]
           xs == coords[k].exports
<1>0. /\ UNCHANGED <<procs, modes, bootstraps, clients>> /\ coords[k].pc = "ready"
      /\ g \in Daemon /\ g # Legacy
  BY Constants DEF Adopt
<1>1. /\ coords'[k].exports = xs
      /\ \A j \in Coordinator \ {k} : coords'[j] = coords[j]
      /\ \/ coords'[k].pc = "undo_adopt"
         \/ coords'[k].pc = "adopted" /\ CanAdopt(g, xs) /\ AdoptEntries(g, xs)
  BY GoesType DEF Adopt, Answered, TypeInv, Places
<1>2. ASSUME UNCHANGED servers PROVE Calm
  <2>1. \A d \in Daemon, s \in Session : SameEntry(d, s)
    BY <1>2 DEF SameEntry, TypeInv, Entries, EntryFine
  <2> QED BY <1>0, <2>1, CalmIf
<1>a. Calm
  <2>1. CASE CanAdopt(g, xs) /\ AdoptEntries(g, xs)
    <3>1. /\ \A d \in Daemon, s \in Session :
               (d # g \/ \A x \in xs : x.session # s) => servers'[d][s] = servers[d][s]
          /\ \A x \in xs :
               /\ servers'[g][x.session].kind = "adopted"
               /\ servers'[g][x.session].proc = x.proc
               /\ servers'[g][x.session].lease = x.lease
      BY <2>1, AdoptShape
    <3>2. \A x \in xs : servers[g][x.session].kind # "absent" =>
            /\ servers[g][x.session].kind = "adopted"
            /\ servers[g][x.session].proc = x.proc /\ servers[g][x.session].lease = x.lease
      BY <2>1 DEF CanAdopt, Present, Matches
    <3>3. \A d \in Daemon, s \in Session :
            servers[d][s].kind \in {"owned", "adopted"} => KeepsEntry(d, s)
      BY <3>1, <3>2 DEF KeepsEntry
    <3>4. \A s \in Session : SameEntry(Legacy, s)
      BY <1>0, <3>1, Constants DEF SameEntry, TypeInv, Entries, EntryFine
    <3> QED BY <1>0, <3>3, <3>4 DEF Calm, TypeInv, ProcsOK
  <2> QED BY <1>2, <2>1 DEF Adopt
<1>3. SettledStays
  BY <1>0, <1>1, WorkUnsettles
<1>4. HandFine(k)'
  <2>1. CASE coords'[k].pc = "undo_adopt"
    BY <1>1, <1>3, <1>a, <2>1, CalmHandFine
  <2>2. CASE coords'[k].pc = "adopted" /\ CanAdopt(g, xs) /\ AdoptEntries(g, xs)
    <3>1. ASSUME NEW x \in xs, procs'[x.proc] = "live"
          PROVE  /\ \/ OwnedByLegacy(x)'
                    \/ \E d \in Daemon \ {g} : Settled(d)' /\ HasAdopted(d, x)'
                 /\ HasAdopted(g, x)'
      <4>1. x \in Export
        BY ExportsUsed
      <4>2. \/ OwnedByLegacy(x)
            \/ \E d \in Daemon \ {g} : Settled(d) /\ HasAdopted(d, x)
        BY <1>0, <3>1 DEF HandInv, HandFine
      <4>3. /\ OwnedByLegacy(x) => OwnedByLegacy(x)'
            /\ \A d \in Daemon : HasAdopted(d, x) => HasAdopted(d, x)'
        BY <1>a, <3>1, <4>1, CalmExport
      <4>4. HasAdopted(g, x)'
        <5>1. modes'[g] # "down"
          BY <1>0, <2>2 DEF CanAdopt, Up
        <5>2. /\ servers'[g][x.session].kind = "adopted"
              /\ servers'[g][x.session].proc = x.proc /\ servers'[g][x.session].lease = x.lease
          BY <2>2, AdoptShape
        <5> QED BY <5>1, <5>2 DEF HasAdopted, Matches
      <4> QED BY <1>3, <4>2, <4>3, <4>4 DEF SettledStays
    <3> QED BY <1>1, <3>1 DEF HandFine
  <2> QED BY <1>1, <2>1, <2>2
<1>5. \A j \in Coordinator \ {k} : HandFine(j)'
  BY <1>1, <1>3, <1>a, CalmHandFine
<1>6. \A s \in Session : RedirectFine(s)'
  BY <1>3, <1>a, CalmRedirect
<1> QED BY <1>0, <1>4, <1>5, <1>6, <1>a, StillCovers DEF HandInv

(* Giving away what the generation has taken.                              *)
LEMMA ReleaseHand ==
  ASSUME ReleasesAnswered, OneEach, TypeInv, HandInv, NoneStrays,
         NEW k \in Coordinator, Release(k)
  PROVE  HandInv' /\ NoneStrays'
<1> DEFINE g == GenOf[k]
           xs == coords[k].exports
<1>0. /\ UNCHANGED <<procs, modes, bootstraps, clients>> /\ coords[k].pc = "adopted"
      /\ g \in Daemon /\ g # Legacy /\ Legacy \in Daemon
  BY Constants DEF Release
<1>1. CASE UNCHANGED servers /\ Goes(k, "unsure")
  <2>1. \A d \in Daemon, s \in Session : SameEntry(d, s)
    BY <1>1 DEF SameEntry, TypeInv, Entries, EntryFine
  <2>2. Calm
    BY <1>0, <2>1, CalmIf
  <2>3. /\ coords'[k].pc # "adopted" /\ coords'[k].exports \subseteq coords[k].exports
        /\ \A j \in Coordinator \ {k} : coords'[j] = coords[j]
    BY <1>1, GoesType DEF TypeInv, Places
  <2>4. SettledStays
    BY <1>0, <2>3, WorkUnsettles
  <2>5. \A j \in Coordinator : HandFine(j)'
    BY <2>2, <2>3, <2>4, CalmHandFine
  <2>6. \A s \in Session : RedirectFine(s)'
    BY <2>2, <2>4, CalmRedirect
  <2> QED BY <1>0, <2>2, <2>5, <2>6, StillCovers DEF HandInv
<1>2. CASE CanRelease(g, xs) /\ ReleaseEntries(g, xs) /\ Goes(k, "done")
  <2>1. \A d \in Daemon, s \in Session :
          \/ servers'[d][s] = servers[d][s]
          \/ /\ d = Legacy /\ servers'[d][s].kind = "handed_off"
             /\ servers'[d][s].proc = servers[d][s].proc
             /\ servers'[d][s].lease = servers[d][s].lease
             /\ servers'[d][s].to = g
             /\ \E x \in xs : x.session = s /\ Matches(Legacy, x)
    BY <1>2, ReleaseShape
  <2>2. /\ coords'[k].pc = "done" /\ coords'[k].exports = {}
        /\ \A j \in Coordinator \ {k} : coords'[j] = coords[j]
    BY <1>2, GoesType DEF TypeInv, Places
  <2>3. SettledStays
    BY <1>0, <2>2, WorkUnsettles
  <2>4. Settled(g)'
    BY <2>2, Constants DEF Settled, OneEach
  <2>5. \A x \in xs : /\ x \in Export /\ x.session \in Session
                      /\ servers[Legacy][x.session].kind \in {"owned", "handed_off"}
    BY <1>2, ExportsUsed DEF CanRelease, Export
  (* What is given away is with the generation. *)
  <2>6. ASSUME NEW s \in Session, servers'[Legacy][s] # servers[Legacy][s],
               procs[servers[Legacy][s].proc] = "live"
        PROVE  /\ modes[g] # "down" /\ servers'[g][s].kind = "adopted"
               /\ servers'[g][s].proc = servers[Legacy][s].proc
               /\ servers'[g][s].lease = servers[Legacy][s].lease
               /\ servers[Legacy][s].kind # "adopted"
    <3>1. PICK x \in xs : x.session = s /\ Matches(Legacy, x)
      BY <1>0, <2>1, <2>6
    <3>2. HasAdopted(g, x)
      BY <1>0, <2>6, <3>1 DEF HandInv, HandFine, Matches
    <3> QED BY <1>0, <2>1, <2>5, <3>1, <3>2 DEF HasAdopted, Matches
  <2>7. ASSUME NEW x \in Export, procs[x.proc] = "live", OwnedByLegacy(x)
        PROVE  OwnedByLegacy(x)' \/ HasAdopted(g, x)'
    <3>1. x.session \in Session
      BY DEF Export
    <3>2. CASE servers'[Legacy][x.session] = servers[Legacy][x.session]
      BY <1>0, <2>7, <3>2 DEF OwnedByLegacy, Matches
    <3>3. CASE servers'[Legacy][x.session] # servers[Legacy][x.session]
      BY <1>0, <2>6, <2>7, <3>1, <3>3 DEF OwnedByLegacy, HasAdopted, Matches
    <3> QED BY <3>2, <3>3
  <2>8. ASSUME NEW x \in Export, procs[x.proc] = "live", NEW d \in Daemon, HasAdopted(d, x)
        PROVE  HasAdopted(d, x)'
    <3>1. x.session \in Session
      BY DEF Export
    <3>2. servers'[d][x.session] = servers[d][x.session]
      BY <1>0, <2>1, <2>6, <2>8, <3>1 DEF HasAdopted, Matches
    <3> QED BY <1>0, <2>8, <3>2 DEF HasAdopted, Matches
  <2>9. ASSUME NEW j \in Coordinator PROVE HandFine(j)'
    <3>1. CASE j = k
      BY <2>2, <3>1 DEF HandFine
    <3>2. CASE j # k
      <4>1. g # GenOf[j]
        BY <3>2 DEF OneEach
      <4>2. ASSUME NEW x \in coords[j].exports, procs[x.proc] = "live"
            PROVE  /\ \/ OwnedByLegacy(x)'
                      \/ \E d \in Daemon \ {GenOf[j]} : Settled(d)' /\ HasAdopted(d, x)'
                   /\ coords[j].pc = "adopted" => HasAdopted(GenOf[j], x)'
        <5>1. /\ \/ OwnedByLegacy(x)
                 \/ \E d \in Daemon \ {GenOf[j]} : Settled(d) /\ HasAdopted(d, x)
              /\ coords[j].pc = "adopted" => HasAdopted(GenOf[j], x)
              /\ x \in Export /\ GenOf[j] \in Daemon
          BY <4>2, ExportsUsed, Constants DEF HandInv, HandFine
        <5> QED BY <1>0, <2>3, <2>4, <2>7, <2>8, <4>1, <4>2, <5>1 DEF SettledStays
      <4> QED BY <1>0, <2>2, <3>2, <4>2 DEF HandFine
    <3> QED BY <3>1, <3>2
  <2>10. ASSUME NEW s \in Session PROVE RedirectFine(s)'
    <3>1. CASE servers'[Legacy][s] # servers[Legacy][s]
      <4>1. /\ servers'[Legacy][s].to = g
            /\ servers'[Legacy][s].proc = servers[Legacy][s].proc
            /\ servers'[Legacy][s].lease = servers[Legacy][s].lease
        BY <1>0, <2>1, <3>1
      <4> QED BY <1>0, <2>4, <2>6, <3>1, <4>1
          DEF RedirectFine, HasAdopted, Matches, Redirect, Settled
    <3>2. CASE servers'[Legacy][s] = servers[Legacy][s] /\ servers[Legacy][s].kind = "handed_off"
               /\ procs[servers[Legacy][s].proc] = "live"
      <4>1. /\ servers[Legacy][s].to \in Daemon \ {Legacy}
            /\ Settled(servers[Legacy][s].to) /\ HasAdopted(servers[Legacy][s].to, Redirect(s))
        BY <1>0, <3>2 DEF HandInv, RedirectFine, TypeInv, Entries, EntryFine
      <4>2. PICK d \in Daemon \ {Legacy} : d = servers[Legacy][s].to
        BY <4>1
      <4>3. Settled(d) /\ HasAdopted(d, Redirect(s)) /\ servers'[d][s] = servers[d][s]
        BY <2>1, <4>1, <4>2
      <4>4. Settled(d)'
        BY <2>3, <4>3 DEF SettledStays
      <4> QED BY <1>0, <3>2, <4>2, <4>3, <4>4
          DEF RedirectFine, HasAdopted, Matches, Redirect, Settled
    <3> QED BY <1>0, <3>1, <3>2 DEF RedirectFine
  <2>11. ASSUME NEW p \in Proc, procs[p] = "live" PROVE Covered(p)'
    <3>1. CASE InRegistry(p)
      <4>1. PICK d \in Daemon, s \in Session :
              /\ modes[d] # "down" /\ servers[d][s].kind \in {"owned", "adopted"}
              /\ servers[d][s].proc = p
        BY <3>1 DEF InRegistry
      <4>2. CASE servers'[d][s] = servers[d][s]
        BY <1>0, <4>1, <4>2 DEF Covered, InRegistry
      <4>3. CASE servers'[d][s] # servers[d][s]
        <5>1. d = Legacy
          BY <2>1, <4>3
        <5> QED BY <1>0, <2>6, <2>11, <4>1, <4>3, <5>1 DEF Covered, InRegistry
      <4> QED BY <4>2, <4>3
    <3>2. CASE InBootstrap(p)
      BY <1>0, <3>2 DEF Covered, InBootstrap
    <3>3. CASE Starting(p)
      BY <1>0, <3>3 DEF Covered, Starting
    <3> QED BY <2>11, <3>1, <3>2, <3>3 DEF NoneStrays, Covered
  <2> QED BY <1>0, <2>9, <2>10, <2>11 DEF HandInv, NoneStrays
<1> QED BY <1>1, <1>2 DEF Release, Answered, ReleasesAnswered

(* Taking back what the generation has, which others have too.             *)
LEMMA UnadoptHand ==
  ASSUME OneEach, TypeInv, HandInv, NoneStrays, NEW k \in Coordinator, Unadopt(k)
  PROVE  HandInv' /\ NoneStrays'
<1> DEFINE g == GenOf[k]
           xs == coords[k].exports
<1>0. /\ UNCHANGED <<procs, modes, bootstraps, clients>>
      /\ coords[k].pc \in {"undo_adopt", "undo_release", "undo_losing"}
      /\ g \in Daemon /\ g # Legacy /\ Legacy \in Daemon
  BY Constants DEF Unadopt
<1>1. PICK pc \in {"unquiesce", "failed"} : Goes(k, pc)
  BY DEF Unadopt, Answered
<1>2. /\ coords'[k].pc # "adopted" /\ coords'[k].exports \subseteq xs
      /\ \A j \in Coordinator \ {k} : coords'[j] = coords[j]
  BY <1>1, GoesType DEF TypeInv, Places
<1>3. ~Settled(g) /\ SettledStays
  BY <1>0, <1>2, WorkUnsettles
<1>4. \A d \in Daemon, s \in Session :
        \/ servers'[d][s] = servers[d][s]
        \/ /\ d = g /\ servers'[d][s].kind = "absent"
           /\ servers[d][s].kind # "absent"
              => \E x \in xs : x.session = s /\ Matches(g, x)
  <2>1. CASE UNCHANGED servers
    BY <2>1
  <2>2. CASE CanUnadopt(g, xs) /\ UnadoptEntries(g, xs)
    BY <2>2, UnadoptShape, NoRecords DEF CanUnadopt, Present
  <2> QED BY <2>1, <2>2 DEF Unadopt
<1>5. ASSUME NEW x \in Export
      PROVE  /\ OwnedByLegacy(x) => OwnedByLegacy(x)'
             /\ \A d \in Daemon \ {g} : HasAdopted(d, x) => HasAdopted(d, x)'
  <2>1. x.session \in Session
    BY DEF Export
  <2> QED BY <1>0, <1>4, <2>1 DEF OwnedByLegacy, HasAdopted, Matches
<1>6. ASSUME NEW j \in Coordinator PROVE HandFine(j)'
  <2>1. ASSUME NEW x \in coords'[j].exports, procs[x.proc] = "live"
        PROVE  /\ \/ OwnedByLegacy(x)'
                  \/ \E d \in Daemon \ {GenOf[j]} : Settled(d)' /\ HasAdopted(d, x)'
               /\ coords'[j].pc = "adopted" => HasAdopted(GenOf[j], x)'
    <3>1. x \in coords[j].exports
      BY <1>2
    <3>2. /\ \/ OwnedByLegacy(x)
             \/ \E d \in Daemon \ {GenOf[j]} : Settled(d) /\ HasAdopted(d, x)
          /\ coords[j].pc = "adopted" => HasAdopted(GenOf[j], x)
          /\ x \in Export /\ GenOf[j] \in Daemon
      BY <2>1, <3>1, ExportsUsed, Constants DEF HandInv, HandFine
    <3>3. coords'[j].pc = "adopted" => coords[j].pc = "adopted" /\ GenOf[j] # g
      BY <1>2 DEF OneEach
    <3> QED BY <1>3, <1>5, <3>2, <3>3 DEF SettledStays
  <2> QED BY <1>0, <2>1 DEF HandFine
<1>7. ASSUME NEW s \in Session PROVE RedirectFine(s)'
  <2> SUFFICES ASSUME servers[Legacy][s].kind = "handed_off",
                      procs[servers[Legacy][s].proc] = "live"
               PROVE  RedirectFine(s)'
    BY <1>0, <1>4 DEF RedirectFine
  <2>1. /\ servers[Legacy][s].to \in Daemon
        /\ Settled(servers[Legacy][s].to) /\ HasAdopted(servers[Legacy][s].to, Redirect(s))
    BY <1>0 DEF HandInv, RedirectFine, TypeInv, Entries, EntryFine
  <2>2. PICK d \in Daemon : d = servers[Legacy][s].to
    BY <2>1
  <2>3. /\ Settled(d) /\ Settled(d)' /\ d # g
        /\ HasAdopted(d, Redirect(s)) /\ servers'[d][s] = servers[d][s]
    BY <1>3, <1>4, <2>1, <2>2 DEF SettledStays
  <2>4. servers'[Legacy][s] = servers[Legacy][s]
    BY <1>0, <1>4
  <2> QED BY <1>0, <2>2, <2>3, <2>4 DEF RedirectFine, HasAdopted, Matches, Redirect, Settled
<1>8. ASSUME NEW p \in Proc, procs[p] = "live" PROVE Covered(p)'
  <2>1. CASE InRegistry(p)
    <3>1. PICK d \in Daemon, s \in Session :
            /\ modes[d] # "down" /\ servers[d][s].kind \in {"owned", "adopted"}
            /\ servers[d][s].proc = p
      BY <2>1 DEF InRegistry
    <3>2. CASE servers'[d][s] = servers[d][s]
      BY <1>0, <3>1, <3>2 DEF Covered, InRegistry
    <3>3. CASE servers'[d][s] # servers[d][s]
      <4>1. PICK x \in xs : x.session = s /\ Matches(g, x) /\ d = g
        BY <1>4, <3>1, <3>3
      <4>2. x.proc = p /\ x \in Export /\ x.session \in Session
        BY <3>1, <4>1, ExportsUsed DEF Matches
      <4>3. \/ OwnedByLegacy(x)
            \/ \E e \in Daemon \ {g} : HasAdopted(e, x)
        BY <1>8, <4>2 DEF HandInv, HandFine
      <4>4. \/ OwnedByLegacy(x)'
            \/ \E e \in Daemon \ {g} : HasAdopted(e, x)'
        BY <1>5, <4>2, <4>3
      <4> QED BY <1>0, <4>2, <4>4 DEF Covered, InRegistry, OwnedByLegacy, HasAdopted, Matches
    <3> QED BY <3>2, <3>3
  <2>2. CASE InBootstrap(p)
    BY <1>0, <2>2 DEF Covered, InBootstrap
  <2>3. CASE Starting(p)
    BY <1>0, <2>3 DEF Covered, Starting
  <2> QED BY <1>8, <2>1, <2>2, <2>3 DEF NoneStrays, Covered
<1> QED BY <1>0, <1>6, <1>7, <1>8 DEF HandInv, NoneStrays

(* A process that ends by itself, and a lease that runs out.               *)
LEMMA ProcExitsHand ==
  ASSUME TypeInv, HandInv, NoneStrays, UNCHANGED coords, NEW p \in Proc, ProcExits(p)
  PROVE  HandInv' /\ NoneStrays'
<1>1. /\ UNCHANGED <<modes, servers, bootstraps, clients>>
      /\ \A q \in Proc : procs'[q] = "live" => procs[q] = "live"
  BY DEF ProcExits, registries, TypeInv, ProcsOK
<1>2. \A d \in Daemon, s \in Session : SameEntry(d, s)
  BY <1>1 DEF SameEntry, TypeInv, Entries, EntryFine
<1>3. Calm
  BY <1>1, <1>2, CalmIf
<1>4. ASSUME NEW q \in Proc, procs'[q] = "live", InBootstrap(q) \/ Starting(q)
      PROVE  Covered(q)'
  BY <1>1, <1>4 DEF Covered, InBootstrap, Starting
<1> QED BY <1>1, <1>3, <1>4, CalmHand, CalmCovers

(* A lease that runs out changes no holder.                                *)
LEMMA LapseHand ==
  ASSUME TypeInv, HandInv, NoneStrays, NEW d \in Daemon, NEW s \in Session, Lapse(d, s)
  PROVE  HandInv' /\ NoneStrays'
<1>1. /\ UNCHANGED <<procs, modes, bootstraps, clients, coords>>
      /\ \A e \in Daemon, t \in Session : SameEntry(e, t)
  BY LapseShape DEF Lapse, LapsesOnly
<1>2. Calm
  BY <1>1, CalmIf
<1> QED BY <1>1, <1>2, CalmHand, StillCovers

(* The inductive step.                                                     *)
LEMMA HandStep ==
  ASSUME ReleasesAnswered, OneEach, TypeInv, HandInv, NoneStrays, [Next]_vars
  PROVE  HandInv' /\ NoneStrays'
<1>1. ASSUME UNCHANGED coords, NEW c \in Client, ClientStep(c) PROVE HandInv' /\ NoneStrays'
  BY <1>1, ClientCalm, ClientCovers, CalmHand
<1>2. ASSUME UNCHANGED coords, NEW d \in Daemon, DaemonStep(d) PROVE HandInv' /\ NoneStrays'
  BY <1>2, DaemonCalm, DaemonCovers, CalmHand
<1>3. ASSUME NEW k \in Coordinator, CoordinatorStep(k) PROVE HandInv' /\ NoneStrays'
  BY <1>3, QuiesceHand, AdoptHand, ReleaseHand, UnadoptHand, AsideHand DEF CoordinatorStep
<1>4. CASE UNCHANGED vars
  <2>1. \A d \in Daemon, s \in Session : SameEntry(d, s)
    BY <1>4 DEF SameEntry, TypeInv, Entries, EntryFine, vars
  <2>2. Calm
    BY <1>4, <2>1, CalmIf DEF vars
  <2> QED BY <1>4, <2>2, CalmHand, StillCovers DEF vars
<1> QED BY <1>1, <1>2, <1>3, <1>4, NextCases, ProcExitsHand, LapseHand

(* At the start nothing runs and nothing is moved.                         *)
LEMMA InitHand ==
  ASSUME Init
  PROVE  HandInv /\ NoneStrays
BY Constants, NoRecords
   DEF Init, InitAppServers, HandInv, HandFine, RedirectFine, NoneStrays

(* The inductive invariant of the hand-off.                                *)
LEMMA HandAlways ==
  ASSUME ReleasesAnswered, OneEach
  PROVE  Spec => [](TypeInv /\ HandInv /\ NoneStrays)
<1> DEFINE Inv == TypeInv /\ HandInv /\ NoneStrays
<1>1. Init => Inv
  BY InitType, InitHand
<1>2. Inv /\ [Next]_vars => Inv'
  BY TypeStep, HandStep
<1> QED BY <1>1, <1>2, PTL DEF Spec

(* No app-server runs on its own: a daemon that is running owns it, has    *)
(* adopted it, keeps it as a bootstrap or is just starting it, through     *)
(* every interleaving of requests, lost answers, rollbacks, exits and      *)
(* deaths that the two hypotheses leave.                                   *)
THEOREM NoStrayAlways ==
  ASSUME ReleasesAnswered, OneEach
  PROVE  Spec => []NoStray
<1>1. HandInv /\ NoneStrays => NoStray
  BY CoveredIsHeld
<1> QED BY <1>1, HandAlways, PTL

(* A redirect leads to the server: while a process runs whose entry the    *)
(* legacy daemon has handed off, the daemon it names has adopted it, with  *)
(* the same lease, under the same two hypotheses.                          *)
THEOREM RedirectLeadsAlways ==
  ASSUME ReleasesAnswered, OneEach
  PROVE  Spec => []RedirectLeads
<1>1. TypeInv /\ HandInv => RedirectLeads
  BY DEF HandInv, RedirectFine, HasAdopted, Redirect, Matches, RedirectLeads, HasLive
<1> QED BY <1>1, HandAlways, PTL
=============================================================================
