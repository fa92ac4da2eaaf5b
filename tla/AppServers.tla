----------------------------- MODULE AppServers -----------------------------
(***************************************************************************)
(* The Codex app-servers a daemon runs for managed CLI sessions, and the   *)
(* leases that keep them alive: reservations, registrations, thread/start  *)
(* bootstraps, refreshes, stops, the reaper, and the daemon's own exits    *)
(* (src/daemon.rs).  Several daemons are there at once: that of the        *)
(* default socket and those of generation sockets, each with a registry    *)
(* in memory.  A request that needs a lock twice is two steps here.        *)
(*                                                                         *)
(* A client is one lease id, a foreground wrapper or a plugin connection.  *)
(* Its process proc is the pid, url, epoch and pid identity of the source. *)
(***************************************************************************)
EXTENDS FiniteSets

CONSTANTS
  Daemon, Legacy,    \* daemons; Legacy serves the default socket
  NoDaemon,
  Client, NoClient,  \* lease ids
  Session,           \* managed session ids
  Thread,            \* Codex threads
  SessionOf,         \* [Client -> Session]
  ThreadOf,          \* [Session -> Thread]
  Proc, NoProc       \* app-server processes

ASSUME AppServersAssumption ==
  /\ Legacy \in Daemon /\ NoDaemon \notin Daemon
  /\ NoClient \notin Client /\ NoProc \notin Proc
  /\ SessionOf \in [Client -> Session]
  /\ ThreadOf \in [Session -> Thread]

VARIABLES
  procs,         \* [Proc -> a process's life]
  modes,         \* [Daemon -> a daemon's life]
  servers,       \* [Daemon -> [Session -> Entry]], cli_app_servers
  reservations,  \* [Daemon -> [Thread -> Client or NoClient]]
  bootstraps,    \* [Daemon -> [Client -> Proc or NoProc]]
  reaping,       \* [Daemon -> proofs the reaper took and has not handled]
  clients        \* [Client -> ClientRecord]

registries == <<servers, reservations, bootstraps, reaping>>
appServerVars == <<procs, modes, servers, reservations, bootstraps, reaping, clients>>

Kinds == {"owned", "adopted", "handed_off"}

(* A registry entry: to is handoff_daemon_socket_path, lapsed says that    *)
(* lease_expires_at has passed.                                            *)
Entry ==
  [ kind   : Kinds \union {"absent"},
    proc   : Proc \union {NoProc},
    lease  : Client \union {NoClient},
    to     : Daemon \union {NoDaemon},
    lapsed : BOOLEAN ]

NoEntry == [kind |-> "absent", proc |-> NoProc, lease |-> NoClient,
            to |-> NoDaemon, lapsed |-> FALSE]

NewEntry(kind, p, c) == [NoEntry EXCEPT !.kind = kind, !.proc = p, !.lease = c]

(* ManagedCliAppServerProof, with what the reaper notes beside it. *)
Proof == [session : Session, proc : Proc, lease : Client, handed : BOOLEAN]

ProofOf(d, s) == [session |-> s, proc |-> servers[d][s].proc,
                  lease |-> servers[d][s].lease, handed |-> servers[d][s].kind = "handed_off"]

(* What a lease holder is doing, and where.  In InFlight a daemon's worker *)
(* is between two steps of its request; proc is then the worker's.         *)
InFlight == {"reserving", "spawning", "starting", "asking", "stopping"}
ClientRecord ==
  [ doing : InFlight \union {"idle", "reserved", "bootstrapped", "holding", "gone"},
    at    : Daemon \union {NoDaemon},
    proc  : Proc \union {NoProc},
    alive : BOOLEAN ]

NoRequest == [doing |-> "idle", at |-> NoDaemon, proc |-> NoProc, alive |-> TRUE]
Gone == [NoRequest EXCEPT !.doing = "gone", !.alive = FALSE]

Present(d, s) == servers[d][s].kind # "absent"
HasLive(d, s) == Present(d, s) /\ procs[servers[d][s].proc] = "live"
Up(d) == modes[d] \in {"up", "quiescing"}
AcceptsWork(d) == modes[d] = "up"
Free(p) == procs[p] = "unused"

(* A client whose process has died leaves as soon as its request is over. *)
Becomes(c, r) == clients' = [clients EXCEPT ![c] = IF @.alive THEN r ELSE Gone]
Moves(c, doing) == Becomes(c, [clients[c] EXCEPT !.doing = doing])

(* cli_app_server_matches_proof: lapsing and hand-off leave a proof valid. *)
Matches(d, proof) ==
  /\ servers[d][proof.session].proc = proof.proc
  /\ servers[d][proof.session].lease = proof.lease

(* stop_managed_cli_app_server_process: a handed-off entry only lets go of *)
(* the child handle, it never signals the process.                         *)
StopEntry(e, ps) ==
  IF e.kind \in {"owned", "adopted"} /\ ps[e.proc] = "live"
  THEN [ps EXCEPT ![e.proc] = "stopped"] ELSE ps

StopProc(p, ps) == IF ps[p] = "live" THEN [ps EXCEPT ![p] = "stopped"] ELSE ps

(* invalidate_and_stop_registered_cli_app_server *)
InvalidateAndStop(d, proof) ==
  /\ servers' = IF Matches(d, proof) THEN [servers EXCEPT ![d][proof.session] = NoEntry]
                                     ELSE servers
  /\ procs' = IF Matches(d, proof) THEN StopEntry(servers[d][proof.session], procs) ELSE procs

InitAppServers ==
  /\ procs = [p \in Proc |-> "unused"]
  /\ modes = [d \in Daemon |-> IF d = Legacy THEN "up" ELSE "down"]
  /\ servers = [d \in Daemon |-> [s \in Session |-> NoEntry]]
  /\ reservations = [d \in Daemon |-> [t \in Thread |-> NoClient]]
  /\ bootstraps = [d \in Daemon |-> [c \in Client |-> NoProc]]
  /\ reaping = [d \in Daemon |-> {}]
  /\ clients = [c \in Client |-> NoRequest]

(***************************************************************************)
(* Reservations.                                                           *)
(***************************************************************************)

(* reserve_cli_app_server, under the registry's lock: a live server of the *)
(* thread refuses it, dead ones are dropped.                               *)
ReserveScan(c, d) ==
  LET t == ThreadOf[SessionOf[c]]
      OfThread == {s \in Session : ThreadOf[s] = t /\ Present(d, s)}
  IN  /\ \/ clients[c].doing = "idle"
         \/ clients[c].doing = "bootstrapped" /\ clients[c].at = d
      /\ clients[c].alive /\ AcceptsWork(d)
      /\ \A s \in OfThread : ~HasLive(d, s)
      /\ servers' = [servers EXCEPT ![d] =
                       [s \in Session |-> IF s \in OfThread THEN NoEntry ELSE @[s]]]
      /\ clients' = [clients EXCEPT ![c].doing = "reserving", ![c].at = d]
      /\ UNCHANGED <<procs, modes, reservations, bootstraps, reaping>>

(* ... and under the reservations' lock, where the registry is not looked  *)
(* at again.                                                               *)
ReserveInsert(c) ==
  LET d == clients[c].at
      t == ThreadOf[SessionOf[c]]
      taken == reservations[d][t] \notin {c, NoClient}
      after == IF bootstraps[d][c] # NoProc THEN "bootstrapped" ELSE "reserved"
  IN  /\ clients[c].doing = "reserving"
      /\ IF taken THEN Moves(c, IF after = "reserved" THEN "idle" ELSE after)
                  ELSE Moves(c, after)
      /\ reservations' = IF taken THEN reservations ELSE [reservations EXCEPT ![d][t] = c]
      /\ UNCHANGED <<procs, modes, servers, bootstraps, reaping>>

Unreserved(c) ==
  LET d == clients[c].at
      t == ThreadOf[SessionOf[c]]
  IN  IF reservations[d][t] = c THEN [reservations EXCEPT ![d][t] = NoClient] ELSE reservations

(* release_cli_app_server_reservation, from a client that gives up; one     *)
(* with a bootstrap has that aborted next.                                 *)
ReleaseReservation(c) ==
  /\ clients[c].doing \in {"reserved", "bootstrapped"} /\ Up(clients[c].at)
  /\ reservations' = Unreserved(c)
  /\ IF clients[c].doing = "reserved" THEN Becomes(c, NoRequest) ELSE UNCHANGED clients
  /\ UNCHANGED <<procs, modes, servers, bootstraps, reaping>>

(* reap_expired_cli_app_server_reservations, and the same removal when a   *)
(* reservation is next looked at.                                          *)
ReservationLapses(d, t) ==
  /\ Up(d) /\ reservations[d][t] # NoClient
  /\ reservations' = [reservations EXCEPT ![d][t] = NoClient]
  /\ UNCHANGED <<procs, modes, servers, bootstraps, reaping, clients>>

(***************************************************************************)
(* ensure_cli_app_server.                                                  *)
(***************************************************************************)

(* A dead entry goes, and the process is spawned outside every lock. *)
EnsureSpawn(c, p) ==
  LET d == clients[c].at
      s == SessionOf[c]
  IN  /\ clients[c].doing = "reserved" /\ clients[c].alive /\ AcceptsWork(d)
      /\ ~HasLive(d, s)
      /\ reservations[d][ThreadOf[s]] = c
      /\ Free(p)
      /\ servers' = [servers EXCEPT ![d][s] = NoEntry]
      /\ procs' = [procs EXCEPT ![p] = "live"]
      /\ clients' = [clients EXCEPT ![c].doing = "spawning", ![c].proc = p]
      /\ UNCHANGED <<modes, reservations, bootstraps, reaping>>

(* Registration, under the hand-off and the registry's lock: the daemon    *)
(* must still accept work; whether the reservation still stands is not     *)
(* asked.                                                                  *)
EnsureRegister(c) ==
  LET d == clients[c].at
      s == SessionOf[c]
  IN  /\ clients[c].doing = "spawning" /\ AcceptsWork(d) /\ ~HasLive(d, s)
      /\ servers' = [servers EXCEPT ![d][s] = NewEntry("owned", clients[c].proc, c)]
      /\ Moves(c, "holding")
      /\ reservations' = Unreserved(c)
      /\ UNCHANGED <<procs, modes, bootstraps, reaping>>

(* Start-up fails or the daemon is stopping or quiescing by now, or the    *)
(* session's server is another lease's: the candidate is stopped.          *)
EnsureFails(c) ==
  /\ clients[c].doing = "spawning"
  /\ procs' = StopProc(clients[c].proc, procs)
  /\ Becomes(c, [clients[c] EXCEPT !.doing = "reserved", !.proc = NoProc])
  /\ UNCHANGED <<modes, registries>>

(***************************************************************************)
(* thread/start bootstraps: start_cli_thread, start_cli_foreground_thread. *)
(***************************************************************************)
BootstrapSpawn(c, d, p) ==
  /\ clients[c].doing = "idle" /\ clients[c].alive /\ AcceptsWork(d) /\ Free(p)
  /\ procs' = [procs EXCEPT ![p] = "live"]
  /\ clients' = [clients EXCEPT ![c] = [doing |-> "starting", at |-> d, proc |-> p, alive |-> TRUE]]
  /\ UNCHANGED <<modes, registries>>

DropBootstrap(d, c) ==
  /\ bootstraps[d][c] # NoProc
  /\ bootstraps' = [bootstraps EXCEPT ![d][c] = NoProc]
  /\ procs' = StopProc(bootstraps[d][c], procs)

BootstrapRegister(c) ==
  LET d == clients[c].at IN
  /\ clients[c].doing = "starting" /\ AcceptsWork(d)
  /\ bootstraps' = [bootstraps EXCEPT ![d][c] = clients[c].proc]
  /\ Moves(c, "bootstrapped")
  /\ UNCHANGED <<procs, modes, servers, reservations, reaping>>

(* start_cli_thread registers it too, and then asks it for a new thread: by *)
(* the answer it may be gone again, or the daemon be stopping.              *)
AsksThread(c) ==
  LET d == clients[c].at IN
  /\ clients[c].doing = "starting" /\ AcceptsWork(d)
  /\ bootstraps' = [bootstraps EXCEPT ![d][c] = clients[c].proc]
  /\ Moves(c, "asking")
  /\ UNCHANGED <<procs, modes, servers, reservations, reaping>>

ThreadAnswered(c) ==
  LET d == clients[c].at IN
  /\ clients[c].doing = "asking" /\ modes[d] # "stopping"
  /\ bootstraps[d][c] # NoProc /\ procs[bootstraps[d][c]] = "live"
  /\ Moves(c, "bootstrapped")
  /\ UNCHANGED <<procs, modes, registries>>

ThreadFails(c) ==
  LET d == clients[c].at IN
  /\ clients[c].doing = "asking"
  /\ IF bootstraps[d][c] # NoProc THEN DropBootstrap(d, c) ELSE UNCHANGED <<procs, bootstraps>>
  /\ Becomes(c, NoRequest)
  /\ UNCHANGED <<modes, servers, reservations, reaping>>

BootstrapFails(c) ==
  /\ clients[c].doing = "starting"
  /\ procs' = StopProc(clients[c].proc, procs)
  /\ Becomes(c, NoRequest)
  /\ UNCHANGED <<modes, registries>>

(* promote_cli_thread_start_app_server: the bootstrap becomes the session's *)
(* server, or is stopped.                                                   *)
Promote(c) ==
  LET d == clients[c].at
      s == SessionOf[c]
      p == bootstraps[d][c]
      fits == procs[p] = "live" /\ ~HasLive(d, s)
  IN  /\ clients[c].doing = "bootstrapped" /\ clients[c].alive /\ AcceptsWork(d)
      /\ reservations[d][ThreadOf[s]] = c /\ p # NoProc
      /\ bootstraps' = [bootstraps EXCEPT ![d][c] = NoProc]
      /\ IF fits
         THEN /\ servers' = [servers EXCEPT ![d][s] = NewEntry("owned", p, c)]
              /\ Moves(c, "holding")
              /\ reservations' = Unreserved(c)
              /\ procs' = procs
         ELSE /\ procs' = StopProc(p, procs)
              /\ Becomes(c, [clients[c] EXCEPT !.doing = "reserved", !.proc = NoProc])
              /\ UNCHANGED <<servers, reservations>>
      /\ UNCHANGED <<modes, reaping>>

(* abort_cli_thread_start_app_server *)
Abort(c) ==
  /\ clients[c].doing = "bootstrapped" /\ Up(clients[c].at)
  /\ DropBootstrap(clients[c].at, c)
  /\ Becomes(c, NoRequest)
  /\ UNCHANGED <<modes, servers, reservations, reaping>>

(* reap_expired_cli_thread_start_bootstraps: nobody refreshes its lease. *)
ReapBootstrap(d, c) ==
  /\ Up(d)
  /\ DropBootstrap(d, c)
  /\ UNCHANGED <<modes, servers, reservations, reaping, clients>>

(***************************************************************************)
(* Refresh and stop.                                                       *)
(***************************************************************************)

(* refresh_cli_app_server_lease with follow_cli_app_server_handoff_endpoint: *)
(* a handed-off entry only tells where to refresh.  An ensure that finds the *)
(* entry alive renews the lease in the same way.                             *)
Refresh(c) ==
  LET d == clients[c].at
      s == SessionOf[c]
      e == servers[d][s]
  IN  /\ clients[c].doing = "holding" /\ clients[c].alive /\ Up(d)
      /\ Present(d, s) /\ e.lease = c
      /\ \/ /\ e.kind = "handed_off"
            /\ clients' = [clients EXCEPT ![c].at = e.to]
            /\ UNCHANGED <<servers, procs>>
         \/ /\ e.kind # "handed_off" /\ procs[e.proc] = "live"
            /\ servers' = [servers EXCEPT ![d][s].lapsed = FALSE]
            /\ UNCHANGED <<clients, procs>>
         \/ /\ e.kind # "handed_off" /\ procs[e.proc] # "live"
            /\ InvalidateAndStop(d, ProofOf(d, s))
            /\ UNCHANGED clients
      /\ UNCHANGED <<modes, reservations, bootstraps, reaping>>

(* stop_cli_app_server, under the registry's lock ... *)
StopLookup(c) ==
  LET d == clients[c].at
      e == servers[d][SessionOf[c]]
  IN  /\ clients[c].doing = "holding" /\ clients[c].alive
      /\ \/ Up(d) /\ Present(d, SessionOf[c]) /\ e.lease = c /\ e.kind = "handed_off"
            /\ clients' = [clients EXCEPT ![c].at = e.to]
         \/ Up(d) /\ Present(d, SessionOf[c]) /\ e.lease = c /\ e.kind # "handed_off"
            /\ clients' = [clients EXCEPT ![c].doing = "stopping", ![c].proc = e.proc]
         \/ ~(Up(d) /\ Present(d, SessionOf[c]) /\ e.lease = c)
            /\ clients' = [clients EXCEPT ![c] = Gone]
      /\ UNCHANGED <<procs, modes, registries>>

(* ... and with the proof taken there, after the lock was let go. *)
StopFinish(c) ==
  LET d == clients[c].at IN
  /\ clients[c].doing = "stopping"
  /\ InvalidateAndStop(d, [session |-> SessionOf[c], proc |-> clients[c].proc, lease |-> c])
  /\ clients' = [clients EXCEPT ![c] = Gone]
  /\ UNCHANGED <<modes, reservations, bootstraps, reaping>>

(* The wrapper or the connection goes away without asking for anything. *)
ClientDies(c) ==
  /\ clients[c].alive
  /\ clients' = [clients EXCEPT ![c] = IF @.doing \in InFlight THEN [@ EXCEPT !.alive = FALSE]
                                       ELSE Gone]
  /\ UNCHANGED <<procs, modes, registries>>

(* An app-server ends on its own. *)
ProcExits(p) ==
  /\ procs[p] = "live"
  /\ procs' = [procs EXCEPT ![p] = "exited"]
  /\ UNCHANGED <<modes, registries, clients>>

(***************************************************************************)
(* The reaper, run by the daemon's main loop.                              *)
(***************************************************************************)

(* A slip for the mutation runs: what was adopted is never looked at. *)
ReapScanOwned(d) ==
  LET Lapsed == {s \in Session : servers[d][s].lapsed /\ servers[d][s].kind = "owned"} IN
  /\ Up(d) /\ reaping[d] = {} /\ Lapsed # {}
  /\ reaping' = [reaping EXCEPT ![d] = {ProofOf(d, s) : s \in Lapsed}]
  /\ UNCHANGED <<procs, modes, servers, reservations, bootstraps, clients>>

(* reap_expired_cli_app_servers: the proofs of the lapsed entries ... *)
ReapScan(d) ==
  LET Lapsed == {s \in Session : servers[d][s].lapsed} IN
  /\ Up(d) /\ reaping[d] = {} /\ Lapsed # {}
  /\ reaping' = [reaping EXCEPT ![d] = {ProofOf(d, s) : s \in Lapsed}]
  /\ UNCHANGED <<procs, modes, servers, reservations, bootstraps, clients>>

(* ... and one of them, with the lock taken again.  A handed-off entry     *)
(* stays until its process has ended (reap_handed_off_..._if_exited).      *)
Reap(d, proof) ==
  /\ proof \in reaping[d]
  /\ reaping' = [reaping EXCEPT ![d] = @ \ {proof}]
  /\ IF ~proof.handed THEN InvalidateAndStop(d, proof)
     ELSE /\ servers' =
               IF /\ servers[d][proof.session].kind = "handed_off"
                  /\ Matches(d, proof) /\ procs[proof.proc] # "live"
               THEN [servers EXCEPT ![d][proof.session] = NoEntry] ELSE servers
          /\ procs' = procs
  /\ UNCHANGED <<modes, reservations, bootstraps, clients>>

(***************************************************************************)
(* The life of a daemon.                                                   *)
(***************************************************************************)
Workers(d) == {c \in Client : clients[c].doing \in InFlight /\ clients[c].at = d}

(* spawn_daemon_until_ready *)
SpawnDaemon(d) ==
  /\ modes[d] = "down"
  /\ modes' = [modes EXCEPT ![d] = "up"]
  /\ UNCHANGED <<procs, registries, clients>>

(* daemon_ensure, which any command of a wrapper begins with: nobody serves  *)
(* the default socket, as probed before and under the startup lock.          *)
EnsureDefault == SpawnDaemon(Legacy)

(* daemon_ensure_generation *)
EnsureOwnGeneration(d) == d # Legacy /\ SpawnDaemon(d)

(* daemon stop: stop_requested is set, and the main loop leaves. *)
RequestStop(d) ==
  /\ Up(d) /\ reaping[d] = {}
  /\ modes' = [modes EXCEPT ![d] = "stopping"]
  /\ UNCHANGED <<procs, registries, clients>>

(* A slip for the mutation runs: handed-off processes count as well. *)
Known(d) == {servers[d][s].proc : s \in {x \in Session : Present(d, x)}}
              \union {bootstraps[d][c] : c \in {x \in Client : bootstraps[d][x] # NoProc}}

Held(d) == {servers[d][s].proc : s \in {x \in Session : servers[d][x].kind \in {"owned", "adopted"}}}
             \union {bootstraps[d][c] : c \in {x \in Client : bootstraps[d][x] # NoProc}}

(* stop_all_cli_app_servers, stop_all_cli_thread_start_bootstraps and      *)
(* clear_cli_app_server_reservations *)
StopAll(d) ==
  /\ procs' = [p \in Proc |-> IF p \in Held(d) /\ procs[p] = "live" THEN "stopped" ELSE procs[p]]
  /\ servers' = [servers EXCEPT ![d] = [s \in Session |-> NoEntry]]
  /\ bootstraps' = [bootstraps EXCEPT ![d] = [c \in Client |-> NoProc]]
  /\ reservations' = [reservations EXCEPT ![d] = [t \in Thread |-> NoClient]]

(* After stop_requested everything is stopped, the workers are waited for, *)
(* and what they still registered is stopped as well.                      *)
StopServers(d) ==
  /\ modes[d] = "stopping"
  /\ \/ \E s \in Session : Present(d, s)
     \/ \E c \in Client : bootstraps[d][c] # NoProc
  /\ StopAll(d)
  /\ UNCHANGED <<modes, reaping, clients>>

Exit(d) ==
  /\ StopAll(d)
  /\ modes' = [modes EXCEPT ![d] = "down"]
  /\ UNCHANGED <<reaping, clients>>

ExitStopped(d) == modes[d] = "stopping" /\ Workers(d) = {} /\ Exit(d)

(* A slip for the mutation runs: requests under way are not waited for. *)
UnusedNow(d) ==
  /\ Up(d) /\ reaping[d] = {}
  /\ \A t \in Thread : reservations[d][t] = NoClient
  /\ \A c \in Client : bootstraps[d][c] = NoProc

Unused(d) ==
  /\ Up(d) /\ Workers(d) = {} /\ reaping[d] = {}
  /\ \A t \in Thread : reservations[d][t] = NoClient
  /\ \A c \in Client : bootstraps[d][c] = NoProc

(* The idle timeout: no entry of any kind is left. *)
ExitIdle(d) == Unused(d) /\ (\A s \in Session : ~Present(d, s)) /\ Exit(d)

(* handoff_drain_is_complete: handed-off entries do not keep a quiescing   *)
(* daemon.                                                                 *)
ExitDrained(d) ==
  /\ modes[d] = "quiescing" /\ Unused(d)
  /\ \A s \in Session : servers[d][s].kind \notin {"owned", "adopted"}
  /\ Exit(d)

(* run_cli_session: a wrapper reserves its thread, has its server ensured,   *)
(* keeps it while the foreground runs and stops it; when a step fails it     *)
(* releases what it has and leaves.                                          *)
ResumeRun(c) ==
  \/ \E d \in Daemon : ReserveScan(c, d)
  \/ ReserveInsert(c) \/ ReleaseReservation(c)
  \/ \E p \in Proc : EnsureSpawn(c, p)
  \/ EnsureRegister(c) \/ EnsureFails(c)
  \/ Refresh(c) \/ StopLookup(c) \/ StopFinish(c)

(* run_cli_new_thread_session has a bootstrap server first, on which the     *)
(* foreground makes its thread, and aborts it when a later step fails.       *)
NewThreadRun(c) ==
  \/ \E d \in Daemon, p \in Proc : BootstrapSpawn(c, d, p)
  \/ BootstrapRegister(c) \/ BootstrapFails(c)
  \/ AsksThread(c) \/ ThreadAnswered(c) \/ ThreadFails(c)
  \/ Promote(c) \/ Abort(c)

ClientNext == \E c \in Client : ResumeRun(c) \/ NewThreadRun(c) \/ ClientDies(c)

DaemonNext == EnsureDefault \/ \E d \in Daemon :
    \/ \E t \in Thread : ReservationLapses(d, t)
    \/ \E c \in Client : ReapBootstrap(d, c)
    \/ ReapScan(d) \/ \E proof \in reaping[d] : Reap(d, proof)
    \/ EnsureOwnGeneration(d)
    \/ RequestStop(d) \/ StopServers(d)
    \/ ExitStopped(d) \/ ExitIdle(d) \/ ExitDrained(d)
=============================================================================
