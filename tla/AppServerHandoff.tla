-------------------------- MODULE AppServerHandoff --------------------------
(***************************************************************************)
(* Moving app-servers from the daemon of the default socket to that of a   *)
(* generation, driven by `daemon ensure` of a newer binary (src/daemon.rs, *)
(* finalize_legacy_handoff_cli_app_servers).  The coordinator is a client  *)
(* of both daemons: each of its requests may be lost, or its answer may,   *)
(* and it may die between any two of them.                                 *)
(***************************************************************************)
EXTENDS AppServers

CONSTANTS
  Coordinator,   \* runs of `daemon ensure` that take part in a hand-off
  GenOf,         \* [Coordinator -> Daemon], the generation each one starts
  LostAnswers    \* requests that may be carried out with the answer lost

Requests == {"quiesce", "adopt", "release", "unadopt", "unquiesce"}

ASSUME HandoffAssumption ==
  /\ GenOf \in [Coordinator -> Daemon \ {Legacy}]
  /\ LostAnswers \subseteq Requests

VARIABLE coords   \* [Coordinator -> CoordinatorRecord]

vars == <<procs, modes, servers, reservations, bootstraps, reaping, clients, coords>>

Export == [session : Session, proc : Proc, lease : Client]

CoordinatorRecord ==
  [ pc : {"start", "exported", "ready", "adopted", "unsure", "undo_adopt", "undo_release",
          "undo_losing", "unquiesce", "done", "failed"},
    exports : SUBSET Export ]

Init ==
  /\ InitAppServers
  /\ coords = [k \in Coordinator |-> [pc |-> "start", exports |-> {}]]

Goes(k, pc) ==
  coords' = [coords EXCEPT ![k] = [pc |-> pc, exports |-> IF pc \in {"done", "failed"}
                                                          THEN {} ELSE @.exports]]

(***************************************************************************)
(* The requests, as their handlers run them.                               *)
(***************************************************************************)

(* export_cli_app_servers_for_handoff: live owned entries whose lease has  *)
(* not run out, which is also renewed up to the hand-off floor.            *)
Exportable(s) ==
  servers[Legacy][s].kind = "owned" /\ HasLive(Legacy, s) /\ ~servers[Legacy][s].lapsed

Exported ==
  {[session |-> s, proc |-> servers[Legacy][s].proc, lease |-> servers[Legacy][s].lease] :
     s \in {x \in Session : Exportable(x)}}

(* quiesce_for_handoff_and_export_cli_app_servers; an open bootstrap       *)
(* refuses the export, and quiescing is undone.                            *)
CanQuiesce == Up(Legacy) /\ \A c \in Client : bootstraps[Legacy][c] = NoProc

(* adopt_handoff_cli_app_servers, all or nothing *)
CanAdopt(d, exports) ==
  /\ Up(d)
  /\ \A x \in exports :
       /\ procs[x.proc] = "live"
       /\ Present(d, x.session) => servers[d][x.session].kind = "adopted" /\ Matches(d, x)

(* The lease starts at no less than the floor. *)
AdoptEntries(d, exports) ==
  servers' = [servers EXCEPT ![d] =
    [s \in Session |-> IF \E x \in exports : x.session = s
                       THEN LET x == CHOOSE y \in exports : y.session = s
                            IN  NewEntry("adopted", x.proc, x.lease)
                       ELSE @[s]]]

(* unadopt_handoff_cli_app_servers *)
CanUnadopt(d, exports) ==
  /\ modes[d] # "down"
  /\ \A x \in exports : Present(d, x.session) =>
       Matches(d, x) /\ servers[d][x.session].kind = "adopted"

UnadoptEntries(d, exports) ==
  servers' = [servers EXCEPT ![d] =
    [s \in Session |-> IF \E x \in exports : x.session = s THEN NoEntry ELSE @[s]]]

(* release_handoff_cli_app_servers *)
CanRelease(d, exports) ==
  /\ modes[Legacy] = "quiescing"
  /\ \A x \in exports :
       LET e == servers[Legacy][x.session] IN
       /\ Present(Legacy, x.session) /\ Matches(Legacy, x)
       /\ e.kind = "owned" \/ (e.kind = "handed_off" /\ e.to = d)

ReleaseEntries(d, exports) ==
  servers' = [servers EXCEPT ![Legacy] =
    [s \in Session |-> IF \E x \in exports : x.session = s
                       THEN [@[s] EXCEPT !.kind = "handed_off", !.to = d, !.lapsed = FALSE]
                       ELSE @[s]]]

(* handoff_cli_app_server_release_status: an entry that is gone is missing, *)
(* one that changed fails the request.                                      *)
CanTellStatus(exports) ==
  /\ modes[Legacy] # "down"
  /\ \A x \in exports : Present(Legacy, x.session) =>
       Matches(Legacy, x) /\ servers[Legacy][x.session].kind # "adopted"

Statuses(exports) == {servers[Legacy][x.session] : x \in exports}

(* handoff_post_adopt_release_decision *)
Decision(d, exports) ==
  CASE \A e \in Statuses(exports) : e.kind = "handed_off" /\ e.to = d -> "done"
    [] \A e \in Statuses(exports) : e.kind \in {"owned", "absent"}    -> "undo_release"
    [] \A e \in Statuses(exports) : e.kind = "handed_off"             -> "undo_losing"
    [] OTHER                                                          -> "failed"

(***************************************************************************)
(* finalize_legacy_handoff_cli_app_servers.  A request is carried out and  *)
(* answered; or carried out with the answer lost; or not carried out,      *)
(* because it got lost or was refused.                                     *)
(***************************************************************************)
Answered(k, request, answered, lost) ==
  Goes(k, answered) \/ (request \in LostAnswers /\ Goes(k, lost))

Quiesce(k) ==
  /\ coords[k].pc = "start"
  /\ \/ /\ CanQuiesce
        /\ modes' = [modes EXCEPT ![Legacy] = "quiescing"]
        /\ servers' = [servers EXCEPT ![Legacy] =
             [s \in Session |-> IF Exportable(s) THEN [@[s] EXCEPT !.lapsed = FALSE] ELSE @[s]]]
        /\ \/ coords' = [coords EXCEPT ![k] = IF Exported = {} THEN [@ EXCEPT !.pc = "done"]
                                              ELSE [pc |-> "exported", exports |-> Exported]]
           \/ "quiesce" \in LostAnswers /\ Goes(k, "failed")
     \/ Goes(k, "failed") /\ UNCHANGED <<modes, servers>>
  /\ UNCHANGED <<procs, reservations, bootstraps, reaping, clients>>

(* ensure_generation_daemon_for_legacy_default: it runs, or is started. *)
EnsureGeneration(k) ==
  /\ coords[k].pc = "exported"
  /\ IF modes[GenOf[k]] \in {"up", "down"}
     THEN Goes(k, "ready") /\ modes' = [modes EXCEPT ![GenOf[k]] = "up"]
     ELSE Goes(k, "failed") /\ UNCHANGED modes
  /\ UNCHANGED <<procs, registries, clients>>

Adopt(k) ==
  LET d == GenOf[k]
      exports == coords[k].exports
  IN  /\ coords[k].pc = "ready"
      /\ \/ /\ CanAdopt(d, exports) /\ AdoptEntries(d, exports)
            /\ Answered(k, "adopt", "adopted", "undo_adopt")
         \/ Goes(k, "undo_adopt") /\ UNCHANGED servers
      /\ UNCHANGED <<procs, modes, reservations, bootstraps, reaping, clients>>

(* A slip for the mutation runs: the servers are given away before the     *)
(* generation has taken them.                                              *)
ReleaseFirst(k) ==
  LET exports == coords[k].exports IN
  /\ coords[k].pc = "ready"
  /\ CanRelease(GenOf[k], exports) /\ ReleaseEntries(GenOf[k], exports)
  /\ Goes(k, "adopted")
  /\ UNCHANGED <<procs, modes, reservations, bootstraps, reaping, clients>>

Release(k) ==
  LET exports == coords[k].exports IN
  /\ coords[k].pc = "adopted"
  /\ \/ /\ CanRelease(GenOf[k], exports) /\ ReleaseEntries(GenOf[k], exports)
        /\ Answered(k, "release", "done", "unsure")
     \/ Goes(k, "unsure") /\ UNCHANGED servers
  /\ UNCHANGED <<procs, modes, reservations, bootstraps, reaping, clients>>

ReleaseStatus(k) ==
  /\ coords[k].pc = "unsure"
  /\ \/ CanTellStatus(coords[k].exports) /\ Goes(k, Decision(GenOf[k], coords[k].exports))
     \/ Goes(k, "failed")
  /\ UNCHANGED <<procs, modes, registries, clients>>

(* rollback_adopted_cli_app_servers_after_failed_adopt / _release *)
Unadopt(k) ==
  LET d == GenOf[k]
      exports == coords[k].exports
  IN  /\ coords[k].pc \in {"undo_adopt", "undo_release", "undo_losing"}
      /\ \/ /\ CanUnadopt(d, exports) /\ UnadoptEntries(d, exports)
            /\ Answered(k, "unadopt",
                        IF coords[k].pc = "undo_losing" THEN "failed" ELSE "unquiesce", "failed")
         \/ Goes(k, "failed") /\ UNCHANGED servers
      /\ UNCHANGED <<procs, modes, reservations, bootstraps, reaping, clients>>

(* unquiesce_legacy_daemon_after_failed_app_server_handoff *)
Unquiesce(k) ==
  /\ coords[k].pc = "unquiesce"
  /\ \/ /\ Up(Legacy) /\ modes' = [modes EXCEPT ![Legacy] = "up"]
        /\ Answered(k, "unquiesce", "done", "failed")
     \/ UNCHANGED modes /\ Goes(k, "failed")
  /\ UNCHANGED <<procs, registries, clients>>

CoordinatorDies(k) ==
  /\ coords[k].pc \notin {"done", "failed"}
  /\ Goes(k, "failed")
  /\ UNCHANGED <<procs, modes, registries, clients>>

CoordinatorNext ==
  \E k \in Coordinator :
    Quiesce(k) \/ EnsureGeneration(k) \/ Adopt(k) \/ Release(k) \/ ReleaseStatus(k)
      \/ Unadopt(k) \/ Unquiesce(k) \/ CoordinatorDies(k)

(***************************************************************************)
(* Time.  A lease lasts 60 s, an adopted or exported one at least as long; *)
(* its holder refreshes every 20 s and a coordinator's requests take a few *)
(* seconds.  So a lease does not run out while its holder's refreshes      *)
(* reach it, or will once the hand-off under way is over.                  *)
(***************************************************************************)
Reached(d, s) ==
  LET e == servers[d][s]
      c == e.lease
      f == servers[clients[c].at][s]
  IN  /\ clients[c].doing = "holding" /\ clients[c].alive /\ clients[c].proc = e.proc
      /\ \/ clients[c].at = d
         \/ Up(clients[c].at) /\ f.kind = "handed_off" /\ f.to = d
         \/ \E k \in Coordinator : GenOf[k] = d /\ \E x \in coords[k].exports : x.session = s

Lapse(d, s) ==
  /\ Up(d) /\ Present(d, s) /\ ~servers[d][s].lapsed
  /\ servers[d][s].kind = "handed_off" \/ ~Reached(d, s)
  /\ servers' = [servers EXCEPT ![d][s].lapsed = TRUE]
  /\ UNCHANGED <<procs, modes, reservations, bootstraps, reaping, clients, coords>>

Next ==
  \/ ClientNext /\ UNCHANGED coords
  \/ DaemonNext /\ UNCHANGED coords
  \/ (\E p \in Proc : ProcExits(p)) /\ UNCHANGED coords
  \/ CoordinatorNext
  \/ \E d \in Daemon, s \in Session : Lapse(d, s)

Spec == Init /\ [][Next]_vars

(* The daemon's main loop keeps reaping, and a stop request is carried out. *)
FairSpec ==
  /\ Spec
  /\ \A d \in Daemon :
       /\ \A s \in Session : WF_vars(Lapse(d, s))
       /\ WF_vars(ReapScan(d) /\ UNCHANGED coords)
       /\ WF_vars((\E proof \in reaping[d] : Reap(d, proof)) /\ UNCHANGED coords)
       /\ WF_vars((\E c \in Client : ReapBootstrap(d, c)) /\ UNCHANGED coords)
       /\ WF_vars(StopServers(d) /\ UNCHANGED coords)

TypeOK ==
  /\ procs \in [Proc -> {"unused", "live", "stopped", "exited"}]
  /\ modes \in [Daemon -> {"up", "quiescing", "stopping", "down"}]
  /\ servers \in [Daemon -> [Session -> Entry]]
  /\ reservations \in [Daemon -> [Thread -> Client \union {NoClient}]]
  /\ bootstraps \in [Daemon -> [Client -> Proc \union {NoProc}]]
  /\ reaping \in [Daemon -> SUBSET Proof]
  /\ clients \in [Client -> ClientRecord]
  /\ coords \in [Coordinator -> CoordinatorRecord]

(* No app-server runs on its own: a daemon that is running owns it or has  *)
(* adopted it, keeps it as a bootstrap, or is just starting it.            *)
NoStray ==
  \A p \in Proc : procs[p] = "live" =>
    \/ \E d \in Daemon : modes[d] # "down" /\ p \in Held(d)
    \/ \E c \in Client : /\ clients[c].doing \in {"spawning", "starting"}
                         /\ clients[c].proc = p /\ modes[clients[c].at] # "down"

(* A redirect leads to the server: while a process runs whose entry the    *)
(* legacy daemon has handed off, the daemon it names has it adopted.       *)
RedirectLeads ==
  \A s \in Session :
    LET e == servers[Legacy][s] IN
    e.kind = "handed_off" /\ HasLive(Legacy, s) =>
      \E x \in {servers[e.to][s]} : x.kind = "adopted" /\ x.proc = e.proc /\ x.lease = e.lease

(* A lease holder can always find its server: the daemon it asks runs and  *)
(* has the entry, or knows who has.                                        *)
HolderFindsServer ==
  \A c \in Client :
    LET d == clients[c].at
        s == SessionOf[c]
    IN  clients[c].doing = "holding" /\ clients[c].alive /\ procs[clients[c].proc] = "live" =>
          \/ modes[d] = "stopping"
          \/ Up(d) /\ Present(d, s) /\ servers[d][s].lease = c

(* A server in use is only stopped by a daemon that is told to stop, or    *)
(* that holds it with a lease which ran out: never by the hand-off, by a   *)
(* rollback or by the exit of a daemon that has handed it off.             *)
KeptServerStays ==
  [][\A c \in Client :
       LET p == clients[c].proc
           s == SessionOf[c]
       IN  /\ clients[c].doing = "holding" /\ clients[c].alive
           /\ procs[p] = "live" /\ procs'[p] = "stopped"
           => \E d \in Daemon :
                /\ servers[d][s].kind \in {"owned", "adopted"} /\ servers[d][s].proc = p
                /\ modes[d] = "stopping" \/ servers[d][s].lapsed
                     \/ \E proof \in reaping[d] : proof.proc = p]_vars

(* An app-server that no client uses any more does not run for ever. *)
AbandonedIsReaped ==
  \A p \in Proc : (procs[p] = "live" /\ \A c \in Client : clients[c].proc # p)
                    ~> procs[p] # "live"
=============================================================================
