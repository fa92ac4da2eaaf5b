---------------------------- MODULE PluginLeases ----------------------------
(***************************************************************************)
(* The broker of the plugin service (src/service.rs) for app-server        *)
(* leases.  A plugin instance opens any number of connections, each served *)
(* by a thread, one request after the other; the connections that hold a   *)
(* lease share one entry of a registry behind a lock, and only the last    *)
(* holder's release stops the app-server at the daemon.                    *)
(*                                                                         *)
(* There is one lease id here, so a plugin instance stands for its lease   *)
(* key, and all leases target the same managed session and epoch.          *)
(***************************************************************************)
EXTENDS PluginAppServer

CONSTANTS
  Conn,           \* connection threads of the service
  InstanceOf      \* [Conn -> Instance], the plugin instance at the other end

ASSUME ConnAssumption == InstanceOf \in [Conn -> Instance]

VARIABLES
  conns,     \* [Conn -> ConnRecord]
  holders,   \* [Instance -> SUBSET Conn]: the registry; no entry is no holder
  service    \* the service process, and the plugin instance it supervises

brokerVars == <<conns, holders, service>>
storeVars == <<batches, attempts, sessions, clock>>

Busy == {"ensuring", "ensured", "refused", "unfollowed", "stopping",
         "enqueueing", "beginning", "sending", "accepting", "leasing"}

NoCall == <<0, 0>>

ConnRecord ==
  [ doing   : Busy \union {"idle"},
    lease   : BOOLEAN,   \* the connection's own map has the lease
    joined  : BOOLEAN,   \* pre_registered_holder of the ensure under way
    attempt : Attempt \union {NoCall},
    since   : Nat ]      \* when the delivery under way refreshed the lease

(* phase running; draining: the registry was drained into drained, of which *)
(* checked were found without an active delivery; down: no process.         *)
ServiceRecord ==
  [ phase   : {"running", "draining", "down"},
    current : 1 .. LastInstance + 1,
    drained : SUBSET Instance,
    checked : SUBSET Instance ]

FreshConn == [doing |-> "idle", lease |-> FALSE, joined |-> FALSE, attempt |-> NoCall, since |-> 0]

BrokerInit ==
  /\ conns = [c \in Conn |-> FreshConn]
  /\ holders = [i \in Instance |-> {}]
  /\ service = [phase |-> "running", current |-> 1, drained |-> {}, checked |-> {}]

Does(c, doing) == conns' = [conns EXCEPT ![c].doing = doing]
Idles(c) == conns' = [conns EXCEPT ![c] = [FreshConn EXCEPT !.lease = conns[c].lease]]
Drops(c) == conns' = [conns EXCEPT ![c] = FreshConn]

(* validate_current_plugin_connection, once at the start of a request: after *)
(* the hello a connection without a lease has no state, so it is as good as  *)
(* a new one.                                                                *)
MayAsk(c) == /\ service.phase = "running" /\ conns[c].doing = "idle"
             /\ InstanceOf[c] = service.current

(* has_active_codex_app_server_delivery_for_target *)
ActiveDelivery ==
  \E a \in Attempt : /\ attempts[a].adapter = "codex_app_server"
                     /\ Active(a) /\ IsOpen(attempts[a].batch)

(* What takes the app-server away, in service or while it shuts down. *)
By(fate) == IF service.phase = "running" THEN fate ELSE "lost"

-----------------------------------------------------------------------------
(* app_server.ensure. *)

(* A slip for the mutation runs: the holder is only registered at the end. *)
JoinLater(c) == holders' = holders

(* register_connection_lease before the daemon is asked. *)
Join(c) == holders' = [holders EXCEPT ![InstanceOf[c]] = @ \union {c}]

EnsureStarts(c) ==
  /\ MayAsk(c)
  /\ conns' = [conns EXCEPT ![c].doing = "ensuring", ![c].lease = TRUE,
                            ![c].joined = ~conns[c].lease]
  /\ IF conns[c].lease THEN UNCHANGED holders ELSE Join(c)
  /\ UNCHANGED <<service, server, turns, storeVars>>

(* The request at the daemon, with the reservation it may ask for and the   *)
(* redirect it may return: refused, done but the answer lost, or done.      *)
EnsureAsks(c) ==
  LET i == InstanceOf[c]
  IN  /\ conns[c].doing = "ensuring"
      /\ \/ Does(c, "refused") /\ UNCHANGED server
         \/ /\ CanEnsure(i)
            /\ \E ttl \in PluginTtls : Ensured(i, ttl)
            /\ \/ Does(c, "refused")
               \/ Does(c, "ensured")
               \/ Does(c, "unfollowed")
      /\ UNCHANGED <<holders, service, turns, storeVars>>

EnsureEnds(c) ==
  /\ conns[c].doing = "ensured"
  /\ Idles(c)
  /\ holders' = [holders EXCEPT ![InstanceOf[c]] = @ \union {c}]
  /\ UNCHANGED <<service, server, turns, storeVars>>

(* rollback_preregistered_lease_after_failed_ensure, under the registry's   *)
(* lock: the last holder stops what the daemon had accepted.                *)
EnsureFails(c) ==
  LET i == InstanceOf[c]
      others == holders[i] \ {c}
  IN  /\ conns[c].doing \in {"refused", "unfollowed"}
      /\ IF conns[c].joined
         THEN /\ Drops(c)
              /\ holders' = [holders EXCEPT ![i] = others]
              /\ IF others = {} /\ conns[c].doing = "unfollowed"
                 THEN StoppedAtBest(i, By("undone")) ELSE UNCHANGED <<server, turns>>
         ELSE Idles(c) /\ UNCHANGED <<holders, server, turns>>
      /\ UNCHANGED <<service, storeVars>>

-----------------------------------------------------------------------------
(* app_server.refresh *)
RefreshLease(c) ==
  /\ MayAsk(c) /\ conns[c].lease /\ LiveFor(InstanceOf[c])
  /\ \E ttl \in PluginTtls : Renewed(ttl)
  /\ UNCHANGED <<brokerVars, turns, storeVars>>

(* app_server.stop looks for active deliveries before it takes the lock. *)
StopStarts(c) ==
  /\ MayAsk(c) /\ conns[c].lease /\ ~ActiveDelivery
  /\ Does(c, "stopping")
  /\ UNCHANGED <<holders, service, server, turns, storeVars>>

IsLastHolder(c) == holders[InstanceOf[c]] \ {c} = {}

(* Under the lock: another holder keeps the app-server; the last one stops  *)
(* it at the daemon, and keeps its lease if that request fails.             *)
StopAsks(c) ==
  LET i == InstanceOf[c]
  IN  /\ conns[c].doing = "stopping"
      /\ \/ /\ ~IsLastHolder(c)
            /\ holders' = [holders EXCEPT ![i] = @ \ {c}]
            /\ Drops(c)
            /\ UNCHANGED <<server, turns>>
         \/ /\ IsLastHolder(c)
            /\ StoppedFor(i, By("stopped"))
            /\ holders' = [holders EXCEPT ![i] = {}]
            /\ Drops(c)
         \/ /\ IsLastHolder(c)
            /\ StoppedAtBest(i, By("stopped"))
            /\ Idles(c) /\ UNCHANGED holders
      /\ UNCHANGED <<service, storeVars>>

-----------------------------------------------------------------------------
(* Connections. *)

(* A slip for the mutation runs: the last holder always stops the server. *)
ReleasedAnyway(i) == StoppedAtBest(i, By("cut"))

(* The last holder is gone: a delivery under way leaves the app-server to   *)
(* the end of its lease.  Under the lock and with no other holder nothing   *)
(* begins between the look and the stop.                                    *)
Released(i) == IF ActiveDelivery THEN UNCHANGED <<server, turns>> ELSE StoppedAtBest(i, By("cut"))

(* The peer closes: cleanup_connection_leases, under the registry's lock.   *)
Disconnect(c) ==
  LET i == InstanceOf[c]
      others == holders[i] \ {c}
  IN  /\ conns[c].doing = "idle" /\ conns[c].lease
      /\ Drops(c)
      /\ holders' = [holders EXCEPT ![i] = others]
      /\ IF others = {} THEN Released(i) ELSE UNCHANGED <<server, turns>>
      /\ UNCHANGED <<service, storeVars>>

(* The plugin process ends and the supervisor starts the next instance. *)
PluginRestarts ==
  /\ service.phase = "running" /\ service.current <= LastInstance
  /\ service' = [service EXCEPT !.current = @ + 1]
  /\ UNCHANGED <<conns, holders, server, turns, storeVars>>

-----------------------------------------------------------------------------
(* The end of the service. *)

(* cleanup_all_plugin_app_server_leases, after the plugins were terminated:  *)
(* the registry is drained under the lock ...                                *)
Drain ==
  /\ service.phase = "running"
  /\ service' = [ phase |-> "draining", checked |-> {},
                  current |-> IF service.current > LastInstance THEN service.current
                              ELSE service.current + 1,
                  drained |-> {i \in Instance : holders[i] # {}} ]
  /\ holders' = [i \in Instance |-> {}]
  /\ UNCHANGED <<conns, server, turns, storeVars>>

(* ... and each lease is looked at, then stopped, without it. *)
DrainChecks(i) ==
  /\ service.phase = "draining" /\ i \in service.drained
  /\ service' = [service EXCEPT !.drained = @ \ {i},
                                !.checked = IF ActiveDelivery THEN @ ELSE @ \union {i}]
  /\ UNCHANGED <<conns, holders, server, turns, storeVars>>

DrainStops(i) ==
  /\ service.phase = "draining" /\ i \in service.checked
  /\ service' = [service EXCEPT !.checked = @ \ {i}]
  /\ StoppedAtBest(i, "lost")
  /\ UNCHANGED <<conns, holders, storeVars>>

(* The process ends, after the clean-up or by a crash. *)
ServiceEnds ==
  /\ service.phase # "down"
  /\ service' = [service EXCEPT !.phase = "down", !.drained = {}, !.checked = {}]
  /\ conns' = [c \in Conn |-> FreshConn]
  /\ holders' = [i \in Instance |-> {}]
  /\ UNCHANGED <<server, turns, storeVars>>

(* reconcile_persisted_plugin_process: a plugin that outlived the service   *)
(* is not served again, only a new instance is.                             *)
ServiceStarts ==
  /\ service.phase = "down" /\ service.current <= LastInstance
  /\ service' = [service EXCEPT !.phase = "running", !.current = @ + 1]
  /\ UNCHANGED <<conns, holders, server, turns, storeVars>>
=============================================================================
