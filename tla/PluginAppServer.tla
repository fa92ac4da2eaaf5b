-------------------------- MODULE PluginAppServer ---------------------------
(***************************************************************************)
(* The app-server a plugin delivers to, as the plugin service sees it: the *)
(* daemon keeps at most one for a managed session, under one lease with an *)
(* expiry time, and stops it when asked by the lease or when the lease has *)
(* run out; the app-server runs the turns it is sent.  What happens inside *)
(* the daemon is module AppServers.                                        *)
(***************************************************************************)
EXTENDS AppServerDelivery

CONSTANTS
  LastInstance,   \* bound: plugin instances 1 .. LastInstance are ever started
  DeliveryTtl,    \* PLUGIN_DELIVERY_APP_SERVER_LEASE_TTL_SECONDS
  PluginTtls      \* the lease_ttl_seconds that plugins ask for

(* The id of an attempt names its batch; the bound leaves each a first one.  *)
ASSUME PluginAssumption == /\ LastInstance \in Nat
                           /\ DeliveryTtl \in Nat /\ PluginTtls \subseteq Nat
                           /\ Attempt \subseteq Batch \X Nat
                           /\ \A b \in Batch : <<b, 1>> \in Attempt

VARIABLES
  server,   \* the managed session's entry in the daemon's registry
  turns     \* [Attempt -> what became of the turn of its turn/start]

Instance == 1 .. LastInstance

(* stopped: by request; gone: not there, or ended in any other way. *)
ServerRecord ==
  [ state   : {"gone", "live", "stopped"},
    lease   : Instance \union {0},   \* whose scoped lease id it is
    expires : Nat,
    short   : BOOLEAN ]   \* ghost: the plugin itself asked for less than DeliveryTtl

(* How a turn lost its app-server, stopped: by a plugin's app_server.stop;   *)
(* undone: by an app_server.ensure that failed; lapsed: by the end of a      *)
(* lease the plugin had asked for; cut: by anything else cbth did in         *)
(* service; lost: it died, or went with the service.                         *)
TurnStates ==
  {"none", "running", "ended", "stopped", "undone", "lapsed", "cut", "lost", "repeated"}

NoServer == [state |-> "gone", lease |-> 0, expires |-> 0, short |-> FALSE]

ServerInit == /\ server = NoServer
              /\ turns = [a \in Attempt |-> "none"]

LiveFor(i) == server.state = "live" /\ server.lease = i

(* ensure_cli_app_server: an app-server alive under another lease refuses.   *)
CanEnsure(i) == server.state = "live" => server.lease = i
Ensured(i, ttl) ==
  server' = [ state |-> "live", lease |-> i, expires |-> clock + ttl, short |-> ttl < DeliveryTtl ]

(* refresh_cli_app_server_lease sets the expiry, it does not only extend it. *)
Renewed(ttl) == server' = [server EXCEPT !.expires = clock + ttl, !.short = ttl < DeliveryTtl]

Ends(state, turn) ==
  /\ server' = [NoServer EXCEPT !.state = state]
  /\ turns' = [a \in Attempt |-> IF turns[a] = "running" THEN turn ELSE turns[a]]

(* stop_cli_app_server, which may also find nothing to stop. *)
StoppedFor(i, turn) ==
  IF LiveFor(i) THEN Ends("stopped", turn) ELSE UNCHANGED <<server, turns>>

(* A best-effort stop: the request may be lost. *)
StoppedAtBest(i, turn) == StoppedFor(i, turn) \/ UNCHANGED <<server, turns>>

(* reap_expired_cli_app_servers *)
ReapServer == /\ server.state = "live" /\ server.expires <= clock
              /\ Ends("gone", IF server.short THEN "lapsed" ELSE "cut")

ServerExits == server.state = "live" /\ Ends("gone", "lost")

(* turn/start reaches the app-server, which starts a turn. *)
StartsTurn(a) ==
  turns' = [turns EXCEPT ![a] = IF @ = "none" THEN "running" ELSE "repeated"]

TurnEnds(a) ==
  /\ turns[a] = "running"
  /\ turns' = [turns EXCEPT ![a] = "ended"]
  /\ UNCHANGED server
=============================================================================
