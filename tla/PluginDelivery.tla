--------------------------- MODULE PluginDelivery ---------------------------
(***************************************************************************)
(* delivery.enqueue, inspect and manualize of the plugin service: how a    *)
(* plugin's connections drive the store's app-server attempts, the daemon's *)
(* lease and the app-server's turn/start, each a step of its own.  The id  *)
(* of an attempt is derived from the idempotency key and an ordinal: here  *)
(* <<batch, ordinal>>, the same for every connection that retries.         *)
(***************************************************************************)
EXTENDS DeliveryStore, PluginLeases

CONSTANTS
  RecoveryTimeout,   \* PLUGIN_DELIVERY_PRE_START_RECOVERY_TIMEOUT_SECONDS
  CallTime           \* bound: ticks from the lease refresh to the turn/start answer

ASSUME PluginTimeAssumption == RecoveryTimeout \in Nat /\ CallTime \in Nat

pluginVars == <<vars, conns, holders, service, server, turns>>

PluginInit == Init /\ ServerInit /\ BrokerInit

(* A delivery, for which the lease was renewed now. *)
Delivers(c, doing, a) ==
  conns' = [conns EXCEPT ![c].doing = doing, ![c].attempt = a, ![c].since = clock]

(* delivery_target: the connection's lease is renewed for the delivery. *)
Targets(c) == /\ conns[c].lease /\ LiveFor(InstanceOf[c])
              /\ Renewed(DeliveryTtl)

-----------------------------------------------------------------------------
(* delivery.enqueue. *)

(* The first request with an idempotency key. *)
EnqueueStarts(c, b) ==
  /\ MayAsk(c) /\ batches[b].state = "absent"
  /\ Targets(c)
  /\ Delivers(c, "enqueueing", <<b, 1>>)
  /\ UNCHANGED <<holders, service, turns, storeVars>>

LastAttempts(b) == {a \in OnBatch(b) : \A c \in OnBatch(b) : c[2] <= a[2]}

(* plugin_delivery_attempt_is_stale_pre_start_accept *)
IsStaleAccept(a) == /\ IsAcceptPending(a, "codex_app_server")
                    /\ attempts[a].started_at + RecoveryTimeout <= clock

(* plugin_delivery_replay_action; when it waits, the replay changes nothing. *)
MayReplay(c, b) == MayAsk(c) /\ IsHead(b) /\ IsAutomatic(b) /\ batches[b].plugin

ReplayStarts(c, b) ==
  LET next == <<b, Cardinality(OnBatch(b)) + 1>>
  IN  /\ MayReplay(c, b) /\ next \in Attempt
      /\ \A a \in LastAttempts(b) : ~Active(a)
      /\ Targets(c)
      /\ Delivers(c, "beginning", next)
      /\ UNCHANGED <<holders, service, turns, storeVars>>

(* ManualizeStaleAccept: a send nobody finished is left to the operator; the *)
(* store looks again at the attempt, so that the two steps are one.          *)
ReplayRecovers(c, b) ==
  /\ MayReplay(c, b)
  /\ \E a \in LastAttempts(b) : IsStaleAccept(a) /\ AbandonAppServerUnknown(a)
  /\ UNCHANGED <<brokerVars, server, turns>>

UnchangedAround == UNCHANGED <<holders, service, server, turns>>

(* The store refuses, or fails, and the request returns its error. *)
GivesUp(c) == Idles(c) /\ UNCHANGED storeVars

(* enqueue_plugin_delivery_with_codex_app_server_attempt_if_head. Behind     *)
(* another batch there is no attempt yet; another connection may have come   *)
(* first.                                                                    *)
EnqueueInserts(c) ==
  LET a == conns[c].attempt
  IN  /\ conns[c].doing = "enqueueing"
      /\ \/ /\ EnqueuePlugin(a[1])
            /\ \A d \in Attempt \ {a} : attempts'[d] = attempts[d]
            /\ IF attempts' = attempts THEN Idles(c) ELSE Does(c, "sending")
         \/ GivesUp(c)
      /\ UnchangedAround

(* A slip for the mutation runs: an attempt that is there is sent again. *)
BeginsOnceMore(c, a) ==
  \/ BeginAppServer(a, a[1])
  \/ attempts[a].state # "absent" /\ UNCHANGED storeVars

(* begin_codex_app_server_accept_pending_attempt_with_created: an attempt    *)
(* that another replay has begun is that one's to send.                      *)
Begins(c, a) == BeginAppServer(a, a[1])

BeginRow(c) ==
  /\ conns[c].doing = "beginning"
  /\ \/ Begins(c, conns[c].attempt) /\ Does(c, "sending")
     \/ GivesUp(c)
  /\ UnchangedAround

-----------------------------------------------------------------------------
(* start_plugin_delivery_attempt, after the attempt was recorded. *)

TurnStarted(c) ==
  /\ conns[c].doing = "sending" /\ LiveFor(InstanceOf[c])
  /\ StartsTurn(conns[c].attempt)
  /\ Does(c, "accepting")
  /\ UNCHANGED <<holders, service, server, storeVars>>

(* No answer in time: nobody knows, the attempt stays pending.               *)
TurnUnanswered(c) ==
  /\ conns[c].doing = "sending"
  /\ \/ LiveFor(InstanceOf[c]) /\ StartsTurn(conns[c].attempt)
     \/ UNCHANGED turns
  /\ Idles(c)
  /\ UNCHANGED <<holders, service, server, storeVars>>

TurnAccepted(c) ==
  /\ conns[c].doing = "accepting"
  /\ \/ AcceptAppServer(conns[c].attempt) /\ Does(c, "leasing")
     \/ GivesUp(c)
  /\ UnchangedAround

(* The lease is renewed for the whole observation window, as a best effort.  *)
LeaseForTurn(c) ==
  /\ conns[c].doing = "leasing"
  /\ \/ LiveFor(InstanceOf[c]) /\ Renewed(DeliveryTtl)
     \/ UNCHANGED server
  /\ Idles(c)
  /\ UNCHANGED <<holders, service, turns, storeVars>>

(* The app-server refuses the turn, as the thread is busy, or is not there:  *)
(* the turn was certainly not started, and only a busy thread is retried.    *)
TurnRejected(c) ==
  /\ conns[c].doing = "sending"
  /\ \/ \E manual \in BOOLEAN : RejectAppServer(conns[c].attempt, manual)
     \/ UNCHANGED storeVars
  /\ Idles(c)
  /\ UnchangedAround

-----------------------------------------------------------------------------
(* delivery.inspect: renew the lease, ask for the turn, record how it ended. *)

(* A turn that ended may have completed or failed; one that was cut failed.  *)
EventsOf(turn) == {"turn_failed"} \union (IF turn = "ended" THEN {"turn_completed"} ELSE {})

(* An end is final, so the answer and its record are one step; a turn that   *)
(* is running, or an answer that cannot be had, records nothing.             *)
Inspects(c, a) ==
  /\ MayAsk(c) /\ IsTracking(a, "codex_app_server")
  /\ Targets(c)
  /\ \/ /\ turns[a] # "running"
        /\ \E event \in EventsOf(turns[a]) : ObserveAppServer(a, event)
     \/ UNCHANGED storeVars
  /\ UNCHANGED <<brokerVars, turns>>

(* delivery.manualize *)
Manualizes(c, b) ==
  /\ MayAsk(c) /\ ManualizePlugin(b)
  /\ UNCHANGED <<conns, holders, service, server, turns>>

-----------------------------------------------------------------------------
LeaseStep(c) ==
  \/ EnsureStarts(c) \/ EnsureAsks(c) \/ EnsureEnds(c) \/ EnsureFails(c)
  \/ RefreshLease(c) \/ StopStarts(c) \/ StopAsks(c)
  \/ Disconnect(c)

EnqueueStep(c) ==
  \/ \E b \in Batch : EnqueueStarts(c, b) \/ ReplayStarts(c, b) \/ ReplayRecovers(c, b)
  \/ EnqueueInserts(c) \/ BeginRow(c)
  \/ TurnStarted(c) \/ TurnUnanswered(c)
  \/ TurnAccepted(c) \/ LeaseForTurn(c) \/ TurnRejected(c)

InspectStep(c) ==
  \/ \E a \in Attempt : Inspects(c, a)
  \/ \E b \in Batch : Manualizes(c, b)

ServiceStep ==
  \/ PluginRestarts \/ Drain \/ ServiceEnds \/ ServiceStarts
  \/ \E i \in Instance : DrainChecks(i) \/ DrainStops(i)

(* The daemon's reaper, and the app-server itself. *)
ServerStep ==
  /\ \/ ReapServer \/ ServerExits \/ \E a \in Attempt : TurnEnds(a)
  /\ UNCHANGED <<brokerVars, storeVars>>

(* The maintenance sweep, the operator, and time: turn/start and what leads  *)
(* to it have timeouts, so does the refresh that follows an acceptance.      *)
StoreStep ==
  /\ \/ Sweep
     \/ /\ \A c \in Conn : conns[c].doing \in {"enqueueing", "beginning", "sending", "accepting", "leasing"}
                            => clock < conns[c].since + CallTime
        /\ Tick
  /\ UNCHANGED <<conns, holders, service, server, turns>>

PluginNext == \/ \E c \in Conn : LeaseStep(c) \/ EnqueueStep(c) \/ InspectStep(c)
              \/ ServiceStep \/ ServerStep \/ StoreStep

PluginSpec == PluginInit /\ [][PluginNext]_pluginVars

-----------------------------------------------------------------------------
(* However often and through however many connections, instances and service *)
(* processes a delivery is asked for, at most one turn is started for it.    *)
OneTurnPerDelivery ==
  /\ \A a \in Attempt : turns[a] # "repeated"
  /\ \A a, d \in Attempt :
       turns[a] # "none" /\ turns[d] # "none" /\ a[1] = d[1] => a = d

Watched(a) == IsTracking(a, "codex_app_server") /\ clock < attempts[a].deadline

(* While a delivered turn is observed, cbth does not take its app-server     *)
(* away: closing connections leave it, and the lease lasts long enough,      *)
(* unless the plugin itself asked for a shorter one.                         *)
WatchedTurnRuns == \A a \in Attempt : Watched(a) => turns[a] # "cut"

(* A connection that was given a lease keeps the app-server until it lets go *)
(* of it itself, whatever the other connections of its plugin do.            *)
Holds(c) == conns[c].lease /\ conns[c].doing \notin {"ensuring", "refused", "unfollowed"}

HolderKeepsServer ==
  [][ server.state = "live" /\ server'.state = "stopped" /\ service.phase = "running" =>
        \A c \in Conn : Holds(c) /\ InstanceOf[c] = server.lease => conns'[c] # conns[c] ]_pluginVars
=============================================================================
