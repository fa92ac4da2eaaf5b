----------------------------- MODULE BatchQueue -----------------------------
(***************************************************************************)
(* What enters and leaves the per-thread queue of batches: a job that ends *)
(* enqueues one, a plugin enqueues one (and may start delivering it in the *)
(* same transaction), an operator closes the head of a thread, and the     *)
(* plugin service hands a batch over to the operator.                      *)
(***************************************************************************)
EXTENDS DeliveryState

CONSTANT PluginBatch    \* the batch ids plugins use (drawn before their transaction)

ASSUME PluginBatchAssumption == PluginBatch \subseteq Batch

NewBatch(plugin, detachable, created_at, max) ==
  [ state |-> "open", plugin |-> plugin, detachable |-> detachable, policy |-> "automatic",
    created_at |-> created_at, window_ends_at |-> created_at + RedeliveryWindow,
    attempt_count |-> 0, max_attempts |-> max, close_reason |-> "none" ]

NewAppServerAttempt(b, g, at) ==
  [ state |-> "accept_pending", batch |-> b, adapter |-> "codex_app_server",
    auth |-> "trusted_all", generation |-> g, rpc |-> "pending_acceptance", obs |-> "none",
    event |-> "none", started_at |-> at, deadline |-> 0, session |-> NoSession, epoch |-> 0 ]

(* A job's batch id is a UUIDv7 drawn inside the write transaction, so it    *)
(* sorts after the ids of the batches already there; its created_at need not *)
(* be the latest: it is the `now` the caller read before copying the         *)
(* artifact.                                                                 *)
EnqueueJobBatch(b, detachable, at) ==
  /\ b \notin PluginBatch
  /\ batches[b].state = "absent"
  /\ \A c \in Batch : batches[c].state # "absent" => c < b
  /\ \E max \in Budgets : batches' = [batches EXCEPT ![b] = NewBatch(FALSE, detachable, at, max)]
  /\ UNCHANGED <<attempts, sessions, clock>>

(* complete_job and fail_job_with_artifact: the payload needs an artifact    *)
(* read, so strict_safe delivery is never allowed.                           *)
CompleteJob(b) == \E at \in Recent : EnqueueJobBatch(b, FALSE, at)

(* fail_job: no artifact; detachable when the job's delivery policy is read-only. *)
FailJob(b) ==
  \E at \in Recent, detachable \in ReadOnlyPolicies : EnqueueJobBatch(b, detachable, at)

(* plugin_delivery_batch_created_at_tx: never before an open batch of the thread. *)
IsPluginCreatedAt(t, b, at) ==
  LET open == {batches[c].created_at : c \in {d \in Batch : IsOpen(d) /\ ThreadOf[d] = ThreadOf[b]}}
  IN  \/ t = at /\ \A u \in open : u < at
      \/ \E u \in open : /\ u >= at /\ t = u + 1
                         /\ \A v \in open : v <= u

(* enqueue_plugin_delivery_with_codex_app_server_attempt_if_head. The new     *)
(* batch sorts after every open batch of its thread, so it is the head when   *)
(* there is none. A replay of the same idempotency key returns the row as it  *)
(* is: a stuttering step.                                                     *)
EnqueuePlugin(b) ==
  /\ b \in PluginBatch
  /\ batches[b].state = "absent"
  /\ \E at \in Recent, max \in Budgets \ {0} :
     \E t \in {at} \union {batches[c].created_at + 1 : c \in Batch} :
       /\ IsPluginCreatedAt(t, b, at)
       /\ batches' = [batches EXCEPT ![b] = NewBatch(TRUE, FALSE, t, max)]
       /\ IF \E c \in Batch : IsOpen(c) /\ ThreadOf[c] = ThreadOf[b]
          THEN attempts' = attempts
          ELSE /\ t + RedeliveryWindow > at
               /\ NoActiveOnThread(ThreadOf[b])
               /\ \E a \in Attempt :
                    /\ attempts[a].state = "absent"
                    /\ attempts' = [attempts EXCEPT ![a] = NewAppServerAttempt(b, 1, at)]
  /\ UNCHANGED <<sessions, clock>>

(* close_head: the operator closes the oldest open batch of a thread. *)
CloseHead(b) == /\ IsHead(b)
                /\ CloseBatch(b, "operator")
                /\ UNCHANGED clock

(* What manualize_plugin_delivery makes of an active attempt. *)
TakenOver(r) ==
  [r EXCEPT !.state = "abandoned",
            !.rpc = IF @ # "pending_acceptance" THEN @
                    ELSE IF r.adapter = "codex_app_server" THEN "unknown"
                    ELSE "rejected_before_accept",
            !.obs = IF @ = "tracking" THEN "abandoned" ELSE @]

(* manualize_plugin_delivery: the plugin service only calls it for a batch   *)
(* of a plugin.                                                              *)
ManualizePlugin(b) ==
  /\ IsOpen(b) /\ batches[b].plugin
  /\ \E at \in Recent : batches' = Manualized(batches, {b}, at)
  /\ attempts' = [a \in Attempt |-> IF a \in ActiveOn(b) THEN TakenOver(attempts[a])
                                                         ELSE attempts[a]]
  /\ UNCHANGED <<sessions, clock>>
=============================================================================
