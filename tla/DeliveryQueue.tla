--------------------------- MODULE DeliveryQueue ----------------------------
(***************************************************************************)
(* What the store promises about the batches of a thread: they are         *)
(* delivered at most once each and one at a time. A batch is exposed once  *)
(* a send may have reached Codex, until Codex is known to have refused it. *)
(* An exposed batch is never queued: it is in flight, or it waits for the  *)
(* operator, for late evidence that it was delivered after all, or for its *)
(* window to close.                                                        *)
(***************************************************************************)
EXTENDS Naturals

CONSTANTS Batch, ThreadOf

VARIABLES status,    \* [Batch -> Status]
          exposed    \* [Batch -> BOOLEAN]

qvars == <<status, exposed>>

Status == {"absent", "queued", "inflight", "manual", "delivered", "dropped"}

QueueInit == /\ status = [b \in Batch |-> "absent"]
             /\ exposed = [b \in Batch |-> FALSE]

Idle(t) == \A b \in Batch : ThreadOf[b] = t => status[b] # "inflight"

Move(b, from, to) == status[b] \in from /\ status' = [status EXCEPT ![b] = to]

Expose(b, e) == exposed' = [exposed EXCEPT ![b] = e]

Enqueue(b) == Move(b, {"absent"}, "queued") /\ UNCHANGED exposed

(* A send, also one made in the step that enqueues the batch. *)
Send(b) == /\ Idle(ThreadOf[b])
           /\ ~exposed[b]
           /\ Move(b, {"absent", "queued"}, "inflight")
           /\ Expose(b, TRUE)

(* Codex refused the turn: it certainly did not start. *)
Refused(b) == \E to \in {"queued", "manual"} : Move(b, {"inflight"}, to) /\ Expose(b, FALSE)

Confirm(b) == Move(b, {"inflight", "manual"}, "delivered") /\ exposed[b] /\ UNCHANGED exposed

(* The operator discards a batch, in flight or not. *)
Discard(b) == Move(b, {"queued", "inflight", "manual"}, "dropped") /\ UNCHANGED exposed

(* On any number of threads at once: a batch is handed over to the operator, *)
(* in flight (its outcome stays unknown) or not; a batch whose window closed *)
(* is dropped, never sent or waiting for the operator.                       *)
Maintain ==
  /\ status' \in [Batch -> Status]
  /\ \A b \in Batch : \/ status'[b] = status[b]
                      \/ status[b] \in {"queued", "inflight"} /\ status'[b] = "manual"
                      \/ status[b] \in {"queued", "manual"} /\ status'[b] = "dropped"
  /\ UNCHANGED exposed

QueueNext == \/ \E b \in Batch : \/ Enqueue(b) \/ Send(b) \/ Refused(b)
                                 \/ Confirm(b) \/ Discard(b)
             \/ Maintain

QueueSpec == QueueInit /\ [][QueueNext]_qvars
=============================================================================
