----------------------------- MODULE DesktopArm -----------------------------
(***************************************************************************)
(* The durable side of the Desktop bridge (src/store.rs): installation     *)
(* state, the binding of one source thread to its caller automation, the   *)
(* thread's open batches, and the two transitions of a Desktop attempt,    *)
(* prepared -> arm_pending -> cooldown, each a compare-and-set in one      *)
(* transaction.  All batches here are automatic, safe for Desktop and not  *)
(* a plugin's; CLI attempts (module CliDelivery) appear only as far as     *)
(* they occupy the thread and use up its budget.                           *)
(*                                                                         *)
(* bridge_arm_lease_id is drawn once per attempt, so an attempt stands for *)
(* its lease; DESKTOP_BRIDGE_ARM_LEASE_TTL_SECONDS equals                  *)
(* DESKTOP_ARM_PENDING_TIMEOUT_SECONDS, so one deadline stands for both.   *)
(***************************************************************************)
EXTENDS Naturals, FiniteSets, Sequences

CONSTANTS
  Batch,         \* batches of the thread, numbered in order of created_at
  MaxDeliveries, \* max_delivery_attempts
  WindowEnds,    \* redelivery_window_ends_at
  LeaseTtl,      \* DESKTOP_BRIDGE_ARM_LEASE_TTL_SECONDS
  Caller,        \* caller automations
  Fingerprint,   \* fingerprints of helper binaries, numbered
  MaxTime,          \* bound on the clock
  MaxAttempts,      \* bound on the attempts of the thread
  MaxInstallations  \* bound on the generations of the installation state

ASSUME ArmAssumption ==
  /\ Batch \subseteq Nat \ {0}
  /\ {MaxDeliveries, WindowEnds, LeaseTtl} \subseteq Nat \ {0}
  /\ Fingerprint \subseteq Nat \ {0} /\ 1 \in Fingerprint
  /\ {MaxTime, MaxAttempts, MaxInstallations} \subseteq Nat

VARIABLES
  batches,   \* [Batch -> [open, count]]
  attempts,  \* Seq of attempts, in order of creation
  binding,   \* the thread's row of desktop_bindings
  installation,  \* the desktop_installation_state singleton
  helper,    \* fingerprint of the installed cbth binary
  clock

armVars == <<batches, attempts, binding, installation, helper, clock>>

Time == 0 .. MaxTime
NoRequest == 0

(* The clock, an attempt's batch and its place in the sequence give the rest *)
(* of the row.  counted is history: whether the attempt was charged to its   *)
(* batch.                                                                    *)
AttemptRecord ==
  [ adapter : {"desktop", "cli"}, batch : Batch, generation : Nat \ {0},
    state : {"prepared", "accept_pending", "arm_pending", "cooldown", "abandoned", "closed"},
    request : Nat, deadline : Nat, counted : BOOLEAN ]

(* fingerprints[g] is validation_fingerprint in read_transport_generation g. *)
InstallationRecord == [fingerprints : Seq(Fingerprint), validated : BOOLEAN]

BindingRecord ==
  [ state : {"bound", "degraded"}, caller : Caller, transport : Nat \ {0},
    armed_generation : Nat ]    \* 0 is NULL; never quiesced once set

(* An operator has repaired the installation state and bound the thread.   *)
ArmInit ==
  /\ batches = [b \in Batch |-> [open |-> TRUE, count |-> 0]]
  /\ attempts = << >>
  /\ installation = [fingerprints |-> <<1>>, validated |-> TRUE]
  /\ binding \in [state : {"bound"}, caller : Caller, transport : {1}, armed_generation : {0}]
  /\ helper = 1
  /\ clock = 0

Attempt == DOMAIN attempts
ActiveStates == {"prepared", "accept_pending", "arm_pending", "cooldown"}

IsHead(b) == batches[b].open /\ \A c \in Batch : batches[c].open => b <= c
HasBudget(b) == batches[b].count < MaxDeliveries
Active(a) == attempts[a].state \in ActiveStates /\ batches[attempts[a].batch].open
Generations(b) == {attempts[a].generation : a \in {x \in Attempt : attempts[x].batch = b}}
NextGeneration(b) == 1 + Cardinality(Generations(b))
IsCurrent(a) == attempts[a].generation = Cardinality(Generations(attempts[a].batch))

Bound == binding.state = "bound"
BoundTo == <<binding.caller, binding.transport>>
Quiesced == binding.armed_generation = 0

(* A slip for the mutation runs: the other adapter's attempts are not      *)
(* looked at.                                                              *)
DesktopIdle == \A a \in Attempt : Active(a) => attempts[a].adapter # "desktop"

Idle == \A a \in Attempt : ~Active(a)
OnlyActive(a) == \A x \in Attempt \ {a} : ~Active(x)

(***************************************************************************)
(* note_desktop_arm_pending_tx and note_desktop_arm_tx.  A call ends with  *)
(* "done", with "failed" when it found the lease or the window over (the   *)
(* attempt is abandoned and the transaction commits), or with "refused",   *)
(* which leaves everything as it was.                                      *)
(***************************************************************************)
Outcome == {"done", "failed", "refused"}

Eligible(a) == IsHead(attempts[a].batch) /\ IsCurrent(a)

IsPendingFor(a, r) == attempts[a].state = "arm_pending" /\ attempts[a].request = r
Lapsed(a, now) == attempts[a].deadline <= now \/ WindowEnds <= now

(* The generation is counted per batch, and it is all that ties the        *)
(* binding's armed_generation to the attempt that is asked about.          *)
AlreadyArmed(a, r) ==
  /\ Bound
  /\ attempts[a].state \in {"cooldown", "closed"}
  /\ attempts[a].request = r
  /\ binding.armed_generation = attempts[a].generation

MayPend(a, now) ==
  /\ Bound /\ Quiesced
  /\ attempts[a].state = "prepared"
  /\ Eligible(a) /\ OnlyActive(a) /\ HasBudget(attempts[a].batch)
  /\ now < WindowEnds

Repends(a, r, now) == Bound /\ IsPendingFor(a, r) /\ ~Lapsed(a, now)
PendLapses(a, r, now) == Bound /\ IsPendingFor(a, r) /\ Lapsed(a, now)

MayArm(a, r, now) ==
  /\ Bound /\ IsPendingFor(a, r) /\ Eligible(a)
  /\ HasBudget(attempts[a].batch) /\ ~Lapsed(a, now)

ArmLapses(a, r, now) ==
  /\ Bound /\ IsPendingFor(a, r) /\ Eligible(a)
  /\ attempts[a].deadline <= now \/ (HasBudget(attempts[a].batch) /\ WindowEnds <= now)

SetState(a, state) == attempts' = [attempts EXCEPT ![a].state = state]

Pends(a, r, now) ==
  attempts' = [attempts EXCEPT ![a].state = "arm_pending", ![a].request = r,
                               ![a].deadline = now + LeaseTtl]

Arms(a) ==
  /\ attempts' = [attempts EXCEPT ![a].state = "cooldown", ![a].counted = TRUE]
  /\ batches' = [batches EXCEPT ![attempts[a].batch].count = @ + 1]
  /\ binding' = [binding EXCEPT !.armed_generation = attempts[a].generation]

NotesArmPending(a, r, now, outcome) ==
  /\ \/ outcome = "done" /\ MayPend(a, now) /\ Pends(a, r, now)
     \/ /\ outcome = "done"
        /\ AlreadyArmed(a, r) \/ Repends(a, r, now)
        /\ UNCHANGED attempts
     \/ outcome = "failed" /\ PendLapses(a, r, now) /\ SetState(a, "abandoned")
     \/ /\ outcome = "refused"
        /\ ~MayPend(a, now) /\ ~AlreadyArmed(a, r)
        /\ ~(Bound /\ IsPendingFor(a, r))
        /\ UNCHANGED attempts
  /\ UNCHANGED <<batches, binding>>

(* A slip for the mutation runs: a repeated call counts once more.         *)
NotesArmAnew(a, r, now, outcome) ==
  /\ outcome = "done"
  /\ MayArm(a, r, now) \/ (AlreadyArmed(a, r) /\ attempts[a].state = "cooldown")
  /\ Arms(a)

NotesArm(a, r, now, outcome) ==
  \/ outcome = "done" /\ MayArm(a, r, now) /\ Arms(a)
  \/ /\ outcome = "done" /\ AlreadyArmed(a, r)
     /\ UNCHANGED <<attempts, batches, binding>>
  \/ /\ outcome = "failed" /\ ArmLapses(a, r, now) /\ SetState(a, "abandoned")
     /\ UNCHANGED <<batches, binding>>
  \/ /\ outcome = "refused"
     /\ ~MayArm(a, r, now) /\ ~AlreadyArmed(a, r) /\ ~ArmLapses(a, r, now)
     /\ UNCHANGED <<attempts, batches, binding>>

(***************************************************************************)
(* Operators and the other adapter.                                        *)
(***************************************************************************)
Generation == Len(installation.fingerprints)

RepairInstallation(fingerprint, validated) ==
  /\ Generation < MaxInstallations
  /\ \/ fingerprint # installation.fingerprints[Generation]
     \/ validated # installation.validated
  /\ installation' = [fingerprints |-> Append(installation.fingerprints, fingerprint),
                      validated |-> validated]
  /\ binding' = [binding EXCEPT !.state = "degraded"]
  /\ UNCHANGED <<batches, attempts, helper, clock>>

RepairBinding(caller) ==
  /\ binding' = [binding EXCEPT !.state = "bound", !.caller = caller, !.transport = Generation]
  /\ UNCHANGED <<batches, attempts, installation, helper, clock>>

Upgrade(fingerprint) ==
  /\ helper' = fingerprint
  /\ UNCHANGED <<batches, attempts, binding, installation, clock>>

CloseHead ==
  \E b \in Batch :
    /\ IsHead(b)
    /\ batches' = [batches EXCEPT ![b].open = FALSE]
    /\ attempts' = [a \in Attempt |->
         IF attempts[a].batch = b /\ attempts[a].state \in ActiveStates
         THEN [attempts[a] EXCEPT !.state = "closed"] ELSE attempts[a]]
    /\ UNCHANGED <<binding, installation, helper, clock>>

FreshAttempt(b, adapter, state) ==
  [ adapter |-> adapter, batch |-> b, generation |-> NextGeneration(b), state |-> state,
    request |-> NoRequest, deadline |-> 0, counted |-> FALSE ]

CliBegins ==
  \E b \in Batch :
    /\ Len(attempts) < MaxAttempts
    /\ IsHead(b) /\ HasBudget(b)
    /\ Idle
    /\ attempts' = Append(attempts, FreshAttempt(b, "cli", "accept_pending"))
    /\ UNCHANGED <<batches, binding, installation, helper, clock>>

CliAccepted ==
  \E a \in Attempt :
    /\ Active(a) /\ attempts[a].state = "accept_pending"
    /\ attempts' = [attempts EXCEPT ![a].state = "cooldown", ![a].counted = TRUE]
    /\ batches' = [batches EXCEPT ![attempts[a].batch].count = @ + 1]
    /\ UNCHANGED <<binding, installation, helper, clock>>

CliEnds ==
  \E a \in Attempt :
    /\ Active(a) /\ attempts[a].adapter = "cli"
    /\ SetState(a, "abandoned")
    /\ UNCHANGED <<batches, binding, installation, helper, clock>>

(* The sweep first abandons what is over, then closes the batches whose    *)
(* window has ended and which are left without an attempt.                 *)
Swept(now) ==
  [a \in Attempt |->
     IF /\ Active(a)
        /\ \/ attempts[a].state = "prepared" /\ WindowEnds <= now
           \/ attempts[a].state = "arm_pending" /\ Lapsed(a, now)
     THEN [attempts[a] EXCEPT !.state = "abandoned"] ELSE attempts[a]]

SweepAt(now) ==
  /\ attempts' = Swept(now)
  /\ batches' = [b \in Batch |-> [batches[b] EXCEPT !.open =
       @ /\ (now < WindowEnds \/ \E a \in Attempt :
               Swept(now)[a].batch = b /\ Swept(now)[a].state \in ActiveStates)]]

(* The daemon's maintenance thread.                                        *)
Sweeps ==
  /\ SweepAt(clock)
  /\ UNCHANGED <<binding, installation, helper, clock>>

Tick ==
  /\ clock < MaxTime
  /\ clock' = clock + 1
  /\ UNCHANGED <<batches, attempts, binding, installation, helper>>

=============================================================================
