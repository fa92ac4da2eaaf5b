--------------------------- MODULE BackgroundTask ---------------------------
(***************************************************************************)
(* What cbth promises of a background task: its command runs at most once, *)
(* not after the task was cancelled, and its outcome is decided once, when *)
(* the command is not running; success means that the command ran to its   *)
(* end.                                                                    *)
(***************************************************************************)
CONSTANT Task

VARIABLES
  outcome,    \* [Task -> {"absent", "pending", "completed", "failed"}]
  command,    \* [Task -> {"idle", "running", "stopped"}]
  cancelled   \* the tasks with a cancellation on record

TaskInit == /\ outcome = [t \in Task |-> "absent"]
            /\ command = [t \in Task |-> "idle"]
            /\ cancelled = {}

Submit(t) == /\ outcome[t] = "absent"
             /\ outcome' = [outcome EXCEPT ![t] = "pending"]
             /\ UNCHANGED <<command, cancelled>>

(* The submission is refused after all, before anything ran. *)
Withdraw(t) == /\ outcome[t] = "pending" /\ command[t] = "idle"
               /\ outcome' = [outcome EXCEPT ![t] = "absent"]
               /\ cancelled' = cancelled \ {t}
               /\ UNCHANGED command

Cancel(t) == /\ outcome[t] # "absent"
             /\ cancelled' = cancelled \union {t}
             /\ UNCHANGED <<outcome, command>>

Run(t) == /\ outcome[t] = "pending" /\ command[t] = "idle" /\ t \notin cancelled
          /\ command' = [command EXCEPT ![t] = "running"]
          /\ UNCHANGED <<outcome, cancelled>>

Stop(t) == /\ command[t] = "running"
           /\ command' = [command EXCEPT ![t] = "stopped"]
           /\ UNCHANGED <<outcome, cancelled>>

(* One recovery stops what it finds running. *)
StopAll(S) == /\ \A t \in S : command[t] = "running"
              /\ command' = [t \in Task |-> IF t \in S THEN "stopped" ELSE command[t]]
              /\ UNCHANGED <<outcome, cancelled>>

Complete(t) == /\ outcome[t] = "pending" /\ command[t] = "stopped"
               /\ outcome' = [outcome EXCEPT ![t] = "completed"]
               /\ UNCHANGED <<command, cancelled>>

Fail(t) == /\ outcome[t] = "pending" /\ command[t] # "running"
           /\ outcome' = [outcome EXCEPT ![t] = "failed"]
           /\ UNCHANGED <<command, cancelled>>

TaskNext == \/ \E t \in Task : \/ Submit(t) \/ Withdraw(t) \/ Cancel(t) \/ Run(t)
                               \/ Stop(t) \/ Complete(t) \/ Fail(t)
            \/ \E S \in SUBSET Task : StopAll(S)

TaskSpec == TaskInit /\ [][TaskNext]_<<outcome, command, cancelled>>
=============================================================================
