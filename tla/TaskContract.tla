----------------------------- MODULE TaskContract -----------------------------
(***************************************************************************)
(* What a delegated task promises the operator who confirmed it, without   *)
(* saying how: one attempt in the air at a time and no more of them than   *)
(* the budget allows; an attempt that an executor runs is on record as     *)
(* dispatched, and is not withdrawn while it runs; what is recorded of a   *)
(* settled attempt stays; the task reports the verified attempts, no more  *)
(* and no fewer, and says completed only when they reach its goal.         *)
(*                                                                         *)
(* Implemented by DelegatedTask (src/src/delegated-task): the claims,      *)
(* leases, ticks and crashes of that module are how.                       *)
(***************************************************************************)
EXTENDS Naturals

CONSTANTS
    Tasks,
    Numbers,    \* the ordinals of the attempts of a task
    Goal,       \* target_success_count
    Budget      \* max_attempts

VARIABLES
    attempt,    \* the attempts of each task, by ordinal
    running,    \* the attempts an executor runs: pairs of task and ordinal
    verified,   \* success_count
    spent,      \* attempt_count
    completed   \* tasks that say completed

contract == <<attempt, running, verified, spent, completed>>

InAir(t) == {n \in Numbers[t] : attempt[t][n] \in {"prepared", "dispatched"}}

Init ==
    /\ attempt = [t \in Tasks |-> [n \in Numbers[t] |-> "none"]]
    /\ running = {} /\ completed = {}
    /\ verified = [t \in Tasks |-> 0] /\ spent = [t \in Tasks |-> 0]

Prepare(t, n) ==
    /\ InAir(t) = {} /\ attempt[t][n] = "none"
    /\ attempt' = [attempt EXCEPT ![t][n] = "prepared"]
    /\ UNCHANGED <<running, verified, spent, completed>>

\* Counted before anything reaches the platform.
Dispatch(t, n) ==
    /\ attempt[t][n] = "prepared" /\ spent[t] < Budget[t]
    /\ attempt' = [attempt EXCEPT ![t][n] = "dispatched"]
    /\ spent' = [spent EXCEPT ![t] = @ + 1]
    /\ UNCHANGED <<running, verified, completed>>

Run(t, n) ==
    /\ attempt[t][n] \notin {"none", "prepared"}
    /\ running' = running \cup {<<t, n>>}
    /\ UNCHANGED <<attempt, verified, spent, completed>>

\* An executor answers, or all of them are lost in a crash.
Stop ==
    /\ running' \subseteq running
    /\ UNCHANGED <<attempt, verified, spent, completed>>

\* Nothing was started: the attempt never was.
Withdraw(t, n) ==
    /\ n \in InAir(t) /\ <<t, n>> \notin running
    /\ attempt' = [attempt EXCEPT ![t][n] = "none"]
    /\ spent' = IF attempt[t][n] = "dispatched" /\ spent[t] > 0
                THEN [spent EXCEPT ![t] = @ - 1] ELSE spent
    /\ UNCHANGED <<running, verified, completed>>

Settle(t, n, result) ==
    /\ n \in InAir(t)
    /\ attempt' = [attempt EXCEPT ![t][n] = result]
    /\ verified' = IF result = "succeeded" THEN [verified EXCEPT ![t] = @ + 1] ELSE verified
    /\ UNCHANGED <<running, spent, completed>>

Complete(t) ==
    /\ verified[t] >= Goal[t]
    /\ completed' = completed \cup {t}
    /\ UNCHANGED <<attempt, running, verified, spent>>

\* A request that was read before the end is written after it.
Reopen(t) ==
    /\ completed' = completed \ {t}
    /\ UNCHANGED <<attempt, running, verified, spent>>

Next ==
    \/ \E t \in Tasks :
          \/ \E n \in Numbers[t] :
                \/ Prepare(t, n) \/ Dispatch(t, n) \/ Run(t, n) \/ Withdraw(t, n)
                \/ \E result \in {"succeeded", "closed", "unknown"} : Settle(t, n, result)
          \/ Complete(t) \/ Reopen(t)
    \/ Stop

Spec == Init /\ [][Next]_contract
===============================================================================
