--------------------------- MODULE AutomationProcess ---------------------------
(***************************************************************************)
(* The automation processes of one target: their life, the facts they      *)
(* exchange with the API and the commands they take from it.               *)
(*                                                                         *)
(* The three parts meet in three places: the business entry opens only     *)
(* when the reads are ready, the internal server of the life serves the    *)
(* snapshots and the commands, and the end of a process drops the memory   *)
(* of all of them.                                                         *)
(*                                                                         *)
(* Sources: src/src/automation-main.ts, automation-service-entry.ts,       *)
(* automation-composition-root.ts.                                         *)
(***************************************************************************)
EXTENDS SyncReads, OperatorCommands

vars == <<life, inputs, reads, cmds>>

Init == LifeInit /\ ReadsInit /\ CmdsInit

\* The watch asks the readiness and opens the entry; a second try finds the port taken.
startBusinessIfReady(p) == readiness(p) /\ startBusiness(p) /\ UNCHANGED <<reads, cmds>>

\* Everything a process keeps in memory ends with it; the root is closed when its cycle is over.
Ends(p) ==
    /\ \/ Idle(p) /\ Exit(p)
       \/ BuildFails(p)
       \/ Crash(p)
       \/ readiness(p) /\ startAgain(p)
    /\ Forget(p) /\ Lose(p)

Next ==
    \/ \E p \in Procs :
        \/ LifeStep(p) /\ UNCHANGED <<reads, cmds>>
        \/ startBusinessIfReady(p)
        \/ Ends(p)
        \/ ReadStep(p) /\ UNCHANGED cmds
    \/ ReadEnvironment /\ UNCHANGED cmds
    \/ CommandStep /\ UNCHANGED reads

Spec == Init /\ [][Next]_vars

=============================================================================
