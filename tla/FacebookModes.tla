---------------------------- MODULE FacebookModes ----------------------------
(***************************************************************************)
(* The two Facebook operation modes together: one account, one policy      *)
(* authority, the processes that serve it and the edge session that moves  *)
(* between them.  A session boundary and the start or the end of a process *)
(* reach both modes at once.                                               *)
(***************************************************************************)
EXTENDS FacebookConsumption, FacebookRule

modesVars == <<sessionVars, consVars, ruleVars>>

ModesTypeOK == SessionTypeOK /\ ConsTypeOK /\ RuleTypeOK

ModesInit == SessionInit /\ ConsInit /\ RuleInit

\* startSession, reconnect and endSession: both modes settle what the old session left.
Boundary(p) ==
    /\ OpenSession(p)
    /\ DetachLike(p) /\ UNCHANGED <<act, prog, seen, fact, proof, run, chain, writes>>
    /\ ReconcileRuleBatch(p)

\* The stores are initialised and in-flight work is recovered before a process serves.
Start(p) == StartProcess(p) /\ ConsRecover(p) /\ recoverInterruptedBatches

ServiceCrash(p) == CrashProcess(p) /\ ConsCrash(p) /\ RuleCrash(p)

ModesNext ==
    \/ ChangePolicy /\ UNCHANGED <<consVars, ruleVars>>
    \/ \E p \in Services : Boundary(p) \/ Start(p) \/ ServiceCrash(p)
    \/ \E i \in Ids : LeaseExpires(i) /\ UNCHANGED <<sessionVars, ruleVars>>
    \/ \E p \in up : ConsStep(p) /\ UNCHANGED <<sessionVars, ruleVars>>
    \/ \E p \in up : RuleStep(p) /\ UNCHANGED <<sessionVars, consVars>>

ModesSpec == ModesInit /\ [][ModesNext]_modesVars

------------------------------------------------------------------------------
\* A slot never outlives what it was taken for, in either mode: a dangling slot refuses every
\* further view of the account (applyConfirmedView), a lost one starts a second round.
SlotsHold == SlotIsOpen /\ BatchHoldsSlot

\* One round at a time in either mode: one open batch of the account (OneOpenBatch), and slots that
\* live as long as what they were taken for (SlotsHold).
OneRound == OneOpenBatch /\ SlotsHold
==============================================================================
