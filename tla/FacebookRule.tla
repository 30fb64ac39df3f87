---------------------------- MODULE FacebookRule ----------------------------
(***************************************************************************)
(* The rule mode of one Facebook account: every so many confirmed views    *)
(* start a batch, a like and, in some rounds, a join with a contact        *)
(* comment.  The batch is a durable row; the dispatcher keeps it in memory *)
(* as its pending batch and records each part as it goes.                  *)
(*                                                                         *)
(* Sources: src/src/orchestrator/facebook-rule-mode-runtime-store.ts, the  *)
(* rule path of role-dispatcher.ts.                                        *)
(*                                                                         *)
(* Abstractions.  A part is pending, dispatched, or has one of the final   *)
(* states the store tells apart.  Blockers and body schemes only choose    *)
(* among the ways a batch ends and are a choice here.                      *)
(***************************************************************************)
EXTENDS FacebookSession

CONSTANTS
    RuleContents,       \* content keys of views
    RuleViewsPerLike, JoinEveryNRounds,
    MaxBatches          \* bound: rows of facebook_rule_batch

ASSUME RuleAssumption ==
    /\ RuleViewsPerLike \in Nat \ {0} /\ JoinEveryNRounds \in Nat \ {0} /\ MaxBatches \in Nat

VARIABLES
    batch,          \* facebook_rule_batch
    rprog,          \* facebook_rule_progress, by revision
    rseen,          \* facebook_rule_view_fact of the open collection
    pend            \* pendingFacebookRuleBatch, per process

ruleVars == <<batch, rprog, rseen, pend>>

BatchIds == 1..MaxBatches
Parts == {"pending", "dispatched", "done", "not_started", "ambiguous", "policy_superseded"}
NoBatch == [rev |-> 0, withJoin |-> FALSE, like |-> "pending", join |-> "pending",
            comment |-> "pending", term |-> TRUE]
NoPend == [id |-> 0, step |-> "none"]

RuleTypeOK ==
    /\ batch \in [BatchIds -> [rev : 0..MaxRev, withJoin : BOOLEAN, like : Parts, join : Parts,
                               comment : Parts, term : BOOLEAN]]
    /\ rprog \in [Revs -> [seq : Nat, views : Nat, slot : BatchIds \cup {0}]]
    /\ rseen \in [Revs -> SUBSET RuleContents]
    /\ pend \in [Services -> [id : BatchIds \cup {0},
                           step : {"none", "like", "sending", "sent", "join", "joining"}]]

RuleInit ==
    /\ batch = [b \in BatchIds |-> NoBatch]
    /\ rprog = [r \in Revs |-> [seq |-> 1, views |-> 0, slot |-> 0]]
    /\ rseen = [r \in Revs |-> {}] /\ pend = [p \in Services |-> NoPend]

OpenBatches(b) == {i \in BatchIds : ~b[i].term}
FreeBatches == {i \in BatchIds : batch[i].rev = 0}

\* facebookRuleRoundIncludesJoin.
RoundIncludesJoin(seq) == seq % JoinEveryNRounds = 0

\* supersedeOtherRevisionBatches: what was never dispatched is superseded; the batch ends
\* unless a part of it is out.
SupersededPart(x) == IF x \in {"pending", "not_started"} THEN "policy_superseded" ELSE x
Out(b) == "dispatched" \in {b.like, b.join, b.comment}
supersedeOtherRevisionBatches(r) ==
    [i \in BatchIds |->
        IF batch[i].term \/ batch[i].rev = r THEN batch[i]
        ELSE [batch[i] EXCEPT !.like = SupersededPart(@), !.join = SupersededPart(@),
                              !.comment = SupersededPart(@), !.term = ~Out(batch[i])]]
\* The slots of batches that have ended are cleared with them.
ClearSlots(b) ==
    [r \in Revs |-> [rprog[r] EXCEPT !.slot = IF @ # 0 /\ b[@].term /\ ~batch[@].term THEN 0 ELSE @]]

\* handleFacebookOperationView over applyConfirmedView.
RuleView(p, c) ==
    LET r == auth.rev
        b2 == supersedeOtherRevisionBatches(r)
        old == {i \in OpenBatches(batch) : batch[i].rev # r}
        cur == rprog[r]
        n == CHOOSE i \in FreeBatches : \A j \in FreeBatches : i <= j
    IN  /\ edge = p /\ decideFacebookBrowseMode("rule")
        /\ pend[p].step \in {"none", "sent"}
        /\ \/ /\ old # {}       \* batch_active or policy_superseded: the view is not counted
              /\ batch' = b2 /\ rprog' = ClearSlots(b2) /\ UNCHANGED <<rseen, pend>>
           \/ /\ old = {} /\ cur.slot = 0 /\ c \notin rseen[r]
              /\ cur.views + 1 < RuleViewsPerLike
              /\ rprog' = [rprog EXCEPT ![r].views = @ + 1]
              /\ rseen' = [rseen EXCEPT ![r] = @ \cup {c}] /\ UNCHANGED <<batch, pend>>
           \/ /\ old = {} /\ cur.slot = 0 /\ c \notin rseen[r]
              /\ cur.views + 1 >= RuleViewsPerLike /\ FreeBatches # {} /\ pend[p].id = 0
              /\ batch' = [batch EXCEPT ![n] = [NoBatch EXCEPT !.rev = r, !.term = FALSE,
                                                               !.withJoin = RoundIncludesJoin(cur.seq)]]
              /\ rprog' = [rprog EXCEPT ![r] = [seq |-> cur.seq + 1, views |-> 0, slot |-> n]]
              /\ rseen' = [rseen EXCEPT ![r] = {}]
              /\ pend' = [pend EXCEPT ![p] = [id |-> n, step |-> "like"]]

\* updateBatch: a patch; a terminal one frees the slot.
updateBatch(i, b) ==
    /\ batch' = [batch EXCEPT ![i] = b]
    /\ rprog' = [r \in Revs |-> [rprog[r] EXCEPT !.slot = IF b.term /\ @ = i THEN 0 ELSE @]]

Holds(i) == decideFacebookBrowseMode("rule") /\ auth.rev = batch[i].rev

\* finishFacebookRuleBatch.
finishFacebookRuleBatch(p, join, comment) ==
    LET i == pend[p].id
    IN  /\ updateBatch(i, [batch[i] EXCEPT !.join = join, !.comment = comment, !.term = TRUE])
        /\ pend' = [pend EXCEPT ![p] = NoPend]

\* attemptFacebookRuleLike: superseded, suppressed, or handed to the edge and then recorded.
AttemptRuleLike(p) ==
    LET i == pend[p].id
    IN  /\ pend[p].step = "like" /\ UNCHANGED rseen
        /\ \/ /\ ~Holds(i)
              /\ updateBatch(i, [batch[i] EXCEPT !.like = "policy_superseded", !.term = TRUE,
                                    !.join = "policy_superseded", !.comment = "policy_superseded"])
              /\ pend' = [pend EXCEPT ![p] = NoPend]
           \/ /\ Holds(i)
              /\ updateBatch(i, [batch[i] EXCEPT !.like = "not_started"])
              /\ pend' = [pend EXCEPT ![p].step = "join"]
           \/ /\ Holds(i) /\ edge = p
              /\ pend' = [pend EXCEPT ![p].step = "sending"] /\ UNCHANGED <<batch, rprog>>

\* The mark that follows the command.
RecordRuleLikeSent(p) ==
    /\ pend[p].step = "sending" /\ UNCHANGED rseen
    /\ updateBatch(pend[p].id, [batch[pend[p].id] EXCEPT !.like = "dispatched"])
    /\ pend' = [pend EXCEPT ![p].step = "sent"]

\* finishFacebookRuleLike: the receipt.
FinishRuleLike(p) ==
    /\ pend[p].step = "sent" /\ edge = p /\ UNCHANGED rseen
    /\ updateBatch(pend[p].id, [batch[pend[p].id] EXCEPT !.like = "done"])
    /\ pend' = [pend EXCEPT ![p].step = "join"]

\* startFacebookRuleJoinContact: the join is recorded as dispatched before it is triggered.
StartRuleJoin(p) ==
    LET i == pend[p].id
    IN  /\ pend[p].step = "join" /\ UNCHANGED rseen
        /\ \/ ~Holds(i) /\ finishFacebookRuleBatch(p, "policy_superseded", "policy_superseded")
           \/ Holds(i) /\ finishFacebookRuleBatch(p, "not_started", "not_started")
           \/ /\ Holds(i) /\ batch[i].withJoin
              /\ updateBatch(i, [batch[i] EXCEPT !.join = "dispatched", !.comment = "pending"])
              /\ pend' = [pend EXCEPT ![p].step = "joining"]

\* The join and its comment end, or were not started after all.
FinishRuleJoin(p) ==
    /\ pend[p].step = "joining" /\ UNCHANGED rseen
    /\ \E j, c \in {"done", "not_started", "ambiguous"} : finishFacebookRuleBatch(p, j, c)

\* reconcileFacebookRuleBatchOnSessionBoundary: once the join has started it is left alone.
ReconcileRuleBatch(p) ==
    LET i == pend[p].id
        l == CASE pend[p].step \in {"sending", "sent"} -> "ambiguous"
               [] pend[p].step = "like" -> "not_started" [] OTHER -> batch[i].like
    IN  IF pend[p].step \in {"like", "sending", "sent"}
        THEN /\ updateBatch(i, [batch[i] EXCEPT !.like = l, !.join = "not_started",
                                                !.comment = "not_started", !.term = TRUE])
             /\ pend' = [pend EXCEPT ![p] = NoPend] /\ UNCHANGED rseen
        ELSE UNCHANGED ruleVars

\* recoverInterruptedBatches at the start of a process.
RecoveredPart(x, lost) == IF x = "pending" THEN "not_started" ELSE IF x = "dispatched" THEN lost ELSE x
recoverInterruptedBatches ==
    LET b2 == [i \in BatchIds |->
                 IF batch[i].term THEN batch[i]
                 ELSE [batch[i] EXCEPT !.like = RecoveredPart(@, "ambiguous"),
                                       !.join = RecoveredPart(@, "ambiguous"),
                                       !.comment = RecoveredPart(@, "ambiguous"), !.term = TRUE]]
    IN  batch' = b2 /\ rprog' = ClearSlots(b2) /\ UNCHANGED <<rseen, pend>>

RuleCrash(p) == pend' = [pend EXCEPT ![p] = NoPend] /\ UNCHANGED <<batch, rprog, rseen>>

RuleStep(p) ==
    \/ AttemptRuleLike(p) \/ RecordRuleLikeSent(p) \/ FinishRuleLike(p)
    \/ StartRuleJoin(p) \/ FinishRuleJoin(p)
    \/ \E c \in RuleContents : RuleView(p, c)

------------------------------------------------------------------------------
\* At most one batch of the account is open, over all revisions and processes: a new round
\* waits until whatever is out has come back.
OneOpenBatch == Cardinality(OpenBatches(batch)) <= 1

\* A slot and an open batch of its revision go together: a dangling slot would refuse every
\* view of the account, a lost one would start a second round.
BatchHoldsSlot ==
    \A r \in Revs, i \in BatchIds : (rprog[r].slot = i) <=> (~batch[i].term /\ batch[i].rev = r)
==============================================================================
