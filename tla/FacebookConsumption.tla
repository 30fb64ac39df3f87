------------------------- MODULE FacebookConsumption -------------------------
(***************************************************************************)
(* The consumption mode of one Facebook account: confirmed views earn a    *)
(* like, confirmed likes earn a join, confirmed joins earn a comment.  An  *)
(* earned action is a durable row; a process claims it under a lease,      *)
(* binds its exact target, marks it dispatched and only then lets the      *)
(* platform write happen; a receipt settles the row and may earn the next. *)
(*                                                                         *)
(* Sources: src/src/orchestrator/facebook-consumption-mode-runtime-store,  *)
(* facebook-consumption-mode-coordinator, facebook-consumption-mode, and   *)
(* the like path of role-dispatcher (.ts each).                            *)
(*                                                                         *)
(* Abstractions.  One account, one execution target, fixed cadence.  A     *)
(* store method is one transaction and one step.  version is only compared *)
(* for equality with the version a process has seen, so a process has a    *)
(* fresh or a stale view.  A lease is live or over.  The policy read before *)
(* a transaction is taken in the same step, except before supersedeAccount.*)
(* A comment binds its group together with its post.                       *)
(***************************************************************************)
EXTENDS FacebookSession

CONSTANTS
    Contents,       \* content keys of views
    Targets,        \* groups and posts an executor may pick
    ViewsPerLike, LikesPerJoin, JoinsPerComment,
    MaxActions      \* bound: rows of facebook_consumption_action

ASSUME CadenceAssumption ==
    /\ ViewsPerLike \in Nat \ {0} /\ LikesPerJoin \in Nat \ {0}
    /\ JoinsPerComment \in Nat \ {0} /\ MaxActions \in Nat
    /\ Nothing \notin Contents \cup Targets

VARIABLES
    act,            \* facebook_consumption_action
    prog,           \* facebook_consumption_progress, by revision
    seen,           \* facebook_consumption_view_fact of the open collection
    fact,           \* facebook_consumption_action_result_fact: <<action, source, outcome>>
    proof,          \* actions the group membership proves as commented
    run,            \* the coordinator's drive in flight, per process
    like,           \* pendingFacebookConsumptionLike, per process
    chain,          \* processes whose view chain awaits the coordinator
    writes          \* history: platform writes of each action

consVars == <<act, prog, seen, fact, proof, run, like, chain, writes>>

Ids == 1..MaxActions
ActionTypes == {"like", "join", "comment"}
Outcomes == {"confirmed", "already", "pending", "ambiguous", "gated", "not_started",
             "structural", "failed", "policy_superseded"}
ASSUME OutcomeAssumption == Nothing \notin Outcomes
Sources == {"platform", "policy", "gate", "suppressed", "conflict"}

NoAct == [type |-> "none", rev |-> 1, state |-> "terminal", phase |-> "settled",
          out |-> Nothing, down |-> FALSE, tgt |-> Nothing, owner |-> Nothing, live |-> FALSE]
NoRun == [id |-> 0, step |-> "idle", fresh |-> TRUE, was |-> "new", keep |-> 0]
NoLike == [id |-> 0, step |-> "none", fresh |-> TRUE]

ConsTypeOK ==
    /\ act \in [Ids -> [type : ActionTypes \cup {"none"}, rev : Revs,
                        state : {"waiting_target", "waiting_gate", "ready", "dispatched", "terminal"},
                        phase : {"not_started", "dispatched", "settled"},
                        out : Outcomes \cup {Nothing}, down : BOOLEAN,
                        tgt : Contents \cup Targets \cup {Nothing},
                        owner : Services \cup {Nothing}, live : BOOLEAN]]
    /\ prog \in [Revs -> [st : {"none", "active", "superseded"}, views : Nat, likes : Nat,
                          joins : Nat, slot : Ids \cup {0}]]
    /\ seen \in [Revs -> SUBSET Contents] /\ proof \subseteq Ids /\ chain \subseteq Services
    /\ fact \subseteq Ids \X Sources \X Outcomes
    /\ run \in [Services -> [id : Ids \cup {0}, fresh : BOOLEAN, keep : 0..MaxRev,
                          was : {"new", "leased", "orphan"},
                          step : {"idle", "drive", "reconcile", "supersede", "owned", "bound",
                                  "authorised", "submitted", "proved"}]]
    /\ like \in [Services -> [id : Ids \cup {0}, fresh : BOOLEAN,
                           step : {"none", "attempt", "claimed", "authorised", "sent"}]]
    /\ writes \in [Ids -> Nat]

ConsInit ==
    /\ act = [i \in Ids |-> NoAct]
    /\ prog = [r \in Revs |-> [st |-> "none", views |-> 0, likes |-> 0, joins |-> 0, slot |-> 0]]
    /\ seen = [r \in Revs |-> {}] /\ fact = {} /\ proof = {} /\ chain = {}
    /\ run = [p \in Services |-> NoRun] /\ like = [p \in Services |-> NoLike]
    /\ writes = [i \in Ids |-> 0]

------------------------------------------------------------------------------
(* The store.                                                              *)

Open(a) == {i \in DOMAIN a : a[i].state # "terminal"}
Free(a) == {i \in DOMAIN a : a[i].type = "none"}
\* Rows are inserted in the order of their ids.
NextId(a) == CHOOSE i \in Free(a) : \A j \in Free(a) : i <= j
Oldest(S) == CHOOSE i \in S : \A j \in S : i <= j

\* isDeferrableFacebookConsumptionObligation and its SQL twin.
Deferrable(r) ==
    /\ r.type # "like" /\ r.phase = "not_started"
    /\ r.state \in {"waiting_target", "waiting_gate"}

\* insertAction: a like has its target from the view; the others wait for one.
insertAction(type, rev, tgt) ==
    [type |-> type, rev |-> rev, state |-> IF type = "like" THEN "ready" ELSE "waiting_target",
     phase |-> "not_started", out |-> Nothing, down |-> TRUE, tgt |-> tgt,
     owner |-> Nothing, live |-> FALSE]

\* supersedeWithClient: every other revision is closed; a row that was never dispatched ends.
supersedeWithClient(a, keep) ==
    [i \in DOMAIN a |->
        IF a[i].state = "terminal" \/ a[i].rev = keep THEN a[i]
        ELSE IF a[i].phase # "not_started" THEN [a[i] EXCEPT !.down = FALSE]
        ELSE [a[i] EXCEPT !.down = FALSE, !.state = "terminal", !.phase = "settled",
                          !.out = "policy_superseded", !.owner = Nothing, !.live = FALSE]]
\* A mutant: the slot of a superseded revision is not cleared.
SupersededProgressKeepsSlot(a2, keep) ==
    [r \in Revs |-> [prog[r] EXCEPT !.st = IF r # keep /\ @ # "none" THEN "superseded" ELSE @]]
SupersededProgress(a2, keep) ==
    [r \in Revs |->
        [prog[r] EXCEPT !.st = IF r # keep /\ @ # "none" THEN "superseded" ELSE @,
                        !.slot = IF @ # 0 /\ a2[@].state = "terminal" THEN 0 ELSE @]]

\* The rows a change touches get a new version: other processes' views of them are stale.
Stale(views, p, ids) ==
    [q \in Services |-> IF q # p /\ views[q].id \in ids
                     THEN [views[q] EXCEPT !.fresh = FALSE] ELSE views[q]]
Touched(a2) == {i \in Ids : a2[i] # act[i]}

ownerMatches(p, i) == act[i].owner = p /\ act[i].live

\* A mutant: a dispatched row whose lease is over is claimed as one that was never sent.
claimActionAnew(p, i) ==
    IF act[i].state # "terminal" /\ ~act[i].live
    THEN [act[i] EXCEPT !.owner = p, !.live = TRUE, !.phase = "not_started", !.state = "ready"] ELSE act[i]
\* claimAction: a free or expired row that has not ended gets an owner and a lease, even a
\* dispatched one.
claimAction(p, i) ==
    IF act[i].state # "terminal" /\ ~act[i].live
    THEN [act[i] EXCEPT !.owner = p, !.live = TRUE] ELSE act[i]

\* setPreDispatchState and releaseActionClaim.
setPreDispatchState(x, st) == [x EXCEPT !.state = st]
releaseActionClaim(x) == [x EXCEPT !.owner = Nothing, !.live = FALSE]

\* A mutant: the counters keep what an obligation has used up.
advanceCountersKept(r, type, o, down) ==
    [likes |-> IF type = "like" /\ down /\ o = "confirmed" THEN r.likes + 1 ELSE r.likes,
     joins |-> IF type = "join" /\ down /\ o = "confirmed" THEN r.joins + 1 ELSE r.joins,
     next |-> IF ~down \/ o # "confirmed" THEN "none" ELSE IF type = "like" THEN "join" ELSE "comment"]
\* advanceFacebookConsumptionCounters (fixed cadence) in settleAction: what a settled row
\* of the slot adds to its revision, and the obligation this earns.
advanceCounters(r, type, o, down) ==
    LET on == down /\ o = "confirmed"
        l == IF on /\ type = "like" THEN r.likes + 1 ELSE r.likes
        j == IF on /\ type = "join" THEN r.joins + 1 ELSE r.joins
        hitJ == on /\ type = "like" /\ l >= LikesPerJoin
        hitC == on /\ type = "join" /\ j >= JoinsPerComment
    IN  [likes |-> IF hitJ THEN l - LikesPerJoin ELSE l,
         joins |-> IF hitC THEN j - JoinsPerComment ELSE j,
         next |-> IF hitJ THEN "join" ELSE IF hitC THEN "comment" ELSE "none"]

\* An obligation of the same type that still stands takes the new one in.
selectNonTerminalActionOfType(a, rev, type) == {k \in Open(a) : a[k].rev = rev /\ a[k].type = type}

RequiresDispatch == {"confirmed", "pending", "ambiguous"}

\* settleAction.  Its verdict says whether the receipt settles the row, leaves it pending,
\* or changes nothing but perhaps the facts.
SettleVerdict(i, src, o) ==
    LET known == {f \in fact : f[1] = i /\ f[2] = src}
    IN  IF act[i].state # "terminal" /\ o \in RequiresDispatch /\ act[i].phase # "dispatched"
        THEN "incompatible"
        ELSE IF known # {} /\ ~(\E f \in known : f[3] = "pending" /\ o # "pending") THEN "duplicate"
        ELSE IF act[i].state = "terminal" THEN "already_terminal"
        ELSE IF o = "pending" THEN "pending" ELSE "settled"

settleAction(i, src, o) ==
    LET v == SettleVerdict(i, src, o)
        r == prog[act[i].rev]
        adv == advanceCounters(r, act[i].type, o, act[i].down /\ r.st = "active")
        done == [act EXCEPT ![i].state = "terminal", ![i].phase = "settled", ![i].out = o,
                            ![i].owner = Nothing, ![i].live = FALSE]
        standing == selectNonTerminalActionOfType(done, act[i].rev, adv.next)
        new == r.slot = i /\ adv.next # "none" /\ standing = {}
        n == NextId(done)
    IN  /\ v = "settled" /\ new => Free(act) # {}
        /\ fact' = IF v \in {"incompatible", "duplicate"} THEN fact
                   ELSE {f \in fact : f[1] # i \/ f[2] # src} \cup {<<i, src, o>>}
        /\ act' = CASE v = "pending" -> [act EXCEPT ![i].out = "pending"]
                    [] v = "settled" /\ new -> [done EXCEPT ![n] = insertAction(adv.next, act[i].rev, Nothing)]
                    [] v = "settled" /\ ~new -> done
                    [] OTHER -> act
        /\ prog' = IF v = "settled" /\ r.slot = i
                   THEN [prog EXCEPT ![act[i].rev].likes = adv.likes, ![act[i].rev].joins = adv.joins,
                                     ![act[i].rev].slot = IF new THEN n ELSE 0]
                   ELSE prog

\* The action settleAction has just inserted, if any: the drive goes on with it.
NextAction == {i \in Ids : act[i].type = "none" /\ act'[i].type # "none"}

------------------------------------------------------------------------------
(* Driving an action: the coordinator (trigger, drive).                    *)

\* What drive reads off the row it is handed: not dispatched, or dispatched under a live
\* lease, or dispatched with nobody holding it.
WasOf(a, i) == IF a[i].phase # "dispatched" THEN "new" ELSE IF a[i].live THEN "leased" ELSE "orphan"

\* trigger: one drive per process and account; a second call joins the one in flight.
Drive(p, i, a) == [NoRun EXCEPT !.id = i, !.step = "drive", !.was = WasOf(a, i)]
trigger(p, i, a) == IF run[p].id = 0 THEN Drive(p, i, a) ELSE run[p]

\* operationPolicyCheck: unavailable or another mode of the same revision waits, another
\* revision supersedes.
operationPolicyCheck(i) ==
    {"waiting_gate"} \cup
    (IF auth.rev # act[i].rev THEN {"superseded"}
     ELSE IF auth.mode = "consumption" THEN {"active"} ELSE {})

\* The end of a drive: the view chain that awaited it goes on.
Finish(p, r2) ==
    /\ run' = [r2 EXCEPT ![p] = NoRun] /\ chain' = chain \ {p}

\* settleAndContinue.
SettleAndContinue(p, i, src, o) ==
    /\ settleAction(i, src, o)
    /\ LET r2 == Stale(run, p, Touched(act'))
       IN  IF NextAction = {} THEN Finish(p, r2)
           ELSE /\ run' = [r2 EXCEPT ![p] = Drive(p, Oldest(NextAction), act')]
                /\ UNCHANGED chain
    /\ like' = Stale(like, Nothing, Touched(act'))
    /\ UNCHANGED <<seen, proof, writes>>

\* A transaction of p on row i alone.
UpdateRow(p, i, x) ==
    /\ act' = [act EXCEPT ![i] = x]
    /\ like' = Stale(like, p, {i} \ {k \in {i} : x = act[i]})
    /\ UNCHANGED <<prog, seen, fact, proof, writes>>

\* claim: the policy, then claimAction.
Claim(p) ==
    LET i == run[p].id
        claimed == claimAction(p, i)
        r2 == Stale(run, p, IF claimed # act[i] THEN {i} ELSE {})
    IN  /\ run[p].step = "drive" /\ run[p].was = "new"
        /\ \/ /\ "active" \in operationPolicyCheck(i)
              /\ UpdateRow(p, i, claimed)
              /\ IF claimed.state # "terminal" /\ claimed.owner = p /\ claimed.live /\ claimed.phase # "dispatched"
                 THEN /\ run' = [r2 EXCEPT ![p].step = "owned", ![p].fresh = TRUE]
                      /\ UNCHANGED chain
                 ELSE Finish(p, r2)
           \/ /\ "waiting_gate" \in operationPolicyCheck(i)
              /\ UpdateRow(p, i, act[i]) /\ Finish(p, run)
           \/ /\ "superseded" \in operationPolicyCheck(i)
              /\ SettleAndContinue(p, i, "policy", "policy_superseded")

\* waitAndRelease: the row goes back to waiting and the claim is dropped, both under the
\* owner and the version the process has seen.
waitAndRelease(p) ==
    LET i == run[p].id
        ok == act[i].phase = "not_started" /\ ownerMatches(p, i) /\ run[p].fresh
    IN  /\ run[p].step \in {"owned", "bound"}
        /\ \E st \in {"waiting_target", "waiting_gate"} :
              UpdateRow(p, i, IF ok THEN releaseActionClaim(setPreDispatchState(act[i], st)) ELSE act[i])
        /\ Finish(p, Stale(run, p, IF ok THEN {i} ELSE {}))

\* bindActionTarget from onAssigned and onTargetSelected: the target of a row never changes.
bindActionTarget(p, t) ==
    LET i == run[p].id
        ok == act[i].phase = "not_started" /\ ownerMatches(p, i) /\ run[p].fresh
        clash == act[i].tgt \notin {Nothing, t}
    IN  /\ run[p].step = "owned" /\ "active" \in operationPolicyCheck(i)
        /\ \/ /\ ok /\ ~clash
              /\ UpdateRow(p, i, [act[i] EXCEPT !.tgt = t, !.state = "ready"])
              /\ run' = [Stale(run, p, {i}) EXCEPT ![p].step = "bound"] /\ UNCHANGED chain
           \/ /\ ok /\ clash /\ act[i].type = "comment"
              /\ SettleAndContinue(p, i, "conflict", "structural")
           \/ /\ ~ok \/ (clash /\ act[i].type = "join")
              /\ UpdateRow(p, i, act[i]) /\ Finish(p, run)

\* stopForOperationPolicy in the middle of a run whose own view is not dispatched.
StopForPolicy(p) ==
    /\ run[p].step \in {"owned", "bound"} /\ "superseded" \in operationPolicyCheck(run[p].id)
    /\ SettleAndContinue(p, run[p].id, "policy", "policy_superseded")

\* bindTargetAndMarkDispatched from onBeforeDispatch and onBeforeSubmit: the durable mark
\* that alone allows the platform write.
bindTargetAndMarkDispatched(p) ==
    LET i == run[p].id
        ok == act[i].phase = "not_started" /\ ownerMatches(p, i) /\ run[p].fresh
    IN  /\ run[p].step = "bound" /\ "active" \in operationPolicyCheck(i)
        /\ IF ok
           THEN /\ UpdateRow(p, i, [act[i] EXCEPT !.state = "dispatched", !.phase = "dispatched"])
                /\ run' = [Stale(run, p, {i}) EXCEPT ![p].step = "authorised"] /\ UNCHANGED chain
           ELSE UpdateRow(p, i, act[i]) /\ Finish(p, run)

\* The executor runJoin and runComment have called, with the mark as its last callback, has
\* the edge write to the platform.
Submit(p) ==
    /\ run[p].step = "authorised"
    /\ run' = [run EXCEPT ![p].step = "submitted"]
    /\ writes' = [writes EXCEPT ![run[p].id] = @ + 1]
    /\ UNCHANGED <<act, prog, seen, fact, proof, like, chain>>

\* recordConfirmedCommentMembership, before a confirmed comment is settled.
RecordConfirmedComment(p) ==
    /\ run[p].step = "submitted" /\ act[run[p].id].type = "comment"
    /\ run' = [run EXCEPT ![p].step = "proved"] /\ proof' = proof \cup {run[p].id}
    /\ UNCHANGED <<act, prog, seen, fact, like, chain, writes>>

\* A confirmed comment whose membership cannot be recorded stays dispatched, for reconciliation.
AwaitReconciliation(p) ==
    /\ run[p].step = "submitted" /\ act[run[p].id].type = "comment"
    /\ UpdateRow(p, run[p].id, act[run[p].id]) /\ Finish(p, run)

\* classifyFacebookConsumptionJoinReceipt and commentResultOutcome: before the mark nothing that
\* claims a write, after it anything.  The refusals that settle alike are one outcome here:
\* a rejected or structural comment is "failed".
classifyJoinReceipt(step) ==
    CASE step \in {"owned", "bound"} -> {"gated", "failed", "already"}
      [] step = "authorised" -> {"pending", "ambiguous", "failed", "already"}
      [] step = "submitted" -> {"pending", "ambiguous", "failed", "already", "confirmed"}
      [] OTHER -> {}
commentResultOutcome(step) ==
    CASE step \in {"owned", "bound"} -> {"gated", "failed"}
      [] step \in {"authorised", "submitted"} -> {"pending", "ambiguous", "failed"}
      [] step = "proved" -> {"confirmed"} [] OTHER -> {}

\* The end of runJoin and of runComment: the executor's result is classified and settled.
runJoin(p) ==
    /\ run[p].id # 0 /\ act[run[p].id].type = "join"
    /\ \E o \in classifyJoinReceipt(run[p].step) : SettleAndContinue(p, run[p].id, "platform", o)
runComment(p) ==
    /\ run[p].id # 0 /\ act[run[p].id].type = "comment"
    /\ \E o \in commentResultOutcome(run[p].step) : SettleAndContinue(p, run[p].id, "platform", o)

\* A dispatched row is never sent again.  A live lease, or an observation that decides
\* nothing, leaves it for later.
LeaveDispatched(p) ==
    /\ run[p].step = "drive" /\ run[p].was # "new"
    /\ run[p].was = "leased" \/ act[run[p].id].type # "like"
    /\ UpdateRow(p, run[p].id, act[run[p].id]) /\ Finish(p, run)

\* reconcileOrphanedDispatchedLike: nothing can tell whether the like landed.
reconcileOrphanedDispatchedLike(p) ==
    /\ run[p].step = "drive" /\ run[p].was = "orphan" /\ act[run[p].id].type = "like"
    /\ SettleAndContinue(p, run[p].id, "platform", "ambiguous")

\* reconcileDispatched: the policy first; a superseded one supersedes the account.
reconcileDispatched(p) ==
    LET i == run[p].id
    IN  /\ run[p].step = "drive" /\ run[p].was = "orphan" /\ act[i].type # "like"
        /\ UpdateRow(p, i, act[i]) /\ UNCHANGED chain
        /\ \/ /\ "active" \in operationPolicyCheck(i)
              /\ run' = [run EXCEPT ![p].step = "reconcile"]
           \/ /\ "superseded" \in operationPolicyCheck(i)
              /\ run' = [run EXCEPT ![p].step = "supersede",
                                    ![p].keep = IF auth.mode = "consumption" THEN auth.rev ELSE 0]

\* reconcileDispatchedJoin: an observed membership proves a member, not who joined.
reconcileDispatchedJoin(p) ==
    /\ run[p].step = "reconcile" /\ act[run[p].id].type = "join"
    /\ SettleAndContinue(p, run[p].id, "platform", "already")

\* reconcileDispatchedComment: the membership record is the proof of a confirmed comment.
reconcileDispatchedComment(p) ==
    /\ run[p].step = "reconcile" /\ act[run[p].id].type = "comment"
    /\ SettleAndContinue(p, run[p].id, "platform",
                         IF run[p].id \in proof THEN "confirmed" ELSE "ambiguous")

\* supersedeAccount, with the revision read a step earlier.
supersedeAccount(p) ==
    LET a2 == supersedeWithClient(act, run[p].keep)
        r2 == Stale(run, p, Touched(a2))
    IN  /\ run[p].step = "supersede"
        /\ act' = a2 /\ prog' = SupersededProgress(a2, run[p].keep)
        /\ like' = Stale(like, Nothing, Touched(a2))
        /\ IF act[run[p].id].state # "terminal" /\ act[run[p].id].rev # run[p].keep
           THEN run' = [r2 EXCEPT ![p].step = "reconcile"] /\ UNCHANGED chain
           ELSE Finish(p, r2)
        /\ UNCHANGED <<seen, fact, proof, writes>>

------------------------------------------------------------------------------
(* Views and likes: the role dispatcher of the process with the session.   *)

\* queueFacebookOperationView: views of the session are handled one after the other, and the
\* handler awaits the drives and the like attempts it starts.
QueuedView(p) == edge = p /\ p \notin chain /\ like[p].step \in {"none", "sent"}

\* The pending like of p becomes row i, to be attempted.
AttemptOf(views, p, i) == [views EXCEPT ![p] = [NoLike EXCEPT !.id = i, !.step = "attempt"]]

\* The coordinator is triggered with row i of the table a, and the chain awaits it.
AwaitRun(p, i, a) ==
    LET r2 == Stale(run, Nothing, Touched(a))
    IN  /\ run' = [r2 EXCEPT ![p] = IF r2[p].id = 0 THEN Drive(p, i, a) ELSE r2[p]]
        /\ chain' = chain \cup {p}

Busy(a) == {i \in Open(a) : ~Deferrable(a[i])}
Owed(a) == {i \in Open(a) : Deferrable(a[i])}

\* The three answers to a view, over the tables a and pg the supersession leaves. action_active:
\* a row is open, and the view counts for nothing.
ActionActive(p, c, a, pg) ==
    LET i == Oldest(Busy(a))
        u == Stale(like, Nothing, Touched(a))
    IN  /\ Busy(a) # {} /\ act' = a /\ prog' = pg /\ UNCHANGED <<seen, fact, proof, writes>>
        /\ \/ a[i].type # "like" /\ AwaitRun(p, i, a) /\ like' = u
           \/ /\ a[i].type = "like" /\ run' = Stale(run, Nothing, Touched(a)) /\ UNCHANGED chain
              /\ like' = IF a[i].phase # "dispatched" /\ a[i].tgt = c /\ like[p].id = 0
                         THEN AttemptOf(u, p, i) ELSE u

\* duplicate or counted: only a content not seen yet moves the counter.
ViewCounted(p, c, a, pg, cur) ==
    LET r == auth.rev
    IN  /\ Busy(a) = {} /\ cur.st = "active" /\ (c \in seen[r] \/ cur.views + 1 < ViewsPerLike)
        /\ act' = a /\ seen' = [seen EXCEPT ![r] = @ \cup {c}]
        /\ prog' = [pg EXCEPT ![r] = IF c \in seen[r] THEN cur ELSE [cur EXCEPT !.views = cur.views + 1]]
        /\ IF Owed(a) # {} THEN AwaitRun(p, Oldest(Owed(a)), a)
                           ELSE run' = Stale(run, Nothing, Touched(a)) /\ UNCHANGED chain
        /\ like' = Stale(like, Nothing, Touched(a)) /\ UNCHANGED <<fact, proof, writes>>

\* action_created: the view fills the counter, and a like is inserted and attempted.
LikeCreated(p, c, a, pg, cur) ==
    LET r == auth.rev
    IN  /\ Busy(a) = {} /\ cur.st = "active" /\ c \notin seen[r] /\ cur.views + 1 >= ViewsPerLike
        /\ Free(a) # {} /\ like[p].id = 0
        /\ act' = [a EXCEPT ![NextId(a)] = insertAction("like", r, c)]
        /\ prog' = [pg EXCEPT ![r] = [cur EXCEPT !.views = 0, !.slot = NextId(a)]]
        /\ seen' = [seen EXCEPT ![r] = {}]
        /\ like' = AttemptOf(Stale(like, Nothing, Touched(a)), p, NextId(a))
        /\ run' = Stale(run, Nothing, Touched(a)) /\ UNCHANGED <<chain, fact, proof, writes>>

\* handleFacebookConsumptionView over applyConfirmedView.  What the dispatcher supersedes before
\* it calls is superseded by the same routine in the transaction of the view.  A revision that a
\* late supersession has closed takes no view: that transaction commits the supersession alone
\* and the dispatcher throws, which is left out.
HandleView(p, c) ==
    LET r == auth.rev
        a2 == supersedeWithClient(act, r)
        pg == SupersededProgress(a2, r)
        cur == [pg[r] EXCEPT !.st = IF @ = "none" THEN "active" ELSE @, !.slot = 0]
    IN  /\ QueuedView(p) /\ decideFacebookBrowseMode("consumption")
        /\ ActionActive(p, c, a2, pg) \/ ViewCounted(p, c, a2, pg, cur) \/ LikeCreated(p, c, a2, pg, cur)

\* After a like is settled the dispatcher triggers the obligation it has earned.
SettleLike(p, i, src, o) ==
    /\ settleAction(i, src, o)
    /\ LET r2 == Stale(run, Nothing, Touched(act'))
       IN  run' = IF NextAction # {} /\ r2[p].id = 0
                  THEN [r2 EXCEPT ![p] = Drive(p, Oldest(NextAction), act')] ELSE r2
    /\ like' = IF SettleVerdict(i, src, o) = "pending" THEN Stale(like, p, {i})
               ELSE [Stale(like, Nothing, Touched(act')) EXCEPT ![p] = NoLike]
    /\ UNCHANGED <<seen, proof, chain, writes>>

\* attemptFacebookConsumptionLike: policy and risk gate, then claim, mark and send.
AttemptLike(p) ==
    LET i == like[p].id
        claimed == claimAction(p, i)
        ids == IF claimed # act[i] THEN {i} ELSE {}
    IN  /\ like[p].step = "attempt"
        /\ \/ /\ auth.mode # "consumption" \/ auth.rev # act[i].rev
              /\ SettleLike(p, i, "policy", "policy_superseded")
           \/ SettleLike(p, i, "gate", "gated")
           \/ /\ auth.mode = "consumption" /\ auth.rev = act[i].rev
              /\ act' = [act EXCEPT ![i] = claimed]
              /\ run' = Stale(run, Nothing, ids)
              /\ like' = [Stale(like, p, ids) EXCEPT
                             ![p] = IF claimed.state # "terminal" /\ claimed.owner = p /\ claimed.phase # "dispatched"
                                    THEN [NoLike EXCEPT !.id = i, !.step = "claimed"] ELSE NoLike]
              /\ UNCHANGED <<prog, seen, fact, proof, chain, writes>>

\* markDispatched; only its update allows the command.
markDispatched(p) ==
    LET i == like[p].id
        ok == act[i].state = "ready" /\ ownerMatches(p, i) /\ like[p].fresh
    IN  /\ like[p].step = "claimed"
        /\ act' = IF ok THEN [act EXCEPT ![i].state = "dispatched", ![i].phase = "dispatched"] ELSE act
        /\ run' = Stale(run, Nothing, IF ok THEN {i} ELSE {})
        /\ like' = [Stale(like, p, IF ok THEN {i} ELSE {}) EXCEPT
                       ![p] = IF ok THEN [@ EXCEPT !.step = "authorised"] ELSE NoLike]
        /\ UNCHANGED <<prog, seen, fact, proof, chain, writes>>

\* sendNoteScopedCommand: sent to the edge, or suppressed and settled as not started.
SendLike(p) ==
    /\ like[p].step = "authorised"
    /\ \/ /\ edge = p /\ like' = [like EXCEPT ![p].step = "sent"]
          /\ writes' = [writes EXCEPT ![like[p].id] = @ + 1]
          /\ UNCHANGED <<act, prog, seen, fact, proof, run, chain>>
       \/ SettleLike(p, like[p].id, "suppressed", "not_started")

\* classifyFacebookConsumptionLikeReceipt: what a receipt of the edge may be read as.
classifyLikeReceipt == {"confirmed", "already", "pending", "ambiguous", "failed"}

\* finishFacebookConsumptionLike: the receipt of the like the process has pending.
FinishLike(p) ==
    /\ like[p].step = "sent" /\ edge = p
    /\ \E o \in classifyLikeReceipt : SettleLike(p, like[p].id, "platform", o)

------------------------------------------------------------------------------
(* Time, sessions and processes.                                           *)

\* owner_expires_at passes.
LeaseExpires(i) ==
    /\ act[i].live /\ act' = [act EXCEPT ![i].live = FALSE]
    /\ UNCHANGED <<prog, seen, fact, proof, run, like, chain, writes>>

\* detachFacebookConsumptionLikeOnSessionBoundary: the pending like is dropped, its row is not.
DetachLike(p) == like' = [q \in Services |-> IF q = p /\ like[q].step = "sent" THEN NoLike ELSE like[q]]

\* init and recoverActiveActions at the start of a process: expired claims are released, and
\* the coordinator drives what it finds.  One row per account: a second trigger joins it.
ConsRecover(p) ==
    LET a2 == [i \in Ids |-> IF act[i].state # "terminal" /\ ~act[i].live
                             THEN [act[i] EXCEPT !.owner = Nothing] ELSE act[i]]
        todo == {i \in Open(a2) : a2[i].type # "like" \/ a2[i].phase = "dispatched"}
    IN  /\ act' = a2
        /\ run' = IF todo = {} THEN Stale(run, p, Touched(a2))
                  ELSE [Stale(run, p, Touched(a2)) EXCEPT ![p] = Drive(p, Oldest(todo), a2)]
        /\ like' = Stale(like, p, Touched(a2))
        /\ UNCHANGED <<prog, seen, fact, proof, chain, writes>>

ConsCrash(p) ==
    /\ run' = [run EXCEPT ![p] = NoRun] /\ like' = [like EXCEPT ![p] = NoLike]
    /\ chain' = chain \ {p} /\ UNCHANGED <<act, prog, seen, fact, proof, writes>>

\* The steps of process p in the consumption mode.
ConsStep(p) ==
    \/ Claim(p) \/ waitAndRelease(p) \/ StopForPolicy(p) \/ bindTargetAndMarkDispatched(p)
    \/ Submit(p) \/ RecordConfirmedComment(p) \/ AwaitReconciliation(p)
    \/ runJoin(p) \/ runComment(p) \/ LeaveDispatched(p) \/ reconcileOrphanedDispatchedLike(p)
    \/ reconcileDispatched(p) \/ reconcileDispatchedJoin(p) \/ reconcileDispatchedComment(p)
    \/ supersedeAccount(p)
    \/ AttemptLike(p) \/ markDispatched(p) \/ SendLike(p) \/ FinishLike(p)
    \/ \E t \in Targets : bindActionTarget(p, t)
    \/ \E c \in Contents : HandleView(p, c)

------------------------------------------------------------------------------
(* Properties.                                                             *)

\* An action is written to the platform at most once, whatever crashes, expires or is
\* claimed again: a dispatched row is reconciled, never replayed.
WriteOnce == \A i \in Ids : writes[i] <= 1

\* Every obligation is earned: the joins of a revision never exceed what its confirmed likes
\* pay for, nor its comments what its confirmed joins pay for, with the counters added.
Count(r, t) == Cardinality({i \in Ids : act[i].type = t /\ act[i].rev = r})
Confirmed(r, t) == Cardinality({i \in Ids : act[i].type = t /\ act[i].rev = r /\ act[i].out = "confirmed"})
ObligationsEarned ==
    \A r \in Revs :
       /\ prog[r].likes + LikesPerJoin * Count(r, "join") <= Confirmed(r, "like")
       /\ prog[r].joins + JoinsPerComment * Count(r, "comment") <= Confirmed(r, "join")

\* The slot of a revision never points at a row that has ended or is another revision's: a
\* dangling slot would refuse every view of the account.
SlotIsOpen ==
    \A r \in Revs : prog[r].slot # 0 =>
       act[prog[r].slot].state # "terminal" /\ act[prog[r].slot].rev = r

==============================================================================
