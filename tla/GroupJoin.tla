------------------------------ MODULE GroupJoin ------------------------------
(***************************************************************************)
(* Joining Facebook groups: the target and membership ledgers (one row per *)
(* group, so that one account owns it), the scheduler that claims a group, *)
(* observes it, clicks and records the verdict, the manual and the mode    *)
(* variants of that run, the reconciliation of an uncertain join, coverage *)
(* comments in joined groups, and the operator's reclaim.                  *)
(*                                                                         *)
(* Sources: src/src/comment-agent/facebook-group-store.ts,                 *)
(* facebook-group-join-scheduler.ts and facebook-group-join-edge-steps.ts. *)
(*                                                                         *)
(* Abstractions.  A label scope is the set of accounts it admits.  Any     *)
(* open row may be past its ttl, any cooldown may run out.                 *)
(* The reason token releaseModeJoining compares is the run's own: one run  *)
(* per account, and every run begins by overwriting it.  A verdict and the *)
(* write it causes are one step; a failing write leaves the run with the   *)
(* row as it is (Abandon).                                                 *)
(***************************************************************************)
EXTENDS Naturals, Sequences

CONSTANTS
    Accounts, Groups, Nil,
    MaxAttempts,    \* retryable failures of a row before it is given up
    MaxLeft,        \* requiredConfirmations of a left signal
    MaxRuns,        \* bound: runs an account starts
    MaxOps,         \* bound: operator and projection changes
    MaxEdge         \* bound: join requests on an edge

JoinParameters == Nil \notin Accounts \cup Groups /\ {MaxAttempts, MaxLeft, MaxRuns, MaxOps, MaxEdge} \subseteq Nat
ASSUME GroupAssumption == JoinParameters

VARIABLES
    target,     \* facebook_group_target with its scope rows
    row,        \* facebook_group_membership by group
    fresh,      \* the account projection is ready and fresh
    job,        \* the run of each account (running, triggerSources and the stack)
    cover,      \* the joined group an account is commenting in
    edge,       \* join requests each account's edge has not answered
    member,     \* who is in which group
    forgotten,  \* history: groups whose row was deleted after a dispatch
    crossed,    \* history: runs judged by the answer of another request
    ops, runs   \* what the bounds count

joinVars == <<target, row, fresh, job, cover, edge, member, forgotten, crossed, ops, runs>>

Open == {"assigned", "joining"}
Statuses == Open \cup {"joined", "pending", "gated", "no_button", "checkpoint", "failed", "left"}
NoRow == [acct |-> Nil, st |-> "none", tries |-> 0, cool |-> FALSE, left |-> 0]
NewRow(a) == [NoRow EXCEPT !.acct = a, !.st = "assigned"]
Imported(scope) == [on |-> TRUE, gate |-> "unknown", scope |-> scope]
NoTarget == [on |-> FALSE, gate |-> "none", scope |-> {}]
RunKinds == {"pool", "mode", "reconcile"}
Idle == [pc |-> "idle", kind |-> "pool", g |-> Nil, again |-> FALSE]

JoinTypeOK ==
    /\ target \in [Groups -> [on : BOOLEAN, gate : {"none", "unknown", "instant", "gated"}, scope : SUBSET Accounts]]
    /\ \A g \in Groups : row[g] = NoRow \/ (row[g].acct \in Accounts /\ row[g].st \in Statuses /\ row[g].left \in Nat)
    /\ \A a \in Accounts : job[a].kind \in RunKinds /\ Len(edge[a]) <= MaxEdge
    /\ fresh \in BOOLEAN /\ ops \in 0..MaxOps /\ runs \in 0..MaxRuns /\ cover \in [Accounts -> Groups \cup {Nil}]
    /\ member \subseteq Accounts \X Groups /\ crossed \subseteq Accounts \X Groups /\ forgotten \subseteq Groups

JoinInit ==
    /\ target \in [Groups -> {NoTarget, Imported(Accounts)}]
    /\ row = [g \in Groups |-> NoRow] /\ fresh = TRUE /\ job = [a \in Accounts |-> Idle]
    /\ cover = [a \in Accounts |-> Nil] /\ edge = [a \in Accounts |-> <<>>]
    /\ member = {} /\ forgotten = {} /\ crossed = {} /\ ops = 0 /\ runs = 0

------------------------------------------------------------------------------
(* The ledgers.                                                            *)

Owns(a, g) == row[g].acct = a
OpenOf(a) == {g \in Groups : Owns(a, g) /\ row[g].st \in Open}

\* The candidates of claimNext: enabled, joinable, in scope, unowned, for an account with no open assignment.
claimNext(a) ==
    {g \in Groups : /\ fresh /\ target[g].on /\ target[g].gate \in {"unknown", "instant"}
                    /\ a \in target[g].scope /\ row[g] = NoRow /\ OpenOf(a) = {}}

currentAssignment(a) == {g \in OpenOf(a) : ~row[g].cool}

\* Updates WHERE account_id AND group_url: nothing happens to a row that is gone or another's.
Write(a, g, r) == IF Owns(a, g) THEN [row EXCEPT ![g] = r] ELSE row

\* A mutant: the reset does not ask whose row it is.
claimSpecificTakes(a, g) == [row EXCEPT ![g] = [@ EXCEPT !.acct = a, !.st = "assigned", !.cool = FALSE]]

\* The UPDATE of claimSpecific, without a status predicate.
claimSpecific(a, g) == Write(a, g, [row[g] EXCEPT !.st = "assigned", !.cool = FALSE])

markJoining(a, g) == [row[g] EXCEPT !.st = "joining", !.tries = @ + 1]
releaseModeJoining(a, g) ==
    IF row[g].st = "joining" THEN [row[g] EXCEPT !.st = "assigned", !.tries = @ - 1, !.cool = FALSE] ELSE row[g]
markJoined(a, g) == Write(a, g, [row[g] EXCEPT !.st = "joined"])
markOutcome(a, g, s) == Write(a, g, [row[g] EXCEPT !.st = s, !.cool = FALSE])
markRetryableFailure(a, g) ==
    Write(a, g, IF row[g].tries >= MaxAttempts THEN [row[g] EXCEPT !.st = "failed"]
                ELSE [row[g] EXCEPT !.st = "assigned", !.cool = TRUE])
markJoinGating(g, v) == IF target[g] = NoTarget THEN target ELSE [target EXCEPT ![g].gate = v]

\* The ghost half of a delete: the group is forgotten if a request for it may have been sent.
Forget(gs) == forgotten \cup {g \in gs : row[g].tries > 0}

------------------------------------------------------------------------------
(* A run.                                                                  *)

RunAt(a, pc) == [job EXCEPT ![a].pc = pc]
End(a) == [job EXCEPT ![a] = Idle]

\* The single-flight flag is set before the first await of every entry.
Begin(a, kind, pc, g) ==
    /\ job[a].pc = "idle" /\ runs < MaxRuns /\ runs' = runs + 1
    /\ job' = [job EXCEPT ![a] = [pc |-> pc, kind |-> kind, g |-> g, again |-> FALSE]]

\* triggerScheduled, by the timer or by hand; an offline edge or a quota ends the run (Abandon).
triggerScheduled(a) ==
    /\ Begin(a, "pool", "claim", Nil)
    /\ UNCHANGED <<target, row, fresh, cover, edge, member, forgotten, crossed, ops>>

triggerJoinForMode(a) ==
    /\ Begin(a, "mode", "claim", Nil)
    /\ UNCHANGED <<target, row, fresh, cover, edge, member, forgotten, crossed, ops>>

\* joinSpecificGroup: ensureTarget (disabled, so that the pool never offers it), then claimSpecific.
joinSpecificGroup(a, g) ==
    /\ Begin(a, "pool", "specific", g)
    /\ target' = IF target[g] = NoTarget THEN [target EXCEPT ![g].gate = "unknown"] ELSE target
    /\ UNCHANGED <<row, fresh, cover, edge, member, forgotten, crossed, ops>>

\* claimSpecific inserts a row or, after the conflict, reads the one there is; the SELECT is taken with the
\* INSERT (a row gone in between ends the run, as Abandon does).
ClaimSpecific(a) ==
    LET g == job[a].g IN
    /\ job[a].pc = "specific"
    /\ IF row[g] = NoRow THEN row' = [row EXCEPT ![g] = NewRow(a)] /\ job' = RunAt(a, "mark")
       ELSE UNCHANGED row /\ job' = IF Owns(a, g) /\ row[g].st # "joined" THEN RunAt(a, "reset") ELSE End(a)
    /\ UNCHANGED <<target, fresh, cover, edge, member, forgotten, crossed, ops>>

\* The account's own row is reset; the run goes on with the row it has read if there is none to reset.
ResetSpecific(a) ==
    /\ job[a].pc = "reset" /\ row' = claimSpecific(a, job[a].g) /\ job' = RunAt(a, "mark")
    /\ UNCHANGED <<target, fresh, cover, edge, member, forgotten, crossed, ops>>

\* runReal: an open assignment first, else a new claim, else nothing to do.
runReal(a) ==
    /\ job[a].pc = "claim"
    /\ \/ \E g \in currentAssignment(a) : job' = [job EXCEPT ![a].pc = "revalidate", ![a].g = g] /\ UNCHANGED row
       \/ /\ currentAssignment(a) = {}
          /\ \E g \in claimNext(a) : /\ row' = [row EXCEPT ![g] = NewRow(a)]
                                     /\ job' = [job EXCEPT ![a].pc = "revalidate", ![a].g = g]
       \/ /\ currentAssignment(a) \cup claimNext(a) = {}
          /\ job' = End(a) /\ UNCHANGED row
    /\ UNCHANGED <<target, fresh, cover, edge, member, forgotten, crossed, ops>>

\* revalidateScopedAssignment: a stale projection ends the run, a row out of scope is deleted.
revalidateScopedAssignment(a) ==
    LET g == job[a].g
        gone == fresh /\ Owns(a, g) /\ row[g].st \in Open /\ a \notin target[g].scope
    IN  /\ job[a].pc = "revalidate"
        /\ row' = IF gone THEN [row EXCEPT ![g] = NoRow] ELSE row
        /\ forgotten' = IF gone THEN Forget({g}) ELSE forgotten
        /\ job' = IF fresh /\ ~gone /\ Owns(a, g) /\ row[g].st \in Open THEN RunAt(a, "mark") ELSE End(a)
        /\ UNCHANGED <<target, fresh, cover, edge, member, crossed, ops>>

\* The join is marked before anything is sent; onAssigned may refuse a mode's run before that.
MarkJoining(a) ==
    LET g == job[a].g IN
    /\ job[a].pc = "mark"
    /\ \/ /\ Owns(a, g) /\ row[g].st \in Open
          /\ row' = [row EXCEPT ![g] = markJoining(a, g)]
          /\ job' = RunAt(a, IF job[a].kind = "mode" THEN "hook" ELSE "send")
       \/ /\ job[a].kind = "mode" \/ ~Owns(a, g) \/ row[g].st \notin Open
          /\ job' = End(a) /\ UNCHANGED row
    /\ UNCHANGED <<target, fresh, cover, edge, member, forgotten, crossed, ops>>

\* onBeforeDispatch: refused, the attempt is taken back.
BeforeDispatch(a) ==
    LET g == job[a].g IN
    /\ job[a].pc = "hook"
    /\ \/ job' = RunAt(a, "send") /\ UNCHANGED row
       \/ row' = Write(a, g, releaseModeJoining(a, g)) /\ job' = End(a)
    /\ UNCHANGED <<target, fresh, cover, edge, member, forgotten, crossed, ops>>

\* reconcileForMode: looks at a group whose join is uncertain, never clicks.
reconcileForMode(a, g) ==
    /\ Begin(a, "reconcile", "send", g)
    /\ UNCHANGED <<target, row, fresh, cover, edge, member, forgotten, crossed, ops>>

------------------------------------------------------------------------------
(* The edge.                                                               *)

\* markEdgeFailure by class of reason.
markEdgeFailure(a, g, why) ==
    /\ row' = IF why = "login" THEN markRetryableFailure(a, g)
              ELSE markOutcome(a, g, IF why \in {"pending", "no_button"} THEN why ELSE "failed")
    /\ target' = IF why \in {"pending", "no_button"} THEN markJoinGating(g, "gated") ELSE target

\* Under a lease: the request leaves for the edge, or no edge is connected, or the lease is refused.
Request(a) ==
    LET g == job[a].g
        click == job[a].pc = "click"
    IN  /\ job[a].pc \in {"send", "click"}
        /\ \/ /\ Len(edge[a]) < MaxEdge
              /\ edge' = [edge EXCEPT ![a] = Append(@, [g |-> g, click |-> click])]
              /\ job' = RunAt(a, IF click THEN "clicking" ELSE "observing")
              /\ UNCHANGED <<target, row>>
           \/ /\ job' = End(a) /\ UNCHANGED edge
              /\ IF job[a].kind = "reconcile" THEN UNCHANGED <<target, row>> ELSE markEdgeFailure(a, g, "lease")
        /\ UNCHANGED <<fresh, cover, member, forgotten, crossed, ops>>

\* handlePreVerdict, by what the page shows; an unready page is looked at once more.
handlePreVerdict(a, g, see) ==
    \/ see = "cta" /\ job' = RunAt(a, "click") /\ UNCHANGED <<target, row>>
    \/ see = "member" /\ row' = markJoined(a, g) /\ job' = End(a) /\ UNCHANGED target
    \/ /\ see = "gated" /\ row' = markOutcome(a, g, "gated") /\ target' = markJoinGating(g, "gated") /\ job' = End(a)
    \/ /\ see = "unready" /\ ~job[a].again
       /\ job' = [job EXCEPT ![a].pc = "send", ![a].again = TRUE] /\ UNCHANGED <<target, row>>
    \/ /\ see \in {"unclear", "login", "pending", "no_button"} \/ (see = "unready" /\ job[a].again)
       /\ markEdgeFailure(a, g, see) /\ job' = End(a)

\* A mutant: a request that awaits approval counts as a join.
handlePostVerdictEager(a, g, see) ==
    /\ job' = End(a)
    /\ IF see \in {"member", "gated"} THEN row' = markJoined(a, g) /\ UNCHANGED target ELSE markEdgeFailure(a, g, "failed")

\* handlePostVerdict: joined, awaiting approval, or failed; a member's page of a click the edge does not
\* report as done (edgeOk) is a failure too.
handlePostVerdict(a, g, see) ==
    /\ job' = End(a)
    /\ \/ see = "member" /\ row' = markJoined(a, g) /\ target' = markJoinGating(g, "instant")
       \/ see = "gated" /\ row' = markOutcome(a, g, "pending") /\ target' = markJoinGating(g, "gated")
       \/ see # "gated" /\ markEdgeFailure(a, g, see)

\* The verdict of a reconciliation: only a page of this very group that shows a member is written.
Reconciled(a, g, ans) ==
    /\ job' = End(a) /\ UNCHANGED target
    /\ row' = IF ans.g = g /\ ~ans.click /\ ans.pre = "member" THEN markJoined(a, g) ELSE row

\* sendAndAwaitJoin: the first join_group answer is taken, whichever request it answers.
Answered(a, ans) ==
    LET g == job[a].g IN
    /\ crossed' = IF job[a].kind # "reconcile" /\ (ans.g # g \/ ans.click # (job[a].pc = "clicking"))
                  THEN crossed \cup {<<a, g>>} ELSE crossed
    /\ IF job[a].kind = "reconcile" THEN Reconciled(a, g, ans)
       ELSE IF job[a].pc = "observing" THEN handlePreVerdict(a, g, ans.pre)
       ELSE handlePostVerdict(a, g, ans.post)

\* What a page can show: a member is seen as one or not at all, never without being one.
Sees(isMember) == {"unready", "unclear", "login", "pending", "no_button"} \cup (IF isMember THEN {"member"} ELSE {"cta", "gated"})

\* The edge answers its oldest request; a click may have made the account a member.
EdgeAnswers(a) ==
    LET r == Head(edge[a]) IN
    /\ edge[a] # <<>> /\ edge' = [edge EXCEPT ![a] = Tail(@)]
    /\ \E lands \in {FALSE, r.click}, pre \in Sees(<<a, r.g>> \in member) :
         LET now == member \cup (IF lands THEN {<<a, r.g>>} ELSE {})
         IN  /\ lands => pre = "cta"
             /\ member' = now
             /\ IF job[a].pc \in {"observing", "clicking"}
                THEN \E post \in (IF r.click THEN Sees(<<a, r.g>> \in now) ELSE {pre}) :
                       Answered(a, [g |-> r.g, click |-> r.click, pre |-> pre, post |-> post])
                ELSE UNCHANGED <<target, row, job, crossed>>
    /\ UNCHANGED <<fresh, cover, forgotten, ops>>

\* The edge goes away with what it was doing.
EdgeGone(a) ==
    /\ edge[a] # <<>> /\ edge' = [edge EXCEPT ![a] = <<>>]
    /\ UNCHANGED <<target, row, fresh, job, cover, member, forgotten, crossed, ops>>

\* A mutant: only an observation has a timer.
StepTimeoutObserving(a) ==
    /\ job[a].pc = "observing" /\ job' = End(a)
    /\ UNCHANGED <<target, row, fresh, cover, edge, member, forgotten, crossed, ops>>

\* The step times out; its request stays where it is.
StepTimeout(a) ==
    /\ job[a].pc \in {"observing", "clicking"} /\ job' = End(a)
    /\ IF job[a].kind = "reconcile" THEN UNCHANGED <<target, row>> ELSE markEdgeFailure(a, job[a].g, "timeout")
    /\ UNCHANGED <<fresh, cover, edge, member, forgotten, crossed, ops>>

\* A store call throws, or the process restarts: the run is over, the row stays as it is.
Abandon(a) ==
    /\ job[a].pc # "idle" /\ job' = End(a)
    /\ UNCHANGED <<target, row, fresh, cover, edge, member, forgotten, crossed, ops>>

------------------------------------------------------------------------------
(* Coverage comments in joined groups.                                     *)

coverageCandidates(a, relaxed) ==
    {g \in Groups : fresh /\ Owns(a, g) /\ row[g].st = "joined" /\ (relaxed \/ ~row[g].cool)}

StartCoverage(a) ==
    /\ cover[a] = Nil /\ \E relaxed \in BOOLEAN : \E g \in coverageCandidates(a, relaxed) : cover' = [cover EXCEPT ![a] = g]
    /\ UNCHANGED <<target, row, fresh, job, edge, member, forgotten, crossed, ops>>

recordCoverageCommented(a, g) ==
    IF Owns(a, g) /\ row[g].st = "joined" THEN [row EXCEPT ![g].cool = TRUE, ![g].left = 0] ELSE row

\* recordCoverageLeftSignal as it is wired, without demoteNow.  The count survives a later rejoin.
recordCoverageLeftSignal(a, g) ==
    IF ~Owns(a, g) \/ row[g].st # "joined" THEN row
    ELSE [row EXCEPT ![g].left = @ + 1, ![g].st = IF row[g].left + 1 >= MaxLeft THEN "left" ELSE @]

EndCoverage(a) ==
    /\ cover[a] # Nil /\ cover' = [cover EXCEPT ![a] = Nil]
    /\ row' \in {row, recordCoverageCommented(a, cover[a]), recordCoverageLeftSignal(a, cover[a])}
    /\ UNCHANGED <<target, fresh, job, edge, member, forgotten, crossed, ops>>

------------------------------------------------------------------------------
(* The operator, the projection and time.                                  *)

Op == ops < MaxOps /\ ops' = ops + 1

\* reclaimStaleAssignments: every open row past the ttl, a run in flight or not.
reclaimStaleAssignments ==
    /\ Op
    /\ \E gs \in SUBSET {g \in Groups : row[g].st \in Open} :
         row' = [g \in Groups |-> IF g \in gs THEN NoRow ELSE row[g]] /\ forgotten' = Forget(gs)
    /\ UNCHANGED <<target, fresh, job, cover, edge, member, crossed>>

\* importTargets: a new group is enabled and in the scope asked for, an old one keeps its switches.
importTargets(g) ==
    /\ Op /\ target[g] = NoTarget
    /\ \E s \in SUBSET Accounts : (s # {} => fresh) /\ target' = [target EXCEPT ![g] = Imported(s)]
    /\ UNCHANGED <<row, fresh, job, cover, edge, member, forgotten, crossed>>

setEnabled(g) ==
    /\ Op /\ target[g] # NoTarget /\ \E on \in BOOLEAN : target' = [target EXCEPT ![g].on = on]
    /\ UNCHANGED <<row, fresh, job, cover, edge, member, forgotten, crossed>>

\* replaceTargetScopes: labels are only accepted from a fresh projection.
replaceTargetScopes(g) ==
    /\ Op /\ target[g] # NoTarget
    /\ \E s \in SUBSET Accounts : (s # {} => fresh) /\ target' = [target EXCEPT ![g].scope = s]
    /\ UNCHANGED <<row, fresh, job, cover, edge, member, forgotten, crossed>>

ProjectionTurns ==
    /\ Op /\ fresh' = ~fresh
    /\ UNCHANGED <<target, row, job, cover, edge, member, forgotten, crossed>>

TimePasses(g) ==
    /\ row[g].cool /\ row' = [row EXCEPT ![g].cool = FALSE]
    /\ UNCHANGED <<target, fresh, job, cover, edge, member, forgotten, crossed, ops>>

------------------------------------------------------------------------------

JoinStep(a) ==
    \/ ClaimSpecific(a) \/ ResetSpecific(a) \/ runReal(a) \/ revalidateScopedAssignment(a) \/ MarkJoining(a) \/ BeforeDispatch(a)
    \/ Request(a) \/ StepTimeout(a)

JoinNext ==
    \/ \E a \in Accounts :
         \/ triggerScheduled(a) \/ triggerJoinForMode(a)
         \/ \E g \in Groups : joinSpecificGroup(a, g) \/ reconcileForMode(a, g)
         \/ UNCHANGED runs /\ (JoinStep(a) \/ EdgeAnswers(a) \/ EdgeGone(a) \/ Abandon(a) \/ StartCoverage(a) \/ EndCoverage(a))
    \/ UNCHANGED runs /\ 
         (\/ reclaimStaleAssignments \/ ProjectionTurns
          \/ \E g \in Groups : importTargets(g) \/ setEnabled(g) \/ replaceTargetScopes(g) \/ TimePasses(g))

\* A run goes on by itself: every wait of a step has its timer.
JoinFairness == \A a \in Accounts : WF_joinVars(JoinStep(a) /\ UNCHANGED runs)

JoinSpec == JoinInit /\ [][JoinNext]_joinVars /\ JoinFairness

------------------------------------------------------------------------------
(* Properties.                                                             *)

(***************************************************************************)
(* Two of our accounts are in one group only if the row that kept the      *)
(* second away was deleted after a join had been dispatched under it, by   *)
(* reclaimStaleAssignments or by a scope change: timeouts, crashes, manual *)
(* joins and lost answers never free a group somebody may have joined.     *)
(***************************************************************************)
OneAccountPerGroup ==
    \A g \in Groups \ forgotten : \A a, b \in Accounts : <<a, g>> \in member /\ <<b, g>> \in member => a = b

(***************************************************************************)
(* A row says joined only of an account that is in the group, except that  *)
(* a run may have been judged by the late answer of another request (the   *)
(* steps match answers by action name alone).                              *)
(***************************************************************************)
JoinedIsMember ==
    \A g \in Groups : row[g].st = "joined" => <<row[g].acct, g>> \in member \cup crossed

(***************************************************************************)
(* What joined means, step by step: a row becomes joined only for an       *)
(* account that is in the group (JoinedIsMember), and a joined row is never *)
(* deleted, handed over or overwritten by a late failure: only a confirmed *)
(* left signal ends it, although the outcome updates carry no status       *)
(* predicate.                                                              *)
(***************************************************************************)
JoinedHolds ==
    [][/\ JoinedIsMember'
       /\ \A g \in Groups :
            row[g].st = "joined" => row'[g].acct = row[g].acct /\ row'[g].st \in {"joined", "left"}]_joinVars

(***************************************************************************)
(* Every run ends and frees the single-flight flag of its account, whether *)
(* or not the edge ever answers.                                           *)
(***************************************************************************)
RunsEnd == \A a \in Accounts : job[a].pc # "idle" ~> job[a].pc = "idle"

==============================================================================
