------------------------------ MODULE Publish ------------------------------
(***************************************************************************)
(* Publishing for one account: the scheduler's claims and the drafts they  *)
(* generate, human approval by revision, the dispatcher with its account   *)
(* queue, breaker and retry budgets, the command sequence on the edge, and *)
(* the reconciler of scheduled posts.                                      *)
(*                                                                         *)
(* Sources: src/src/publish-agent/publish-dispatcher.ts,                   *)
(* command-sequencer.ts, publish-scheduler.ts, publish-dispatch-trigger.ts,*)
(* scheduled-publish-reconciler.ts, src/src/automation-publish-dispatch.ts.*)
(*                                                                         *)
(* Abstractions.  A draft is its status and its version.  The commands     *)
(* before submit_publish are one step.  The approval authority and the     *)
(* draft store are external: compare-and-set on the revision, answers that *)
(* may be lost.  A lease is granted behind every answer of the previous    *)
(* one, as the edge's channel is in order.  Notices are left out.          *)
(***************************************************************************)
EXTENDS Naturals, Sequences, FiniteSets, Functions

CONSTANTS
    Records, None,
    Scheduled,        \* the drafts in mode scheduled
    PendingCap, MaxRuns,                      \* limits of the scheduler
    Threshold, PreemptMax, DeferMax,          \* limits of the dispatcher
    MaxAttempts,      \* of the reconciler
    Drafted,          \* the drafts that wait when the process starts
    MaxHuman, MaxCalls, MaxFaults                       \* bounds: approvals and edits; calls; crashes, drops and failed writes

VARIABLES
    draft,      \* status, version and reconcile attempts of each draft
    claims,     \* the scheduler's claims
    appr,       \* the approval authority's row of each draft
    calls,      \* dispatch calls that await the draft
    inFlight,
    queue,      \* accountTail
    run,        \* the dispatch at the head of the queue
    fails, open,        \* the breaker
    preempts, defers,   \* retry budgets used
    edge,       \* the submit command at the edge
    answer,     \* the edge's answer on its way
    media,      \* the reserved media of each draft
    faults,
    granted, posts, charged, doubt   \* history: approvals given, posts made, quota charged, writes and runs lost

vars == <<draft, claims, appr, calls, inFlight, queue, run, fails, open, preempts, defers,
          edge, answer, media, faults, granted, posts, charged, doubt>>

memory == <<calls, inFlight, queue, run, fails, open, preempts, defers>>
history == <<granted, posts, charged, doubt>>

NoRun == [pc |-> "idle", r |-> None, rev |-> 0, ver |-> 0, out |-> "none", todo |-> <<>>, pushed |-> FALSE]
Statuses == {"none", "pending", "published", "submitted", "scheduled", "review", "failed", "rejected"}

Init ==
    /\ draft = [r \in Records |-> [st |-> IF r \in Drafted THEN "pending" ELSE "none", ver |-> 1, att |-> 0]]
    /\ claims = {}
    /\ appr = [r \in Records |-> [st |-> "none", rev |-> 0, cv |-> 0]]
    /\ calls = {} /\ inFlight = {} /\ queue = <<>> /\ run = NoRun
    /\ fails = 0 /\ open = FALSE /\ preempts = [r \in Records |-> 0] /\ defers = [r \in Records |-> 0]
    /\ edge = None /\ answer = None /\ media = [r \in Records |-> "reserved"] /\ faults = 0
    /\ granted = {} /\ posts = {} /\ charged = [r \in Records |-> 0] /\ doubt = {}

TypeOK ==
    /\ \A r \in Records : draft[r].st \in Statuses /\ media[r] \in {"reserved", "free", "used", "quarantine"}
    /\ inFlight \subseteq Records /\ doubt \subseteq Records /\ open \in BOOLEAN /\ fails \in Nat
    /\ \A r \in Records : appr[r].st \in {"none", "pending", "dispatching", "consumed", "void"}

------------------------------------------------------------------------------
(* The scheduler: a claim, a generation, a draft.                          *)

PendingCount == Cardinality({r \in Records : draft[r].st = "pending"})

\* tryClaim: one claim for a key, a cap for the account, a limit for the process; the pending count was read a while ago.
tryClaim(r) ==
    /\ r \notin claims /\ Cardinality(claims) < MaxRuns /\ claims' = claims \cup {r}
    /\ \E seen \in 0..PendingCount : Cardinality(claims) + seen < PendingCap

\* The five entries: persona, risk and content let the account through.
Trigger(r) ==
    /\ draft[r].st = "none" /\ tryClaim(r)
    /\ UNCHANGED <<draft, appr, memory, edge, answer, media, faults, history>>

\* runClaimed: a draft, or none; the claim goes in any case.
runClaimed(r) ==
    /\ r \in claims /\ claims' = claims \ {r}
    /\ draft' = [draft EXCEPT ![r].st = "pending"] \/ draft' = draft
    /\ UNCHANGED <<appr, memory, edge, answer, media, faults, history>>

------------------------------------------------------------------------------
(* Humans and the approval authority.                                      *)

Call(r) == [r |-> r, rev |-> 0, human |-> FALSE]

\* dispatch up to its await: a call for a record in flight is ignored.  MaxCalls bounds the calls.
Room(r) == r \notin inFlight /\ Cardinality(calls) + Len(queue) < MaxCalls

\* A human may act once more.
Acts == Cardinality(granted) + FoldFunction(LAMBDA d, n : d.ver - 1 + n, 0, draft) < MaxHuman

\* A decision and its wake-up, which may be lost and is not taken twice (decisionWakeups).
Approve(r) ==
    LET a == [st |-> "pending", rev |-> appr[r].rev + 1, cv |-> draft[r].ver] IN
    /\ draft[r].st = "pending" /\ Acts
    /\ appr' = [appr EXCEPT ![r] = a] /\ granted' = granted \cup {<<r, a.rev, a.cv>>}
    /\ UNCHANGED calls \/ (Room(r) /\ calls' = calls \cup {[Call(r) EXCEPT !.rev = a.rev]})
    /\ UNCHANGED <<draft, claims, inFlight, queue, run, fails, open, preempts, defers, edge, answer, media, faults, posts, charged, doubt>>

Edit(r) ==
    /\ draft[r].st = "pending" /\ Acts /\ draft' = [draft EXCEPT ![r].ver = @ + 1]
    /\ UNCHANGED <<claims, appr, memory, edge, answer, media, faults, history>>

\* The authority's compare-and-set.
Held(r, rev, st) == appr[r].rev = rev /\ appr[r].st = st
Approved(r) == appr[r].st \in {"pending", "dispatching", "consumed"}

\* rejectCandidate: the authority takes a rejection only where no approval stands (else candidate_already_approved).
rejectCandidate(r) ==
    /\ draft[r].st = "pending" /\ ~Approved(r) /\ appr' = [appr EXCEPT ![r].st = "void"]
    /\ UNCHANGED <<draft, claims, memory, edge, answer, media, faults, history>>

\* Then the draft.  notifyPublishRejected, called behind it, finds no waiting draft and leaves the media reserved.
rejectPendingApproval(r) ==
    /\ draft[r].st = "pending" /\ appr[r].st = "void" /\ draft' = [draft EXCEPT ![r].st = "rejected"]
    /\ UNCHANGED <<claims, appr, memory, edge, answer, media, faults, history>>

\* triggerApproved by a human who confirms again: it matters to an open breaker.
triggerApproved(r) ==
    /\ Approved(r) /\ open /\ Room(r)
    /\ calls' = calls \cup {[r |-> r, rev |-> appr[r].rev, human |-> TRUE]}
    /\ UNCHANGED <<draft, claims, appr, inFlight, queue, run, fails, open, preempts, defers, edge, answer, media, faults, history>>

------------------------------------------------------------------------------
(* dispatch and the account queue.                                         *)

\* scanAndDispatchApproved: the approvals still to be dispatched are called, one after the other.
scanAndDispatchApproved(r) ==
    /\ appr[r].st = "pending" /\ Room(r) /\ calls' = calls \cup {Call(r)}
    /\ UNCHANGED <<draft, claims, appr, inFlight, queue, run, fails, open, preempts, defers, edge, answer, media, faults, history>>

\* dispatch past its await: a human clears the breaker, an open one refuses, else the call queues.
dispatch(c) ==
    /\ c \in calls /\ calls' = calls \ {c}
    /\ open' = (open /\ ~c.human) /\ fails' = IF c.human /\ open THEN 0 ELSE fails
    /\ IF open' THEN UNCHANGED <<inFlight, queue>>
       ELSE inFlight' = inFlight \cup {c.r} /\ queue' = Append(queue, [r |-> c.r, rev |-> c.rev])
    /\ UNCHANGED <<draft, claims, appr, run, preempts, defers, edge, answer, media, faults, history>>

\* The head of the queue ends: its record leaves inFlight, even when another call for it waits behind.
EndRun == run' = NoRun /\ queue' = Tail(queue) /\ inFlight' = inFlight \ {Head(queue).r}
Step(pc) == run' = [run EXCEPT !.pc = pc] /\ UNCHANGED <<queue, inFlight>>

\* A mutant: the breaker is not looked at again when the call's turn comes.
SkippedNever == FALSE

\* A call that waited while the breaker opened is skipped.
Skipped == open

\* runDispatch: the draft is read, and must wait for approval.
LoadDraft ==
    LET c == Head(queue) IN
    /\ queue # <<>> /\ run.pc = "idle"
    /\ IF Skipped \/ draft[c.r].st # "pending" THEN EndRun
       ELSE /\ run' = [NoRun EXCEPT !.pc = "read", !.r = c.r, !.ver = draft[c.r].ver]
            /\ UNCHANGED <<queue, inFlight>>
    /\ UNCHANGED <<draft, claims, appr, calls, fails, open, preempts, defers, edge, answer, media, faults, history>>

\* A mutant: the version of the draft is not compared with the one approved.
SameVersionAlways == TRUE

SameVersion == appr[run.r].cv = run.ver

\* The approval is read: unreadable, absent or of another revision ends the run, another version voids it.
ReadApproval ==
    LET c == Head(queue) IN
    /\ run.pc = "read"
    /\ \/ EndRun /\ UNCHANGED appr
       \/ /\ Approved(run.r) /\ c.rev \in {0, appr[run.r].rev} /\ ~SameVersion /\ EndRun
          /\ appr' = [appr EXCEPT ![run.r].st = "void"]
       \/ /\ Approved(run.r) /\ c.rev \in {0, appr[run.r].rev} /\ SameVersion /\ UNCHANGED appr
          /\ run' = [run EXCEPT !.pc = "gates", !.rev = appr[run.r].rev] /\ UNCHANGED <<queue, inFlight>>
    /\ UNCHANGED <<draft, claims, calls, fails, open, preempts, defers, edge, answer, media, faults, history>>

\* What an unfit draft fails on, and an edge that is away or paused.
Gates ==
    /\ run.pc = "gates"
    /\ \/ Step("lease") /\ UNCHANGED <<draft, media>>
       \/ EndRun /\ UNCHANGED <<draft, media>>
       \/ EndRun /\ draft' = [draft EXCEPT ![run.r].st = "failed"] /\ media' = [media EXCEPT ![run.r] = "free"]
    /\ UNCHANGED <<claims, appr, calls, fails, open, preempts, defers, edge, answer, faults, history>>

\* lease_unconfirmed: whatever throws before submit_publish takes the approval back.
Unconfirmed == EndRun /\ appr' = IF appr[run.r].rev = run.rev THEN [appr EXCEPT ![run.r].st = "void"] ELSE appr

\* withLease: granted, no browser slot yet (the approval stays), or not confirmed.
Lease ==
    /\ run.pc = "lease"
    /\ \/ edge = None /\ answer = None /\ Step("mark") /\ UNCHANGED appr
       \/ EndRun /\ UNCHANGED appr
       \/ Unconfirmed
    /\ UNCHANGED <<draft, claims, calls, fails, open, preempts, defers, edge, answer, media, faults, history>>

\* A mutant: the authority does not ask which state the revision is in.
MayDispatchAgain == appr[run.r].rev = run.rev

MayDispatch == Held(run.r, run.rev, "pending")

\* markDispatching: no command leaves before the authority has said yes; an answer lost leaves it dispatching.
markDispatching ==
    /\ run.pc = "mark"
    /\ \/ MayDispatch /\ appr' = [appr EXCEPT ![run.r].st = "dispatching"] /\ Step("prepare") /\ UNCHANGED faults
       \/ /\ MayDispatch /\ faults < MaxFaults /\ faults' = faults + 1
          /\ appr' = [appr EXCEPT ![run.r].st = "dispatching"] /\ EndRun
       \/ ~MayDispatch /\ EndRun /\ UNCHANGED <<appr, faults>>
    /\ UNCHANGED <<draft, claims, calls, fails, open, preempts, defers, edge, answer, media, history>>

------------------------------------------------------------------------------
(* The command sequence.                                                   *)

\* What runDispatch does with each outcome, in order.
Plan(out) ==
    CASE out \in {"published", "submitted"} -> <<"settle", "status", "charge", "consume">>
      [] out = "scheduled"                  -> <<"consume", "status">>
      [] out = "preempted"                  -> <<"settle", "release", "retry">>
      [] out = "deferred"                   -> <<"settle", "release", "retry">>
      [] out \in {"exhausted", "structural"} -> <<"settle", "status", "consume">>
      [] out \in {"unknown", "exception"}   -> <<"settle", "status", "consume", "trip">>

Outcome(out) ==
    LET o == IF out = "deferred" /\ defers[run.r] + 1 > DeferMax THEN "exhausted" ELSE out IN
    /\ run' = [run EXCEPT !.pc = "after", !.out = o, !.todo = Plan(o)]
    /\ preempts' = IF o \in {"preempted", "deferred"} THEN preempts ELSE [preempts EXCEPT ![run.r] = 0]
    /\ defers' = [defers EXCEPT ![run.r] = IF o = "deferred" THEN @ + 1 ELSE IF o = "preempted" THEN @ ELSE 0]
    /\ fails' = IF o = "published" THEN 0 ELSE fails
    /\ UNCHANGED <<queue, inFlight, open, calls>>

Submitted == IF run.r \in Scheduled THEN "scheduled" ELSE "submitted"

\* executePublishSequence up to submit_publish: it goes on, or ends with nothing on the platform.
Prepare ==
    /\ run.pc = "prepare"
    /\ \/ /\ run' = [run EXCEPT !.pc = "submit", !.pushed = TRUE]
          /\ edge' = [r |-> run.r, rev |-> run.rev, ver |-> run.ver]
          /\ UNCHANGED <<queue, inFlight, calls, preempts, defers, fails, open>>
          /\ UNCHANGED appr
       \/ \E out \in {"structural", "deferred", "preempted"} : Outcome(out) /\ UNCHANGED <<edge, appr>>
       \/ Outcome(Submitted) /\ UNCHANGED <<edge, appr>>    \* yield_timeout
       \/ Unconfirmed /\ UNCHANGED <<edge, calls, preempts, defers, fails, open>>    \* it throws
    /\ UNCHANGED <<draft, claims, answer, media, faults, history>>

\* classifyFailureOutcome once submit_publish has left.
classifyFailureOutcome(a) ==
    CASE a \in {"dispatched", "yield"} -> Submitted
      [] a = "preempted" -> "preempted"
      [] OTHER -> "unknown"

\* onResult and preemptTask: the answer to submit_publish.
onResult ==
    /\ answer # None /\ answer' = None
    /\ IF run.pc = "submit"
       THEN IF answer = "ok" THEN run' = [run EXCEPT !.pc = "capture"] /\ UNCHANGED <<queue, inFlight, calls, preempts, defers, fails, open>>
            ELSE Outcome(classifyFailureOutcome(answer))
       ELSE UNCHANGED memory
    /\ UNCHANGED <<draft, claims, appr, edge, media, faults, history>>

\* sendAndWaitResult's timer, and an exception of the driver after submit_publish has left.
SubmitTimeout ==
    /\ run.pc = "submit" /\ (Outcome("unknown") \/ Outcome("exception"))
    /\ UNCHANGED <<draft, claims, appr, edge, answer, media, faults, history>>

\* capture_postId: the post's identity, or not.
Capture ==
    /\ run.pc = "capture"
    /\ Outcome(IF run.r \in Scheduled THEN "scheduled" ELSE "published") \/ Outcome(Submitted)
    /\ UNCHANGED <<draft, claims, appr, edge, answer, media, faults, history>>

\* The edge presses the button and says so, or its lease runs out on it; it refuses, or gives its lease away first.
Pressed == [r |-> edge.r, rev |-> edge.rev, ver |-> edge.ver,
            k |-> 1 + Cardinality({p \in posts : p.r = edge.r /\ p.rev = edge.rev})]
EdgeSubmits ==
    /\ edge # None /\ edge' = None
    /\ \/ posts' = posts \cup {Pressed} /\ answer' \in {"ok", "dispatched", "yield"}
       \/ UNCHANGED posts /\ answer' \in {"failed", "preempted", "yield"}
    /\ UNCHANGED <<draft, claims, appr, memory, media, faults, granted, charged, doubt>>

\* invalidateEdge: the connection goes with what was on it; the button may have been pressed.
Disconnect ==
    /\ run.pc \in {"prepare", "submit", "capture"} /\ faults < MaxFaults /\ faults' = faults + 1
    /\ edge' = None /\ answer' = None
    /\ posts' = posts \/ (edge # None /\ posts' = posts \cup {Pressed})
    /\ Outcome(CASE run.pc = "prepare" -> "deferred" [] run.pc = "submit" -> "unknown" [] OTHER -> Submitted)
    /\ UNCHANGED <<draft, claims, appr, media, granted, charged, doubt>>

------------------------------------------------------------------------------
(* What follows an outcome.                                                *)

StatusOf(out) == IF out \in {"published", "submitted", "scheduled"} THEN out ELSE "failed"
MediaOf(out) == CASE out = "published" -> "used" [] out \in {"submitted", "exception"} -> "quarantine" [] OTHER -> "free"

\* A step whose failure is logged and no more.
Faulty == faults < MaxFaults /\ faults' = faults + 1
Then == IF Tail(run.todo) = <<>> THEN EndRun
        ELSE run' = [run EXCEPT !.todo = Tail(run.todo)] /\ UNCHANGED <<queue, inFlight>>
Todo(s) == run.pc = "after" /\ Head(run.todo) = s
others == <<claims, edge, answer, granted, posts>>

settleFacebookMedia ==
    /\ Todo("settle") /\ Then /\ media' = [media EXCEPT ![run.r] = MediaOf(run.out)]
    /\ UNCHANGED <<draft, appr, calls, fails, open, preempts, defers, faults, charged, doubt, others>>

\* updatePostId, updateStatus, markScheduled; a schedule that cannot be written becomes needs_review.
WriteStatus ==
    /\ Todo("status") /\ Then
    /\ \/ draft' = [draft EXCEPT ![run.r].st = StatusOf(run.out)] /\ UNCHANGED <<faults, doubt>>
       \/ Faulty /\ UNCHANGED draft /\ doubt' = doubt \cup {run.r}
       \/ Faulty /\ run.out = "scheduled" /\ draft' = [draft EXCEPT ![run.r].st = "review"] /\ UNCHANGED doubt
    /\ UNCHANGED <<appr, calls, fails, open, preempts, defers, media, charged, others>>

recordActuatedPublish ==
    /\ Todo("charge") /\ Then
    /\ \/ charged' = [charged EXCEPT ![run.r] = @ + 1] /\ UNCHANGED faults
       \/ Faulty /\ UNCHANGED charged
    /\ UNCHANGED <<draft, appr, calls, fails, open, preempts, defers, media, doubt, others>>

markConsumed ==
    /\ Todo("consume") /\ Then
    /\ \/ /\ appr' = IF Held(run.r, run.rev, "dispatching") THEN [appr EXCEPT ![run.r].st = "consumed"] ELSE appr
          /\ UNCHANGED faults
       \/ Faulty /\ UNCHANGED appr
    /\ UNCHANGED <<draft, calls, fails, open, preempts, defers, media, charged, doubt, others>>

releaseToPending ==
    /\ Todo("release") /\ Then
    /\ \/ /\ appr' = IF Held(run.r, run.rev, "dispatching") THEN [appr EXCEPT ![run.r].st = "pending"] ELSE appr
          /\ UNCHANGED faults
       \/ Faulty /\ UNCHANGED appr
    /\ UNCHANGED <<draft, calls, fails, open, preempts, defers, media, charged, doubt, others>>

\* schedulePreemptedRedispatch and handleDeferredBeforeSubmit: the call is made after this run.
Retry ==
    LET n == preempts[run.r] + 1
        gone == run.out = "preempted" /\ n >= PreemptMax
    IN  /\ Todo("retry") /\ Then
        /\ preempts' = IF run.out # "preempted" THEN preempts ELSE [preempts EXCEPT ![run.r] = IF gone THEN 0 ELSE n]
        /\ appr' = IF gone /\ appr[run.r].rev = run.rev THEN [appr EXCEPT ![run.r].st = "void"] ELSE appr
        /\ calls' = IF gone THEN calls ELSE calls \cup {Call(run.r)}
        /\ UNCHANGED <<draft, fails, open, defers, media, faults, charged, doubt, others>>

recordSeqFailure ==
    /\ Todo("trip") /\ Then
    /\ fails' = IF fails < Threshold THEN fails + 1 ELSE fails
    /\ open' = (open \/ fails + 1 >= Threshold)
    /\ UNCHANGED <<draft, appr, calls, preempts, defers, media, faults, charged, doubt, others>>

\* What a restart leaves: drafts, approvals, the platform.
Crash ==
    /\ Faulty /\ calls' = {} /\ inFlight' = {} /\ queue' = <<>> /\ run' = NoRun
    /\ fails' = 0 /\ open' = FALSE /\ preempts' = [r \in Records |-> 0] /\ defers' = [r \in Records |-> 0]
    /\ answer' = None /\ claims' = {}
    /\ doubt' = IF run.pushed THEN doubt \cup {run.r} ELSE doubt
    /\ UNCHANGED <<draft, appr, edge, media, granted, posts, charged>>

------------------------------------------------------------------------------
(* The reconciler of scheduled posts.                                      *)

\* reconcileOne: the edge finds the post public, or the next attempt is put off; the last one asks for a human.
reconcileOne(r) ==
    /\ draft[r].st = "scheduled"
    /\ \/ draft' = [draft EXCEPT ![r].st = "published"] /\ charged' = [charged EXCEPT ![r] = @ + 1]
       \/ /\ UNCHANGED charged
          /\ draft' = [draft EXCEPT ![r].att = @ + 1, ![r].st = IF draft[r].att + 1 >= MaxAttempts THEN "review" ELSE @]
    /\ UNCHANGED <<claims, appr, memory, edge, answer, media, faults, granted, posts, doubt>>

------------------------------------------------------------------------------

Dispatcher ==
    \/ LoadDraft \/ ReadApproval \/ Gates \/ Lease \/ markDispatching \/ Prepare \/ Capture \/ SubmitTimeout
    \/ settleFacebookMedia \/ WriteStatus \/ recordActuatedPublish \/ markConsumed \/ releaseToPending
    \/ Retry \/ recordSeqFailure

Next ==
    \/ \E r \in Records : Trigger(r) \/ runClaimed(r) \/ Approve(r) \/ Edit(r) \/ rejectCandidate(r) \/ rejectPendingApproval(r)
    \/ \E r \in Records : triggerApproved(r) \/ scanAndDispatchApproved(r)
    \/ \E c \in calls : dispatch(c)
    \/ Dispatcher \/ onResult \/ EdgeSubmits \/ Disconnect \/ Crash
    \/ \E r \in Records : reconcileOne(r)

Spec == Init /\ [][Next]_vars

------------------------------------------------------------------------------
(* Properties.                                                             *)

(***************************************************************************)
(* Whatever is lost between the dispatcher, the authority, the draft store *)
(* and the edge, an approval is worth one post, and a draft is posted or   *)
(* charged twice only after its status could not be written or a restart   *)
(* cut off its submission, and a human approved it again.                  *)
(***************************************************************************)
PostedOnce ==
    /\ \A p \in posts : p.k = 1
    /\ \A r \in Records : Cardinality({p \in posts : p.r = r}) > 1 \/ charged[r] > 1 => r \in doubt /\ appr[r].rev > 1

(***************************************************************************)
(* What is posted is the version of the draft a human approved under the   *)
(* revision that was dispatched, however edits, approvals and dispatches   *)
(* interleave (the version check of runDispatch).                          *)
(***************************************************************************)
PostedAsApproved == \A p \in posts : <<p.r, p.rev, p.ver>> \in granted

(***************************************************************************)
(* While the breaker of the account is open none of its drafts gets to the *)
(* edge, the calls that were queued before it opened included.             *)
(***************************************************************************)
BreakerStops == open => run.pc \in {"idle", "after"}

==============================================================================
