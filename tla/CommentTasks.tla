---------------------------- MODULE CommentTasks ----------------------------
(***************************************************************************)
(* The comment tasks of one account: the manual and scheduled task that    *)
(* searches and comments under one lease (runTask), the targeted task that *)
(* prepares under one lease and commits under a second (runTargetedTask),  *)
(* the Facebook task (runFacebookTargetedTask) and its mode variant, the   *)
(* single-flight flag, human approval and the ledger of comments made.     *)
(*                                                                         *)
(* Sources: src/src/comment-agent/comment-scheduler.ts, edge-steps.ts,     *)
(* facebook-edge-steps.ts, compose-approve.ts and the wiring in            *)
(* src/src/automation-comment-scheduler.ts.                                *)
(*                                                                         *)
(* Abstractions.  Search, pick, read and composition are one step that     *)
(* finds a note or fails; runTask searches one term.  A receipt says       *)
(* comment, not which one: every task that waits for one takes it, one of  *)
(* the browsing session's too.  The session's own comments are not in the  *)
(* ledger and are not counted.  Texts, cards and audit rows are left out.  *)
(***************************************************************************)
EXTENDS Naturals, Sequences, FiniteSets

CONSTANTS
    Tasks, Notes, None,
    Humans,     \* the tasks a human started: their leases preempt
    KindsOf,    \* the kinds of task each may be
    MaxDrops    \* bound: connections lost

LeaseIds == Tasks \X (1..2)
HumanIds == {l \in LeaseIds : l[1] \in Humans}

VARIABLES
    up, cl, down, back, held, waiting, kept, drops,    \* see EdgeLease
    task,       \* the stack of each task
    running,    \* the single-flight flag of the account
    dedup,      \* notes the ledger says a task commented on
    posted,     \* comments of the tasks on the platform, by note
    doubt       \* history: notes whose comments the cloud lost count of

Lease == INSTANCE EdgeLease WITH Leases <- LeaseIds, Human <- HumanIds

leaseVars == <<up, cl, down, back, held, waiting, kept, drops>>
vars == <<up, cl, down, back, held, waiting, kept, drops, task, running, dedup, posted, doubt>>

Kinds == {"task", "forced", "targeted", "facebook"}
Running == {"acquire", "wait", "work", "approve", "commit", "posting", "record", "release", "released"}

Parameters == None \notin LeaseIds /\ None \notin Notes /\ KindsOf \in [Tasks -> SUBSET Kinds]
ASSUME TaskAssumption == Parameters

Fresh == [pc |-> "idle", kind |-> "task", n |-> None, k |-> 1, ok |-> FALSE, rec |-> FALSE]
LeaseOf(t) == <<t, task[t].k>>

TypeOK ==
    /\ \A t \in Tasks : task[t].pc \in Running \cup {"idle", "preflight", "done"} /\ task[t].kind \in Kinds
    /\ running \in BOOLEAN /\ dedup \subseteq Notes /\ doubt \subseteq Notes
    /\ posted \in [Notes -> Nat] /\ \A l \in LeaseIds : cl[l] \in Lease!ClientStates

Init ==
    /\ Lease!LeaseInit /\ task = [t \in Tasks |-> Fresh] /\ running = FALSE
    /\ dedup = {} /\ posted = [n \in Notes |-> 0] /\ doubt = {}

Goto(t, pc) == task' = [task EXCEPT ![t].pc = pc]
\* The finally of every task: the flag is cleared.
Finish(t) == task' = [task EXCEPT ![t] = [Fresh EXCEPT !.pc = "done"]] /\ running' = FALSE

------------------------------------------------------------------------------
(* Triggers.                                                               *)

Start(t, kind, n) ==
    /\ task' = [task EXCEPT ![t] = [Fresh EXCEPT !.pc = "acquire", !.kind = kind, !.n = n]]
    /\ running' = TRUE
    /\ doubt' = IF \E u \in Tasks \ {t} : task[u].pc \in Running THEN Notes ELSE doubt
    /\ UNCHANGED <<leaseVars, dedup, posted>>

\* triggerForMode: the flag is taken before the first await.
triggerForMode(t) == task[t].pc = "idle" /\ ~running /\ "facebook" \in KindsOf[t] /\ Start(t, "facebook", None)

\* triggerManual and triggerTargeted up to the flag check; then they await the profile and the approval mode.
triggerManual(t) ==
    /\ task[t].pc = "idle" /\ ~running
    /\ \E kind \in KindsOf[t] \ {"targeted"} : task' = [task EXCEPT ![t].pc = "preflight", ![t].kind = kind]
    /\ UNCHANGED <<leaseVars, running, dedup, posted, doubt>>

triggerTargeted(t) ==
    /\ task[t].pc = "idle" /\ ~running /\ "targeted" \in KindsOf[t]
    /\ \E n \in Notes \ dedup : task' = [task EXCEPT ![t].pc = "preflight", ![t].kind = "targeted", ![t].n = n]
    /\ UNCHANGED <<leaseVars, running, dedup, posted, doubt>>

\* The flag is set without looking again.
StartAfterPreflight(t) == task[t].pc = "preflight" /\ Start(t, task[t].kind, task[t].n)

------------------------------------------------------------------------------
(* A task.                                                                 *)

\* A Facebook task without a group, a template, a connection or quota ends before it asks for the lease.
EndsBeforeLease(t) ==
    /\ task[t].pc = "acquire" /\ task[t].kind = "facebook" /\ Finish(t)
    /\ UNCHANGED <<leaseVars, dedup, posted, doubt>>

Acquire(t) ==
    /\ task[t].pc = "acquire" /\ Lease!acquire(LeaseOf(t)) /\ Goto(t, "wait")
    /\ UNCHANGED <<running, dedup, posted, doubt>>

\* withLease: the work begins with the grant, a lease that was refused ends the task.
Granted(t) ==
    /\ task[t].pc = "wait"
    /\ \/ cl[LeaseOf(t)] = "active" /\ Goto(t, IF task[t].kind = "targeted" /\ task[t].k = 2 THEN "commit" ELSE "work")
       \/ cl[LeaseOf(t)] \in {"over", "cancelled"} /\ Goto(t, "released")
    /\ UNCHANGED <<leaseVars, running, dedup, posted, doubt>>

\* The read of the ledger: a read that fails counts as not commented on, a forced task does not ask.
Unseen(t) == IF task[t].kind = "forced" THEN Notes ELSE Notes \ dedup
Choose(t, n) == task' = [task EXCEPT ![t].pc = "approve", ![t].n = n] /\ doubt' = IF n \in dedup THEN doubt \cup {n} ELSE doubt
GiveUp(t) == Goto(t, "release") /\ UNCHANGED doubt

\* runTask under its lease: searchAndHarvest, pick and readNote find a note, or nothing.
SearchAndRead(t) ==
    /\ task[t].pc = "work" /\ task[t].kind \in {"task", "forced"}
    /\ (\E n \in Unseen(t) : Choose(t, n)) \/ GiveUp(t)
    /\ UNCHANGED <<leaseVars, running, dedup, posted>>

\* The Facebook task: searchInContainer and openPost or openFirstPost, the hook of a mode, validation.
OpenPost(t) ==
    /\ task[t].pc = "work" /\ task[t].kind = "facebook"
    /\ (\E n \in Notes : Choose(t, n)) \/ GiveUp(t)
    /\ UNCHANGED <<leaseVars, running, dedup, posted>>

\* runTargetedTask under its first lease: the target is read again, or not found.
PrepareTarget(t) ==
    /\ task[t].pc = "work" /\ task[t].kind = "targeted"
    /\ task' = [task EXCEPT ![t].pc = "release", ![t].ok = TRUE] \/ Goto(t, "release")
    /\ UNCHANGED <<leaseVars, running, dedup, posted, doubt>>

\* buildComposeAndApprove: a targeted task waits for the human without a lease and asks for a second one.
ComposeAndApprove(t) ==
    /\ task[t].pc = "approve" /\ task[t].kind # "facebook"
    /\ IF task[t].kind = "targeted"
       THEN (task' = [task EXCEPT ![t].pc = "acquire", ![t].k = 2] /\ UNCHANGED running) \/ Finish(t)
       ELSE (Goto(t, "commit") \/ Goto(t, "release")) /\ UNCHANGED running
    /\ UNCHANGED <<leaseVars, dedup, posted, doubt>>

\* approveFacebookComment, the final gate and the hook of a mode, under the lease.
approveFacebookComment(t) ==
    /\ task[t].pc = "approve" /\ task[t].kind = "facebook"
    /\ Goto(t, "commit") \/ Goto(t, "release")
    /\ UNCHANGED <<leaseVars, running, dedup, posted, doubt>>

\* The comment leaves for the edge.
Send(t) == up /\ down' = Append(down, [t |-> "comment", l |-> LeaseOf(t), n |-> task[t].n]) /\ Goto(t, "posting")

\* A mutant: nobody looks at the ledger before the commit.
SeenBeforeCommitNever(t) == FALSE

\* The last look at the ledger, which a forced task skips.
SeenBeforeCommit(t) == task[t].kind # "forced" /\ task[t].n \in dedup

\* post: not if the note was commented on meanwhile (when the ledger could be read), not without an edge.
Post(t) ==
    /\ task[t].pc = "commit" /\ task[t].kind # "facebook"
    /\ \/ ~SeenBeforeCommit(t) /\ Send(t) /\ UNCHANGED doubt
       \/ SeenBeforeCommit(t) /\ Send(t) /\ doubt' = doubt \cup {task[t].n}
       \/ (SeenBeforeCommit(t) \/ ~up) /\ GiveUp(t) /\ UNCHANGED down
    /\ UNCHANGED <<up, cl, back, held, waiting, kept, drops, running, dedup, posted>>

\* submitComment does not look again: its lease has kept the browsing session off.
SubmitComment(t) ==
    /\ task[t].pc = "commit" /\ task[t].kind = "facebook"
    /\ Send(t) \/ (~up /\ Goto(t, "release") /\ UNCHANGED down)
    /\ UNCHANGED <<up, cl, back, held, waiting, kept, drops, running, dedup, posted, doubt>>

\* A mutant: the wait ends only while the edge is there.
PostTimeoutConnected(t) ==
    /\ task[t].pc = "posting" /\ up /\ Goto(t, "release") /\ doubt' = doubt \cup {task[t].n}
    /\ UNCHANGED <<leaseVars, running, dedup, posted>>

\* No receipt in time: not_dispatched, nothing is recorded.
PostTimeout(t) ==
    /\ task[t].pc = "posting" /\ Goto(t, "release") /\ doubt' = doubt \cup {task[t].n}
    /\ UNCHANGED <<leaseVars, running, dedup, posted>>

\* recordInteraction: confirmed and unconfirmed alike; a failed write is logged and no more.
Record(t) ==
    /\ task[t].pc = "record"
    /\ \/ dedup' = dedup \cup {task[t].n} /\ UNCHANGED doubt
       \/ UNCHANGED dedup /\ doubt' = doubt \cup {task[t].n}
    /\ IF task[t].kind = "targeted" THEN Finish(t) ELSE Goto(t, "release") /\ UNCHANGED running
    /\ UNCHANGED <<leaseVars, posted>>

\* withLease's finally: a lease that is gone already needs no release.
Release(t) ==
    /\ task[t].pc = "release" /\ Goto(t, "released")
    /\ \/ Lease!release(LeaseOf(t))
       \/ cl[LeaseOf(t)] # "active" /\ UNCHANGED leaseVars
    /\ UNCHANGED <<running, dedup, posted, doubt>>

\* The release has settled: approval of a prepared target, a record still to be made, or the end.
Released(t) ==
    /\ task[t].pc = "released" /\ cl[LeaseOf(t)] # "releasing"
    /\ \/ /\ task[t].kind = "targeted" /\ task[t].k = 1 /\ task[t].ok
          /\ task' = [task EXCEPT ![t].pc = "approve"] /\ UNCHANGED running
       \/ task[t].rec /\ Goto(t, "record") /\ UNCHANGED running
       \/ /\ ~task[t].rec /\ ~(task[t].kind = "targeted" /\ task[t].k = 1 /\ task[t].ok) /\ Finish(t)
    /\ UNCHANGED <<leaseVars, dedup, posted, doubt>>

------------------------------------------------------------------------------
(* The edge and the browsing session.                                      *)

\* Comments on a note are counted until they are in doubt.
OneMore(n) == [posted EXCEPT ![n] = IF n \in doubt THEN @ ELSE @ + 1]

\* The edge comments for the lease it holds and refuses any other.
EdgeComments ==
    LET m == Head(down) IN
    /\ down # <<>> /\ m.t = "comment" /\ down' = Tail(down)
    /\ \E r \in (IF held = m.l THEN {"confirmed", "unconfirmed", "failed"} ELSE {"preempted"}) :
         /\ posted' = IF r \in {"confirmed", "unconfirmed"} THEN OneMore(m.n) ELSE posted
         /\ back' = Append(back, [t |-> "receipt", r |-> r, n |-> m.n])
    /\ UNCHANGED <<up, cl, held, waiting, kept, drops, task, running, dedup, doubt>>

\* action.completed of a comment: every task in posting takes it, whichever note it is about and
\* whoever commented.  It is recorded under the lease, by a targeted task after it.
CommentReceipt ==
    LET m == Head(back)
        sub == m.r \in {"confirmed", "unconfirmed", "browsed"}
        takers == {t \in Tasks : task[t].pc = "posting"}
        misled == {t \in takers : m.r = "browsed" \/ task[t].n # m.n}
    IN  /\ back # <<>> /\ m.t = "receipt" /\ back' = Tail(back)
        /\ task' = [t \in Tasks |-> IF t \in takers
                                    THEN [task[t] EXCEPT !.pc = IF sub /\ task[t].kind # "targeted" THEN "record" ELSE "release",
                                                      !.ok = (m.r \in {"confirmed", "browsed"}),
                                                      !.rec = sub /\ task[t].kind = "targeted"]
                                    ELSE task[t]]
        /\ doubt' = doubt \cup {task[t].n : t \in misled}
                          \cup (IF m.r \in {"confirmed", "unconfirmed"} /\ m.n \notin {task[t].n : t \in takers}
                                THEN {m.n} ELSE {})
        /\ UNCHANGED <<up, cl, down, held, waiting, kept, drops, running, dedup, posted>>

\* The browsing session of the account, which the edge suspends under a lease, comments.  Its comments
\* go to the display ledger alone; only likes and collects are written where the tasks look.  A bound:
\* one receipt of its at a time.
BrowseComments ==
    /\ up /\ held = None /\ \A i \in 1..Len(back) : ~(back[i].t = "receipt" /\ back[i].r = "browsed")
    /\ \E n \in Notes : back' = Append(back, [t |-> "receipt", r |-> "browsed", n |-> n])
    /\ UNCHANGED <<up, cl, down, held, waiting, kept, drops, task, running, dedup, posted, doubt>>

\* What a lost connection takes with it: a comment on the channel is in doubt.
Connection ==
    /\ Lease!LeaseNext
    /\ doubt' = IF up /\ ~up' THEN doubt \cup {task[t].n : t \in {u \in Tasks : task[u].pc = "posting"}} ELSE doubt
    /\ UNCHANGED <<task, running, dedup, posted>>

------------------------------------------------------------------------------

\* A continuation whose promise has settled: it runs before the next event is taken.
Prompt(t) ==
    \/ task[t].pc = "release" \/ (task[t].pc = "wait" /\ cl[LeaseOf(t)] # "acquiring")
    \/ (task[t].pc = "released" /\ cl[LeaseOf(t)] # "releasing")

Continue(t) == Granted(t) \/ Release(t) \/ Released(t)
Quiet == \A t \in Tasks : ~Prompt(t)

Step(t) ==
    \/ Continue(t)
    \/ Quiet /\ (StartAfterPreflight(t) \/ EndsBeforeLease(t) \/ Acquire(t) \/ SearchAndRead(t) \/ OpenPost(t) \/ PrepareTarget(t)
                 \/ ComposeAndApprove(t) \/ approveFacebookComment(t) \/ Post(t) \/ SubmitComment(t) \/ PostTimeout(t) \/ Record(t))

Next ==
    \/ \E t \in Tasks : Step(t) \/ (Quiet /\ (triggerForMode(t) \/ triggerManual(t) \/ triggerTargeted(t)))
    \/ Quiet /\ (EdgeComments \/ CommentReceipt \/ BrowseComments \/ Connection)

\* Every wait of a task has a timer of its own.
Fairness ==
    /\ \A t \in Tasks : WF_vars(Step(t))
    /\ \A t \in Tasks : \A k \in 1..2 :
         WF_vars((Lease!acquireTimeout(<<t, k>>) \/ Lease!releaseTimeout(<<t, k>>)) /\ UNCHANGED <<task, running, dedup, posted, doubt>>)
    /\ WF_vars(EdgeComments) /\ WF_vars(CommentReceipt)
    /\ WF_vars((Lease!ClientHears \/ Lease!EdgeHearsAcquire \/ Lease!EdgeHearsRelease)
               /\ UNCHANGED <<task, running, dedup, posted, doubt>>)

Spec == Init /\ [][Next]_vars /\ Fairness

------------------------------------------------------------------------------
(* Properties.                                                             *)

(***************************************************************************)
(* The tasks of an account comment twice on a note only when a comment's   *)
(* fate was lost (no receipt, the receipt of another comment, a ledger     *)
(* that could not be read or written in time), an operator forced it, or   *)
(* two tasks ran at once: the look at the ledger under the commit lease    *)
(* covers what another task did while a human was deciding.  The browsing  *)
(* session is outside this ledger (automation-interaction-ledger.ts:178)   *)
(* and may have commented on the same note itself.                         *)
(***************************************************************************)
NoSecondComment == \A n \in Notes : posted[n] > 1 => n \in doubt

(***************************************************************************)
(* A task that has started ends, and with it the account's flag, whatever  *)
(* the edge does: a flag left behind would silence the account for good.   *)
(***************************************************************************)
FlagIsFreed == running ~> ~running

(***************************************************************************)
(* The lease of the edge: one task at a time believes it may drive the     *)
(* edge (OneActiveLease), and the edge works for no lease that was given   *)
(* up (HeldIsKnown).                                                       *)
(***************************************************************************)
LeaseHolds == Lease!OneActiveLease /\ Lease!HeldIsKnown

==============================================================================
