--------------------------- MODULE OperatorCommands ---------------------------
(***************************************************************************)
(* Commands of the operators: the calls over the internal HTTP, the ledger *)
(* of text commands and the receipts of the others, the task a text        *)
(* command drafts for a candidate post, its confirmation, and the decision *)
(* its executor writes.                                                    *)
(*                                                                         *)
(* Sources: src/src/delegated-task/operator-command-receiver.ts,           *)
(* operator-command-ledger.ts, service.ts, executors.ts,                   *)
(* src/src/comment-agent/facebook-scope-command-receiver.ts,               *)
(* src/src/comm/publish-ui-update-command-receiver.ts,                     *)
(* edge-resume-command-receiver.ts, src/src/transport/internal-http.ts,    *)
(* api-direct-http-common.ts, operator-command-http.ts,                    *)
(* paired-command-http.ts, src/src/automation-main.ts.                     *)
(*                                                                         *)
(* Abstractions.  The body of a command is its kind and its scope; a text  *)
(* in plain language asks for a decision on the one candidate, a slash     *)
(* command for a post or a comment, whose execution is DelegatedTask.  The *)
(* store of candidates and the decisions are the API's (external).         *)
(***************************************************************************)
EXTENDS ServiceLifecycle

CONSTANTS
    Cmds, Calls,
    KindOf,          \* "text" and "slash": kept in the ledger; "memory": in the receipts of the process
    MaxDraft         \* bound: versions of the candidate

ASSUME KindAssumption == KindOf \in [Cmds -> {"text", "slash", "memory"}]

ASSUME CallAssumption ==
    None \notin Calls \cup Cmds \cup Nat \cup {"refused", "unknown", "applied", "duplicate", "rejected"}

VARIABLES
    call,       \* each call of the client: command, process, progress, answer
    ledger,     \* operator_command_receipt
    ledgerUp,   \* whether the process could open the ledger
    inFlight,   \* the call that runs a command in a process
    receipts,   \* commands a process remembers having applied
    task,       \* the task drafted for each text command
    draft,      \* the candidate: its version and what was decided
    runs,       \* history: executions of each command, per process for those in memory
    half,       \* history: those that failed after they had an effect
    left        \* history: commands whose task was drafted and then not confirmed by the run

cmds == <<call, ledger, ledgerUp, inFlight, receipts, task, draft, runs, half, left>>

\* Commands the ledger keeps, over restarts and for every process.
Kept(c) == KindOf[c] # "memory"

Ran(ans) == ans \in {"applied", "duplicate"}

CmdsInit ==
    /\ call = [k \in Calls |-> [cmd |-> None, at |-> None, st |-> "none", ver |-> 0, ans |-> None]]
    /\ ledger = [c \in Cmds |-> "none"] /\ ledgerUp = [p \in Procs |-> TRUE]
    /\ inFlight = [p \in Procs |-> [c \in Cmds |-> None]] /\ receipts = [p \in Procs |-> {}]
    /\ task = [c \in Cmds |-> [st |-> "none", ver |-> 0, got |-> 0]]
    /\ draft = [ver |-> 1, decided |-> None, by |-> None]
    /\ runs = [p \in Procs |-> [c \in Cmds |-> 0]] /\ half = [p \in Procs |-> [c \in Cmds |-> 0]]
    /\ left = {}

-----------------------------------------------------------------------------
(* Calls *)

\* The answer reaches the client unless it has given up; st is how far the handler has come.
Settle(k, st, ans) ==
    [call EXCEPT ![k].st = st, ![k].ans = IF @ = None THEN ans ELSE @]

Send(k, c) ==
    /\ call[k].st = "none"
    /\ call' = [call EXCEPT ![k].cmd = c, ![k].st = "sent"]
    /\ UNCHANGED <<ledger, ledgerUp, inFlight, receipts, task, draft, runs, half, left, life, inputs>>

\* A refusal before the handler: nothing was done and the client knows it.
RefusedBefore(k, p) ==
    /\ call[k].st = "sent" /\ Serving(p) /\ Input
    /\ call' = Settle(k, "done", "refused")
    /\ UNCHANGED <<ledger, ledgerUp, inFlight, receipts, task, draft, runs, half, left, life>>

\* Another method, no such route, a wrong bearer, a body that is too long or no JSON.
handle(k, p) == RefusedBefore(k, p)

\* A foreign version or target in the envelope.
parseApiDirectEnvelope(k, p) == RefusedBefore(k, p)

\* A body that is not the command's: an empty text, a missing field, a wrong type.
delegatedTaskTextInput(k, p) == call[k].cmd \in Cmds /\ Kept(call[k].cmd) /\ RefusedBefore(k, p)
pairedInput(k, p) == call[k].cmd \in Cmds /\ ~Kept(call[k].cmd) /\ RefusedBefore(k, p)

\* A receipt of another command or of a wrong shape counts as no receipt.
badReceipt(k) ==
    /\ call[k].st = "done" /\ Ran(call[k].ans) /\ Input
    /\ call' = [call EXCEPT ![k].ans = "unknown"]
    /\ UNCHANGED <<ledger, ledgerUp, inFlight, receipts, task, draft, runs, half, left, life>>

\* The client stops waiting, which says nothing of the command.
request(k) ==
    /\ call[k].st \notin {"none", "done"} /\ call[k].ans = None /\ Input
    /\ call' = [call EXCEPT ![k].ans = "unknown"]
    /\ UNCHANGED <<ledger, ledgerUp, inFlight, receipts, task, draft, runs, half, left, life>>

-----------------------------------------------------------------------------
(* Text commands: claimed in the ledger *)

\* Mutant: a row that is in flight is taken over.
ClaimsAny(c) == ledger[c] \in {"none", "in_flight"}

Claims(c) == ledger[c] = "none"

\* The promise of the run in flight has its result, the settlement is under way.
Resolved(p, c) == \E j \in Calls : inFlight[p][c] = j /\ call[j].cmd = c /\ call[j].st = "created"

\* The answer to a command whose row is there already.
Existing(k, p) ==
    LET c == call[k].cmd
    IN  CASE ledger[c] = "applied" -> Settle(k, "done", "duplicate")
          [] ledger[c] = "rejected" -> Settle(k, "done", "rejected")
          [] ledger[c] = "in_flight" /\ Resolved(p, c) -> Settle(k, "done", "duplicate")
          [] OTHER -> IF inFlight[p][c] # None THEN [call EXCEPT ![k].st = "joined", ![k].at = p]
                      ELSE Settle(k, "done", "unknown")

\* Without a ledger the command is refused rather than taken without protection.
claim(k, p) ==
    LET c == call[k].cmd
    IN  /\ call[k].st = "sent" /\ Serving(p) /\ Kept(c)
        /\ IF ~ledgerUp[p]
           THEN call' = Settle(k, "done", "refused") /\ UNCHANGED ledger
           ELSE IF Claims(c)
                THEN /\ ledger' = [ledger EXCEPT ![c] = "in_flight"]
                     /\ call' = [call EXCEPT ![k].st = "claimed", ![k].at = p]
                ELSE call' = Existing(k, p) /\ UNCHANGED ledger
        /\ UNCHANGED <<ledgerUp, inFlight, receipts, task, draft, runs, half, left, life, inputs>>

\* The claim has returned: the run is put into inFlight and awaits the account and the candidate.
runText(k) ==
    /\ call[k].st = "claimed"
    /\ inFlight' = [inFlight EXCEPT ![call[k].at][call[k].cmd] = k]
    /\ call' = [call EXCEPT ![k].st = "running"]
    /\ UNCHANGED <<ledger, ledgerUp, receipts, task, draft, runs, half, left, life, inputs>>

\* A candidate that awaits approval gives the task its version, any other is a rejection; a slash
\* command names none.
prepareTarget(k) ==
    /\ call[k].st = "running"
    /\ call' = IF KindOf[call[k].cmd] = "slash" \/ draft.decided = None
               THEN [call EXCEPT ![k].st = "prepared", ![k].ver = draft.ver]
               ELSE [call EXCEPT ![k].st = "rejecting"]
    /\ UNCHANGED <<ledger, ledgerUp, inFlight, receipts, task, draft, runs, half, left, life, inputs>>

\* Unreadable text, an account that is unknown, ambiguous or paused, an action the platform lacks.
createRefused(k) ==
    /\ call[k].st \in {"running", "prepared"} /\ Input
    /\ call' = [call EXCEPT ![k].st = "rejecting"]
    /\ UNCHANGED <<ledger, ledgerUp, inFlight, receipts, task, draft, runs, half, left, life>>

\* Calls that joined a run get its result as a duplicate, or its error.
Joined(k) == {j \in Calls : call[j].st = "joined" /\ call[j].cmd = call[k].cmd /\ call[j].at = call[k].at}
AnswerJoined(k, ans) ==
    [j \in Calls |-> IF j \in Joined(k) THEN [call[j] EXCEPT !.st = "done", !.ans = IF @ = None THEN ans ELSE @]
                     ELSE call[j]]

\* The row of the task is there.
Drafted(k) ==
    LET c == call[k].cmd
    IN  /\ task' = [task EXCEPT ![c] = IF @.st = "none" THEN [@ EXCEPT !.st = "awaiting", !.ver = call[k].ver] ELSE @]
        /\ runs' = [runs EXCEPT ![call[k].at][c] = @ + 1]

\* The run of a plain text ends with its task, which is shown; that of a slash command goes on.
createDraft(k) ==
    /\ call[k].st = "prepared" /\ Drafted(k)
    /\ call' = IF KindOf[call[k].cmd] = "text" THEN [AnswerJoined(k, "duplicate") EXCEPT ![k].st = "created"]
               ELSE [call EXCEPT ![k].st = "drafted"]
    /\ UNCHANGED <<ledger, ledgerUp, inFlight, receipts, draft, half, left, life, inputs>>

TaskGoes(c, st) == task' = [task EXCEPT ![c].st = st]

\* A slash command is confirmed in its own run; a task an operator was quicker with is left as it is.
autoConfirm(k) ==
    /\ call[k].st = "drafted"
    /\ IF task[call[k].cmd].st = "awaiting" THEN TaskGoes(call[k].cmd, "queued") ELSE UNCHANGED task
    /\ call' = [AnswerJoined(k, "duplicate") EXCEPT ![k].st = "created"]
    /\ UNCHANGED <<ledger, ledgerUp, inFlight, receipts, draft, runs, half, left, life, inputs>>

\* Meanwhile the account is gone or of another platform, or the task has another version: the run is
\* a rejection although its task is there.
autoConfirmRefused(k) ==
    /\ call[k].st = "drafted" /\ Input
    /\ left' = left \cup {call[k].cmd}
    /\ call' = [call EXCEPT ![k].st = "rejecting"]
    /\ UNCHANGED <<ledger, ledgerUp, inFlight, receipts, task, draft, runs, half, life>>

\* The run ends: its promise leaves inFlight if it is still the one there.
Leave(k) ==
    inFlight' = [inFlight EXCEPT ![call[k].at][call[k].cmd] = IF @ = k THEN None ELSE @]

settleApplied(k) ==
    /\ call[k].st = "created"
    /\ ledger' = [ledger EXCEPT ![call[k].cmd] = IF @ = "in_flight" THEN "applied" ELSE @]
    /\ call' = Settle(k, "done", "applied") /\ Leave(k)
    /\ UNCHANGED <<ledgerUp, receipts, task, draft, runs, half, left, life, inputs>>

settleRejected(k) ==
    /\ call[k].st = "rejecting"
    /\ ledger' = [ledger EXCEPT ![call[k].cmd] = IF @ = "in_flight" THEN "rejected" ELSE @]
    /\ call' = [AnswerJoined(k, "unknown") EXCEPT ![k].st = "done",
                                                  ![k].ans = IF @ = None THEN "rejected" ELSE @]
    /\ Leave(k)
    /\ UNCHANGED <<ledgerUp, receipts, task, draft, runs, half, left, life, inputs>>

\* The database fails in the run or at the settlement, after the insertion of the task perhaps: the
\* error goes out, the row stays in flight.
runFails(k) ==
    /\ call[k].st \in {"running", "prepared", "drafted", "created", "rejecting"} /\ Input
    /\ UNCHANGED <<task, runs>> \/ (call[k].st = "prepared" /\ Drafted(k))
    /\ call' = [AnswerJoined(k, "unknown") EXCEPT ![k].st = "done", ![k].ans = IF @ = None THEN "unknown" ELSE @]
    /\ Leave(k)
    /\ UNCHANGED <<ledger, ledgerUp, receipts, draft, half, left, life>>

-----------------------------------------------------------------------------
(* Commands remembered in memory: scopes, imports, resumes, preview updates, dispatch *)

\* The look-ups and the entry into inFlight are one turn.
runCommand(k, p) ==
    LET c == call[k].cmd
    IN  /\ call[k].st = "sent" /\ Serving(p) /\ ~Kept(c)
        /\ IF c \in receipts[p] THEN call' = Settle(k, "done", "duplicate") /\ UNCHANGED inFlight
           ELSE IF inFlight[p][c] # None
                THEN call' = [call EXCEPT ![k].st = "joined", ![k].at = p] /\ UNCHANGED inFlight
                ELSE /\ inFlight' = [inFlight EXCEPT ![p][c] = k]
                     /\ call' = [call EXCEPT ![k].st = "applying", ![k].at = p]
        /\ UNCHANGED <<ledger, ledgerUp, receipts, task, draft, runs, half, left, life, inputs>>

\* The owner's write, after one refresh of the roster when it names groups the projection lacks.
applyCommand(k) ==
    LET c == call[k].cmd
    IN  /\ call[k].st = "applying"
        /\ runs' = [runs EXCEPT ![call[k].at][c] = @ + 1]
        /\ receipts' = [receipts EXCEPT ![call[k].at] = @ \cup {c}]
        /\ call' = [AnswerJoined(k, "duplicate") EXCEPT ![k].st = "done", ![k].ans = IF @ = None THEN "applied" ELSE @]
        /\ Leave(k)
        /\ UNCHANGED <<ledger, ledgerUp, task, draft, half, left, life, inputs>>

\* The owner's write fails; rows that went in before, or a commit whose answer is lost, stay.
applyFails(k) ==
    /\ call[k].st = "applying" /\ Input
    /\ \/ UNCHANGED <<runs, half>>
       \/ /\ runs' = [runs EXCEPT ![call[k].at][call[k].cmd] = @ + 1]
          /\ half' = [half EXCEPT ![call[k].at][call[k].cmd] = @ + 1]
    /\ call' = [AnswerJoined(k, "unknown") EXCEPT ![k].st = "done", ![k].ans = IF @ = None THEN "unknown" ELSE @]
    /\ Leave(k)
    /\ UNCHANGED <<ledger, ledgerUp, receipts, task, draft, left, life>>

-----------------------------------------------------------------------------
(* The candidate and the task *)

\* An operator, or a task that modifies it, edits the candidate; an operator decides it on the panel.
EditDraft ==
    /\ draft.ver < MaxDraft
    /\ draft' = [draft EXCEPT !.ver = @ + 1]
    /\ UNCHANGED <<call, ledger, ledgerUp, inFlight, receipts, task, runs, half, left, life, inputs>>

DecideOnPanel ==
    /\ draft.decided = None
    /\ draft' = [draft EXCEPT !.decided = draft.ver]
    /\ UNCHANGED <<call, ledger, ledgerUp, inFlight, receipts, task, runs, half, left, life, inputs>>

\* The operator confirms: the version the task names is still the candidate's.
validateTarget(c) ==
    /\ task[c].st = "awaiting" /\ \E p \in Procs : Serving(p)
    /\ (KindOf[c] = "text" => draft.ver = task[c].ver) /\ TaskGoes(c, "valid")
    /\ UNCHANGED <<call, ledger, ledgerUp, inFlight, receipts, draft, runs, half, left, life, inputs>>

confirm(c) ==
    /\ task[c].st = "valid" /\ TaskGoes(c, "queued")
    /\ UNCHANGED <<call, ledger, ledgerUp, inFlight, receipts, draft, runs, half, left, life, inputs>>

\* Mutant: the executor takes the candidate as it finds it.
AnyVersion(c) == TRUE

SameVersion(c) == draft.ver = task[c].ver

\* The executor loads the candidate; another version ends the task.
loadCandidate(c) ==
    /\ task[c].st = "queued" /\ KindOf[c] = "text" /\ \E p \in Procs : "worker" \in rounds[p]
    /\ IF SameVersion(c)
       THEN task' = [task EXCEPT ![c].st = "loaded", ![c].got = draft.ver]
       ELSE TaskGoes(c, "failed")
    /\ UNCHANGED <<call, ledger, ledgerUp, inFlight, receipts, draft, runs, half, left, life, inputs>>

\* approveCandidate and rejectCandidate load it once more before they write.
approveCandidate(c) ==
    /\ task[c].st = "loaded"
    /\ TaskGoes(c, IF draft.ver = task[c].got THEN "deciding" ELSE "failed")
    /\ UNCHANGED <<call, ledger, ledgerUp, inFlight, receipts, draft, runs, half, left, life, inputs>>

\* The decision carries the version that was loaded; one that is there already is left.
writeApprovalDecision(c) ==
    /\ task[c].st = "deciding"
    /\ draft' = IF draft.decided = None THEN [draft EXCEPT !.decided = task[c].got, !.by = c] ELSE draft
    /\ TaskGoes(c, "ended")
    /\ UNCHANGED <<call, ledger, ledgerUp, inFlight, receipts, runs, half, left, life, inputs>>

-----------------------------------------------------------------------------
\* What a process that dies takes with it; its callers see the connection break.
Lose(p) ==
    /\ call' = [k \in Calls |-> IF call[k].at = p /\ call[k].st # "done"
                                THEN [call[k] EXCEPT !.st = "done", !.ans = IF @ = None THEN "unknown" ELSE @]
                                ELSE call[k]]
    /\ inFlight' = [inFlight EXCEPT ![p] = [c \in Cmds |-> None]]
    /\ receipts' = [receipts EXCEPT ![p] = {}]
    /\ runs' = [runs EXCEPT ![p] = [c \in Cmds |-> IF Kept(c) THEN @[c] ELSE 0]]
    /\ half' = [half EXCEPT ![p] = [c \in Cmds |-> 0]]
    /\ ledgerUp' = [ledgerUp EXCEPT ![p] = TRUE]
    /\ UNCHANGED <<ledger, task, draft, left>>

\* The ledger cannot be opened at the start of a process.
LedgerUnavailable(p) ==
    /\ stage[p] = "built" /\ ledgerUp[p] /\ Input
    /\ ledgerUp' = [ledgerUp EXCEPT ![p] = FALSE]
    /\ UNCHANGED <<call, ledger, inFlight, receipts, task, draft, runs, half, left, life>>

CommandStep ==
    \/ \E k \in Calls :
        \/ request(k) \/ badReceipt(k) \/ runText(k) \/ prepareTarget(k) \/ createRefused(k) \/ createDraft(k)
        \/ autoConfirm(k) \/ autoConfirmRefused(k)
        \/ settleApplied(k) \/ settleRejected(k) \/ runFails(k) \/ applyCommand(k) \/ applyFails(k)
        \/ \E p \in Procs :
            \/ handle(k, p) \/ parseApiDirectEnvelope(k, p) \/ delegatedTaskTextInput(k, p) \/ pairedInput(k, p)
            \/ claim(k, p) \/ runCommand(k, p)
        \/ \E c \in Cmds : Send(k, c)
    \/ \E c \in Cmds : validateTarget(c) \/ confirm(c) \/ loadCandidate(c) \/ approveCandidate(c)
                       \/ writeApprovalDecision(c)
    \/ \E p \in Procs : LedgerUnavailable(p)
    \/ EditDraft \/ DecideOnPanel

-----------------------------------------------------------------------------
(* Properties *)

RunsOf(c) == IF Kept(c) THEN {p \in Procs : runs[p][c] > 0} ELSE {}

\* A text command is executed at most once, over retries, restarts and processes.  A command kept in
\* memory is executed once in the life of a process, and again only for each execution the process
\* saw fail although it had an effect (half).  An answer says what happened: applied or duplicate is
\* one execution; rejected is none, but for a slash command whose task was drafted and then not
\* confirmed (left) (operator-command-receiver.ts createFromText, service.ts createDraft, confirm,
\* facebook-scope-command-receiver.ts runCommand).
CommandRunsOnce ==
    /\ \A p \in Procs, c \in Cmds : runs[p][c] <= 1 + half[p][c] /\ (Kept(c) => half[p][c] = 0)
    /\ \A c \in Cmds : Cardinality(RunsOf(c)) <= 1
    /\ \A c \in left : KindOf[c] = "slash" /\ \A k \in Calls : call[k].cmd = c => ~Ran(call[k].ans)
    /\ \A k \in Calls :
        call[k].cmd \in Cmds /\ Kept(call[k].cmd) =>
            /\ Ran(call[k].ans) => RunsOf(call[k].cmd) # {}
            /\ call[k].ans = "rejected" => RunsOf(call[k].cmd) = {} \/ call[k].cmd \in left

\* A decision a task wrote is about the version that was shown when the task was confirmed, however
\* the candidate was edited meanwhile (automation-main.ts prepareTarget, validateTarget,
\* approveCandidate; executors.ts execute).
DecidedAsConfirmed == draft.by # None => draft.decided = task[draft.by].ver

=============================================================================
