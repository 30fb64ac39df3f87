--------------------------- MODULE FacebookSession ---------------------------
(***************************************************************************)
(* What the two Facebook operation modes share: the operation policy of an *)
(* account (its mode and revision), the service processes, and the edge    *)
(* session, which is with one process at a time.                           *)
(*                                                                         *)
(* Sources: src/src/orchestrator/role-dispatcher.ts (the view chain and    *)
(* the session boundaries), facebook-rule-mode.ts.  The authority that     *)
(* publishes the policy is outside the repository: every change of mode    *)
(* or of settings is a new revision.                                       *)
(***************************************************************************)
EXTENDS Naturals, FiniteSets

CONSTANTS
    Services,          \* service processes; a restart is a new one
    MaxRev,         \* bound: policy revisions
    MaxMoves,       \* bound: session boundaries and crashes
    Nothing

ASSUME SessionAssumption ==
    /\ MaxRev \in Nat \ {0} /\ MaxMoves \in Nat /\ Nothing \notin Services

VARIABLES
    auth,           \* the operation policy now in force: [mode, rev]
    up,             \* the processes that run
    edge,           \* the process that has the edge session, or Nothing
    moves

sessionVars == <<auth, up, edge, moves>>

Modes == {"consumption", "rule"}
Revs == 1..MaxRev

SessionTypeOK ==
    /\ auth \in [mode : Modes, rev : Revs] /\ up \subseteq Services
    /\ edge \in up \cup {Nothing} /\ moves \in 0..MaxMoves

SessionInit ==
    /\ auth \in [mode : {"consumption", "rule"}, rev : {1}]
    /\ up = {} /\ edge = Nothing /\ moves = 0

\* decideFacebookBrowseMode: the mode in force decides which handler a view reaches.
decideFacebookBrowseMode(m) == auth.mode = m

\* An operator publishes another policy: a new revision in some mode.
ChangePolicy ==
    /\ auth.rev < MaxRev
    /\ \E m \in Modes : auth' = [mode |-> m, rev |-> auth.rev + 1]
    /\ UNCHANGED <<up, edge, moves>>

\* The session is with p from here on (a connect, a reconnect or a move).
OpenSession(p) ==
    /\ p \in up /\ moves < MaxMoves /\ moves' = moves + 1
    /\ edge' = p /\ UNCHANGED <<auth, up>>

StartProcess(p) == p \notin up /\ up' = up \cup {p} /\ UNCHANGED <<auth, edge, moves>>

CrashProcess(p) ==
    /\ p \in up /\ moves < MaxMoves /\ moves' = moves + 1
    /\ up' = up \ {p} /\ edge' = (IF edge = p THEN Nothing ELSE edge)
    /\ UNCHANGED auth
==============================================================================
