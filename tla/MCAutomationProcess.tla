------------------------- MODULE MCAutomationProcess -------------------------
EXTENDS AutomationProcess, TLC
CONSTANTS p1, p2, c1, c2, c3, k1, k2, v1, v2
MCKindOf == c1 :> "text" @@ c2 :> "memory" @@ c3 :> "slash"
MCLedgers == {[ok |-> TRUE, rows |-> {1, 2, 3}, contract |-> {}], [ok |-> TRUE, rows |-> {1}, contract |-> {}],
              [ok |-> TRUE, rows |-> {1, 3, 4}, contract |-> {4}]}
Symm == Permutations(Procs) \cup Permutations(Calls) \cup Permutations(Values)

\* Bound: the steps of a start or a stop, of each stream and of the commands touch nothing in common
\* but the stage of the processes.  Only the orders in which one of these moves at a time are
\* explored, the streams of a process in turn, and only one of them goes beyond what a start brings;
\* the work of a process, a sweep or a task, goes on beside the life of the processes or a command,
\* one piece at a time and with one fault from outside where no command is;
\* the calls repeat one command, and beside a source that has changed there is one fault or call from outside.
Busy(p) == start[p] # None \/ shut[p] # "no" \/ stage[p] \in (Unguarded \cup Guarded) \ {"down", "built"}
Moving == {s \in Streams : \E p \in Procs : fetch[p][s] # None}
          \cup {s \in {"owned"} : \E p \in Procs : pub[p] # None \/ asked[p] # None}
          \cup {s \in {"life"} : \E p \in Procs : Busy(p)}
Begun(p) == observed[p] # NoFact \/ \E s \in Streams : mirror[p][s].restored
Edited == draft # [ver |-> 1, decided |-> None, by |-> None]
Named == {call[k].cmd : k \in Calls} \ {None}
Sent == {k \in Calls : call[k].cmd # None}
Commanded == Edited \/ Named # {}
Changed == {s \in Streams : source[s] > 1}
           \cup {s \in {"owned"} : row.gen > 1 \/ Cardinality({runtime[p] : p \in Procs}) > 1}
           \cup {s \in {"commands"} : Commanded}
InTurn(p) ==
    /\ Begun(p) => mirror[p].roster.restored
    /\ pub[p] # None => mirror[p].roster.restored
    /\ fetch[p].roster # None => ownerReady[p]
    /\ fetch[p].config # None => ownerReady[p] /\ mirror[p].roster.ready
    /\ asked[p] # None => readiness(p)
OneMoves ==
    /\ Cardinality(Moving) <= 1 /\ Cardinality(Changed) <= 1 /\ \A p \in Procs : InTurn(p)
    /\ Cardinality(Named) <= 1 /\ (Edited => (\A c \in Named : KindOf[c] = "text") /\ Cardinality(Sent) <= 1)
    /\ Changed # {} => \A p \in Procs : parts[p] \in {{}, Parts}
    /\ Changed \ {"owned"} # {} => api = NoFact
    /\ Commanded => Moving = {} /\ \A p \in Procs : Begun(p) => readiness(p)
    /\ Changed \ {"commands"} # {} => inputs <= 1
    /\ \A p \in Procs : rounds[p] # {} =>
          Moving \subseteq {"life"} /\ Changed \subseteq {"commands"} /\ Cardinality(rounds[p]) <= 1 /\ rounds[p] \subseteq {"accounting", "worker"}
    /\ ~Commanded => \A p \in Procs : rounds[p] # {} => inputs <= 1
    /\ Commanded => \A p \in Procs : rounds[p] \subseteq {w \in {"worker"} : \E c \in Cmds : task[c].st \in {"queued", "loaded"}}
=============================================================================
