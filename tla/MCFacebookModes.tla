--------------------------- MODULE MCFacebookModes ---------------------------
(* The processes are interchangeable: nothing chooses among them.  The two *)
(* modes share a bound on the rows they create between them; a second      *)
(* boundary or crash comes under the first policy revision only.           *)
EXTENDS FacebookModes, TLC

CONSTANT MaxRows

Symmetry == Permutations(Services)
RowBound ==
    /\ Cardinality({i \in Ids : act[i].type # "none"})
         + Cardinality({i \in BatchIds : batch[i].rev # 0}) <= MaxRows
    /\ moves + auth.rev <= MaxRev + 1
==============================================================================
