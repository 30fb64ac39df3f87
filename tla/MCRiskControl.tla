--------------------------- MODULE MCRiskControl ---------------------------
(* Processes and controllers are interchangeable, and a controller nobody  *)
(* holds any more is as good as a new one.                                 *)
EXTENDS RiskControl, TLC

CONSTANT MaxStimuli     \* bound: commands sent, signals reported and ticks, together

StimuliBound == Cardinality({c \in Commands : sent[c] # None}) + reports + now <= MaxStimuli
Symmetry == Permutations(Procs) \cup Permutations(Ctls)
LiveState ==
    <<owner, row, now, cache, [k \in Ctls |-> IF k \in InUse THEN ctl[k] ELSE NoCtl], conns, hs, sweep,
      cons, sent, acked, out, reports, faults, shakes, resumed, wrote>>
============================================================================
