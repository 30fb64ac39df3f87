--------------------------- MODULE MCInteractions ---------------------------
(* The workers are interchangeable.  A trace that has used up MaxStimuli  *)
(* of what people and the environment start, in the inbox and in the      *)
(* binding together, is not followed further.                             *)
EXTENDS Interactions, TLC

CONSTANT MaxStimuli

Symmetry == Permutations(Workers) \cup Permutations(Texts) \cup Permutations(Envs) \cup Permutations(Jobs)
            \cup Permutations(Hosts)
StimulusBound == ops + 2 * changes <= MaxStimuli
=============================================================================
