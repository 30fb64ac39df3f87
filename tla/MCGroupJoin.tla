---------------------------- MODULE MCGroupJoin ----------------------------
(* Two accounts compete for groups. *)
EXTENDS GroupJoin
============================================================================
