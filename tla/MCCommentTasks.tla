--------------------------- MODULE MCCommentTasks ---------------------------
(* Comment tasks of one account on one edge: a scheduled one and one that  *)
(* a human starts.                                                         *)
EXTENDS CommentTasks, TLC
CONSTANTS t1, t2
MCKindsOf == (t1 :> {"task", "facebook"}) @@ (t2 :> {"forced", "targeted"})
=============================================================================
