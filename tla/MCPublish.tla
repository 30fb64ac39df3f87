----------------------------- MODULE MCPublish -----------------------------
(* Two drafts of one account, one of them in mode scheduled.               *)
EXTENDS Publish
=============================================================================
