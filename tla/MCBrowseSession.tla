-------------------------- MODULE MCBrowseSession --------------------------
(* The dispatcher of one connection on small instances. *)
EXTENDS BrowseSession
============================================================================
