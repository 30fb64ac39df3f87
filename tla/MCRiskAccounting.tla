-------------------------- MODULE MCRiskAccounting --------------------------
(* Instances of RiskAccounting for TLC. *)
EXTENDS RiskAccounting, TLC

CONSTANTS p1, p2, k1, a1, dev, ol

MCAllDev == [p \in Procs |-> dev]
MCKeysDev == [k \in Keys |-> dev]
MCOneAccount == [k \in Keys |-> a1]

\* The second process only polls: it competes for rows, and serves no caller of
\* record(), holds no controller, does not reconcile and does not restart.
PeerOnlyPolls ==
    /\ \A k \in Keys : caller[p2][k] = "idle"
    /\ q[p2] = "none" /\ blocked[p2] = {} /\ mat[p2] = {} /\ p2 \in up

\* Bound: the second process leaves its own expired claims to the first.
PeerClaimsOnce ==
    \A k \in Keys :
        row[k].holder = p2 /\ row[k].expired =>
            ~(row'[k].holder = p2 /\ ~row'[k].expired)

\* Nothing is assumed of the second process: it may stop at any point.
MCFairSpec == Spec /\ ProcFairness(p1) /\ \A k \in Keys : WF_vars(LeaseExpires(k))
=============================================================================
