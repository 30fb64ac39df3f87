---------------------------- MODULE ReplyContract ----------------------------
(***************************************************************************)
(* What the interaction inbox promises of the replies it sends, without    *)
(* saying how: a reply is tried with a text somebody agreed to, one try of *)
(* the account at a time and none while an earlier one is open or unsure   *)
(* (a try reported as failed may turn out posted all the same); it is      *)
(* reported as sent only when it was, and charged to the risk budget only  *)
(* when it was posted, again only as long as no charge of it is known to   *)
(* have been written down.                                                 *)
(*                                                                         *)
(* Implemented by Interactions (src/src/interactions); the jobs, attempts, *)
(* workers and messages of that module are how.                            *)
(***************************************************************************)
EXTENDS Naturals

CONSTANTS Jobs, Numbers, Texts, None

VARIABLES
    agreed,      \* the texts agreed to, per reply
    tries,       \* the tries of each reply
    posted,      \* the tries the platform has taken
    charges,     \* times the budget was charged for a try
    settled,     \* the tries whose charge is known to be written down
    forgotten    \* replies whose records were deleted

contract == <<agreed, tries, posted, charges, settled, forgotten>>

NoTry == [st |-> "none", text |-> None]

Init ==
    /\ agreed \in [Jobs -> SUBSET Texts] /\ tries = [j \in Jobs |-> [n \in Numbers |-> NoTry]]
    /\ posted = {} /\ charges = [j \in Jobs |-> [n \in Numbers |-> 0]]
    /\ settled = {} /\ forgotten = {}

Agree(j, t) ==
    /\ agreed' = [agreed EXCEPT ![j] = @ \cup {t}]
    /\ UNCHANGED <<tries, posted, charges, settled, forgotten>>

\* No try of the account is open, and every earlier one of this reply was reported as failed.
Begin(j, n) ==
    /\ j \notin forgotten /\ tries[j][n] = NoTry
    /\ \A k \in Jobs, m \in Numbers : tries[k][m].st # "open"
    /\ \A m \in Numbers : tries[j][m].st \in {"none", "failed"}
    /\ \E t \in agreed[j] : tries' = [tries EXCEPT ![j][n] = [st |-> "open", text |-> t]]
    /\ UNCHANGED <<agreed, posted, charges, settled, forgotten>>

\* The platform takes a try, at any time after the service has handed it on.
Post(j, n) ==
    /\ posted' = posted \cup {<<j, n>>} /\ UNCHANGED <<agreed, tries, charges, settled, forgotten>>

Learn(j, n, st) ==
    /\ \/ tries[j][n].st = "open" /\ st \in {"confirmed", "failed", "unsure"}
       \/ tries[j][n].st = "unsure" /\ st \in {"confirmed", "failed"}
    /\ st = "confirmed" => <<j, n>> \in posted
    /\ tries' = [tries EXCEPT ![j][n].st = st]
    /\ UNCHANGED <<agreed, posted, charges, settled, forgotten>>

\* A charge may be known to be written down or not; only the former is the last.
Charge(j, n) ==
    /\ <<j, n>> \in posted /\ <<j, n>> \notin settled
    /\ charges' = [charges EXCEPT ![j][n] = @ + 1]
    /\ settled' \in {settled, settled \cup {<<j, n>>}}
    /\ UNCHANGED <<agreed, tries, posted, forgotten>>

Forget(js) ==
    /\ forgotten' = forgotten \cup js
    /\ tries' = [j \in Jobs |-> IF j \in js THEN [n \in Numbers |-> NoTry] ELSE tries[j]]
    /\ UNCHANGED <<agreed, posted, charges, settled>>

Next ==
    \/ \E js \in SUBSET Jobs : Forget(js)
    \/ \E j \in Jobs :
          \/ \E t \in Texts : Agree(j, t)
          \/ \E n \in Numbers :
                \/ Begin(j, n) \/ Post(j, n) \/ Charge(j, n)
                \/ \E st \in {"confirmed", "failed", "unsure"} : Learn(j, n, st)

Spec == Init /\ [][Next]_contract
==============================================================================
