------------------------------ MODULE EdgeLease ------------------------------
(***************************************************************************)
(* The task lease of one edge: the cloud's client (acquire, release, their *)
(* timeouts, a late grant after a cancelled acquire, a lost connection)    *)
(* and, as far as the client depends on it, the edge that grants, refuses, *)
(* queues, preempts and expires leases.                                    *)
(*                                                                         *)
(* Sources: src/src/comm/edge-task-lease-client.ts; the edge is external.  *)
(*                                                                         *)
(* Abstractions.  A lease has one id for its whole life.  The connection   *)
(* is one ordered channel each way; what is on it is lost with it.  That   *)
(* an acquire was cancelled is not forgotten (the code keeps it for a      *)
(* whole lease time).                                                      *)
(***************************************************************************)
EXTENDS Naturals, Sequences, FiniteSets

CONSTANTS
    Leases,     \* ids of the leases asked for
    Human,      \* those of human priority
    None,
    MaxDrops    \* bound: connections lost

VARIABLES
    up,         \* the edge is connected
    cl,         \* the client's maps: acquiring, active, releasing, cancelledAcquires
    down, back, \* messages to and from the edge
    held,       \* the lease the edge works for
    waiting,    \* leases the edge has queued
    kept,       \* history: a lease that outlived its connection on the edge
    drops       \* bound: connections lost so far

leaseVars == <<up, cl, down, back, held, waiting, kept, drops>>

ClientStates == {"new", "acquiring", "active", "releasing", "cancelled", "over"}

LeaseInit ==
    /\ up = TRUE /\ cl = [l \in Leases |-> "new"] /\ down = <<>> /\ back = <<>>
    /\ held = None /\ waiting = {} /\ kept = {} /\ drops = 0

Msg(t, l) == [t |-> t, l |-> l]

\* pushToEdges: a message for an edge that is gone is not sent.
Push(t, l) == IF up THEN Append(down, Msg(t, l)) ELSE down
Set(l, s) == cl' = [cl EXCEPT ![l] = s]

------------------------------------------------------------------------------
(* The client.                                                             *)

acquire(l) ==
    /\ cl[l] = "new"
    /\ Set(l, IF up THEN "acquiring" ELSE "over") /\ down' = Push("acquire", l)
    /\ UNCHANGED <<up, back, held, waiting, kept, drops>>

\* A mutant: the edge is not told.
acquireTimeoutSilent(l) ==
    /\ cl[l] = "acquiring" /\ Set(l, "cancelled")
    /\ UNCHANGED <<up, down, back, held, waiting, kept, drops>>

\* The acquire times out: cancelAcquire remembers it and tells the edge.
acquireTimeout(l) ==
    /\ cl[l] = "acquiring"
    /\ Set(l, "cancelled") /\ down' = Push("release", l)
    /\ UNCHANGED <<up, back, held, waiting, kept, drops>>

\* release: nothing to do for a lease that is not active any more.
release(l) ==
    /\ cl[l] = "active"
    /\ Set(l, IF up THEN "releasing" ELSE "over") /\ down' = Push("release", l)
    /\ UNCHANGED <<up, back, held, waiting, kept, drops>>

releaseTimeout(l) ==
    /\ cl[l] = "releasing" /\ Set(l, "over")
    /\ UNCHANGED <<up, down, back, held, waiting, kept, drops>>

\* onAcquired: a grant that comes too late is given back.
onAcquired(l) ==
    /\ cl' = [cl EXCEPT ![l] = IF @ = "acquiring" THEN "active" ELSE @]
    /\ down' = IF cl[l] = "cancelled" THEN Push("release", l) ELSE down

\* onReleased: refused, acknowledged or preempted, the lease is over.  One that is being acquired hears
\* only the edge's refusal: cdp_unhealthy, browser_wake_failed, window_busy or yield_timeout.
onReleased(l) ==
    /\ cl' = [cl EXCEPT ![l] = IF @ \in {"acquiring", "active", "releasing", "cancelled"} THEN "over" ELSE @]
    /\ UNCHANGED down

ClientHears ==
    /\ back # <<>> /\ Head(back).t \in {"acquired", "released"} /\ back' = Tail(back)
    /\ LET m == Head(back) IN IF m.t = "acquired" THEN onAcquired(m.l) ELSE onReleased(m.l)
    /\ UNCHANGED <<up, held, waiting, kept, drops>>

\* The connection ends: invalidateEdge; the edge may go on with what it holds.
Disconnect ==
    /\ up /\ drops < MaxDrops /\ drops' = drops + 1 /\ up' = FALSE /\ down' = <<>> /\ back' = <<>> /\ waiting' = {}
    /\ cl' = [l \in Leases |-> IF cl[l] = "new" THEN "new" ELSE "over"]
    /\ held' \in {held, None} /\ kept' = kept \cup ({held'} \ {None})

Reconnect == ~up /\ up' = TRUE /\ UNCHANGED <<cl, down, back, held, waiting, kept, drops>>

------------------------------------------------------------------------------
(* The edge (external): it answers in order, a release before the grant    *)
(* that the release makes possible.                                        *)

Reply(ms) == back' = back \o ms

EdgeHearsAcquire ==
    LET l == Head(down).l IN
    /\ down # <<>> /\ Head(down).t = "acquire" /\ down' = Tail(down)
    /\ \/ held = None /\ held' = l /\ Reply(<<Msg("acquired", l)>>) /\ UNCHANGED waiting
       \/ /\ held # None /\ l \in Human /\ held \notin Human
          /\ held' = l /\ Reply(<<Msg("released", held), Msg("acquired", l)>>) /\ UNCHANGED waiting
       \/ held # None /\ waiting' = waiting \cup {l} /\ UNCHANGED <<held, back>>
       \/ Reply(<<Msg("released", l)>>) /\ UNCHANGED <<held, waiting>>
    /\ UNCHANGED <<up, cl, kept, drops>>

EdgeHearsRelease ==
    LET l == Head(down).l IN
    /\ down # <<>> /\ Head(down).t = "release" /\ down' = Tail(down)
    /\ held' = IF held = l THEN None ELSE held
    /\ waiting' = waiting \ {l} /\ Reply(<<Msg("released", l)>>)
    /\ UNCHANGED <<up, cl, kept, drops>>

EdgeGrants ==
    /\ up /\ held = None
    /\ \E l \in waiting : held' = l /\ waiting' = waiting \ {l} /\ Reply(<<Msg("acquired", l)>>)
    /\ UNCHANGED <<up, cl, down, kept, drops>>

EdgeExpires ==
    /\ held # None /\ held' = None
    /\ back' = IF up THEN Append(back, Msg("released", held)) ELSE back
    /\ UNCHANGED <<up, cl, down, waiting, kept, drops>>

LeaseNext ==
    \/ ClientHears \/ Disconnect \/ Reconnect
    \/ EdgeHearsAcquire \/ EdgeHearsRelease \/ EdgeGrants \/ EdgeExpires
    \/ \E l \in Leases : acquireTimeout(l) \/ releaseTimeout(l)

------------------------------------------------------------------------------
(* Properties.                                                             *)

(***************************************************************************)
(* At most one task of the cloud believes it may drive the edge, through   *)
(* preemption, late grants, timeouts and reconnections.                    *)
(***************************************************************************)
OneActiveLease == \A l, m \in Leases : cl[l] = "active" /\ cl[m] = "active" => l = m

(***************************************************************************)
(* The edge never works for a lease the cloud has given up, unless it was  *)
(* carried over a lost connection: a release is on its way, or a notice of *)
(* the grant that will be answered with one.                               *)
(***************************************************************************)
HeldIsKnown ==
    held # None =>
        \/ cl[held] \in {"acquiring", "active"} \/ held \in kept
        \/ \E i \in 1..Len(down) : down[i] = Msg("release", held)

==============================================================================
