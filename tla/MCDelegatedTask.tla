--------------------------- MODULE MCDelegatedTask ---------------------------
(* Instances of DelegatedTask for TLC. *)
EXTENDS DelegatedTask, TLC

CONSTANTS s1, s2, o1

MCTargets == [t \in Tasks |-> 1]
MCTwoAttempts == [t \in Tasks |-> 2]

\* Bounds: a request of an operator or a crash, one of them in a behaviour, or a
\* second request if it resumes what the first has paused.
OneDisturbance == ops + crashes <= 1 \/ (ops = 2 /\ crashes = 0)

\* Bounds: the second slot begins a tick only while the first holds a claim,
\* with no request in the behaviour but a pause that has read the row while it was queued;
\* deadlines pass and requests are read while it is idle.
SecondCompetes ==
    /\ slot[s2].pc = "idle" /\ slot'[s2].pc # "idle" =>
        /\ \E t \in Tasks : task[t].holder = s1
        /\ ops > 0 => op[o1].kind = "pause" /\ op[o1].st = "queued"
    /\ slot[s2].pc # "idle" => due' = due /\ ops' = ops
    /\ ops = 1 /\ ops' = 2 => \E o \in Operators : op'[o].kind = "resume"

MCFairSpec ==
    /\ Spec
    /\ WF_vars(Tick(s1)) /\ WF_vars(slot[s2].pc # "idle" /\ Tick(s2))
    /\ \A s \in Slots : WF_vars(Process(s))
    /\ \A t \in Tasks : WF_vars(LeaseExpires(t)) /\ WF_vars(DeadlinePasses(t))
    /\ \A o \in Operators : WF_vars(OperatorWrites(o))
    /\ WF_vars(Restart)
=============================================================================
