-------------------------- MODULE ActionBroadcast --------------------------
(***************************************************************************)
(* What the cluster actions promise an application: a node learns of an    *)
(* action only if some node triggered it, and in one run of the node it    *)
(* learns of it once at most.  An action is known by its time and payload. *)
(***************************************************************************)
EXTENDS Naturals

CONSTANTS Node, Act

VARIABLES triggered,   \* the actions triggered so far, on any node
          learnt       \* how often each node has learnt of each in this run

vars == <<triggered, learnt>>

Never == [a \in Act |-> 0]

Init == /\ triggered = {}
        /\ learnt = [n \in Node |-> Never]

Fresh(n) == {a \in triggered' : learnt[n][a] = 0}

\* A node learns of any number of actions at once that are new to it.
Learns(n) == \E new \in SUBSET Fresh(n) :
                learnt' = [learnt EXCEPT ![n] =
                              [a \in Act |-> IF a \in new THEN 1 ELSE @[a]]]

Trigger(n) == /\ \E a \in Act : triggered' = triggered \cup {a}
              /\ Learns(n)

Learn(n) == /\ UNCHANGED triggered
            /\ Learns(n)

\* A run ends: the next one starts from nothing.
Restart(n) == /\ learnt' = [learnt EXCEPT ![n] = Never]
              /\ UNCHANGED triggered

Next == \E n \in Node : Trigger(n) \/ Learn(n) \/ Restart(n)

Spec == Init /\ [][Next]_vars
=============================================================================
