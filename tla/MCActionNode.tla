---------------------------- MODULE MCActionNode ----------------------------
(* Instances of ActionNode for TLC. *)
EXTENDS ActionNode, TLC

\* The payloads are interchangeable, except for nil, and so are the peers and the
\* goroutines that call Action, Join and Merge.
Symmetry == Permutations(Payload \ {nil}) \cup Permutations(Peer)
            \cup Permutations(Goroutine \ {Receiver})
=============================================================================
