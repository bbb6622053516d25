---------------------------- MODULE DurableState ----------------------------
(***************************************************************************)
(* What a snapshot file promises: after a crash a node is in a state it    *)
(* was in before, no older than the last one made durable.                 *)
(***************************************************************************)
CONSTANT Initial

VARIABLES current,   \* the state in memory
          durable,   \* the state a restart would read
          since      \* states of the memory since it was in the durable one

vars == <<current, durable, since>>

Init == /\ current = Initial
        /\ durable = Initial
        /\ since = {Initial}

\* States in between may become out of reach, both ends stay.
Kept == /\ since' \subseteq since \cup {current'}
        /\ {durable', current'} \subseteq since'

\* The memory changes, or some of what it was before gets durable, or both.
Step == /\ durable' \in since
        /\ Kept

Crash == /\ current' = durable
         /\ durable' = durable
         /\ since' = {durable}

Next == Step \/ Crash

Spec == Init /\ [][Next]_vars
=============================================================================
