----------------------------- MODULE MemberFeed -----------------------------
(***************************************************************************)
(* What the member events promise an application: for each member it is    *)
(* told of the latest thing that happened, never of one that is out of     *)
(* date, and it may miss what happened in between.                         *)
(***************************************************************************)
CONSTANTS Member, Event

VARIABLES actual,   \* actual[m]: the last event of m, {} before the first
          view      \* view[m]: the last one the application was told of

vars == <<actual, view>>

Init == /\ actual = [m \in Member |-> {}]
        /\ view = [m \in Member |-> {}]

Happen(m) == /\ \E e \in Event : actual' = [actual EXCEPT ![m] = {e}]
             /\ UNCHANGED view

Announce(ms) == /\ view' = [m \in Member |-> IF m \in ms THEN actual[m] ELSE view[m]]
                /\ UNCHANGED actual

Next == \/ \E m \in Member : Happen(m)
        \/ \E ms \in SUBSET Member : Announce(ms)

Spec == Init /\ [][Next]_vars
=============================================================================
