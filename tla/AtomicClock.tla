---------------------------- MODULE AtomicClock ----------------------------
(***************************************************************************)
(* What a LamportClock promises to its callers: Witness(t) is one          *)
(* indivisible step that moves the clock past t, or leaves it alone when   *)
(* it is past t already.  Every other module of this project takes         *)
(* Witness as such a step; module LamportClock shows that the              *)
(* compare-and-swap loop of lamport.go implements it.                      *)
(***************************************************************************)
EXTENDS Naturals

CONSTANTS Thread,    \* the goroutines that share the clock
          Observed   \* the times they may witness

VARIABLES time,      \* the clock
          calls      \* calls[th]: the time th is witnessing, {} when none

vars == <<time, calls>>

\* newActionManager and newQueryManager start both clocks at 1.
Init == /\ time = 1
        /\ calls = [th \in Thread |-> {}]

Call(th) == /\ calls[th] = {}
            /\ \E t \in Observed : calls' = [calls EXCEPT ![th] = {t}]
            /\ UNCHANGED time

Return(th) == \E t \in calls[th] :
                /\ time' = IF time > t THEN time ELSE t + 1
                /\ calls' = [calls EXCEPT ![th] = {}]

Tick(th) == /\ time' = time + 1
            /\ UNCHANGED calls

Next == \E th \in Thread : Call(th) \/ Return(th) \/ Tick(th)

Spec == Init /\ [][Next]_vars
=============================================================================
