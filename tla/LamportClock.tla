---------------------------- MODULE LamportClock ----------------------------
(***************************************************************************)
(* lamport.go: the logical clock the goroutines of one node share without  *)
(* a lock.  Each atomic instruction is a step of its own, so that the      *)
(* load, the comparison and the compare-and-swap of one Witness interleave *)
(* with those of the others.  LamportTime is a natural number: a uint64    *)
(* that only moves to one past a time a peer has sent does not wrap in the *)
(* life of a cluster.                                                      *)
(***************************************************************************)
EXTENDS Naturals

CONSTANTS Thread,     \* the goroutines that share the clock
          Observed,   \* the times they may witness
          MaxTime     \* bound on the clock, for model checking: Next and
                      \* nothing else is held back by it

ASSUME ClockAssumption == Observed \subseteq Nat /\ MaxTime \in Nat

VARIABLES time,       \* l.time
          pc,         \* where each goroutine is in Witness
          arg,        \* the argument t of its Witness
          t0          \* the value its last load returned

vars == <<time, pc, arg, t0>>

Init == /\ time = 1
        /\ pc = [th \in Thread |-> "idle"]
        /\ arg = [th \in Thread |-> 0]
        /\ t0 = [th \in Thread |-> 0]

\* Witness(t) is entered.
Witness(th) == /\ pc[th] = "idle"
               /\ \E t \in Observed : arg' = [arg EXCEPT ![th] = t]
               /\ pc' = [pc EXCEPT ![th] = "load"]
               /\ UNCHANGED <<time, t0>>

\* Mutant: returns when the clock has only reached the time witnessed.
Load_stopsAtArg(th) ==
    /\ pc[th] = "load"
    /\ t0' = [t0 EXCEPT ![th] = time]
    /\ pc' = [pc EXCEPT ![th] = IF time >= arg[th] THEN "idle" ELSE "swap"]
    /\ UNCHANGED <<time, arg>>

\* Mutant: the comparison is the wrong way round.
Load_reversed(th) ==
    /\ pc[th] = "load"
    /\ t0' = [t0 EXCEPT ![th] = time]
    /\ pc' = [pc EXCEPT ![th] = IF time <= arg[th] THEN "idle" ELSE "swap"]
    /\ UNCHANGED <<time, arg>>

\* t0 := l.Time(); if t0 > t1 the loop ends here, on the value loaded.
Load(th) == /\ pc[th] = "load"
            /\ t0' = [t0 EXCEPT ![th] = time]
            /\ pc' = [pc EXCEPT ![th] = IF time > arg[th] THEN "idle" ELSE "swap"]
            /\ UNCHANGED <<time, arg>>

\* Mutant: a plain store in place of the compare-and-swap.
Swap_store(th) == /\ pc[th] = "swap"
                  /\ time' = arg[th] + 1
                  /\ pc' = [pc EXCEPT ![th] = "idle"]
                  /\ UNCHANGED <<arg, t0>>

\* Mutant: a failed swap is retried without a new load.
Swap_noReload(th) == /\ pc[th] = "swap"
                     /\ time = t0[th]
                     /\ time' = arg[th] + 1
                     /\ pc' = [pc EXCEPT ![th] = "idle"]
                     /\ UNCHANGED <<arg, t0>>

\* CompareAndSwapUint64(&l.time, t0, t1+1): the loop ends if it succeeds.
Swap(th) == /\ pc[th] = "swap"
            /\ IF time = t0[th]
                 THEN /\ time' = arg[th] + 1
                      /\ pc' = [pc EXCEPT ![th] = "idle"]
                 ELSE /\ pc' = [pc EXCEPT ![th] = "load"]
                      /\ UNCHANGED time
            /\ UNCHANGED <<arg, t0>>

\* Next: AddUint64(&l.time, 1).
Tick(th) == /\ pc[th] = "idle"
            /\ time < MaxTime
            /\ time' = time + 1
            /\ UNCHANGED <<pc, arg, t0>>

Next == \E th \in Thread : Witness(th) \/ Load(th) \/ Swap(th) \/ Tick(th)

(***************************************************************************)
(* The Go scheduler runs every goroutine that can run, so a call that was  *)
(* entered goes on; no fairness makes anybody call Witness or Next.        *)
(***************************************************************************)
Spec == /\ Init /\ [][Next]_vars
        /\ \A th \in Thread : WF_vars(Load(th) \/ Swap(th))

-----------------------------------------------------------------------------
TypeOK == /\ time \in Nat
          /\ pc \in [Thread -> {"idle", "load", "swap"}]
          /\ arg \in [Thread -> Nat]
          /\ t0 \in [Thread -> Nat]

\* A swap is only attempted from a load that found the clock not past arg:
\* this is what keeps the clock of lamport.go:29 from being moved back.
SwapMovesForward == \A th \in Thread : pc[th] = "swap" => t0[th] <= arg[th]

ClockInv == TypeOK /\ SwapMovesForward

\* No interleaving of Witness and Next moves the clock back (lamport.go:18-32):
\* a stale t0 makes the compare-and-swap fail.
TimeNeverDecreases == [][time' >= time]_vars

\* When Witness(t) returns, the clock is past t (lamport.go:26,29), whatever
\* the other goroutines did between its load and its swap.
ReturnedWitnessIsPast ==
    [][\A th \in Thread :
          pc[th] # "idle" /\ pc'[th] = "idle" => time' > arg[th]]_vars

\* What callers rely on (net_handlers.go:74,156): the clock never goes
\* back, and a Witness that returns leaves it past what was witnessed.
WitnessMovesOn == TimeNeverDecreases /\ ReturnedWitnessIsPast

\* Every Witness returns (the loop of lamport.go:23): a swap fails only when
\* another goroutine moved the clock, which happens finitely often before the
\* clock is past arg.
WitnessReturns == \A th \in Thread : pc[th] = "load" ~> pc[th] = "idle"

\* The loop implements the atomic Witness.
calls == [th \in Thread |-> IF pc[th] = "idle" THEN {} ELSE {arg[th]}]

Atomic == INSTANCE AtomicClock
ImplementsAtomicClock == Atomic!Spec
=============================================================================
