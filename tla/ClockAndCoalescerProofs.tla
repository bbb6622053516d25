----------------------- MODULE ClockAndCoalescerProofs -----------------------
(***************************************************************************)
(* Two components without a lock.  The compare-and-swap loop of lamport.go *)
(* implements an atomic Witness, for any number of goroutines and any      *)
(* times they observe.  The coalescer leaves out only what was sent since  *)
(* it was last cleaned, and no member is ever announced as something it no *)
(* longer is, for any members and any number of events.                    *)
(***************************************************************************)
EXTENDS LamportClock, Coalescer, TLAPS

-----------------------------------------------------------------------------
(* The clock. *)

\* The types, and that a pending swap moves the clock forward, are inductive.
LEMMA ClockInvStep == ClockInv /\ [Next]_vars => ClockInv'
<1> SUFFICES ASSUME ClockInv, [Next]_vars
             PROVE  ClockInv'
  OBVIOUS
<1> USE ClockAssumption DEF ClockInv, TypeOK, SwapMovesForward
<1>1. ASSUME NEW th \in Thread, Witness(th)
      PROVE  ClockInv'
  BY <1>1 DEF Witness
<1>2. ASSUME NEW th \in Thread, Load(th)
      PROVE  ClockInv'
  BY <1>2 DEF Load
<1>3. ASSUME NEW th \in Thread, Swap(th)
      PROVE  ClockInv'
  BY <1>3 DEF Swap
<1>4. ASSUME NEW th \in Thread, Tick(th)
      PROVE  ClockInv'
  BY <1>4 DEF Tick
<1>5. CASE UNCHANGED vars
  BY <1>5 DEF vars
<1> QED
  BY <1>1, <1>2, <1>3, <1>4, <1>5 DEF Next

\* In every state reached, a goroutine about to swap holds a load that found
\* the clock not past its argument (lamport.go:26-29).
THEOREM ClockInvariant == Spec => []ClockInv
<1>1. Init => ClockInv
  BY DEF Init, ClockInv, TypeOK, SwapMovesForward
<1> QED
  BY <1>1, ClockInvStep, PTL DEF Spec

\* The clock never moves back, whatever the interleaving (lamport.go:18-32).
THEOREM ClockMonotone == Spec => TimeNeverDecreases
<1>1. ClockInv /\ [Next]_vars => [time' >= time]_vars
  <2> SUFFICES ASSUME ClockInv, Next
               PROVE  time' >= time
    BY DEF vars
  <2> USE DEF ClockInv, TypeOK, SwapMovesForward
  <2>1. PICK th \in Thread : Witness(th) \/ Load(th) \/ Swap(th) \/ Tick(th)
    BY DEF Next
  <2>2. CASE Swap(th)
    BY <2>2 DEF Swap
  <2>3. CASE Witness(th) \/ Load(th) \/ Tick(th)
    BY <2>3 DEF Witness, Load, Tick
  <2> QED
    BY <2>1, <2>2, <2>3
<1> QED
  BY <1>1, ClockInvariant, PTL DEF Spec, TimeNeverDecreases

\* When Witness(t) returns the clock is past t (lamport.go:26,29).
THEOREM WitnessPostcondition == Spec => ReturnedWitnessIsPast
<1> DEFINE Post == \A th \in Thread :
                      pc[th] # "idle" /\ pc'[th] = "idle" => time' > arg[th]
<1>1. ClockInv /\ [Next]_vars => [Post]_vars
  <2> SUFFICES ASSUME ClockInv, Next
               PROVE  Post
    OBVIOUS
  <2> USE DEF ClockInv, TypeOK
  <2>1. PICK th \in Thread : Witness(th) \/ Load(th) \/ Swap(th) \/ Tick(th)
    BY DEF Next
  <2>2. CASE Witness(th) \/ Tick(th)
    BY <2>1, <2>2 DEF Witness, Tick
  <2>3. CASE Load(th)
    BY <2>3 DEF Load
  <2>4. CASE Swap(th)
    BY <2>4 DEF Swap
  <2> QED
    BY <2>1, <2>2, <2>3, <2>4
<1> QED
  BY <1>1, ClockInvariant, PTL DEF Spec, ReturnedWitnessIsPast

\* No interleaving moves the clock back, and a Witness that returns leaves it past
\* its argument (lamport.go:18-32).
THEOREM WitnessContract == Spec => WitnessMovesOn
BY ClockMonotone, WitnessPostcondition DEF WitnessMovesOn

\* Every step of the loop is a step of the atomic clock or leaves it alone: the
\* comparison that ends the loop and the swap that succeeds are the points at
\* which Witness takes effect.
THEOREM ClockRefinement == Spec => ImplementsAtomicClock
<1> USE DEF calls
<1>1. Init => Atomic!Init
  BY DEF Init, Atomic!Init
<1>2. ClockInv /\ [Next]_vars => [Atomic!Next]_(Atomic!vars)
  <2> SUFFICES ASSUME ClockInv, [Next]_vars
               PROVE  Atomic!Next \/ UNCHANGED <<time, calls>>
    BY DEF Atomic!vars
  <2> USE ClockAssumption DEF ClockInv, TypeOK, SwapMovesForward
  <2>1. ASSUME NEW th \in Thread, Witness(th)
        PROVE  Atomic!Call(th)
    BY <2>1 DEF Witness, Atomic!Call
  <2>2. ASSUME NEW th \in Thread, Load(th), time > arg[th]
        PROVE  Atomic!Return(th)
    BY <2>2 DEF Load, Atomic!Return
  <2>3. ASSUME NEW th \in Thread, Load(th), ~(time > arg[th])
        PROVE  UNCHANGED <<time, calls>>
    BY <2>3 DEF Load
  <2>4. ASSUME NEW th \in Thread, Swap(th), time = t0[th]
        PROVE  Atomic!Return(th)
    <3>1. arg[th] \in calls[th]
      BY <2>4 DEF Swap
    <3>2. time' = IF time > arg[th] THEN time ELSE arg[th] + 1
      BY <2>4 DEF Swap
    <3>3. calls' = [calls EXCEPT ![th] = {}]
      BY <2>4 DEF Swap
    <3> QED
      BY <3>1, <3>2, <3>3 DEF Atomic!Return
  <2>5. ASSUME NEW th \in Thread, Swap(th), time # t0[th]
        PROVE  UNCHANGED <<time, calls>>
    BY <2>5 DEF Swap
  <2>6. ASSUME NEW th \in Thread, Tick(th)
        PROVE  Atomic!Tick(th)
    BY <2>6 DEF Tick, Atomic!Tick
  <2>7. CASE UNCHANGED vars
    BY <2>7 DEF vars
  <2> QED
    BY <2>1, <2>2, <2>3, <2>4, <2>5, <2>6, <2>7 DEF Next, Atomic!Next
<1> QED
  BY <1>1, <1>2, ClockInvariant, PTL DEF Spec, ImplementsAtomicClock, Atomic!Spec

-----------------------------------------------------------------------------
(* The coalescer. *)

\* Inductive: CoalescerInv says nothing of the type of the history it compares
\* oldEvents with.
CoalescerIInv == CoalescerInv /\ announced \in [Member -> SUBSET Event]

\* A flush, at a tick or at shutdown, keeps the invariant, whatever member
\* opens the coalesced event of each type.
LEMMA CoalescerFlush ==
  ASSUME CoalescerIInv, flush, running' \in BOOLEAN
  PROVE  CoalescerIInv'
<1> USE DEF CoalescerIInv, CoalescerInv, CoalescerTypeOK
<1>1. PICK keep \in SUBSET Member :
         /\ keep \subseteq Fresh
         /\ oldEvents' = [m \in Member |-> IF m \in keep THEN newEvents[m] ELSE oldEvents[m]]
  <2>1. PICK first \in [{t \in Type : FreshOf(t) # {}} -> Member] :
           oldEvents' = [m \in Member |->
              IF m \in Fresh /\ \A t \in DOMAIN first : first[t] # m
                THEN newEvents[m] ELSE oldEvents[m]]
    BY DEF flush
  <2> DEFINE keep == {m \in Fresh : \A t \in DOMAIN first : first[t] # m}
  <2>2. keep \in SUBSET Member /\ keep \subseteq Fresh
    BY DEF Fresh
  <2> QED
    BY <2>1, <2>2
<1>2. /\ view' = [m \in Member |-> IF m \in Fresh THEN newEvents[m] ELSE view[m]]
      /\ announced' = [m \in Member |->
            IF m \in Fresh THEN announced[m] \cup newEvents[m] ELSE announced[m]]
      /\ newEvents' = None /\ actual' = actual
  BY DEF flush
<1>3. CoalescerTypeOK'
  BY <1>1, <1>2 DEF None
<1>4. announced' \in [Member -> SUBSET Event]
  BY <1>2
<1>5. \A m \in Member : oldEvents'[m] \subseteq announced'[m]
  BY <1>1, <1>2
<1>6. \A m \in Member : newEvents'[m] \in {{}, actual'[m]}
  BY <1>2 DEF None
<1> QED
  BY <1>3, <1>4, <1>5, <1>6

\* Every case of the select keeps the invariant.
LEMMA CoalescerStep == CoalescerIInv /\ [CoalescerNext]_coalescerVars => CoalescerIInv'
<1> SUFFICES ASSUME CoalescerIInv, [CoalescerNext]_coalescerVars
             PROVE  CoalescerIInv'
  OBVIOUS
<1> USE DEF CoalescerIInv, CoalescerInv, CoalescerTypeOK
<1>1. ASSUME NEW m \in Member, NEW e \in Event, ReceiveEvent(m, e)
      PROVE  CoalescerIInv'
  BY <1>1 DEF ReceiveEvent
<1>2. CASE FlushTick
  BY <1>2, CoalescerFlush DEF FlushTick
<1>3. CASE CleanTick
  BY <1>3 DEF CleanTick, None
<1>4. CASE Shutdown
  BY <1>4, CoalescerFlush DEF Shutdown
<1>5. CASE UNCHANGED coalescerVars
  BY <1>5 DEF coalescerVars
<1> QED
  BY <1>1, <1>2, <1>3, <1>4, <1>5 DEF CoalescerNext

\* The inductive invariant holds.
LEMMA CoalescerInvariant == CoalescerSpec => []CoalescerIInv
<1>1. CoalescerInit => CoalescerIInv
  BY DEF CoalescerInit, None, CoalescerIInv, CoalescerInv, CoalescerTypeOK
<1> QED
  BY <1>1, CoalescerStep, PTL DEF CoalescerSpec

\* What the coalescer remembers of a member has been sent since the last clean
\* tick, and what waits is the latest (coalescer.go:45-96).
THEOREM CoalescerCorrect == CoalescerSpec => []CoalescerInv
BY CoalescerInvariant, PTL DEF CoalescerIInv

\* No event is lost by a tick: it is sent, or its equal was since the last clean
\* tick (coalescer.go:48,88).
THEOREM NothingIsLost == CoalescerSpec => LeftOutWasSent
<1> DEFINE Sent == \A m \in Member :
                      newEvents[m] # {} /\ newEvents'[m] = {} /\ view'[m] # newEvents[m] =>
                         \E e \in newEvents[m], s \in announced[m] : Equal(e, s)
<1>1. ASSUME CoalescerIInv, CoalescerNext
      PROVE  Sent
  <2> SUFFICES ASSUME NEW m \in Member,
                      newEvents[m] # {}, newEvents'[m] = {}, view'[m] # newEvents[m]
               PROVE  \E e \in newEvents[m], s \in announced[m] : Equal(e, s)
    OBVIOUS
  <2> USE <1>1 DEF CoalescerIInv, CoalescerInv, CoalescerTypeOK
  <2>1. CASE \E n \in Member, e \in Event : ReceiveEvent(n, e)
    BY <2>1 DEF ReceiveEvent
  <2>2. CASE CleanTick
    BY <2>2 DEF CleanTick
  <2>3. CASE flush
    <3>1. m \notin Fresh
      BY <2>3 DEF flush
    <3>2. \E e \in newEvents[m], o \in oldEvents[m] : Equal(e, o)
      BY <3>1 DEF Fresh
    <3> QED
      BY <3>2
  <2> QED
    BY <1>1, <2>1, <2>2, <2>3 DEF CoalescerNext, FlushTick, Shutdown
<1>2. CoalescerIInv /\ [CoalescerNext]_coalescerVars => [Sent]_coalescerVars
  BY <1>1
<1> QED
  BY <1>2, CoalescerInvariant, PTL DEF CoalescerSpec, LeftOutWasSent

\* The coalescer implements the feed: what it sends of a member is the latest
\* that happened, in whatever order a flush walks the map (coalescer.go:45-66).
THEOREM FeedRefinement == CoalescerSpec => ImplementsFeed
<1>1. CoalescerInit => Feed!Init
  BY DEF CoalescerInit, None, Feed!Init
<1>2. CoalescerIInv /\ [CoalescerNext]_coalescerVars => [Feed!Next]_(Feed!vars)
  <2> SUFFICES ASSUME CoalescerIInv, [CoalescerNext]_coalescerVars
               PROVE  Feed!Next \/ UNCHANGED <<actual, view>>
    BY DEF Feed!vars
  <2> USE DEF CoalescerIInv, CoalescerInv, CoalescerTypeOK
  <2>1. ASSUME NEW m \in Member, NEW e \in Event, ReceiveEvent(m, e)
        PROVE  Feed!Happen(m)
    BY <2>1 DEF ReceiveEvent, Feed!Happen
  <2>2. ASSUME flush
        PROVE  Feed!Announce(Fresh)
    <3>1. \A m \in Fresh : m \in Member /\ newEvents[m] = actual[m]
      BY DEF Fresh
    <3>2. view' = [m \in Member |-> IF m \in Fresh THEN newEvents[m] ELSE view[m]]
      BY <2>2 DEF flush
    <3>3. view' = [m \in Member |-> IF m \in Fresh THEN actual[m] ELSE view[m]]
      BY <3>1, <3>2
    <3> QED
      BY <2>2, <3>3 DEF flush, Feed!Announce
  <2>3. CASE CleanTick
    BY <2>3 DEF CleanTick
  <2>4. CASE UNCHANGED coalescerVars
    BY <2>4 DEF coalescerVars
  <2>5. Fresh \in SUBSET Member
    BY DEF Fresh
  <2> QED
    BY <2>1, <2>2, <2>3, <2>4, <2>5 DEF CoalescerNext, FlushTick, Shutdown, Feed!Next
<1> QED
  BY <1>1, <1>2, CoalescerInvariant, PTL DEF CoalescerSpec, ImplementsFeed, Feed!Spec
=============================================================================
