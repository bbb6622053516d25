-------------------------- MODULE ActionNodeProofs --------------------------
(***************************************************************************)
(* For every number of goroutines, peers, names and payloads, every size   *)
(* of the buffer and every initial minimum time: a node sends an action on *)
(* inEventCh once at most, turns away as a duplicate only what it has      *)
(* accepted, and sends nothing that a join was to ignore unless another    *)
(* goroutine took the flags of that join or set the minimum time back.     *)
(***************************************************************************)
EXTENDS ActionNode, TLAPS

-----------------------------------------------------------------------------
(* The buffer, of any size: why a time that has lost its slot to a later   *)
(* one is always too old to be accepted again.                             *)

\* Every time has a slot.
LEMMA SlotType == \A t \in Nat : Slot(t) \in 0 .. BufSize - 1
  BY BufferAssumption DEF Slot

\* Two times of one slot are at least a buffer apart.
LEMMA SlotGap ==
  ASSUME NEW t \in Nat, NEW u \in Nat, Slot(t) = Slot(u), t < u
  PROVE  t + BufSize <= u
<1> USE BufferAssumption
<1> DEFINE q == t \div BufSize
           r == u \div BufSize
<1>1. /\ q \in Int /\ t = BufSize * q + Slot(t)
      /\ r \in Int /\ u = BufSize * r + Slot(u)
      /\ Slot(t) \in Int
  BY DEF Slot
<1> HIDE DEF q, r
<1>2. q < r
  <2>1. r <= q => BufSize * r <= BufSize * q
    BY <1>1
  <2> QED
    BY <1>1, <2>1
<1>3. BufSize * q + BufSize <= BufSize * r
  BY <1>1, <1>2
<1> QED
  BY <1>1, <1>3

\* A time whose slot is held by a later time that the clock is past is outside
\* the window (buffer.go:48-53): this is why replacing a group forgets nothing
\* that could still be accepted.
LEMMA ReplacedIsTooOld ==
  ASSUME NEW item, item.LTime \in Nat, NEW u \in Nat, NEW currentTime \in Nat,
         Slot(item.LTime) = Slot(u), item.LTime < u, u < currentTime
  PROVE  isTooOld(currentTime, item)
<1>1. item.LTime + BufSize <= u
  BY SlotGap
<1> QED
  BY <1>1, BufferAssumption DEF isTooOld

\* addItem touches the slot of the item only.
LEMMA AddedElsewhere ==
  ASSUME NEW buf, DOMAIN buf = 0 .. BufSize - 1, NEW item,
         NEW s \in 0 .. BufSize - 1, s # Slot(item.LTime)
  PROVE  Added(buf, item)[s] = buf[s]
  BY DEF Added

\* In its slot, the item starts a group of its time or joins the one there.
LEMMA AddedHere ==
  ASSUME NEW buf, DOMAIN buf = 0 .. BufSize - 1, NEW item, item.LTime \in Nat
  PROVE  Added(buf, item)[Slot(item.LTime)] =
           IF isLTimeNew(buf, item.LTime)
             THEN [LTime |-> item.LTime, Items |-> <<item>>]
             ELSE [LTime |-> buf[Slot(item.LTime)].LTime,
                   Items |-> Append(buf[Slot(item.LTime)].Items, item)]
  BY SlotType DEF Added

-----------------------------------------------------------------------------
(* Types. *)

\* The actions peers can have sent are actions.
LEMMA PeerMsgType == /\ PeerMsg \subseteq Msg
                     /\ PeerBuffer \subseteq Seq(Msg)
<1> USE ActionNodeAssumption
<1>1. PeerMsg \subseteq Msg /\ PeerBufferMsg \subseteq Msg
  BY DEF PeerMsg, PeerBufferMsg, Msg
<1>2. ASSUME NEW n \in 0 .. MaxReplay, NEW b \in [1 .. n -> PeerBufferMsg]
      PROVE  b \in Seq(Msg)
  <2>1. n \in Nat /\ b \in [1 .. n -> Msg]
    BY <1>1
  <2> QED
    BY <2>1
<1> QED
  BY <1>1, <1>2 DEF PeerBuffer

\* No state is a state.
LEMMA NoStateType == NoState \in StateType
  BY DEF NoState, StateType

\* What addItem leaves in the buffer is a buffer.
LEMMA AddedType ==
  ASSUME TypeOK, NEW m \in Msg
  PROVE  Added(buffers, Item(m)) \in
            [0 .. BufSize - 1 -> [LTime : Nat, Items : Seq(BufferedItem)]]
<1>1. Item(m) \in BufferedItem /\ Item(m).LTime \in Nat
  BY DEF Item, Msg, BufferedItem
<1>2. Slot(Item(m).LTime) \in 0 .. BufSize - 1
  BY <1>1, SlotType
<1> DEFINE old == buffers[Slot(Item(m).LTime)]
<1>3. old.LTime \in Nat /\ old.Items \in Seq(BufferedItem)
  BY <1>2 DEF TypeOK
<1>4. <<Item(m)>> \in Seq(BufferedItem) /\ Append(old.Items, Item(m)) \in Seq(BufferedItem)
  BY <1>1, <1>3
<1> QED
  BY <1>1, <1>2, <1>3, <1>4 DEF TypeOK, Added

\* Both Return cases keep the types.
LEMMA ReturnType ==
  ASSUME TypeOK, NEW g \in Goroutine, Return(g)
  PROVE  /\ pc' \in [Goroutine -> Labels]
         /\ msg' \in [Goroutine -> Msg \cup {NoMsg}]
         /\ local' \in [Goroutine -> BOOLEAN]
         /\ pc'[g] \notin Handling
         /\ \A h \in Goroutine \ {g} : pc'[h] = pc[h] /\ msg'[h] = msg[h]
  BY DEF TypeOK, CallsOK, Return, Goto, Labels, Handling

Types == TypeOK /\ HandledIsMsg

\* Starting a handler, a Join or a Merge keeps the types.
LEMMA StartTypes ==
  ASSUME Types, NEW g \in Goroutine,
         (\E m \in PeerMsg : Receive(m)) \/ Starts(g) \/ JoinStep(g)
  PROVE  Types'
<1> USE ActionNodeAssumption, PeerMsgType
        DEF Types, TypeOK, CallsOK, HandledIsMsg, Handling, Labels, Goto, Start,
            managerVars, joinVars, outVars, callVars
<1>1. ASSUME NEW m \in PeerMsg, Receive(m)
      PROVE  Types'
  BY <1>1 DEF Receive
<1>2. ASSUME NEW name \in Name, NEW payload \in Payload, Action(g, name, payload)
      PROVE  Types'
  <2>1. [LTime |-> clock, Name |-> name, Payload |-> payload] \in Msg
    BY DEF Msg
  <2> QED
    BY <1>2, <2>1 DEF Action
<1>3. ASSUME NEW peer \in Peer, NEW ignoreOld \in IgnoreOld, Join(g, peer, ignoreOld)
      PROVE  Types'
  <2>1. StateOf(peer, 0, TRUE, ignoreOld) \in StateType
    BY DEF StateType, StateOf
  <2>2. state' \in [Goroutine -> StateType]
    BY <1>3, <2>1 DEF Join
  <2>3. pc' \in [Goroutine -> Labels] /\ HandledIsMsg'
    BY <1>3 DEF Join
  <2>4. /\ msg' \in [Goroutine -> Msg \cup {NoMsg}]
        /\ local' \in [Goroutine -> BOOLEAN]
        /\ todo' \in [Goroutine -> Seq(Msg)]
        /\ ops' \in Nat /\ disturbed' \subseteq Goroutine
    BY <1>3 DEF Join, TakesFlags
  <2>5. CallsOK'
    BY <2>2, <2>3, <2>4
  <2>6. TypeOK'
    BY <1>3, <2>5 DEF Join
  <2> QED
    BY <2>3, <2>6
<1>4. ASSUME NEW peer \in Peer, NEW ltime \in 1 .. MaxTime, NEW actions \in PeerBuffer,
             Merge(g, peer, ltime, actions)
      PROVE  Types'
  <2>1. StateOf(peer, ltime, FALSE, FALSE) \in StateType
    BY DEF StateType, StateOf
  <2>2. state' \in [Goroutine -> StateType]
    BY <1>4, <2>1 DEF Merge
  <2>3. pc' \in [Goroutine -> Labels] /\ HandledIsMsg'
    BY <1>4 DEF Merge
  <2>4. /\ msg' \in [Goroutine -> Msg \cup {NoMsg}]
        /\ local' \in [Goroutine -> BOOLEAN]
        /\ todo' \in [Goroutine -> Seq(Msg)]
        /\ ops' \in Nat /\ disturbed' \subseteq Goroutine
    BY <1>4 DEF Merge
  <2>5. CallsOK'
    BY <2>2, <2>3, <2>4
  <2>6. TypeOK'
    BY <1>4, <2>5 DEF Merge
  <2> QED
    BY <2>3, <2>6
<1>5. ASSUME NEW ltime \in 1 .. MaxTime, NEW actions \in PeerBuffer,
             MergeJoin(g, ltime, actions)
      PROVE  Types'
  <2>1. [state[g] EXCEPT !.ActionLTime = ltime] \in StateType
    <3>1. state[g] \in StateType /\ ltime \in Nat
      OBVIOUS
    <3> QED
      BY <3>1 DEF StateType
  <2>2. state' \in [Goroutine -> StateType]
    BY <1>5, <2>1 DEF MergeJoin
  <2>3. pc' \in [Goroutine -> Labels] /\ HandledIsMsg'
    BY <1>5 DEF MergeJoin
  <2>4. /\ msg' \in [Goroutine -> Msg \cup {NoMsg}]
        /\ local' \in [Goroutine -> BOOLEAN]
        /\ todo' \in [Goroutine -> Seq(Msg)]
        /\ ops' \in Nat /\ disturbed' \subseteq Goroutine
    BY <1>5 DEF MergeJoin
  <2>5. CallsOK'
    BY <2>2, <2>3, <2>4
  <2>6. TypeOK'
    BY <1>5, <2>5 DEF MergeJoin
  <2> QED
    BY <2>3, <2>6
<1>6. CASE JoinFails(g)
  BY <1>6 DEF JoinFails
<1>7. CASE JoinReturns(g)
  BY <1>7, NoStateType DEF JoinReturns, TakesFlags
<1> QED
  BY <1>1, <1>2, <1>3, <1>4, <1>5, <1>6, <1>7 DEF Starts, JoinStep

\* A step of Merge keeps the types.
LEMMA MergeTypes ==
  ASSUME Types, NEW g \in Goroutine, MergeStep(g)
  PROVE  Types'
<1> USE DEF Types, TypeOK, CallsOK, HandledIsMsg, Handling, Labels, Goto, Witnessed,
            managerVars, joinVars, outVars, callVars
<1>1. CASE MergeWitness(g)
  BY <1>1 DEF MergeWitness, StateType
<1>2. CASE MergeFlags(g)
  BY <1>2 DEF MergeFlags
<1>3. CASE MergeCompare(g)
  BY <1>3 DEF MergeCompare
<1>4. CASE MergeSetMin(g)
  BY <1>4 DEF MergeSetMin, SetsBack, StateType
<1>5. CASE MergeUnset(g)
  BY <1>5 DEF MergeUnset, TakesFlags
<1>6. CASE Replay(g)
  <2>1. Head(todo[g]) \in Msg /\ Tail(todo[g]) \in Seq(Msg)
    BY <1>6 DEF Replay
  <2> QED
    BY <1>6, <2>1 DEF Replay
<1>7. CASE MergeEnd(g)
  <2>1. TypeOK'
    BY <1>7, NoStateType DEF MergeEnd
  <2>2. HandledIsMsg'
    BY <1>7 DEF MergeEnd
  <2> QED
    BY <2>1, <2>2
<1> QED
  BY <1>1, <1>2, <1>3, <1>4, <1>5, <1>6, <1>7 DEF MergeStep

\* A step of handleAction keeps the types.
LEMMA HandleTypes ==
  ASSUME Types, NEW g \in Goroutine, HandleStep(g)
  PROVE  Types'
<1> USE DEF Types
<1>1. CASE HandleWitness(g)
  <2>1. msg[g] \in Msg /\ clock \in Nat
    BY <1>1 DEF HandleWitness, TypeOK, HandledIsMsg, Handling
  <2>2. clock' \in Nat
    BY <1>1, <2>1 DEF HandleWitness, Witnessed, Msg
  <2> QED
    BY <1>1, <2>1, <2>2
       DEF HandleWitness, TypeOK, CallsOK, HandledIsMsg, Handling, Labels, Goto,
           managerVars, joinVars, outVars, callVars
<1>2. CASE HandleCheckMin(g)
  <2> USE <1>2 DEF HandleCheckMin, managerVars, joinVars, outVars, callVars
  <2>1. CASE Return(g)
    BY <2>1, ReturnType DEF TypeOK, CallsOK, HandledIsMsg
  <2>2. CASE ~Return(g)
    BY <2>2 DEF TypeOK, CallsOK, HandledIsMsg, Handling, Labels, Goto
  <2> QED
    BY <2>1, <2>2
<1>3. CASE HandleAdd(g)
  <2> USE <1>3 DEF HandleAdd, managerVars, joinVars, outVars, callVars
  <2>1. CASE Accepts(buffers, clock, Item(msg[g]))
    <3>1. Added(buffers, Item(msg[g])) \in
            [0 .. BufSize - 1 -> [LTime : Nat, Items : Seq(BufferedItem)]]
      BY AddedType DEF HandledIsMsg, Handling
    <3> QED
      BY <2>1, <3>1 DEF TypeOK, CallsOK, HandledIsMsg, Handling, Labels, Goto
  <2>2. CASE ~Accepts(buffers, clock, Item(msg[g]))
    BY <2>2, ReturnType DEF TypeOK, CallsOK, HandledIsMsg
  <2> QED
    BY <2>1, <2>2
<1>4. CASE HandleEmit(g)
  <2>1. Append(inEventCh, msg[g]) \in Seq(Msg) /\ broadcasts \cup {msg[g]} \subseteq Msg
    BY <1>4 DEF HandleEmit, TypeOK, CallsOK, HandledIsMsg, Handling
  <2> QED
    BY <1>4, <2>1, ReturnType
       DEF HandleEmit, TypeOK, CallsOK, CallsOK, HandledIsMsg, managerVars, joinVars, outVars, callVars
<1> QED
  BY <1>1, <1>2, <1>3, <1>4 DEF HandleStep

\* The types are inductive.
LEMMA TypesStep == Types /\ [Next]_vars => Types'
<1> SUFFICES ASSUME Types, [Next]_vars
             PROVE  Types'
  OBVIOUS
<1>1. CASE UNCHANGED vars
  BY <1>1 DEF vars, Types, TypeOK, CallsOK, HandledIsMsg, Handling
<1>2. CASE \E m \in PeerMsg : Receive(m)
  BY <1>2, StartTypes, ActionNodeAssumption
<1>3. ASSUME NEW g \in Goroutine, Starts(g) \/ JoinStep(g) \/ MergeStep(g) \/ HandleStep(g)
      PROVE  Types'
  BY <1>3, StartTypes, MergeTypes, HandleTypes
<1> QED
  BY <1>1, <1>2, <1>3 DEF Next

\* Initially every variable has its type.
LEMMA InitTypes == Init => Types
<1>1. EmptyBuffer \in [0 .. BufSize - 1 -> [LTime : Nat, Items : Seq(BufferedItem)]]
  BY DEF EmptyBuffer, NilGroup
<1> QED
  BY <1>1, NoStateType, ActionNodeAssumption
     DEF Init, Types, TypeOK, CallsOK, HandledIsMsg, Handling, Labels

\* Every variable stays in its type, and a goroutine in handleAction has an
\* action to handle (net_handlers.go:151-171).
THEOREM ActionTypes == Spec => [](TypeOK /\ HandledIsMsg)
<1> QED
  BY InitTypes, TypesStep, PTL DEF Spec, Types

-----------------------------------------------------------------------------
(* An action is sent once at most. *)

\* Steps that touch neither the buffer nor what is accepted.
Quiet == /\ clock' >= clock
         /\ UNCHANGED <<buffers, inEventCh>>
         /\ Emitting' = Emitting
         /\ \A g \in Emitting : msg'[g] = msg[g]
         /\ WitnessedFirst'

\* They keep the invariant: moving the clock on only makes more times too old.
LEMMA QuietStep == ActionInv /\ Types' /\ Quiet => ActionInv'
<1> SUFFICES ASSUME ActionInv, Types', Quiet
             PROVE  ActionInv'
  OBVIOUS
<1> USE DEF ActionInv, Types, Quiet
<1>1. BufferOK'
  <2>1. clock \in Nat /\ clock' \in Nat
        /\ \A s \in 0 .. BufSize - 1 : buffers[s].LTime \in Nat
    BY DEF TypeOK
  <2> QED
    BY <2>1 DEF BufferOK, GroupOK
<1>2. AcceptedKeys' = AcceptedKeys
  BY DEF AcceptedKeys, Key
<1>3. AcceptedRemembered'
  BY DEF AcceptedRemembered, Remembered, Item
<1>4. RememberedAccepted'
  BY <1>2 DEF RememberedAccepted, Key
<1>5. EmittingOnce'
  BY DEF EmittingOnce, Key
<1>6. AtMostOnce'
  BY DEF AtMostOnce, Key
<1> QED
  BY <1>1, <1>3, <1>4, <1>5, <1>6

\* What the buffer accepts has not been accepted before.
LEMMA AcceptsFresh ==
  ASSUME ActionInv, NEW g \in Goroutine, pc[g] = "add",
         Accepts(buffers, clock, Item(msg[g]))
  PROVE  Key(msg[g]) \notin AcceptedKeys
<1> DEFINE m == msg[g]
           group == buffers[Slot(m.LTime)]
<1>1. m \in Msg /\ m.LTime \in Nat /\ clock \in Nat
  BY DEF ActionInv, HandledIsMsg, Handling, TypeOK, Msg
<1>2. Item(m).LTime = m.LTime
  BY DEF Item
<1>3. ASSUME NEW r \in Msg, Remembered(r), Key(r) = Key(m)
      PROVE  FALSE
  <2>1. r.LTime = m.LTime /\ Item(r) = Item(m)
    BY <1>3 DEF Key, Item
  <2>2. Slot(m.LTime) \in 0 .. BufSize - 1 /\ group.Items # <<>>
    BY <1>1, <1>3, <2>1, SlotType DEF Remembered
  <2>3. Slot(group.LTime) = Slot(m.LTime) /\ group.LTime < clock /\ group.LTime \in Nat
    BY <2>2 DEF ActionInv, BufferOK, GroupOK, TypeOK
  <2>4. CASE group.LTime > m.LTime
    <3>1. isTooOld(clock, Item(m))
      BY <1>1, <1>2, <2>3, <2>4, ReplacedIsTooOld
    <3> QED
      BY <3>1 DEF Accepts
  <2>5. CASE /\ group.LTime = m.LTime
             /\ \E i \in DOMAIN group.Items : group.Items[i] = Item(m)
    <3>1. has(group, Item(m))
      BY <2>5 DEF has, Equal
    <3>2. ~isLTimeNew(buffers, Item(m).LTime)
      BY <1>1, <1>2, <2>2, <2>5 DEF isLTimeNew
    <3> QED
      BY <1>2, <3>1, <3>2 DEF Accepts
  <2> QED
    BY <1>3, <2>1, <2>4, <2>5 DEF Remembered
<1>4. \A i \in DOMAIN inEventCh : inEventCh[i] \in Msg /\ Remembered(inEventCh[i])
  BY DEF ActionInv, TypeOK, AcceptedRemembered
<1>5. \A h \in Emitting : msg[h] \in Msg /\ Remembered(msg[h])
  BY DEF ActionInv, AcceptedRemembered, HandledIsMsg, Handling, Emitting
<1> QED
  BY <1>3, <1>4, <1>5 DEF AcceptedKeys

\* An accepted action shares its slot with its own time or an earlier one.
LEMMA AcceptedSlot ==
  ASSUME ActionInv, NEW g \in Goroutine, pc[g] = "add",
         Accepts(buffers, clock, Item(msg[g])),
         ~isLTimeNew(buffers, msg[g].LTime)
  PROVE  buffers[Slot(msg[g].LTime)].LTime = msg[g].LTime
<1> DEFINE m == msg[g]
           group == buffers[Slot(m.LTime)]
<1>1. m.LTime \in Nat /\ clock \in Nat
  BY DEF ActionInv, HandledIsMsg, Handling, TypeOK, Msg
<1>2. Item(m).LTime = m.LTime
  BY DEF Item
<1>3. Slot(m.LTime) \in 0 .. BufSize - 1
  BY <1>1, SlotType
<1>4. group.Items # <<>> /\ group.LTime >= m.LTime /\ group.LTime \in Nat
  BY <1>1, <1>3 DEF isLTimeNew, ActionInv, TypeOK
<1>5. Slot(group.LTime) = Slot(m.LTime) /\ group.LTime < clock
  BY <1>3, <1>4 DEF ActionInv, BufferOK, GroupOK
<1>6. ~(m.LTime < group.LTime)
  BY <1>1, <1>2, <1>4, <1>5, ReplacedIsTooOld DEF Accepts
<1> QED
  BY <1>1, <1>4, <1>6
\* Adding an accepted action keeps the invariant.
LEMMA AcceptStep ==
  ASSUME ActionInv, Types', NEW g \in Goroutine, HandleAdd(g),
         Accepts(buffers, clock, Item(msg[g]))
  PROVE  ActionInv'
<1> DEFINE m == msg[g]
           item == Item(m)
           slot == Slot(m.LTime)
           old == buffers[slot]
           new == buffers'[slot]
<1>1. /\ pc[g] = "add" /\ pc' = [pc EXCEPT ![g] = "emit"]
      /\ buffers' = Added(buffers, item)
      /\ UNCHANGED <<msg, clock, inEventCh>>
  BY DEF HandleAdd, Goto, joinVars, outVars
<1>2. m \in Msg /\ m.LTime \in Nat /\ clock \in Nat /\ m.LTime < clock
  BY <1>1 DEF ActionInv, HandledIsMsg, Handling, TypeOK, WitnessedFirst, Msg
<1>3. item.LTime = m.LTime /\ Key(item) = Key(m)
  BY DEF Item, Key
<1>4. slot \in 0 .. BufSize - 1
  BY <1>2, SlotType
<1>5. DOMAIN buffers = 0 .. BufSize - 1
  BY DEF ActionInv, TypeOK
<1>6. \A s \in 0 .. BufSize - 1 : s # slot => buffers'[s] = buffers[s]
  BY <1>1, <1>3, <1>5, AddedElsewhere
<1>7. old.LTime \in Nat /\ old.Items \in Seq(BufferedItem)
  BY <1>4 DEF ActionInv, TypeOK
\* The new group: of the time of m, ending in m, the rest as it was.
<1>8. /\ new.LTime = m.LTime
      /\ \E i \in DOMAIN new.Items : new.Items[i] = item
      /\ \A i \in DOMAIN new.Items :
            \/ new.Items[i] = item
            \/ old.LTime = m.LTime /\ i \in DOMAIN old.Items /\ new.Items[i] = old.Items[i]
      /\ \/ old.Items = <<>> \/ old.LTime < m.LTime
         \/ old.LTime = m.LTime /\ \A i \in DOMAIN old.Items :
                                     i \in DOMAIN new.Items /\ new.Items[i] = old.Items[i]
  <2>1. CASE isLTimeNew(buffers, m.LTime)
    <3>1. new = [LTime |-> m.LTime, Items |-> <<item>>]
      BY <1>1, <1>2, <1>3, <1>5, <2>1, AddedHere
    <3>2. new.LTime = m.LTime /\ DOMAIN new.Items = {1} /\ new.Items[1] = item
      BY <3>1
    <3> QED
      BY <2>1, <3>2 DEF isLTimeNew
  <2>2. CASE ~isLTimeNew(buffers, m.LTime)
    <3>1. old.LTime = m.LTime
      BY <1>1, <2>2, AcceptedSlot
    <3>2. new = [LTime |-> old.LTime, Items |-> Append(old.Items, item)]
      <4>1. Slot(item.LTime) = slot /\ ~isLTimeNew(buffers, item.LTime) /\ item.LTime \in Nat
        BY <1>2, <1>3, <2>2
      <4>2. Added(buffers, item)[Slot(item.LTime)] =
              [LTime |-> buffers[Slot(item.LTime)].LTime,
               Items |-> Append(buffers[Slot(item.LTime)].Items, item)]
        BY <1>5, <4>1, AddedHere
      <4> QED
        BY <1>1, <4>1, <4>2
    <3>3. new.LTime = m.LTime /\ new.Items = Append(old.Items, item)
      BY <3>1, <3>2
    <3>4. /\ DOMAIN new.Items = 1 .. Len(old.Items) + 1
          /\ DOMAIN old.Items = 1 .. Len(old.Items)
          /\ new.Items[Len(old.Items) + 1] = item
          /\ \A i \in 1 .. Len(old.Items) : new.Items[i] = old.Items[i]
          /\ Len(old.Items) \in Nat
      BY <1>7, <3>3
    <3> HIDE DEF item, old, new, m
    <3>5. \E i \in DOMAIN new.Items : new.Items[i] = item
      BY <3>4
    <3>6. ASSUME NEW i \in DOMAIN new.Items
          PROVE  \/ new.Items[i] = item
                 \/ i \in DOMAIN old.Items /\ new.Items[i] = old.Items[i]
      <4>1. i \in 1 .. Len(old.Items) \/ i = Len(old.Items) + 1
        BY <3>4
      <4> QED
        BY <3>4, <4>1
    <3>7. \A i \in DOMAIN old.Items :
             i \in DOMAIN new.Items /\ new.Items[i] = old.Items[i]
      BY <3>4
    <3> QED
      BY <3>1, <3>3, <3>5, <3>6, <3>7
  <2> QED
    BY <2>1, <2>2
<1>9. Emitting' = Emitting \cup {g}
  BY <1>1 DEF Emitting, ActionInv, TypeOK, CallsOK
<1>10. AcceptedKeys' = AcceptedKeys \cup {Key(m)}
  BY <1>1, <1>9 DEF AcceptedKeys, Key
<1>11. Key(m) \notin AcceptedKeys
  BY <1>1, AcceptsFresh
<1> HIDE DEF m, item, slot, old, new
<1>12. BufferOK'
  <2>1. ASSUME NEW s \in 0 .. BufSize - 1, s = slot
        PROVE  GroupOK(s)'
    <3>1. \A i \in DOMAIN new.Items : new.Items[i].LTime = m.LTime
      BY <1>3, <1>4, <1>8 DEF ActionInv, BufferOK, GroupOK, slot, old
    <3>2. new.LTime = m.LTime /\ Slot(m.LTime) = s /\ m.LTime < clock'
      BY <1>1, <1>2, <1>8, <2>1 DEF slot
    <3> QED
      BY <2>1, <3>1, <3>2 DEF GroupOK, new
  <2>2. ASSUME NEW s \in 0 .. BufSize - 1, s # slot
        PROVE  GroupOK(s)'
    BY <1>1, <1>6, <2>2 DEF GroupOK, ActionInv, BufferOK
  <2> QED
    BY <2>1, <2>2 DEF BufferOK
<1>13. WitnessedFirst'
  BY <1>1, <1>2 DEF ActionInv, WitnessedFirst, TypeOK, CallsOK, m
<1>14. ASSUME NEW r \in Msg, r = m
       PROVE  Remembered(r)'
  BY <1>8, <1>14 DEF Remembered, item, slot, new
<1>15. ASSUME NEW r \in Msg, Remembered(r)
       PROVE  Remembered(r)'
  <2>1. r.LTime \in Nat /\ Slot(r.LTime) \in 0 .. BufSize - 1
    BY SlotType DEF Msg
  <2>2. CASE Slot(r.LTime) # slot
    BY <1>6, <1>15, <2>1, <2>2 DEF Remembered
  <2>3. CASE Slot(r.LTime) = slot
    <3>1. new.Items # <<>>
      BY <1>8
    <3>2. \/ old.LTime > r.LTime
          \/ old.LTime = r.LTime /\ \E i \in DOMAIN old.Items : old.Items[i] = Item(r)
      BY <1>15, <2>3 DEF Remembered, old
    <3>3. old.Items # <<>>
      BY <1>15, <2>3 DEF Remembered, old
    <3>4. CASE old.LTime < m.LTime
      BY <1>2, <1>7, <1>8, <2>1, <2>3, <3>1, <3>2, <3>4 DEF new, Remembered
    <3>5. CASE /\ old.LTime = m.LTime
               /\ \A i \in DOMAIN old.Items : i \in DOMAIN new.Items /\ new.Items[i] = old.Items[i]
      BY <1>8, <2>3, <3>1, <3>2, <3>5 DEF new, Remembered
    <3> QED
      BY <1>8, <3>3, <3>4, <3>5
  <2> QED
    BY <2>2, <2>3
<1>16. AcceptedRemembered'
  <2>1. \A i \in DOMAIN inEventCh : inEventCh[i] \in Msg /\ Remembered(inEventCh[i])
    BY DEF ActionInv, TypeOK, AcceptedRemembered
  <2>2. \A h \in Emitting : msg[h] \in Msg /\ Remembered(msg[h])
    BY DEF ActionInv, AcceptedRemembered, HandledIsMsg, Handling, Emitting
  <2>3. ASSUME NEW i \in DOMAIN inEventCh'
        PROVE  Remembered(inEventCh[i])'
    <3>1. PICK r \in Msg : r = inEventCh[i] /\ r = inEventCh'[i] /\ Remembered(r)
      BY <1>1, <2>1, <2>3
    <3> QED
      BY <1>15, <3>1 DEF Remembered, Item
  <2>4. ASSUME NEW h \in Emitting'
        PROVE  Remembered(msg[h])'
    <3>1. PICK r \in Msg : r = msg[h] /\ r = msg'[h] /\ (r = m \/ Remembered(r))
      BY <1>1, <1>2, <1>9, <2>2, <2>4 DEF m
    <3>2. Remembered(r)'
      BY <1>14, <1>15, <3>1
    <3> QED
      BY <3>1, <3>2 DEF Remembered, Item
  <2> QED
    BY <2>3, <2>4 DEF AcceptedRemembered
<1>17. RememberedAccepted'
  <2>1. ASSUME NEW s \in 0 .. BufSize - 1, NEW i \in DOMAIN buffers'[s].Items
        PROVE  Key(buffers'[s].Items[i]) \in AcceptedKeys \cup {Key(m)}
    <3>1. CASE s # slot
      BY <1>6, <2>1, <3>1 DEF ActionInv, RememberedAccepted
    <3>2. CASE s = slot
      BY <1>3, <1>4, <1>8, <2>1, <3>2 DEF ActionInv, RememberedAccepted, old, new
    <3> QED
      BY <3>1, <3>2
  <2> QED
    BY <1>10, <2>1 DEF RememberedAccepted, Key
<1>18. EmittingOnce'
  BY <1>1, <1>9, <1>11 DEF ActionInv, EmittingOnce, AcceptedKeys, m, Key
<1>19. AtMostOnce'
  BY <1>1 DEF ActionInv, AtMostOnce, Key
<1> QED
  BY <1>12, <1>13, <1>16, <1>17, <1>18, <1>19 DEF ActionInv, Types
\* Sending the action moves it from the goroutine to inEventCh.
LEMMA EmitStep ==
  ASSUME ActionInv, Types', NEW g \in Goroutine, HandleEmit(g)
  PROVE  ActionInv'
<1>1. /\ g \in Emitting /\ Emitting' = Emitting \ {g}
      /\ \A h \in Emitting \ {g} : msg'[h] = msg[h]
      /\ WitnessedFirst'
  <2>1. pc[g] = "emit" /\ Return(g) /\ clock' = clock
    BY DEF HandleEmit, managerVars
  <2>2. pc'[g] \notin Handling /\ \A h \in Goroutine \ {g} : pc'[h] = pc[h] /\ msg'[h] = msg[h]
    BY <2>1, ReturnType DEF ActionInv
  <2> QED
    BY <2>1, <2>2 DEF Emitting, Handling, ActionInv, WitnessedFirst
<1>2. /\ inEventCh' = Append(inEventCh, msg[g]) /\ inEventCh \in Seq(Msg)
      /\ UNCHANGED <<clock, buffers>>
  BY DEF HandleEmit, managerVars, ActionInv, TypeOK
<1>3. /\ DOMAIN inEventCh' = DOMAIN inEventCh \cup {Len(inEventCh) + 1}
      /\ Len(inEventCh) + 1 \notin DOMAIN inEventCh
      /\ inEventCh'[Len(inEventCh) + 1] = msg[g]
      /\ \A i \in DOMAIN inEventCh : inEventCh'[i] = inEventCh[i]
  BY <1>2
<1>4. AcceptedKeys' = AcceptedKeys
  BY <1>1, <1>3 DEF AcceptedKeys, Key
<1>5. BufferOK'
  BY <1>2 DEF ActionInv, BufferOK, GroupOK
<1>6. AcceptedRemembered'
  <2>1. ASSUME NEW i \in DOMAIN inEventCh'
        PROVE  Remembered(inEventCh[i])'
    <3>1. PICK r \in Msg : r = inEventCh'[i] /\ Remembered(r)
      BY <1>1, <1>2, <1>3, <2>1
         DEF ActionInv, AcceptedRemembered, HandledIsMsg, Handling, Emitting
    <3> QED
      BY <1>2, <3>1 DEF Remembered, Item
  <2>2. ASSUME NEW h \in Emitting'
        PROVE  Remembered(msg[h])'
    BY <1>1, <1>2, <2>2 DEF ActionInv, AcceptedRemembered, Remembered, Item
  <2> QED
    BY <2>1, <2>2 DEF AcceptedRemembered
<1>7. RememberedAccepted'
  BY <1>2, <1>4 DEF ActionInv, RememberedAccepted, Key
<1>8. EmittingOnce'
  BY <1>1, <1>3 DEF ActionInv, EmittingOnce, Key
<1>9. AtMostOnce'
  BY <1>1, <1>3 DEF ActionInv, AtMostOnce, EmittingOnce, Key
<1> QED
  BY <1>1, <1>5, <1>6, <1>7, <1>8, <1>9 DEF ActionInv, Types

\* A goroutine that is nowhere near the buffer, before the step and after it.
Elsewhere(g) == /\ pc[g] # "emit" /\ pc'[g] \notin {"checkMin", "add", "emit"}
                /\ \A h \in Goroutine \ {g} : pc'[h] = pc[h] /\ msg'[h] = msg[h]
                /\ clock' >= clock
                /\ UNCHANGED <<buffers, inEventCh>>

\* What such a goroutine does is quiet.
LEMMA ElsewhereQuiet ==
  ASSUME ActionInv, Types', NEW g \in Goroutine, Elsewhere(g)
  PROVE  Quiet
<1>1. Emitting' = Emitting
  BY DEF Elsewhere, Emitting
<1>2. \A h \in Emitting : msg'[h] = msg[h]
  BY DEF Elsewhere, Emitting
<1>3. WitnessedFirst'
  <2> SUFFICES ASSUME NEW h \in Goroutine, pc'[h] \in {"checkMin", "add", "emit"}
               PROVE  msg'[h].LTime < clock'
    BY DEF WitnessedFirst
  <2>1. h # g /\ pc[h] = pc'[h] /\ msg'[h] = msg[h]
    BY DEF Elsewhere
  <2>2. msg[h].LTime < clock
    BY <2>1 DEF ActionInv, WitnessedFirst
  <2>3. msg[h] \in Msg /\ clock \in Nat /\ clock' \in Nat
    BY <2>1 DEF ActionInv, HandledIsMsg, Handling, TypeOK, Types
  <2> QED
    BY <2>1, <2>2, <2>3 DEF Elsewhere, Msg
<1> QED
  BY <1>1, <1>2, <1>3 DEF Quiet, Elsewhere

\* Everything that starts or merges happens elsewhere.
LEMMA StartElsewhere ==
  ASSUME ActionInv, NEW g \in Goroutine, Starts(g) \/ JoinStep(g) \/ MergeStep(g)
  PROVE  Elsewhere(g)
<1> USE DEF Elsewhere, Goto, Start, managerVars, joinVars, outVars, callVars,
            ActionInv, TypeOK, CallsOK
<1>1. ASSUME NEW name \in Name, NEW payload \in Payload, Action(g, name, payload)
      PROVE  Elsewhere(g)
  BY <1>1 DEF Action
<1>2. ASSUME NEW peer \in Peer, NEW ignoreOld \in IgnoreOld, Join(g, peer, ignoreOld)
      PROVE  Elsewhere(g)
  BY <1>2 DEF Join
<1>3. ASSUME NEW peer \in Peer, NEW ltime \in 1 .. MaxTime, NEW actions \in PeerBuffer,
             Merge(g, peer, ltime, actions)
      PROVE  Elsewhere(g)
  BY <1>3 DEF Merge
<1>4. ASSUME NEW ltime \in 1 .. MaxTime, NEW actions \in PeerBuffer,
             MergeJoin(g, ltime, actions)
      PROVE  Elsewhere(g)
  BY <1>4 DEF MergeJoin
<1>5. CASE JoinFails(g)
  BY <1>5 DEF JoinFails
<1>6. CASE JoinReturns(g)
  BY <1>6 DEF JoinReturns
<1>7. CASE MergeWitness(g)
  <2>1. clock' >= clock
    BY <1>7 DEF MergeWitness, Witnessed, StateType
  <2> QED
    BY <1>7, <2>1 DEF MergeWitness
<1>8. CASE MergeFlags(g)
  BY <1>8 DEF MergeFlags
<1>9. CASE MergeCompare(g)
  BY <1>9 DEF MergeCompare
<1>10. CASE MergeSetMin(g)
  BY <1>10 DEF MergeSetMin
<1>11. CASE MergeUnset(g)
  BY <1>11 DEF MergeUnset
<1>12. CASE Replay(g)
  BY <1>12 DEF Replay
<1>13. CASE MergeEnd(g)
  BY <1>13 DEF MergeEnd
<1> QED
  BY <1>1, <1>2, <1>3, <1>4, <1>5, <1>6, <1>7, <1>8, <1>9, <1>10, <1>11, <1>12, <1>13
     DEF Starts, JoinStep, MergeStep

\* A goroutine that starts or merges is not handling an action.
LEMMA StartsIdle ==
  ASSUME NEW g \in Goroutine, Starts(g) \/ JoinStep(g) \/ MergeStep(g)
  PROVE  pc[g] \notin Handling
  BY DEF Handling, Starts, Start, Action, Join, Merge, JoinStep, JoinFails, JoinReturns,
         MergeJoin, MergeStep, MergeWitness, MergeFlags, MergeCompare, MergeSetMin,
         MergeUnset, Replay, MergeEnd

\* handleAction moves the goroutine that runs it and no other.
LEMMA HandleMovesOne ==
  ASSUME ActionInv, NEW g \in Goroutine, HandleStep(g)
  PROVE  \A h \in Goroutine \ {g} : pc'[h] = pc[h]
<1>1. ASSUME NEW label, Goto(g, label)
      PROVE  \A h \in Goroutine \ {g} : pc'[h] = pc[h]
  BY <1>1 DEF Goto, ActionInv, TypeOK, CallsOK
<1> QED
  BY <1>1 DEF HandleStep, HandleWitness, HandleCheckMin, HandleAdd, HandleEmit, Return

\* handleAction keeps the invariant.
LEMMA HandleStepInv ==
  ASSUME ActionInv, Types', NEW g \in Goroutine, HandleStep(g)
  PROVE  ActionInv'
<1>1. CASE HandleWitness(g)
  <2>1. msg[g] \in Msg /\ clock \in Nat /\ pc[g] = "witness"
    BY <1>1 DEF HandleWitness, ActionInv, TypeOK, HandledIsMsg, Handling
  <2>2. clock' >= clock /\ msg[g].LTime < clock' /\ clock' \in Nat
    BY <1>1, <2>1 DEF HandleWitness, Witnessed, Msg
  <2>3. pc' = [pc EXCEPT ![g] = "checkMin"] /\ UNCHANGED <<msg, buffers, inEventCh>>
    BY <1>1 DEF HandleWitness, Goto, outVars
  <2>4. Emitting' = Emitting
    BY <2>1, <2>3 DEF Emitting, ActionInv, TypeOK, CallsOK
  <2>5. WitnessedFirst'
    <3> SUFFICES ASSUME NEW h \in Goroutine, h # g, pc'[h] \in {"checkMin", "add", "emit"}
                 PROVE  msg[h].LTime < clock'
      BY <2>2, <2>3 DEF WitnessedFirst
    <3>1. pc[h] \in {"checkMin", "add", "emit"}
      BY <2>3 DEF ActionInv, TypeOK, CallsOK
    <3>2. msg[h].LTime < clock /\ msg[h] \in Msg
      BY <3>1 DEF ActionInv, WitnessedFirst, HandledIsMsg, Handling
    <3> QED
      BY <2>1, <2>2, <3>2 DEF Msg
  <2> QED
    BY <2>2, <2>3, <2>4, <2>5, QuietStep DEF Quiet
<1>2. ASSUME HandleCheckMin(g) \/ (HandleAdd(g) /\ ~Accepts(buffers, clock, Item(msg[g])))
      PROVE  ActionInv'
  <2>1. pc[g] \in {"checkMin", "add"} /\ UNCHANGED <<clock, buffers, inEventCh>>
    BY <1>2 DEF HandleCheckMin, HandleAdd, managerVars, outVars
  <2>2. CASE Return(g)
    <3>1. pc'[g] \notin Handling /\ \A h \in Goroutine \ {g} : pc'[h] = pc[h] /\ msg'[h] = msg[h]
      BY <2>2, ReturnType DEF ActionInv
    <3>2. Elsewhere(g)
      BY <2>1, <3>1 DEF Elsewhere, Handling, ActionInv, TypeOK
    <3> QED
      BY <3>2, ElsewhereQuiet, QuietStep
  <2>3. CASE pc[g] = "checkMin" /\ pc' = [pc EXCEPT ![g] = "add"] /\ msg' = msg
    <3>1. Emitting' = Emitting
      BY <2>3 DEF Emitting, ActionInv, TypeOK, CallsOK
    <3>2. WitnessedFirst'
      BY <2>1, <2>3 DEF WitnessedFirst, ActionInv, TypeOK, CallsOK
    <3> QED
      BY <2>1, <2>3, <3>1, <3>2, QuietStep DEF Quiet, ActionInv, TypeOK
  <2> QED
    BY <1>2, <2>2, <2>3 DEF HandleCheckMin, HandleAdd, Goto
<1>3. CASE HandleAdd(g) /\ Accepts(buffers, clock, Item(msg[g]))
  BY <1>3, AcceptStep
<1>4. CASE HandleEmit(g)
  BY <1>4, EmitStep
<1> QED
  BY <1>1, <1>2, <1>3, <1>4 DEF HandleStep

\* The invariant is inductive.
LEMMA ActionInvStep == ActionInv /\ [Next]_vars => ActionInv'
<1> SUFFICES ASSUME ActionInv, [Next]_vars
             PROVE  ActionInv'
  OBVIOUS
<1>1. Types'
  BY TypesStep DEF ActionInv, Types
<1>2. CASE UNCHANGED vars
  <2>1. Quiet
    BY <1>2 DEF vars, Quiet, Emitting, ActionInv, TypeOK, WitnessedFirst
  <2> QED
    BY <1>1, <2>1, QuietStep
<1>3. ASSUME NEW m \in PeerMsg, Receive(m)
      PROVE  ActionInv'
  <2>1. Elsewhere(Receiver)
    BY <1>3 DEF Receive, Start, Goto, Elsewhere, ActionInv, TypeOK, CallsOK,
                managerVars, outVars
  <2> QED
    BY <1>1, <2>1, ElsewhereQuiet, QuietStep, ActionNodeAssumption
<1>4. ASSUME NEW g \in Goroutine, Starts(g) \/ JoinStep(g) \/ MergeStep(g)
      PROVE  ActionInv'
  BY <1>1, <1>4, StartElsewhere, ElsewhereQuiet, QuietStep
<1>5. ASSUME NEW g \in Goroutine, HandleStep(g)
      PROVE  ActionInv'
  BY <1>1, <1>5, HandleStepInv
<1> QED
  BY <1>2, <1>3, <1>4, <1>5 DEF Next

\* What was accepted is in the buffer, or the buffer has moved past it: in
\* every state of every interleaving (buffer.go:48-53,69-84).
THEOREM ActionInvariant == Spec => []ActionInv
<1>1. Init => ActionInv
  <2> SUFFICES ASSUME Init
               PROVE  ActionInv
    OBVIOUS
  <2>1. \A s \in 0 .. BufSize - 1 : buffers[s].Items = <<>>
    BY DEF Init, EmptyBuffer, NilGroup
  <2>2. Emitting = {} /\ inEventCh = <<>>
    BY DEF Init, Emitting
  <2>3. BufferOK /\ WitnessedFirst
    BY <2>1 DEF Init, BufferOK, GroupOK, WitnessedFirst
  <2>4. AcceptedRemembered /\ RememberedAccepted /\ EmittingOnce /\ AtMostOnce
    BY <2>1, <2>2 DEF AcceptedRemembered, RememberedAccepted, EmittingOnce, AtMostOnce
  <2> QED
    BY <2>3, <2>4, InitTypes DEF ActionInv, Types
<1> QED
  BY <1>1, ActionInvStep, PTL DEF Spec

\* No event is sent twice, whatever the goroutines, the peers and the size of
\* the buffer (buffer.go:69-84, net_handlers.go:161).
THEOREM ActionOnce == Spec => []AtMostOnce
<1>1. ActionInv => AtMostOnce
  BY DEF ActionInv
<1> QED
  BY <1>1, ActionInvariant, PTL

\* If no action has a nil payload, addToBuffer turns away nothing but actions
\* outside the window and actions that were accepted (buffer.go:69-84).
THEOREM DropsAreDuplicates == ASSUME nil \notin Payload
                              PROVE  Spec => DropsDuplicatesOnly
<1> DEFINE Drop(g) == pc[g] = "add" /\ pc'[g] \notin {"add", "emit"}
           Known(g) == isTooOld(clock, Item(msg[g])) \/ Key(msg[g]) \in AcceptedKeys
<1>1. ASSUME ActionInv, Next, NEW g \in Goroutine, Drop(g)
      PROVE  Known(g)
  <2>1. HandleAdd(g)
    <3>1. ASSUME NEW m \in PeerMsg, Receive(m)
          PROVE  FALSE
      BY <1>1, <3>1, ActionNodeAssumption DEF Receive, Start, Goto, ActionInv, TypeOK, CallsOK
    <3>2. ASSUME NEW h \in Goroutine, Starts(h) \/ JoinStep(h) \/ MergeStep(h)
          PROVE  FALSE
      BY <1>1, <3>2, StartsIdle, StartElsewhere DEF Elsewhere, Handling
    <3>3. ASSUME NEW h \in Goroutine, HandleStep(h), h # g
          PROVE  FALSE
      BY <1>1, <3>3, HandleMovesOne
    <3>4. HandleStep(g)
      BY <1>1, <3>1, <3>2, <3>3 DEF Next
    <3> QED
      BY <1>1, <3>4 DEF HandleStep, HandleWitness, HandleCheckMin, HandleEmit
  <2> DEFINE m == msg[g]
             group == buffers[Slot(m.LTime)]
  <2>2. ~Accepts(buffers, clock, Item(m))
    BY <1>1, <2>1 DEF HandleAdd, Goto, ActionInv, TypeOK, CallsOK
  <2>3. CASE isTooOld(clock, Item(m))
    BY <2>3
  <2>4. CASE has(group, Item(m))
    <3>1. PICK i \in DOMAIN group.Items : Equal(group.Items[i], Item(m))
      BY <2>4 DEF has
    <3>2. Slot(m.LTime) \in 0 .. BufSize - 1
      BY <1>1, SlotType DEF ActionInv, HandledIsMsg, Handling, Msg
    <3>3. group.Items[i].Payload \in Payload
      <4>1. group.Items \in Seq(BufferedItem)
        BY <1>1, <3>2 DEF ActionInv, TypeOK
      <4>2. group.Items[i] \in BufferedItem
        BY <3>1, <4>1
      <4> QED
        BY <4>2 DEF BufferedItem
    <3>4. Key(group.Items[i]) = Key(m)
      BY <3>1, <3>3 DEF Equal, Item, Key
    <3>5. Key(group.Items[i]) \in AcceptedKeys
      BY <1>1, <3>1, <3>2 DEF ActionInv, RememberedAccepted
    <3> QED
      BY <3>4, <3>5
  <2> QED
    BY <2>2, <2>3, <2>4 DEF Accepts, Item
<1>2. ActionInv /\ [Next]_vars => [\A g \in Goroutine : Drop(g) => Known(g)]_vars
  BY <1>1
<1> QED
  BY <1>2, ActionInvariant, PTL DEF Spec, DropsDuplicatesOnly

-----------------------------------------------------------------------------
(* What a join is to ignore. *)

\* A goroutine in a Join that is to ignore old actions, which none has disturbed:
\* until Merge looks at them the flags of its peer are set, from then on the
\* minimum time is not below the time of the peer, and an action that was found
\* not to be below the minimum is not either.
Undisturbed(g) ==
    /\ pc[g] \in {"join", "merge", "flags"} => state[g].From \subseteq joining \cap ignoreActOnJoin
    /\ pc[g] \in {"unset", "replay"} \cup Handling => ~(actionMinTime < state[g].ActionLTime)
    /\ pc[g] \in {"add", "emit"} => msg[g].LTime >= state[g].ActionLTime

IgnoreAt(g) == state[g].ignore => /\ pc[g] # "idle"
                                  /\ g \notin disturbed => Undisturbed(g)
IgnoreOK == \A g \in Goroutine : IgnoreAt(g)

\* A step of g that moves no other goroutine and notes those it disturbs.
MovesOnly(g) ==
    /\ \A h \in Goroutine \ {g} : state'[h] = state[h] /\ pc'[h] = pc[h] /\ msg'[h] = msg[h]
    /\ disturbed \ {g} \subseteq disturbed'
    /\ TakesFlags(g) \cup SetsBack(g) \subseteq disturbed'

\* Such a step has to be looked at where it happens only.
LEMMA MovesOnlyStep ==
  ASSUME IgnoreOK, NEW g \in Goroutine, MovesOnly(g), IgnoreAt(g)'
  PROVE  IgnoreOK'
<1> SUFFICES ASSUME NEW h \in Goroutine, h # g, state'[h].ignore
             PROVE  /\ pc'[h] # "idle"
                    /\ h \notin disturbed' => Undisturbed(h)'
  BY DEF IgnoreOK, IgnoreAt
<1>1. state'[h] = state[h] /\ pc'[h] = pc[h] /\ msg'[h] = msg[h]
  BY DEF MovesOnly
<1>2. pc[h] # "idle" /\ (h \notin disturbed => Undisturbed(h))
  BY <1>1 DEF IgnoreOK, IgnoreAt
<1>3. ASSUME h \notin disturbed'
      PROVE  Undisturbed(h)'
  <2>1. h \notin disturbed /\ h \notin TakesFlags(g) /\ h \notin SetsBack(g)
    BY <1>3 DEF MovesOnly
  <2> QED
    BY <1>1, <1>2, <2>1 DEF Undisturbed, TakesFlags, SetsBack
<1> QED
  BY <1>1, <1>2, <1>3

\* With the flags and the minimum time as they were, nobody is disturbed.
LEMMA QuietMoves ==
  ASSUME IgnoreOK, NEW g \in Goroutine, UNCHANGED <<joining, ignoreActOnJoin, actionMinTime, disturbed>>,
         \A h \in Goroutine \ {g} : state'[h] = state[h] /\ pc'[h] = pc[h] /\ msg'[h] = msg[h]
  PROVE  MovesOnly(g)
<1>1. \A h \in Goroutine \ disturbed : state[h].ignore => Undisturbed(h)
  BY DEF IgnoreOK, IgnoreAt
<1>2. TakesFlags(g) \subseteq disturbed /\ SetsBack(g) \subseteq disturbed
  BY <1>1 DEF TakesFlags, SetsBack, Undisturbed
<1> QED
  BY <1>2 DEF MovesOnly

\* Return goes back to the loop of Merge, or to where nothing is ignored.
LEMMA ReturnIgnores ==
  ASSUME Types, IgnoreOK, NEW g \in Goroutine, pc[g] \in Handling, Return(g),
         UNCHANGED <<joining, ignoreActOnJoin, actionMinTime, state, disturbed>>
  PROVE  IgnoreOK'
<1> USE DEF Types, TypeOK, CallsOK
<1>1. MovesOnly(g)
  BY QuietMoves DEF Return, Goto
<1>2. pc'[g] \in {"replay", "idle"} /\ (pc'[g] = "idle" => ~state'[g].ignore)
  BY DEF Return, Goto, NoState
<1>3. IgnoreAt(g)'
  BY <1>2 DEF IgnoreOK, IgnoreAt, Undisturbed
<1> QED
  BY <1>1, <1>3, MovesOnlyStep

\* What Merge compares, sets and replays.
LEMMA MergeIgnores ==
  ASSUME Types, IgnoreOK, NEW g \in Goroutine, MergeStep(g)
  PROVE  IgnoreOK'
<1> USE DEF Types, TypeOK, CallsOK, Goto
<1>0. state[g].ActionLTime \in Nat /\ actionMinTime \in Nat
  BY DEF StateType
<1>1. CASE MergeWitness(g)
  <2>1. MovesOnly(g)
    BY <1>1, QuietMoves DEF MergeWitness, joinVars, callVars
  <2>2. IgnoreAt(g)'
    BY <1>1 DEF MergeWitness, joinVars, callVars, IgnoreOK, IgnoreAt, Undisturbed, Handling
  <2> QED
    BY <2>1, <2>2, MovesOnlyStep
<1>2. CASE MergeFlags(g)
  <2>1. MovesOnly(g)
    BY <1>2, QuietMoves DEF MergeFlags, managerVars, joinVars, callVars
  <2>2. pc[g] = "flags" /\ pc'[g] \in {"compare", "unset"} /\ UNCHANGED <<state, disturbed>>
    BY <1>2 DEF MergeFlags, callVars
  <2>3. state[g].ignore /\ g \notin disturbed => pc'[g] = "compare"
    BY <1>2, <2>2 DEF MergeFlags, IgnoreOK, IgnoreAt, Undisturbed
  <2>4. IgnoreAt(g)'
    BY <2>2, <2>3 DEF IgnoreAt, Undisturbed, Handling
  <2> QED
    BY <2>1, <2>4, MovesOnlyStep
<1>3. CASE MergeCompare(g)
  <2>1. MovesOnly(g)
    BY <1>3, QuietMoves DEF MergeCompare, managerVars, joinVars, callVars
  <2>2. /\ pc'[g] \in {"setMin", "unset"} /\ UNCHANGED <<state, actionMinTime>>
        /\ pc'[g] = "unset" => ~(actionMinTime < state[g].ActionLTime)
    BY <1>0, <1>3 DEF MergeCompare, managerVars, callVars
  <2>3. IgnoreAt(g)'
    BY <2>2 DEF IgnoreAt, Undisturbed, Handling
  <2> QED
    BY <2>1, <2>3, MovesOnlyStep
<1>4. CASE MergeSetMin(g)
  <2>1. /\ actionMinTime' = state[g].ActionLTime /\ pc'[g] = "unset"
        /\ UNCHANGED <<state, msg, joining, ignoreActOnJoin>>
        /\ \A h \in Goroutine \ {g} : pc'[h] = pc[h]
        /\ disturbed' = disturbed \cup SetsBack(g)
    BY <1>4 DEF MergeSetMin, joinVars
  <2>2. TakesFlags(g) \subseteq disturbed
    BY <2>1 DEF TakesFlags, IgnoreOK, IgnoreAt, Undisturbed
  <2>3. MovesOnly(g)
    BY <2>1, <2>2 DEF MovesOnly
  <2>4. ~(actionMinTime' < state'[g].ActionLTime)
    BY <1>0, <2>1
  <2>5. IgnoreAt(g)'
    BY <2>1, <2>4 DEF IgnoreAt, Undisturbed, Handling
  <2> QED
    BY <2>3, <2>5, MovesOnlyStep
<1>5. CASE MergeUnset(g)
  <2>1. /\ pc[g] = "unset" /\ pc'[g] = "replay"
        /\ UNCHANGED <<state, msg, actionMinTime>>
        /\ \A h \in Goroutine \ {g} : pc'[h] = pc[h]
        /\ disturbed' = disturbed \cup TakesFlags(g)
    BY <1>5 DEF MergeUnset, managerVars
  <2>2. SetsBack(g) \subseteq disturbed
    BY <2>1 DEF SetsBack, IgnoreOK, IgnoreAt, Undisturbed
  <2>3. MovesOnly(g)
    BY <2>1, <2>2 DEF MovesOnly
  <2>4. IgnoreAt(g)'
    BY <2>1 DEF IgnoreOK, IgnoreAt, Undisturbed, Handling
  <2> QED
    BY <2>3, <2>4, MovesOnlyStep
<1>6. CASE Replay(g)
  <2>1. MovesOnly(g)
    BY <1>6, QuietMoves DEF Replay, managerVars, joinVars, callVars
  <2>2. pc[g] = "replay" /\ pc'[g] = "witness" /\ UNCHANGED <<state, disturbed, actionMinTime>>
    BY <1>6 DEF Replay, managerVars, callVars
  <2>3. IgnoreAt(g)'
    BY <2>2 DEF IgnoreOK, IgnoreAt, Undisturbed, Handling
  <2> QED
    BY <2>1, <2>3, MovesOnlyStep
<1>7. CASE MergeEnd(g)
  <2>1. MovesOnly(g)
    BY <1>7, QuietMoves DEF MergeEnd, managerVars, joinVars
  <2>2. pc'[g] \in {"joined", "idle"} /\ (pc'[g] = "idle" => ~state'[g].ignore)
    BY <1>7 DEF MergeEnd, NoState
  <2>3. IgnoreAt(g)'
    BY <2>2 DEF IgnoreAt, Undisturbed, Handling
  <2> QED
    BY <2>1, <2>3, MovesOnlyStep
<1> QED
  BY <1>1, <1>2, <1>3, <1>4, <1>5, <1>6, <1>7 DEF MergeStep

\* handleAction lets nothing pass that is below the minimum time.
LEMMA HandleIgnores ==
  ASSUME Types, IgnoreOK, NEW g \in Goroutine, HandleStep(g)
  PROVE  IgnoreOK'
<1> USE DEF Types, TypeOK, CallsOK, Goto
<1>1. CASE HandleWitness(g)
  <2>1. MovesOnly(g)
    BY <1>1, QuietMoves DEF HandleWitness, joinVars, callVars
  <2>2. /\ pc[g] = "witness" /\ pc'[g] = "checkMin"
        /\ UNCHANGED <<state, disturbed, actionMinTime>>
    BY <1>1 DEF HandleWitness, callVars
  <2>3. IgnoreAt(g)'
    BY <2>2 DEF IgnoreOK, IgnoreAt, Undisturbed, Handling
  <2> QED
    BY <2>1, <2>3, MovesOnlyStep
<1>2. CASE HandleCheckMin(g)
  <2>1. pc[g] = "checkMin" /\ UNCHANGED <<joining, ignoreActOnJoin, actionMinTime, state, disturbed>>
    BY <1>2 DEF HandleCheckMin, managerVars, joinVars
  <2>2. CASE Return(g)
    BY <2>1, <2>2, ReturnIgnores DEF Handling
  <2>3. CASE ~Return(g)
    <3>1. /\ pc' = [pc EXCEPT ![g] = "add"] /\ msg' = msg
          /\ ~(msg[g].LTime < actionMinTime)
      BY <1>2, <2>3 DEF HandleCheckMin
    <3>2. msg[g].LTime \in Nat /\ state[g].ActionLTime \in Nat
      BY <2>1 DEF HandledIsMsg, Handling, Msg, StateType
    <3>3. MovesOnly(g)
      BY <2>1, <3>1, QuietMoves
    <3>4. state[g].ignore /\ g \notin disturbed =>
             /\ ~(actionMinTime < state[g].ActionLTime)
             /\ msg[g].LTime >= state[g].ActionLTime
      BY <2>1, <3>1, <3>2 DEF IgnoreOK, IgnoreAt, Undisturbed, Handling
    <3>5. IgnoreAt(g)'
      BY <2>1, <3>1, <3>4 DEF IgnoreAt, Undisturbed
    <3> QED
      BY <3>3, <3>5, MovesOnlyStep
  <2> QED
    BY <2>2, <2>3
<1>3. CASE HandleAdd(g)
  <2>1. pc[g] = "add" /\ UNCHANGED <<joining, ignoreActOnJoin, actionMinTime, state, disturbed>>
    BY <1>3 DEF HandleAdd, joinVars
  <2>2. CASE Return(g)
    BY <2>1, <2>2, ReturnIgnores DEF Handling
  <2>3. CASE ~Return(g)
    <3>1. pc' = [pc EXCEPT ![g] = "emit"] /\ msg' = msg
      BY <1>3, <2>3 DEF HandleAdd
    <3>2. MovesOnly(g)
      BY <2>1, <3>1, QuietMoves
    <3>3. IgnoreAt(g)'
      BY <2>1, <3>1 DEF IgnoreOK, IgnoreAt, Undisturbed, Handling
    <3> QED
      BY <3>2, <3>3, MovesOnlyStep
  <2> QED
    BY <2>2, <2>3
<1>4. CASE HandleEmit(g)
  BY <1>4, ReturnIgnores DEF HandleEmit, Handling, managerVars, joinVars
<1> QED
  BY <1>1, <1>2, <1>3, <1>4 DEF HandleStep

\* The entries, and Join.
LEMMA StartIgnores ==
  ASSUME Types, IgnoreOK, NEW g \in Goroutine,
         (\E m \in PeerMsg : Receive(m)) \/ Starts(g) \/ JoinStep(g)
  PROVE  IgnoreOK'
<1> USE ActionNodeAssumption DEF Types, TypeOK, CallsOK, Goto, Start
<1>1. ASSUME NEW m \in PeerMsg, Receive(m)
      PROVE  IgnoreOK'
  <2>1. MovesOnly(Receiver)
    BY <1>1, QuietMoves DEF Receive, managerVars, joinVars
  <2>2. ~state'[Receiver].ignore
    BY <1>1 DEF Receive, IgnoreOK, IgnoreAt
  <2> QED
    BY <2>1, <2>2, MovesOnlyStep DEF IgnoreAt
<1>2. ASSUME NEW name \in Name, NEW payload \in Payload, Action(g, name, payload)
      PROVE  IgnoreOK'
  <2>1. MovesOnly(g)
    BY <1>2, QuietMoves DEF Action, managerVars, joinVars
  <2>2. ~state'[g].ignore
    BY <1>2 DEF Action, IgnoreOK, IgnoreAt
  <2> QED
    BY <2>1, <2>2, MovesOnlyStep DEF IgnoreAt
<1>3. ASSUME NEW peer \in Peer, NEW ignoreOld \in IgnoreOld, Join(g, peer, ignoreOld)
      PROVE  IgnoreOK'
  <2>1. /\ disturbed' = (disturbed \ {g}) \cup TakesFlags(g)
        /\ UNCHANGED <<actionMinTime, msg>>
        /\ \A h \in Goroutine \ {g} : state'[h] = state[h] /\ pc'[h] = pc[h]
    BY <1>3 DEF Join, managerVars
  <2>2. SetsBack(g) \subseteq disturbed \ {g}
    BY <2>1 DEF SetsBack, IgnoreOK, IgnoreAt, Undisturbed
  <2>3. MovesOnly(g)
    BY <2>1, <2>2 DEF MovesOnly
  <2>4. pc'[g] = "join" /\ state'[g] = StateOf(peer, 0, TRUE, ignoreOld)
    BY <1>3 DEF Join
  <2>5. state'[g].ignore => state'[g].From \subseteq joining' \cap ignoreActOnJoin'
    <3>1. state'[g].ignore = ignoreOld /\ state'[g].From = {peer}
      BY <2>4 DEF StateOf
    <3>2. ignoreOld => peer \in joining' /\ peer \in ignoreActOnJoin'
      BY <1>3 DEF Join
    <3> QED
      BY <3>1, <3>2
  <2>6. IgnoreAt(g)'
    BY <2>4, <2>5 DEF IgnoreAt, Undisturbed, Handling
  <2> QED
    BY <2>3, <2>6, MovesOnlyStep
<1>4. ASSUME NEW peer \in Peer, NEW ltime \in 1 .. MaxTime, NEW actions \in PeerBuffer,
             Merge(g, peer, ltime, actions)
      PROVE  IgnoreOK'
  <2>1. MovesOnly(g)
    BY <1>4, QuietMoves DEF Merge, managerVars, joinVars
  <2>2. ~state'[g].ignore
    BY <1>4 DEF Merge, StateOf
  <2> QED
    BY <2>1, <2>2, MovesOnlyStep DEF IgnoreAt
<1>5. CASE JoinFails(g)
  <2>1. MovesOnly(g)
    BY <1>5, QuietMoves DEF JoinFails, managerVars, joinVars, callVars
  <2>2. pc'[g] = "joined"
    BY <1>5 DEF JoinFails
  <2> QED
    BY <2>1, <2>2, MovesOnlyStep DEF IgnoreAt, Undisturbed, Handling
<1>6. CASE JoinReturns(g)
  <2>1. /\ disturbed' = (disturbed \ {g}) \cup TakesFlags(g)
        /\ UNCHANGED <<actionMinTime, msg>>
        /\ \A h \in Goroutine \ {g} : state'[h] = state[h] /\ pc'[h] = pc[h]
    BY <1>6 DEF JoinReturns, managerVars
  <2>2. SetsBack(g) \subseteq disturbed \ {g}
    BY <2>1 DEF SetsBack, IgnoreOK, IgnoreAt, Undisturbed
  <2>3. MovesOnly(g)
    BY <2>1, <2>2 DEF MovesOnly
  <2>4. ~state'[g].ignore
    BY <1>6 DEF JoinReturns, NoState
  <2> QED
    BY <2>3, <2>4, MovesOnlyStep DEF IgnoreAt
<1>7. ASSUME NEW ltime \in 1 .. MaxTime, NEW actions \in PeerBuffer,
             MergeJoin(g, ltime, actions)
      PROVE  IgnoreOK'
  <2>1. MovesOnly(g)
    BY <1>7, QuietMoves DEF MergeJoin, managerVars, joinVars
  <2>2. /\ pc[g] = "join" /\ pc'[g] = "merge"
        /\ state'[g].ignore = state[g].ignore /\ state'[g].From = state[g].From
        /\ UNCHANGED <<joining, ignoreActOnJoin, disturbed>>
    BY <1>7 DEF MergeJoin, joinVars, StateType
  <2>3. IgnoreAt(g)'
    BY <2>2 DEF IgnoreOK, IgnoreAt, Undisturbed, Handling
  <2> QED
    BY <2>1, <2>3, MovesOnlyStep
<1> QED
  BY <1>1, <1>2, <1>3, <1>4, <1>5, <1>6, <1>7 DEF Starts, JoinStep

\* Whatever runs beside it, a join that ignores old actions delivers none of the
\* actions its peer had when it answered, unless another goroutine takes the flags
\* of the peer before Merge looks at them, or sets actionMinTime back
\* (serf.go:239-248, user_state_delegate.go:123-130).
THEOREM OldActionsIgnored == Spec => []IgnoredNotDelivered
<1> DEFINE Inv == Types /\ IgnoreOK
<1>1. Init => Inv
  <2> SUFFICES ASSUME Init
               PROVE  Inv
    OBVIOUS
  <2>1. IgnoreOK
    BY DEF Init, IgnoreOK, IgnoreAt, NoState
  <2> QED
    BY <2>1, InitTypes
<1>2. Inv /\ [Next]_vars => Inv'
  <2> SUFFICES ASSUME Inv, [Next]_vars
               PROVE  IgnoreOK'
    BY TypesStep
  <2>1. CASE UNCHANGED vars
    BY <2>1 DEF vars, IgnoreOK, IgnoreAt, Undisturbed
  <2>2. CASE \E m \in PeerMsg : Receive(m)
    BY <2>2, StartIgnores, ActionNodeAssumption
  <2>3. ASSUME NEW g \in Goroutine, Starts(g) \/ JoinStep(g) \/ MergeStep(g) \/ HandleStep(g)
        PROVE  IgnoreOK'
    BY <2>3, StartIgnores, MergeIgnores, HandleIgnores
  <2> QED
    BY <2>1, <2>2, <2>3 DEF Next
<1>3. Inv => IgnoredNotDelivered
  BY DEF IgnoredNotDelivered, IgnoreOK, IgnoreAt, Undisturbed
<1> QED
  BY <1>1, <1>2, <1>3, PTL DEF Spec
=============================================================================
