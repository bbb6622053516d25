----------------------------- MODULE ActionNode -----------------------------
(***************************************************************************)
(* The cluster actions of one node, with its goroutines interleaved step   *)
(* by step: receiveMsgs handling gossiped actions, RPC goroutines calling  *)
(* Action, and memberlist goroutines merging the state of a peer after a   *)
(* push-pull or in a Join.  All of them end in handleAction, which takes   *)
(* the clock, the lock of the ActionManager and inEventCh one after the    *)
(* other; a step of this module is what happens between two of those.      *)
(*                                                                         *)
(* Source: action.go, handleAction in net_handlers.go, Merge in            *)
(* user_state_delegate.go, Join and the initial values in serf.go.         *)
(***************************************************************************)
EXTENDS LamportBuffer

CONSTANTS Goroutine,        \* all goroutines of the node that handle actions
          Receiver,         \* the one that runs receiveMsgs
          Peer,             \* addresses of the other nodes
          Name, Payload,    \* what actions are made of
          NoName,           \* the empty name
          IgnoreOld,        \* values of the argument ignoreOld of Join
          LastActionClock,  \* what the snapshot of the last run remembers
          MaxTime,          \* bound: times of actions are below it
          MaxOps,           \* bound: handlers and merges that start
          MaxReplay         \* bound: actions in the buffer a peer sends

ASSUME ActionNodeAssumption ==
          /\ Receiver \in Goroutine
          /\ IgnoreOld \subseteq BOOLEAN
          /\ {LastActionClock, MaxTime, MaxOps, MaxReplay} \subseteq Nat
          /\ NoName \notin Name

VARIABLES clock,          \* action.clock
          actionMinTime,  \* older actions are ignored
          buffers,        \* action.buffers
          joining,        \* peers a Join is under way for
          ignoreActOnJoin,\* those whose old actions the Join ignores
          inEventCh,      \* action events sent so far, in order
          broadcasts,     \* actions queued for gossip
          pc,             \* where each goroutine is
          msg,            \* the action its handleAction is working on
          local,          \* whether it is there by way of Action
          state,          \* the user state its Merge is working on
          todo,           \* the actions Merge has still to replay
          ops,            \* handlers and merges started
          disturbed       \* history: the joins another goroutine came between

managerVars == <<clock, actionMinTime, buffers>>
joinVars == <<joining, ignoreActOnJoin>>
outVars == <<inEventCh, broadcasts>>
callVars == <<local, state, ops, disturbed>>
vars == <<clock, actionMinTime, buffers, joining, ignoreActOnJoin, inEventCh,
          broadcasts, pc, msg, local, state, todo, ops, disturbed>>

Msg == [LTime : Nat, Name : Name \cup {NoName}, Payload : Payload]
NoMsg == [LTime |-> 0, Name |-> NoName, Payload |-> nil]
Item(m) == [LTime |-> m.LTime, ID |-> 0, Payload |-> m.Payload]

\* What handleAction tells actions apart by.
Key(m) == <<m.LTime, m.Payload>>

\* A state that a peer has sent: who, its clock, whether the goroutine is in
\* a Join, and whether that Join is to ignore the old actions of the peer.
NoState == [From |-> {}, ActionLTime |-> 0, isJoin |-> FALSE, ignore |-> FALSE]
StateOf(peer, ltime, isJoin, ignoreOld) ==
    [From |-> {peer}, ActionLTime |-> ltime, isJoin |-> isJoin, ignore |-> ignoreOld]

Init == /\ clock = 1
        /\ actionMinTime = LastActionClock + 1
        /\ buffers = EmptyBuffer
        /\ joining = {}
        /\ ignoreActOnJoin = {}
        /\ inEventCh = <<>>
        /\ broadcasts = {}
        /\ pc = [g \in Goroutine |-> "idle"]
        /\ msg = [g \in Goroutine |-> NoMsg]
        /\ local = [g \in Goroutine |-> FALSE]
        /\ state = [g \in Goroutine |-> NoState]
        /\ todo = [g \in Goroutine |-> <<>>]
        /\ ops = 0
        /\ disturbed = {}

-----------------------------------------------------------------------------
(* The entries to handleAction and to Merge. *)

Goto(g, label) == pc' = [pc EXCEPT ![g] = label]

\* A goroutine works on an action from Witness until it is sent.
Handling == {"witness", "checkMin", "add", "emit"}

\* The joins that are to ignore old actions and that a step of g disturbs: it
\* takes their flags before Merge has looked at them, or sets actionMinTime back
\* after they have raised it.
TakesFlags(g) ==
    {h \in Goroutine \ {g} : /\ state[h].ignore
                             /\ pc[h] \in {"join", "merge", "flags"}
                             /\ ~(state[h].From \subseteq joining' \cap ignoreActOnJoin')}
SetsBack(g) ==
    {h \in Goroutine \ {g} : /\ state[h].ignore
                             /\ pc[h] \in {"unset", "replay"} \cup Handling
                             /\ actionMinTime' < state[h].ActionLTime}

Start(g) == /\ pc[g] = "idle"
            /\ ops < MaxOps
            /\ ops' = ops + 1

\* Action: the time is read here and witnessed only later.
Action(g, name, payload) ==
    /\ Start(g)
    /\ g # Receiver
    /\ clock < MaxTime
    /\ msg' = [msg EXCEPT ![g] = [LTime |-> clock, Name |-> name, Payload |-> payload]]
    /\ local' = [local EXCEPT ![g] = TRUE]
    /\ Goto(g, "witness")
    /\ UNCHANGED <<managerVars, joinVars, outVars, state, todo, disturbed>>

\* handleMsg: a peer, at whatever time it is, has gossiped an action.
Receive(m) ==
    /\ Start(Receiver)
    /\ msg' = [msg EXCEPT ![Receiver] = m]
    /\ Goto(Receiver, "witness")
    /\ UNCHANGED <<managerVars, joinVars, outVars, local, state, todo, disturbed>>

\* Join of one address, which is resolved already.
Join(g, peer, ignoreOld) ==
    /\ Start(g)
    /\ g # Receiver
    /\ joining' = joining \cup {peer}
    /\ ignoreActOnJoin' = IF ignoreOld THEN ignoreActOnJoin \cup {peer}
                                       ELSE ignoreActOnJoin \ {peer}
    /\ state' = [state EXCEPT ![g] = StateOf(peer, 0, TRUE, ignoreOld)]
    /\ disturbed' = (disturbed \ {g}) \cup TakesFlags(g)
    /\ Goto(g, "join")
    /\ UNCHANGED <<managerVars, outVars, msg, local, todo>>

\* The peer did not answer: only the deferred unset of Join is left to do.
JoinFails(g) ==
    /\ pc[g] = "join"
    /\ Goto(g, "joined")
    /\ UNCHANGED <<managerVars, joinVars, outVars, msg, callVars, todo>>

\* Merge of the answer of a peer that is being joined, ...
MergeJoin(g, ltime, actions) ==
    /\ pc[g] = "join"
    /\ state' = [state EXCEPT ![g].ActionLTime = ltime]
    /\ todo' = [todo EXCEPT ![g] = actions]
    /\ Goto(g, "merge")
    /\ UNCHANGED <<managerVars, joinVars, outVars, msg, local, ops, disturbed>>

\* ... and of the state of any peer in a periodic push-pull.
Merge(g, peer, ltime, actions) ==
    /\ Start(g)
    /\ g # Receiver
    /\ state' = [state EXCEPT ![g] = StateOf(peer, ltime, FALSE, FALSE)]
    /\ todo' = [todo EXCEPT ![g] = actions]
    /\ Goto(g, "merge")
    /\ UNCHANGED <<managerVars, joinVars, outVars, msg, local, disturbed>>

-----------------------------------------------------------------------------
(* The body of Merge, up to the replay. *)

Witnessed(t) == IF clock > t THEN clock ELSE t + 1

MergeWitness(g) ==
    /\ pc[g] = "merge"
    /\ clock' = IF state[g].ActionLTime > 0 THEN Witnessed(state[g].ActionLTime - 1)
                                            ELSE clock
    /\ Goto(g, "flags")
    /\ UNCHANGED <<actionMinTime, buffers, joinVars, outVars, msg, callVars, todo>>

MergeFlags(g) ==
    /\ pc[g] = "flags"
    /\ Goto(g, IF state[g].From \subseteq joining \cap ignoreActOnJoin THEN "compare" ELSE "unset")
    /\ UNCHANGED <<managerVars, joinVars, outVars, msg, callVars, todo>>

\* getActionMinTime and setActionMinTime take the lock one after the other.
MergeCompare(g) ==
    /\ pc[g] = "compare"
    /\ Goto(g, IF state[g].ActionLTime > actionMinTime THEN "setMin" ELSE "unset")
    /\ UNCHANGED <<managerVars, joinVars, outVars, msg, callVars, todo>>

\* Mutant: the actions of the peer are ignored up to the time before last.
MergeSetMin_offByOne(g) ==
    /\ pc[g] = "setMin"
    /\ actionMinTime' = state[g].ActionLTime - 1
    /\ disturbed' = disturbed \cup SetsBack(g)
    /\ Goto(g, "unset")
    /\ UNCHANGED <<clock, buffers, joinVars, outVars, msg, local, state, todo, ops>>

MergeSetMin(g) ==
    /\ pc[g] = "setMin"
    /\ actionMinTime' = state[g].ActionLTime
    /\ disturbed' = disturbed \cup SetsBack(g)
    /\ Goto(g, "unset")
    /\ UNCHANGED <<clock, buffers, joinVars, outVars, msg, local, state, todo, ops>>

MergeUnset(g) ==
    /\ pc[g] = "unset"
    /\ joining' = joining \ state[g].From
    /\ ignoreActOnJoin' = ignoreActOnJoin \ state[g].From
    /\ disturbed' = disturbed \cup TakesFlags(g)
    /\ Goto(g, "replay")
    /\ UNCHANGED <<managerVars, outVars, msg, local, state, todo, ops>>

\* The next action of the peer's buffer goes through handleAction.
Replay(g) ==
    /\ pc[g] = "replay"
    /\ todo[g] # <<>>
    /\ msg' = [msg EXCEPT ![g] = Head(todo[g])]
    /\ todo' = [todo EXCEPT ![g] = Tail(todo[g])]
    /\ Goto(g, "witness")
    /\ UNCHANGED <<managerVars, joinVars, outVars, callVars>>

MergeEnd(g) ==
    /\ pc[g] = "replay"
    /\ todo[g] = <<>>
    /\ Goto(g, IF state[g].isJoin THEN "joined" ELSE "idle")
    /\ state' = IF state[g].isJoin THEN state ELSE [state EXCEPT ![g] = NoState]
    /\ msg' = [msg EXCEPT ![g] = NoMsg]
    /\ UNCHANGED <<managerVars, joinVars, outVars, local, todo, ops, disturbed>>

\* The deferred function of Join.
JoinReturns(g) ==
    /\ pc[g] = "joined"
    /\ joining' = joining \ state[g].From
    /\ ignoreActOnJoin' = ignoreActOnJoin \ state[g].From
    /\ state' = [state EXCEPT ![g] = NoState]
    /\ disturbed' = (disturbed \ {g}) \cup TakesFlags(g)
    /\ Goto(g, "idle")
    /\ UNCHANGED <<managerVars, outVars, msg, local, todo, ops>>

-----------------------------------------------------------------------------
(* handleAction. *)

\* Back to the loop of Merge, to receiveMsgs or to the caller of Action.
Return(g) == IF state[g] # NoState
               THEN /\ Goto(g, "replay")
                    /\ UNCHANGED <<msg, local>>
               ELSE /\ Goto(g, "idle")
                    /\ msg' = [msg EXCEPT ![g] = NoMsg]
                    /\ local' = [local EXCEPT ![g] = FALSE]

\* Mutant: the clock is not moved by an action received.
HandleWitness_skipped(g) ==
    /\ pc[g] = "witness"
    /\ Goto(g, "checkMin")
    /\ UNCHANGED <<managerVars, joinVars, outVars, msg, callVars, todo>>

HandleWitness(g) ==
    /\ pc[g] = "witness"
    /\ clock' = Witnessed(msg[g].LTime)
    /\ Goto(g, "checkMin")
    /\ UNCHANGED <<actionMinTime, buffers, joinVars, outVars, msg, callVars, todo>>

HandleCheckMin(g) ==
    /\ pc[g] = "checkMin"
    /\ IF msg[g].LTime < actionMinTime
         THEN Return(g)
         ELSE Goto(g, "add") /\ UNCHANGED <<msg, local>>
    /\ UNCHANGED <<managerVars, joinVars, outVars, state, todo, ops, disturbed>>

\* addToBuffer, with the clock it reads under the lock.
HandleAdd(g) ==
    /\ pc[g] = "add"
    /\ IF Accepts(buffers, clock, Item(msg[g]))
         THEN /\ buffers' = Added(buffers, Item(msg[g]))
              /\ Goto(g, "emit")
              /\ UNCHANGED <<msg, local>>
         ELSE /\ Return(g)
              /\ UNCHANGED buffers
    /\ UNCHANGED <<clock, actionMinTime, joinVars, outVars, state, todo, ops, disturbed>>

HandleEmit(g) ==
    /\ pc[g] = "emit"
    /\ broadcasts' = broadcasts \cup {msg[g]}
    /\ inEventCh' = Append(inEventCh, msg[g])
    /\ Return(g)
    /\ UNCHANGED <<managerVars, joinVars, state, todo, ops, disturbed>>

-----------------------------------------------------------------------------
\* Actions that peers can have sent: theirs start at time 1.  getBuffer does
\* not copy the name, so those of a peer's buffer have none.
PeerMsg == [LTime : 1 .. MaxTime - 1, Name : Name, Payload : Payload]
PeerBufferMsg == [LTime : 1 .. MaxTime - 1, Name : {NoName}, Payload : Payload]
PeerBuffer == UNION {[1 .. n -> PeerBufferMsg] : n \in 0 .. MaxReplay}

Starts(g) ==
    \/ \E name \in Name, payload \in Payload : Action(g, name, payload)
    \/ \E peer \in Peer, ignoreOld \in IgnoreOld : Join(g, peer, ignoreOld)
    \/ \E peer \in Peer, ltime \in 1 .. MaxTime, actions \in PeerBuffer :
          Merge(g, peer, ltime, actions)

JoinStep(g) ==
    \/ JoinFails(g)
    \/ JoinReturns(g)
    \/ \E ltime \in 1 .. MaxTime, actions \in PeerBuffer : MergeJoin(g, ltime, actions)

MergeStep(g) == MergeWitness(g) \/ MergeFlags(g) \/ MergeCompare(g)
                \/ MergeSetMin(g) \/ MergeUnset(g) \/ Replay(g) \/ MergeEnd(g)

HandleStep(g) == HandleWitness(g) \/ HandleCheckMin(g) \/ HandleAdd(g) \/ HandleEmit(g)

Next == \/ \E m \in PeerMsg : Receive(m)
        \/ \E g \in Goroutine : Starts(g) \/ JoinStep(g) \/ MergeStep(g) \/ HandleStep(g)

Spec == Init /\ [][Next]_vars

-----------------------------------------------------------------------------
(* Invariants. *)

Labels == {"idle", "join", "joined", "merge", "flags", "compare", "setMin",
           "unset", "replay", "witness", "checkMin", "add", "emit"}
BufferedItem == [LTime : Nat, ID : {0}, Payload : Payload]
StateType == [From : SUBSET Peer, ActionLTime : Nat, isJoin : BOOLEAN, ignore : BOOLEAN]

CallsOK ==
    /\ pc \in [Goroutine -> Labels]
    /\ msg \in [Goroutine -> Msg \cup {NoMsg}]
    /\ local \in [Goroutine -> BOOLEAN]
    /\ state \in [Goroutine -> StateType]
    /\ todo \in [Goroutine -> Seq(Msg)]
    /\ ops \in Nat /\ disturbed \subseteq Goroutine

TypeOK ==
    /\ clock \in Nat /\ actionMinTime \in Nat
    /\ buffers \in [0 .. BufSize - 1 -> [LTime : Nat, Items : Seq(BufferedItem)]]
    /\ joining \subseteq Peer /\ ignoreActOnJoin \subseteq Peer
    /\ inEventCh \in Seq(Msg) /\ broadcasts \subseteq Msg
    /\ CallsOK

HandledIsMsg == \A g \in Goroutine : pc[g] \in Handling => msg[g] \in Msg

\* A group sits in the slot of its time, the clock is past that time, and its
\* items are all of that time.
GroupOK(s) == LET group == buffers[s]
              IN  group.Items # <<>> =>
                    /\ Slot(group.LTime) = s
                    /\ group.LTime < clock
                    /\ \A i \in DOMAIN group.Items : group.Items[i].LTime = group.LTime
BufferOK == \A s \in 0 .. BufSize - 1 : GroupOK(s)

\* Past its Witness, a goroutine works on an action the clock is past.
WitnessedFirst == \A g \in Goroutine :
                     pc[g] \in {"checkMin", "add", "emit"} => msg[g].LTime < clock

\* m is in the buffer, or a later time has taken its slot.
Remembered(m) ==
    LET group == buffers[Slot(m.LTime)]
    IN  /\ group.Items # <<>>
        /\ \/ group.LTime > m.LTime
           \/ group.LTime = m.LTime /\ \E i \in DOMAIN group.Items : group.Items[i] = Item(m)

\* Accepted actions: sent on inEventCh, or about to be.
Emitting == {g \in Goroutine : pc[g] = "emit"}
AcceptedKeys == {Key(inEventCh[i]) : i \in DOMAIN inEventCh} \cup {Key(msg[g]) : g \in Emitting}

AcceptedRemembered == /\ \A i \in DOMAIN inEventCh : Remembered(inEventCh[i])
                      /\ \A g \in Emitting : Remembered(msg[g])

RememberedAccepted == \A s \in 0 .. BufSize - 1 : \A i \in DOMAIN buffers[s].Items :
                         Key(buffers[s].Items[i]) \in AcceptedKeys

\* An action about to be sent is neither sent already nor about to be sent by
\* another goroutine.
EmittingOnce ==
    /\ \A g \in Emitting, i \in DOMAIN inEventCh : Key(msg[g]) # Key(inEventCh[i])
    /\ \A g, h \in Emitting : g # h => Key(msg[g]) # Key(msg[h])

\* No two events are one action: whatever way an action comes in (triggered
\* here, gossiped, replayed from the buffers of several peers) and however
\* often, it is sent on inEventCh once at most (buffer.go:69-84,
\* net_handlers.go:161), even long after its slot was taken by a later time.
AtMostOnce == \A i, j \in DOMAIN inEventCh :
                 i # j => Key(inEventCh[i]) # Key(inEventCh[j])

\* The inductive invariant behind AtMostOnce: what was accepted is in the
\* buffer or the buffer has moved past it (buffer.go:48-53,69-84).
ActionInv == /\ TypeOK /\ HandledIsMsg /\ BufferOK /\ WitnessedFirst
             /\ AcceptedRemembered /\ RememberedAccepted /\ EmittingOnce /\ AtMostOnce

\* addToBuffer turns an action away only if its window is over or this very
\* action has been accepted (buffer.go:69-84, action_test.go:104): another
\* action of the same time is no duplicate.
DropsDuplicatesOnly ==
    [][\A g \in Goroutine :
          pc[g] = "add" /\ pc'[g] \notin {"add", "emit"} =>
             isTooOld(clock, Item(msg[g])) \/ Key(msg[g]) \in AcceptedKeys]_vars

\* A Join that is to ignore old actions delivers none of those the peer had when
\* it answered, whatever other actions, joins and push-pulls run beside it, but for
\* two cases: another goroutine takes the flags of the peer before Merge looks at
\* them, or one that compared before sets actionMinTime back after
\* (serf.go:239-248, user_state_delegate.go:123-130).
IgnoredNotDelivered ==
    \A g \in Goroutine \ disturbed :
       pc[g] = "emit" /\ state[g].ignore => msg[g].LTime >= state[g].ActionLTime

\* When Action returns, the event it was called for is sent or about to be
\* (action.go:78,95): the caller gets no error if it is not.
LocalActionDelivered ==
    [][\A g \in Goroutine :
          local[g] /\ ~local'[g] =>
             \/ \E i \in DOMAIN inEventCh' : inEventCh'[i] = msg[g]
             \/ \E h \in Emitting : msg[h] = msg[g]]_vars
=============================================================================
