--------------------------- MODULE ActionCluster ---------------------------
(***************************************************************************)
(* The cluster actions of several nodes: actions are triggered, gossiped   *)
(* until their retransmissions are used up, carried by push-pull states    *)
(* that may be old when they are merged, and nodes stop and start again    *)
(* from their snapshots.  handleAction and Merge are single steps here;    *)
(* module ActionNode interleaves what happens inside them.                 *)
(*                                                                         *)
(* Source: action.go, broadcasts.go, user_state_delegate.go, handleAction  *)
(* in net_handlers.go, Build and Join in serf.go, the action clock of      *)
(* snapshot.go.                                                            *)
(***************************************************************************)
EXTENDS LamportBuffer, FiniteSets

CONSTANTS Node,
          Payload,
          IgnoreOld,    \* whether the joins under way ignore old actions
          MaxTime,      \* bound: times of actions are below it
          MaxActions,   \* bound on the actions triggered
          Restarting,   \* bound: the nodes that may crash or be shut down;
                        \* the snapshot file of the others is never read
          MaxRestarts   \* bound on the crashes and shutdowns

ASSUME ActionClusterAssumption ==
          /\ IgnoreOld \subseteq BOOLEAN /\ FALSE \in IgnoreOld
          /\ Restarting \subseteq Node
          /\ {MaxTime, MaxActions, MaxRestarts} \subseteq Nat

VARIABLES node,        \* the state of each node, see NewNode
          flushed,     \* the action clock in the snapshot file of each node
          inflight,    \* inflight[n][d]: the state n has sent to d, if any
          triggered,   \* the actions triggered so far
          durable,     \* events of a node its snapshot file accounts for, with
                       \* those of earlier runs
          restarts

clusterVars == <<node, flushed, inflight, triggered, durable, restarts>>

\* A message is known by its time and payload: handleAction looks at no more.
Act == [LTime : 1 .. MaxTime - 1, Payload : Payload]
Item(m) == [LTime |-> m.LTime, ID |-> 0, Payload |-> m.Payload]

\* Mutant: a restarted node accepts the last action of its snapshot again.
NewNode_offByOne(lastActionClock) ==
    [clock |-> 1, minTime |-> lastActionClock, buffers |-> EmptyBuffer,
     queue |-> {}, events |-> [a \in Act |-> 0], lastActionClock |-> lastActionClock]

\* Build: the minimum time comes from the snapshot, the clock does not.
NewNode(lastActionClock) ==
    [clock |-> 1, minTime |-> lastActionClock + 1, buffers |-> EmptyBuffer,
     queue |-> {}, events |-> [a \in Act |-> 0], lastActionClock |-> lastActionClock]

ClusterInit == /\ node = [n \in Node |-> NewNode(0)]
               /\ flushed = [n \in Node |-> 0]
               /\ inflight = [n \in Node |-> [d \in Node |-> {}]]
               /\ triggered = {}
               /\ durable = [n \in Node |-> {}]
               /\ restarts = 0

-----------------------------------------------------------------------------
(* handleAction and Merge, on the state s of one node. *)

Witness(s, t) == [s EXCEPT !.clock = IF @ > t THEN @ ELSE t + 1]

\* Mutant: what the buffer did not accept is sent all the same.
Deliver_always(s, m) ==
    [s EXCEPT !.buffers = IF Accepts(s.buffers, s.clock, Item(m))
                            THEN Added(s.buffers, Item(m)) ELSE @,
              !.queue = @ \cup {m},
              !.events[m] = @ + 1,
              !.lastActionClock = IF m.LTime > @ THEN m.LTime ELSE @]

\* The buffer accepts m: m is queued for gossip, sent on inEventCh, and the
\* snapshotter takes note of the latest time.
Deliver(s, m) ==
    IF Accepts(s.buffers, s.clock, Item(m))
      THEN [s EXCEPT !.buffers = Added(s.buffers, Item(m)),
                     !.queue = @ \cup {m},
                     !.events[m] = @ + 1,
                     !.lastActionClock = IF m.LTime > @ THEN m.LTime ELSE @]
      ELSE s

handleAction(s, m) ==
    LET w == Witness(s, m.LTime)
    IN  IF m.LTime < w.minTime THEN w ELSE Deliver(w, m)

\* LocalState: the clock, and the buffer slot by slot.
BufferedActions(buf) ==
    LET items[i \in 0 .. BufSize] == IF i = 0 THEN <<>> ELSE items[i - 1] \o buf[i - 1].Items
    IN  items[BufSize]

LocalState(s) == [ActionLTime |-> s.clock, Actions |-> BufferedActions(s.buffers)]

\* Mutant: Merge takes note of the time of the peer, and drops its actions.
Merge_noReplay(s, u, ignore) ==
    LET w == Witness(s, u.ActionLTime - 1)
    IN  IF ignore /\ u.ActionLTime > w.minTime
          THEN [w EXCEPT !.minTime = u.ActionLTime] ELSE w

\* The actions of a peer are handled one after the other.
HandleAll(s, actions) ==
    LET after[i \in 0 .. Len(actions)] ==
           IF i = 0 THEN s
           ELSE handleAction(after[i - 1],
                             [LTime |-> actions[i].LTime, Payload |-> actions[i].Payload])
    IN  after[Len(actions)]

Merge(s, u, ignore) ==
    LET w == Witness(s, u.ActionLTime - 1)
    IN  HandleAll(IF ignore /\ u.ActionLTime > w.minTime
                    THEN [w EXCEPT !.minTime = u.ActionLTime] ELSE w,
                  u.Actions)

-----------------------------------------------------------------------------
Others == <<flushed, inflight, durable, restarts>>

Action(n, payload) ==
    /\ Cardinality(triggered) < MaxActions
    /\ node[n].clock < MaxTime
    /\ LET m == [LTime |-> node[n].clock, Payload |-> payload]
       IN  /\ node' = [node EXCEPT ![n] = handleAction(@, m)]
           /\ triggered' = triggered \cup {m}
    /\ UNCHANGED Others

\* A gossip of n carries m to d; m stays queued, and may be lost on the way.
Gossip(n, d, m) ==
    /\ m \in node[n].queue
    /\ node' = [node EXCEPT ![d] = handleAction(@, m)]
    /\ UNCHANGED <<triggered, Others>>

\* The retransmissions of m are used up, or manageQueueDepth prunes it.
QueueDrop(n, m) ==
    /\ m \in node[n].queue
    /\ node' = [node EXCEPT ![n].queue = @ \ {m}]
    /\ UNCHANGED <<triggered, Others>>

\* n sends its state to d, in a push-pull or because d joins n.
SendState(n, d) ==
    /\ inflight[n][d] = {}
    /\ inflight' = [inflight EXCEPT ![n][d] = {LocalState(node[n])}]
    /\ UNCHANGED <<node, flushed, triggered, durable, restarts>>

\* d merges it, whatever happened since, in a periodic push-pull or while d is
\* joining n, with ignoreOld or without.
MergeState(n, d) ==
    \E u \in inflight[n][d], ignoreOld \in IgnoreOld :
       /\ node' = [node EXCEPT ![d] = Merge(@, u, ignoreOld)]
       /\ inflight' = [inflight EXCEPT ![n][d] = {}]
       /\ UNCHANGED <<flushed, triggered, durable, restarts>>

Events(n) == {a \in Act : node[n].events[a] > 0}

\* The ticker of the snapshotter flushes.
Flush(n) ==
    /\ flushed[n] # node[n].lastActionClock
    /\ flushed' = [flushed EXCEPT ![n] = node[n].lastActionClock]
    /\ durable' = [durable EXCEPT ![n] = @ \cup Events(n)]
    /\ UNCHANGED <<node, inflight, triggered, restarts>>

\* n stops, with or without a last flush, and is built again.  Its identity is
\* new, so what is on the way to it is lost.
Restart(n) ==
    /\ restarts < MaxRestarts
    /\ restarts' = restarts + 1
    /\ node' = [node EXCEPT ![n] = NewNode(flushed[n])]
    /\ inflight' = [m \in Node |-> [inflight[m] EXCEPT ![n] = {}]]
    /\ UNCHANGED <<flushed, triggered, durable>>

Exchange(n, d) == SendState(n, d) \/ MergeState(n, d)

ClusterNext ==
    \/ \E n \in Node, payload \in Payload : Action(n, payload)
    \/ \E n \in Node : \E m \in node[n].queue :
          QueueDrop(n, m) \/ \E d \in Node \ {n} : Gossip(n, d, m)
    \/ \E n \in Node : \E d \in Node \ {n} : Exchange(n, d)
    \/ \E n \in Restarting : Flush(n) \/ Restart(n)

(***************************************************************************)
(* memberlist exchanges states with every other node again and again       *)
(* (PushPullInterval, a peer chosen at random); nothing is assumed of      *)
(* gossip, whose packets may all be lost.                                  *)
(***************************************************************************)
ClusterSpec == /\ ClusterInit /\ [][ClusterNext]_clusterVars
               /\ \A n \in Node : \A d \in Node \ {n} :
                     WF_clusterVars(Exchange(n, d))

-----------------------------------------------------------------------------
\* The nodes implement the broadcast: what a node sends on inEventCh was
\* triggered somewhere, and is sent once in a run, also when it comes back in
\* the gossip or the old states of peers (net_handlers.go:151-171).
Broadcast == INSTANCE ActionBroadcast
                WITH learnt <- [n \in Node |-> node[n].events]
ImplementsBroadcast == Broadcast!Spec

\* No restart delivers an event again that the snapshot file accounts for
\* (serf.go:177, snapshot.go:229-236).
DurableNotRepeated ==
    [][\A n \in Node : \A a \in durable[n] :
          node'[n].events[a] <= node[n].events[a]]_clusterVars

\* d takes the action no more: it is below the minimum time, or out of the
\* window of the buffer, or a later time has taken its slot.
IsPast(d, item) ==
    LET group == node[d].buffers[Slot(item.LTime)]
    IN  \/ item.LTime < node[d].minTime
        \/ isTooOld(node[d].clock, item)
        \/ group.Items # <<>> /\ group.LTime > item.LTime

Delivered(d, item) == node[d].events[[LTime |-> item.LTime, Payload |-> item.Payload]] > 0

\* The nodes agree: what one of them keeps, the others have delivered or do not
\* take any more.
Agreed == \A n \in Node : \A d \in Node \ {n} : \A s \in 0 .. BufSize - 1 :
             \A i \in DOMAIN node[n].buffers[s].Items :
                LET item == node[n].buffers[s].Items[i]
                IN  Delivered(d, item) \/ IsPast(d, item)

\* When no more actions are triggered the nodes come to agree, for good: however
\* much of the gossip is lost and whoever joined, crashed or started again,
\* push-pull carries an action to every node that still takes it (action.go:78,
\* user_state_delegate.go:131-144).
EveryActionArrives == <>[]Agreed
=============================================================================
