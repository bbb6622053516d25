# cserf in TLA+

cserf is a Go implementation of a Serf-like cluster agent. Nodes find each other
and detect failures with the memberlist library; on top of it a node spreads
*actions* (user events) and *queries*, keeps a snapshot of what it knows on disk,
and turns all of it into a stream of events for scripts and RPC clients. This
directory holds the models of that layer, the runs that check them with TLC and
the theorems proved about them with TLAPS.

Line numbers refer to the repository; `PROJECT.json` maps every definition to the
lines it models.

## 1. Inventory

| Component | Source | State | Operations | Modelled in |
|---|---|---|---|---|
| Lamport clock | `lamport.go` | one atomic counter | `Time`, `Next`, `Witness` | `LamportClock` |
| Lamport buffer | `buffer.go` | ring of groups of equal times | `isTooOld`, `isLTimeNew`, `addItem` | `LamportBuffer` |
| Action manager | `action.go`, `handleAction` | clock, buffer, minimum time | `Action`, `handleAction`, `getBuffer`, `setActionMinTime` | `ActionNode`, `ActionCluster` |
| User state delegate | `user_state_delegate.go` | flags of joins | `LocalState`, `Merge` | `ActionNode`, `ActionCluster`, `Membership` |
| Message handlers | `net_handlers.go` | none | `receiveMsgs`, `handleMsg`, `handleQuery`, `handleQueryResponse`, `handleRelay` | `ActionNode`, `QueryManager` |
| Gossip queues | `broadcasts.go` | two queues | `broadcastAction`, `manageQueueDepth`, `GetBroadcasts` | `ActionCluster` (actions) |
| Query manager | `query.go`, `invokeEventScript` | clock, buffer, handlers by time | `Query`, `ReachQuery`, `setResponseHandler`, `invokeResponseHandler`, `respondToQueryEvent` | `QueryManager` |
| Snapshotter | `snapshot.go` | members, two times, file, buffer | tee, record, flush, leave, compact, recover, replay | `Snapshot` |
| Event coalescer | `coalescer.go` | new and old events by member | receive, flush, clean | `Coalescer` |
| Inactive members | `inactive.go`, `node_events.go` | lists of failed and left members | node events, reap, reconnect, merge | `Membership` |
| Event pipeline | `event_handlers.go`, `serf.go` | filters, handlers, channels | tee, receive, dispatch, invoke script, start and stop a stream | `EventPipeline` |
| Key queries | `key_query.go`, `loadKeyring` | keyring, keyring file | install, use, remove, list, collect | `KeyQueries` |
| Life cycle | `serf.go` | state, tags | `Build`, `Join`, `Leave`, `Shutdown`, tags | `Agent`, `ActionCluster`; tags and `rejoinSnapshot` are not |
| Coordinates | `ping_delegate.go`, `coordinate/` | coordinate, ring of differences, latency rings, cache | `Finish`, `Relax`, `SetID`, `RemoveCachedCoord`, `Rtt` | `Coordinates` |
| Log streaming | `rpc/server/log.go` | ring of lines, streams | `Write`, `register`, `deregister`, `Monitor` | `LogStreams` |
| RPC server | `rpc/server/server.go` | none of its own | `CreateServer`, `retryJoin`, one handler per RPC | start and cleanup in `Agent`, `Query` and `Reach` in `QueryManager`, `Rtt` in `Coordinates`, `Monitor` in `LogStreams` and `EventPipeline` |
| mDNS discovery | `rpc/server/mdns.go` | addresses seen, addresses to join | `NewClusterMDNS`, `run` | `Agent` |
| Server command | `cmd/server.go`, `cmd/utils/utils.go` | channel of the watcher | start, watch `retryJoin`, wait for a signal, clean up | `Agent` |
| RPC client, generated stubs, other commands, configuration, helpers | `rpc/`, `cmd/`, `config.go`, `utils.go` | none | | not modelled |

**How they interact.** memberlist calls the delegates from its own goroutines
(`LocalState`, `Merge`, `GetBroadcasts`, `Finish`), hands user messages to
`receiveMsgs` and changes of members to `receiveNodeEvents` over channels. RPC
goroutines call `Action`, `Query`, `Join`, `Leave` directly. Everything that
happens becomes an event on `inEventCh`, which flows through the snapshotter's
tee, the coalescer, the receptor of key queries and the event handlers, each a
goroutine with a channel in front of it. Shared state is under small locks: the
lock of each manager, of the lists, of the flags of joins. None is held across a
whole operation, which is what makes the behaviour hard: `handleAction` alone
takes the clock, the lock for the minimum time, the lock for the buffer and the
channel one after the other, while other goroutines do the same.

**What is hard, and what makes each component correct.** `PROJECT.json` lists
the hazards with their lines. In short:

* *Actions*: an action is delivered at most once, though it arrives by gossip, by
  RPC and by any number of push-pulls, races with itself and outlives its slot in
  the ring; it is dropped only if it is a duplicate or too old; it gets to every
  node though gossip is lost; a join that ignores old actions ignores them unless
  another goroutine undoes it; a restart repeats nothing the snapshot accounts for.
* *Queries*: a query that no other overlaps has its handler for itself, responses come
  once and from the nodes it selects, channels are closed and nothing is sent on them later.
* *Snapshot*: wherever the process dies, a restart finds a state the node was in,
  not older than the last flush; errors are recovered from.
* *Coalescer*: what is left out of the stream is known to the application, and what
  is sent is in order.
* *Members*: alive members are on no list, dead ones stay on one until they are
  reaped, nobody is reaped twice, and the application hears last what is true.
* *Pipeline*: an event is lost only where the code drops it; scripts and streams see
  events once, those of a member and those of a type in order; nothing waits for ever
  while scripts end.
* *Coordinates*: no answer of a peer, in whatever order, leaves a coordinate in use
  that is not finite; what made one overflow costs resets only while it is in the
  window; the cache of the own coordinate never goes back.
* *Logs*: a stream has its lines once and in order, across the seam of old lines and
  new ones, and no line is skipped without a warning.
* *Process*: however it ends, everything that was called returns, a leave is on disk
  or writing it has failed, and nothing is closed twice unless a call sets the state over a
  shutdown it did not see; every address discovered is tried.
* *Keys*: no step of a rotation cuts a node off, whatever crashes or fails to be
  written, if the operator goes by the counts; a complete count means files, not memory.

## 2. Modules

Each abstract specification is used by a detailed one, which TLC and TLAPS show to
implement it. Where one module of proofs is about several models, each of them gives
its specification a name of its own (`CoalescerSpec`, `PingSpec`, `ClusterSpec`,
`LogSpec`).

| Module | Content |
|---|---|
| `AtomicClock` | a clock with atomic `Witness` and `Next` |
| `LamportClock` | the compare-and-swap loop, per goroutine: load, swap, retry; implements `AtomicClock` |
| `LamportBuffer` | the ring buffer as operators, used by actions and queries |
| `ActionNode`, `MCActionNode` | the actions of one node: every goroutine of it, step by step |
| `ActionNodeProofs` | its theorems, and the lemmas about the ring buffer |
| `ActionBroadcast` | what a cluster promises: at-most-once broadcast per life of a node |
| `ActionCluster` | several nodes, a step per handler: gossip, push-pull, joins, restarts; implements `ActionBroadcast` |
| `QueryManager`, `MCQueryManager` | the queries of one node and the nodes that answer |
| `QueryManagerProofs` | its theorems |
| `DurableState` | what a log promises: a restart goes back to a state that was durable or later |
| `Snapshot` | the snapshotter, one operation on files per step; implements `DurableState` |
| `SnapshotProofs` | its theorems |
| `MemberFeed` | a feed per member with events left out |
| `Coalescer` | the coalescer; implements `MemberFeed` |
| `ClockAndCoalescerProofs` | theorems about `LamportClock` and `Coalescer` |
| `Membership` | lists of inactive members, the four tasks that use them, and memberlist |
| `KeyQueries` | key rotation: the operator, the queries, each node's keyring and keyring file, crashes |
| `KeyQueriesProofs` | its theorems |
| `EventPipeline` | the goroutines and channels an event passes, the scripts and the streams |
| `EventPipelineProofs` | its theorems |
| `Coordinates` | the coordinate of a node, its ring of differences, the cache, pings and reads of it |
| `ClusterProofs` | theorems about `Membership`, `Coordinates` and `ActionCluster` |
| `LogStreams` | the ring of log lines and the streams that are given them |
| `Agent` | the process: start, signal, `Leave`, `Shutdown`, the end of the snapshotter, `retryJoin`, mDNS |
| `AgentProofs` | theorems about `Agent` and `LogStreams` |

### Correspondence with the code

**LamportClock.** `time` is the atomic word; `pc`, `arg` and `t0` of a goroutine
are where it is in its call of `Witness` and that call's locals (`lamport.go:22-33`);
`Load` is `Time()` and the early return, `Swap` the compare-and-swap, `Tick` is
`Next`. The clock is a natural number: a `uint64` incremented once per event does
not wrap.

**LamportBuffer.** A slot holds the time of its group and the items, `<<>>` if the
group is nil. `Accepts` and `Added` are the two results of `addItem`
(`buffer.go:69-84`). `Equal` keeps the special case of a nil payload.

**ActionNode.** The variables are the fields of `ActionManager`, the two maps of
the delegate, the channel and the queue the events go to, and per goroutine a
program counter with the locals. Between two values of `pc` lies what the code
does under one lock or with one channel operation: `HandleWitness`,
`HandleCheckMin`, `HandleAdd`, `HandleEmit` are the four parts of `handleAction`;
`MergeWitness` to `MergeEnd` those of `Merge`; `MergeCompare` and `MergeSetMin` are
two steps because the code takes the lock twice. The broadcast and the send on
`inEventCh` are one step: nothing reads both. Peers are an environment that sends
any action of a time between 1 and `MaxTime - 1`; those of a peer's buffer are
without a name, as `getBuffer` does not copy it. The size limits of `Action`
return before any state changes and are left out. A message that fails to decode
is not sent by nodes of this program and is left out as well. `ignore` in a goroutine's
`state` is the argument of its `Join`, not what `Merge` finds in the maps. `disturbed`
is history: the joins whose flags another goroutine cleared before their `Merge` looked
at them (`TakesFlags`), or whose minimum time another one set back while they were
delivering (`SetsBack`). A join of several addresses is several joins of one.

**ActionCluster.** Here a handler is one step and nodes are explicit. `inflight`
holds a state taken for a push-pull until it is merged, however late; gossip may be
lost, repeated and reordered because nothing obliges a queued action to be sent
and nothing takes it out of the queue but the limit. A join is a merge that may
ignore old actions: `MergeState` chooses, so that every join and every push-pull
that overlaps one is among its choices. `Flush` lets the snapshot
catch up with the actions delivered, `Restart` is a crash at any moment followed by
`Build`. `Restarting` names the nodes that may crash; nodes are otherwise alike, so
with one crash it does not matter which, and the snapshots of the others are never read.

**QueryManager.** `ReadTime`, `ArmTimer`, `SetHandler` and `SendQuery` are the
steps of `Query`; the timer is armed before the handler is stored, as in the
code. `handlers` maps times to at most one handler. A query event is given to
every handler it matches, and two filters may run a script twice (`NumScripts`):
each invocation answers (`Answer`) or not (`NoAnswer`: it does not start, fails,
prints nothing, or the deadline has passed). A query in `Reach` is answered by the node
itself and ends also when one response more than `NumActive` comes. Calls run at once, as
gRPC serves them. The timer may fire from the moment it is armed, also before the handler is
stored, since the caller chooses the timeout: if no handler is there, the timer
closes the channel of a nil pointer, and the process ends; if a rival's is there, it closes that
one, and the handler stored afterwards stays until a rival's timer takes it. `Oversized` names the queries that may be
rejected with handler and timer in place, `Overloaded` those that may be rejected before.
`before` is history: what was broadcast when a query read its time. Two calls are
`Rivals` if neither was broadcast when the other read its time, which is what it takes to
read the same one. Assumption: the random IDs of two queries
differ. After that (`panicked`) `Next` is disabled. A response is
relayed `NumRelays` times, and every copy may be lost.

**Snapshot.** A line is a pair of its kind and its value; sizes count lines, so
the thresholds do too. `pc` is where the goroutine of `receiveEvents` is; the
operations of `compact` are single steps, since the process can be killed or an
operation can fail between any two of them. `handle` says whether the buffered
writer is good, has a sticky error, or is nil. A writer that is full flushes up to
somewhere within the new line; `TornEnds` says whether a process may end while the
file ends there. Any write may fail (`FailedWrite`): a prefix of its lines gets to the file, and
perhaps a part of the next one; `bufio` never writes what is left. `tryAppend` with a full
buffer and `FlushTick` then call `recover`, the leave and the end log the error,
and `compact` ignores it (`FlushOld`). `recover` and its pause are `recover` and
`CoolDown`. What was written to a file survives the process; a failure of the
machine is not modelled. The drain timeout is taken to be long enough. A torn
line glued to a line `leave` makes `handleLine` panic (`snapshot.go:404`); that is
left out.

**Coalescer.** The maps are functions from members to at most one event. Any event
may follow any other: the tee drops some, and a reap may come after the member is back. A flush
picks the member that opens the event of each type, which stands for the order in
which Go walks a map.

**Membership.** memberlist is the environment (`Alive`, `Dead`, `Departs`,
`JoinAnswered`): it announces changes on `nodeEventCh` in order and has already
changed its own state when it does. `TakeNodeEvent`, `UpdateLists` and
`SendMemberEvent` are `receiveNodeEvents`, with the lookup of the state where the
code has it. `shouldConnect` and `PickFailed` take the lock one after the other, so that the lists may
change in between, and `PickNone` finds the failed list empty by then. `ReapLists` is what happens under the lock, `SendReapEvent` what
happens after. A member that departed never comes back under its ID; a dead
member's address may be taken by another node, which then answers a reconnect.
All tasks run against each other in the one run. `reaped`, `answered` and `told` are
history: they name the members for which the code is known to do otherwise (section
3), and keep the properties to the rest. `last` holds the events of
`receiveNodeEvents`; the reaper's are kept apart, since their order against the others is open.

**KeyQueries.** `ring` is the keyring with the primary key first, as `GetKeys`
returns it, and `file` what the keyring file holds; the server refuses to start
without that file, so it is always configured. `handleKeyQuery` is `ChangeRing`,
`OpenFile`, `WriteFile` or, where something fails, `RejectKey` and `WriteFails`:
`os.WriteFile` truncates the file before it writes it, and the process can be killed in
between, after which `loadKeyring` fails and the node never comes back. `Sensible`
is the operator, and the operator's rule is what the properties need: use a key only
when a query to install it was answered by all nodes without an error, remove it
only when the use of another one was, and send queries while every node is up
(`NumNode` counts active members only). A list is no substitute: after a failing write it
shows keys that a restart loses. Assumptions: while a query runs nobody joins and
no node starts again, as it would answer under a new ID in place of another one
(`collectKeyResponse` counts, it does not compare IDs); and a query is no longer gossiped when the
operator sends the next one, since a node that restarted would obey the older one after it.

**EventPipeline.** Each channel is a sequence of limited length and each stage an
action that takes from one and puts into the next; a stage that waits to send still
has its event in the channel before it. `teeEvents` and `HandleEvent` drop what finds
no room (`forwardEvent`). `handling` is the event `receiveEvents` is busy with, with
the scripts and streams it has still to be given to; `invoking` is the script that
runs. `newEvents` keeps the latest event of each member; `flush` makes one event of each
type of what is not equal to an old event, and `sendCoalesced` sends them one by one in
any order, as the code ranges over a map, while the coalescer takes nothing else. What an
event of a member equals may only be one that a flush sent before (`MayEqualOld`); which
of those are still kept is for `Coalescer`. `leftOut` holds events that were
replaced by later ones of their member or found equal. `invokeScriptCh` has no buffer: an event waits for the script of the one
before, and with it everything up to the tee, key queries included. Actions and queries for
scripts, which the stages treat alike, are one type (`"user"`); member events have a type and a member. `CreateScriptHandlers`
makes a handler of each filter, so that a script is known by its filter, `ran` says
which script ran for which event, and an event that two filters match runs both. While the node runs nothing is closed; its shutdown is
not modelled.

**Coordinates.** Numbers are reduced to a size: `"near"` for coordinates no sum or
square overflows on, `"far"` for finite ones that may, `"bad"` for an infinity, a
NaN or another dimension. What involves a far one may become anything; a `Relax` of near
ones overflows nowhere, but may end far. This is all the code's checks distinguish. A
distance too long for a `time.Duration` (`coordinate.go:20-22`) is converted to a wrong one,
which differs between platforms but is finite: it moves the coordinate wrongly and
changes neither of these classes otherwise; that the distances `Rtt` returns are wrong
then is not modelled. `Finish` is the
call of `Relax`, which holds the lock of the coordinate, `CacheCoords` the rest, under the lock
of the cache, where the own coordinate is read anew. `version` counts the moves of
the coordinate and `samples` the differences found: both are history. `SetID` may come
after the first pings, as memberlist runs before `Build` has its ID.

**LogStreams.** A line is known by its position in `lines`, which holds its level.
`Write` is one step, since the logger and the manager hold their locks throughout; the
warning about a skipped line is logged by a goroutine of its own (`Warn`), at any
time later. `MayReachStreams` and `MayStopBefore` are what `io.MultiWriter` does with
the syslog in front of the streams. `expected` is history: the lines a stream should get.
A stream is registered once; Monitor makes a new one for each call.

**Agent.** `pc` says where each goroutine is within `Leave` (`serf.go:277-287`) or
`Shutdown` (`:289-301`): each check of the state, each setting of it, the close of
the channel and the wait for the snapshotter is a step. `main` creates the server
(`StartMDNS`, `StartServer`, or `StartFails`), waits, and cleans up; `retryJoin` and the
watcher of `cmd/server.go` run beside it. `snapshotter` is `receiveEvents` without its events:
it takes a leave, drains, stops. `recorded` says whether the leave it took is in the file
or writing it has failed, which `receiveEvents` only logs. `closedTwice` and `nilPolled` are the two
ways to panic: the channel closed again, and a watcher that asks a server whose start
failed. `raced` is history: a call has set the state over a shutdown that came
after its own check (`Overwrites`). The process is over when `main` is done or something
panicked, and with it everything else (`Ended`). What memberlist does in `Leave` and
`Shutdown` returns. Of mDNS, `seen` and `join` are the code's; `waitCh` says that the timer is set.

## 3. Runs

Each run ends within three minutes. Deadlock is not checked where the bounds end
every behaviour: with all changes, calls and events used up there is nothing left to do.

| Run | Checks | Bounds and why they are enough |
|---|---|---|
| `lamport_clock` | `ClockInv`, `WitnessMovesOn`, `WitnessReturns`, `ImplementsAtomicClock` | three goroutines: one swaps between the load and the swap of another, twice |
| `action_node` | `ActionInv`, `AtMostOnce`, `IgnoredNotDelivered`, `DropsDuplicatesOnly` | the receiver and two other goroutines, three operations that overlap, a ring of one slot and times up to two, so that a slot is taken over while a copy is under way; two payloads; joins of one peer that ignore old actions or do not, and push-pulls with it, all at once: flags are cleared and the minimum time is set back by others. A ring of two slots and two peers were checked with one goroutine besides the receiver. The proofs cover any number |
| `action_cluster` | `ImplementsBroadcast`, `DurableNotRepeated`, `EveryActionArrives` | two nodes, two actions of two payloads, a ring of a single slot (every new time evicts), joins that ignore old actions and merges that do not, a crash and a restart. `EveryActionArrives` says what remains true when slots are taken over: in the end a node has delivered what another one keeps, or no longer takes it |
| `query_manager` | `QueryInv`, `ResponsesOnce`, `NoSendOnClosed`, `CallsReturn` | two queries called at once or in turn, with timers that fire at any moment; one may be too long, in either way; the other is a `ReachQuery` that waits for one node and hears of two; two nodes, two scripts on each, a relay for each response, any loss and repetition. `CallsReturn` is about every call that has begun, not only those that sent |
| `coalescer` | `CoalescerInv`, `LeftOutWasSent`, `ImplementsFeed` | three members, so that a type has a first member and others; two contents of an update |
| `snapshot` | `SnapshotInv`, `StoppedIsDurable`, `ImplementsDurableState`, `TimesReachDisk` | one member, times up to two, compaction after two lines, three events, two writes or dumps that fail, killed at any point but one (`CrashPoints`, see below), two runs of the process |
| `members` | `ListsInv`, `EventsMatchState`, `ReapedOnce` | two members, six changes announced, every task between any two steps of the others |
| `key_queries` | `KeyInv`, `EverybodyUnderstood`, `CountsAreTrue` | two nodes and two keys, a list with room for one; three queries (install, use, remove in sequence), a crash and a failing write; four queries were checked as well |
| `event_pipeline` | `PipelineInv`, `NoGaps`, `InOrder`, `EventsArrive` | two streams that start and stop at any time, two scripts that match the same event, channels with room for one, two types of member events and two members, two events, so that either finds the other in its way at every stage and a flush sends them in either order |
| `coordinates` | `CoordInv`, `OwnNeverBack`, `ResetsEnd` | two goroutines that end pings of one peer, four pings, a window of two: the ring wraps around twice and a reset is followed by two samples more; a near coordinate may drift far by itself |
| `log_streams` | `LogInv`, `SkipsAreWarned` | two streams, five lines, a ring and channels of two: the ring wraps around, the channels fill up, and a warning is skipped itself; with a syslog and without |
| `agent` | `ClosedOnce`, `LeaveIsRecorded`, `BegunIsDone` | two calls of `Leave`, one failing join, a signal at any time, a start that fails at either point, two polls, two addresses |

### Disagreements

The passing runs keep to what the code gets right. Each restriction below is there
because TLC finds a counterexample without it; changing the named constant or
property shows it again.

| Where | Restriction | What happens without it |
|---|---|---|
| `ActionNode` | `LocalActionDelivered` is in no run | after a restart the clock starts at 1 (`action.go:27`) and the minimum time behind the last action of the snapshot (`serf.go:177`): until a later time is witnessed, every action the node triggers is dropped without an error, although `Action` is to "trigger a cluster action on all nodes" (`action.go:78`). Add the property to `action_node.cfg` with `LastActionClock = 2` |
| `ActionNode` | one `Name` | the buffer does not compare names (`buffer.go:18`): of two actions of one time and payload the second is dropped without an error (`LocalActionDelivered`) |
| `ActionNode` | `nil` is no `Payload` | `Equal` (`buffer.go:18-21`) goes on to compare the IDs, which actions do not have: a nil payload makes every action of its time a duplicate (`DropsDuplicatesOnly` with `Payload = {p, nil}`) |
| `ActionNode` | `disturbed` in `IgnoredNotDelivered` | a merge of a periodic push-pull with the same peer, or another join of it, clears the flags (`user_state_delegate.go:129-130`, `serf.go:239-248`) before the join's own merge looks at them, which then delivers the old actions; and `Merge` compares and sets the minimum time in two critical sections (`:124-125`), so that a merge that compared before sets it back |
| `ActionNode` | events are not compared by name | `getBuffer` (`action.go:42`) does not copy names: an action that was learnt by push-pull is delivered, and gossiped on, without one |
| `QueryManager` | `Rivals` in `QueryInv` | two calls of `Query` at once read the same time (`query.go:153`): the second handler takes the place of the first, and the second of their timers dereferences a nil handler (`query.go:90`), which ends the process. So does a query found too long (`query.go:170`), which has its handler and timer but does not witness its time: the next one takes its slot |
| `QueryManager` | `pc[q] = "armed"` in `QueryInv` | the timer is armed before the handler is stored (`query.go:87-95`): with a timeout that short it finds none, and the process ends |
| `QueryManager` | `"stuck"` in `CallsReturn` | a payload over the limit makes `Query` return before it has a timer (`query.go:144`); the RPC ignores the error and ranges over a channel nobody closes (`server.go:221`): the call never returns |
| `QueryManager` | `panicked` in `CallsReturn` | the process may end first, as above |
| `EventPipeline` | types and members in `Before` | `flush` sends one event of each type in the order of a map (`coalescer.go:62-64`): one member's failure may reach scripts before another one's join of earlier on |
| `QueryManager` | `numNode` is no set of nodes | `ReachQuery` counts responses (`query.go:302`): a node that joined meanwhile answers in place of one that did not |
| `Coalescer` | `announced`, not `view`, in `LeftOutWasSent` | `flush` continues before it remembers the first member of each type (`coalescer.go:56-59`): an older event stays, and what happens to the member next may equal that one and be left out, though the application has seen another since |
| `Snapshot` | `handle = "ok"` in `LogIsMemory` and `StoppedIsDurable` | what `bufio` holds when a write fails is lost: the file lags behind until a compaction has written everything anew, and if the write that fails is that of a leave or the last one, nothing is tried after it (`snapshot.go:149,176`) |
| `Snapshot` | `TornEnds = FALSE` | `replay` skips a torn last line (`snapshot.go:434`) but leaves it in the file: the line written next is glued to it and lost at the next restart (`SnapshotInv`) |
| `Snapshot` | `CrashPoints` without `"removed"` | `compact` removes the log before it renames the new one (`snapshot.go:355-359`): killed in between, the node opens an empty file, and "restore snapshotter from log" (`:97`) finds nothing; the compacted log beside it is never read (`ImplementsDurableState`) |
| `Snapshot` | `Faults` without `"remove"`, `"rename"`, `"open"` | `compact` has dropped the buffer by then (`snapshot.go:352`): recovery calls a nil one and panics (`SnapshotInv`) |
| `Membership` | `answered` in `ListsInv` | a member that fails again between the answer to `Join` and `removeFailed` (`inactive.go:217-223`) is taken off the failed list, to be neither reconnected nor reaped |
| `Membership` | no reap events in `last` | they are sent after the lock is released (`inactive.go:196-201`): a member that comes back in between is reported joined, then reaped |
| `Membership` | `told` in `ReapedOnce` | `addLeftBatch` lists members that were reaped here when a peer names them (`inactive.go:82-96`), and they are reaped again |
| `Membership` | none of `told` is demanded on a list | `addLeftBatch` returns at the first member it knows (`inactive.go:87`) and leaves out those behind it |
| `Membership` | `PickFailed` need not happen | `numAlive` is negative when more members are listed than memberlist knows; only 0 is guarded (`inactive.go:175`), and then nothing is reconnected |
| `Coordinates` | no filter of latencies | `addLatency` never stores a new ring in `latenciesMap` (`node.go:147`): every median is that of one sample |
| `Coordinates` | entries need not go | a ping that ends after the reaper has removed its member caches it again, for good (`ping_delegate.go:77`); pings that end before `SetID` leave the own coordinate under the empty ID |
| `LogStreams` | no liveness | while a client is stuck each warning about a skipped line is a line that is skipped (`log.go:48`): the warnings go on for ever, and with two stuck clients each begets two |
| `LogStreams` | `expected` counts from `Write` | `FilterSyslog` returns 0 for a line below its level (`log.go:135`), and `io.MultiWriter` stops there: with a syslog the streams miss every line below `LogLevel`, whatever level the client asked for |
| `Agent` | `raced` in `ClosedOnce` | two calls that overlap between the check and the setting of the state (`serf.go:278-301`) both get past it: a signal while `retryJoin` gives up, or a `Leave` that sets the state back in between, closes `shutdownCh` twice, which panics. It does not matter whether the start succeeded |
| `Agent` | `nilPolled` in `ClosedOnce` | `cmd/server.go` starts the watcher before it looks at the error of `CreateServer`: if it polls while the cleanup waits for the snapshotter, it asks a nil server for its state. This is told apart from a double close and excuses none |
| `Agent` | `"failed"` in `LeaveIsRecorded` | an append or a flush of the leave that fails is logged (`snapshot.go:175-178`) and not tried again |
| `Agent` | `retryJoin` in `LeaveIsRecorded` | a `Shutdown` that finds the state already set returns at once (`serf.go:290`): when `retryJoin` is shutting down, `main` may end the process before the last flush |
| `Agent` | no property that the process ends | the watcher polls three times at intervals computed without the time the joins take (`cmd/server.go:43`): if they take longer, the node shuts down and the process goes on serving |
| `Agent` | `tried`, not joined | the list of addresses is never emptied and a failed `Join` is not tried again before another address is found (`mdns.go:97-107`) |

### Not modelled

Filters and tags (pure functions, and a field behind a lock: `SetTags` changes it
before `UpdateTags` may fail), `rejoinSnapshot` (one `Join` after another), size
limits of actions, floating-point values, a client that blocks `stream.Send` of a query
for good, the encoding of messages, what memberlist
does, the generated stubs, the client, and the commands that print an answer.
The shutdown of the pipeline is not either: `receiveEvents` blocks for good if
`receiveInvokeScripts` returns first (`event_handlers.go:170,193`), but nothing waits
for it and the process ends.

## 4. Fairness

Six modules state fairness.

* `LamportClock`: weak fairness of each thread's steps; the Go scheduler runs
  every runnable goroutine. The compare-and-swap loop ends because the number of
  increments is bounded by `MaxTime`.
* `ActionCluster`: a state is exchanged and merged again and again between every
  two nodes, which memberlist's periodic push-pull does. Nothing is assumed of gossip.
* `QueryManager`: a goroutine within `Query` goes on, a timer fires, a reader sees
  its channel closed. Nothing is assumed of the network.
* `EventPipeline`: every goroutine goes on when it can, a flush that was begun included, and
  the coalescer's ticker ticks. Scripts may hang and clients may read nothing; `EventsArrive` says itself that it
  needs scripts to end.
* `Agent`: every goroutine goes on when it can, until the process ends. A signal, an
  RPC or an address need not come. The watcher need not poll.
* `Snapshot`: the goroutine goes on, its ticker ticks, and the pause of recovery
  passes. Nobody need shut the process down or start it again.

## 5. Proofs

The theorems hold for every value of the constants that the assumptions of the
modules allow: `BufSize` is a positive number, bounds are naturals, channels have
room for one event, the receiver is one of the goroutines, the sets of nodes of
`KeyQueries` and of queries are finite, and the like. There is no bound on
goroutines, peers, members, nodes, keys, scripts, streams, lines, times, slots or runs
of the process. Every safety property that a run checks is the statement of a theorem.
Some theorems have premises of their own, each of which is necessary (section 3):

* `DropsAreDuplicates`: no payload is nil;
* `LogIsSound` and `StopIsDurable`: no process ends with a torn line in its file, and
  of the operations on files only writes and dumps fail (`Sound`);
* `SnapshotIsDurableState`: besides, no process is killed between the removal of the old
  file and the renaming of the new one.

Hardly any property is inductive by itself. Each module of proofs says first what
must be added, as an invariant of named parts, each checked with TLC on the
runs before it was proved; then comes one lemma for each part, or for each action.

What loops of the code compute (`replay`, the dump of the ring of lines, the actions of
a merge, the actions in the buffer) is written as recursive functions on the
naturals within a `LET`, so that it can be reasoned about: that such a function is
defined, and facts about inputs of every length, follow by `SetInduction`, which takes
the least counterexample. It is stated for a set, since no prover at hand can be given
an induction theorem over an operator.

* `ClockAndCoalescerProofs`: of the clock, `ClockInv` says that a thread between its load and its swap
  has seen a time that the clock was at and that does not exceed its argument. From it
  follow `TimeNeverDecreases` and `ReturnedWitnessIsPast`, together `WitnessMovesOn`, and the refinement: a
  successful swap, or a load that finds the clock past the argument, is the atomic
  `Witness`; every other step is a stutter.
  Of the coalescer, `CoalescerInv` with the type of the history it compares with is
  inductive. `FeedRefinement` maps the coalescer to `MemberFeed`: what a flush sends of a member is
  its latest event, in whatever order the maps are walked, since what waits is the latest.
* `ActionNodeProofs` first proves what the buffer does: what an item added leaves of
  the others, in which slot it sits, and when it is found again. `AtMostOnce` is not
  inductive, since it says nothing of what the buffer remembers. `ActionInv` adds that (a) a
  group sits in the slot of its time and the clock is past it, (b) a goroutine past
  its `Witness` works on a time the clock is past, (c) every accepted action is in the
  buffer or a later time has taken its slot (`AcceptedRemembered`), (d) everything in
  the buffer was accepted, (e) no two goroutines are about to send one action. The
  step that matters is `HandleAdd`: if the action was accepted before, (c) gives
  either the action itself in its group, and it is a duplicate, or a later time in
  its slot, which by (a) the clock is past by at least the length of the ring, and it
  is too old. `DropsAreDuplicates` uses (d). For `OldActionsIgnored` the invariant
  (`IgnoreOK`) follows every goroutine in such a join, whatever the others do: until its
  `Merge` has looked at them the flags of its peer are set, from then on the minimum time is
  not below the peer's, and an action past the check of the minimum is not below it either
  (`Undisturbed`). A step of another goroutine keeps this or puts the join among
  those `disturbed` (`MovesOnly`); there is no premise on what runs at once.
* `QueryManagerProofs`: a handler is under the time of its query, whose caller has
  registered it and is not closed, and has counted all that the caller got
  (`HandlersOK`); before that the caller gets nothing (`UnregisteredOK`). No clock is
  past the number of queries sent plus one (`TimesOK`), by a cardinality argument,
  which is why a time that is read is a key of `handlers`. `EachResponseOnce` and
  `NeverSendsOnClosed` hold for calls that overlap too: a handler whose place was
  taken is found by nobody. `HandlersAreOwn` has no premise either: of two calls
  that share a time, neither was broadcast when the other read its time (`TimesApart`), so that
  they are `Rivals`; for a query without any, nobody else writes to its place in `handlers`
  or empties it, and what its timer finds there is its own (`OwnInv`).
* `EventPipelineProofs`: `PipelineInv` needs that no channel holds an event twice
  (`ApartOK`). `InOrder` is about what was given already; inductive is that what is
  given is ahead of what is being dispatched, and that of all on the way
  (`DispatchOK`, `GivenOK`, `LineOK`), in an order from which the pairs are left out that
  may overtake each other (`Before`); what a flush has still to send is of different
  types and of different members (`CoalescerOK`), so that any order of sending it will do. `NoGaps` needs `TurnOK`: a stream whose
  turn is over has had the event that is being dispatched, or had no room.
* `ClusterProofs`, members: all three properties speak of moments at which nothing is under
  way; the invariant speaks of the others. The latest announcement of a member agrees with
  memberlist, and of two leaves one has something else between them
  (`QueueOK`, `HandlingOK`); the last event sent is true, or more is to come
  (`LastOK`); a member on a list is down, or about to get off it (`ListedOK`); and a
  dead one is on a list, has got off it, or is about to get on it (`TrackedOK`).
* `ClusterProofs`, coordinates: the ring of differences holds the last samples, each in
  the slot of its turn (`WindowOK`): that the sample after a full ring falls on the slot
  of the oldest one is arithmetic of remainders (`RemainderStep`, `SlotWritten`). A
  difference that is not near comes of a sample that was far (`FarOK`), so that what
  a reset needs is within the window (`ResetsAreRecent`). A cached own coordinate is
  the coordinate at an earlier version, and one that is cached now is read anew,
  under the lock (`CacheOK`), hence `OwnCoordinateNeverGoesBack`.
* `ClusterProofs`, actions between nodes: of each node, what it has delivered in this
  run is in its buffer, or a later time has taken the slot (`NodeOK`); whatever is in
  a buffer, a queue or a state under way was triggered somewhere. `Grows` says what a
  delivery may change, `HandleAllOK` carries it by induction through the actions of a
  merge, and `ClusterRefinement` follows: a merge that delivers several actions is one step of `ActionBroadcast`, which lets a
  node deliver a set. What the snapshot of a node accounts for was
  delivered in this run, or is below the minimum time (`ClusterInv`), hence
  `SnapshotIsNotRepeated`.
* `SnapshotProofs`: `replay` of lines and one more is `handleLine` of it (`ReplayAppend`),
  and what `compact` dumps, in whatever order it walks the map, reads as the memory
  (`ReplayDump`). Inductive is that file and buffer together read as the memory
  while the writer is good, and during `compact` the new file alone does (`Logs`), with
  what the handle is at each step of it (`Handles`): after a write that failed the buffer is
  empty, and only then the file may end within a line. A file that ends within
  the buffer, as a failed write may leave it (`FailedWriteIs`), reads as one of its
  prefixes (`Prefixes`), each of which was the memory
  since the last flush: this is the step to `DurableState`.
* `KeyQueriesProofs`: the operator believes keys to be installed and in use. Every ring
  and every file that is not cut short has the keys believed installed, and its primary is
  one believed in use (`BeliefsOK`). No command under way may break that: a removal
  that waits is of a key given up, a use that waits is of a key in use
  (`PendingOK`). New beliefs come of a complete count, so that (`AnswersOK`, `LineOK`) each
  node has answered, and what it answered is so in its ring and its file; counting
  nodes without naming them is enough because a node answers once (a cardinality
  argument over the finite set of nodes). That a node works on the
  first command in its line (`WorkOK`) links a ring to what it will be answered for.
* `AgentProofs`: unless a call has set the state over a shutdown, whoever is about to close the
  channel is alone and the state is `shutdown` from then on (`ShutdownOnce`), in runs
  whose start failed as in others; the nil server is a conjunct of its own (`PanicOK`). `main` ends with the snapshotter stopped, or while
  `retryJoin` waits for it (`MainWaits`), and a stopped snapshotter has written the
  leave it took or tried to (`LeaveOK`): this holds although calls overlap.
  Of the log streams, the ring is described by its places (`Ring`): the line of each is
  known from `idx`, whether or not the ring has wrapped around. By induction over
  the places, `dump` is ascending and picks exactly the lines that the level lets through; a
  new line comes after all a stream has. For `EverySkipIsWarned`, the set of all gaps
  (`Gaps`) grows by as many elements as there are streams that skip the line.

Only model-checked: liveness, which is out of the prover's reach. These are
`WitnessReturns`, `EveryActionArrives`, `CallsReturn`, `TimesReachDisk`, `EventsArrive`
and `BegunIsDone`.

## 6. Plan

1. Further modules:
   * `Tombstones`: the left lists of several nodes that remind each other, where
     a tombstone may never die;
   * the query clock in `Merge`; the shutdown of the pipeline, if something ever
     comes to wait for it.
2. Further theorems:
   * what remains of the snapshot with torn ends and failing renames: nothing is
     invented, although lines are lost;
   * that the two views of an agent agree: `ActionNode` with its goroutines
     implements the node of `ActionCluster`, whose handlers are one step.
