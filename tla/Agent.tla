------------------------------- MODULE Agent -------------------------------
(***************************************************************************)
(* The life of the process that cmd/server.go runs: a signal, the RPC      *)
(* Leave and a retryJoin that gives up call Leave and Shutdown from        *)
(* goroutines of their own.  Both check the state of the node in one       *)
(* critical section and set it in another.  The snapshotter takes note of  *)
(* a leave and has to stop before the process ends.  Discovery by mDNS     *)
(* runs beside them until the process ends.                                *)
(*                                                                         *)
(* Source: Leave, Shutdown and the state in serf.go; Leave, Wait and       *)
(* receiveEvents in snapshot.go; CreateServer, retryJoin and Leave in      *)
(* rpc/server/server.go; rpc/server/mdns.go; cmd/server.go.                *)
(***************************************************************************)
EXTENDS Naturals

CONSTANTS LeaveCall,     \* calls of the RPC Leave
          RetryJoin,     \* values of: RetryJoins is configured
          RetryJoinMax,  \* the joins retryJoin tries
          Polls,         \* of the goroutine that watches retryJoin, 3 in cmd/server.go
          Addr           \* addresses that mDNS may find

ASSUME AgentAssumption == /\ RetryJoin \subseteq BOOLEAN
                          /\ {RetryJoinMax, Polls} \subseteq Nat \ {0}
                          /\ {"main", "retryJoin"} \cap LeaveCall = {}

VARIABLES state,        \* Serf.state
          shutdownCh,   \* whether it is closed
          closedTwice,  \* it was closed again, which panics
          pc,           \* where each goroutine is
          created,      \* how far CreateServer came: "serf", "mdns", "server"
          signalled,    \* a signal has arrived
          rejoinFailCh, \* whether it is closed
          attempts,     \* joins retryJoin has tried
          polls,        \* polls of the goroutine that watches retryJoin
          nilPolled,    \* one asked a server that is nil, which panics
          snapshotter,  \* where its receiveEvents is
          accepted,     \* history: it has received from leaveCh
          recorded,     \* the leave it took is in the file: "no", "yes", or
                        \* writing it has "failed"
          late,         \* history: who came to its check after a shutdown
          raced,        \* history, see Overwrites
          seen, join, waitCh, \* ClusterMDNS, and whether waitCh is set
          tried         \* history: the addresses it has tried to join

serfVars == <<state, shutdownCh, closedTwice, late, raced>>
mainVars == <<created, signalled, rejoinFailCh, attempts, polls, nilPolled>>
snapVars == <<snapshotter, accepted, recorded>>
mdnsVars == <<seen, join, waitCh, tried>>
vars == <<state, shutdownCh, closedTwice, late, raced, pc, created, signalled, rejoinFailCh, attempts,
          polls, nilPolled, snapshotter, accepted, recorded, seen, join, waitCh, tried>>

Proc == {"main", "retryJoin"} \cup LeaveCall
Goto(p, label) == pc' = [pc EXCEPT ![p] = label]

\* CreateServer has built the node, and retryJoin has been started.
Init == /\ state = "alive"
        /\ shutdownCh = FALSE /\ closedTwice = FALSE /\ late = {} /\ raced = FALSE
        /\ \E configured \in RetryJoin :
              /\ pc = [p \in Proc |-> CASE p = "main" -> "create"
                                        [] p = "retryJoin" -> IF configured THEN "join" ELSE "done"
                                        [] OTHER -> "idle"]
              /\ polls = IF configured THEN 0 ELSE Polls
        /\ created = "serf"
        /\ signalled = FALSE /\ rejoinFailCh = FALSE /\ attempts = 0 /\ nilPolled = FALSE
        /\ snapshotter = "loop" /\ accepted = FALSE /\ recorded = "no"
        /\ seen = {} /\ join = {} /\ waitCh = FALSE /\ tried = {}

\* A goroutine looks whether the node is shut down.
Checks(p) == /\ late' = IF state = "shutdown" THEN late \cup {p} ELSE late
             /\ UNCHANGED <<state, shutdownCh, closedTwice, raced>>

\* It sets the state over a shutdown, by somebody else and since its check.
Overwrites(p) == /\ raced' = (raced \/ (state = "shutdown" /\ p \notin late))
                 /\ UNCHANGED <<shutdownCh, closedTwice, late>>

-----------------------------------------------------------------------------
(* Leave. *)

\* Handlers that run are not waited for when the RPC server stops.
StartLeave(c) ==
    /\ pc[c] = "idle" /\ pc["main"] \in {"wait", "stop"}
    /\ Goto(c, "hasLeft")
    /\ UNCHANGED <<serfVars, mainVars, snapVars, mdnsVars>>

HasLeft(c) ==
    /\ pc[c] = "hasLeft"
    /\ Goto(c, IF state = "left" THEN "done" ELSE "leaveHasShutdown")
    /\ UNCHANGED <<serfVars, mainVars, snapVars, mdnsVars>>

\* Mutant: Leave does not look whether the node is shut down.
LeaveHasShutdown_skipped(c) ==
    /\ pc[c] = "leaveHasShutdown"
    /\ Goto(c, "setLeft") /\ Checks(c)
    /\ UNCHANGED <<mainVars, snapVars, mdnsVars>>

LeaveHasShutdown(c) ==
    /\ pc[c] = "leaveHasShutdown"
    /\ Goto(c, IF state = "shutdown" THEN "done" ELSE "setLeft") /\ Checks(c)
    /\ UNCHANGED <<mainVars, snapVars, mdnsVars>>

SetLeft(c) ==
    /\ pc[c] = "setLeft"
    /\ state' = "left" /\ Overwrites(c)
    /\ Goto(c, "snapshotLeave")
    /\ UNCHANGED <<mainVars, snapVars, mdnsVars>>

\* Mutant: the channel alone is waited for.
SnapshotLeave_noShutdown(c) ==
    /\ pc[c] = "snapshotLeave"
    /\ snapshotter = "loop"
    /\ snapshotter' = "leave" /\ accepted' = TRUE
    /\ Goto(c, "done")
    /\ UNCHANGED <<serfVars, mainVars, recorded, mdnsVars>>

\* The snapshotter receives from leaveCh, or shutdownCh is closed.  What is
\* left to Leave is memberlist's.
SnapshotLeave(c) ==
    /\ pc[c] = "snapshotLeave"
    /\ \/ /\ snapshotter = "loop"
          /\ snapshotter' = "leave" /\ accepted' = TRUE
       \/ /\ shutdownCh
          /\ UNCHANGED <<snapshotter, accepted>>
    /\ Goto(c, "done")
    /\ UNCHANGED <<serfVars, mainVars, recorded, mdnsVars>>

-----------------------------------------------------------------------------
(* Shutdown. *)

HasShutdown(p) ==
    /\ pc[p] = "hasShutdown"
    /\ Goto(p, IF state = "shutdown" THEN "done" ELSE "setShutdown") /\ Checks(p)
    /\ UNCHANGED <<mainVars, snapVars, mdnsVars>>

SetShutdown(p) ==
    /\ pc[p] = "setShutdown"
    /\ state' = "shutdown" /\ Overwrites(p)
    /\ Goto(p, "close")
    /\ UNCHANGED <<mainVars, snapVars, mdnsVars>>

\* Memberlist is shut down; closing the channel again panics.
Close(p) ==
    /\ pc[p] = "close"
    /\ closedTwice' = shutdownCh
    /\ shutdownCh' = TRUE
    /\ Goto(p, "waitSnapshot")
    /\ UNCHANGED <<state, late, raced, mainVars, snapVars, mdnsVars>>

\* Mutant: Shutdown does not wait.
WaitSnapshot_skipped(p) ==
    /\ pc[p] = "waitSnapshot"
    /\ Goto(p, "done")
    /\ UNCHANGED <<serfVars, mainVars, snapVars, mdnsVars>>

WaitSnapshot(p) ==
    /\ pc[p] = "waitSnapshot"
    /\ snapshotter = "stopped"
    /\ Goto(p, "done")
    /\ UNCHANGED <<serfVars, mainVars, snapVars, mdnsVars>>
-----------------------------------------------------------------------------
(* receiveEvents of the snapshotter, without the events. *)

\* The append or the flush may fail, which is logged and no more.
AppendLeave ==
    /\ snapshotter = "leave"
    /\ recorded' \in {"yes", IF recorded = "yes" THEN "yes" ELSE "failed"}
    /\ snapshotter' = "loop"
    /\ UNCHANGED <<serfVars, mainVars, pc, accepted, mdnsVars>>

Drain ==
    /\ snapshotter = "loop" /\ shutdownCh
    /\ snapshotter' = "drain"
    /\ UNCHANGED <<serfVars, mainVars, pc, accepted, recorded, mdnsVars>>

\* The time for the drain is over: the last flush, and stopCh is closed.
StopSnapshot ==
    /\ snapshotter = "drain"
    /\ snapshotter' = "stopped"
    /\ UNCHANGED <<serfVars, mainVars, pc, accepted, recorded, mdnsVars>>

-----------------------------------------------------------------------------
(* main and the goroutines it starts. *)

\* NewClusterMDNS comes first, if a cluster name is configured.
StartMDNS ==
    /\ pc["main"] = "create" /\ created = "serf"
    /\ created' = "mdns"
    /\ UNCHANGED <<serfVars, signalled, rejoinFailCh, attempts, polls, nilPolled, pc, snapVars, mdnsVars>>

\* Then the listener and the RPC server.
StartServer ==
    /\ pc["main"] = "create" /\ created = "mdns"
    /\ created' = "server"
    /\ Goto("main", "wait")
    /\ UNCHANGED <<serfVars, signalled, rejoinFailCh, attempts, polls, nilPolled, snapVars, mdnsVars>>

\* Either fails: main runs the cleanup it was given, which is Shutdown.
StartFails ==
    /\ pc["main"] = "create"
    /\ Goto("main", "hasShutdown")
    /\ UNCHANGED <<serfVars, mainVars, snapVars, mdnsVars>>

\* Before WaitForTerm asks for signals they end the process at once.
Signal ==
    /\ pc["main"] = "wait" /\ ~signalled
    /\ signalled' = TRUE
    /\ UNCHANGED <<serfVars, created, rejoinFailCh, attempts, polls, nilPolled, pc, snapVars, mdnsVars>>

WaitForTerm ==
    /\ pc["main"] = "wait" /\ (signalled \/ rejoinFailCh)
    /\ Goto("main", "stop")
    /\ UNCHANGED <<serfVars, mainVars, snapVars, mdnsVars>>

\* The cleanups in their order: the RPC server, the listener, Shutdown.
Cleanup ==
    /\ pc["main"] = "stop"
    /\ Goto("main", "hasShutdown")
    /\ UNCHANGED <<serfVars, mainVars, snapVars, mdnsVars>>

\* A join succeeds or fails; after the last one retryJoin shuts the node down.
RetryJoins ==
    /\ pc["retryJoin"] = "join"
    /\ attempts' = attempts + 1
    /\ \/ Goto("retryJoin", "done")
       \/ Goto("retryJoin", IF attempts' = RetryJoinMax THEN "hasShutdown" ELSE "join")
    /\ UNCHANGED <<serfVars, created, signalled, rejoinFailCh, polls, nilPolled, snapVars, mdnsVars>>

\* The watcher sleeps a fixed time, which the joins may exceed.  It is started
\* whether CreateServer has failed or not, and then there is no server to ask.
WatchRetryJoin ==
    /\ polls < Polls /\ pc["main"] # "create"
    /\ nilPolled' = (created # "server")
    /\ IF created = "server" /\ state = "shutdown"
         THEN rejoinFailCh' = TRUE /\ polls' = Polls
         ELSE polls' = polls + 1 /\ UNCHANGED rejoinFailCh
    /\ UNCHANGED <<serfVars, pc, created, signalled, attempts, snapVars, mdnsVars>>

-----------------------------------------------------------------------------
(* ClusterMDNS.run. *)

\* Mutant: the timer is set for the first address only, as if the list were
\* emptied after each Join.
Found_first(a) ==
    /\ created # "serf" /\ a \notin seen
    /\ seen' = seen \cup {a}
    /\ join' = join \cup {a}
    /\ waitCh' = (waitCh \/ join = {})
    /\ UNCHANGED <<serfVars, mainVars, pc, snapVars, tried>>

\* A poll has found an address that no poll has found before.
Found(a) ==
    /\ created # "serf" /\ a \notin seen
    /\ seen' = seen \cup {a}
    /\ join' = join \cup {a}
    /\ waitCh' = TRUE
    /\ UNCHANGED <<serfVars, mainVars, pc, snapVars, tried>>

\* All addresses found so far are joined, those joined before as well; an error
\* is logged.
JoinFound ==
    /\ waitCh
    /\ waitCh' = FALSE
    /\ tried' = tried \cup join
    /\ UNCHANGED <<serfVars, mainVars, pc, snapVars, seen, join>>

-----------------------------------------------------------------------------
Ended == pc["main"] = "done" \/ closedTwice \/ nilPolled

Leave(c) == HasLeft(c) \/ LeaveHasShutdown(c) \/ SetLeft(c) \/ SnapshotLeave(c)
Shutdown(p) == HasShutdown(p) \/ SetShutdown(p) \/ Close(p) \/ WaitSnapshot(p)
SnapshotStep == AppendLeave \/ Drain \/ StopSnapshot
MainStep == StartMDNS \/ StartServer \/ StartFails \/ WaitForTerm \/ Cleanup \/ Shutdown("main")
RetryStep == RetryJoins \/ Shutdown("retryJoin")

Next == /\ ~Ended
        /\ \/ MainStep \/ RetryStep \/ WatchRetryJoin \/ Signal
           \/ \E c \in LeaveCall : StartLeave(c) \/ Leave(c)
           \/ SnapshotStep
           \/ \E a \in Addr : Found(a)
           \/ JoinFound

(***************************************************************************)
(* Go runs every goroutine that is not blocked.  A signal, an RPC and an   *)
(* address need not come.                                                  *)
(***************************************************************************)
Fairness == /\ WF_vars(~Ended /\ MainStep) /\ WF_vars(~Ended /\ RetryStep)
            /\ \A c \in LeaveCall : WF_vars(~Ended /\ Leave(c))
            /\ WF_vars(~Ended /\ SnapshotStep)
            /\ WF_vars(~Ended /\ JoinFound)

Spec == Init /\ [][Next]_vars /\ Fairness

-----------------------------------------------------------------------------
Labels == {"create", "wait", "stop", "join", "idle", "done", "hasLeft", "leaveHasShutdown", "setLeft",
           "snapshotLeave", "hasShutdown", "setShutdown", "close", "waitSnapshot"}

TypeOK == /\ state \in {"alive", "left", "shutdown"}
          /\ pc \in [Proc -> Labels]
          /\ snapshotter \in {"loop", "leave", "drain", "stopped"}
          /\ created \in {"serf", "mdns", "server"}
          /\ attempts \in 0 .. RetryJoinMax /\ polls \in 0 .. Polls
          /\ tried \subseteq join /\ join = seen
          /\ late \subseteq Proc /\ recorded \in {"no", "yes", "failed"}

\* shutdownCh is closed once, in whatever order and however interleaved signals,
\* RPCs, retryJoin and a start that fails call Shutdown and Leave.  The one
\* exception is a goroutine that sets the state over a shutdown that came after
\* its own check (serf.go:278-301); a start that fails excuses none.  And a server
\* whose start succeeded is there when it is asked for its state
\* (cmd/server.go:46).
ClosedOnce == /\ TypeOK
              /\ closedTwice => raced
              /\ nilPolled => created # "server"

\* A leave the snapshotter was told of is in the file when the process ends in
\* order, so that the next run does not join the cluster left, or writing it was
\* tried and has failed (snapshot.go:173-178); main waits for the last flush,
\* unless retryJoin is shutting down already.
LeaveIsRecorded ==
    pc["main"] = "done" /\ pc["retryJoin"] \notin {"close", "waitSnapshot"} =>
       snapshotter = "stopped" /\ (accepted => recorded # "no")

\* Every Leave and every Shutdown that is called returns, or the process is
\* over: neither waits for a snapshotter that no longer takes leaves, nor for
\* one that was not told to stop (snapshot.go:473-482, serf.go:299-301).
CallsEnd ==
    \A p \in Proc :
       pc[p] \notin {"create", "wait", "join", "idle", "done"} ~> pc[p] = "done" \/ Ended

\* Every address mDNS finds is tried, also one found while others are waiting
\* to be joined or after they were (mdns.go:83-98).
FoundIsTried == \A a \in Addr : a \in seen ~> a \in tried \/ Ended

\* Nothing that was begun is left undone while the process runs (serf.go:278-301,
\* mdns.go:83-98).
BegunIsDone == CallsEnd /\ FoundIsTried
=============================================================================
