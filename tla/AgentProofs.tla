----------------------------- MODULE AgentProofs -----------------------------
(***************************************************************************)
(* Proofs about the parts of an agent around its cluster node.             *)
(*                                                                         *)
(* Agent, for any number of calls of Leave, of joins, polls and addresses: *)
(* unless somebody sets the state over a shutdown that came after its own  *)
(* check, shutdownCh is closed once; and a leave that the snapshotter was  *)
(* told of is written, or was tried to be, when the process ends in order. *)
(*                                                                         *)
(* LogStreams, for a ring and channels of any size: what a stream gets is  *)
(* in order and not doubled, and every line it skips is warned about.      *)
(***************************************************************************)
EXTENDS Agent, LogStreams, FiniteSetTheorems, WellFoundedInduction, TLAPS

Types == /\ TypeOK
         /\ {shutdownCh, closedTwice, nilPolled, raced, accepted, waitCh} \subseteq BOOLEAN

\* Who finds the node shut down goes no further.
LateEnds == \A p \in late : pc[p] = "done"

\* As long as nobody has set the state over a shutdown: who is past SetShutdown has
\* left the node shut down and it is so still, and nobody else is about to close
\* the channel.
ShutdownOnce ==
    ~raced =>
       /\ shutdownCh => state = "shutdown"
       /\ \A p \in Proc : pc[p] \in {"close", "waitSnapshot"} => state = "shutdown"
       /\ \A p \in Proc : pc[p] = "close" => ~shutdownCh
       /\ \A p, q \in Proc : pc[p] = "close" /\ pc[q] = "close" => p = q

PanicOK == (closedTwice => raced) /\ (nilPolled => created # "server")

\* main finds the node shut down only if retryJoin does that, or has: the
\* snapshotter is waited for, or has stopped.
MainWaits ==
    /\ state = "shutdown" /\ pc["main"] \notin {"close", "waitSnapshot", "done"} =>
          pc["retryJoin"] \in {"close", "waitSnapshot"} \/ snapshotter = "stopped"
    /\ pc["main"] = "done" =>
          pc["retryJoin"] \in {"close", "waitSnapshot"} \/ snapshotter = "stopped"

\* The snapshotter writes a leave it has taken, or fails to, before it does anything
\* else.
LeaveOK == accepted => recorded # "no" \/ snapshotter = "leave"

\* retryJoin tries no more joins than it may.
JoinsOK == pc["retryJoin"] = "join" => attempts < RetryJoinMax

IInv == Types /\ LateEnds /\ ShutdownOnce /\ PanicOK /\ MainWaits /\ LeaveOK /\ JoinsOK

-----------------------------------------------------------------------------
\* The processes are told apart.
LEMMA Processes == /\ "main" \in Proc /\ "retryJoin" \in Proc /\ LeaveCall \subseteq Proc
                   /\ \A c \in LeaveCall : c # "main" /\ c # "retryJoin"
  BY AgentAssumption DEF Proc

\* The node is alive and nobody has called anything (CreateServer).
LEMMA InitInv == Init => IInv
<1> SUFFICES ASSUME Init
             PROVE  IInv
  OBVIOUS
<1> USE AgentAssumption, Processes
<1>1. PICK configured \in RetryJoin :
         /\ pc = [p \in Proc |-> CASE p = "main" -> "create"
                                   [] p = "retryJoin" -> IF configured THEN "join" ELSE "done"
                                   [] OTHER -> "idle"]
         /\ polls = IF configured THEN 0 ELSE Polls
  BY DEF Init
<1>2. \A p \in Proc : pc[p] \in {"create", "join", "done", "idle"}
  BY <1>1
<1>3. pc["main"] = "create"
  BY <1>1
<1>4. pc \in [Proc -> Labels]
  BY <1>1, <1>2 DEF Labels
<1>5. attempts \in 0 .. RetryJoinMax /\ polls \in 0 .. Polls
  BY <1>1 DEF Init
<1>6. Types
  BY <1>4, <1>5 DEF Init, Types, TypeOK
<1>7. LateEnds /\ ShutdownOnce
  BY <1>2 DEF Init, LateEnds, ShutdownOnce
<1>8. PanicOK /\ MainWaits /\ LeaveOK /\ JoinsOK
  BY <1>3 DEF Init, PanicOK, MainWaits, LeaveOK, JoinsOK
<1>9. QED
  BY <1>6, <1>7, <1>8 DEF IInv

\* A step of one process that sets no state and closes no channel.
LEMMA QuietStep ==
  ASSUME IInv, NEW p \in Proc, pc' \in [Proc -> Labels],
         \A q \in Proc \ {p} : pc'[q] = pc[q],
         pc'[p] \in {"close", "waitSnapshot"} => pc[p] = pc'[p],
         UNCHANGED <<state, shutdownCh, raced>>
  PROVE  ShutdownOnce'
  BY DEF IInv, ShutdownOnce

\* Who is late stays where it is, and is late because it ends.
LEMMA LateStep ==
  ASSUME IInv, NEW p \in Proc, pc[p] # "done",
         \A q \in Proc \ {p} : pc'[q] = pc[q],
         late' = late \/ (late' = late \cup {p} /\ pc'[p] = "done")
  PROVE  LateEnds'
<1>1. late \subseteq Proc /\ p \notin late
  BY DEF IInv, Types, TypeOK, LateEnds
<1> QED
  BY <1>1 DEF IInv, LateEnds

-----------------------------------------------------------------------------
(* Leave. *)

\* A Leave sets the state only if it has found the node running, and nobody has
\* set it since (serf.go:227-263).
LEMMA LeaveStep ==
  ASSUME IInv, NEW c \in LeaveCall, StartLeave(c) \/ Leave(c)
  PROVE  IInv'
<1> USE AgentAssumption, Processes DEF Goto, serfVars, mainVars, snapVars, mdnsVars
<1>1. /\ Types /\ pc \in [Proc -> Labels] /\ c \in Proc
      /\ pc'["main"] = pc["main"] /\ pc'["retryJoin"] = pc["retryJoin"]
      /\ \A q \in Proc \ {c} : pc'[q] = pc[q]
      /\ pc[c] # "done" /\ late \subseteq Proc
  BY DEF IInv, Types, TypeOK, StartLeave, Leave, HasLeft, LeaveHasShutdown, SetLeft, SnapshotLeave
<1>2. CASE StartLeave(c) \/ HasLeft(c) \/ LeaveHasShutdown(c)
  <2>1. /\ pc' = [pc EXCEPT ![c] = pc'[c]]
        /\ pc'[c] \in {"hasLeft", "done", "leaveHasShutdown", "setLeft"}
        /\ late' = late \/ (late' = late \cup {c} /\ pc'[c] = "done")
        /\ UNCHANGED <<state, shutdownCh, closedTwice, raced, mainVars, snapVars, mdnsVars>>
    BY <1>1, <1>2 DEF StartLeave, HasLeft, LeaveHasShutdown, Checks
  <2>2. pc' \in [Proc -> Labels]
    BY <1>1, <2>1 DEF Labels
  <2>3. Types'
    BY <1>1, <2>1, <2>2 DEF Types, TypeOK
  <2>4. ShutdownOnce' /\ LateEnds'
    BY <1>1, <2>1, <2>2, QuietStep, LateStep
  <2>5. PanicOK' /\ MainWaits' /\ LeaveOK' /\ JoinsOK'
    BY <1>1, <2>1 DEF IInv, PanicOK, MainWaits, LeaveOK, JoinsOK
  <2>6. QED
    BY <2>3, <2>4, <2>5 DEF IInv
<1>3. CASE SetLeft(c)
  <2>1. /\ pc[c] = "setLeft" /\ pc'[c] = "snapshotLeave" /\ state' = "left"
        /\ raced' = (raced \/ (state = "shutdown" /\ c \notin late))
        /\ UNCHANGED <<shutdownCh, closedTwice, late, mainVars, snapVars, mdnsVars>>
    BY <1>1, <1>3 DEF SetLeft, Overwrites
  <2>2. pc' \in [Proc -> Labels]
    BY <1>1, <1>3 DEF Labels, SetLeft
  <2>3. Types'
    BY <1>1, <2>1, <2>2 DEF Types, TypeOK
  <2>4. ~raced' => ~raced /\ state # "shutdown"
    BY <1>1, <2>1 DEF IInv, LateEnds
  <2>5. ShutdownOnce' /\ LateEnds'
    BY <1>1, <2>1, <2>4, LateStep DEF IInv, ShutdownOnce
  <2>6. PanicOK' /\ MainWaits' /\ LeaveOK' /\ JoinsOK'
    BY <1>1, <2>1 DEF IInv, PanicOK, MainWaits, LeaveOK, JoinsOK
  <2>7. QED
    BY <2>3, <2>5, <2>6 DEF IInv
<1>4. CASE SnapshotLeave(c)
  <2>1. /\ pc'[c] = "done"
        /\ \/ snapshotter = "loop" /\ snapshotter' = "leave" /\ accepted' = TRUE
           \/ UNCHANGED <<snapshotter, accepted>>
        /\ UNCHANGED <<serfVars, mainVars, recorded, mdnsVars>>
    BY <1>1, <1>4 DEF SnapshotLeave
  <2>2. pc' \in [Proc -> Labels]
    BY <1>1, <1>4 DEF Labels, SnapshotLeave
  <2>3. Types'
    BY <1>1, <2>1, <2>2 DEF Types, TypeOK
  <2>4. ShutdownOnce' /\ LateEnds'
    BY <1>1, <2>1, <2>2, QuietStep, LateStep
  <2>5. PanicOK' /\ MainWaits' /\ LeaveOK' /\ JoinsOK'
    BY <1>1, <2>1 DEF IInv, PanicOK, MainWaits, LeaveOK, JoinsOK
  <2>6. QED
    BY <2>3, <2>4, <2>5 DEF IInv
<1>5. QED
  BY <1>2, <1>3, <1>4 DEF Leave

-----------------------------------------------------------------------------
(* Shutdown. *)

\* The first to set the state is the only one to close the channel, unless somebody
\* sets it over a shutdown (serf.go:278-301).
LEMMA ShutdownStep ==
  ASSUME IInv, ~Ended, NEW p \in {"main", "retryJoin"}, Shutdown(p)
  PROVE  IInv'
<1> USE AgentAssumption, Processes DEF Goto, serfVars, mainVars, snapVars, mdnsVars
<1>1. /\ Types /\ pc \in [Proc -> Labels] /\ p \in Proc /\ ~closedTwice /\ pc["main"] # "done"
      /\ \A q \in Proc \ {p} : pc'[q] = pc[q]
      /\ pc[p] # "done" /\ late \subseteq Proc
  BY DEF IInv, Types, TypeOK, Ended, Shutdown, HasShutdown, SetShutdown, Close, WaitSnapshot
<1>2. CASE HasShutdown(p)
  <2>1. /\ pc[p] = "hasShutdown" /\ pc'[p] = IF state = "shutdown" THEN "done" ELSE "setShutdown"
        /\ late' = late \/ (late' = late \cup {p} /\ pc'[p] = "done")
        /\ UNCHANGED <<state, shutdownCh, closedTwice, raced, mainVars, snapVars, mdnsVars>>
    BY <1>1, <1>2 DEF HasShutdown, Checks
  <2>2. pc' \in [Proc -> Labels]
    BY <1>1, <1>2 DEF Labels, HasShutdown
  <2>3. Types'
    BY <1>1, <2>1, <2>2 DEF Types, TypeOK
  <2>4. ShutdownOnce' /\ LateEnds'
    BY <1>1, <2>1, <2>2, QuietStep, LateStep
  <2>5. MainWaits'
    <3>1. CASE p = "main"
      BY <1>1, <2>1, <3>1 DEF IInv, MainWaits
    <3>2. CASE p = "retryJoin"
      BY <1>1, <2>1, <3>2 DEF IInv, MainWaits
    <3>3. QED
      BY <3>1, <3>2
  <2>6. PanicOK' /\ LeaveOK' /\ JoinsOK'
    BY <1>1, <2>1 DEF IInv, PanicOK, LeaveOK, JoinsOK
  <2>7. QED
    BY <2>3, <2>4, <2>5, <2>6 DEF IInv
<1>3. CASE SetShutdown(p)
  <2>1. /\ pc[p] = "setShutdown" /\ pc'[p] = "close" /\ state' = "shutdown"
        /\ raced' = (raced \/ (state = "shutdown" /\ p \notin late))
        /\ UNCHANGED <<shutdownCh, closedTwice, late, mainVars, snapVars, mdnsVars>>
    BY <1>1, <1>3 DEF SetShutdown, Overwrites
  <2>2. pc' \in [Proc -> Labels]
    BY <1>1, <1>3 DEF Labels, SetShutdown
  <2>3. raced' \in BOOLEAN
    BY <2>1
  <2>4. Types'
    BY <1>1, <2>1, <2>2, <2>3 DEF Types, TypeOK
  <2>5. ShutdownOnce'
    <3> SUFFICES ASSUME ~raced'
                 PROVE  ShutdownOnce'
      BY DEF ShutdownOnce
    <3>1. ~raced /\ state # "shutdown"
      BY <1>1, <2>1 DEF IInv, LateEnds
    <3>2. ~shutdownCh /\ \A q \in Proc : pc[q] # "close"
      BY <3>1 DEF IInv, ShutdownOnce
    <3>3. QED
      BY <1>1, <2>1, <3>2 DEF ShutdownOnce
  <2>6. MainWaits'
    <3>1. CASE p = "main"
      BY <1>1, <2>1, <3>1 DEF MainWaits
    <3>2. CASE p = "retryJoin"
      BY <1>1, <2>1, <3>2 DEF MainWaits
    <3>3. QED
      BY <3>1, <3>2
  <2>7. LateEnds' /\ PanicOK' /\ LeaveOK' /\ JoinsOK'
    BY <1>1, <2>1, LateStep DEF IInv, PanicOK, LeaveOK, JoinsOK
  <2>8. QED
    BY <2>4, <2>5, <2>6, <2>7 DEF IInv
<1>4. CASE Close(p)
  <2>1. /\ pc[p] = "close" /\ pc'[p] = "waitSnapshot"
        /\ closedTwice' = shutdownCh /\ shutdownCh' = TRUE
        /\ UNCHANGED <<state, late, raced, mainVars, snapVars, mdnsVars>>
    BY <1>1, <1>4 DEF Close
  <2>2. pc' \in [Proc -> Labels]
    BY <1>1, <1>4 DEF Labels, Close
  <2>3. Types'
    BY <1>1, <2>1, <2>2 DEF Types, TypeOK
  <2>4. ~raced => ~shutdownCh
    BY <1>1, <2>1 DEF IInv, ShutdownOnce
  <2>5. ShutdownOnce' /\ LateEnds'
    BY <1>1, <2>1, LateStep DEF IInv, ShutdownOnce
  <2>6. MainWaits'
    <3>1. CASE p = "main"
      BY <1>1, <2>1, <3>1 DEF IInv, MainWaits
    <3>2. CASE p = "retryJoin"
      BY <1>1, <2>1, <3>2 DEF IInv, MainWaits
    <3>3. QED
      BY <3>1, <3>2
  <2>7. PanicOK' /\ LeaveOK' /\ JoinsOK'
    BY <1>1, <2>1, <2>4 DEF IInv, PanicOK, LeaveOK, JoinsOK
  <2>8. QED
    BY <2>3, <2>5, <2>6, <2>7 DEF IInv
<1>5. CASE WaitSnapshot(p)
  <2>1. /\ pc[p] = "waitSnapshot" /\ pc'[p] = "done" /\ snapshotter = "stopped"
        /\ UNCHANGED <<serfVars, mainVars, snapVars, mdnsVars>>
    BY <1>1, <1>5 DEF WaitSnapshot
  <2>2. pc' \in [Proc -> Labels]
    BY <1>1, <1>5 DEF Labels, WaitSnapshot
  <2>3. Types'
    BY <1>1, <2>1, <2>2 DEF Types, TypeOK
  <2>4. ShutdownOnce' /\ LateEnds'
    BY <1>1, <2>1, <2>2, QuietStep, LateStep
  <2>5. MainWaits' /\ PanicOK' /\ LeaveOK' /\ JoinsOK'
    BY <1>1, <2>1 DEF IInv, MainWaits, PanicOK, LeaveOK, JoinsOK
  <2>6. QED
    BY <2>3, <2>4, <2>5 DEF IInv
<1>6. QED
  BY <1>2, <1>3, <1>4, <1>5 DEF Shutdown

-----------------------------------------------------------------------------
(* The other steps. *)

\* The snapshotter, the watcher of retryJoin, a signal and discovery.
LEMMA BesideStep ==
  ASSUME IInv, ~Ended,
         \/ SnapshotStep \/ Signal \/ WatchRetryJoin \/ JoinFound
         \/ \E a \in Addr : Found(a)
  PROVE  IInv'
<1> USE AgentAssumption DEF serfVars, mainVars, snapVars, mdnsVars
<1>1. Types /\ polls \in 0 .. Polls /\ Polls \in Nat
  BY DEF IInv, Types, TypeOK
<1>2. UNCHANGED <<state, shutdownCh, closedTwice, late, raced, pc, created, attempts>>
  BY DEF SnapshotStep, AppendLeave, Drain, StopSnapshot, Signal, WatchRetryJoin, JoinFound, Found
<1>3. ShutdownOnce' /\ LateEnds'
  BY <1>2 DEF IInv, ShutdownOnce, LateEnds
<1>4. CASE SnapshotStep
  <2>1. /\ snapshotter' \in {"loop", "leave", "drain", "stopped"}
        /\ recorded' \in {"no", "yes", "failed"} /\ (recorded # "no" => recorded' # "no")
        /\ snapshotter = "leave" => recorded' # "no"
        /\ snapshotter = "stopped" => snapshotter' = "stopped"
        /\ UNCHANGED <<nilPolled, polls, accepted, mdnsVars>>
    <3>1. recorded \in {"no", "yes", "failed"} /\ snapshotter \in {"loop", "leave", "drain", "stopped"}
      BY <1>1 DEF Types, TypeOK
    <3>2. CASE AppendLeave
      BY <3>1, <3>2 DEF AppendLeave
    <3>3. CASE Drain
      BY <3>1, <3>3 DEF Drain
    <3>4. CASE StopSnapshot
      BY <3>1, <3>4 DEF StopSnapshot
    <3>5. QED
      BY <1>4, <3>2, <3>3, <3>4 DEF SnapshotStep
  <2>2. Types'
    BY <1>1, <1>2, <2>1 DEF Types, TypeOK
  <2>3. MainWaits' /\ LeaveOK' /\ PanicOK' /\ JoinsOK'
    BY <1>2, <2>1 DEF IInv, MainWaits, LeaveOK, PanicOK, JoinsOK
  <2>4. QED
    BY <1>3, <2>2, <2>3 DEF IInv
<1>5. CASE WatchRetryJoin
  <2>1. /\ nilPolled' \in BOOLEAN
        /\ nilPolled' => created # "server"
        /\ UNCHANGED <<snapVars, mdnsVars>>
    BY <1>5 DEF WatchRetryJoin
  <2>2. polls' \in 0 .. Polls
    <3>1. polls < Polls /\ polls' \in {Polls, polls + 1}
      BY <1>5 DEF WatchRetryJoin
    <3>2. QED
      BY <1>1, <3>1
  <2>3. Types'
    BY <1>1, <1>2, <2>1, <2>2 DEF Types, TypeOK
  <2>4. MainWaits' /\ LeaveOK' /\ PanicOK' /\ JoinsOK'
    BY <1>2, <2>1 DEF IInv, MainWaits, LeaveOK, PanicOK, JoinsOK
  <2>5. QED
    BY <1>3, <2>3, <2>4 DEF IInv
<1>6. CASE Signal \/ JoinFound \/ \E a \in Addr : Found(a)
  <2>1. /\ polls' = polls /\ nilPolled' = nilPolled
        /\ UNCHANGED snapVars
        /\ tried' \subseteq join' /\ join' = seen' /\ waitCh' \in BOOLEAN
    BY <1>1, <1>6 DEF Types, TypeOK, Signal, JoinFound, Found
  <2>2. Types'
    BY <1>1, <1>2, <2>1 DEF Types, TypeOK
  <2>3. MainWaits' /\ LeaveOK' /\ PanicOK' /\ JoinsOK'
    BY <1>2, <2>1 DEF IInv, MainWaits, LeaveOK, PanicOK, JoinsOK
  <2>4. QED
    BY <1>3, <2>2, <2>3 DEF IInv
<1>7. QED
  BY <1>4, <1>5, <1>6

\* What main does before it shuts the node down, and the joins of retryJoin.
LEMMA MainAndRetryStep ==
  ASSUME IInv, ~Ended,
         \/ StartMDNS \/ StartServer \/ StartFails \/ WaitForTerm \/ Cleanup
         \/ RetryJoins
  PROVE  IInv'
<1> USE AgentAssumption, Processes DEF Goto, serfVars, mainVars, snapVars, mdnsVars
<1>1. /\ Types /\ pc \in [Proc -> Labels] /\ ~nilPolled /\ pc["main"] # "done" /\ late \subseteq Proc
      /\ attempts \in 0 .. RetryJoinMax /\ RetryJoinMax \in Nat
  BY DEF IInv, Types, TypeOK, Ended
<1>2. CASE StartMDNS \/ StartServer \/ StartFails \/ WaitForTerm \/ Cleanup
  <2>1. /\ created' \in {"serf", "mdns", "server"}
        /\ pc' = [pc EXCEPT !["main"] = pc'["main"]]
        /\ pc'["main"] \in {"create", "wait", "hasShutdown", "stop"}
        /\ pc["main"] \in {"create", "wait", "stop"}
        /\ UNCHANGED <<serfVars, attempts, polls, nilPolled, snapVars, mdnsVars>>
    BY <1>1, <1>2 DEF Types, TypeOK, StartMDNS, StartServer, StartFails, WaitForTerm, Cleanup
  <2>2. pc' \in [Proc -> Labels] /\ \A q \in Proc \ {"main"} : pc'[q] = pc[q]
    BY <1>1, <2>1 DEF Labels
  <2>3. Types'
    BY <1>1, <2>1, <2>2 DEF Types, TypeOK
  <2>4. ShutdownOnce' /\ LateEnds'
    BY <2>1, <2>2, Processes, QuietStep, LateStep
  <2>5. MainWaits' /\ PanicOK' /\ LeaveOK' /\ JoinsOK'
    BY <1>1, <2>1, <2>2 DEF IInv, MainWaits, PanicOK, LeaveOK, JoinsOK
  <2>6. QED
    BY <2>3, <2>4, <2>5 DEF IInv
<1>3. CASE RetryJoins
  <2>1. /\ pc' = [pc EXCEPT !["retryJoin"] = pc'["retryJoin"]]
        /\ pc["retryJoin"] = "join" /\ pc'["retryJoin"] \in {"done", "hasShutdown", "join"}
        /\ attempts' = attempts + 1
        /\ pc'["retryJoin"] = "join" => attempts' # RetryJoinMax
        /\ UNCHANGED <<serfVars, created, polls, nilPolled, snapVars, mdnsVars>>
    BY <1>1, <1>3 DEF RetryJoins
  <2>2. pc' \in [Proc -> Labels] /\ \A q \in Proc \ {"retryJoin"} : pc'[q] = pc[q]
    BY <1>1, <2>1 DEF Labels
  <2>3. attempts' \in 0 .. RetryJoinMax
    BY <1>1, <2>1 DEF IInv, JoinsOK
  <2>4. Types'
    BY <1>1, <2>1, <2>2, <2>3 DEF Types, TypeOK
  <2>5. ShutdownOnce' /\ LateEnds'
    BY <2>1, <2>2, Processes, QuietStep, LateStep
  <2>6. MainWaits' /\ PanicOK' /\ LeaveOK'
    BY <1>1, <2>1, <2>2 DEF IInv, MainWaits, PanicOK, LeaveOK
  <2>7. JoinsOK'
    BY <1>1, <2>1, <2>3 DEF JoinsOK
  <2>8. QED
    BY <2>4, <2>5, <2>6, <2>7 DEF IInv
<1>4. QED
  BY <1>2, <1>3

-----------------------------------------------------------------------------
(* The theorems. *)

\* The invariant is inductive.
THEOREM Invariant == Spec => []IInv
<1>1. IInv /\ [Next]_vars => IInv'
  <2> SUFFICES ASSUME IInv, [Next]_vars
               PROVE  IInv'
    OBVIOUS
  <2>1. CASE UNCHANGED vars
    BY <2>1 DEF vars, IInv, Types, TypeOK, LateEnds, ShutdownOnce, PanicOK, MainWaits, LeaveOK, JoinsOK
  <2>2. CASE Next
    <3>1. CASE \E c \in LeaveCall : StartLeave(c) \/ Leave(c)
      BY <3>1, LeaveStep
    <3>2. CASE Shutdown("main") \/ Shutdown("retryJoin")
      BY <2>2, <3>2, ShutdownStep DEF Next
    <3>3. CASE \/ SnapshotStep \/ Signal \/ WatchRetryJoin \/ JoinFound
               \/ \E a \in Addr : Found(a)
      BY <2>2, <3>3, BesideStep DEF Next
    <3>4. CASE \/ StartMDNS \/ StartServer \/ StartFails \/ WaitForTerm \/ Cleanup
               \/ RetryJoins
      BY <2>2, <3>4, MainAndRetryStep DEF Next
    <3>5. QED
      BY <2>2, <3>1, <3>2, <3>3, <3>4 DEF Next, MainStep, RetryStep
  <2>3. QED
    BY <2>1, <2>2
<1>2. QED
  BY InitInv, <1>1, PTL DEF Spec

\* For any number of calls, shutdownCh is closed once, whoever calls Leave and
\* Shutdown and in whatever order and interleaving, after a start that failed as
\* well: unless somebody sets the state over a shutdown that came after its own
\* check (serf.go:278-301).  And State is called on no server that is nil unless
\* the start failed (cmd/server.go:46).
THEOREM ShutdownChClosedOnce == Spec => []ClosedOnce
<1>1. IInv => ClosedOnce
  BY DEF IInv, Types, PanicOK, ClosedOnce
<1>2. QED
  BY Invariant, <1>1, PTL

\* A leave that the snapshotter was told of is in the file when main returns, or
\* writing it has failed, unless retryJoin is shutting down: even if calls overlap
\* (snapshot.go:173-178, serf.go:299-301).
THEOREM LeaveOutlivesProcess == Spec => []LeaveIsRecorded
<1>1. IInv => LeaveIsRecorded
  BY DEF IInv, MainWaits, LeaveOK, LeaveIsRecorded
<1>2. QED
  BY Invariant, <1>1, PTL

-----------------------------------------------------------------------------
(* Log streams: an induction. *)

\* Induction over the natural numbers, as the least number not in a set.
LEMMA SetInduction ==
  ASSUME NEW S, 0 \in S, \A n \in Nat : n \in S => n + 1 \in S
  PROVE  Nat \subseteq S
<1> DEFINE R == OpToRel(<, Nat)
           T == Nat \ S
<1>1. IsWellFoundedOn(R, Nat)
  BY NatLessThanWellFounded, Zenon
<1>2. \A x, y \in Nat : x < y => <<x, y>> \in R
  BY DEF OpToRel
<1> HIDE DEF R
<1>3. SUFFICES ASSUME T # {}
               PROVE  FALSE
  OBVIOUS
<1>4. T \subseteq Nat
  OBVIOUS
<1> HIDE DEF T
<1>5. PICK x \in T : \A y \in T : ~ (<<y, x>> \in R)
  BY <1>1, <1>3, <1>4, WFMin
<1>6. x \in Nat /\ x # 0
  BY <1>4 DEF T
<1>7. x - 1 \in Nat /\ x - 1 < x
  BY <1>6
<1>8. x - 1 \notin T
  BY <1>2, <1>5, <1>6, <1>7
<1> QED
  BY <1>6, <1>7, <1>8 DEF T

-----------------------------------------------------------------------------
(* Log streams: the ring. *)

\* Places of the ring, from idx on around it.
LEMMA AroundRing ==
  ASSUME NEW w \in Nat \ {0}, NEW k \in 0 .. 2 * w - 1
  PROVE  k % w = IF k < w THEN k ELSE k - w
<1> DEFINE q == k \div w
           r == k % w
<1>1. q \in Int /\ r \in 0 .. w - 1 /\ k = w * q + r
  OBVIOUS
<1> HIDE DEF q, r
<1>2. q >= 2 => w * q >= 2 * w
  BY <1>1
<1>3. q <= -1 => w * q <= -w
  BY <1>1
<1>4. q = 0 \/ q = 1
  BY <1>1, <1>2, <1>3
<1> QED
  BY <1>1, <1>4 DEF r

SlotAt(i) == IF idx + i - 1 < RingSize THEN idx + i - 1 ELSE idx + i - 1 - RingSize
LineAt(i) == IF Len(lines) - RingSize + i >= 1 THEN Len(lines) - RingSize + i ELSE 0

\* From the oldest slot to the newest the ring has the last lines, and before
\* it has been filled empty slots first.
Ring == \A i \in 1 .. RingSize : buf[SlotAt(i)] = LineAt(i)

LogTypes ==
    /\ lines \in Seq(Level) /\ Len(lines) <= MaxLines
    /\ buf \in [0 .. RingSize - 1 -> 0 .. MaxLines] /\ idx \in 0 .. RingSize - 1
    /\ streamerMap \subseteq MonitorCall /\ IsFiniteSet(streamerMap)
    /\ minLevel \in [MonitorCall -> Level]
    /\ logCh \in [MonitorCall -> Seq(Line)] /\ \A s \in MonitorCall : Len(logCh[s]) <= ChSize
    /\ taken \in [MonitorCall -> Seq(Line)]
    /\ expected \in [MonitorCall -> SUBSET Line]
    /\ warnings \in Nat /\ warned \in Nat

Ascending(q) == \A i, j \in DOMAIN q : i < j => q[i] < q[j]

Streams ==
    \A s \in MonitorCall :
       /\ Ascending(Streamed(s)) /\ SX!ToSet(Streamed(s)) \subseteq expected[s]
       /\ \A line \in expected[s] : Check(minLevel[s], lines[line])

\* The inductive invariant.
LogIInv == LogTypes /\ Ring /\ Streams /\ IsFiniteSet(Gaps) /\ SkipsAreWarned

\* A later line at the end of a sequence of lines.
LEMMA Appends ==
  ASSUME NEW S \in SUBSET Nat, NEW q \in Seq(S), NEW line \in S,
         Ascending(q), \A i \in DOMAIN q : q[i] < line
  PROVE  /\ Ascending(Append(q, line))
         /\ SX!ToSet(Append(q, line)) = SX!ToSet(q) \cup {line}
<1> DEFINE k == Len(q)
           r == Append(q, line)
<1>1. /\ k \in Nat /\ DOMAIN q = 1 .. k /\ DOMAIN r = 1 .. k + 1 /\ r[k + 1] = line
      /\ \A i \in 1 .. k : r[i] = q[i]
  OBVIOUS
<1> HIDE DEF k, r
<1>2. 1 .. k + 1 = (1 .. k) \cup {k + 1}
  BY <1>1
<1>3. Ascending(r)
  <2> SUFFICES ASSUME NEW i \in 1 .. k + 1, NEW j \in 1 .. k + 1, i < j
               PROVE  r[i] < r[j]
    BY <1>1 DEF Ascending
  <2>1. i \in 1 .. k
    BY <1>1
  <2>2. CASE j = k + 1
    BY <1>1, <2>1, <2>2
  <2>3. CASE j \in 1 .. k
    BY <1>1, <2>1, <2>3 DEF Ascending
  <2> QED
    BY <1>2, <2>2, <2>3
<1>4. SX!ToSet(r) = SX!ToSet(q) \cup {line}
  <2>1. {r[i] : i \in 1 .. k + 1} = {r[i] : i \in 1 .. k} \cup {line}
    BY <1>1, <1>2
  <2>2. {r[i] : i \in 1 .. k} = {q[i] : i \in 1 .. k}
    BY <1>1
  <2> QED
    BY <1>1, <2>1, <2>2 DEF SX!ToSet
<1> QED
  BY <1>3, <1>4 DEF r

\* dump goes through the ring slot by slot.
LEMMA DumpIs ==
  ASSUME NEW min, LogTypes
  PROVE  \E f : /\ f[0] = <<>>
                /\ \A i \in 1 .. RingSize :
                      f[i] = IF buf[SlotAt(i)] # 0 /\ Check(min, lines[buf[SlotAt(i)]])
                               THEN Append(f[i - 1], buf[SlotAt(i)]) ELSE f[i - 1]
                /\ dump(min) = f[RingSize]
<1> DEFINE Of(i) == buf[(idx + i - 1) % RingSize]
           More(i, q) == IF Of(i) # 0 /\ Check(min, lines[Of(i)]) THEN Append(q, Of(i)) ELSE q
           Def(n, f) == f = [i \in 0 .. n |-> IF i = 0 THEN <<>> ELSE More(i, f[i - 1])]
           S == {n \in Nat : \E f : Def(n, f)}
<1>0. RingSize \in Nat \ {0}
  BY LogStreamsAssumption
<1>1. 0 \in S
  <2> DEFINE f == [i \in 0 .. 0 |-> <<>>]
  <2> HIDE DEF More
  <2>1. Def(0, f)
    OBVIOUS
  <2> QED
    BY <2>1
<1> HIDE DEF More
<1>2. ASSUME NEW n \in Nat, n \in S
      PROVE  n + 1 \in S
  <2>1. PICK f : Def(n, f)
    BY <1>2
  <2> DEFINE g == [i \in 0 .. n + 1 |-> IF i = n + 1 THEN More(n + 1, f[n]) ELSE f[i]]
  <2>2. \A i \in 0 .. n : g[i] = f[i]
    OBVIOUS
  <2>3. f[0] = <<>> /\ \A i \in 1 .. n : f[i] = More(i, f[i - 1])
    BY <2>1
  <2>4. ASSUME NEW i \in 0 .. n + 1
        PROVE  g[i] = IF i = 0 THEN <<>> ELSE More(i, g[i - 1])
    <3>1. CASE i = n + 1
      BY <2>2, <3>1
    <3>2. CASE i # n + 1
      <4>1. i \in 0 .. n /\ (i # 0 => i \in 1 .. n /\ i - 1 \in 0 .. n)
        BY <3>2
      <4> HIDE DEF g
      <4> QED
        BY <2>2, <2>3, <4>1
    <3> QED
      BY <3>1, <3>2
  <2>5. Def(n + 1, g)
    <3>1. g = [i \in 0 .. n + 1 |-> g[i]]
      OBVIOUS
    <3> HIDE DEF g
    <3> QED
      BY <2>4, <3>1
  <2> HIDE DEF g
  <2>6. n + 1 \in Nat
    OBVIOUS
  <2> QED
    BY <2>5, <2>6
<1>3. RingSize \in S
  <2> HIDE DEF S
  <2> QED
    BY <1>0, <1>1, <1>2, SetInduction
<1> DEFINE h == CHOOSE f : Def(RingSize, f)
<1>4. Def(RingSize, h)
  BY <1>3
<1>5. dump(min) = h[RingSize]
  BY DEF dump, More
<1>6. \A i \in 1 .. RingSize : (idx + i - 1) % RingSize = SlotAt(i)
  <2> SUFFICES ASSUME NEW i \in 1 .. RingSize
               PROVE  (idx + i - 1) % RingSize = SlotAt(i)
    OBVIOUS
  <2> DEFINE k == idx + i - 1
  <2>1. k \in 0 .. 2 * RingSize - 1
    BY <1>0 DEF LogTypes
  <2>2. SlotAt(i) = IF k < RingSize THEN k ELSE k - RingSize
    BY <1>0 DEF SlotAt, LogTypes
  <2> HIDE DEF k
  <2>3. k % RingSize = IF k < RingSize THEN k ELSE k - RingSize
    BY <1>0, <2>1, AroundRing
  <2> QED
    BY <2>2, <2>3 DEF k
<1> HIDE DEF h
<1>7. h[0] = <<>> /\ \A i \in 1 .. RingSize : h[i] = More(i, h[i - 1])
  BY <1>0, <1>4
<1> QED
  BY <1>5, <1>6, <1>7 DEF More

\* What dump sends to a new stream.
LEMMA DumpedLines ==
  ASSUME LogTypes, Ring, NEW min
  PROVE  /\ dump(min) \in Seq(Line) /\ Ascending(dump(min)) /\ Len(dump(min)) <= RingSize
         /\ \A line \in SX!ToSet(dump(min)) : Check(min, lines[line])
<1>0. RingSize \in Nat \ {0} /\ Len(lines) \in Nat
  BY LogStreamsAssumption DEF LogTypes
<1>1. PICK f : /\ f[0] = <<>>
               /\ \A i \in 1 .. RingSize :
                     f[i] = IF buf[SlotAt(i)] # 0 /\ Check(min, lines[buf[SlotAt(i)]])
                              THEN Append(f[i - 1], buf[SlotAt(i)]) ELSE f[i - 1]
               /\ dump(min) = f[RingSize]
  BY DumpIs
<1>2. \A i \in 1 .. RingSize :
         f[i] = IF LineAt(i) # 0 /\ Check(min, lines[LineAt(i)])
                  THEN Append(f[i - 1], LineAt(i)) ELSE f[i - 1]
  BY <1>1 DEF Ring
<1> DEFINE Good(q, i) == /\ q \in Seq(Line) /\ Ascending(q) /\ Len(q) <= i
                         /\ \A j \in DOMAIN q : q[j] <= Len(lines) - RingSize + i
                         /\ \A line \in SX!ToSet(q) : Check(min, lines[line])
           Q == {n \in Nat : n <= RingSize => Good(f[n], n)}
<1>3. 0 \in Q
  <2>1. Good(<<>>, 0)
    BY DEF Ascending, SX!ToSet
  <2> HIDE DEF Good
  <2> QED
    BY <1>1, <2>1
<1>4. ASSUME NEW n \in Nat, n \in Q
      PROVE  n + 1 \in Q
  <2> SUFFICES ASSUME n + 1 <= RingSize
               PROVE  Good(f[n + 1], n + 1)
    OBVIOUS
  <2> DEFINE q == f[n]
             p == LineAt(n + 1)
  <2>1. Good(q, n) /\ n + 1 \in 1 .. RingSize /\ (n + 1) - 1 = n
    BY <1>0, <1>4
  <2>2. f[n + 1] = IF p # 0 /\ Check(min, lines[p]) THEN Append(q, p) ELSE q
    BY <1>2, <2>1
  <2>3. p = (IF Len(lines) - RingSize + n + 1 >= 1 THEN Len(lines) - RingSize + n + 1 ELSE 0)
    BY <1>0 DEF LineAt
  <2> HIDE DEF q, p
  <2>4. CASE ~ (p # 0 /\ Check(min, lines[p]))
    <3>1. f[n + 1] = q
      BY <2>2, <2>4
    <3>2. \A j \in DOMAIN q : q[j] \in Int /\ q[j] <= Len(lines) - RingSize + (n + 1)
      <4>1. \A j \in DOMAIN q : q[j] \in Int
        BY <2>1 DEF Line
      <4> QED
        BY <1>0, <2>1, <4>1
    <3>3. Len(q) <= n + 1
      BY <2>1
    <3> QED
      BY <2>1, <3>1, <3>2, <3>3
  <2>5. CASE p # 0 /\ Check(min, lines[p])
    <3>1. p \in Line /\ p = Len(lines) - RingSize + (n + 1)
      BY <1>0, <2>3, <2>5 DEF Line
    <3>2. Line \in SUBSET Nat /\ \A i \in DOMAIN q : q[i] < p
      BY <1>0, <2>1, <3>1 DEF Line
    <3>3. Ascending(Append(q, p)) /\ SX!ToSet(Append(q, p)) = SX!ToSet(q) \cup {p}
      BY <2>1, <3>1, <3>2, Appends
    <3>4. /\ Append(q, p) \in Seq(Line) /\ Len(Append(q, p)) <= n + 1
          /\ \A j \in DOMAIN Append(q, p) : Append(q, p)[j] <= p
      <4>1. Append(q, p) \in Seq(Line) /\ Len(Append(q, p)) <= n + 1
        BY <2>1, <3>1
      <4>2. ASSUME NEW j \in DOMAIN Append(q, p)
            PROVE  Append(q, p)[j] <= p
        <5>1. p \in Nat
          BY <3>1, <3>2
        <5>2. j \in DOMAIN q \/ j = Len(q) + 1
          BY <2>1, <3>1
        <5>3. CASE j \in DOMAIN q
          <6>1. Append(q, p)[j] = q[j] /\ q[j] \in Line
            BY <2>1, <3>1, <5>3
          <6> QED
            BY <3>2, <5>1, <5>3, <6>1 DEF Line
        <5>4. CASE j = Len(q) + 1
          BY <2>1, <3>1, <5>1, <5>4
        <5> QED
          BY <5>2, <5>3, <5>4
      <4> QED
        BY <4>1, <4>2
    <3>5. \A line \in SX!ToSet(Append(q, p)) : Check(min, lines[line])
      BY <2>1, <2>5, <3>3
    <3>6. f[n + 1] = Append(q, p)
      BY <2>2, <2>5
    <3> QED
      BY <3>1, <3>3, <3>4, <3>5, <3>6
  <2> QED
    BY <2>4, <2>5
<1>5. RingSize \in Q
  <2> HIDE DEF Q
  <2> QED
    BY <1>0, <1>3, <1>4, SetInduction
<1> QED
  BY <1>1, <1>5

\* The whole ring, since every line has a level.
LEMMA RingIsDumped ==
  ASSUME LogTypes, Ring
  PROVE  RingIsTail
<1> DEFINE k == Len(lines)
           w == IF k < RingSize THEN k ELSE RingSize
           Size(i) == IF i <= RingSize - w THEN 0 ELSE i - (RingSize - w)
           Part(i) == [j \in 1 .. Size(i) |-> k - w + j]
<1>0. RingSize \in Nat \ {0} /\ k \in Nat /\ w \in 0 .. RingSize /\ w <= k
  BY LogStreamsAssumption DEF LogTypes
<1>1. PICK f : /\ f[0] = <<>>
               /\ \A i \in 1 .. RingSize :
                     f[i] = IF buf[SlotAt(i)] # 0 /\ Check(0, lines[buf[SlotAt(i)]])
                              THEN Append(f[i - 1], buf[SlotAt(i)]) ELSE f[i - 1]
               /\ dump(0) = f[RingSize]
  BY DumpIs
<1>2. \A line \in 1 .. k : Check(0, lines[line])
  <2>1. \A line \in 1 .. k : lines[line] \in Level
    BY DEF LogTypes
  <2>2. Level \subseteq Nat
    BY LogStreamsAssumption
  <2> SUFFICES ASSUME NEW line \in 1 .. k
               PROVE  Check(0, lines[line])
    OBVIOUS
  <2>3. lines[line] \in Nat
    BY <2>1, <2>2
  <2> HIDE DEF k
  <2> QED
    BY <2>3 DEF Check
<1>3. ASSUME NEW i \in 1 .. RingSize
      PROVE  f[i] = IF i <= RingSize - w THEN f[i - 1] ELSE Append(f[i - 1], k - RingSize + i)
  <2>1. f[i] = IF LineAt(i) # 0 /\ Check(0, lines[LineAt(i)])
                  THEN Append(f[i - 1], LineAt(i)) ELSE f[i - 1]
    BY <1>1 DEF Ring
  <2>2. /\ i <= RingSize - w => LineAt(i) = 0
        /\ ~ (i <= RingSize - w) => LineAt(i) = k - RingSize + i /\ LineAt(i) \in 1 .. k
    BY <1>0 DEF LineAt
  <2> QED
    BY <1>2, <2>1, <2>2
<1> HIDE DEF k, w
<1> DEFINE Q == {n \in Nat : n <= RingSize => f[n] = Part(n)}
<1>4. 0 \in Q
  <2>1. Size(0) = 0
    BY <1>0
  <2>2. Part(0) = <<>>
    BY <2>1
  <2> QED
    BY <1>1, <2>2
<1>5. ASSUME NEW n \in Nat, n \in Q
      PROVE  n + 1 \in Q
  <2> SUFFICES ASSUME n + 1 <= RingSize
               PROVE  f[n + 1] = Part(n + 1)
    OBVIOUS
  <2>1. n + 1 \in 1 .. RingSize /\ (n + 1) - 1 = n /\ f[n] = Part(n)
    BY <1>0, <1>5
  <2>2. CASE n + 1 <= RingSize - w
    <3>1. Size(n + 1) = 0 /\ Size(n) = 0
      BY <1>0, <2>2
    <3>2. f[n + 1] = f[n]
      BY <1>3, <2>1, <2>2
    <3> HIDE DEF Size
    <3>3. Part(n + 1) = Part(n)
      BY <3>1
    <3> QED
      BY <2>1, <3>2, <3>3
  <2>3. CASE ~ (n + 1 <= RingSize - w)
    <3>1. Size(n) \in Nat /\ Size(n + 1) = Size(n) + 1 /\ k - RingSize + (n + 1) = k - w + Size(n + 1)
      BY <1>0, <2>3
    <3>2. f[n + 1] = Append(f[n], k - w + Size(n + 1))
      BY <1>3, <2>1, <2>3, <3>1
    <3> HIDE DEF Size
    <3>3. Append([j \in 1 .. Size(n) |-> k - w + j], k - w + Size(n + 1)) =
             [j \in 1 .. Size(n + 1) |-> k - w + j]
      BY <1>0, <3>1
    <3> QED
      BY <2>1, <3>2, <3>3
  <2> QED
    BY <2>2, <2>3
<1>6. RingSize \in Q
  <2> HIDE DEF Q
  <2> QED
    BY <1>0, <1>4, <1>5, SetInduction
<1>7. Size(RingSize) = w
  BY <1>0
<1>8. f[RingSize] = [j \in 1 .. w |-> k - w + j]
  BY <1>0, <1>6, <1>7
<1> QED
  BY <1>1, <1>8 DEF RingIsTail, k, w

-----------------------------------------------------------------------------
(* Log streams: the steps. *)

\* Every line of a stream is one that came to Write.
LEMMA StreamedType ==
  ASSUME LogTypes, NEW s \in MonitorCall
  PROVE  /\ logCh[s] \in Seq(Line) /\ taken[s] \in Seq(Line) /\ Streamed(s) \in Seq(Line)
         /\ expected[s] \subseteq Line
BY DEF LogTypes, Streamed

\* The ring takes a line in the place of the oldest.
LEMMA RingTurns ==
  ASSUME LogTypes, Ring, NEW level, lines' = Append(lines, level), write(Len(lines) + 1)
  PROVE  /\ Ring' /\ idx' \in 0 .. RingSize - 1
         /\ \A i \in 0 .. RingSize - 1 : buf'[i] \in {buf[i], Len(lines) + 1}
<1>1. /\ RingSize \in Nat \ {0} /\ Len(lines) \in Nat /\ idx \in 0 .. RingSize - 1
      /\ Len(lines') = Len(lines) + 1 /\ buf \in [0 .. RingSize - 1 -> 0 .. MaxLines]
  BY LogStreamsAssumption DEF LogTypes
<1> DEFINE n == Len(lines)
<1>2. idx' = IF idx + 1 < RingSize THEN idx + 1 ELSE 0
  <2> DEFINE k == idx + 1
  <2>1. k \in 0 .. 2 * RingSize - 1
    BY <1>1
  <2>2. idx' = k % RingSize
    BY DEF write
  <2> HIDE DEF k
  <2>3. k % RingSize = IF k < RingSize THEN k ELSE k - RingSize
    BY <1>1, <2>1, AroundRing
  <2> QED
    BY <1>1, <2>2, <2>3 DEF k
<1>3. buf' = [buf EXCEPT ![idx] = n + 1]
  BY DEF write
<1> HIDE DEF n
<1>4. ASSUME NEW i \in 1 .. RingSize
      PROVE  buf'[SlotAt(i)'] = LineAt(i)'
  <2>1. LineAt(i)' = IF n + 1 - RingSize + i >= 1 THEN n + 1 - RingSize + i ELSE 0
    BY <1>1 DEF LineAt, n
  <2>2. SlotAt(i)' = IF idx' + i - 1 < RingSize THEN idx' + i - 1 ELSE idx' + i - 1 - RingSize
    BY DEF SlotAt
  <2>3. CASE i = RingSize
    <3>1. SlotAt(i)' = idx
      BY <1>1, <1>2, <2>2, <2>3
    <3> QED
      BY <1>1, <1>3, <2>1, <2>3, <3>1 DEF n
  <2>4. CASE i # RingSize
    <3>1. i + 1 \in 1 .. RingSize
      BY <1>1, <2>4
    <3>2. /\ SlotAt(i + 1) = IF idx + i < RingSize THEN idx + i ELSE idx + i - RingSize
          /\ LineAt(i + 1) = IF n - RingSize + i + 1 >= 1 THEN n - RingSize + i + 1 ELSE 0
      BY <1>1 DEF SlotAt, LineAt, n
    <3>3. SlotAt(i)' = SlotAt(i + 1) /\ SlotAt(i + 1) # idx /\ SlotAt(i + 1) \in 0 .. RingSize - 1
      <4>1. CASE idx + 1 < RingSize
        BY <1>1, <1>2, <2>2, <2>4, <3>1, <3>2, <4>1
      <4>2. CASE ~ (idx + 1 < RingSize)
        <5>1. idx' = 0 /\ idx = RingSize - 1
          BY <1>1, <1>2, <4>2
        <5>2. SlotAt(i)' = i - 1
          BY <1>1, <2>2, <5>1
        <5>3. SlotAt(i + 1) = i - 1
          BY <1>1, <3>2, <5>1
        <5> QED
          BY <1>1, <2>4, <5>1, <5>2, <5>3
      <4> QED
        BY <4>1, <4>2
    <3>4. buf[SlotAt(i + 1)] = LineAt(i + 1)
      BY <3>1 DEF Ring
    <3>5. LineAt(i)' = LineAt(i + 1)
      BY <1>1, <2>1, <3>2 DEF n
    <3> QED
      BY <1>1, <1>3, <3>3, <3>4, <3>5
  <2> QED
    BY <2>3, <2>4
<1>5. RingSize' = RingSize
  OBVIOUS
<1>6. Ring'
  BY <1>4 DEF Ring
<1> QED
  BY <1>1, <1>2, <1>3, <1>6 DEF n

\* A sequence over a set is one over a larger set.
LEMMA WiderSequence ==
  ASSUME NEW S, NEW T, S \subseteq T, NEW q \in Seq(S)
  PROVE  q \in Seq(T)
OBVIOUS

\* An element is appended to two sequences as to the second of them.
LEMMA AppendAfter ==
  ASSUME NEW S, NEW p \in Seq(S), NEW q \in Seq(S), NEW x \in S
  PROVE  p \o Append(q, x) = Append(p \o q, x)
OBVIOUS

\* What a line does to one stream.
LEMMA LineStreamed ==
  ASSUME LogTypes, Streams, NEW level \in Level, Write(level), NEW s \in MonitorCall
  PROVE  /\ Streamed(s)' = IF s \in Receivers(level) /\ ~Full(s)
                             THEN Append(Streamed(s), Len(lines) + 1) ELSE Streamed(s)
         /\ expected'[s] = IF s \in Receivers(level)
                             THEN expected[s] \cup {Len(lines) + 1} ELSE expected[s]
         /\ logCh'[s] = IF s \in Receivers(level) /\ ~Full(s)
                             THEN Append(logCh[s], Len(lines) + 1) ELSE logCh[s]
<1>1. logCh[s] \in Seq(Line) /\ taken[s] \in Seq(Line) /\ taken' = taken
  BY StreamedType DEF Write
<1>2. logCh'[s] = IF s \in Receivers(level) /\ ~Full(s)
                    THEN Append(logCh[s], Len(lines) + 1) ELSE logCh[s]
  BY DEF Write
<1>3. taken[s] \o Append(logCh[s], Len(lines) + 1) = Append(taken[s] \o logCh[s], Len(lines) + 1)
  <2> DEFINE n == Len(lines) + 1
             p == taken[s]
             q == logCh[s]
  <2>1. Line \in SUBSET Nat /\ n \in Nat
    BY DEF LogTypes, Line
  <2>2. p \in Seq(Line) /\ q \in Seq(Line)
    BY <1>1
  <2> HIDE DEF n, p, q
  <2>3. p \in Seq(Nat) /\ q \in Seq(Nat)
    BY <2>1, <2>2, WiderSequence
  <2>4. p \o Append(q, n) = Append(p \o q, n)
    BY <2>1, <2>3, AppendAfter
  <2> QED
    BY <2>4 DEF n, p, q
<1>4. expected'[s] = IF s \in Receivers(level)
                       THEN expected[s] \cup {Len(lines) + 1} ELSE expected[s]
  BY DEF Write
<1> QED
  BY <1>1, <1>2, <1>3, <1>4 DEF Streamed

\* The line comes after those a stream has.
LEMMA LineIsLast ==
  ASSUME LogTypes, NEW s \in MonitorCall, Ascending(Streamed(s))
  PROVE  /\ Ascending(Append(Streamed(s), Len(lines) + 1))
         /\ SX!ToSet(Append(Streamed(s), Len(lines) + 1)) = SX!ToSet(Streamed(s)) \cup {Len(lines) + 1}
         /\ Len(lines) + 1 \notin Line /\ SX!ToSet(Streamed(s)) \subseteq Line
<1> DEFINE n == Len(lines)
           q == Streamed(s)
<1>1. n \in Nat /\ Line = 1 .. n
  BY DEF LogTypes, Line
<1>2. q \in Seq(Line)
  BY StreamedType
<1> HIDE DEF n, q
<1>3. q \in Seq(1 .. n + 1) /\ n + 1 \in 1 .. n + 1 /\ 1 .. n + 1 \in SUBSET Nat
      /\ \A i \in DOMAIN q : q[i] \in 1 .. n
  <2>1. 1 .. n \subseteq 1 .. n + 1
    BY <1>1
  <2> QED
    BY <1>1, <1>2, <2>1
<1>4. \A i \in DOMAIN q : q[i] < n + 1
  BY <1>1, <1>3
<1>5. Ascending(Append(q, n + 1)) /\ SX!ToSet(Append(q, n + 1)) = SX!ToSet(q) \cup {n + 1}
  BY <1>3, <1>4, Appends DEF q
<1>6. SX!ToSet(q) \subseteq Line /\ n + 1 \notin Line
  BY <1>1, <1>3 DEF SX!ToSet
<1> QED
  BY <1>5, <1>6 DEF n, q

\* Streams get a line, or skip it.
LEMMA WriteKeepsStreams ==
  ASSUME LogTypes, Streams, NEW level \in Level, Write(level)
  PROVE  Streams'
<1> SUFFICES ASSUME NEW s \in MonitorCall
             PROVE  /\ Ascending(Streamed(s)') /\ SX!ToSet(Streamed(s)') \subseteq expected'[s]
                    /\ \A line \in expected'[s] : Check(minLevel'[s], lines'[line])
  BY DEF Streams, Ascending, SX!ToSet
<1> DEFINE n == Len(lines)
<1>1. /\ Ascending(Streamed(s)) /\ SX!ToSet(Streamed(s)) \subseteq expected[s]
      /\ \A line \in expected[s] : Check(minLevel[s], lines[line])
  BY DEF Streams
<1>2. /\ Streamed(s)' = IF s \in Receivers(level) /\ ~Full(s)
                          THEN Append(Streamed(s), n + 1) ELSE Streamed(s)
      /\ expected'[s] = IF s \in Receivers(level) THEN expected[s] \cup {n + 1} ELSE expected[s]
  BY LineStreamed
<1>3. /\ Ascending(Append(Streamed(s), n + 1))
      /\ SX!ToSet(Append(Streamed(s), n + 1)) = SX!ToSet(Streamed(s)) \cup {n + 1}
  BY <1>1, LineIsLast
<1>4. Ascending(Streamed(s)') /\ SX!ToSet(Streamed(s)') \subseteq expected'[s]
  <2> HIDE DEF n
  <2>1. CASE s \in Receivers(level) /\ ~Full(s)
    BY <1>1, <1>2, <1>3, <2>1
  <2>2. CASE ~ (s \in Receivers(level) /\ ~Full(s))
    BY <1>1, <1>2, <2>2
  <2> QED
    BY <2>1, <2>2
<1>5. minLevel' = minLevel /\ lines' = Append(lines, level) /\ lines \in Seq(Level) /\ n \in Nat
  BY DEF Write, LogTypes
<1>6. lines'[n + 1] = level /\ \A line \in 1 .. n : lines'[line] = lines[line]
  BY <1>5
<1>7. expected[s] \subseteq 1 .. n
  BY StreamedType DEF Line
<1>8. s \in Receivers(level) => Check(minLevel[s], level)
  BY DEF Receivers
<1> HIDE DEF n
<1>9. ASSUME NEW line \in expected'[s]
      PROVE  Check(minLevel'[s], lines'[line])
  <2>1. CASE line \in expected[s]
    BY <1>1, <1>5, <1>6, <1>7, <2>1
  <2>2. CASE line \notin expected[s]
    BY <1>2, <1>5, <1>6, <1>8, <1>9, <2>2
  <2> QED
    BY <2>1, <2>2
<1> QED
  BY <1>4, <1>9

\* Disjoint sets: their sizes add up.
LEMMA DisjointUnion ==
  ASSUME NEW S, NEW T, IsFiniteSet(S), IsFiniteSet(T), S \cap T = {}
  PROVE  IsFiniteSet(S \cup T) /\ Cardinality(S \cup T) = Cardinality(S) + Cardinality(T)
<1>1. Cardinality(S \cap T) = 0
  BY FS_EmptySet
<1>2. Cardinality(S) \in Nat /\ Cardinality(T) \in Nat
  BY FS_CardinalityType
<1>3. IsFiniteSet(S \cup T)
      /\ Cardinality(S \cup T) = Cardinality(S) + Cardinality(T) - Cardinality(S \cap T)
  BY FS_Union
<1> QED
  BY <1>1, <1>2, <1>3

\* Every stream that skips the line is one gap more.
LEMMA WriteCountsGaps ==
  ASSUME LogTypes, Streams, NEW level \in Level, Write(level), IsFiniteSet(Gaps)
  PROVE  /\ IsFiniteSet(Gaps') /\ Cardinality(Skipped(level)) \in Nat
         /\ Cardinality(Gaps') = Cardinality(Gaps) + Cardinality(Skipped(level))
<1> DEFINE n == Len(lines)
           K == Skipped(level)
           New == {<<s, n + 1>> : s \in K}
<1>1. n \in Nat /\ Line = 1 .. n /\ Line' = 1 .. n + 1
  BY DEF LogTypes, Line, Write
<1>2. K \subseteq MonitorCall /\ IsFiniteSet(K)
  <2>1. K \subseteq streamerMap /\ streamerMap \subseteq MonitorCall /\ IsFiniteSet(streamerMap)
    BY DEF Skipped, Receivers, LogTypes
  <2> HIDE DEF K
  <2> QED
    BY <2>1, FS_Subset
<1>3. IsFiniteSet(New) /\ Cardinality(New) = Cardinality(K) /\ Cardinality(K) \in Nat
  <2> DEFINE f == [s \in K |-> <<s, n + 1>>]
  <2> HIDE DEF K
  <2>1. f \in Surjection(K, New) /\ f \in Injection(K, New)
    BY DEF Surjection, Injection, IsInjective
  <2> HIDE DEF f, New
  <2> QED
    BY <1>2, <2>1, FS_Surjection, FS_CardinalityType
<1>4. ASSUME NEW s \in MonitorCall, NEW line \in 1 .. n + 1
      PROVE  line \in expected'[s] \ SX!ToSet(Streamed(s)') <=>
                \/ line \in 1 .. n /\ line \in expected[s] \ SX!ToSet(Streamed(s))
                \/ line = n + 1 /\ s \in K
  <2>1. /\ Streamed(s)' = IF s \in Receivers(level) /\ ~Full(s)
                             THEN Append(Streamed(s), n + 1) ELSE Streamed(s)
        /\ expected'[s] = IF s \in Receivers(level) THEN expected[s] \cup {n + 1} ELSE expected[s]
    BY LineStreamed
  <2>2. /\ SX!ToSet(Append(Streamed(s), n + 1)) = SX!ToSet(Streamed(s)) \cup {n + 1}
        /\ n + 1 \notin Line /\ SX!ToSet(Streamed(s)) \subseteq Line
    BY LineIsLast DEF Streams
  <2>3. expected[s] \subseteq Line
    BY StreamedType
  <2>4. s \in K <=> s \in Receivers(level) /\ Full(s)
    BY DEF Skipped
  <2>5. line \in 1 .. n \/ line = n + 1
    BY <1>1
  <2> HIDE DEF n, K
  <2> QED
    BY <1>1, <2>1, <2>2, <2>3, <2>4, <2>5
<1>5. Gaps' = Gaps \cup New
  <2>1. Gaps' = {gap \in MonitorCall \X (1 .. n + 1) :
                    gap[2] \in expected'[gap[1]] \ SX!ToSet(Streamed(gap[1])')}
    BY <1>1 DEF Gaps, SX!ToSet
  <2>2. Gaps = {gap \in MonitorCall \X (1 .. n) :
                    gap[2] \in expected[gap[1]] \ SX!ToSet(Streamed(gap[1]))}
    BY <1>1 DEF Gaps
  <2> HIDE DEF n, K
  <2>3. ASSUME NEW s \in MonitorCall, NEW line \in 1 .. n + 1
        PROVE  <<s, line>> \in Gaps' <=> <<s, line>> \in Gaps \cup New
    <3>1. <<s, line>> \in Gaps' <=> line \in expected'[s] \ SX!ToSet(Streamed(s)')
      BY <2>1
    <3>2. <<s, line>> \in Gaps <=> line \in 1 .. n /\ line \in expected[s] \ SX!ToSet(Streamed(s))
      BY <2>2
    <3>3. <<s, line>> \in New <=> line = n + 1 /\ s \in K
      OBVIOUS
    <3> HIDE DEF New
    <3> QED
      BY <1>4, <3>1, <3>2, <3>3
  <2>4. /\ Gaps' \subseteq MonitorCall \X (1 .. n + 1)
        /\ Gaps \cup New \subseteq MonitorCall \X (1 .. n + 1)
    <3>1. 1 .. n \subseteq 1 .. n + 1 /\ n + 1 \in 1 .. n + 1
      BY <1>1
    <3>2. Gaps \subseteq MonitorCall \X (1 .. n + 1)
      BY <2>2, <3>1
    <3>3. New \subseteq MonitorCall \X (1 .. n + 1)
      BY <1>2, <3>1
    <3> HIDE DEF New
    <3> QED
      BY <2>1, <3>2, <3>3
  <2> HIDE DEF New
  <2>5. \A gap \in MonitorCall \X (1 .. n + 1) : gap = <<gap[1], gap[2]>>
    OBVIOUS
  <2> QED
    BY <2>3, <2>4, <2>5
<1>6. Gaps \cap New = {}
  <2>1. \A gap \in Gaps : gap[2] \in 1 .. n
    BY <1>1 DEF Gaps
  <2>2. n + 1 \notin 1 .. n
    BY <1>1
  <2> HIDE DEF n, K
  <2> QED
    BY <2>1, <2>2
<1> HIDE DEF New, K, n
<1>7. IsFiniteSet(Gaps \cup New)
      /\ Cardinality(Gaps \cup New) = Cardinality(Gaps) + Cardinality(New)
  BY <1>3, <1>6, DisjointUnion
<1>8. Cardinality(Gaps') = Cardinality(Gaps \cup New)
  BY <1>5, Zenon
<1>9. Cardinality(Gaps') = Cardinality(Gaps) + Cardinality(K)
  BY <1>3, <1>7, <1>8
<1>10. IsFiniteSet(Gaps')
  BY <1>5, <1>7
<1> QED
  BY <1>3, <1>9, <1>10 DEF K

\* The types after a line.
LEMMA WriteTypes ==
  ASSUME LogTypes, Ring, Streams, NEW level \in Level, Write(level), warnings' \in Nat, warned' \in Nat
  PROVE  LogTypes'
<1> DEFINE n == Len(lines)
<1>1. /\ n \in Nat /\ n < MaxLines /\ MaxLines \in Nat /\ lines \in Seq(Level)
      /\ lines' = Append(lines, level)
      /\ write(n + 1) /\ UNCHANGED <<streamerMap, minLevel, taken>>
  BY LogStreamsAssumption DEF Write, LogTypes
<1>2. lines' \in Seq(Level) /\ Len(lines') = n + 1 /\ Len(lines') <= MaxLines
  BY <1>1
<1>3. Line = 1 .. n /\ Line' = 1 .. n + 1 /\ Line \subseteq Line' /\ n + 1 \in Line'
  BY <1>1, <1>2 DEF Line
<1>4. idx' \in 0 .. RingSize - 1
  BY <1>1, RingTurns
<1>5. buf' \in [0 .. RingSize - 1 -> 0 .. MaxLines]
  <2>1. buf \in [0 .. RingSize - 1 -> 0 .. MaxLines] /\ buf' = [buf EXCEPT ![idx] = n + 1]
    BY DEF LogTypes, Write, write
  <2>2. n + 1 \in 0 .. MaxLines
    BY <1>1
  <2> HIDE DEF n
  <2> QED
    BY <2>1, <2>2
<1>6. ASSUME NEW s \in MonitorCall
      PROVE  /\ logCh'[s] \in Seq(Line') /\ Len(logCh'[s]) <= ChSize
             /\ expected'[s] \in SUBSET Line' /\ taken'[s] \in Seq(Line')
  <2>1. /\ logCh[s] \in Seq(Line) /\ taken[s] \in Seq(Line) /\ expected[s] \subseteq Line
        /\ Len(logCh[s]) <= ChSize /\ ChSize \in Nat
    BY StreamedType, LogStreamsAssumption DEF LogTypes
  <2>2. logCh[s] \in Seq(Line') /\ taken[s] \in Seq(Line')
    BY <1>3, <2>1
  <2>3. /\ expected'[s] = IF s \in Receivers(level) THEN expected[s] \cup {n + 1} ELSE expected[s]
        /\ logCh'[s] = IF s \in Receivers(level) /\ ~Full(s)
                             THEN Append(logCh[s], n + 1) ELSE logCh[s]
    BY LineStreamed
  <2> HIDE DEF n
  <2>4. expected'[s] \in SUBSET Line'
    BY <1>3, <2>1, <2>3
  <2>5. CASE s \in Receivers(level) /\ ~Full(s)
    <3>1. Len(logCh[s]) # ChSize
      BY <2>5 DEF Full
    <3>2. Append(logCh[s], n + 1) \in Seq(Line') /\ Len(Append(logCh[s], n + 1)) = Len(logCh[s]) + 1
      BY <1>3, <2>2
    <3>3. Len(logCh[s]) \in Nat
      BY <2>1
    <3> QED
      BY <1>1, <2>1, <2>2, <2>3, <2>4, <2>5, <3>1, <3>2, <3>3
  <2>6. CASE ~ (s \in Receivers(level) /\ ~Full(s))
    BY <1>1, <2>1, <2>2, <2>3, <2>4, <2>6
  <2> QED
    BY <2>5, <2>6
<1>7. /\ DOMAIN logCh' = MonitorCall /\ DOMAIN expected' = MonitorCall /\ DOMAIN taken' = MonitorCall
      /\ logCh' = [s \in MonitorCall |-> logCh'[s]] /\ expected' = [s \in MonitorCall |-> expected'[s]]
      /\ taken' = [s \in MonitorCall |-> taken'[s]]
  BY <1>1 DEF Write, LogTypes
<1>8. /\ logCh' \in [MonitorCall -> Seq(Line')] /\ taken' \in [MonitorCall -> Seq(Line')]
      /\ expected' \in [MonitorCall -> SUBSET Line']
  BY <1>6, <1>7
<1> HIDE DEF n
<1> QED
  BY <1>1, <1>2, <1>4, <1>5, <1>6, <1>8 DEF LogTypes

\* A goroutine logs, and those that skip the line owe a warning each.
LEMMA PrintfStep ==
  ASSUME LogIInv, NEW level \in Level, Printf(level)
  PROVE  LogIInv'
<1>1. /\ LogTypes /\ Ring /\ Streams /\ IsFiniteSet(Gaps) /\ Write(level)
      /\ warnings' = warnings + Cardinality(Skipped(level)) /\ warned' = warned
      /\ Cardinality(Gaps) = warnings + warned /\ warnings \in Nat /\ warned \in Nat
  BY DEF LogIInv, Printf, SkipsAreWarned, LogTypes
<1>2. /\ IsFiniteSet(Gaps') /\ Cardinality(Skipped(level)) \in Nat
      /\ Cardinality(Gaps') = Cardinality(Gaps) + Cardinality(Skipped(level))
  BY <1>1, WriteCountsGaps
<1>3. warnings' \in Nat /\ warned' \in Nat /\ SkipsAreWarned'
  BY <1>1, <1>2 DEF SkipsAreWarned
<1>4. LogTypes'
  BY <1>1, <1>3, WriteTypes
<1>5. Ring'
  BY <1>1, RingTurns DEF Write
<1>6. Streams'
  BY <1>1, WriteKeepsStreams
<1> QED
  BY <1>2, <1>3, <1>4, <1>5, <1>6 DEF LogIInv

\* A warning is logged, which may be skipped in turn, or stops at the syslog.
LEMMA WarnStep ==
  ASSUME LogIInv, Warn
  PROVE  LogIInv'
<1>1. /\ LogTypes /\ Ring /\ Streams /\ IsFiniteSet(Gaps)
      /\ warnings > 0 /\ warned' = warned + 1
      /\ Cardinality(Gaps) = warnings + warned /\ warnings \in Nat /\ warned \in Nat /\ WARN \in Level
  BY LogStreamsAssumption DEF LogIInv, Warn, SkipsAreWarned, LogTypes
<1>2. CASE Write(WARN) /\ warnings' = warnings - 1 + Cardinality(Skipped(WARN))
  <2>1. /\ IsFiniteSet(Gaps') /\ Cardinality(Skipped(WARN)) \in Nat
        /\ Cardinality(Gaps') = Cardinality(Gaps) + Cardinality(Skipped(WARN))
    BY <1>1, <1>2, WriteCountsGaps
  <2>2. warnings' \in Nat /\ warned' \in Nat /\ SkipsAreWarned'
    BY <1>1, <1>2, <2>1 DEF SkipsAreWarned
  <2>3. LogTypes'
    BY <1>1, <1>2, <2>2, WriteTypes
  <2>4. Ring'
    BY <1>1, <1>2, RingTurns DEF Write
  <2>5. Streams'
    BY <1>1, <1>2, WriteKeepsStreams
  <2> QED
    BY <2>1, <2>2, <2>3, <2>4, <2>5 DEF LogIInv
<1>3. CASE /\ warnings' = warnings - 1
           /\ UNCHANGED <<syslog, lines, buf, idx, streamerMap, minLevel, logCh, taken, expected>>
  <2>1. Gaps' = Gaps /\ Line' = Line /\ \A s : Streamed(s)' = Streamed(s)
    BY <1>3 DEF Gaps, Line, Streamed, SX!ToSet
  <2>2. warnings' \in Nat /\ warned' \in Nat /\ SkipsAreWarned'
    BY <1>1, <1>3, <2>1 DEF SkipsAreWarned
  <2>3. LogTypes'
    BY <1>1, <1>3, <2>1, <2>2 DEF LogTypes
  <2>4. Ring' /\ Streams'
    BY <1>1, <1>3, <2>1 DEF Ring, SlotAt, LineAt, Streams, Ascending, SX!ToSet
  <2> QED
    BY <1>1, <2>1, <2>2, <2>3, <2>4 DEF LogIInv
<1> QED
  BY <1>2, <1>3 DEF Warn

\* A stream's own steps leave ring and lines alone.
LEMMA StreamStep ==
  ASSUME LogIInv, NEW s \in MonitorCall, UNCHANGED ringVars, UNCHANGED minLevel,
         streamerMap' \subseteq MonitorCall, IsFiniteSet(streamerMap'),
         logCh' \in [MonitorCall -> Seq(Line)], taken' \in [MonitorCall -> Seq(Line)],
         expected' \in [MonitorCall -> SUBSET Line],
         \A q \in MonitorCall : q # s =>
            logCh'[q] = logCh[q] /\ taken'[q] = taken[q] /\ expected'[q] = expected[q],
         Len(logCh'[s]) <= ChSize,
         Ascending(Streamed(s)'), SX!ToSet(Streamed(s)') \subseteq expected'[s],
         \A line \in expected'[s] : Check(minLevel[s], lines[line]),
         expected'[s] \ SX!ToSet(Streamed(s)') = expected[s] \ SX!ToSet(Streamed(s))
  PROVE  LogIInv'
<1>1. UNCHANGED <<syslog, lines, buf, idx, warnings, warned>> /\ Line' = Line
  BY DEF ringVars, Line
<1>2. LogTypes /\ Ring /\ Streams /\ IsFiniteSet(Gaps) /\ SkipsAreWarned
  BY DEF LogIInv
<1>3. LogTypes'
  BY <1>1, <1>2 DEF LogTypes
<1>4. Ring'
  BY <1>1, <1>2 DEF Ring, SlotAt, LineAt
<1>5. \A q \in MonitorCall : q # s => Streamed(q)' = Streamed(q)
  BY DEF Streamed
<1>6. Streams'
  <2> SUFFICES ASSUME NEW q \in MonitorCall
               PROVE  /\ Ascending(Streamed(q)') /\ SX!ToSet(Streamed(q)') \subseteq expected'[q]
                      /\ \A line \in expected'[q] : Check(minLevel'[q], lines'[line])
    BY DEF Streams, Ascending, SX!ToSet
  <2>1. CASE q = s
    BY <1>1, <2>1
  <2>2. CASE q # s
    BY <1>1, <1>2, <1>5, <2>2 DEF Streams
  <2> QED
    BY <2>1, <2>2
<1>7. Gaps' = Gaps
  <2>1. Gaps' = {gap \in MonitorCall \X Line :
                    gap[2] \in expected'[gap[1]] \ SX!ToSet(Streamed(gap[1])')}
    BY <1>1 DEF Gaps, SX!ToSet
  <2>2. \A q \in MonitorCall :
           expected'[q] \ SX!ToSet(Streamed(q)') = expected[q] \ SX!ToSet(Streamed(q))
    BY <1>5
  <2> QED
    BY <2>1, <2>2 DEF Gaps
<1>8. IsFiniteSet(Gaps') /\ SkipsAreWarned'
  BY <1>1, <1>2, <1>7 DEF SkipsAreWarned
<1> QED
  BY <1>3, <1>4, <1>6, <1>8 DEF LogIInv

\* A new stream gets what the ring holds for it.
LEMMA RegisterStep ==
  ASSUME LogIInv, NEW s \in MonitorCall, register(s)
  PROVE  LogIInv'
<1> DEFINE old == dump(minLevel[s])
<1>1. LogTypes /\ Ring /\ Streams
  BY DEF LogIInv
<1>2. /\ old \in Seq(Line) /\ Ascending(old) /\ Len(old) <= RingSize
      /\ \A line \in SX!ToSet(old) : Check(minLevel[s], lines[line])
  BY <1>1, DumpedLines
<1>3. /\ expected[s] = {} /\ logCh' = [logCh EXCEPT ![s] = old]
      /\ expected' = [expected EXCEPT ![s] = SX!ToSet(old)]
      /\ streamerMap' = streamerMap \cup {s}
      /\ UNCHANGED ringVars /\ UNCHANGED minLevel /\ taken' = taken
  BY DEF register
<1> HIDE DEF old
<1>4. /\ logCh \in [MonitorCall -> Seq(Line)] /\ taken \in [MonitorCall -> Seq(Line)]
      /\ expected \in [MonitorCall -> SUBSET Line]
      /\ streamerMap \subseteq MonitorCall /\ IsFiniteSet(streamerMap)
      /\ RingSize <= ChSize /\ RingSize \in Nat /\ ChSize \in Nat
  BY <1>1, LogStreamsAssumption DEF LogTypes
<1>5. taken[s] = <<>> /\ SX!ToSet(Streamed(s)) = {}
  <2>1. SX!ToSet(Streamed(s)) = {}
    BY <1>1, <1>3 DEF Streams
  <2>2. Streamed(s) \in Seq(Line)
    BY <1>1, StreamedType
  <2>3. DOMAIN Streamed(s) = {}
    BY <2>1 DEF SX!ToSet
  <2>4. Len(Streamed(s)) = 0
    BY <2>2, <2>3
  <2>5. Len(taken[s]) = 0
    BY <1>4, <2>4 DEF Streamed
  <2> QED
    BY <1>4, <2>1, <2>5
<1>6. logCh'[s] = old /\ Streamed(s)' = old
  <2>1. <<>> \o old = old
    BY <1>2
  <2> QED
    BY <1>3, <1>4, <1>5, <2>1 DEF Streamed
<1>7. SX!ToSet(old) \subseteq Line
  BY <1>2 DEF SX!ToSet
<1>8. expected'[s] = SX!ToSet(old)
  BY <1>3, <1>4
<1>9. IsFiniteSet(streamerMap')
  BY <1>3, <1>4, FS_AddElement
<1>10. Len(old) <= ChSize
  BY <1>2, <1>4
<1>11. logCh' \in [MonitorCall -> Seq(Line)] /\ expected' \in [MonitorCall -> SUBSET Line]
  BY <1>2, <1>3, <1>4, <1>7
<1>12. \A q \in MonitorCall : q # s =>
            logCh'[q] = logCh[q] /\ taken'[q] = taken[q] /\ expected'[q] = expected[q]
  BY <1>3, <1>4
<1>13. expected'[s] \ SX!ToSet(Streamed(s)') = expected[s] \ SX!ToSet(Streamed(s))
  BY <1>3, <1>5, <1>6, <1>8
<1> QED
  BY <1>2, <1>3, <1>4, <1>6, <1>8, <1>9, <1>10, <1>11, <1>12, <1>13, StreamStep

\* A line moves from the channel to the client.
LEMMA SendStep ==
  ASSUME LogIInv, NEW s \in MonitorCall, Send(s)
  PROVE  LogIInv'
<1>1. LogTypes /\ Ring /\ Streams
  BY DEF LogIInv
<1>2. /\ logCh[s] # <<>> /\ taken' = [taken EXCEPT ![s] = Append(taken[s], Head(logCh[s]))]
      /\ logCh' = [logCh EXCEPT ![s] = Tail(logCh[s])]
      /\ UNCHANGED ringVars /\ UNCHANGED <<streamerMap, minLevel, expected>>
  BY DEF Send
<1>4. /\ logCh \in [MonitorCall -> Seq(Line)] /\ taken \in [MonitorCall -> Seq(Line)]
      /\ expected \in [MonitorCall -> SUBSET Line]
      /\ streamerMap \subseteq MonitorCall /\ IsFiniteSet(streamerMap)
      /\ ChSize \in Nat /\ Len(logCh[s]) <= ChSize
  BY <1>1, LogStreamsAssumption DEF LogTypes
<1> DEFINE ch == logCh[s]
           tk == taken[s]
<1>5. ch \in Seq(Line) /\ tk \in Seq(Line) /\ ch # <<>> /\ Len(ch) <= ChSize
  BY <1>2, <1>4
<1>6. logCh'[s] = Tail(ch) /\ taken'[s] = Append(tk, Head(ch)) /\ expected'[s] = expected[s]
  BY <1>2, <1>4
<1>7. Streamed(s) = tk \o ch /\ Streamed(s)' = Append(tk, Head(ch)) \o Tail(ch)
  BY <1>6 DEF Streamed
<1> HIDE DEF ch, tk
<1>8. /\ Append(tk, Head(ch)) \in Seq(Line) /\ Tail(ch) \in Seq(Line) /\ Len(Tail(ch)) <= ChSize
  BY <1>4, <1>5
<1>9. Append(tk, Head(ch)) \o Tail(ch) = tk \o ch
  BY <1>5
<1>10. logCh' \in [MonitorCall -> Seq(Line)] /\ taken' \in [MonitorCall -> Seq(Line)]
  BY <1>2, <1>4, <1>8 DEF ch, tk
<1>11. \A q \in MonitorCall : q # s =>
            logCh'[q] = logCh[q] /\ taken'[q] = taken[q] /\ expected'[q] = expected[q]
  BY <1>2, <1>4
<1>12. /\ Ascending(Streamed(s)) /\ SX!ToSet(Streamed(s)) \subseteq expected[s]
       /\ \A line \in expected[s] : Check(minLevel[s], lines[line])
  BY <1>1 DEF Streams
<1>13. Streamed(s)' = Streamed(s)
  BY <1>7, <1>9
<1>14. /\ UNCHANGED ringVars /\ UNCHANGED minLevel
       /\ streamerMap' \subseteq MonitorCall /\ IsFiniteSet(streamerMap')
       /\ expected' \in [MonitorCall -> SUBSET Line] /\ Len(logCh'[s]) <= ChSize
  BY <1>2, <1>4, <1>6, <1>8
<1>15. Ascending(Streamed(s)')
  BY <1>12, <1>13
<1>16. /\ SX!ToSet(Streamed(s)') \subseteq expected'[s]
       /\ \A line \in expected'[s] : Check(minLevel[s], lines[line])
       /\ expected'[s] \ SX!ToSet(Streamed(s)') = expected[s] \ SX!ToSet(Streamed(s))
  BY <1>6, <1>12, <1>13
<1> QED
  BY <1>10, <1>11, <1>14, <1>15, <1>16, StreamStep

\* A stream that ends keeps what it has.
LEMMA DeregisterStep ==
  ASSUME LogIInv, NEW s \in MonitorCall, deregister(s)
  PROVE  LogIInv'
<1>1. LogTypes /\ Streams
  BY DEF LogIInv
<1>2. /\ streamerMap' = streamerMap \ {s} /\ UNCHANGED <<taken, logCh, expected>>
      /\ UNCHANGED ringVars /\ UNCHANGED minLevel
  BY DEF deregister
<1>3. IsFiniteSet(streamerMap')
  BY <1>1, <1>2, FS_RemoveElement DEF LogTypes
<1>4. Streamed(s)' = Streamed(s)
  BY <1>2 DEF Streamed
<1>5. /\ Ascending(Streamed(s)) /\ SX!ToSet(Streamed(s)) \subseteq expected[s]
      /\ \A line \in expected[s] : Check(minLevel[s], lines[line])
  BY <1>1 DEF Streams
<1>6. /\ logCh \in [MonitorCall -> Seq(Line)] /\ taken \in [MonitorCall -> Seq(Line)]
      /\ expected \in [MonitorCall -> SUBSET Line] /\ Len(logCh[s]) <= ChSize
      /\ streamerMap \subseteq MonitorCall
  BY <1>1 DEF LogTypes
<1> QED
  BY <1>2, <1>3, <1>4, <1>5, <1>6, StreamStep

\* Every step keeps the invariant.
LEMMA LogStep == LogIInv /\ [LogNext]_logVars => LogIInv'
<1> SUFFICES ASSUME LogIInv, [LogNext]_logVars
             PROVE  LogIInv'
  OBVIOUS
<1>1. CASE UNCHANGED logVars
  <2>1. UNCHANGED <<lines, buf, idx, streamerMap, minLevel, logCh, taken, expected, warnings, warned>>
    BY <1>1 DEF logVars
  <2> QED
    BY <2>1 DEF LogIInv, LogTypes, Ring, SlotAt, LineAt, Streams, Streamed, Ascending, SX!ToSet,
                Gaps, Line, SkipsAreWarned
<1> QED
  BY <1>1, PrintfStep, WarnStep, RegisterStep, SendStep, DeregisterStep DEF LogNext

\* An empty ring, and no stream.
LEMMA LogStarts == LogInit => LogIInv
<1> SUFFICES ASSUME LogInit
             PROVE  LogIInv
  OBVIOUS
<1>0. RingSize \in Nat \ {0} /\ ChSize \in Nat /\ MaxLines \in Nat
  BY LogStreamsAssumption
<1>1. /\ lines = <<>> /\ buf = [i \in 0 .. RingSize - 1 |-> 0] /\ idx = 0 /\ streamerMap = {}
      /\ minLevel \in [MonitorCall -> Level]
      /\ logCh = [s \in MonitorCall |-> <<>>] /\ taken = [s \in MonitorCall |-> <<>>]
      /\ expected = [s \in MonitorCall |-> {}] /\ warnings = 0 /\ warned = 0
  BY DEF LogInit
<1>2. Len(lines) = 0 /\ lines \in Seq(Level)
  BY <1>1
<1>3. LogTypes
  <2>1. <<>> \in Seq(Line) /\ Len(<<>>) = 0
    OBVIOUS
  <2> QED
    BY <1>0, <1>1, <1>2, <2>1, FS_EmptySet DEF LogTypes
<1>4. Ring
  <2> SUFFICES ASSUME NEW i \in 1 .. RingSize
               PROVE  buf[SlotAt(i)] = LineAt(i)
    BY DEF Ring
  <2>1. LineAt(i) = 0
    BY <1>0, <1>2 DEF LineAt
  <2>2. SlotAt(i) \in 0 .. RingSize - 1
    BY <1>0, <1>1 DEF SlotAt
  <2> QED
    BY <1>1, <2>1, <2>2
<1>5. \A s \in MonitorCall : Streamed(s) = <<>> /\ expected[s] = {}
  BY <1>1 DEF Streamed
<1>6. Ascending(<<>>) /\ SX!ToSet(<<>>) = {}
  BY DEF Ascending, SX!ToSet
<1>7. Streams
  BY <1>5, <1>6 DEF Streams
<1>8. Gaps = {}
  BY <1>5 DEF Gaps
<1> QED
  BY <1>1, <1>3, <1>4, <1>7, <1>8, FS_EmptySet DEF LogIInv, SkipsAreWarned

\* What the run checks of the streams follows.
LEMMA LogIInvGives == LogIInv => LogInv /\ SkipsAreWarned
<1> SUFFICES ASSUME LogIInv
             PROVE  LogInv
  BY DEF LogIInv
<1>1. LogTypes /\ Ring /\ Streams
  BY DEF LogIInv
<1>2. LogTypeOK
  BY <1>1 DEF LogTypes, LogTypeOK
<1>3. RingIsTail
  BY <1>1, RingIsDumped
<1>4. ASSUME NEW s \in MonitorCall
      PROVE  \A i \in 2 .. Len(Streamed(s)) : Streamed(s)[i - 1] < Streamed(s)[i]
  <2>1. Streamed(s) \in Seq(Line) /\ Ascending(Streamed(s))
    BY <1>1, StreamedType DEF Streams
  <2>2. \A i \in 2 .. Len(Streamed(s)) :
           i \in DOMAIN Streamed(s) /\ i - 1 \in DOMAIN Streamed(s) /\ i - 1 < i
    BY <2>1
  <2> QED
    BY <2>1, <2>2 DEF Ascending
<1> QED
  BY <1>1, <1>2, <1>3, <1>4 DEF LogInv, Streams

\* The inductive invariant holds.
LEMMA LogInductive == LogSpec => []LogIInv
BY LogStarts, LogStep, PTL DEF LogSpec

\* For a ring and channels of any size, and any number of streams that start and
\* stop while lines are written: each gets the lines of its level in order and
\* none twice, over the seam of the old lines and the new ones, and the ring
\* holds the latest (log.go:59-75,93-112).
THEOREM StreamsInOrder == LogSpec => []LogInv
BY LogInductive, LogIInvGives, PTL

\* No line is skipped in silence: over all streams as many warnings were logged,
\* or are about to be, as lines were skipped (log.go:45-49).
THEOREM EverySkipIsWarned == LogSpec => []SkipsAreWarned
BY LogInductive, LogIInvGives, PTL
=============================================================================
