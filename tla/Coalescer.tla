------------------------------ MODULE Coalescer ------------------------------
(***************************************************************************)
(* coalescer.go: the goroutine between the snapshotter and the event       *)
(* handlers that keeps the last event of each member and, at every tick,   *)
(* sends those of one type as one CoalescedMemberEvent, leaving out what   *)
(* equals the event it remembers for the member.                           *)
(*                                                                         *)
(* The goroutine is the only one that touches its maps, and the sends at   *)
(* the end of flush are all it does until they are taken, so a case of its *)
(* select is one step.                                                     *)
(***************************************************************************)
EXTENDS Naturals

CONSTANTS Member,    \* IDs of members
          Info,      \* what else a Node says: its tags, for instance
          MaxEvents  \* bound on the member events

ASSUME CoalescerAssumption == MaxEvents \in Nat

VARIABLES newEvents, oldEvents,  \* the maps, {} for a member that has no entry
          running,
          actual,     \* the last event of each member that came in
          view,       \* the last one of each member that was sent
          announced,  \* the events sent since the last clean tick, by member
          events      \* member events that came in

maps == <<newEvents, oldEvents>>
history == <<actual, view, announced>>
coalescerVars == <<newEvents, oldEvents, running, actual, view, announced, events>>

None == [m \in Member |-> {}]

CoalescerInit == /\ newEvents = None
                 /\ oldEvents = None
                 /\ running = TRUE
                 /\ actual = None
                 /\ view = None
                 /\ announced = None
                 /\ events = 0

-----------------------------------------------------------------------------
(* The member events of a node.  Any may follow any: the tee drops some,   *)
(* and one of the reaper may come after the join of the same member.       *)

Type == {"join", "update", "leave", "failed", "reap"}
Event == [Type : Type, Info : Info]

\* MemberEvent.Equal: only an update looks at more than type and ID.
Equal(e, other) == /\ e.Type = other.Type
                   /\ e.Type = "update" => e.Info = other.Info

-----------------------------------------------------------------------------
\* Mutant: the first event of a member in the interval is kept.
ReceiveEvent_keepFirst(m, e) ==
    /\ running
    /\ events < MaxEvents
    /\ newEvents' = [newEvents EXCEPT ![m] = IF @ = {} THEN {e} ELSE @]
    /\ actual' = [actual EXCEPT ![m] = {e}]
    /\ events' = events + 1
    /\ UNCHANGED <<oldEvents, running, view, announced>>

\* case e := <-c.inCh.  Events of actions and queries are passed on at once.
ReceiveEvent(m, e) ==
    /\ running
    /\ events < MaxEvents
    /\ newEvents' = [newEvents EXCEPT ![m] = {e}]
    /\ actual' = [actual EXCEPT ![m] = {e}]
    /\ events' = events + 1
    /\ UNCHANGED <<oldEvents, running, view, announced>>

\* The members whose new event does not equal the old one.
Fresh == {m \in Member : \E e \in newEvents[m] : ~\E o \in oldEvents[m] : Equal(e, o)}
FreshOf(type) == {m \in Fresh : \E e \in newEvents[m] : e.Type = type}

\* flush: the map is walked in any order; the first member of each type opens
\* the coalesced event, and only the members after it get to oldEvents.
flush ==
    /\ \E first \in [{t \in Type : FreshOf(t) # {}} -> Member] :
          /\ \A t \in DOMAIN first : first[t] \in FreshOf(t)
          /\ oldEvents' = [m \in Member |->
                IF m \in Fresh /\ \A t \in DOMAIN first : first[t] # m
                  THEN newEvents[m] ELSE oldEvents[m]]
    /\ view' = [m \in Member |-> IF m \in Fresh THEN newEvents[m] ELSE view[m]]
    /\ announced' = [m \in Member |->
          IF m \in Fresh THEN announced[m] \cup newEvents[m] ELSE announced[m]]
    /\ newEvents' = None
    /\ UNCHANGED <<actual, events>>

FlushTick == /\ running
             /\ flush
             /\ UNCHANGED running

\* Mutant: the tick cleans the events that wait to be flushed.
CleanTick_newEvents ==
    /\ running
    /\ newEvents' = None
    /\ announced' = None
    /\ UNCHANGED <<oldEvents, running, actual, view, events>>

CleanTick == /\ running
             /\ oldEvents' = None
             /\ announced' = None
             /\ UNCHANGED <<newEvents, running, actual, view, events>>

\* case <-c.shutdownCh: a last flush.
Shutdown == /\ running
            /\ flush
            /\ running' = FALSE

CoalescerNext == \/ \E m \in Member, e \in Event : ReceiveEvent(m, e)
                 \/ FlushTick \/ CleanTick \/ Shutdown

CoalescerSpec == CoalescerInit /\ [][CoalescerNext]_coalescerVars

-----------------------------------------------------------------------------
CoalescerTypeOK == /\ newEvents \in [Member -> SUBSET Event]
                   /\ oldEvents \in [Member -> SUBSET Event]
                   /\ view \in [Member -> SUBSET Event]
                   /\ actual \in [Member -> SUBSET Event]
                   /\ running \in BOOLEAN

\* What the coalescer remembers has been sent since it was last cleaned, and
\* what waits is the latest there is.
CoalescerInv ==
    /\ CoalescerTypeOK
    /\ \A m \in Member : oldEvents[m] \subseteq announced[m]
    /\ \A m \in Member : newEvents[m] \in {{}, actual[m]}

\* An event is left out of a flush only if its equal was sent since the last
\* clean tick (coalescer.go:48,88), and no tick loses one.
LeftOutWasSent ==
    [][\A m \in Member : newEvents[m] # {} /\ newEvents'[m] = {} /\ view'[m] # newEvents[m] =>
          \E e \in newEvents[m], s \in announced[m] : Equal(e, s)]_coalescerVars

\* Events of one member are never sent late or out of order, whatever the
\* order of the map and of the types in a flush (coalescer.go:45-66).
Feed == INSTANCE MemberFeed
ImplementsFeed == Feed!Spec
=============================================================================
