----------------------------- MODULE Membership -----------------------------
(***************************************************************************)
(* The members of a cluster as one node sees them: memberlist announces    *)
(* their changes in nodeEventCh, receiveNodeEvents keeps the lists of      *)
(* failed and left members and sends member events, the reaper empties the *)
(* lists, reconnect joins failed members again, and the states of peers    *)
(* name members that left.  The four run at the same time.                 *)
(*                                                                         *)
(* Source: inactive.go, node_events.go, schedule in serf.go; memberlist as *)
(* these use it.  The lists are sets: nothing depends on their order, and  *)
(* the maps beside them change under the same lock.  When a timeout has    *)
(* passed is left open.                                                    *)
(***************************************************************************)
EXTENDS Integers, Sequences, FiniteSets

SX == INSTANCE SequencesExt

CONSTANTS Member,
          MaxChanges   \* bound on the changes of members

ASSUME MembershipAssumption == MaxChanges \in Nat

VARIABLES state,       \* memberlist's state of each member
          departed,    \* members that have really left
          changes,
          nodeEventCh, \* changes announced by memberlist
          handling,    \* what receiveNodeEvents works on: {} or a record
          failed, left,
          reaping,     \* members the reaper has taken from the lists
          connecting,  \* reconnect is about to pick a member
          reconnect,   \* the member reconnect is joining: {} or a record
          replaced,    \* dead members whose address another one has taken
          told,        \* members that peers said have left
          reaped,      \* members the reaper took off a list, and
          answered,    \* failed members reconnect took off, until memberlist
                       \* announces again that they failed or left
          last         \* the last event of each member receiveNodeEvents sent

lists == <<failed, left>>
world == <<state, departed, changes, nodeEventCh, replaced>>
vars == <<state, departed, changes, nodeEventCh, handling, failed, left, reaping,
          connecting, reconnect, replaced, told, reaped, answered, last>>

Init == /\ state = [m \in Member |-> "unknown"]
        /\ departed = {}
        /\ changes = 0
        /\ nodeEventCh = <<>>
        /\ handling = {}
        /\ failed = {} /\ left = {}
        /\ reaping = {}
        /\ connecting = FALSE /\ reconnect = {}
        /\ replaced = {}
        /\ told = {}
        /\ reaped = {}
        /\ answered = {}
        /\ last = [m \in Member |-> "none"]

-----------------------------------------------------------------------------
(* memberlist. *)

Announce(m, newState, type) ==
    /\ state' = [state EXCEPT ![m] = newState]
    /\ nodeEventCh' = Append(nodeEventCh, [Type |-> type, ID |-> m])

Change(m) == /\ changes < MaxChanges
             /\ changes' = changes + 1
             /\ UNCHANGED <<handling, failed, left, reaping, connecting, reconnect, told, reaped, answered, last>>

Alive(m) == /\ Change(m)
            /\ m \notin departed /\ m \notin replaced
            /\ \/ state[m] \in {"unknown", "dead"} /\ Announce(m, "alive", "NodeJoin")
               \/ state[m] = "alive" /\ Announce(m, "alive", "NodeUpdate")
            /\ UNCHANGED <<departed, replaced>>

Dead(m) == /\ Change(m)
           /\ state[m] = "alive"
           /\ Announce(m, "dead", "NodeLeave")
           /\ UNCHANGED <<departed, replaced>>

\* m leaves; its message may not get here.
Departs(m) == /\ Change(m)
              /\ state[m] = "alive" /\ m \notin departed
              /\ departed' = departed \cup {m}
              /\ \/ Announce(m, "left", "NodeLeave")
                 \/ UNCHANGED <<state, nodeEventCh>>
              /\ UNCHANGED replaced

-----------------------------------------------------------------------------
(* receiveNodeEvents: the event is taken and the state looked up, the      *)
(* lists are changed, the member event is sent.                            *)

\* Mutant: whatever is not alive has left.
TakeNodeEvent_anyLeave ==
    /\ nodeEventCh # <<>>
    /\ handling = {}
    /\ LET e == Head(nodeEventCh)
           type == CASE e.Type = "NodeJoin"   -> "join"
                     [] e.Type = "NodeUpdate" -> "update"
                     [] e.Type = "NodeLeave"  -> IF state[e.ID] # "alive" THEN "leave" ELSE "failed"
       IN  handling' = {[Type |-> type, ID |-> e.ID, listed |-> FALSE]}
    /\ nodeEventCh' = Tail(nodeEventCh)
    /\ UNCHANGED <<state, departed, changes, failed, left, reaping, connecting, reconnect, replaced, told, reaped, answered, last>>

TakeNodeEvent ==
    /\ nodeEventCh # <<>>
    /\ handling = {}
    /\ LET e == Head(nodeEventCh)
           type == CASE e.Type = "NodeJoin"   -> "join"
                     [] e.Type = "NodeUpdate" -> "update"
                     [] e.Type = "NodeLeave"  -> IF state[e.ID] = "left" THEN "leave" ELSE "failed"
       IN  handling' = {[Type |-> type, ID |-> e.ID, listed |-> FALSE]}
    /\ nodeEventCh' = Tail(nodeEventCh)
    /\ UNCHANGED <<state, departed, changes, failed, left, reaping, connecting, reconnect, replaced, told, reaped, answered, last>>

\* Mutant: only a join takes a member off the lists, and only off that of the
\* members that left.
UpdateLists_keepFailed ==
    \E h \in handling :
       /\ ~h.listed
       /\ handling' = {[h EXCEPT !.listed = TRUE]}
       /\ failed' = IF h.Type = "failed" THEN failed \cup {h.ID} ELSE failed
       /\ left' = IF h.Type = "leave" THEN left \cup {h.ID} ELSE left \ {h.ID}
       /\ reaped' = IF h.Type \in {"failed", "leave"} THEN reaped \ {h.ID} ELSE reaped
       /\ answered' = IF h.Type = "failed" THEN answered \ {h.ID} ELSE answered
       /\ UNCHANGED <<world, reaping, connecting, reconnect, told, last>>

handleAlive(m) == failed' = failed \ {m} /\ left' = left \ {m}
addFail(m) == failed' = failed \cup {m} /\ UNCHANGED left
addLeft(m) == left' = left \cup {m} /\ UNCHANGED failed

UpdateLists ==
    \E h \in handling :
       /\ ~h.listed
       /\ handling' = {[h EXCEPT !.listed = TRUE]}
       /\ CASE h.Type \in {"join", "update"} -> handleAlive(h.ID)
            [] h.Type = "failed"             -> addFail(h.ID)
            [] h.Type = "leave"              -> addLeft(h.ID)
       /\ reaped' = IF h.Type \in {"failed", "leave"} THEN reaped \ {h.ID} ELSE reaped
       /\ answered' = IF h.Type = "failed" THEN answered \ {h.ID} ELSE answered
       /\ UNCHANGED <<world, reaping, connecting, reconnect, told, last>>

SendMemberEvent ==
    \E h \in handling :
       /\ h.listed
       /\ handling' = {}
       /\ last' = [last EXCEPT ![h.ID] = h.Type]
       /\ UNCHANGED <<world, lists, reaping, connecting, reconnect, told, reaped, answered>>

-----------------------------------------------------------------------------
(* The reaper: lists under the lock, events afterwards. *)

\* Mutant: the members that time out stay on the list.
ReapLists_keep ==
    /\ reaping = {}
    /\ \E fs \in SUBSET failed, ls \in SUBSET left :
          /\ fs \cup ls # {}
          /\ reaping' = {[ID |-> m, from |-> "failed"] : m \in fs} \cup {[ID |-> m, from |-> "left"] : m \in ls}
          /\ reaped' = reaped \cup fs \cup ls
    /\ UNCHANGED <<world, lists, handling, connecting, reconnect, told, answered, last>>

\* The members whose timeout is over, fs of those failed and ls of those left.
ReapLists ==
    /\ reaping = {}
    /\ \E fs \in SUBSET failed, ls \in SUBSET left :
          /\ fs \cup ls # {}
          /\ failed' = failed \ fs
          /\ left' = left \ ls
          /\ reaped' = reaped \cup fs \cup ls
          /\ reaping' = {[ID |-> m, from |-> "failed"] : m \in fs} \cup {[ID |-> m, from |-> "left"] : m \in ls}
    /\ UNCHANGED <<world, handling, connecting, reconnect, told, answered, last>>

SendReapEvent ==
    \E r \in reaping :
       /\ r.from = "left" => \A q \in reaping : q.from = "left"
       /\ reaping' = reaping \ {r}
       /\ UNCHANGED <<world, lists, handling, connecting, reconnect, told, reaped, answered, last>>

-----------------------------------------------------------------------------
(* reconnect. *)

\* shouldConnect leaves it to chance, unless more members are on the lists
\* than memberlist knows: the threshold is negative then.
numAlive == Cardinality({m \in Member : state[m] # "unknown"}) + 1 - Cardinality(failed) - Cardinality(left)

shouldConnect ==
    /\ ~connecting /\ reconnect = {}
    /\ failed # {} /\ numAlive >= 0
    /\ connecting' = TRUE
    /\ UNCHANGED <<world, lists, handling, reaping, reconnect, told, reaped, answered, last>>

\* pickRandomFailed, with the lists as they are by now.
PickFailed(m) ==
    /\ connecting
    /\ m \in failed
    /\ connecting' = FALSE
    /\ reconnect' = {[ID |-> m, joined |-> FALSE]}
    /\ UNCHANGED <<world, lists, handling, reaping, told, reaped, answered, last>>

PickNone == /\ connecting
            /\ failed = {}
            /\ connecting' = FALSE
            /\ UNCHANGED <<world, lists, handling, reaping, reconnect, told, reaped, answered, last>>

\* Its address answers: the member itself, or another one that has taken it.
JoinAnswered ==
    \E r \in reconnect :
       /\ ~r.joined
       /\ reconnect' = {[r EXCEPT !.joined = TRUE]}
       /\ \/ /\ r.ID \notin departed \cup replaced
             /\ IF state[r.ID] = "dead" THEN Announce(r.ID, "alive", "NodeJoin")
                                       ELSE UNCHANGED <<state, nodeEventCh>>
             /\ UNCHANGED replaced
          \/ /\ state[r.ID] # "alive"
             /\ replaced' = replaced \cup {r.ID}
             /\ UNCHANGED <<state, nodeEventCh>>
       /\ UNCHANGED <<departed, changes, lists, handling, reaping, connecting, told, reaped, answered, last>>

JoinUnanswered == /\ \E r \in reconnect : ~r.joined
                  /\ reconnect' = {}
                  /\ UNCHANGED <<world, lists, handling, reaping, connecting, told, reaped, answered, last>>

\* Whatever became of the member since the answer.
RemoveFailed ==
    \E r \in reconnect :
       /\ r.joined
       /\ reconnect' = {}
       /\ failed' = failed \ {r.ID}
       /\ answered' = answered \cup {r.ID}
       /\ UNCHANGED <<world, left, handling, reaping, connecting, told, reaped, last>>

-----------------------------------------------------------------------------
(* Merge of a peer's state: addLeftBatch, which stops at the first member  *)
(* of the batch that is on the list already.                               *)

Batches == UNION {{s \in [1 .. n -> departed] : SX!IsInjective(s)} : n \in 1 .. Cardinality(departed)}

addLeftBatch(batch) ==
    LET known == {i \in DOMAIN batch : batch[i] \in left}
    IN  left \cup {batch[i] : i \in {j \in DOMAIN batch : \A k \in known : j < k}}

MergeLeftNodes ==
    /\ \E batch \in Batches :
          /\ left' = addLeftBatch(batch)
          /\ told' = told \cup SX!ToSet(batch)
    /\ UNCHANGED <<world, failed, handling, reaping, connecting, reconnect, reaped, answered, last>>

Next == \/ \E m \in Member : Alive(m) \/ Dead(m) \/ Departs(m) \/ PickFailed(m)
        \/ TakeNodeEvent \/ UpdateLists \/ SendMemberEvent
        \/ ReapLists \/ SendReapEvent
        \/ shouldConnect \/ PickNone \/ JoinAnswered \/ JoinUnanswered \/ RemoveFailed
        \/ MergeLeftNodes

Spec == Init /\ [][Next]_vars

-----------------------------------------------------------------------------
TypeOK == /\ state \in [Member -> {"unknown", "alive", "dead", "left"}]
          /\ last \in [Member -> {"none", "join", "update", "leave", "failed"}]
          /\ Cardinality(handling) <= 1 /\ Cardinality(reconnect) <= 1
          /\ connecting \in BOOLEAN
          /\ failed \subseteq Member /\ left \subseteq Member
          /\ told \subseteq departed

\* Nothing is under way.
Quiet == nodeEventCh = <<>> /\ handling = {} /\ reaping = {} /\ reconnect = {}

\* A member that is dead is on the failed list, until it is reaped or Join has an
\* answer from its address (node_events.go:46-49, inactive.go:163-223).
FailedIsTracked ==
    Quiet => \A m \in Member : state[m] = "dead" => m \in failed \cup reaped \cup answered

\* The types; members that are alive are on neither list, unless their leave has
\* not been noticed yet (inactive.go:133-144); and none that failed is lost.
ListsInv ==
    /\ TypeOK
    /\ Quiet => \A m \in Member : state[m] = "alive" =>
                   m \notin failed /\ (m \in left => m \in departed)
    /\ FailedIsTracked

\* Reap events aside, the application was last told what memberlist says of a
\* member, however many changes were on the way at once (node_events.go:16-72).
EventsMatchState ==
    Quiet => \A m \in Member :
       /\ state[m] = "alive" => last[m] \in {"join", "update"}
       /\ state[m] = "dead"  => last[m] = "failed"
       /\ state[m] = "left"  => last[m] = "leave"

\* A member that failed or left is reaped once and from one list, unless a peer
\* said that it left (inactive.go:82-96,163-169).
ReapedOnce ==
    [][\A r \in reaping' \ reaping : r.ID \notin told =>
          r.ID \notin reaped /\ \A q \in reaping' : q.ID = r.ID => q = r]_vars
=============================================================================
