---------------------------- MODULE ClusterProofs ----------------------------
(***************************************************************************)
(* What the nodes of a cluster learn of each other.                        *)
(*                                                                         *)
(* For any members and any number of changes: the lists and the events say *)
(* what memberlist says once nothing is under way, no failed member is     *)
(* lost, and a member is reaped once.  For any answers to pings: the       *)
(* coordinates in use are finite, none goes back, and resets end.  For any *)
(* nodes, messages lost, repeated and out of date, and restarts: an action *)
(* that a node sends on was triggered somewhere, is sent once in a run,    *)
(* and not again after a restart that read of it in the snapshot.          *)
(***************************************************************************)
EXTENDS Membership, Coordinates, ActionCluster, FiniteSetTheorems,
        WellFoundedInduction, TLAPS

NodeEvent == [Type : {"NodeJoin", "NodeUpdate", "NodeLeave"}, ID : Member]
Handled == [Type : {"join", "update", "leave", "failed"}, ID : Member, listed : BOOLEAN]

Types == /\ state \in [Member -> {"unknown", "alive", "dead", "left"}]
         /\ last \in [Member -> {"none", "join", "update", "leave", "failed"}]
         /\ nodeEventCh \in Seq(NodeEvent)
         /\ handling \subseteq Handled /\ \A g, h \in handling : g = h
         /\ reconnect \subseteq [ID : Member, joined : BOOLEAN] /\ \A q, r \in reconnect : q = r
         /\ failed \subseteq Member /\ left \subseteq departed
         /\ departed \subseteq Member /\ told \subseteq departed
         /\ \A m \in Member : state[m] = "left" => m \in departed

-----------------------------------------------------------------------------
(* What is on its way about a member. *)

Down == {"dead", "left"}
GoesDown == {"failed", "leave"}

\* The i-th announcement is one of m: of a leave, or of something else.
LeaveAt(m, i) == nodeEventCh[i].ID = m /\ nodeEventCh[i].Type = "NodeLeave"
AliveAt(m, i) == nodeEventCh[i].ID = m /\ nodeEventCh[i].Type # "NodeLeave"

LeaveComes(m) == \E i \in DOMAIN nodeEventCh : LeaveAt(m, i)
AliveComes(m) == \E i \in DOMAIN nodeEventCh : AliveAt(m, i)
Comes(m) == LeaveComes(m) \/ AliveComes(m)

\* An announcement of m is being handled, and the lists do not tell yet.
Unlisted(m) == \E h \in handling : h.ID = m /\ ~h.listed
GetsUp(m) == \E h \in handling : h.ID = m /\ ~h.listed /\ h.Type \notin GoesDown

\* No leave of m is announced without something else before it.
UpFirst(m) == \A i \in DOMAIN nodeEventCh : LeaveAt(m, i) =>
                 \E k \in DOMAIN nodeEventCh : k < i /\ AliveAt(m, k)

\* The type of a member event says what memberlist says.
True(type, m) == \/ type \in {"join", "update"} /\ state[m] = "alive"
                 \/ type = "failed" /\ state[m] = "dead"
                 \/ type = "leave" /\ state[m] = "left"
                 \/ type = "none" /\ state[m] = "unknown"

-----------------------------------------------------------------------------
(* The inductive invariant. *)

\* The latest announcement of a member agrees with its state, and before a
\* member leaves again it was announced otherwise.
QueueOK ==
    \A m \in Member, i \in DOMAIN nodeEventCh :
       /\ LeaveAt(m, i) =>
             /\ state[m] \in Down \/ \E j \in DOMAIN nodeEventCh : i < j /\ AliveAt(m, j)
             /\ \A j \in DOMAIN nodeEventCh : i < j /\ LeaveAt(m, j) =>
                   \E k \in DOMAIN nodeEventCh : i < k /\ k < j /\ AliveAt(m, k)
       /\ AliveAt(m, i) => \/ state[m] = "alive"
                           \/ \E j \in DOMAIN nodeEventCh : i < j /\ LeaveAt(m, j)

\* So does what is being handled.
HandlingOK ==
    \A h \in handling :
       /\ True(h.Type, h.ID) \/ Comes(h.ID)
       /\ h.Type = "leave" => state[h.ID] = "left"
       /\ h.Type \in GoesDown => /\ state[h.ID] \in Down \/ AliveComes(h.ID)
                                 /\ UpFirst(h.ID)

\* And the last event the application was sent.
LastOK == \A m \in Member :
             True(last[m], m) \/ Comes(m) \/ \E h \in handling : h.ID = m

\* Members that are on a list because of an event, not of what a peer said.
Listed == failed \cup (left \ told)

\* Such a member is not alive, or is about to get off the list; no other leave
\* of it is handled before.
ListedOK ==
    \A m \in Listed :
       /\ state[m] \in Down \/ AliveComes(m) \/ GetsUp(m)
       /\ UpFirst(m) \/ GetsUp(m)
       /\ \A h \in handling : h.ID = m /\ ~h.listed => h.Type \notin GoesDown
       /\ m \notin told => m \notin reaped /\ m \notin failed \cap left

\* A dead member is on the list, has got off it, or is about to get on it.
TrackedOK == \A m \in Member : state[m] = "dead" =>
                m \in failed \cup reaped \cup answered \/ Comes(m) \/ Unlisted(m)

IInv == Types /\ QueueOK /\ HandlingOK /\ LastOK /\ ListedOK /\ TrackedOK

-----------------------------------------------------------------------------
(* The channel of announcements. *)

\* memberlist announces a change.
LEMMA Appended ==
  ASSUME nodeEventCh \in Seq(NodeEvent), NEW e \in NodeEvent,
         nodeEventCh' = Append(nodeEventCh, e)
  PROVE  \E n \in DOMAIN nodeEventCh' :
            /\ n \in Nat /\ nodeEventCh' \in Seq(NodeEvent)
            /\ DOMAIN nodeEventCh' = DOMAIN nodeEventCh \cup {n}
            /\ \A i \in DOMAIN nodeEventCh : i \in Nat /\ i < n
            /\ \A m : \A i \in DOMAIN nodeEventCh :
                  (LeaveAt(m, i)' <=> LeaveAt(m, i)) /\ (AliveAt(m, i)' <=> AliveAt(m, i))
            /\ \A m : /\ LeaveAt(m, n)' <=> e.ID = m /\ e.Type = "NodeLeave"
                      /\ AliveAt(m, n)' <=> e.ID = m /\ e.Type # "NodeLeave"
<1> PICK n : n = Len(nodeEventCh) + 1
  OBVIOUS
<1>1. /\ nodeEventCh' \in Seq(NodeEvent) /\ n \in Nat
      /\ DOMAIN nodeEventCh = 1 .. n - 1 /\ DOMAIN nodeEventCh' = 1 .. n
      /\ \A i \in 1 .. n - 1 : nodeEventCh'[i] = nodeEventCh[i]
      /\ nodeEventCh'[n] = e
  OBVIOUS
<1>2. n \in DOMAIN nodeEventCh' /\ DOMAIN nodeEventCh' = DOMAIN nodeEventCh \cup {n}
  <2>1. n >= 1
    OBVIOUS
  <2> QED
    BY <1>1, <2>1
<1>3. \A i \in DOMAIN nodeEventCh : i \in Nat /\ i < n
  BY <1>1
<1>4. \A m : \A i \in DOMAIN nodeEventCh :
         (LeaveAt(m, i)' <=> LeaveAt(m, i)) /\ (AliveAt(m, i)' <=> AliveAt(m, i))
  BY <1>1 DEF LeaveAt, AliveAt
<1>5. \A m : /\ LeaveAt(m, n)' <=> e.ID = m /\ e.Type = "NodeLeave"
             /\ AliveAt(m, n)' <=> e.ID = m /\ e.Type # "NodeLeave"
  BY <1>1 DEF LeaveAt, AliveAt
<1> QED
  BY <1>1, <1>2, <1>3, <1>4, <1>5

\* What comes then, of each member.
LEMMA AnnouncedComes ==
  ASSUME nodeEventCh \in Seq(NodeEvent), NEW e \in NodeEvent,
         nodeEventCh' = Append(nodeEventCh, e)
  PROVE  \A m :
            /\ LeaveComes(m)' <=> LeaveComes(m) \/ (e.ID = m /\ e.Type = "NodeLeave")
            /\ AliveComes(m)' <=> AliveComes(m) \/ (e.ID = m /\ e.Type # "NodeLeave")
            /\ UpFirst(m) /\ (e.ID # m \/ e.Type # "NodeLeave" \/ AliveComes(m)) => UpFirst(m)'
<1>1. PICK n \in DOMAIN nodeEventCh' :
           /\ DOMAIN nodeEventCh' = DOMAIN nodeEventCh \cup {n}
           /\ \A i \in DOMAIN nodeEventCh : i \in Nat /\ i < n
           /\ \A m : \A i \in DOMAIN nodeEventCh :
                 (LeaveAt(m, i)' <=> LeaveAt(m, i)) /\ (AliveAt(m, i)' <=> AliveAt(m, i))
           /\ \A m : /\ LeaveAt(m, n)' <=> e.ID = m /\ e.Type = "NodeLeave"
                     /\ AliveAt(m, n)' <=> e.ID = m /\ e.Type # "NodeLeave"
  BY Appended
<1>2. ASSUME NEW m
      PROVE  /\ LeaveComes(m)' <=> LeaveComes(m) \/ (e.ID = m /\ e.Type = "NodeLeave")
             /\ AliveComes(m)' <=> AliveComes(m) \/ (e.ID = m /\ e.Type # "NodeLeave")
  BY <1>1 DEF LeaveComes, AliveComes
<1>3. ASSUME NEW m, UpFirst(m), e.ID # m \/ e.Type # "NodeLeave" \/ AliveComes(m)
      PROVE  UpFirst(m)'
  BY <1>1, <1>3 DEF UpFirst, AliveComes
<1> QED
  BY <1>2, <1>3

\* receiveNodeEvents takes the first announcement.
LEMMA Shifted ==
  ASSUME nodeEventCh \in Seq(NodeEvent), nodeEventCh # <<>>, nodeEventCh' = Tail(nodeEventCh)
  PROVE  /\ nodeEventCh' \in Seq(NodeEvent) /\ Head(nodeEventCh) \in NodeEvent
         /\ 1 \in DOMAIN nodeEventCh
         /\ \A i \in DOMAIN nodeEventCh : i \in Nat /\ i >= 1
         /\ \A i \in DOMAIN nodeEventCh' : i \in Nat /\ i + 1 \in DOMAIN nodeEventCh /\ i + 1 > 1
         /\ \A i \in DOMAIN nodeEventCh : i # 1 => i - 1 \in DOMAIN nodeEventCh'
         /\ \A m : \A i \in DOMAIN nodeEventCh' :
               (LeaveAt(m, i)' <=> LeaveAt(m, i + 1)) /\ (AliveAt(m, i)' <=> AliveAt(m, i + 1))
         /\ \A m : /\ LeaveAt(m, 1) <=> Head(nodeEventCh).ID = m /\ Head(nodeEventCh).Type = "NodeLeave"
                   /\ AliveAt(m, 1) <=> Head(nodeEventCh).ID = m /\ Head(nodeEventCh).Type # "NodeLeave"
<1>1. /\ nodeEventCh' \in Seq(NodeEvent) /\ Head(nodeEventCh) \in NodeEvent
      /\ Len(nodeEventCh) \in Nat /\ Len(nodeEventCh) >= 1
      /\ DOMAIN nodeEventCh = 1 .. Len(nodeEventCh)
      /\ DOMAIN nodeEventCh' = 1 .. Len(nodeEventCh) - 1
      /\ \A i \in 1 .. Len(nodeEventCh) - 1 : nodeEventCh'[i] = nodeEventCh[i + 1]
      /\ Head(nodeEventCh) = nodeEventCh[1]
  OBVIOUS
<1>2. \A m : \A i \in DOMAIN nodeEventCh' :
         (LeaveAt(m, i)' <=> LeaveAt(m, i + 1)) /\ (AliveAt(m, i)' <=> AliveAt(m, i + 1))
  BY <1>1 DEF LeaveAt, AliveAt
<1>3. \A m : /\ LeaveAt(m, 1) <=> Head(nodeEventCh).ID = m /\ Head(nodeEventCh).Type = "NodeLeave"
             /\ AliveAt(m, 1) <=> Head(nodeEventCh).ID = m /\ Head(nodeEventCh).Type # "NodeLeave"
  BY <1>1 DEF LeaveAt, AliveAt
<1> QED
  BY <1>1, <1>2, <1>3

\* What comes after the first announcement.
LEMMA TakenComes ==
  ASSUME nodeEventCh \in Seq(NodeEvent), nodeEventCh # <<>>, nodeEventCh' = Tail(nodeEventCh),
         NEW m
  PROVE  /\ LeaveComes(m) <=> \/ LeaveComes(m)'
                              \/ Head(nodeEventCh).ID = m /\ Head(nodeEventCh).Type = "NodeLeave"
         /\ AliveComes(m) <=> \/ AliveComes(m)'
                              \/ Head(nodeEventCh).ID = m /\ Head(nodeEventCh).Type # "NodeLeave"
         /\ Head(nodeEventCh).ID # m => (UpFirst(m) <=> UpFirst(m)')
         /\ Head(nodeEventCh).ID = m /\ UpFirst(m) => Head(nodeEventCh).Type # "NodeLeave"
<1> DEFINE e == Head(nodeEventCh)
<1>1. LeaveComes(m) <=> LeaveComes(m)' \/ (e.ID = m /\ e.Type = "NodeLeave")
  <2>1. ASSUME NEW i \in DOMAIN nodeEventCh, LeaveAt(m, i), i # 1
        PROVE  LeaveComes(m)'
    <3>1. i - 1 \in DOMAIN nodeEventCh' /\ (i - 1) + 1 = i
      BY <2>1, Shifted
    <3>2. LeaveAt(m, i - 1)'
      BY <2>1, <3>1, Shifted
    <3> QED
      BY <3>1, <3>2 DEF LeaveComes
  <2> QED
    BY <2>1, Shifted DEF LeaveComes
<1>2. AliveComes(m) <=> AliveComes(m)' \/ (e.ID = m /\ e.Type # "NodeLeave")
  <2>1. ASSUME NEW i \in DOMAIN nodeEventCh, AliveAt(m, i), i # 1
        PROVE  AliveComes(m)'
    <3>1. i - 1 \in DOMAIN nodeEventCh' /\ (i - 1) + 1 = i
      BY <2>1, Shifted
    <3>2. AliveAt(m, i - 1)'
      BY <2>1, <3>1, Shifted
    <3> QED
      BY <3>1, <3>2 DEF AliveComes
  <2> QED
    BY <2>1, Shifted DEF AliveComes
<1>3. ASSUME e.ID # m, UpFirst(m), NEW i \in DOMAIN nodeEventCh', LeaveAt(m, i)'
      PROVE  \E k \in DOMAIN nodeEventCh' : k < i /\ AliveAt(m, k)'
  <2>1. i + 1 \in DOMAIN nodeEventCh /\ LeaveAt(m, i + 1)
    BY <1>3, Shifted
  <2>2. PICK k \in DOMAIN nodeEventCh : k < i + 1 /\ AliveAt(m, k)
    BY <1>3, <2>1 DEF UpFirst
  <2>3. k # 1
    BY <1>3, <2>2, Shifted
  <2>4. k - 1 \in DOMAIN nodeEventCh' /\ k - 1 < i /\ (k - 1) + 1 = k
    <3>1. k \in Nat /\ i \in Nat /\ k - 1 \in DOMAIN nodeEventCh'
      BY <1>3, <2>2, <2>3, Shifted
    <3> QED
      BY <2>2, <3>1
  <2> QED
    BY <2>2, <2>4, Shifted
<1>4. ASSUME e.ID # m, UpFirst(m)', NEW i \in DOMAIN nodeEventCh, LeaveAt(m, i)
      PROVE  \E k \in DOMAIN nodeEventCh : k < i /\ AliveAt(m, k)
  <2>1. i # 1
    BY <1>4, Shifted
  <2>2. i - 1 \in DOMAIN nodeEventCh' /\ (i - 1) + 1 = i
    BY <2>1, Shifted
  <2>3. LeaveAt(m, i - 1)'
    BY <1>4, <2>2, Shifted
  <2>4. PICK k \in DOMAIN nodeEventCh' : k < i - 1 /\ AliveAt(m, k)'
    BY <1>4, <2>2, <2>3 DEF UpFirst
  <2>5. k + 1 \in DOMAIN nodeEventCh /\ k + 1 < i /\ AliveAt(m, k + 1)
    BY <2>2, <2>4, Shifted
  <2> QED
    BY <2>5
<1>5. ASSUME e.ID = m, UpFirst(m), e.Type = "NodeLeave"
      PROVE  FALSE
  BY <1>5, Shifted DEF UpFirst
<1> QED
  BY <1>1, <1>2, <1>3, <1>4, <1>5 DEF UpFirst

\* An announcement of a change keeps the order of announcements.
LEMMA AnnounceKeepsQueue ==
  ASSUME Types, QueueOK, NEW x \in Member, NEW s, NEW type, Announce(x, s, type),
         \/ type \in {"NodeJoin", "NodeUpdate"} /\ s = "alive"
         \/ type = "NodeLeave" /\ s \in Down /\ state[x] = "alive"
  PROVE  QueueOK'
<1>1. nodeEventCh \in Seq(NodeEvent) /\ [Type |-> type, ID |-> x] \in NodeEvent
  BY DEF Types, NodeEvent
<1>2. PICK n \in DOMAIN nodeEventCh' :
           /\ n \in Nat
           /\ DOMAIN nodeEventCh' = DOMAIN nodeEventCh \cup {n}
           /\ \A i \in DOMAIN nodeEventCh : i \in Nat /\ i < n
           /\ \A m : \A i \in DOMAIN nodeEventCh :
                 (LeaveAt(m, i)' <=> LeaveAt(m, i)) /\ (AliveAt(m, i)' <=> AliveAt(m, i))
           /\ \A m : /\ LeaveAt(m, n)' <=> x = m /\ type = "NodeLeave"
                     /\ AliveAt(m, n)' <=> x = m /\ type # "NodeLeave"
  <2> PICK e : e = [Type |-> type, ID |-> x]
    OBVIOUS
  <2>1. e \in NodeEvent /\ e.ID = x /\ e.Type = type /\ nodeEventCh' = Append(nodeEventCh, e)
    BY <1>1 DEF Announce
  <2> QED
    BY <1>1, <2>1, Appended
<1>3. state' = [state EXCEPT ![x] = s] /\ x \in DOMAIN state
  BY DEF Announce, Types
<1>4. \A m \in Member \ {x} : state'[m] = state[m]
  BY <1>3 DEF Types
<1>5. state'[x] = s
  BY <1>3
<1>6. ASSUME NEW m \in Member, NEW i \in DOMAIN nodeEventCh', LeaveAt(m, i)'
      PROVE  state'[m] \in Down \/ \E j \in DOMAIN nodeEventCh' : i < j /\ AliveAt(m, j)'
  <2>1. CASE i \in DOMAIN nodeEventCh
    <3>1. state[m] \in Down \/ \E j \in DOMAIN nodeEventCh : i < j /\ AliveAt(m, j)
      BY <1>2, <1>6, <2>1 DEF QueueOK
    <3>2. ASSUME NEW j \in DOMAIN nodeEventCh, i < j, AliveAt(m, j)
          PROVE  \E k \in DOMAIN nodeEventCh' : i < k /\ AliveAt(m, k)'
      BY <1>2, <3>2
    <3>3. CASE state[m] \in Down
      BY <1>2, <1>4, <1>5, <1>6, <2>1, <3>3
    <3> QED
      BY <3>1, <3>2, <3>3
  <2>2. CASE i = n
    BY <1>2, <1>5, <1>6, <2>2
  <2> QED
    BY <1>2, <1>6, <2>1, <2>2
<1>7. ASSUME NEW m \in Member, NEW i \in DOMAIN nodeEventCh', LeaveAt(m, i)',
             NEW j \in DOMAIN nodeEventCh', i < j, LeaveAt(m, j)'
      PROVE  \E k \in DOMAIN nodeEventCh' : i < k /\ k < j /\ AliveAt(m, k)'
  <2>1. i \in DOMAIN nodeEventCh /\ LeaveAt(m, i)
    BY <1>2, <1>7
  <2>2. CASE j \in DOMAIN nodeEventCh
    <3>1. PICK k \in DOMAIN nodeEventCh : i < k /\ k < j /\ AliveAt(m, k)
      BY <1>2, <1>7, <2>1, <2>2 DEF QueueOK
    <3> QED
      BY <1>2, <3>1
  <2>3. CASE j = n
    <3>1. m = x /\ state[m] = "alive"
      BY <1>2, <1>7, <2>3
    <3>2. PICK k \in DOMAIN nodeEventCh : i < k /\ AliveAt(m, k)
      BY <2>1, <3>1 DEF QueueOK, Down
    <3> QED
      BY <1>2, <2>3, <3>2
  <2> QED
    BY <1>2, <1>7, <2>2, <2>3
<1>8. ASSUME NEW m \in Member, NEW i \in DOMAIN nodeEventCh', AliveAt(m, i)'
      PROVE  state'[m] = "alive" \/ \E j \in DOMAIN nodeEventCh' : i < j /\ LeaveAt(m, j)'
  <2>1. CASE i \in DOMAIN nodeEventCh
    <3>1. state[m] = "alive" \/ \E j \in DOMAIN nodeEventCh : i < j /\ LeaveAt(m, j)
      BY <1>2, <1>8, <2>1 DEF QueueOK
    <3>2. ASSUME NEW j \in DOMAIN nodeEventCh, i < j, LeaveAt(m, j)
          PROVE  \E k \in DOMAIN nodeEventCh' : i < k /\ LeaveAt(m, k)'
      BY <1>2, <3>2
    <3>3. CASE state[m] = "alive"
      BY <1>2, <1>4, <1>5, <1>8, <2>1, <3>3
    <3> QED
      BY <3>1, <3>2, <3>3
  <2>2. CASE i = n
    BY <1>2, <1>5, <1>8, <2>2
  <2> QED
    BY <1>2, <1>8, <2>1, <2>2
<1> QED
  BY <1>6, <1>7, <1>8 DEF QueueOK

\* So does taking the first one.
LEMMA TakeKeepsQueue ==
  ASSUME Types, QueueOK, nodeEventCh # <<>>, nodeEventCh' = Tail(nodeEventCh), UNCHANGED state
  PROVE  QueueOK'
<1>1. nodeEventCh \in Seq(NodeEvent)
  BY DEF Types
<1>2. ASSUME NEW i \in DOMAIN nodeEventCh', NEW j \in DOMAIN nodeEventCh, i + 1 < j
      PROVE  j - 1 \in DOMAIN nodeEventCh' /\ i < j - 1 /\ (j - 1) + 1 = j
  BY <1>1, <1>2, Shifted
<1>3. ASSUME NEW m \in Member, NEW i \in DOMAIN nodeEventCh', LeaveAt(m, i)'
      PROVE  state'[m] \in Down \/ \E j \in DOMAIN nodeEventCh' : i < j /\ AliveAt(m, j)'
  <2>1. i + 1 \in DOMAIN nodeEventCh /\ LeaveAt(m, i + 1)
    BY <1>1, <1>3, Shifted
  <2>2. ASSUME NEW j \in DOMAIN nodeEventCh, i + 1 < j, AliveAt(m, j)
        PROVE  \E k \in DOMAIN nodeEventCh' : i < k /\ AliveAt(m, k)'
    BY <1>1, <1>2, <1>3, <2>2, Shifted
  <2> QED
    BY <2>1, <2>2 DEF QueueOK
<1>4. ASSUME NEW m \in Member, NEW i \in DOMAIN nodeEventCh', LeaveAt(m, i)',
             NEW j \in DOMAIN nodeEventCh', i < j, LeaveAt(m, j)'
      PROVE  \E k \in DOMAIN nodeEventCh' : i < k /\ k < j /\ AliveAt(m, k)'
  <2>1. /\ i + 1 \in DOMAIN nodeEventCh /\ LeaveAt(m, i + 1)
        /\ j + 1 \in DOMAIN nodeEventCh /\ LeaveAt(m, j + 1) /\ i + 1 < j + 1
    BY <1>1, <1>4, Shifted
  <2>2. PICK k \in DOMAIN nodeEventCh : i + 1 < k /\ k < j + 1 /\ AliveAt(m, k)
    BY <2>1 DEF QueueOK
  <2>3. k - 1 \in DOMAIN nodeEventCh' /\ i < k - 1 /\ k - 1 < j /\ (k - 1) + 1 = k
    BY <1>1, <1>2, <1>4, <2>2, Shifted
  <2> QED
    BY <1>1, <2>2, <2>3, Shifted
<1>5. ASSUME NEW m \in Member, NEW i \in DOMAIN nodeEventCh', AliveAt(m, i)'
      PROVE  state'[m] = "alive" \/ \E j \in DOMAIN nodeEventCh' : i < j /\ LeaveAt(m, j)'
  <2>1. i + 1 \in DOMAIN nodeEventCh /\ AliveAt(m, i + 1)
    BY <1>1, <1>5, Shifted
  <2>2. ASSUME NEW j \in DOMAIN nodeEventCh, i + 1 < j, LeaveAt(m, j)
        PROVE  \E k \in DOMAIN nodeEventCh' : i < k /\ LeaveAt(m, k)'
    BY <1>1, <1>2, <1>5, <2>2, Shifted
  <2> QED
    BY <2>1, <2>2 DEF QueueOK
<1> QED
  BY <1>3, <1>4, <1>5 DEF QueueOK

\* The first announcement that is taken tells the state, or another one comes;
\* if it is of a leave, the next one is not.
LEMMA TakenIsNext ==
  ASSUME Types, QueueOK, nodeEventCh # <<>>, nodeEventCh' = Tail(nodeEventCh),
         NEW e, e = Head(nodeEventCh)
  PROVE  /\ e.Type = "NodeLeave" => /\ state[e.ID] \in Down \/ AliveComes(e.ID)'
                                    /\ UpFirst(e.ID)'
         /\ e.Type # "NodeLeave" => state[e.ID] = "alive" \/ LeaveComes(e.ID)'
<1>1. nodeEventCh \in Seq(NodeEvent) /\ e \in NodeEvent /\ e.ID \in Member /\ 1 \in DOMAIN nodeEventCh
  BY Shifted DEF Types, NodeEvent
<1>2. ASSUME e.Type = "NodeLeave"
      PROVE  state[e.ID] \in Down \/ AliveComes(e.ID)'
  <2>1. LeaveAt(e.ID, 1)
    BY <1>1, <1>2, Shifted
  <2>2. AliveComes(e.ID) => AliveComes(e.ID)'
    BY <1>1, <1>2, TakenComes
  <2> QED
    BY <1>1, <2>1, <2>2 DEF QueueOK, AliveComes
<1>3. ASSUME e.Type = "NodeLeave", NEW i \in DOMAIN nodeEventCh', LeaveAt(e.ID, i)'
      PROVE  \E k \in DOMAIN nodeEventCh' : k < i /\ AliveAt(e.ID, k)'
  <2>1. LeaveAt(e.ID, 1) /\ i + 1 \in DOMAIN nodeEventCh /\ 1 < i + 1 /\ LeaveAt(e.ID, i + 1)
    BY <1>1, <1>3, Shifted
  <2>2. PICK k \in DOMAIN nodeEventCh : 1 < k /\ k < i + 1 /\ AliveAt(e.ID, k)
    BY <1>1, <2>1 DEF QueueOK
  <2>3. k - 1 \in DOMAIN nodeEventCh' /\ k - 1 < i /\ (k - 1) + 1 = k
    BY <1>1, <1>3, <2>2, Shifted
  <2> QED
    BY <1>1, <2>2, <2>3, Shifted
<1>4. ASSUME e.Type # "NodeLeave"
      PROVE  state[e.ID] = "alive" \/ LeaveComes(e.ID)'
  <2>1. AliveAt(e.ID, 1)
    BY <1>1, <1>4, Shifted
  <2>2. LeaveComes(e.ID) => LeaveComes(e.ID)'
    BY <1>1, <1>4, TakenComes
  <2> QED
    BY <1>1, <2>1, <2>2 DEF QueueOK, LeaveComes
<1>5. e.Type = "NodeLeave" => UpFirst(e.ID)'
  BY <1>3 DEF UpFirst
<1> QED
  BY <1>2, <1>4, <1>5

-----------------------------------------------------------------------------
(* The steps. *)

\* Nothing is announced, nothing is taken.
LEMMA SameComing ==
  ASSUME UNCHANGED nodeEventCh
  PROVE  /\ \A m : (LeaveComes(m)' <=> LeaveComes(m)) /\ (AliveComes(m)' <=> AliveComes(m))
         /\ \A m : UpFirst(m)' <=> UpFirst(m)
BY DEF LeaveComes, AliveComes, UpFirst, LeaveAt, AliveAt

\* A change is announced.
LEMMA AnnounceStep ==
  ASSUME IInv, NEW x \in Member, NEW s, NEW type, Announce(x, s, type),
         \/ type \in {"NodeJoin", "NodeUpdate"} /\ s = "alive" /\ state[x] # "left"
         \/ type = "NodeLeave" /\ s \in Down /\ state[x] = "alive",
         departed \subseteq departed', departed' \subseteq Member,
         s = "left" => x \in departed',
         reconnect' \subseteq [ID : Member, joined : BOOLEAN],
         \A q, r \in reconnect' : q = r,
         UNCHANGED <<handling, failed, left, told, reaped, answered, last>>
  PROVE  IInv'
<1> USE DEF IInv
<1>1. PICK e \in NodeEvent : /\ e.ID = x /\ e.Type = type
                             /\ nodeEventCh' = Append(nodeEventCh, e)
  <2> DEFINE e == [Type |-> type, ID |-> x]
  <2>1. e \in NodeEvent /\ e.ID = x /\ e.Type = type /\ nodeEventCh' = Append(nodeEventCh, e)
    BY DEF NodeEvent, Announce
  <2> QED
    BY <2>1
<1>2. /\ state' \in [Member -> {"unknown", "alive", "dead", "left"}]
      /\ state'[x] = s /\ \A m \in Member \ {x} : state'[m] = state[m]
  BY DEF Announce, Types, Down
<1>3. nodeEventCh \in Seq(NodeEvent) /\ nodeEventCh' \in Seq(NodeEvent)
  BY <1>1 DEF Types
<1>4. \A m : /\ LeaveComes(m)' <=> LeaveComes(m) \/ (x = m /\ type = "NodeLeave")
             /\ AliveComes(m)' <=> AliveComes(m) \/ (x = m /\ type # "NodeLeave")
             /\ UpFirst(m) /\ (x # m \/ type # "NodeLeave" \/ AliveComes(m)) => UpFirst(m)'
  BY <1>1, <1>3, AnnouncedComes
<1>5. Comes(x)' /\ \A m : Comes(m) => Comes(m)'
  BY <1>4 DEF Comes
<1>6. Types'
  BY <1>2, <1>3 DEF Types
<1>7. QueueOK'
  BY AnnounceKeepsQueue
<1>8. \A t : \A m \in Member : True(t, m) => True(t, m)' \/ Comes(m)'
  BY <1>2, <1>5 DEF True
<1>9. \A h \in handling : h.ID \in Member
  BY DEF Types, Handled
<1>10. HandlingOK'
  <2>1. ASSUME NEW h \in handling
        PROVE  /\ True(h.Type, h.ID)' \/ Comes(h.ID)'
               /\ h.Type = "leave" => state'[h.ID] = "left"
               /\ h.Type \in GoesDown => /\ state'[h.ID] \in Down \/ AliveComes(h.ID)'
                                         /\ UpFirst(h.ID)'
    <3>1. True(h.Type, h.ID)' \/ Comes(h.ID)'
      BY <1>5, <1>8, <1>9 DEF HandlingOK
    <3>2. h.Type = "leave" => state'[h.ID] = "left"
      BY <1>2, <1>9 DEF HandlingOK, Down
    <3>3. h.Type \in GoesDown => state'[h.ID] \in Down \/ AliveComes(h.ID)'
      BY <1>2, <1>4, <1>9 DEF HandlingOK, Down
    <3>4. h.Type \in GoesDown => UpFirst(h.ID)'
      BY <1>4, <1>9 DEF HandlingOK, Down
    <3> QED
      BY <3>1, <3>2, <3>3, <3>4
  <2> QED
    BY <2>1 DEF HandlingOK
<1>11. LastOK'
  BY <1>5, <1>8 DEF LastOK
<1>12. \A m : GetsUp(m)' <=> GetsUp(m)
  BY DEF GetsUp
<1>13. ListedOK'
  <2>1. Listed' = Listed /\ Listed \subseteq Member
    BY DEF Listed, Types
  <2>2. ASSUME NEW m \in Listed
        PROVE  /\ state'[m] \in Down \/ AliveComes(m)' \/ GetsUp(m)'
               /\ UpFirst(m)' \/ GetsUp(m)'
    <3>1. state'[m] \in Down \/ AliveComes(m)' \/ GetsUp(m)'
      BY <1>2, <1>4, <1>12, <2>1 DEF ListedOK, Down
    <3>2. UpFirst(m)' \/ GetsUp(m)'
      BY <1>4, <1>12, <2>1 DEF ListedOK, Down
    <3> QED
      BY <3>1, <3>2
  <2> QED
    BY <2>1, <2>2 DEF ListedOK
<1>14. TrackedOK'
  BY <1>2, <1>5 DEF TrackedOK, Unlisted
<1> QED
  BY <1>6, <1>7, <1>10, <1>11, <1>13, <1>14

\* receiveNodeEvents takes an announcement and looks the state up.
LEMMA TakeStep == ASSUME IInv, TakeNodeEvent  PROVE IInv'
<1> USE DEF IInv
<1> PICK e : e = Head(nodeEventCh)
  OBVIOUS
<1>1. /\ nodeEventCh # <<>> /\ nodeEventCh' = Tail(nodeEventCh) /\ handling = {}
      /\ UNCHANGED <<state, departed, reconnect, failed, left, told, reaped, answered, last>>
  BY DEF TakeNodeEvent
<1>2. nodeEventCh \in Seq(NodeEvent) /\ nodeEventCh' \in Seq(NodeEvent) /\ e \in NodeEvent
  BY <1>1, Shifted DEF Types
<1>3. e.ID \in Member /\ e.Type \in {"NodeJoin", "NodeUpdate", "NodeLeave"}
  BY <1>2 DEF NodeEvent
<1>4. PICK h \in Handled :
           /\ handling' = {h} /\ h.ID = e.ID /\ h.listed = FALSE
           /\ e.Type # "NodeLeave" => h.Type \in {"join", "update"}
           /\ e.Type = "NodeLeave" => h.Type = IF state[e.ID] = "left" THEN "leave" ELSE "failed"
  <2> DEFINE type == CASE e.Type = "NodeJoin"   -> "join"
                       [] e.Type = "NodeUpdate" -> "update"
                       [] e.Type = "NodeLeave"  -> IF state[e.ID] = "left" THEN "leave" ELSE "failed"
  <2>1. handling' = {[Type |-> type, ID |-> e.ID, listed |-> FALSE]}
    BY DEF TakeNodeEvent
  <2>2. /\ type \in {"join", "update", "leave", "failed"}
        /\ e.Type # "NodeLeave" => type \in {"join", "update"}
        /\ e.Type = "NodeLeave" => type = IF state[e.ID] = "left" THEN "leave" ELSE "failed"
    BY <1>3
  <2> HIDE DEF type
  <2>3. [Type |-> type, ID |-> e.ID, listed |-> FALSE] \in Handled
    BY <1>3, <2>2 DEF Handled
  <2> QED
    BY <2>1, <2>2, <2>3
<1>5. \A m : /\ LeaveComes(m) <=> LeaveComes(m)' \/ (e.ID = m /\ e.Type = "NodeLeave")
             /\ AliveComes(m) <=> AliveComes(m)' \/ (e.ID = m /\ e.Type # "NodeLeave")
             /\ e.ID # m => (UpFirst(m) <=> UpFirst(m)')
             /\ e.ID = m /\ UpFirst(m) => e.Type # "NodeLeave"
  BY <1>1, <1>2, TakenComes
<1>6. /\ e.Type = "NodeLeave" => /\ state[e.ID] \in Down \/ AliveComes(e.ID)'
                                 /\ UpFirst(e.ID)'
      /\ e.Type # "NodeLeave" => state[e.ID] = "alive" \/ LeaveComes(e.ID)'
  BY <1>1, TakenIsNext
<1>7. \A m : Comes(m) <=> Comes(m)' \/ m = e.ID
  BY <1>3, <1>5 DEF Comes
<1>8. Types'
  BY <1>1, <1>2, <1>4 DEF Types
<1>9. QueueOK'
  BY <1>1, TakeKeepsQueue
<1>10. HandlingOK'
  <2>1. True(h.Type, h.ID)' \/ Comes(h.ID)'
    BY <1>1, <1>3, <1>4, <1>6 DEF True, Comes, Down
  <2>2. h.Type = "leave" => state'[h.ID] = "left"
    BY <1>1, <1>3, <1>4
  <2>3. h.Type \in GoesDown => /\ state'[h.ID] \in Down \/ AliveComes(h.ID)'
                               /\ UpFirst(h.ID)'
    BY <1>1, <1>3, <1>4, <1>6 DEF GoesDown
  <2> QED
    BY <1>4, <2>1, <2>2, <2>3 DEF HandlingOK
<1>11. LastOK'
  BY <1>1, <1>4, <1>7 DEF LastOK, True
<1>12. GetsUp(e.ID)' <=> e.Type # "NodeLeave"
  BY <1>3, <1>4 DEF GetsUp, GoesDown
<1>13. \A m : ~GetsUp(m)
  BY <1>1 DEF GetsUp
<1>14. ListedOK'
  <2>1. Listed' = Listed
    BY <1>1 DEF Listed
  <2>2. ASSUME NEW m \in Listed
        PROVE  /\ state'[m] \in Down \/ AliveComes(m)' \/ GetsUp(m)'
               /\ UpFirst(m)' \/ GetsUp(m)'
               /\ m = e.ID => e.Type # "NodeLeave"
    BY <1>1, <1>5, <1>12, <1>13 DEF ListedOK
  <2>3. ASSUME NEW m \in Listed, h.ID = m
        PROVE  h.Type \notin GoesDown
    BY <1>4, <2>2, <2>3 DEF GoesDown
  <2> QED
    BY <1>1, <1>4, <2>1, <2>2, <2>3 DEF ListedOK
<1>15. TrackedOK'
  BY <1>1, <1>4, <1>7 DEF TrackedOK, Unlisted
<1> QED
  BY <1>8, <1>9, <1>10, <1>11, <1>14, <1>15

\* The lists are changed.
LEMMA UpdateStep == ASSUME IInv, UpdateLists  PROVE IInv'
<1> USE DEF IInv
<1>1. PICK h \in handling :
           /\ ~h.listed
           /\ handling' = {[h EXCEPT !.listed = TRUE]}
           /\ CASE h.Type \in {"join", "update"} -> handleAlive(h.ID)
                [] h.Type = "failed"             -> addFail(h.ID)
                [] h.Type = "leave"              -> addLeft(h.ID)
           /\ reaped' = IF h.Type \in {"failed", "leave"} THEN reaped \ {h.ID} ELSE reaped
           /\ answered' = IF h.Type = "failed" THEN answered \ {h.ID} ELSE answered
           /\ UNCHANGED <<state, nodeEventCh, departed, reconnect, told, last>>
  BY DEF UpdateLists, world
<1>2. /\ handling = {h} /\ h \in Handled /\ h.ID \in Member
      /\ h.Type \in {"join", "update", "leave", "failed"}
  BY DEF Types, Handled
<1>3. PICK g : g = [h EXCEPT !.listed = TRUE]
  OBVIOUS
<1>4. /\ g \in Handled /\ g.ID = h.ID /\ g.Type = h.Type /\ g.listed = TRUE /\ handling' = {g}
  BY <1>1, <1>2, <1>3 DEF Handled
<1>5. \/ /\ h.Type \in {"join", "update"} /\ failed' = failed \ {h.ID} /\ left' = left \ {h.ID}
         /\ reaped' = reaped /\ answered' = answered
      \/ /\ h.Type = "failed" /\ failed' = failed \cup {h.ID} /\ left' = left
         /\ reaped' = reaped \ {h.ID} /\ answered' = answered \ {h.ID}
      \/ /\ h.Type = "leave" /\ failed' = failed /\ left' = left \cup {h.ID}
         /\ reaped' = reaped \ {h.ID} /\ answered' = answered
  BY <1>1, <1>2 DEF handleAlive, addFail, addLeft
<1>6. /\ \A m : (LeaveComes(m)' <=> LeaveComes(m)) /\ (AliveComes(m)' <=> AliveComes(m))
      /\ \A m : UpFirst(m)' <=> UpFirst(m)
      /\ \A m : Comes(m)' <=> Comes(m)
      /\ \A m, t : True(t, m)' <=> True(t, m)
  BY <1>1, SameComing DEF Comes, True
<1>7. Types'
  BY <1>1, <1>2, <1>4, <1>5 DEF Types, HandlingOK
<1>8. QueueOK'
  BY <1>1 DEF QueueOK, LeaveAt, AliveAt
<1>9. HandlingOK'
  BY <1>1, <1>4, <1>6 DEF HandlingOK
<1>10. LastOK'
  BY <1>1, <1>2, <1>4, <1>6 DEF LastOK
<1>11. ~GetsUp(h.ID)' /\ \A m : m # h.ID => (GetsUp(m)' <=> GetsUp(m))
  BY <1>2, <1>4 DEF GetsUp
<1>12. h.Type \in GoesDown <=> h.Type \in {"failed", "leave"}
  BY DEF GoesDown
<1>13. GetsUp(h.ID) <=> h.Type \in {"join", "update"}
  BY <1>1, <1>2 DEF GetsUp, GoesDown
<1>14. ListedOK'
  <2>1. ASSUME NEW m \in Listed', m # h.ID
        PROVE  /\ m \in Listed
               /\ state'[m] \in Down \/ AliveComes(m)' \/ GetsUp(m)'
               /\ UpFirst(m)' \/ GetsUp(m)'
               /\ m \notin told' => m \notin reaped' /\ m \notin failed' \cap left'
    <3>1. m \in Listed
      BY <1>1, <1>5, <2>1 DEF Listed
    <3> QED
      BY <1>1, <1>5, <1>6, <1>11, <2>1, <3>1 DEF ListedOK
  <2>2. ASSUME h.ID \in Listed'
        PROVE  /\ state'[h.ID] \in Down \/ AliveComes(h.ID)'
               /\ UpFirst(h.ID)'
               /\ h.ID \notin told' => h.ID \notin reaped' /\ h.ID \notin failed' \cap left'
    <3>1. h.Type \in {"failed", "leave"}
      BY <1>5, <2>2 DEF Listed
    <3>2. h.ID \notin Listed
      BY <1>1, <1>12, <3>1 DEF ListedOK
    <3> QED
      BY <1>1, <1>5, <1>6, <1>12, <3>1, <3>2 DEF HandlingOK, Listed
  <2> QED
    BY <1>4, <2>1, <2>2 DEF ListedOK
<1>15. TrackedOK'
  <2>1. ASSUME NEW m \in Member, state'[m] = "dead", ~Comes(m)'
        PROVE  m \in failed' \cup reaped' \cup answered'
    <3>1. CASE m = h.ID
      <4>1. h.Type = "failed"
        BY <1>1, <1>2, <1>6, <2>1, <3>1 DEF HandlingOK, True
      <4> QED
        BY <1>5, <3>1, <4>1
    <3>2. CASE m # h.ID
      <4>1. ~Unlisted(m)
        BY <1>2, <3>2 DEF Unlisted
      <4>2. m \in failed \cup reaped \cup answered
        BY <1>1, <1>6, <2>1, <4>1 DEF TrackedOK
      <4> QED
        BY <1>5, <3>2, <4>2
    <3> QED
      BY <3>1, <3>2
  <2> QED
    BY <2>1 DEF TrackedOK
<1> QED
  BY <1>7, <1>8, <1>9, <1>10, <1>14, <1>15

\* The member event is sent.
LEMMA SendStep == ASSUME IInv, SendMemberEvent  PROVE IInv'
<1> USE DEF IInv
<1>1. PICK h \in handling :
           /\ h.listed
           /\ handling' = {}
           /\ last' = [last EXCEPT ![h.ID] = h.Type]
           /\ UNCHANGED <<state, nodeEventCh, departed, failed, left, reconnect, told, reaped, answered>>
  BY DEF SendMemberEvent, world, lists
<1>2. /\ handling = {h} /\ h.ID \in Member
      /\ h.Type \in {"join", "update", "leave", "failed"}
  BY DEF Types, Handled
<1>3. /\ \A m : (LeaveComes(m)' <=> LeaveComes(m)) /\ (AliveComes(m)' <=> AliveComes(m))
      /\ \A m : UpFirst(m)' <=> UpFirst(m)
      /\ \A m : Comes(m)' <=> Comes(m)
      /\ \A m, t : True(t, m)' <=> True(t, m)
  BY <1>1, SameComing DEF Comes, True
<1>4. Types'
  BY <1>1, <1>2 DEF Types
<1>5. QueueOK'
  BY <1>1 DEF QueueOK, LeaveAt, AliveAt
<1>6. HandlingOK'
  BY <1>1 DEF HandlingOK
<1>7. LastOK'
  <2>1. last'[h.ID] = h.Type /\ \A m \in Member \ {h.ID} : last'[m] = last[m]
    BY <1>1, <1>2 DEF Types
  <2>2. ASSUME NEW m \in Member
        PROVE  True(last'[m], m) \/ Comes(m)
    <3>1. CASE m = h.ID
      BY <2>1, <3>1 DEF HandlingOK
    <3>2. CASE m # h.ID
      BY <1>2, <2>1, <3>2 DEF LastOK
    <3> QED
      BY <3>1, <3>2
  <2> QED
    BY <1>1, <1>3, <2>2 DEF LastOK, True
<1>8. \A m : ~GetsUp(m) /\ ~GetsUp(m)' /\ ~Unlisted(m) /\ ~Unlisted(m)'
  BY <1>1, <1>2 DEF GetsUp, Unlisted
<1>9. ListedOK'
  BY <1>1, <1>3, <1>8 DEF ListedOK, Listed
<1>10. TrackedOK'
  BY <1>1, <1>3, <1>8 DEF TrackedOK
<1> QED
  BY <1>4, <1>5, <1>6, <1>7, <1>9, <1>10

\* Members get off the lists, or are put on that of the left ones because a
\* peer said so; memberlist and receiveNodeEvents do nothing.
LEMMA OffListStep ==
  ASSUME IInv, UNCHANGED <<state, departed, nodeEventCh, handling, last>>,
         failed' \subseteq failed, left' \subseteq departed, told \subseteq told', told' \subseteq departed,
         left' \ told' \subseteq left \ told,
         reaped' \subseteq reaped \cup ((failed \cup left) \ (failed' \cup left')) \cup (failed \cap left),
         failed \subseteq failed' \cup reaped' \cup answered',
         reaped \subseteq reaped', answered \subseteq answered',
         reconnect' \subseteq [ID : Member, joined : BOOLEAN],
         \A q, r \in reconnect' : q = r
  PROVE  IInv'
<1> USE DEF IInv
<1>1. /\ \A m : (LeaveComes(m)' <=> LeaveComes(m)) /\ (AliveComes(m)' <=> AliveComes(m))
      /\ \A m : UpFirst(m)' <=> UpFirst(m)
      /\ \A m : Comes(m)' <=> Comes(m)
      /\ \A m, t : True(t, m)' <=> True(t, m)
      /\ \A m : (GetsUp(m)' <=> GetsUp(m)) /\ (Unlisted(m)' <=> Unlisted(m))
  BY SameComing DEF Comes, True, GetsUp, Unlisted
<1>2. Types'
  BY DEF Types
<1>3. QueueOK'
  BY DEF QueueOK, LeaveAt, AliveAt
<1>4. HandlingOK' /\ LastOK'
  BY <1>1 DEF HandlingOK, LastOK
<1>5. ListedOK'
  <2>1. Listed' \subseteq Listed
    BY DEF Listed
  <2>2. ASSUME NEW m \in Listed', m \notin told'
        PROVE  m \notin reaped' /\ m \notin failed' \cap left'
    <3>1. m \notin told /\ m \notin reaped /\ m \notin failed \cap left /\ m \in failed' \cup left'
      BY <2>1, <2>2 DEF ListedOK, Listed
    <3>2. m \notin failed' \cap left'
      BY <2>2, <3>1
    <3> QED
      BY <3>1, <3>2
  <2> QED
    BY <1>1, <2>1, <2>2 DEF ListedOK
<1>6. TrackedOK'
  BY <1>1 DEF TrackedOK
<1> QED
  BY <1>2, <1>3, <1>4, <1>5, <1>6

\* The reaper takes members off the lists.
LEMMA ReapStep ==
  ASSUME IInv, ReapLists
  PROVE  /\ IInv'
         /\ \A r \in reaping' : r.ID \notin told =>
               r.ID \notin reaped /\ \A q \in reaping' : q.ID = r.ID => q = r
<1> USE DEF IInv
<1>1. PICK fs \in SUBSET failed, ls \in SUBSET left :
           /\ failed' = failed \ fs
           /\ left' = left \ ls
           /\ reaped' = reaped \cup fs \cup ls
           /\ reaping' = {[ID |-> m, from |-> "failed"] : m \in fs} \cup {[ID |-> m, from |-> "left"] : m \in ls}
           /\ UNCHANGED <<state, departed, nodeEventCh, handling, last, reconnect, told, answered>>
  BY DEF ReapLists, world
<1>2. IInv'
  BY <1>1, OffListStep DEF Types
<1>3. ASSUME NEW r \in reaping', r.ID \notin told
      PROVE  r.ID \notin reaped /\ \A q \in reaping' : q.ID = r.ID => q = r
  <2>1. r.ID \in Listed /\ r.ID \notin failed \cap left
    BY <1>1, <1>3 DEF ListedOK, Listed
  <2>2. ASSUME NEW q \in reaping', q.ID = r.ID
        PROVE  q = r
    BY <1>1, <2>1, <2>2
  <2> QED
    BY <1>3, <2>1, <2>2 DEF ListedOK
<1> QED
  BY <1>2, <1>3

\* The state of a peer is merged.
LEMMA MergeStep == ASSUME IInv, MergeLeftNodes  PROVE IInv'
<1> USE DEF IInv
<1>1. PICK batch \in Batches : left' = addLeftBatch(batch) /\ told' = told \cup SX!ToSet(batch)
  BY DEF MergeLeftNodes
<1>2. \A i \in DOMAIN batch : batch[i] \in departed
  BY DEF Batches
<1>3. SX!ToSet(batch) = {batch[i] : i \in DOMAIN batch}
  BY DEF SX!ToSet
<1>4. left' \subseteq left \cup {batch[i] : i \in DOMAIN batch}
  BY <1>1 DEF addLeftBatch
<1>5. left \subseteq departed /\ told \subseteq departed
  BY DEF Types
<1>6. left' \subseteq departed /\ told' \subseteq departed /\ told \subseteq told'
      /\ left' \ told' \subseteq left \ told
  BY <1>1, <1>2, <1>3, <1>4, <1>5
<1>7. UNCHANGED <<state, departed, nodeEventCh, handling, last, failed, reaped, answered, reconnect>>
  BY DEF MergeLeftNodes, world
<1>8. failed' \subseteq failed /\ reaped' = reaped
      /\ failed \subseteq failed' \cup reaped' \cup answered'
      /\ reconnect' \subseteq [ID : Member, joined : BOOLEAN] /\ \A q, r \in reconnect' : q = r
  BY <1>7 DEF Types
<1> QED
  BY <1>6, <1>7, <1>8, OffListStep

\* Reconnect goes on.
LEMMA ReconnectStep ==
  ASSUME IInv, shouldConnect \/ PickNone \/ (\E m \in Member : PickFailed(m)) \/ JoinUnanswered \/ RemoveFailed
  PROVE  IInv'
<1> USE DEF IInv
<1>1. UNCHANGED <<state, departed, nodeEventCh, handling, last, left, told, reaped>>
  BY DEF shouldConnect, PickNone, PickFailed, JoinUnanswered, RemoveFailed, world, lists
<1>2. reconnect' = {} \/ reconnect' = reconnect \/ \E m \in Member : reconnect' = {[ID |-> m, joined |-> FALSE]}
  BY DEF shouldConnect, PickNone, PickFailed, JoinUnanswered, RemoveFailed
<1>3. /\ reconnect' \subseteq [ID : Member, joined : BOOLEAN]
      /\ \A q, r \in reconnect' : q = r
  <2>1. CASE reconnect' = {}
    BY <2>1
  <2>2. CASE reconnect' = reconnect
    BY <2>2 DEF Types
  <2>3. CASE reconnect' # {} /\ reconnect' # reconnect
    <3>1. PICK m \in Member : reconnect' = {[ID |-> m, joined |-> FALSE]}
      BY <1>2, <2>3
    <3>2. [ID |-> m, joined |-> FALSE] \in [ID : Member, joined : BOOLEAN]
      OBVIOUS
    <3> QED
      BY <3>1, <3>2
  <2> QED
    BY <2>1, <2>2, <2>3
<1>4. failed' \subseteq failed /\ failed \subseteq failed' \cup reaped' \cup answered'
      /\ answered \subseteq answered'
  BY DEF shouldConnect, PickNone, PickFailed, JoinUnanswered, RemoveFailed, lists
<1>5. left' \subseteq departed /\ told \subseteq told' /\ told' \subseteq departed
  BY <1>1 DEF Types
<1> QED
  BY <1>1, <1>3, <1>4, <1>5, OffListStep

\* The member that is joined answers, or another one at its address.
LEMMA JoinStep == ASSUME IInv, JoinAnswered  PROVE IInv'
<1> USE DEF IInv
<1>1. PICK r \in reconnect :
           /\ reconnect' = {[r EXCEPT !.joined = TRUE]}
           /\ \/ state[r.ID] = "dead" /\ Announce(r.ID, "alive", "NodeJoin")
              \/ UNCHANGED <<state, nodeEventCh>>
           /\ UNCHANGED <<departed, handling, failed, left, told, reaped, answered, last>>
  BY DEF JoinAnswered, lists
<1>2. r \in [ID : Member, joined : BOOLEAN] /\ r.ID \in Member
  BY DEF Types
<1>3. [r EXCEPT !.joined = TRUE] \in [ID : Member, joined : BOOLEAN]
  BY <1>2
<1>4. reconnect' \subseteq [ID : Member, joined : BOOLEAN] /\ \A p, q \in reconnect' : p = q
  BY <1>1, <1>3
<1>5. departed \subseteq Member
  BY DEF Types
<1>6. CASE state[r.ID] = "dead" /\ Announce(r.ID, "alive", "NodeJoin")
  BY <1>1, <1>2, <1>4, <1>5, <1>6, AnnounceStep
<1>7. CASE UNCHANGED <<state, nodeEventCh>>
  BY <1>1, <1>4, <1>7, OffListStep DEF Types
<1> QED
  BY <1>1, <1>6, <1>7

\* A member joins, dies or leaves.
LEMMA ChangeStep == ASSUME IInv, NEW m \in Member, Alive(m) \/ Dead(m) \/ Departs(m)  PROVE IInv'
<1> USE DEF IInv
<1>1. UNCHANGED <<handling, failed, left, reconnect, told, reaped, answered, last>>
  BY DEF Alive, Dead, Departs, Change
<1>2. /\ departed \subseteq Member
      /\ reconnect' \subseteq [ID : Member, joined : BOOLEAN] /\ \A q, r \in reconnect' : q = r
  BY <1>1 DEF Types
<1>3. CASE Alive(m)
  <2>1. UNCHANGED departed /\ state[m] # "left"
        /\ (Announce(m, "alive", "NodeJoin") \/ Announce(m, "alive", "NodeUpdate"))
    BY <1>3 DEF Alive
  <2> QED
    BY <1>1, <1>2, <2>1, AnnounceStep
<1>4. CASE Dead(m)
  <2>1. UNCHANGED departed /\ state[m] = "alive" /\ Announce(m, "dead", "NodeLeave")
    BY <1>4 DEF Dead
  <2> QED
    BY <1>1, <1>2, <2>1, AnnounceStep DEF Down
<1>5. CASE Departs(m)
  <2>1. /\ departed' = departed \cup {m} /\ state[m] = "alive"
        /\ Announce(m, "left", "NodeLeave") \/ UNCHANGED <<state, nodeEventCh>>
    BY <1>5 DEF Departs
  <2>2. CASE Announce(m, "left", "NodeLeave")
    BY <1>1, <1>2, <2>1, <2>2, AnnounceStep DEF Down
  <2>3. CASE UNCHANGED <<state, nodeEventCh>>
    <3>1. Types'
      BY <1>1, <2>1, <2>3 DEF Types
    <3>2. /\ \A x : (LeaveComes(x)' <=> LeaveComes(x)) /\ (AliveComes(x)' <=> AliveComes(x))
          /\ \A x : UpFirst(x)' <=> UpFirst(x)
          /\ \A x : Comes(x)' <=> Comes(x)
          /\ \A x, t : True(t, x)' <=> True(t, x)
          /\ \A x : (GetsUp(x)' <=> GetsUp(x)) /\ (Unlisted(x)' <=> Unlisted(x))
      BY <1>1, <2>3, SameComing DEF Comes, True, GetsUp, Unlisted
    <3>3. QueueOK'
      BY <2>3 DEF QueueOK, LeaveAt, AliveAt
    <3>4. HandlingOK' /\ LastOK'
      BY <1>1, <2>3, <3>2 DEF HandlingOK, LastOK
    <3>5. ListedOK' /\ TrackedOK'
      BY <1>1, <2>3, <3>2 DEF ListedOK, Listed, TrackedOK
    <3> QED
      BY <3>1, <3>3, <3>4, <3>5
  <2> QED
    BY <2>1, <2>2, <2>3
<1> QED
  BY <1>3, <1>4, <1>5

\* The reaper's events, and no step at all, change nothing of this.
LEMMA IdleStep == ASSUME IInv, SendReapEvent \/ UNCHANGED vars  PROVE IInv'
<1> USE DEF IInv
<1>1. UNCHANGED <<state, departed, nodeEventCh, handling, failed, left, reconnect,
                  told, reaped, answered, last>>
  BY DEF SendReapEvent, vars, world, lists
<1> QED
  BY <1>1, OffListStep DEF Types

-----------------------------------------------------------------------------
(* The theorems. *)

\* The invariant holds at the start.
LEMMA IInvInit == Init => IInv
<1> SUFFICES ASSUME Init
             PROVE  IInv
  OBVIOUS
<1>1. Types
  BY DEF Init, Types
<1>2. QueueOK /\ HandlingOK /\ LastOK /\ ListedOK /\ TrackedOK
  BY DEF Init, QueueOK, HandlingOK, LastOK, ListedOK, Listed, TrackedOK, True
<1> QED
  BY <1>1, <1>2 DEF IInv

\* Every step keeps the invariant.
LEMMA IInvStep == IInv /\ [Next]_vars => IInv'
BY ChangeStep, TakeStep, UpdateStep, SendStep, ReapStep, ReconnectStep, JoinStep, MergeStep,
   IdleStep DEF Next

\* The invariant holds always.
LEMMA IInvariant == Spec => []IInv
<1>1. Init => IInv
  BY IInvInit
<1>2. IInv /\ [Next]_vars => IInv'
  BY IInvStep
<1> QED
  BY <1>1, <1>2, PTL DEF Spec

\* Whether reconnect is about to pick a member is a truth value.
LEMMA ConnectingType == Spec => [](connecting \in BOOLEAN)
<1> DEFINE Type == connecting \in BOOLEAN
<1>1. Type /\ [Next]_vars => Type'
  BY DEF Next, Alive, Dead, Departs, Change, TakeNodeEvent, UpdateLists, SendMemberEvent,
         ReapLists, SendReapEvent, shouldConnect, PickFailed, PickNone, JoinAnswered,
         JoinUnanswered, RemoveFailed, MergeLeftNodes, vars
<1>2. Init => Type
  BY DEF Init
<1> QED
  BY <1>1, <1>2, PTL DEF Spec

\* A set whose elements are all the same has one at most.
LEMMA OneAtMost ==
  ASSUME NEW S, \A x, y \in S : x = y
  PROVE  Cardinality(S) <= 1
<1>1. CASE S = {}
  BY <1>1, FS_EmptySet
<1>2. CASE S # {}
  <2>1. PICK x \in S : S = {x}
    BY <1>2
  <2>2. Cardinality(S) = 1
    BY <2>1, FS_Singleton
  <2> QED
    BY <2>2
<1> QED
  BY <1>1, <1>2

\* Once nothing is under way the lists hold no member that is alive, but one
\* that is leaving, and no member that failed has got lost.
THEOREM ListsMatchState == Spec => []ListsInv
<1>1. IInv /\ connecting \in BOOLEAN => ListsInv
  <2> SUFFICES ASSUME IInv, connecting \in BOOLEAN
               PROVE  ListsInv
    OBVIOUS
  <2> USE DEF IInv
  <2>1. TypeOK
    BY OneAtMost DEF Types, TypeOK
  <2>2. ASSUME Quiet
        PROVE  \A m \in Member : ~Comes(m) /\ ~AliveComes(m) /\ ~GetsUp(m) /\ ~Unlisted(m)
    BY <2>2 DEF Quiet, Comes, LeaveComes, AliveComes, GetsUp, Unlisted
  <2>3. ASSUME Quiet, NEW m \in Member, state[m] = "alive"
        PROVE  m \notin failed /\ (m \in left => m \in departed)
    BY <2>2, <2>3 DEF ListedOK, Listed, Down, Types
  <2>4. FailedIsTracked
    BY <2>2 DEF FailedIsTracked, TrackedOK
  <2> QED
    BY <2>1, <2>3, <2>4 DEF ListsInv
<1> QED
  BY <1>1, IInvariant, ConnectingType, PTL

\* Once nothing is under way the application was last told what memberlist says.
THEOREM EventsAreTrue == Spec => []EventsMatchState
<1>1. IInv => EventsMatchState
  <2> SUFFICES ASSUME IInv, Quiet, NEW m \in Member
               PROVE  True(last[m], m)
    BY DEF IInv, Types, EventsMatchState, True
  <2>1. ~Comes(m) /\ handling = {}
    BY DEF Quiet, Comes, LeaveComes, AliveComes
  <2> QED
    BY <2>1 DEF IInv, LastOK
<1> QED
  BY <1>1, IInvariant, PTL

\* A member is reaped once, and from one list.
THEOREM MembersReapedOnce == Spec => ReapedOnce
<1> DEFINE Once == \A r \in reaping' \ reaping : r.ID \notin told =>
                      r.ID \notin reaped /\ \A q \in reaping' : q.ID = r.ID => q = r
<1>1. IInv /\ [Next]_vars => [Once]_vars
  <2> SUFFICES ASSUME IInv, Next
               PROVE  Once
    OBVIOUS
  <2>1. CASE ReapLists
    BY <2>1, ReapStep
  <2>2. CASE ~ReapLists
    <3>1. reaping' \subseteq reaping
      BY <2>2 DEF Next, Alive, Dead, Departs, Change, shouldConnect, PickNone, PickFailed, TakeNodeEvent,
                  UpdateLists, SendMemberEvent, SendReapEvent, JoinAnswered, JoinUnanswered, RemoveFailed,
                  MergeLeftNodes
    <3> QED
      BY <3>1
  <2> QED
    BY <2>1, <2>2
<1> QED
  BY <1>1, IInvariant, PTL DEF Spec, ReapedOnce

-----------------------------------------------------------------------------
(* The remainders the ring of latencies is addressed by. *)

\* The remainder is in range, and what the quotient leaves.
LEMMA Remainder ==
  ASSUME NEW w \in Nat \ {0}, NEW k \in Nat
  PROVE  /\ k % w \in 0 .. w - 1
         /\ k \div w \in Int /\ k = w * (k \div w) + (k % w)
  OBVIOUS

\* Numbers with one remainder are a window apart.
LEMMA RemainderGap ==
  ASSUME NEW w \in Nat \ {0}, NEW a \in Nat, NEW b \in Nat, a % w = b % w, a < b
  PROVE  a + w <= b
<1> DEFINE q == a \div w
           r == b \div w
<1>1. /\ q \in Int /\ a = w * q + (a % w) /\ a % w \in Int
      /\ r \in Int /\ b = w * r + (a % w)
  BY Remainder
<1> HIDE DEF q, r
<1>2. q < r
  <2>1. r <= q => w * r <= w * q
    BY <1>1
  <2> QED
    BY <1>1, <2>1
<1>3. w * q + w <= w * r
  BY <1>1, <1>2
<1> QED
  BY <1>1, <1>3

\* A number is what it is by its remainder.
LEMMA RemainderIs ==
  ASSUME NEW w \in Nat \ {0}, NEW k \in Nat, NEW q \in Int, NEW r \in 0 .. w - 1, k = w * q + r
  PROVE  k % w = r
<1> DEFINE p == k \div w
           s == k % w
<1>1. p \in Int /\ s \in 0 .. w - 1 /\ k = w * p + s
  BY Remainder
<1> HIDE DEF p, s
<1>2. p < q => w * p + w <= w * q
  BY <1>1
<1>3. q < p => w * q + w <= w * p
  BY <1>1
<1>4. p = q
  BY <1>1, <1>2, <1>3
<1> QED
  BY <1>1, <1>4 DEF s

\* The next one.
LEMMA RemainderStep ==
  ASSUME NEW w \in Nat \ {0}, NEW k \in Nat
  PROVE  /\ (k + 1) % w = IF (k % w) + 1 = w THEN 0 ELSE (k % w) + 1
         /\ k < w => k % w = k
         /\ (k + w) % w = k % w
<1> DEFINE q == k \div w
           r == k % w
<1>1. q \in Int /\ r \in 0 .. w - 1 /\ k = w * q + r
  BY Remainder
<1> HIDE DEF q, r
<1>2. r + 1 = w => (k + 1) % w = 0
  <2>1. r + 1 = w => k + 1 = w * (q + 1) + 0
    BY <1>1
  <2> QED
    BY <1>1, <2>1, RemainderIs
<1>3. r + 1 # w => (k + 1) % w = r + 1
  <2>1. r + 1 # w => r + 1 \in 0 .. w - 1 /\ k + 1 = w * q + (r + 1)
    BY <1>1
  <2> QED
    BY <1>1, <2>1, RemainderIs
<1>4. k < w => k % w = k
  <2>1. k = w * 0 + k
    OBVIOUS
  <2> QED
    BY <2>1, RemainderIs
<1>5. (k + w) % w = r
  <2>1. k + w = w * (q + 1) + r
    BY <1>1
  <2> QED
    BY <1>1, <2>1, RemainderIs
<1> QED
  BY <1>2, <1>3, <1>4, <1>5 DEF r

-----------------------------------------------------------------------------
(* Coordinates. *)

W == AdjustmentWindowSize
InUse == {"near", "far"}

PingTypes == /\ PingTypeOK
             /\ finish \in [Prober -> SUBSET [peer : Peer, size : InUse, moved : Coord]]

\* The places of the ring that are taken, the samples they hold, the place of the i-th.
Width == IF Len(samples) < W THEN Len(samples) ELSE W
Recent == Len(samples) - Width + 1 .. Len(samples)
Turn(i) == ((i - 1) % W) + 1

\* The ring holds the latest samples, and nothing else.
WindowOK ==
    /\ latenciesDiff \in [idx : Int, latencies : Seq(Size)]
    /\ Len(latenciesDiff.latencies) = Width
    /\ W # 0 => /\ latenciesDiff.idx = IF samples = <<>> THEN -1 ELSE (Len(samples) - 1) % W
                /\ \A i \in Recent : latenciesDiff.latencies[Turn(i)] = samples[i].diff
                /\ \A j \in 1 .. Width : \E i \in Recent : Turn(i) = j

\* A difference that is not near comes of a coordinate that was not.
FarOK == \A i \in DOMAIN samples : samples[i].diff # "near" => samples[i].far

\* What is cached of the own coordinate is not newer than it.
CacheOK == \A c, d \in coordCache[Self] : c = d /\ c.version <= coord.version

PingInv == PingTypes /\ WindowOK /\ FarOK /\ CacheOK

\* What Relax may make of the coordinate and of the ring.
LEMMA RelaxedIs ==
  ASSUME NEW other \in InUse, coord.size \in InUse, NEW r \in Relaxed(other)
  PROVE  /\ r.size \in Size /\ r.diff \in Size
         /\ r.diff # "near" => "far" \in {other, coord.size}
         /\ r.ring = IF W = 0 THEN latenciesDiff ELSE add(latenciesDiff, r.diff)
         /\ r.size = "bad" => \/ "far" \in {other, coord.size}
                              \/ W # 0 /\ \E v \in Values(r.ring) : v # "near"
<1>1. PICK size \in relax(coord.size, other) :
         \E adj \in adjust(latenciesDiff, size, other), nudged \in centerNudge(size) :
            r = [size |-> Worst(nudged, adj.adjustment), ring |-> adj.ring, diff |-> adj.diff]
  BY DEF Relaxed
<1>0. PICK adj \in adjust(latenciesDiff, size, other), nudged \in centerNudge(size) :
         r = [size |-> Worst(nudged, adj.adjustment), ring |-> adj.ring, diff |-> adj.diff]
  BY <1>1
<1>2. size \in Size /\ (size # "near" => "far" \in {other, coord.size})
  BY DEF relax, Between, Size, InUse
<1>3. nudged \in Size /\ (nudged = "bad" => size # "near")
  BY <1>2 DEF centerNudge, Between, Size
<1>4. CASE W = 0
  <2>1. adj = [ring |-> latenciesDiff, diff |-> "near", adjustment |-> "near"]
    BY <1>4 DEF adjust, W
  <2> QED
    BY <1>0, <1>2, <1>3, <1>4, <2>1 DEF Worst, Size
<1>5. CASE W # 0
  <2>0. PICK diff \in Between(size, other) :
           \E a \in getAdjustment(add(latenciesDiff, diff)) :
              adj = [ring |-> add(latenciesDiff, diff), diff |-> diff, adjustment |-> a]
    BY <1>5 DEF adjust, W
  <2>1. PICK a \in getAdjustment(add(latenciesDiff, diff)) :
           adj = [ring |-> add(latenciesDiff, diff), diff |-> diff, adjustment |-> a]
    BY <2>0
  <2>2. diff \in Size /\ (diff # "near" => "far" \in {other, coord.size})
    BY <1>2, <2>1 DEF Between, Size, InUse
  <2> DEFINE ring == add(latenciesDiff, diff)
  <2>3. a \in Size /\ (a # "near" => \E v \in Values(ring) : v # "near")
    <3> HIDE DEF ring
    <3> QED
      BY <2>1 DEF getAdjustment, Size, ring
  <2>4. /\ r.size = Worst(nudged, a) /\ r.ring = ring /\ r.diff = diff
    BY <1>0, <2>1
  <2> HIDE DEF ring
  <2>5. /\ Worst(nudged, a) \in Size
        /\ Worst(nudged, a) = "bad" => nudged = "bad" \/ a = "bad"
    BY <1>3, <2>3 DEF Worst, Size
  <2> QED
    BY <1>2, <1>3, <1>5, <2>2, <2>3, <2>4, <2>5 DEF ring
<1> QED
  BY <1>4, <1>5

\* A slot of a ring is written: the next one, or one that is taken.
LEMMA SlotWritten ==
  ASSUME NEW S, NEW old \in Seq(S), NEW w \in Nat \ {0}, NEW k \in Nat, NEW n \in 0 .. w - 1,
         k < w => n = k, Len(old) = (IF k < w THEN k ELSE w), NEW d \in S,
         NEW new, new = IF Len(old) = n THEN Append(old, d) ELSE [old EXCEPT ![n + 1] = d],
         NEW m, m = IF k < w THEN k + 1 ELSE w
  PROVE  /\ new \in Seq(S) /\ Len(new) = m
         /\ \A j \in 1 .. m : new[j] = IF j = n + 1 THEN d ELSE old[j]
<1>1. CASE k < w
  <2>1. new = Append(old, d) /\ n = k /\ m = k + 1
    BY <1>1
  <2> QED
    BY <2>1, <1>1
<1>2. CASE ~ (k < w)
  <2>1. new = [old EXCEPT ![n + 1] = d] /\ m = w /\ Len(old) = w
    BY <1>2
  <2>2. n + 1 \in 1 .. Len(old) /\ DOMAIN old = 1 .. Len(old)
    BY <2>1
  <2> QED
    BY <2>1, <2>2
<1> QED
  BY <1>1, <1>2

\* A sample more in the ring: it takes the place of the oldest when the ring is
\* full, and the next place before.
LEMMA SampleAdded ==
  ASSUME CoordinatesAssumption, WindowOK, samples \in Seq([diff : Size, far : BOOLEAN]),
         NEW sample \in [diff : Size, far : BOOLEAN],
         samples' = Append(samples, sample),
         latenciesDiff' = IF W = 0 THEN latenciesDiff ELSE add(latenciesDiff, sample.diff)
  PROVE  WindowOK'
<1> DEFINE k == Len(samples)
<1>1. /\ W \in Nat /\ k \in Nat /\ W' = W
      /\ Len(samples') = k + 1 /\ samples'[k + 1] = sample
      /\ \A i \in 1 .. k : samples'[i] = samples[i]
  BY DEF CoordinatesAssumption, W
<1>2. CASE W = 0
  BY <1>1, <1>2 DEF WindowOK, Width, Recent, Turn
<1>3. CASE W # 0
  <2> DEFINE n == k % W
  <2>1. n \in 0 .. W - 1 /\ (k < W => n = k)
    BY <1>1, <1>3, Remainder, RemainderStep
  <2>2. (IF latenciesDiff.idx + 1 = W THEN 0 ELSE latenciesDiff.idx + 1) = n
    <3>1. CASE k = 0
      BY <1>1, <1>3, <3>1, <2>1 DEF WindowOK
    <3>2. CASE k # 0
      <4>1. latenciesDiff.idx = (k - 1) % W
        BY <1>1, <1>3, <3>2 DEF WindowOK
      <4>2. k - 1 \in Nat /\ (k - 1) + 1 = k
        BY <1>1, <3>2
      <4>3. ((k - 1) + 1) % W = IF ((k - 1) % W) + 1 = W THEN 0 ELSE ((k - 1) % W) + 1
        BY <1>1, <1>3, <4>2, RemainderStep
      <4> QED
        BY <4>1, <4>2, <4>3
    <3> QED
      BY <3>1, <3>2
  <2> DEFINE old == latenciesDiff.latencies
             new == latenciesDiff'.latencies
  <2>3. old \in Seq(Size) /\ Len(old) = IF k < W THEN k ELSE W
    BY DEF WindowOK, Width
  <2>4. /\ latenciesDiff'.idx = n
        /\ new = IF Len(old) = n THEN Append(old, sample.diff) ELSE [old EXCEPT ![n + 1] = sample.diff]
        /\ latenciesDiff' = [idx |-> latenciesDiff'.idx, latencies |-> new]
    BY <1>3, <2>2 DEF add, W
  <2> HIDE DEF n
  <2>5. Width' = (IF k < W THEN k + 1 ELSE W)
    BY <1>1 DEF Width
  <2>6. /\ new \in Seq(Size) /\ Len(new) = Width'
        /\ \A j \in 1 .. Width' : new[j] = IF j = n + 1 THEN sample.diff ELSE old[j]
    <3>1. sample.diff \in Size /\ W \in Nat \ {0} /\ k \in Nat
      BY <1>1, <1>3
    <3> HIDE DEF k, old, new
    <3> QED
      BY <2>1, <2>3, <2>4, <2>5, <3>1, SlotWritten
  <2> HIDE DEF k, old, new
  <2>7. /\ Recent' = k + 2 - Width' .. k + 1
        /\ Recent = k + 1 - Width .. k /\ Width = (IF k < W THEN k ELSE W)
    BY <1>1 DEF Recent, Width, k
  <2>8. \A i \in Recent : Turn(i) = n + 1 => i \notin Recent'
    <3> SUFFICES ASSUME NEW i \in Recent, Turn(i) = n + 1
                 PROVE  i \notin Recent'
      OBVIOUS
    <3>1. i \in Int /\ 1 <= i /\ i <= k
      BY <1>1, <2>7
    <3>2. (i - 1) % W \in Int /\ (i - 1) % W = n
      BY <1>1, <1>3, <3>1, <2>1, Remainder DEF Turn
    <3>3. i - 1 + W <= k
      <4>1. W \in Nat \ {0} /\ i - 1 \in Nat /\ k \in Nat /\ i - 1 < k /\ (i - 1) % W = k % W
        BY <1>1, <1>3, <3>1, <3>2 DEF n
      <4> QED
        BY <4>1, RemainderGap
    <3> QED
      BY <1>1, <3>1, <3>3, <2>5, <2>7
  <2>9. \A i \in Recent' : i = k + 1 \/ i \in Recent
    BY <1>1, <2>5, <2>7
  <2>10. Turn(k + 1) = n + 1 /\ k + 1 \in Recent'
    BY <1>1, <1>3, <2>5, <2>7 DEF Turn, n
  <2>11. \A i \in Recent : Turn(i) \in 1 .. Width
    <3> SUFFICES ASSUME NEW i \in Recent
                 PROVE  Turn(i) \in 1 .. Width
      OBVIOUS
    <3>1. i \in Int /\ 1 <= i /\ i <= k
      BY <1>1, <2>7
    <3>2. (i - 1) % W \in 0 .. W - 1 /\ (i - 1 < W => (i - 1) % W = i - 1)
      <4>1. W \in Nat \ {0} /\ i - 1 \in Nat
        BY <1>1, <1>3, <3>1
      <4> QED
        BY <4>1, Remainder, RemainderStep
    <3> QED
      BY <1>1, <2>7, <3>1, <3>2 DEF Turn
  <2>12. ASSUME NEW i \in Recent'
         PROVE  new[Turn(i)] = samples'[i].diff
    <3>1. CASE i = k + 1
      BY <1>1, <2>1, <2>5, <2>6, <2>10, <3>1
    <3>2. CASE i # k + 1
      <4>1. i \in Recent /\ Turn(i) # n + 1 /\ Turn(i) \in 1 .. Width
        BY <2>8, <2>9, <2>11, <3>2
      <4>2. old[Turn(i)] = samples[i].diff /\ samples'[i] = samples[i] /\ Turn(i) \in 1 .. Width'
        BY <1>1, <1>3, <2>5, <2>7, <4>1 DEF WindowOK, old
      <4> QED
        BY <2>6, <4>1, <4>2
    <3> QED
      BY <3>1, <3>2
  <2>13. ASSUME NEW j \in 1 .. Width'
         PROVE  \E i \in Recent' : Turn(i) = j
    <3>1. CASE j = n + 1
      BY <2>10, <3>1
    <3>2. CASE j # n + 1
      <4>1. j \in 1 .. Width
        BY <1>1, <2>1, <2>5, <2>7, <3>2
      <4>2. PICK i \in Recent : Turn(i) = j
        BY <1>3, <4>1 DEF WindowOK
      <4>3. i # k - W + 1
        <5> SUFFICES ASSUME i = k - W + 1
                     PROVE  FALSE
          OBVIOUS
        <5>1. k - W \in Nat /\ (k - W) + W = k
          BY <1>1, <2>7
        <5>2. (k - W) % W = n
          BY <1>1, <1>3, <5>1, RemainderStep DEF n
        <5> QED
          BY <1>1, <4>2, <5>1, <5>2, <3>2 DEF Turn
      <4>4. i \in Recent'
        <5>1. i \in Int /\ k + 1 - Width <= i /\ i <= k
          BY <1>1, <2>7, <4>2
        <5>2. k + 2 - Width' <= i
          BY <1>1, <2>5, <2>7, <4>3, <5>1
        <5> QED
          BY <1>1, <2>5, <2>7, <5>1, <5>2
      <4> QED
        BY <4>2, <4>4
    <3> QED
      BY <3>1, <3>2
  <2>14. latenciesDiff' \in [idx : Int, latencies : Seq(Size)]
    <3>1. n \in Int
      BY <2>1
    <3>2. latenciesDiff' = [idx |-> n, latencies |-> new]
      BY <2>4
    <3> QED
      BY <3>1, <3>2, <2>6
  <2>15. samples' # <<>> /\ (Len(samples') - 1) % W' = n
    BY <1>1 DEF n, k
  <2>16. \A i : Turn(i)' = Turn(i)
    BY <1>1 DEF Turn
  <2> QED
    BY <1>1, <2>4, <2>6, <2>12, <2>13, <2>14, <2>15, <2>16 DEF WindowOK, new
<1> QED
  BY <1>2, <1>3

\* A step writes no older own coordinate to the cache.
NotOlder == \A old \in coordCache[Self], new \in coordCache'[Self] : new.version >= old.version

\* A step resets the coordinate only if one of the last samples was of a far one.
ResetIsRecent ==
    numResets' # numResets =>
       \E i \in DOMAIN samples' :
          /\ samples'[i].far
          /\ i = Len(samples') \/ i > Len(samples') - AdjustmentWindowSize

\* A ping that moves the coordinate.
LEMMA PingMoves ==
  ASSUME CoordinatesAssumption, PingInv,
         NEW g \in Prober, NEW n \in Peer, NEW other \in Size, NEW inRange \in BOOLEAN,
         Finish(g, n, other, inRange)
  PROVE  PingInv' /\ ResetIsRecent
<1>1. PICK r \in Relaxed(other) :
         /\ coord' = [version |-> coord.version + 1,
                      size |-> IF r.size = "bad" THEN "near" ELSE r.size]
         /\ numResets' = IF r.size = "bad" THEN numResets + 1 ELSE numResets
         /\ latenciesDiff' = r.ring
         /\ samples' = Append(samples, [diff |-> r.diff, far |-> "far" \in {other, coord.size}])
         /\ finish' = [finish EXCEPT ![g] = {[peer |-> n, size |-> other, moved |-> coord']}]
  BY DEF Finish, Move, NewCoordinate
<1>2. /\ other \in InUse
      /\ coord \in [version : 0 .. MaxPings, size : InUse] /\ coord.version < MaxPings
      /\ id' = id /\ coordCache' = coordCache /\ rtt' = rtt
  BY DEF Finish, Finishing, checkCoordinate, Size, InUse, PingInv, PingTypes,
         PingTypeOK, Coord
<1>3. /\ r.size \in Size /\ r.diff \in Size
      /\ r.diff # "near" => "far" \in {other, coord.size}
      /\ r.ring = IF W = 0 THEN latenciesDiff ELSE add(latenciesDiff, r.diff)
      /\ r.size = "bad" => \/ "far" \in {other, coord.size}
                           \/ W # 0 /\ \E v \in Values(r.ring) : v # "near"
  <2>1. coord.size \in InUse
    BY <1>2
  <2> QED
    BY <1>2, <2>1, RelaxedIs
<1> DEFINE sample == [diff |-> r.diff, far |-> "far" \in {other, coord.size}]
<1>4. sample \in [diff : Size, far : BOOLEAN]
  BY <1>3
<1>5. /\ samples \in Seq([diff : Size, far : BOOLEAN])
      /\ samples' = Append(samples, sample) /\ sample.diff = r.diff
      /\ sample.far = ("far" \in {other, coord.size})
      /\ WindowOK /\ MaxPings \in Nat
  BY <1>1 DEF PingInv, PingTypes, PingTypeOK, CoordinatesAssumption
<1> HIDE DEF sample
<1>6. WindowOK'
  BY <1>1, <1>3, <1>4, <1>5, SampleAdded
<1>7. /\ samples' \in Seq([diff : Size, far : BOOLEAN])
      /\ Len(samples') = Len(samples) + 1 /\ samples'[Len(samples')] = sample
      /\ DOMAIN samples' = 1 .. Len(samples') /\ DOMAIN samples = 1 .. Len(samples)
      /\ \A i \in DOMAIN samples : samples'[i] = samples[i]
  BY <1>4, <1>5
<1>8. coord' \in Coord /\ coord'.version = coord.version + 1
  <2>1. (IF r.size = "bad" THEN "near" ELSE r.size) \in InUse
    BY <1>3 DEF Size, InUse
  <2>2. coord.version \in 0 .. MaxPings /\ coord.version + 1 \in 0 .. MaxPings
    BY <1>2, <1>5
  <2> QED
    BY <1>1, <2>1, <2>2 DEF Coord, InUse
<1>9. PingTypes'
  <2>1. [peer |-> n, size |-> other, moved |-> coord'] \in [peer : Peer, size : InUse, moved : Coord]
    BY <1>2, <1>8
  <2>2. finish' \in [Prober -> SUBSET [peer : Peer, size : InUse, moved : Coord]]
    BY <1>1, <2>1 DEF PingInv, PingTypes
  <2> QED
    BY <1>2, <1>7, <1>8, <2>2 DEF PingInv, PingTypes, PingTypeOK, Coord, Key
<1>10. FarOK'
  BY <1>3, <1>5, <1>7 DEF FarOK, PingInv
<1>11. CacheOK'
  <2>1. \A c \in coordCache[Self] : c.version \in Int
    BY DEF PingInv, PingTypes, PingTypeOK, Coord, Key
  <2> QED
    BY <1>2, <1>8, <2>1 DEF CacheOK, PingInv
<1>12. ASSUME numResets' # numResets
       PROVE  \E i \in DOMAIN samples' :
                 /\ samples'[i].far
                 /\ i = Len(samples') \/ i > Len(samples') - AdjustmentWindowSize
  <2>1. CASE "far" \in {other, coord.size}
    BY <1>5, <1>7, <2>1
  <2>2. CASE W # 0 /\ \E v \in Values(r.ring) : v # "near"
    <3>1. PICK j \in DOMAIN latenciesDiff'.latencies : latenciesDiff'.latencies[j] # "near"
      BY <1>1, <2>2 DEF Values
    <3>2. j \in 1 .. Width' /\ W' # 0
      BY <1>6, <2>2, <3>1 DEF WindowOK, W
    <3>3. PICK i \in Recent' : Turn(i)' = j
      BY <1>6, <3>2 DEF WindowOK
    <3>4. samples'[i].diff # "near"
      BY <1>6, <3>1, <3>2, <3>3 DEF WindowOK
    <3>5. i \in DOMAIN samples' /\ i > Len(samples') - AdjustmentWindowSize
      BY <1>7, <2>2 DEF Recent, Width, W, CoordinatesAssumption
    <3> QED
      BY <1>10, <3>4, <3>5 DEF FarOK
  <2> QED
    BY <1>1, <1>3, <1>12, <2>1, <2>2
<1> QED
  BY <1>6, <1>9, <1>10, <1>11, <1>12 DEF PingInv, ResetIsRecent

\* The invariant holds at the start and after every step; the steps that do not
\* end a ping reset nothing, and write no older own coordinate to the cache.
LEMMA PingStarts ==
  ASSUME CoordinatesAssumption, PingInit
  PROVE  PingInv
<1>1. PingTypes
  BY DEF CoordinatesAssumption, PingInit, NewCoordinate, PingTypes, PingTypeOK, Coord
<1>2. WindowOK
  BY DEF CoordinatesAssumption, PingInit, newLatencyRing, WindowOK, Width, Recent, W
<1>3. FarOK /\ CacheOK
  BY DEF PingInit, FarOK, CacheOK, Key
<1> QED
  BY <1>1, <1>2, <1>3 DEF PingInv

\* Every step of the ping delegate keeps what is true of the coordinates.
LEMMA PingStep ==
  ASSUME CoordinatesAssumption, PingInv, [PingNext]_pingVars
  PROVE  PingInv' /\ NotOlder /\ ResetIsRecent
<1> USE DEF nodeVars, Key
<1>0. /\ Self \in Key /\ Self \notin Peer /\ Self # NoID /\ coord \in Coord
      /\ \A c \in Coord : c.version \in Int
      /\ coordCache \in [Key -> SUBSET Coord]
  BY DEF CoordinatesAssumption, PingInv, PingTypes, PingTypeOK, Coord
<1>a. ASSUME UNCHANGED <<coord, latenciesDiff, numResets, samples>>, PingTypes',
             coordCache'[Self] \subseteq coordCache[Self] \/ coordCache'[Self] = {coord}
      PROVE  PingInv' /\ NotOlder /\ ResetIsRecent
  <2>1. WindowOK' /\ FarOK'
    BY <1>a DEF PingInv, WindowOK, FarOK, Width, Recent, Turn, W
  <2>2. CacheOK' /\ NotOlder
    BY <1>0, <1>a DEF PingInv, CacheOK, NotOlder
  <2> QED
    BY <1>a, <2>1, <2>2 DEF PingInv, ResetIsRecent
<1>1. CASE SetID
  <2>1. PingTypes' /\ coordCache' = coordCache
    BY <1>1 DEF SetID, PingInv, PingTypes, PingTypeOK
  <2> QED
    BY <1>1, <1>a, <2>1 DEF SetID
<1>2. ASSUME NEW g \in Prober, NEW n \in Peer, NEW other \in Size, NEW inRange \in BOOLEAN,
             Finish(g, n, other, inRange)
      PROVE  PingInv' /\ NotOlder /\ ResetIsRecent
  <2>1. coordCache' = coordCache
    BY <1>2 DEF Finish
  <2>2. NotOlder
    BY <1>0, <2>1 DEF PingInv, CacheOK, NotOlder
  <2> QED
    BY <1>2, <2>2, PingMoves
<1>3. ASSUME NEW g \in Prober, CacheCoords(g)
      PROVE  PingInv' /\ NotOlder /\ ResetIsRecent
  <2>1. PICK f \in finish[g] :
           /\ coordCache' = [coordCache EXCEPT ![f.peer] = {[version |-> 0, size |-> f.size]},
                                               ![id] = {coord}]
           /\ finish' = [finish EXCEPT ![g] = {}]
           /\ UNCHANGED <<id, coord, latenciesDiff, numResets, samples, rtt>>
    BY <1>3 DEF CacheCoords
  <2>2. f.peer \in Peer /\ f.size \in InUse /\ id \in {Self, NoID}
    BY DEF PingInv, PingTypes, PingTypeOK
  <2>3. coordCache'[Self] = IF id = Self THEN {coord} ELSE coordCache[Self]
    BY <1>0, <2>1, <2>2
  <2>4. [version |-> 0, size |-> f.size] \in Coord
    BY <2>2 DEF CoordinatesAssumption, Coord, InUse
  <2>5. coordCache' \in [Key -> SUBSET Coord]
    BY <1>0, <2>1, <2>2, <2>4
  <2>6. PingTypes'
    BY <2>1, <2>5 DEF PingInv, PingTypes, PingTypeOK, Coord
  <2> QED
    BY <1>a, <2>1, <2>3, <2>6
<1>4. ASSUME NEW n \in Peer, RemoveCachedCoord(n)
      PROVE  PingInv' /\ NotOlder /\ ResetIsRecent
  <2>1. PingTypes' /\ coordCache'[Self] = coordCache[Self]
    BY <1>0, <1>4 DEF RemoveCachedCoord, PingInv, PingTypes, PingTypeOK
  <2> QED
    BY <1>4, <1>a, <2>1 DEF RemoveCachedCoord
<1>5. ASSUME NEW c \in Caller, NEW n \in Key \ {NoID},
             RttFirst(c, n) \/ RttSecond(c, n)
      PROVE  PingInv' /\ NotOlder /\ ResetIsRecent
  <2>1. UNCHANGED <<id, coord, latenciesDiff, numResets, samples, coordCache, finish>>
    BY <1>5 DEF RttFirst, RttSecond
  <2>2. rtt' \in [Caller -> SUBSET Coord]
    BY <1>0, <1>5 DEF RttFirst, RttSecond, PingInv, PingTypes, PingTypeOK
  <2>3. PingTypes'
    BY <2>1, <2>2 DEF PingInv, PingTypes, PingTypeOK, Coord
  <2> QED
    BY <1>a, <2>1, <2>3
<1>6. CASE UNCHANGED pingVars
  <2>1. PingTypes' /\ UNCHANGED <<coord, latenciesDiff, numResets, samples, coordCache>>
    BY <1>6 DEF pingVars, PingInv, PingTypes, PingTypeOK, Coord
  <2> QED
    BY <1>a, <2>1
<1> QED
  BY <1>1, <1>2, <1>3, <1>4, <1>5, <1>6 DEF PingNext

\* The invariant gives the one that is checked.
LEMMA PingInvGives ==
  ASSUME PingInv
  PROVE  CoordInv
BY DEF PingInv, PingTypes, WindowOK, Width, Recent, Turn, W, CoordInv, RingIsWindow

\* Whatever peers answer and in whatever order pings end, members are reaped and
\* Rtt reads, every coordinate that is sent, cached or computed with is finite,
\* and the ring of differences holds the last samples, each in the slot of its
\* turn (ping_delegate.go:57, coordinate.go:90, node.go:32).
THEOREM CoordHolds == PingSpec => []CoordInv
<1>1. PingInit => PingInv
  BY CoordinatesAssumption, PingStarts
<1>2. PingInv /\ [PingNext]_pingVars => PingInv'
  BY CoordinatesAssumption, PingStep
<1>3. PingInv => CoordInv
  BY PingInvGives
<1> QED
  BY <1>1, <1>2, <1>3, PTL DEF PingSpec

\* The own coordinate in the cache is never replaced by an older one, although
\* a ping moves it and caches it in two critical sections and several pings end
\* at once (ping_delegate.go:77,83).
THEOREM OwnCoordinateNeverGoesBack == PingSpec => OwnNeverBack
<1>1. PingInit => PingInv
  BY CoordinatesAssumption, PingStarts
<1>2. PingInv /\ [PingNext]_pingVars => PingInv' /\ NotOlder
  BY CoordinatesAssumption, PingStep
<1> QED
  BY <1>1, <1>2, PTL DEF PingSpec, OwnNeverBack, NotOlder

\* A coordinate is reset only while one of the last samples was of a coordinate
\* out of range: the ring, which a reset keeps, forgets it (node.go:187,217).
THEOREM ResetsAreRecent == PingSpec => ResetsEnd
<1>1. PingInit => PingInv
  BY CoordinatesAssumption, PingStarts
<1>2. PingInv /\ [PingNext]_pingVars => PingInv' /\ ResetIsRecent
  BY CoordinatesAssumption, PingStep
<1> QED
  BY <1>1, <1>2, PTL DEF PingSpec, ResetsEnd, ResetIsRecent

-----------------------------------------------------------------------------
(* Actions: induction over what a node is sent. *)

\* Induction over the natural numbers, as the least number not in a set.
LEMMA SetInduction ==
  ASSUME NEW S, 0 \in S, \A n \in Nat : n \in S => n + 1 \in S
  PROVE  Nat \subseteq S
<1> DEFINE R == OpToRel(<, Nat)
           T == Nat \ S
<1>1. IsWellFoundedOn(R, Nat)
  BY NatLessThanWellFounded, Zenon
<1>2. \A x, y \in Nat : x < y => <<x, y>> \in R
  BY DEF OpToRel
<1> HIDE DEF R
<1>3. SUFFICES ASSUME T # {}
               PROVE  FALSE
  OBVIOUS
<1>4. T \subseteq Nat
  OBVIOUS
<1> HIDE DEF T
<1>5. PICK x \in T : \A y \in T : ~ (<<y, x>> \in R)
  BY <1>1, <1>3, <1>4, WFMin
<1>6. x \in Nat /\ x # 0
  BY <1>4 DEF T
<1>7. x - 1 \in Nat /\ x - 1 < x
  BY <1>6
<1>8. x - 1 \notin T
  BY <1>2, <1>5, <1>6, <1>7
<1> QED
  BY <1>6, <1>7, <1>8 DEF T

-----------------------------------------------------------------------------
(* The recursive functions of the model have the values their definitions     *)
(* give: a function of that kind exists for every length.                     *)

MsgOf(item) == [LTime |-> item.LTime, Payload |-> item.Payload]

\* HandleAll handles the actions one by one.
LEMMA HandleAllIs ==
  ASSUME NEW s, NEW actions, Len(actions) \in Nat
  PROVE  \E f : /\ f[0] = s
                /\ \A i \in 1 .. Len(actions) : f[i] = handleAction(f[i - 1], MsgOf(actions[i]))
                /\ HandleAll(s, actions) = f[Len(actions)]
<1> DEFINE Def(n, f) == f = [i \in 0 .. n |-> IF i = 0 THEN s
                                              ELSE handleAction(f[i - 1], MsgOf(actions[i]))]
           S == {n \in Nat : \E f : Def(n, f)}
<1>1. 0 \in S
  <2> DEFINE f == [i \in 0 .. 0 |-> s]
  <2>1. Def(0, f)
    OBVIOUS
  <2> QED
    BY <2>1
<1>2. ASSUME NEW n \in Nat, n \in S
      PROVE  n + 1 \in S
  <2>1. PICK f : Def(n, f)
    BY <1>2
  <2> DEFINE g == [i \in 0 .. n + 1 |-> IF i = n + 1 THEN handleAction(f[n], MsgOf(actions[n + 1]))
                                        ELSE f[i]]
  <2>2. \A i \in 0 .. n : g[i] = f[i]
    OBVIOUS
  <2>3. f[0] = s /\ \A i \in 1 .. n : f[i] = handleAction(f[i - 1], MsgOf(actions[i]))
    BY <2>1
  <2>4. ASSUME NEW i \in 0 .. n + 1
        PROVE  g[i] = IF i = 0 THEN s ELSE handleAction(g[i - 1], MsgOf(actions[i]))
    <3>1. CASE i = n + 1
      BY <2>2, <3>1
    <3>2. CASE i # n + 1
      <4>1. i \in 0 .. n /\ (i # 0 => i \in 1 .. n /\ i - 1 \in 0 .. n)
        BY <3>2
      <4> HIDE DEF g
      <4> QED
        BY <2>2, <2>3, <4>1
    <3> QED
      BY <3>1, <3>2
  <2>5. Def(n + 1, g)
    <3>1. g = [i \in 0 .. n + 1 |-> g[i]]
      OBVIOUS
    <3> HIDE DEF g
    <3> QED
      BY <2>4, <3>1
  <2> HIDE DEF g
  <2>6. n + 1 \in Nat
    OBVIOUS
  <2> QED
    BY <2>5, <2>6
<1>3. Len(actions) \in S
  <2> HIDE DEF S
  <2> QED
    BY <1>1, <1>2, SetInduction
<1> DEFINE h == CHOOSE f : Def(Len(actions), f)
<1>4. Def(Len(actions), h)
  BY <1>3
<1>5. HandleAll(s, actions) = h[Len(actions)]
  BY DEF HandleAll, MsgOf
<1> HIDE DEF h
<1> QED
  BY <1>4, <1>5

\* LocalState sends nothing but items of the buffer.
LEMMA BufferedActionsIs ==
  ASSUME NEW T, NEW buf, \A j \in 0 .. BufSize - 1 : buf[j].Items \in Seq(T)
  PROVE  BufferedActions(buf) \in Seq(T)
<1> DEFINE Def(n, f) == f = [i \in 0 .. n |-> IF i = 0 THEN <<>> ELSE f[i - 1] \o buf[i - 1].Items]
           S == {n \in Nat : \E f : Def(n, f)}
<1>1. 0 \in S
  <2> DEFINE f == [i \in 0 .. 0 |-> <<>>]
  <2>1. Def(0, f)
    OBVIOUS
  <2> QED
    BY <2>1
<1>2. ASSUME NEW n \in Nat, n \in S
      PROVE  n + 1 \in S
  <2>1. PICK f : Def(n, f)
    BY <1>2
  <2> DEFINE g == [i \in 0 .. n + 1 |-> IF i = n + 1 THEN f[n] \o buf[n].Items ELSE f[i]]
  <2>2. \A i \in 0 .. n : g[i] = f[i]
    OBVIOUS
  <2>3. f[0] = <<>> /\ \A i \in 1 .. n : f[i] = f[i - 1] \o buf[i - 1].Items
    BY <2>1
  <2>4. ASSUME NEW i \in 0 .. n + 1
        PROVE  g[i] = IF i = 0 THEN <<>> ELSE g[i - 1] \o buf[i - 1].Items
    <3>1. CASE i = n + 1
      BY <2>2, <3>1
    <3>2. CASE i # n + 1
      <4>1. i \in 0 .. n /\ (i # 0 => i \in 1 .. n /\ i - 1 \in 0 .. n)
        BY <3>2
      <4> HIDE DEF g
      <4> QED
        BY <2>2, <2>3, <4>1
    <3> QED
      BY <3>1, <3>2
  <2>5. Def(n + 1, g)
    <3>1. g = [i \in 0 .. n + 1 |-> g[i]]
      OBVIOUS
    <3> HIDE DEF g
    <3> QED
      BY <2>4, <3>1
  <2> HIDE DEF g
  <2>6. n + 1 \in Nat
    OBVIOUS
  <2> QED
    BY <2>5, <2>6
<1>3. BufSize \in S
  <2> HIDE DEF S
  <2> QED
    BY <1>1, <1>2, SetInduction, BufferAssumption
<1> DEFINE h == CHOOSE f : Def(BufSize, f)
<1>4. Def(BufSize, h)
  BY <1>3
<1>5. BufferedActions(buf) = h[BufSize]
  BY DEF BufferedActions
<1> HIDE DEF h
<1>6. h[0] = <<>> /\ \A i \in 1 .. BufSize : h[i] = h[i - 1] \o buf[i - 1].Items
  <2>1. BufSize \in Nat /\ 0 \in 0 .. BufSize /\ \A i \in 1 .. BufSize : i \in 0 .. BufSize /\ i # 0
    BY BufferAssumption
  <2> QED
    BY <1>4, <2>1
<1> DEFINE Q == {n \in Nat : n <= BufSize => h[n] \in Seq(T)}
<1>7. 0 \in Q
  <2>1. <<>> \in Seq(T)
    OBVIOUS
  <2> QED
    BY <1>6, <2>1
<1>8. ASSUME NEW n \in Nat, n \in Q
      PROVE  n + 1 \in Q
  <2> SUFFICES ASSUME n + 1 <= BufSize
               PROVE  h[n + 1] \in Seq(T)
    OBVIOUS
  <2>1. n \in 0 .. BufSize - 1 /\ n + 1 \in 1 .. BufSize /\ (n + 1) - 1 = n /\ h[n] \in Seq(T)
    BY <1>8, BufferAssumption
  <2>2. h[n + 1] = h[n] \o buf[n].Items /\ buf[n].Items \in Seq(T)
    BY <1>6, <2>1
  <2> QED
    BY <2>1, <2>2
<1>9. BufSize \in Q
  <2> HIDE DEF Q
  <2> QED
    BY <1>7, <1>8, SetInduction, BufferAssumption
<1> QED
  BY <1>5, <1>9

-----------------------------------------------------------------------------
(* One node. *)

BufferItem == [LTime : 1 .. MaxTime - 1, ID : {0}, Payload : Payload]
Group == [LTime : Nat, Items : Seq(BufferItem)]
NodeState == [clock : Nat \ {0}, minTime : Nat, buffers : [0 .. BufSize - 1 -> Group],
              queue : SUBSET Act, events : [Act -> {0, 1}], lastActionClock : Nat]

\* The slot of an action remembers it, or a later one.
Remembered(s, a) ==
    LET group == s.buffers[Slot(a.LTime)]
    IN  /\ group.Items # <<>>
        /\ \/ group.LTime > a.LTime
           \/ group.LTime = a.LTime /\ has(group, Item(a))

\* A node has its messages from those known, the clock is past what the buffer
\* holds, and what was sent on inEventCh is remembered.
NodeOK(s, known) ==
    /\ s \in NodeState /\ s.queue \subseteq known
    /\ \A j \in 0 .. BufSize - 1 :
          /\ \A i \in DOMAIN s.buffers[j].Items : MsgOf(s.buffers[j].Items[i]) \in known
          /\ s.buffers[j].Items # <<>> =>
                s.buffers[j].LTime < s.clock /\ Slot(s.buffers[j].LTime) = j
    /\ \A a \in Act : s.events[a] = 1 => Remembered(s, a) /\ a.LTime <= s.lastActionClock

\* What becomes of a node in a run: its times grow, and it sends actions that are
\* known and not below its minimum time, each for the first time.
Grows(s, r, known) ==
    /\ r.clock >= s.clock /\ r.minTime >= s.minTime /\ r.lastActionClock >= s.lastActionClock
    /\ \A a \in Act : \/ r.events[a] = s.events[a]
                      \/ /\ s.events[a] = 0 /\ r.events[a] = 1
                         /\ a \in known /\ a.LTime >= s.minTime

\* Growth is transitive.
LEMMA GrowsOn ==
  ASSUME NEW known, NEW r, NEW s \in NodeState, NEW t,
         NodeOK(r, known), NodeOK(t, known), Grows(s, r, known), Grows(r, t, known)
  PROVE  Grows(s, t, known)
<1>1. r \in NodeState /\ t \in NodeState
  BY DEF NodeOK
<1>2. \A x \in NodeState : x.clock \in Int /\ x.minTime \in Int /\ x.lastActionClock \in Int
  BY DEF NodeState
<1>3. \A a \in Act : a.LTime \in Int
  BY DEF Act
<1> QED
  BY <1>1, <1>2, <1>3 DEF Grows

\* Witness moves the clock past the time, and nothing else.
LEMMA Witnessed ==
  ASSUME NEW known, NEW s, NodeOK(s, known), NEW t \in Nat
  PROVE  /\ NodeOK(Witness(s, t), known) /\ Grows(s, Witness(s, t), known)
         /\ Witness(s, t).clock > t /\ Witness(s, t).minTime = s.minTime
<1> DEFINE w == Witness(s, t)
<1>1. s \in NodeState
  BY DEF NodeOK
<1>2. /\ w \in NodeState /\ w.clock >= s.clock /\ w.clock > t
      /\ w.minTime = s.minTime /\ w.buffers = s.buffers /\ w.queue = s.queue
      /\ w.events = s.events /\ w.lastActionClock = s.lastActionClock
  BY <1>1 DEF Witness, NodeState
<1>3. s.clock \in Int /\ w.clock \in Int /\ s.minTime \in Int /\ s.lastActionClock \in Int
  BY <1>1, <1>2 DEF NodeState
<1>4. \A j \in 0 .. BufSize - 1 : s.buffers[j].LTime \in Int
  <2>1. s.buffers \in [0 .. BufSize - 1 -> Group] /\ \A x \in Group : x.LTime \in Int
    BY <1>1 DEF NodeState, Group
  <2> QED
    BY <2>1
<1> HIDE DEF w
<1>5. NodeOK(w, known)
  BY <1>2, <1>3, <1>4 DEF NodeOK, Remembered
<1>6. Grows(s, w, known)
  BY <1>2, <1>3 DEF Grows
<1> QED
  BY <1>2, <1>5, <1>6 DEF w

\* The times of one slot are at least a buffer apart.
LEMMA SlotApart ==
  ASSUME NEW t \in Nat, NEW u \in Nat, Slot(t) = Slot(u), t < u
  PROVE  t + BufSize <= u
BY BufferAssumption, RemainderGap DEF Slot

\* The slot of a time is one of the buffer.
LEMMA SlotIs == \A t \in Nat : Slot(t) \in 0 .. BufSize - 1
BY BufferAssumption, Remainder DEF Slot

\* An action is delivered once: the buffer does not accept one it remembers.
LEMMA DeliverOK ==
  ASSUME NEW known \in SUBSET Act, NEW s, NodeOK(s, known), NEW m \in known,
         m.LTime < s.clock, m.LTime >= s.minTime
  PROVE  NodeOK(Deliver(s, m), known) /\ Grows(s, Deliver(s, m), known)
<1>1. s \in NodeState /\ m \in Act /\ m.LTime \in Nat /\ m.LTime \in 1 .. MaxTime - 1
  BY ActionClusterAssumption DEF NodeOK, Act
<1>2. /\ s.clock \in Nat /\ s.minTime \in Nat /\ s.lastActionClock \in Nat
      /\ s.buffers \in [0 .. BufSize - 1 -> Group] /\ s.queue \subseteq Act
      /\ s.events \in [Act -> {0, 1}]
  BY <1>1 DEF NodeState
<1>3. CASE ~ Accepts(s.buffers, s.clock, Item(m))
  <2>1. Deliver(s, m) = s
    BY <1>3 DEF Deliver
  <2> QED
    BY <1>2, <2>1 DEF Grows
<1>4. CASE Accepts(s.buffers, s.clock, Item(m))
  <2> DEFINE j == Slot(m.LTime)
             g == s.buffers[j]
             b == Added(s.buffers, Item(m))
             r == Deliver(s, m)
  <2>1. j \in 0 .. BufSize - 1 /\ g \in Group /\ Item(m).LTime = m.LTime /\ Item(m) \in BufferItem
        /\ MsgOf(Item(m)) = m
    BY <1>1, <1>2, SlotIs DEF Item, BufferItem, Act, MsgOf
  <2>2. g.LTime \in Nat /\ g.Items \in Seq(BufferItem)
    BY <2>1 DEF Group
  <2>3. g.Items # <<>> => g.LTime < s.clock /\ Slot(g.LTime) = j
    BY <2>1 DEF NodeOK
  <2>4. ~ (g.Items # <<>> /\ g.LTime > m.LTime)
    <3> SUFFICES ASSUME g.Items # <<>>, g.LTime > m.LTime
                 PROVE  FALSE
      OBVIOUS
    <3>1. m.LTime + BufSize <= g.LTime
      <4> HIDE DEF g
      <4> QED
        BY <1>1, <2>2, <2>3, SlotApart
    <3>2. isTooOld(s.clock, Item(m))
      BY <1>1, <1>2, <2>1, <2>2, <2>3, <3>1, BufferAssumption DEF isTooOld
    <3> QED
      BY <1>4, <3>2 DEF Accepts
  <2>5. isLTimeNew(s.buffers, m.LTime) <=> g.Items = <<>> \/ g.LTime < m.LTime
    BY DEF isLTimeNew
  <2>6. s.events[m] = 0
    <3>1. s.events[m] \in {0, 1}
      BY <1>1, <1>2
    <3>2. s.events[m] # 1
      BY <1>1, <1>4, <2>1, <2>2, <2>4, <2>5 DEF NodeOK, Remembered, Accepts
    <3> QED
      BY <3>1, <3>2
  <2>7. /\ b = [s.buffers EXCEPT ![j] = b[j]]
        /\ b[j] = IF g.Items = <<>> \/ g.LTime < m.LTime
                    THEN [LTime |-> m.LTime, Items |-> <<Item(m)>>]
                    ELSE [LTime |-> g.LTime, Items |-> Append(g.Items, Item(m))]
    BY <1>2, <2>1, <2>5 DEF Added
  <2>8. /\ r = [s EXCEPT !.buffers = b, !.queue = @ \cup {m}, !.events[m] = @ + 1,
                         !.lastActionClock = IF m.LTime > @ THEN m.LTime ELSE @]
    BY <1>4 DEF Deliver
  <2> HIDE DEF b, g, j, r
  <2>9. /\ b[j] \in Group /\ b[j].Items # <<>> /\ b[j].LTime = m.LTime
        /\ \A i \in DOMAIN b[j].Items : MsgOf(b[j].Items[i]) \in known
        /\ has(b[j], Item(m))
        /\ g.Items # <<>> => /\ b[j].LTime >= g.LTime
                             /\ b[j].LTime = g.LTime => \A x : has(g, x) => has(b[j], x)
    <3>0. Equal(Item(m), Item(m))
      BY DEF Equal
    <3>1. CASE g.Items = <<>> \/ g.LTime < m.LTime
      <4>1. b[j] = [LTime |-> m.LTime, Items |-> <<Item(m)>>]
        BY <2>7, <3>1
      <4>2. b[j].Items = <<Item(m)>> /\ b[j].LTime = m.LTime /\ b[j] \in Group
        BY <1>1, <2>1, <4>1 DEF Group
      <4>3. DOMAIN b[j].Items = {1} /\ b[j].Items[1] = Item(m)
        BY <4>2
      <4> QED
        BY <1>1, <2>1, <2>2, <3>0, <3>1, <4>2, <4>3 DEF has
    <3>2. CASE ~ (g.Items = <<>> \/ g.LTime < m.LTime)
      <4>1. b[j] = [LTime |-> g.LTime, Items |-> Append(g.Items, Item(m))] /\ g.LTime = m.LTime
        BY <1>1, <2>2, <2>4, <2>7, <3>2
      <4>2. /\ b[j].Items = Append(g.Items, Item(m)) /\ b[j].LTime = m.LTime /\ b[j] \in Group
        BY <2>1, <2>2, <4>1 DEF Group
      <4> DEFINE k == Len(g.Items)
      <4>3. /\ k \in Nat /\ DOMAIN g.Items = 1 .. k /\ DOMAIN b[j].Items = 1 .. k + 1
            /\ b[j].Items[k + 1] = Item(m)
            /\ \A i \in 1 .. k : b[j].Items[i] = g.Items[i]
        BY <2>1, <2>2, <4>2
      <4>4. \A i \in DOMAIN g.Items : MsgOf(g.Items[i]) \in known
        BY <2>1 DEF NodeOK, g
      <4> HIDE DEF k
      <4>5. \A i \in 1 .. k + 1 : i = k + 1 \/ i \in 1 .. k
        BY <4>3
      <4>6. \A i \in DOMAIN b[j].Items : MsgOf(b[j].Items[i]) \in known
        BY <2>1, <4>3, <4>4, <4>5
      <4>7. has(b[j], Item(m)) /\ \A x : has(g, x) => has(b[j], x)
        <5>1. k + 1 \in DOMAIN b[j].Items
          BY <4>3
        <5>2. has(b[j], Item(m))
          BY <3>0, <4>3, <5>1 DEF has
        <5>3. \A i \in DOMAIN g.Items : i \in DOMAIN b[j].Items /\ b[j].Items[i] = g.Items[i]
          BY <4>3
        <5>4. \A x : has(g, x) => has(b[j], x)
          BY <5>3, Zenon DEF has
        <5> QED
          BY <5>2, <5>4
      <4>8. b[j].Items # <<>> /\ b[j].LTime >= g.LTime
        <5>1. k + 1 \in DOMAIN b[j].Items
          BY <4>3
        <5> QED
          BY <1>1, <4>1, <4>2, <5>1
      <4> QED
        BY <4>2, <4>6, <4>7, <4>8
    <3> QED
      BY <3>1, <3>2
  <2>10. /\ b \in [0 .. BufSize - 1 -> Group]
         /\ \A i \in 0 .. BufSize - 1 : i # j => b[i] = s.buffers[i]
    BY <1>2, <2>1, <2>7, <2>9
  <2>11. /\ r.buffers = b /\ r.queue = s.queue \cup {m} /\ r.clock = s.clock /\ r.minTime = s.minTime
         /\ r.events = [s.events EXCEPT ![m] = 1]
         /\ r.lastActionClock = IF m.LTime > s.lastActionClock THEN m.LTime ELSE s.lastActionClock
         /\ r = [clock |-> r.clock, minTime |-> r.minTime, buffers |-> r.buffers, queue |-> r.queue,
                 events |-> r.events, lastActionClock |-> r.lastActionClock]
    <3>1. s.events[m] + 1 = 1
      BY <2>6
    <3> QED
      BY <1>1, <2>8, <3>1 DEF NodeState
  <2>12. r \in NodeState
    <3>1. /\ r.clock \in Nat \ {0} /\ r.minTime \in Nat /\ r.queue \in SUBSET Act
          /\ r.events \in [Act -> {0, 1}] /\ r.lastActionClock \in Nat
      BY <1>1, <1>2, <2>11 DEF NodeState
    <3> QED
      BY <2>10, <2>11, <3>1 DEF NodeState
  <2>13. \A i \in 0 .. BufSize - 1 :
            /\ \A k \in DOMAIN r.buffers[i].Items : MsgOf(r.buffers[i].Items[k]) \in known
            /\ r.buffers[i].Items # <<>> =>
                  r.buffers[i].LTime < r.clock /\ Slot(r.buffers[i].LTime) = i
    BY <2>9, <2>10, <2>11 DEF NodeOK, j
  <2>14. ASSUME NEW a \in Act, r.events[a] = 1
         PROVE  Remembered(r, a) /\ a.LTime <= r.lastActionClock
    <3>1. CASE a = m
      BY <1>1, <1>2, <2>9, <2>11, <3>1 DEF Remembered, j
    <3>2. CASE a # m
      <4>1. s.events[a] = 1 /\ Remembered(s, a) /\ a.LTime <= s.lastActionClock
        BY <1>2, <2>11, <2>14, <3>2 DEF NodeOK
      <4>2. a.LTime \in Nat /\ Slot(a.LTime) \in 0 .. BufSize - 1
        BY SlotIs DEF Act
      <4>3. CASE Slot(a.LTime) # j
        BY <1>1, <1>2, <2>10, <2>11, <4>1, <4>2, <4>3 DEF Remembered
      <4>4. CASE Slot(a.LTime) = j
        <5>1. g.Items # <<>> /\ (g.LTime > a.LTime \/ (g.LTime = a.LTime /\ has(g, Item(a))))
          BY <4>1, <4>4 DEF Remembered, g
        <5>2. b[j].Items # <<>> /\ b[j].LTime \in Nat
              /\ (b[j].LTime > a.LTime \/ (b[j].LTime = a.LTime /\ has(b[j], Item(a))))
          BY <1>1, <2>2, <2>9, <4>2, <5>1
        <5> QED
          BY <1>1, <1>2, <2>11, <4>1, <4>2, <4>4, <5>2 DEF Remembered
      <4> QED
        BY <4>3, <4>4
    <3> QED
      BY <3>1, <3>2
  <2>15. NodeOK(r, known)
    BY <2>11, <2>12, <2>13, <2>14 DEF NodeOK
  <2>16. Grows(s, r, known)
    BY <1>1, <1>2, <2>6, <2>11 DEF Grows
  <2> QED
    BY <2>15, <2>16 DEF r
<1> QED
  BY <1>3, <1>4

\* A message is handled, or the actions of a peer are.
LEMMA HandleActionOK ==
  ASSUME NEW known \in SUBSET Act, NEW s, NodeOK(s, known), NEW m \in known
  PROVE  NodeOK(handleAction(s, m), known) /\ Grows(s, handleAction(s, m), known)
<1> DEFINE w == Witness(s, m.LTime)
<1>1. m.LTime \in Nat /\ s \in NodeState
  BY DEF Act, NodeOK
<1>a. NodeOK(w, known) /\ Grows(s, w, known) /\ w.clock > m.LTime
  BY <1>1, Witnessed
<1> HIDE DEF w
<1>2. NodeOK(w, known) /\ Grows(s, w, known) /\ w.clock > m.LTime /\ w \in NodeState
  BY <1>a DEF NodeOK
<1>3. handleAction(s, m) = IF m.LTime < w.minTime THEN w ELSE Deliver(w, m)
  BY DEF handleAction, w
<1>4. CASE m.LTime < w.minTime
  BY <1>2, <1>3, <1>4
<1>5. CASE ~ (m.LTime < w.minTime)
  <2>1. m.LTime < w.clock /\ m.LTime >= w.minTime
    BY <1>1, <1>2, <1>5 DEF NodeState
  <2>2. NodeOK(Deliver(w, m), known) /\ Grows(w, Deliver(w, m), known)
    BY <1>2, <2>1, DeliverOK
  <2> QED
    BY <1>1, <1>2, <1>3, <1>5, <2>2, GrowsOn
<1> QED
  BY <1>4, <1>5

\* A list of actions is handled one by one.
LEMMA HandleAllOK ==
  ASSUME NEW known \in SUBSET Act, NEW s, NodeOK(s, known), NEW actions, Len(actions) \in Nat,
         \A i \in 1 .. Len(actions) : MsgOf(actions[i]) \in known
  PROVE  NodeOK(HandleAll(s, actions), known) /\ Grows(s, HandleAll(s, actions), known)
<1>1. PICK f : /\ f[0] = s
               /\ \A i \in 1 .. Len(actions) : f[i] = handleAction(f[i - 1], MsgOf(actions[i]))
               /\ HandleAll(s, actions) = f[Len(actions)]
  BY HandleAllIs
<1>2. s \in NodeState /\ Grows(s, s, known)
  BY DEF NodeOK, NodeState, Grows
<1> DEFINE Q == {n \in Nat : n <= Len(actions) => NodeOK(f[n], known) /\ Grows(s, f[n], known)}
<1>3. 0 \in Q
  BY <1>1, <1>2
<1>4. ASSUME NEW n \in Nat, n \in Q
      PROVE  n + 1 \in Q
  <2> SUFFICES ASSUME n + 1 <= Len(actions)
               PROVE  NodeOK(f[n + 1], known) /\ Grows(s, f[n + 1], known)
    OBVIOUS
  <2>1. n + 1 \in 1 .. Len(actions) /\ (n + 1) - 1 = n /\ NodeOK(f[n], known) /\ Grows(s, f[n], known)
    BY <1>4
  <2>2. f[n + 1] = handleAction(f[n], MsgOf(actions[n + 1])) /\ MsgOf(actions[n + 1]) \in known
    BY <1>1, <2>1
  <2>3. NodeOK(f[n + 1], known) /\ Grows(f[n], f[n + 1], known)
    BY <2>1, <2>2, HandleActionOK
  <2> QED
    BY <1>2, <2>1, <2>3, GrowsOn
<1>5. Len(actions) \in Q
  <2> HIDE DEF Q
  <2> QED
    BY <1>3, <1>4, SetInduction
<1> QED
  BY <1>1, <1>5

\* States on their way hold known actions.
Sent(known) == {u \in [ActionLTime : Nat \ {0}, Actions : Seq(BufferItem)] :
                   \A i \in DOMAIN u.Actions : MsgOf(u.Actions[i]) \in known}

\* A state that is sent holds actions that are known.
LEMMA LocalStateOK ==
  ASSUME NEW known, NEW s, NodeOK(s, known)
  PROVE  LocalState(s) \in Sent(known)
<1> DEFINE T == {x \in BufferItem : MsgOf(x) \in known}
<1>1. s \in NodeState /\ s.clock \in Nat \ {0} /\ s.buffers \in [0 .. BufSize - 1 -> Group]
  BY DEF NodeOK, NodeState
<1>2. ASSUME NEW j \in 0 .. BufSize - 1
      PROVE  s.buffers[j].Items \in Seq(T)
  <2>1. s.buffers[j].Items \in Seq(BufferItem)
    BY <1>1 DEF Group
  <2>2. \A i \in DOMAIN s.buffers[j].Items : s.buffers[j].Items[i] \in T
    BY <2>1 DEF NodeOK
  <2> HIDE DEF T
  <2> QED
    BY <2>1, <2>2
<1>3. BufferedActions(s.buffers) \in Seq(T)
  <2> HIDE DEF T
  <2> QED
    BY <1>2, BufferedActionsIs
<1> DEFINE actions == BufferedActions(s.buffers)
<1>4. actions \in Seq(BufferItem) /\ \A i \in DOMAIN actions : MsgOf(actions[i]) \in known
  <2> HIDE DEF actions
  <2>1. actions \in Seq(T) /\ T \subseteq BufferItem /\ \A x \in T : MsgOf(x) \in known
    BY <1>3 DEF actions
  <2> HIDE DEF T
  <2> QED
    BY <2>1
<1> QED
  BY <1>1, <1>4 DEF LocalState, Sent

\* A state is merged, however old.
LEMMA MergeOK ==
  ASSUME NEW known \in SUBSET Act, NEW s, NodeOK(s, known), NEW u \in Sent(known), NEW ignore \in BOOLEAN
  PROVE  NodeOK(Merge(s, u, ignore), known) /\ Grows(s, Merge(s, u, ignore), known)
<1> DEFINE t == u.ActionLTime - 1
           w == Witness(s, t)
           i == IF ignore /\ u.ActionLTime > w.minTime THEN [w EXCEPT !.minTime = u.ActionLTime] ELSE w
<1>1. /\ t \in Nat /\ u.ActionLTime \in Nat /\ s \in NodeState /\ Len(u.Actions) \in Nat
      /\ \A k \in 1 .. Len(u.Actions) : MsgOf(u.Actions[k]) \in known
  BY DEF Sent, NodeOK
<1> HIDE DEF t
<1>a. NodeOK(w, known) /\ Grows(s, w, known)
  BY <1>1, Witnessed
<1> HIDE DEF w
<1>2. NodeOK(w, known) /\ Grows(s, w, known) /\ w \in NodeState
  BY <1>a DEF NodeOK
<1>3. NodeOK(i, known) /\ Grows(w, i, known)
  <2>1. CASE ignore /\ u.ActionLTime > w.minTime
    <3>1. /\ i = [w EXCEPT !.minTime = u.ActionLTime] /\ i \in NodeState
          /\ i.clock = w.clock /\ i.buffers = w.buffers /\ i.queue = w.queue /\ i.events = w.events
          /\ i.lastActionClock = w.lastActionClock /\ i.minTime = u.ActionLTime
      BY <1>1, <1>2, <2>1 DEF NodeState
    <3> HIDE DEF i
    <3>2. NodeOK(i, known)
      BY <1>2, <3>1 DEF NodeOK, Remembered
    <3> QED
      BY <1>2, <2>1, <3>1, <3>2 DEF Grows, NodeState
  <2>2. CASE ~ (ignore /\ u.ActionLTime > w.minTime)
    BY <1>2, <2>2 DEF Grows, NodeState
  <2> QED
    BY <2>1, <2>2
<1>4. Merge(s, u, ignore) = HandleAll(i, u.Actions)
  BY DEF Merge, w, t
<1> HIDE DEF i
<1>5. NodeOK(HandleAll(i, u.Actions), known) /\ Grows(i, HandleAll(i, u.Actions), known)
  BY <1>1, <1>3, HandleAllOK
<1>6. Grows(s, i, known)
  BY <1>1, <1>2, <1>3, GrowsOn
<1> QED
  BY <1>1, <1>3, <1>4, <1>5, <1>6, GrowsOn

-----------------------------------------------------------------------------
(* The cluster. *)

\* Every node is as NodeOK says, states on their way hold triggered actions, and
\* what the snapshot file of a node accounts for is older than the file, and was
\* sent in this run or is below the minimum time.
ClusterInv ==
    /\ triggered \subseteq Act
    /\ node \in [Node -> NodeState] /\ \A n \in Node : NodeOK(node[n], triggered)
    /\ inflight \in [Node -> [Node -> SUBSET Sent(triggered)]]
    /\ flushed \in [Node -> Nat] /\ durable \in [Node -> SUBSET Act]
    /\ \A n \in Node :
          /\ flushed[n] <= node[n].lastActionClock
          /\ \A a \in durable[n] :
                /\ a.LTime <= flushed[n]
                /\ node[n].events[a] = 1 \/ a.LTime < node[n].minTime

\* What is in a snapshot file is not delivered again.
NotAgain == \A n \in Node : \A a \in durable[n] : node'[n].events[a] <= node[n].events[a]

\* The step is one of the broadcast.
Broadcasts == [Broadcast!Next]_Broadcast!vars

\* What is known stays known.
LEMMA KnownGrow ==
  ASSUME NEW known, NEW more, known \subseteq more
  PROVE  /\ \A s : NodeOK(s, known) => NodeOK(s, more)
         /\ Sent(known) \subseteq Sent(more)
<1>1. \A s : NodeOK(s, known) => NodeOK(s, more)
  BY DEF NodeOK
<1>2. Sent(known) \subseteq Sent(more)
  BY DEF Sent
<1> QED
  BY <1>1, <1>2

\* A node handles messages.
LEMMA NodeGrows ==
  ASSUME ClusterInv, triggered \subseteq triggered', triggered' \subseteq Act, NEW d \in Node,
         NEW r, NodeOK(r, triggered'), Grows(node[d], r, triggered'), node' = [node EXCEPT ![d] = r],
         inflight' \in [Node -> [Node -> SUBSET Sent(triggered')]], UNCHANGED <<flushed, durable>>
  PROVE  ClusterInv' /\ NotAgain /\ Broadcast!Learns(d)
<1>1. /\ node \in [Node -> NodeState] /\ r \in NodeState /\ node' \in [Node -> NodeState]
      /\ node'[d] = r /\ \A n \in Node : n # d => node'[n] = node[n]
  BY DEF ClusterInv, NodeOK
<1>2. ASSUME NEW n \in Node
      PROVE  NodeOK(node'[n], triggered')
  <2>1. NodeOK(node[n], triggered')
    BY KnownGrow DEF ClusterInv
  <2> QED
    BY <1>1, <2>1
<1>3. \A s \in NodeState : s.lastActionClock \in Int /\ s.minTime \in Int
  BY DEF NodeState
<1>4. \A s \in NodeState : s.events \in [Act -> {0, 1}]
  BY DEF NodeState
<1>5. \A a \in Act : a.LTime \in Int
  BY DEF Act
<1>6. ASSUME NEW n \in Node
      PROVE  /\ flushed'[n] <= node'[n].lastActionClock
             /\ \A a \in durable'[n] :
                   /\ a.LTime <= flushed'[n]
                   /\ node'[n].events[a] = 1 \/ a.LTime < node'[n].minTime
             /\ \A a \in durable[n] : node'[n].events[a] <= node[n].events[a]
  <2>1. CASE n = d
    <3>1. flushed[n] \in Int /\ flushed[n] <= node[n].lastActionClock /\ r.lastActionClock >= node[n].lastActionClock
      BY <2>1 DEF ClusterInv, Grows
    <3>2. ASSUME NEW a \in durable[n]
          PROVE  /\ a.LTime <= flushed[n]
                 /\ r.events[a] = 1 \/ a.LTime < r.minTime
                 /\ r.events[a] <= node[n].events[a]
      <4>1. a \in Act /\ a.LTime <= flushed[n] /\ (node[n].events[a] = 1 \/ a.LTime < node[n].minTime)
        BY DEF ClusterInv
      <4>2. /\ r.minTime >= node[n].minTime
            /\ \/ r.events[a] = node[n].events[a]
               \/ node[n].events[a] = 0 /\ r.events[a] = 1 /\ a.LTime >= node[n].minTime
        BY <2>1, <4>1 DEF Grows
      <4>3. r.events[a] \in {0, 1} /\ node[n].events[a] \in {0, 1} /\ node[n].minTime \in Int
            /\ r.minTime \in Int /\ a.LTime \in Int
        BY <1>1, <1>3, <1>4, <1>5, <4>1
      <4> QED
        BY <4>1, <4>2, <4>3
    <3> QED
      BY <1>1, <1>3, <2>1, <3>1, <3>2
  <2>2. CASE n # d
    <3>1. \A a \in durable[n] : node[n].events[a] \in {0, 1}
      BY <1>1, <1>4 DEF ClusterInv
    <3> QED
      BY <1>1, <2>2, <3>1 DEF ClusterInv
  <2> QED
    BY <2>1, <2>2
<1>7. ClusterInv'
  BY <1>1, <1>2, <1>6 DEF ClusterInv
<1>8. Broadcast!Learns(d)
  <2> DEFINE new == {a \in Act : node[d].events[a] = 0 /\ r.events[a] = 1}
             learnt == [n \in Node |-> node[n].events]
  <2>1. new \subseteq triggered' /\ \A a \in new : learnt[d][a] = 0
    BY DEF Grows
  <2>2. r.events = [a \in Act |-> IF a \in new THEN 1 ELSE node[d].events[a]]
    <3>1. r.events \in [Act -> {0, 1}] /\ node[d].events \in [Act -> {0, 1}]
      BY <1>1, <1>4
    <3> QED
      BY <3>1 DEF Grows
  <2> HIDE DEF new
  <2>3. [n \in Node |-> node'[n].events] =
           [learnt EXCEPT ![d] = [a \in Act |-> IF a \in new THEN 1 ELSE @[a]]]
    BY <1>1, <2>2
  <2>4. new \in SUBSET Broadcast!Fresh(d)
    BY <2>1 DEF Broadcast!Fresh
  <2> QED
    BY <2>3, <2>4 DEF Broadcast!Learns
<1> QED
  BY <1>6, <1>7, <1>8 DEF NotAgain

\* A step of which no node learns anything.
LEMMA NothingLearnt ==
  ASSUME ClusterInv, UNCHANGED triggered, node' \in [Node -> NodeState],
         \A n \in Node : node'[n].events = node[n].events
  PROVE  Broadcasts /\ NotAgain
<1>1. [n \in Node |-> node'[n].events] = [n \in Node |-> node[n].events]
  OBVIOUS
<1>2. Broadcasts
  BY <1>1 DEF Broadcasts, Broadcast!vars
<1>3. \A n \in Node : \A a \in durable[n] : node[n].events[a] \in {0, 1}
  BY DEF ClusterInv, NodeState
<1> QED
  BY <1>2, <1>3 DEF NotAgain

\* An action is triggered.
LEMMA ActionStep ==
  ASSUME ClusterInv, NEW n \in Node, NEW payload \in Payload, Action(n, payload)
  PROVE  ClusterInv' /\ NotAgain /\ Broadcasts
<1> DEFINE m == [LTime |-> node[n].clock, Payload |-> payload]
<1>1. node[n] \in NodeState /\ NodeOK(node[n], triggered) /\ triggered \subseteq Act
  BY DEF ClusterInv
<1>2. m \in Act
  BY <1>1, ActionClusterAssumption DEF Action, Act, NodeState
<1>3. /\ node' = [node EXCEPT ![n] = handleAction(node[n], m)] /\ triggered' = triggered \cup {m}
      /\ UNCHANGED <<flushed, inflight, durable, restarts>>
  BY DEF Action, Others, ClusterInv
<1> HIDE DEF m
<1>4. NodeOK(node[n], triggered') /\ triggered' \in SUBSET Act /\ m \in triggered'
  BY <1>1, <1>2, <1>3, KnownGrow
<1> DEFINE r == handleAction(node[n], m)
<1>5. NodeOK(r, triggered') /\ Grows(node[n], r, triggered')
  BY <1>4, HandleActionOK
<1>6. inflight' \in [Node -> [Node -> SUBSET Sent(triggered')]]
  BY <1>3, KnownGrow DEF ClusterInv
<1> HIDE DEF r
<1>7. ClusterInv' /\ NotAgain /\ Broadcast!Learns(n)
  BY <1>3, <1>4, <1>5, <1>6, NodeGrows DEF r
<1>8. Broadcast!Trigger(n)
  BY <1>2, <1>3, <1>7 DEF Broadcast!Trigger
<1> QED
  BY <1>7, <1>8 DEF Broadcasts, Broadcast!Next

\* A message arrives, for the first time or again.
LEMMA GossipStep ==
  ASSUME ClusterInv, NEW n \in Node, NEW d \in Node, NEW m, Gossip(n, d, m)
  PROVE  ClusterInv' /\ NotAgain /\ Broadcasts
<1> DEFINE r == handleAction(node[d], m)
<1>1. /\ node' = [node EXCEPT ![d] = r] /\ UNCHANGED <<triggered, flushed, inflight, durable, restarts>>
  BY DEF Gossip, Others
<1>2. m \in triggered /\ NodeOK(node[d], triggered) /\ triggered \in SUBSET Act
  BY DEF Gossip, ClusterInv, NodeOK
<1>3. NodeOK(r, triggered) /\ Grows(node[d], r, triggered)
  BY <1>2, HandleActionOK
<1>4. inflight' \in [Node -> [Node -> SUBSET Sent(triggered')]]
  BY <1>1 DEF ClusterInv
<1> HIDE DEF r
<1>5. ClusterInv' /\ NotAgain /\ Broadcast!Learns(d)
  BY <1>1, <1>2, <1>3, <1>4, NodeGrows
<1> QED
  BY <1>1, <1>5 DEF Broadcasts, Broadcast!Next, Broadcast!Learn

\* A state arrives, and is merged.
LEMMA MergeStateStep ==
  ASSUME ClusterInv, NEW n \in Node, NEW d \in Node, MergeState(n, d)
  PROVE  ClusterInv' /\ NotAgain /\ Broadcasts
<1>1. PICK u \in inflight[n][d], ignoreOld \in IgnoreOld :
         /\ node' = [node EXCEPT ![d] = Merge(node[d], u, ignoreOld)]
         /\ inflight' = [inflight EXCEPT ![n][d] = {}]
         /\ UNCHANGED <<flushed, triggered, durable, restarts>>
  BY DEF MergeState, ClusterInv
<1>2. /\ u \in Sent(triggered) /\ ignoreOld \in BOOLEAN /\ triggered \in SUBSET Act
      /\ NodeOK(node[d], triggered)
  BY ActionClusterAssumption DEF ClusterInv
<1> DEFINE r == Merge(node[d], u, ignoreOld)
<1>3. NodeOK(r, triggered) /\ Grows(node[d], r, triggered)
  BY <1>2, MergeOK
<1>4. inflight' \in [Node -> [Node -> SUBSET Sent(triggered')]]
  BY <1>1 DEF ClusterInv
<1> HIDE DEF r
<1>5. ClusterInv' /\ NotAgain /\ Broadcast!Learns(d)
  BY <1>1, <1>2, <1>3, <1>4, NodeGrows DEF r
<1> QED
  BY <1>1, <1>5 DEF Broadcasts, Broadcast!Next, Broadcast!Learn

\* A message is not retransmitted any more.
LEMMA QueueDropStep ==
  ASSUME ClusterInv, NEW n \in Node, NEW m, QueueDrop(n, m)
  PROVE  ClusterInv' /\ NotAgain /\ Broadcasts
<1>1. /\ node' = [node EXCEPT ![n].queue = @ \ {m}]
      /\ UNCHANGED <<triggered, flushed, inflight, durable, restarts>>
  BY DEF QueueDrop, Others
<1>2. node \in [Node -> NodeState] /\ \A k \in Node : NodeOK(node[k], triggered)
  BY DEF ClusterInv
<1>3. /\ node' \in [Node -> NodeState] /\ \A k \in Node : k # n => node'[k] = node[k]
      /\ node'[n].clock = node[n].clock /\ node'[n].minTime = node[n].minTime
      /\ node'[n].buffers = node[n].buffers /\ node'[n].queue \subseteq node[n].queue
      /\ node'[n].events = node[n].events /\ node'[n].lastActionClock = node[n].lastActionClock
  BY <1>1, <1>2 DEF NodeState
<1>4. NodeOK(node'[n], triggered)
  BY <1>2, <1>3 DEF NodeOK, Remembered
<1>5. \A k \in Node : NodeOK(node'[k], triggered) /\ node'[k].events = node[k].events
                       /\ node'[k].lastActionClock = node[k].lastActionClock
                       /\ node'[k].minTime = node[k].minTime
  BY <1>2, <1>3, <1>4
<1>6. ClusterInv'
  BY <1>1, <1>3, <1>5 DEF ClusterInv
<1> QED
  BY <1>1, <1>3, <1>5, <1>6, NothingLearnt

\* A state is sent.
LEMMA SendStateStep ==
  ASSUME ClusterInv, NEW n \in Node, NEW d \in Node, SendState(n, d)
  PROVE  ClusterInv' /\ NotAgain /\ Broadcasts
<1>1. LocalState(node[n]) \in Sent(triggered)
  BY LocalStateOK DEF ClusterInv
<1>2. ClusterInv'
  BY <1>1 DEF SendState, ClusterInv
<1> QED
  BY <1>2, NothingLearnt DEF SendState, ClusterInv

\* The snapshot of a node is flushed.
LEMMA FlushStep ==
  ASSUME ClusterInv, NEW n \in Node, Flush(n)
  PROVE  ClusterInv' /\ NotAgain /\ Broadcasts
<1>1. /\ flushed' = [flushed EXCEPT ![n] = node[n].lastActionClock]
      /\ durable' = [durable EXCEPT ![n] = durable[n] \cup Events(n)]
      /\ UNCHANGED <<node, inflight, triggered, restarts>>
  BY DEF Flush, ClusterInv
<1>2. node[n] \in NodeState /\ NodeOK(node[n], triggered)
  BY DEF ClusterInv
<1>3. node[n].lastActionClock \in Nat /\ Events(n) \subseteq Act
  BY <1>2 DEF NodeState, Events
<1>4. \A a \in Events(n) : node[n].events[a] = 1 /\ a.LTime <= node[n].lastActionClock
  <2>1. \A a \in Act : node[n].events[a] \in {0, 1}
    BY <1>2 DEF NodeState
  <2> QED
    BY <1>2, <2>1 DEF Events, NodeOK
<1>5. \A a \in durable[n] : a.LTime <= node[n].lastActionClock
  <2>1. \A a \in durable[n] : a.LTime \in Int /\ a.LTime <= flushed[n] /\ flushed[n] \in Int
    BY DEF ClusterInv, Act
  <2>2. flushed[n] <= node[n].lastActionClock
    BY DEF ClusterInv
  <2> QED
    BY <1>3, <2>1, <2>2
<1>6. ASSUME NEW k \in Node
      PROVE  /\ flushed'[k] <= node'[k].lastActionClock
             /\ \A a \in durable'[k] :
                   /\ a.LTime <= flushed'[k]
                   /\ node'[k].events[a] = 1 \/ a.LTime < node'[k].minTime
  <2>1. CASE k = n
    BY <1>1, <1>3, <1>4, <1>5, <2>1 DEF ClusterInv
  <2>2. CASE k # n
    BY <1>1, <2>2 DEF ClusterInv
  <2> QED
    BY <2>1, <2>2
<1>7. ClusterInv'
  BY <1>1, <1>3, <1>6 DEF ClusterInv
<1> QED
  BY <1>1, <1>7, NothingLearnt DEF ClusterInv

\* A node that starts has sent nothing, whatever its snapshot says.
LEMMA NewNodeOK ==
  ASSUME NEW known, NEW t \in Nat
  PROVE  NodeOK(NewNode(t), known)
<1> DEFINE s == NewNode(t)
<1>1. /\ EmptyBuffer \in [0 .. BufSize - 1 -> Group]
      /\ \A j \in 0 .. BufSize - 1 : EmptyBuffer[j].Items = <<>>
  BY DEF EmptyBuffer, NilGroup, Group
<1>2. /\ s.buffers = EmptyBuffer /\ s.queue = {} /\ s.events = [a \in Act |-> 0] /\ s \in NodeState
  BY <1>1 DEF NewNode, NodeState
<1> HIDE DEF s
<1>3. NodeOK(s, known)
  BY <1>1, <1>2 DEF NodeOK
<1> QED
  BY <1>3 DEF s

\* A node stops and starts again, with the minimum time of its snapshot.
LEMMA RestartStep ==
  ASSUME ClusterInv, NEW n \in Node, Restart(n)
  PROVE  ClusterInv' /\ NotAgain /\ Broadcasts
<1> DEFINE s == NewNode(flushed[n])
<1>1. /\ node' = [node EXCEPT ![n] = s]
      /\ inflight' = [m \in Node |-> [inflight[m] EXCEPT ![n] = {}]]
      /\ UNCHANGED <<flushed, triggered, durable>>
  BY DEF Restart
<1>2. /\ flushed[n] \in Nat /\ node \in [Node -> NodeState]
      /\ inflight \in [Node -> [Node -> SUBSET Sent(triggered)]]
  BY DEF ClusterInv
<1>3. /\ s.minTime = flushed[n] + 1 /\ s.events = [a \in Act |-> 0] /\ s.lastActionClock = flushed[n]
      /\ NodeOK(s, triggered)
  BY <1>2, NewNodeOK DEF NewNode
<1> HIDE DEF s
<1>4. s \in NodeState /\ node' \in [Node -> NodeState] /\ node'[n] = s
      /\ \A k \in Node : k # n => node'[k] = node[k]
  BY <1>1, <1>2, <1>3 DEF NodeOK
<1>5. inflight' \in [Node -> [Node -> SUBSET Sent(triggered)]]
  BY <1>1, <1>2
<1>6. \A a \in durable[n] : a \in Act /\ a.LTime \in Int /\ a.LTime < s.minTime
  BY <1>2, <1>3 DEF ClusterInv, Act
<1>7. ASSUME NEW k \in Node
      PROVE  /\ NodeOK(node'[k], triggered)
             /\ flushed'[k] <= node'[k].lastActionClock
             /\ \A a \in durable'[k] :
                   /\ a.LTime <= flushed'[k]
                   /\ node'[k].events[a] = 1 \/ a.LTime < node'[k].minTime
  <2>1. CASE k = n
    BY <1>1, <1>2, <1>3, <1>4, <1>6, <2>1 DEF ClusterInv
  <2>2. CASE k # n
    BY <1>1, <1>4, <2>2 DEF ClusterInv
  <2> QED
    BY <2>1, <2>2
<1>8. ClusterInv'
  BY <1>1, <1>4, <1>5, <1>7 DEF ClusterInv
<1>9. NotAgain
  <2>1. \A k \in Node : \A a \in durable[k] : a \in Act /\ node[k].events[a] \in {0, 1}
    BY DEF ClusterInv, NodeState
  <2> QED
    BY <1>3, <1>4, <2>1 DEF NotAgain
<1>10. Broadcast!Restart(n)
  <2>1. [k \in Node |-> node'[k].events] = [[k \in Node |-> node[k].events] EXCEPT ![n] = [a \in Act |-> 0]]
    BY <1>3, <1>4
  <2> QED
    BY <1>1, <2>1 DEF Broadcast!Restart, Broadcast!Never
<1> QED
  BY <1>8, <1>9, <1>10 DEF Broadcasts, Broadcast!Next

\* Every step of the cluster is one of the broadcast, and repeats nothing.
LEMMA ClusterStep ==
  ASSUME ClusterInv, [ClusterNext]_clusterVars
  PROVE  ClusterInv' /\ NotAgain /\ Broadcasts
<1>1. ASSUME NEW n \in Node, NEW payload \in Payload, Action(n, payload)
      PROVE  ClusterInv' /\ NotAgain /\ Broadcasts
  BY <1>1, ActionStep
<1>2. ASSUME NEW n \in Node, NEW m \in node[n].queue, QueueDrop(n, m)
      PROVE  ClusterInv' /\ NotAgain /\ Broadcasts
  BY <1>2, QueueDropStep
<1>3. ASSUME NEW n \in Node, NEW m \in node[n].queue, NEW d \in Node \ {n}, Gossip(n, d, m)
      PROVE  ClusterInv' /\ NotAgain /\ Broadcasts
  BY <1>3, GossipStep
<1>4. ASSUME NEW n \in Node, NEW d \in Node \ {n}, Exchange(n, d)
      PROVE  ClusterInv' /\ NotAgain /\ Broadcasts
  BY <1>4, SendStateStep, MergeStateStep DEF Exchange
<1>5. ASSUME NEW n \in Restarting, Flush(n) \/ Restart(n)
      PROVE  ClusterInv' /\ NotAgain /\ Broadcasts
  <2>1. n \in Node
    BY ActionClusterAssumption
  <2> QED
    BY <1>5, <2>1, FlushStep, RestartStep
<1>6. CASE UNCHANGED clusterVars
  <2>1. ClusterInv' /\ node' = node /\ triggered' = triggered
    BY <1>6 DEF clusterVars, ClusterInv
  <2> QED
    BY <2>1, NothingLearnt DEF ClusterInv
<1> QED
  BY <1>1, <1>2, <1>3, <1>4, <1>5, <1>6 DEF ClusterNext

\* The first states of the cluster are those of the broadcast.
LEMMA ClusterStarts ==
  ASSUME ClusterInit
  PROVE  ClusterInv /\ Broadcast!Init
<1>1. \A known : NodeOK(NewNode(0), known)
  BY NewNodeOK
<1>2. NewNode(0) \in NodeState
  BY <1>1 DEF NodeOK
<1>3. NewNode(0).events = [a \in Act |-> 0] /\ NewNode(0).lastActionClock = 0
  BY DEF NewNode
<1>4. ClusterInv
  BY <1>1, <1>2, <1>3 DEF ClusterInit, ClusterInv
<1>5. Broadcast!Init
  BY <1>3 DEF ClusterInit, Broadcast!Init, Broadcast!Never
<1> QED
  BY <1>4, <1>5

\* For any number of nodes, restarts and messages, lost, repeated and out of date:
\* what a node sends on inEventCh was triggered somewhere, and is sent once in a
\* run (net_handlers.go:151-171).
THEOREM ClusterRefinement == ClusterSpec => ImplementsBroadcast
<1>1. ClusterInit => ClusterInv /\ Broadcast!Init
  BY ClusterStarts
<1>2. ClusterInv /\ [ClusterNext]_clusterVars => ClusterInv' /\ Broadcasts
  BY ClusterStep
<1> QED
  BY <1>1, <1>2, PTL DEF ClusterSpec, ImplementsBroadcast, Broadcast!Spec, Broadcasts

\* No restart delivers an event again that the snapshot file accounts for, since
\* the minimum time is past it (serf.go:177, snapshot.go:229-236).
THEOREM SnapshotIsNotRepeated == ClusterSpec => DurableNotRepeated
<1>1. ClusterInit => ClusterInv
  BY ClusterStarts
<1>2. ClusterInv /\ [ClusterNext]_clusterVars => ClusterInv' /\ NotAgain
  BY ClusterStep
<1> QED
  BY <1>1, <1>2, PTL DEF ClusterSpec, DurableNotRepeated, NotAgain
=============================================================================
