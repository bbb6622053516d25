--------------------------- MODULE LamportBuffer ---------------------------
(***************************************************************************)
(* buffer.go: the circular buffer in which a node remembers the actions    *)
(* (or the queries) it has seen lately, so that it accepts each one once.  *)
(* Slot t % BufSize holds the items of one Lamport time, the latest one    *)
(* that maps to the slot.                                                  *)
(*                                                                         *)
(* An item is [LTime, ID, Payload].  An action has ID 0; a query has the   *)
(* payload nil, as has an action triggered without a payload.              *)
(***************************************************************************)
EXTENDS Integers, Sequences

CONSTANTS BufSize,   \* Config.LBufferSize
          nil        \* the nil []byte

ASSUME BufferAssumption == BufSize \in Nat \ {0}

\* Time that a uint64 subtraction and a % reach: item times are natural.
Slot(t) == t % BufSize

\* A nil *lGroupItem, and what getBuffer makes of it.
NilGroup == [LTime |-> 0, Items |-> <<>>]

EmptyBuffer == [s \in 0 .. BufSize - 1 |-> NilGroup]

\* Mutant: two items of one time are always the same.
Equal_timeOnly(l, item) == l.LTime = item.LTime

\* lItem.Equal: the payload decides, unless the item that is stored has none.
Equal(l, item) == /\ l.LTime = item.LTime
                  /\ IF l.Payload # nil
                       THEN l.Payload = item.Payload   \* for action
                       ELSE l.ID = item.ID             \* for query

has(group, item) == \E i \in DOMAIN group.Items : Equal(group.Items[i], item)

\* Mutant: the window is one time longer than the buffer.
isTooOld_offByOne(currentTime, item) ==
    currentTime > BufSize /\ item.LTime < currentTime - BufSize - 1

isTooOld(currentTime, item) ==
    currentTime > BufSize /\ item.LTime < currentTime - BufSize

isLTimeNew(buf, t) == buf[Slot(t)].Items = <<>> \/ buf[Slot(t)].LTime < t

\* The boolean that addItem returns.
Accepts(buf, currentTime, item) ==
    /\ ~isTooOld(currentTime, item)
    /\ isLTimeNew(buf, item.LTime) \/ ~has(buf[Slot(item.LTime)], item)

\* The buffer after addItem accepted the item: addNewLTime replaces the group
\* of the slot, group.add appends to it.
Added(buf, item) ==
    LET s == Slot(item.LTime)
    IN  [buf EXCEPT ![s] =
            IF isLTimeNew(buf, item.LTime)
              THEN [LTime |-> item.LTime, Items |-> <<item>>]
              ELSE [LTime |-> buf[s].LTime, Items |-> Append(buf[s].Items, item)]]
=============================================================================
