--------------------------- MODULE SnapshotProofs ---------------------------
(***************************************************************************)
(* For any members, times, thresholds and sizes, and any number of events, *)
(* flushes, failures, compactions and runs: the log and its buffer say     *)
(* what the memory says, a shutdown leaves all of it in the file, and a    *)
(* restart reads a state the node was in, none older than the last flush.  *)
(***************************************************************************)
EXTENDS Snapshot, FiniteSetTheorems, WellFoundedInduction, TLAPS

-----------------------------------------------------------------------------
(* Induction. *)

\* Induction over the natural numbers, as the least number not in a set.
LEMMA SetInduction ==
  ASSUME NEW S, 0 \in S, \A n \in Nat : n \in S => n + 1 \in S
  PROVE  Nat \subseteq S
<1> DEFINE R == OpToRel(<, Nat)
           T == Nat \ S
<1>1. IsWellFoundedOn(R, Nat)
  BY NatLessThanWellFounded, Zenon
<1>2. \A x, y \in Nat : x < y => <<x, y>> \in R
  BY DEF OpToRel
<1> HIDE DEF R
<1>3. SUFFICES ASSUME T # {}
               PROVE  FALSE
  OBVIOUS
<1>4. T \subseteq Nat
  OBVIOUS
<1> HIDE DEF T
<1>5. PICK x \in T : \A y \in T : ~ (<<y, x>> \in R)
  BY <1>1, <1>3, <1>4, WFMin
<1>6. x \in Nat /\ x # 0
  BY <1>4 DEF T
<1>7. x - 1 \in Nat /\ x - 1 < x
  BY <1>6
<1>8. x - 1 \notin T
  BY <1>2, <1>5, <1>6, <1>7
<1> QED
  BY <1>6, <1>7, <1>8 DEF T

-----------------------------------------------------------------------------
(* What replay reads. *)

\* replay goes through the lines one by one.
LEMMA ReplayIs ==
  ASSUME NEW lines, Len(lines) \in Nat
  PROVE  \E f : /\ f[0] = Blank
                /\ \A i \in 1 .. Len(lines) : f[i] = handleLine(f[i - 1], lines[i])
                /\ replay(lines) = f[Len(lines)]
<1> DEFINE Def(n, f) == f = [i \in 0 .. n |-> IF i = 0 THEN Blank
                                              ELSE handleLine(f[i - 1], lines[i])]
           S == {n \in Nat : \E f : Def(n, f)}
<1>1. 0 \in S
  <2> DEFINE f == [i \in 0 .. 0 |-> Blank]
  <2>1. Def(0, f)
    OBVIOUS
  <2> QED
    BY <2>1
<1>2. ASSUME NEW n \in Nat, n \in S
      PROVE  n + 1 \in S
  <2>1. PICK f : Def(n, f)
    BY <1>2
  <2> DEFINE g == [i \in 0 .. n + 1 |-> IF i = n + 1 THEN handleLine(f[n], lines[n + 1])
                                        ELSE f[i]]
  <2>2. \A i \in 0 .. n : g[i] = f[i]
    OBVIOUS
  <2>3. f[0] = Blank /\ \A i \in 1 .. n : f[i] = handleLine(f[i - 1], lines[i])
    BY <2>1
  <2>4. ASSUME NEW i \in 0 .. n + 1
        PROVE  g[i] = IF i = 0 THEN Blank ELSE handleLine(g[i - 1], lines[i])
    <3>1. CASE i = n + 1
      BY <2>2, <3>1
    <3>2. CASE i # n + 1
      <4>1. i \in 0 .. n /\ (i # 0 => i \in 1 .. n /\ i - 1 \in 0 .. n)
        BY <3>2
      <4> HIDE DEF g
      <4> QED
        BY <2>2, <2>3, <4>1
    <3> QED
      BY <3>1, <3>2
  <2>5. Def(n + 1, g)
    <3>1. g = [i \in 0 .. n + 1 |-> g[i]]
      OBVIOUS
    <3> HIDE DEF g
    <3> QED
      BY <2>4, <3>1
  <2> HIDE DEF g
  <2>6. n + 1 \in Nat
    OBVIOUS
  <2> QED
    BY <2>5, <2>6
<1>3. Len(lines) \in S
  <2> HIDE DEF S
  <2> QED
    BY <1>1, <1>2, SetInduction
<1> DEFINE h == CHOOSE f : Def(Len(lines), f)
<1>4. Def(Len(lines), h)
  BY <1>3
<1>5. replay(lines) = h[Len(lines)]
  BY DEF replay
<1> HIDE DEF h
<1> QED
  BY <1>4, <1>5

\* An empty file reads as a blank state.
LEMMA ReplayEmpty == replay(<<>>) = Blank
BY ReplayIs

\* A line more is one more to handle.
LEMMA ReplayAppend ==
  ASSUME NEW S, NEW lines \in Seq(S), NEW l \in S
  PROVE  replay(Append(lines, l)) = handleLine(replay(lines), l)
<1> DEFINE more == Append(lines, l)
           k == Len(lines)
<1>1. /\ k \in Nat /\ Len(more) = k + 1 /\ more[k + 1] = l /\ Len(more) \in Nat
      /\ \A i \in 1 .. k : more[i] = lines[i]
  OBVIOUS
<1>2. PICK f : /\ f[0] = Blank /\ \A i \in 1 .. k : f[i] = handleLine(f[i - 1], lines[i])
               /\ replay(lines) = f[k]
  BY <1>1, ReplayIs
<1> HIDE DEF more, k
<1>3. PICK g : /\ g[0] = Blank /\ \A i \in 1 .. Len(more) : g[i] = handleLine(g[i - 1], more[i])
               /\ replay(more) = g[Len(more)]
  BY <1>1, ReplayIs
<1> DEFINE Q == {n \in Nat : n <= k => f[n] = g[n]}
<1>4. 0 \in Q
  BY <1>2, <1>3
<1>5. ASSUME NEW n \in Nat, n \in Q
      PROVE  n + 1 \in Q
  <2> SUFFICES ASSUME n + 1 <= k
               PROVE  f[n + 1] = g[n + 1]
    OBVIOUS
  <2>1. n + 1 \in 1 .. k /\ n + 1 \in 1 .. Len(more) /\ (n + 1) - 1 = n /\ f[n] = g[n]
    BY <1>1, <1>5
  <2> QED
    BY <1>1, <1>2, <1>3, <2>1
<1>6. k \in Q
  <2> HIDE DEF Q
  <2> QED
    BY <1>1, <1>4, <1>5, SetInduction
<1>7. g[k + 1] = handleLine(g[k], l)
  <2>1. k + 1 \in 1 .. Len(more) /\ (k + 1) - 1 = k
    BY <1>1
  <2> QED
    BY <1>1, <1>3, <2>1
<1> QED
  BY <1>1, <1>2, <1>3, <1>6, <1>7 DEF more

\* The lines that are written, and the states they make.
Time == 0 .. MaxTime
Line == ({"alive", "not-alive"} \X NodeID) \cup ({"action-clock", "query-clock"} \X Time)
           \cup {<<"leave", "">>}
Mem == [aliveNodes : {S \in SUBSET NodeID : IsFiniteSet(S)}, lastActionClock : Time, lastQueryClock : Time]

\* The state of a node that has seen nothing is a state.
LEMMA BlankType == Blank \in Mem
BY FS_EmptySet, SnapshotAssumption DEF Blank, Mem, Time

\* A line that was written makes a state of a state.
LEMMA HandleLineType ==
  ASSUME NEW s \in Mem, NEW l \in Line
  PROVE  handleLine(s, l) \in Mem
<1>1. IsFiniteSet(s.aliveNodes) /\ s.aliveNodes \subseteq NodeID /\ s.lastActionClock \in Time
      /\ s.lastQueryClock \in Time
  BY DEF Mem
<1>2. CASE l \in {"alive", "not-alive"} \X NodeID
  <2>1. PICK x \in {"alive", "not-alive"}, n \in NodeID : l = <<x, n>>
    BY <1>2
  <2>2. IsFiniteSet(s.aliveNodes \cup {n}) /\ IsFiniteSet(s.aliveNodes \ {n})
    BY <1>1, FS_AddElement, FS_RemoveElement
  <2>3. s.aliveNodes \cup {n} \subseteq NodeID /\ s.aliveNodes \ {n} \subseteq NodeID
    BY <1>1
  <2>4. handleLine(s, l) \in {[s EXCEPT !.aliveNodes = s.aliveNodes \cup {n}],
                              [s EXCEPT !.aliveNodes = s.aliveNodes \ {n}]}
    BY <2>1 DEF handleLine, Mem
  <2> QED
    BY <1>1, <2>2, <2>3, <2>4 DEF Mem
<1>3. CASE l \in {"action-clock", "query-clock"} \X Time
  <2>1. PICK x \in {"action-clock", "query-clock"}, t \in Time : l = <<x, t>>
    BY <1>3
  <2> QED
    BY <1>1, <2>1 DEF handleLine, Mem
<1>4. CASE l = <<"leave", "">>
  BY <1>4 DEF handleLine
<1> QED
  BY <1>2, <1>3, <1>4 DEF Line

\* Lines that were written make a state of a node.
LEMMA ReplayType ==
  ASSUME NEW lines \in Seq(Line)
  PROVE  replay(lines) \in Mem
<1>0. Len(lines) \in Nat /\ \A i \in 1 .. Len(lines) : lines[i] \in Line
  OBVIOUS
<1>1. PICK f : /\ f[0] = Blank /\ \A i \in 1 .. Len(lines) : f[i] = handleLine(f[i - 1], lines[i])
               /\ replay(lines) = f[Len(lines)]
  BY <1>0, ReplayIs
<1> DEFINE Q == {n \in Nat : n <= Len(lines) => f[n] \in Mem}
<1>2. 0 \in Q
  BY <1>1, BlankType
<1>3. ASSUME NEW n \in Nat, n \in Q
      PROVE  n + 1 \in Q
  <2> SUFFICES ASSUME n + 1 <= Len(lines)
               PROVE  f[n + 1] \in Mem
    OBVIOUS
  <2>1. n + 1 \in 1 .. Len(lines) /\ (n + 1) - 1 = n /\ f[n] \in Mem
    BY <1>0, <1>3
  <2> QED
    BY <1>0, <1>1, <2>1, HandleLineType
<1>4. Len(lines) \in Q
  <2> HIDE DEF Q
  <2> QED
    BY <1>0, <1>2, <1>3, SetInduction
<1> QED
  BY <1>1, <1>4

\* The leave is not part of the state.
LEMMA LeaveIsNoState ==
  ASSUME NEW s
  PROVE  handleLine(s, <<"leave", "">>) = s
BY DEF handleLine

\* A finite set as a sequence: all elements, and no others.
LEMMA SetToSeqIs ==
  ASSUME NEW S, IsFiniteSet(S)
  PROVE  /\ SX!SetToSeq(S) \in Seq(S)
         /\ {SX!SetToSeq(S)[i] : i \in 1 .. Len(SX!SetToSeq(S))} = S
<1> DEFINE n == Cardinality(S)
           q == SX!SetToSeq(S)
<1>1. n \in Nat /\ ExistsBijection(1 .. n, S)
  BY FS_CardinalityType
<1>2. PICK b : b \in Bijection(1 .. n, S)
  BY <1>1 DEF ExistsBijection
<1>3. b \in [1 .. n -> S] /\ SX!IsInjective(b)
  BY <1>2 DEF Bijection, Injection, SX!IsInjective, IsInjective
<1>4. q \in [1 .. n -> S] /\ SX!IsInjective(q)
  <2>1. q = CHOOSE f \in [1 .. n -> S] : SX!IsInjective(f)
    BY DEF SX!SetToSeq, SX!Cardinality, Cardinality
  <2> HIDE DEF n, q
  <2> QED
    BY <1>3, <2>1
<1>5. q \in Injection(1 .. n, S)
  BY <1>4 DEF Injection, SX!IsInjective, IsInjective
<1>6. Cardinality(1 .. n) = n /\ IsFiniteSet(1 .. n)
  BY <1>1, FS_Interval
<1> HIDE DEF q
<1>7. q \in Surjection(1 .. n, S)
  BY <1>5, <1>6, FS_Injection
<1>8. \A x \in S : \E i \in 1 .. n : q[i] = x
  BY <1>7 DEF Surjection
<1>9. q \in Seq(S) /\ Len(q) = n
  BY <1>1, <1>4
<1> QED
  BY <1>4, <1>8, <1>9 DEF q

\* A compacted log reads as the state it was made of.
LEMMA ReplayDump ==
  ASSUME mem \in Mem
  PROVE  DumpLines \in Seq(Line) /\ replay(DumpLines) = mem
<1> DEFINE S == {<<"alive", n>> : n \in mem.aliveNodes}
           q == SX!SetToSeq(S)
           k == Len(q)
<1>1. IsFiniteSet(mem.aliveNodes) /\ mem.aliveNodes \subseteq NodeID
      /\ mem.lastActionClock \in Time /\ mem.lastQueryClock \in Time
  BY DEF Mem
<1>2. IsFiniteSet(S)
  <2> DEFINE f == [n \in mem.aliveNodes |-> <<"alive", n>>]
  <2>1. f \in Surjection(mem.aliveNodes, S)
    BY DEF Surjection
  <2> HIDE DEF f, S
  <2> QED
    BY <1>1, <2>1, FS_Surjection
<1>3. q \in Seq(S) /\ {q[i] : i \in 1 .. k} = S
  <2> HIDE DEF S
  <2> QED
    BY <1>2, SetToSeqIs
<1>4. S \subseteq Line
  <2>1. \A n \in NodeID : <<"alive", n>> \in {"alive", "not-alive"} \X NodeID
    OBVIOUS
  <2> QED
    BY <1>1, <2>1 DEF Line
<1> HIDE DEF q
<1>5. k \in Nat /\ q \in Seq(Line) /\ \A i \in 1 .. k : q[i] \in S
  <2> HIDE DEF S
  <2> QED
    BY <1>3, <1>4
<1>6. replay(q) = [Blank EXCEPT !.aliveNodes = mem.aliveNodes]
  <2>1. PICK f : /\ f[0] = Blank /\ \A i \in 1 .. k : f[i] = handleLine(f[i - 1], q[i])
                 /\ replay(q) = f[k]
    BY <1>5, ReplayIs
  <2> HIDE DEF k
  <2> DEFINE Names(n) == {q[i][2] : i \in 1 .. n}
             Q == {n \in Nat : n <= k => f[n] = [Blank EXCEPT !.aliveNodes = Names(n)]}
  <2>2. 0 \in Q
    BY <2>1 DEF Blank
  <2>3. ASSUME NEW n \in Nat, n \in Q
        PROVE  n + 1 \in Q
    <3> SUFFICES ASSUME n + 1 <= k
                 PROVE  f[n + 1] = [Blank EXCEPT !.aliveNodes = Names(n + 1)]
      OBVIOUS
    <3>1. n + 1 \in 1 .. k /\ (n + 1) - 1 = n /\ f[n] = [Blank EXCEPT !.aliveNodes = Names(n)]
      BY <1>5, <2>3
    <3>2. PICK m \in mem.aliveNodes : q[n + 1] = <<"alive", m>>
      BY <1>5, <3>1
    <3>3. q[n + 1][1] = "alive" /\ q[n + 1][2] = m
      BY <3>2
    <3>4. Names(n + 1) = Names(n) \cup {m}
      <4>1. \A i : i \in 1 .. n + 1 <=> i \in 1 .. n \/ i = n + 1
        OBVIOUS
      <4> QED
        BY <3>3, <4>1
    <3>5. f[n + 1] = [f[n] EXCEPT !.aliveNodes = f[n].aliveNodes \cup {m}]
      BY <2>1, <3>1, <3>3 DEF handleLine
    <3> HIDE DEF Names
    <3> QED
      BY <3>1, <3>4, <3>5 DEF Blank
  <2>4. k \in Q
    <3> HIDE DEF Q
    <3> QED
      BY <1>5, <2>2, <2>3, SetInduction
  <2>5. Names(k) = mem.aliveNodes
    <3>1. Names(k) \subseteq mem.aliveNodes
      BY <1>5
    <3>2. ASSUME NEW m \in mem.aliveNodes
          PROVE  m \in Names(k)
      <4>1. <<"alive", m>> \in {q[i] : i \in 1 .. k}
        BY <1>3 DEF k
      <4>2. PICK i \in 1 .. k : q[i] = <<"alive", m>>
        BY <4>1
      <4> QED
        BY <4>2
    <3> QED
      BY <3>1, <3>2
  <2>6. f[k] = [Blank EXCEPT !.aliveNodes = Names(k)]
    <3> HIDE DEF Names
    <3> QED
      BY <1>5, <2>4
  <2> HIDE DEF Names
  <2> QED
    BY <2>1, <2>5, <2>6
<1> DEFINE a == <<"action-clock", mem.lastActionClock>>
           b == <<"query-clock", mem.lastQueryClock>>
           c == <<"leave", "">>
           two == Append(Append(q, a), b)
<1>7. a \in Line /\ b \in Line /\ c \in Line
  BY <1>1 DEF Line
<1>a. \A s : handleLine(s, c) = s
  BY LeaveIsNoState
<1> HIDE DEF a, b, c, S
<1>10. Append(q, a) \in Seq(Line) /\ two \in Seq(Line)
  BY <1>5, <1>7
<1>8. replay(two) = mem
  <2>1. replay(Append(q, a)) = handleLine(replay(q), a)
    BY <1>5, <1>7, ReplayAppend
  <2> DEFINE one == Append(q, a)
  <2> HIDE DEF one
  <2>2. replay(Append(one, b)) = handleLine(replay(one), b)
    BY <1>7, <1>10, ReplayAppend DEF one
  <2>3. replay(two) = handleLine(handleLine(replay(q), a), b)
    BY <2>1, <2>2 DEF one
  <2> HIDE DEF two
  <2>4. replay(q) = [aliveNodes |-> mem.aliveNodes, lastActionClock |-> 0, lastQueryClock |-> 0]
    BY <1>6 DEF Blank
  <2>5. handleLine(replay(q), a) = [aliveNodes |-> mem.aliveNodes, lastActionClock |-> mem.lastActionClock,
                                    lastQueryClock |-> 0]
    BY <2>4 DEF handleLine, a
  <2>6. handleLine(handleLine(replay(q), a), b) =
           [aliveNodes |-> mem.aliveNodes, lastActionClock |-> mem.lastActionClock,
            lastQueryClock |-> mem.lastQueryClock]
    <3> DEFINE t == handleLine(replay(q), a)
    <3>1. t = [aliveNodes |-> mem.aliveNodes, lastActionClock |-> mem.lastActionClock,
               lastQueryClock |-> 0]
      BY <2>5
    <3> HIDE DEF t
    <3>2. b[1] = "query-clock" /\ b[2] = mem.lastQueryClock
      BY DEF b
    <3>3. handleLine(t, b) = [t EXCEPT !.lastQueryClock = mem.lastQueryClock]
      BY <3>2 DEF handleLine
    <3> QED
      BY <3>1, <3>3 DEF t
  <2> QED
    BY <2>3, <2>6 DEF Mem
<1>9. DumpLines = IF leaving THEN Append(two, c) ELSE two
  <2>1. DumpLines = q \o <<a, b>> \o (IF leaving THEN <<c>> ELSE <<>>)
    BY DEF DumpLines, q, S, a, b, c
  <2>2. two = q \o <<a, b>>
    BY <1>5, <1>7
  <2>3. two \in Seq(Line)
    BY <1>5, <1>7
  <2> HIDE DEF two
  <2>4. two \o <<c>> = Append(two, c) /\ two \o <<>> = two
    BY <1>7, <2>3
  <2> QED
    BY <2>1, <2>2, <2>4
<1> HIDE DEF two
<1>11. replay(Append(two, c)) = handleLine(replay(two), c) /\ Append(two, c) \in Seq(Line)
  BY <1>7, <1>10, ReplayAppend
<1> QED
  BY <1>a, <1>8, <1>9, <1>10, <1>11

\* An event adds lines that can be read again.
LEMMA LineOfType ==
  ASSUME NEW e \in Event
  PROVE  LineOf(e) \subseteq Line
<1>1. CASE e \in {"join", "failed", "leave", "update"} \X NodeID
  <2>1. e[1] \in {"join", "failed", "leave", "update"} /\ e[2] \in NodeID
    BY <1>1
  <2>2. <<"alive", e[2]>> \in Line /\ <<"not-alive", e[2]>> \in Line
    BY <2>1 DEF Line
  <2> QED
    BY <2>1, <2>2 DEF LineOf
<1>2. CASE e \in {"action", "query"} \X (1 .. MaxTime)
  <2>1. e[1] \in {"action", "query"} /\ e[2] \in Time
    BY <1>2 DEF Time
  <2>2. <<"action-clock", e[2]>> \in Line /\ <<"query-clock", e[2]>> \in Line
    BY <2>1 DEF Line
  <2> QED
    BY <2>1, <2>2 DEF LineOf
<1> QED
  BY <1>1, <1>2 DEF Event

-----------------------------------------------------------------------------
(* The prefixes of what is on disk and in the buffer. *)

Prefixes(disk, b) == {replay(disk \o SubSeq(b, 1, i)) : i \in 0 .. Len(b)}

\* The prefixes include what is on disk alone, and with the whole buffer.
LEMMA PrefixEnds ==
  ASSUME NEW disk \in Seq(Line), NEW b \in Seq(Line)
  PROVE  {replay(disk), replay(disk \o b)} \subseteq Prefixes(disk, b)
<1>1. disk \o SubSeq(b, 1, 0) = disk /\ disk \o SubSeq(b, 1, Len(b)) = disk \o b
  OBVIOUS
<1>2. 0 \in 0 .. Len(b) /\ Len(b) \in 0 .. Len(b)
  OBVIOUS
<1> QED
  BY <1>1, <1>2 DEF Prefixes

\* With an empty buffer there is nothing but the disk.
LEMMA PrefixOfNone ==
  ASSUME NEW disk \in Seq(Line)
  PROVE  Prefixes(disk, <<>>) = {replay(disk)}
<1>1. \A i \in 0 .. Len(<<>>) : disk \o SubSeq(<<>>, 1, i) = disk
  <2>1. 0 .. Len(<<>>) = {0}
    OBVIOUS
  <2>2. disk \o SubSeq(<<>>, 1, 0) = disk
    OBVIOUS
  <2> QED
    BY <2>1, <2>2
<1>2. 0 \in 0 .. Len(<<>>)
  OBVIOUS
<1> QED
  BY <1>1, <1>2 DEF Prefixes

\* A line more in the buffer adds one state to those that can be read.
LEMMA PrefixAppend ==
  ASSUME NEW disk \in Seq(Line), NEW b \in Seq(Line), NEW l \in Line
  PROVE  /\ replay(disk \o Append(b, l)) = handleLine(replay(disk \o b), l)
         /\ Prefixes(disk, Append(b, l)) = Prefixes(disk, b) \cup {replay(disk \o Append(b, l))}
<1>1. disk \o Append(b, l) = Append(disk \o b, l) /\ disk \o b \in Seq(Line)
  OBVIOUS
<1> DEFINE more == Append(b, l)
           k == Len(b)
<1>2. k \in Nat /\ Len(more) = k + 1 /\ SubSeq(more, 1, k + 1) = more
  OBVIOUS
<1>3. ASSUME NEW i \in 0 .. k
      PROVE  SubSeq(more, 1, i) = SubSeq(b, 1, i)
  OBVIOUS
<1> HIDE DEF more, k
<1>4. 0 .. k + 1 = (0 .. k) \cup {k + 1}
  BY <1>2
<1>5. Prefixes(disk, more) = {replay(disk \o SubSeq(more, 1, i)) : i \in 0 .. k} \cup {replay(disk \o more)}
  BY <1>2, <1>4 DEF Prefixes
<1>6. {replay(disk \o SubSeq(more, 1, i)) : i \in 0 .. k} = Prefixes(disk, b)
  BY <1>3 DEF Prefixes, k
<1> QED
  BY <1>1, <1>5, <1>6, ReplayAppend DEF more

-----------------------------------------------------------------------------
(* The inductive invariant. *)

Types == /\ mem \in Mem /\ teeCh \in Seq(Event) /\ Len(teeCh) <= TeeSize
         /\ file \in Seq(Line) /\ compactFile \in Seq(Line) /\ buffer \in Seq(Line)
         /\ handle \in {"ok", "broken", "nil"}
         /\ pc \in {"loop", "compact", "dumped", "flushed", "removed", "renamed", "stopped"}

\* There is no handle from the flush of a compaction to its end.  Without a good
\* one there is nothing in the buffer, and only then a line may be incomplete.
Handles == /\ handle = "nil" <=> pc \in {"flushed", "removed", "renamed"}
           /\ handle # "ok" => buffer = <<>>
           /\ stump # {} => pc = "flushed" \/ handle = "broken"

\* The log says what the memory says, or else the compacted one does.
Logs == /\ handle = "ok" => replay(file \o buffer) = mem
        /\ pc \in {"dumped", "flushed", "removed"} => replay(compactFile) = mem
        /\ pc = "renamed" => replay(file) = mem
        /\ pc = "stopped" => teeCh = <<>> /\ (handle = "ok" => buffer = <<>>)

IInv == Types /\ Handles /\ Logs

\* The errors and the kills for which the log is sound.
Sound == ~TornEnds /\ Faults \subseteq {"write", "dump"}

\* What would be read was in memory since it was written, and nothing else is
\* kept but what is in memory now.
Advance == Durable' \in Since /\ Since' \subseteq Since \cup {mem'}

\* What a restart reads are lines that were written.
LEMMA DiskType ==
  ASSUME IInv
  PROVE  OnDisk \in Seq(Line) /\ buffer \in Seq(Line)
BY DEF IInv, Types, OnDisk

\* Nothing but whole lines of the buffer gets to a file that has no stump.
LEMMA SinceIs == IInv => Since = Prefixes(OnDisk, buffer) \cup {mem}
<1> SUFFICES ASSUME IInv
             PROVE  Since = Prefixes(OnDisk, buffer) \cup {mem}
  OBVIOUS
<1>1. ASSUME NEW i \in 0 .. Len(buffer)
      PROVE  Glued(SubSeq(buffer, 1, i)) = SubSeq(buffer, 1, i)
  <2>1. stump = {} \/ buffer = <<>>
    BY DEF IInv, Handles
  <2>2. buffer = <<>> => SubSeq(buffer, 1, i) = <<>>
    OBVIOUS
  <2> QED
    BY <2>1, <2>2 DEF Glued
<1>2. Durable \in Prefixes(OnDisk, buffer)
  BY DiskType, PrefixEnds DEF Durable
<1>3. {replay(OnDisk \o Glued(SubSeq(buffer, 1, i))) : i \in 0 .. Len(buffer)} = Prefixes(OnDisk, buffer)
  BY <1>1 DEF Prefixes
<1> QED
  BY <1>2, <1>3 DEF Since

\* What a step has to show of the disk and the buffer to advance.
LEMMA Advances ==
  ASSUME IInv, IInv', replay(OnDisk') \in Prefixes(OnDisk, buffer) \cup {mem},
         Prefixes(OnDisk', buffer') \subseteq Prefixes(OnDisk, buffer) \cup {mem, mem'}
  PROVE  Advance
<1>1. Since' = Prefixes(OnDisk', buffer') \cup {mem'}
  <2>1. (IInv => Since = Prefixes(OnDisk, buffer) \cup {mem})'
    BY SinceIs, PTL
  <2> QED
    BY <2>1
<1>2. Durable' = replay(OnDisk')
  BY DEF Durable
<1> QED
  BY <1>1, <1>2, SinceIs DEF Advance

\* A step that changes neither the memory nor the log.
LEMMA LogKept ==
  ASSUME IInv, IInv', OnDisk' = OnDisk, buffer' = buffer, mem' = mem
  PROVE  Advance
<1>1. replay(OnDisk) \in Prefixes(OnDisk, buffer)
  BY DiskType, PrefixEnds
<1> QED
  BY <1>1, Advances

\* The buffer is written, with or without a line of no state.
LEMMA BufferWritten ==
  ASSUME IInv, IInv', OnDisk = file, OnDisk' \in Seq(Line), buffer' = <<>>,
         replay(OnDisk') = replay(file \o buffer) \/ replay(OnDisk') = mem
  PROVE  Advance
<1>1. replay(file \o buffer) \in Prefixes(OnDisk, buffer)
  BY DiskType, PrefixEnds
<1>2. Prefixes(OnDisk', buffer') = {replay(OnDisk')}
  BY PrefixOfNone
<1> QED
  BY <1>1, <1>2, Advances

\* A line is appended, to the buffer or after it was written.
LEMMA LineAppended ==
  ASSUME IInv, IInv', OnDisk = file, OnDisk' = file', handle = "ok", stump = {}, NEW l \in Line,
         Appended(l), mem' = handleLine(mem, l)
  PROVE  Advance
<1>0. /\ file \in Seq(Line) /\ buffer \in Seq(Line) /\ file \o buffer \in Seq(Line)
      /\ replay(file \o buffer) = mem
  BY DEF IInv, Types, Logs
<1>1. {replay(file), replay(file \o buffer)} \subseteq Prefixes(file, buffer)
  BY <1>0, PrefixEnds
<1>2. CASE buffer' = Append(buffer, l) /\ UNCHANGED <<file, stump, cut>>
  <2>1. Prefixes(file', buffer') = Prefixes(file, buffer) \cup {handleLine(replay(file \o buffer), l)}
    BY <1>0, <1>2, PrefixAppend
  <2> QED
    BY <1>0, <1>1, <1>2, <2>1, Advances
<1>3. CASE Write(buffer) /\ buffer' = <<l>>
  <2>1. file' = file \o buffer /\ file' \in Seq(Line)
    BY <1>0, <1>3 DEF Write, Glued
  <2>2. buffer' = Append(<<>>, l) /\ <<>> \in Seq(Line)
    BY <1>3
  <2>3. Prefixes(file', buffer') = Prefixes(file', <<>>) \cup {handleLine(replay(file' \o <<>>), l)}
    <3>1. /\ replay(file' \o Append(<<>>, l)) = handleLine(replay(file' \o <<>>), l)
          /\ Prefixes(file', Append(<<>>, l)) =
                Prefixes(file', <<>>) \cup {replay(file' \o Append(<<>>, l))}
      BY <2>1, <2>2, PrefixAppend
    <3> QED
      BY <2>2, <3>1
  <2>4. Prefixes(file', <<>>) = {replay(file')} /\ file' \o <<>> = file'
    <3>1. Prefixes(file', <<>>) = {replay(file')}
      BY <2>1, PrefixOfNone
    <3>2. file' \o <<>> = file'
      BY <2>1
    <3> QED
      BY <3>1, <3>2
  <2> QED
    BY <1>0, <1>1, <2>1, <2>3, <2>4, Advances
<1> QED
  BY <1>2, <1>3 DEF Appended

\* A write that fails gets a prefix of the buffer to the file.
LEMMA FailedWriteIs ==
  ASSUME IInv, handle = "ok", NEW lines, FailedWrite(lines),
         lines = buffer \/ \E l \in Line : lines = Append(buffer, l)
  PROVE  file' \in Seq(Line) /\ buffer' = <<>> /\ replay(file') \in Prefixes(file, buffer)
<1>1. file \in Seq(Line) /\ buffer \in Seq(Line) /\ stump = {}
  BY DEF IInv, Types, Handles
<1>2. PICK n \in 0 .. Len(lines) - 1 : file' = file \o Glued(SubSeq(lines, 1, n))
  BY DEF FailedWrite
<1>3. n \in 0 .. Len(buffer) /\ SubSeq(lines, 1, n) = SubSeq(buffer, 1, n)
  <2>1. CASE lines = buffer
    BY <1>1, <1>2, <2>1
  <2>2. ASSUME NEW l \in Line, lines = Append(buffer, l)
        PROVE  n \in 0 .. Len(buffer) /\ SubSeq(lines, 1, n) = SubSeq(buffer, 1, n)
    BY <1>1, <1>2, <2>2
  <2> QED
    BY <2>1, <2>2
<1>4. file' = file \o SubSeq(buffer, 1, n)
  BY <1>1, <1>2, <1>3 DEF Glued
<1>5. file' \in Seq(Line)
  BY <1>1, <1>3, <1>4
<1> QED
  BY <1>3, <1>4, <1>5 DEF Prefixes, FailedWrite

-----------------------------------------------------------------------------
(* Every action, one operation on files at a time. *)

\* A step that leaves memory and files alone.
LEMMA FilesKept ==
  ASSUME IInv, UNCHANGED <<mem, file, stump, compactFile, buffer>>,
         teeCh' \in Seq(Event), Len(teeCh') <= TeeSize,
         \/ UNCHANGED <<handle, pc>> /\ (pc = "stopped" => teeCh' = teeCh)
         \/ /\ pc \in {"loop", "compact"} /\ pc' \in {"loop", "compact"}
            /\ UNCHANGED handle
  PROVE  IInv' /\ Advance
<1>1. pc \in {"loop", "compact"} => handle # "nil"
  BY DEF IInv, Handles
<1>2. Types'
  BY <1>1 DEF IInv, Types
<1>3. Handles'
  BY <1>1 DEF IInv, Handles
<1>4. Logs'
  BY DEF IInv, Logs
<1>5. OnDisk' = OnDisk
  BY DEF OnDisk
<1> QED
  BY <1>2, <1>3, <1>4, <1>5, LogKept DEF IInv

\* The tee hands over an event, or drops it when teeCh is full.
LEMMA TeeStep ==
  ASSUME IInv, NEW e \in Event, Tee(e)
  PROVE  IInv' /\ Advance
<1>1. /\ UNCHANGED <<mem, file, stump, compactFile, buffer, handle, pc>> /\ pc # "stopped"
      /\ teeCh' = IF Len(teeCh) < TeeSize THEN Append(teeCh, e) ELSE teeCh
  BY DEF Tee, diskVars, bufVars
<1>2. teeCh \in Seq(Event) /\ Len(teeCh) <= TeeSize /\ TeeSize \in Nat
  BY SnapshotAssumption DEF IInv, Types
<1>3. teeCh' \in Seq(Event) /\ Len(teeCh') <= TeeSize
  BY <1>1, <1>2
<1> QED
  BY <1>1, <1>3, FilesKept

\* A write fails, and bufio stays in error: nothing is left in the buffer.
LEMMA BrokenStep ==
  ASSUME IInv, pc = "loop", handle = "ok", NEW lines, WriteFault(lines),
         lines = buffer \/ \E l \in Line : lines = Append(buffer, l),
         pc' \in {"loop", "compact", "stopped"}, mem' \in Mem, UNCHANGED compactFile,
         teeCh' \in Seq(Event), Len(teeCh') <= TeeSize, pc' = "stopped" => teeCh' = <<>>
  PROVE  IInv' /\ Advance
<1>1. handle' = "broken" /\ file' \in Seq(Line) /\ buffer' = <<>> /\ buffer' \in Seq(Line)
      /\ replay(file') \in Prefixes(file, buffer)
  <2>1. handle' = "broken" /\ FailedWrite(lines)
    BY DEF WriteFault
  <2>2. file' \in Seq(Line) /\ buffer' = <<>> /\ replay(file') \in Prefixes(file, buffer)
    BY <2>1, FailedWriteIs
  <2> QED
    BY <2>1, <2>2
<1>2. IInv'
  BY <1>1 DEF IInv, Types, Handles, Logs
<1>3. OnDisk = file /\ OnDisk' = file'
  BY DEF OnDisk
<1>4. Prefixes(OnDisk', buffer') = {replay(OnDisk')}
  BY <1>1, <1>3, PrefixOfNone
<1> QED
  BY <1>1, <1>2, <1>3, <1>4, Advances

\* A line is appended, or the write fails, or there is no file to append it to.
LEMMA tryAppendStep ==
  ASSUME IInv, pc = "loop", NEW l \in Line, tryAppend(l), mem' = handleLine(mem, l),
         teeCh' \in Seq(Event), Len(teeCh') <= TeeSize, UNCHANGED compactFile
  PROVE  IInv' /\ Advance
<1>1. /\ mem \in Mem /\ file \in Seq(Line) /\ buffer \in Seq(Line) /\ handle # "nil"
      /\ handle = "ok" => stump = {}
      /\ file \o buffer \in Seq(Line) /\ compactFile \in Seq(Line)
  BY DEF IInv, Types, Handles
<1>2. mem' \in Mem
  BY <1>1, HandleLineType
<1>3. pc' \in {"loop", "compact"}
  BY DEF tryAppend, recover
<1>4. OnDisk = file /\ OnDisk' = file'
  BY <1>3 DEF OnDisk
<1>5. CASE handle = "ok" /\ Appended(l) /\ UNCHANGED handle
  <2>1. Appended(l) /\ replay(file \o buffer) = mem /\ handle = "ok" /\ handle' = handle /\ stump = {}
    BY <1>1, <1>5 DEF IInv, Logs
  <2>2. file' \in Seq(Line) /\ buffer' \in Seq(Line) /\ stump' = {} /\ replay(file' \o buffer') = mem'
    <3>1. CASE buffer' = Append(buffer, l) /\ UNCHANGED <<file, stump, cut>>
      BY <1>1, <2>1, <3>1, PrefixAppend
    <3>2. CASE Write(buffer) /\ buffer' = <<l>>
      <4>1. file' = file \o buffer /\ stump' = {}
        BY <1>1, <2>1, <3>2 DEF Write, Glued
      <4>2. file' \o buffer' = Append(file \o buffer, l) /\ buffer' \in Seq(Line)
        BY <1>1, <3>2, <4>1
      <4> QED
        BY <1>1, <2>1, <4>1, <4>2, ReplayAppend
    <3> QED
      BY <2>1, <3>1, <3>2 DEF Appended
  <2>3. IInv'
    BY <1>1, <1>2, <1>3, <2>1, <2>2 DEF IInv, Types, Handles, Logs
  <2> QED
    BY <1>1, <1>4, <2>1, <2>3, LineAppended
<1>6. CASE handle = "broken" /\ UNCHANGED <<file, stump, bufVars>>
  <2>1. UNCHANGED <<file, stump, buffer, handle>> /\ handle # "ok" /\ handle # "nil"
    BY <1>6 DEF bufVars
  <2>2. IInv'
    BY <1>1, <1>2, <1>3, <2>1 DEF IInv, Types, Handles, Logs
  <2>3. replay(OnDisk) \in Prefixes(OnDisk, buffer)
    BY <1>1, <1>4, PrefixEnds
  <2> QED
    BY <1>4, <2>1, <2>2, <2>3, Advances
<1>7. CASE handle = "ok" /\ WriteFault(Append(buffer, l))
  <2> DEFINE lines == Append(buffer, l)
  <2>1. lines = buffer \/ \E k \in Line : lines = Append(buffer, k)
    BY DEF lines
  <2> HIDE DEF lines
  <2> QED
    BY <1>2, <1>3, <1>7, <2>1, BrokenStep DEF lines
<1> QED
  BY <1>5, <1>6, <1>7 DEF tryAppend

\* receiveEvents records an event.
LEMMA RecordStep ==
  ASSUME IInv, recordEvent
  PROVE  IInv' /\ Advance
<1> DEFINE lines == IF leaving THEN {} ELSE LineOf(Head(teeCh))
<1>1. pc = "loop" /\ teeCh # <<>> /\ handle # "nil" /\ teeCh \in Seq(Event) /\ Len(teeCh) <= TeeSize
      /\ TeeSize \in Nat
  BY SnapshotAssumption DEF recordEvent, IInv, Handles, Types
<1>2. Head(teeCh) \in Event /\ Tail(teeCh) \in Seq(Event) /\ Len(Tail(teeCh)) <= TeeSize
  BY <1>1
<1>3. lines \subseteq Line
  BY <1>2, LineOfType
<1>4. /\ teeCh' = Tail(teeCh) /\ UNCHANGED compactFile
      /\ \/ UNCHANGED <<mem, file, stump, buffer, cut, handle, pc>>
         \/ \E l \in lines : mem' = handleLine(mem, l) /\ tryAppend(l)
  BY <1>1 DEF recordEvent, bufVars
<1> HIDE DEF lines
<1>5. CASE UNCHANGED <<mem, file, stump, buffer, cut, handle, pc>>
  BY <1>1, <1>2, <1>4, <1>5, FilesKept
<1>6. ASSUME NEW l \in lines, mem' = handleLine(mem, l), tryAppend(l)
      PROVE  IInv' /\ Advance
  BY <1>1, <1>2, <1>3, <1>4, <1>6, tryAppendStep
<1> QED
  BY <1>4, <1>5, <1>6

\* The buffer is written in whole.
LEMMA WrittenStep ==
  ASSUME IInv, pc = "loop", handle = "ok", pc' \in {"loop", "stopped"}, buffer' = <<>>,
         file' \in Seq(Line), replay(file') = mem, stump' = {},
         UNCHANGED <<mem, teeCh, compactFile, handle>>, pc' = "stopped" => teeCh = <<>>
  PROVE  IInv' /\ Advance
<1>1. file' \o buffer' = file'
  OBVIOUS
<1>2. IInv'
  BY <1>1 DEF IInv, Types, Handles, Logs
<1>3. OnDisk = file /\ OnDisk' = file'
  BY DEF OnDisk
<1> QED
  BY <1>2, <1>3, BufferWritten

\* The leave is written, and flushed unless that leads to a compaction.
LEMMA LeaveStep ==
  ASSUME IInv, Leave
  PROVE  IInv' /\ Advance
<1> DEFINE l == <<"leave", "">>
           Flushed(k) == Write(Append(buffer, k)) /\ buffer' = <<>> /\ handle' = handle
<1>1. /\ pc = "loop" /\ handle # "nil" /\ teeCh \in Seq(Event) /\ Len(teeCh) <= TeeSize
      /\ file \in Seq(Line) /\ buffer \in Seq(Line) /\ l \in Line
      /\ mem \in Mem
      /\ handle = "ok" => stump = {}
  BY DEF Leave, IInv, Handles, Types, Line
<1>2. mem' = mem /\ UNCHANGED <<teeCh, compactFile>> /\ mem' = handleLine(mem, l)
  BY <1>1, LeaveIsNoState DEF Leave
<1>a. \/ handle = "ok" /\ pc' = pc /\ (Flushed(l) \/ WriteFault(Append(buffer, l)))
      \/ tryAppend(l)
  BY <1>1 DEF Leave
<1> HIDE DEF l
<1>3. CASE handle = "ok" /\ pc' = pc /\ Flushed(l)
  <2>1. Write(Append(buffer, l)) /\ buffer' = <<>> /\ pc' = pc /\ handle' = handle /\ stump = {}
    BY <1>1, <1>3
  <2>2. Append(buffer, l) \in Seq(Line) /\ Append(buffer, l) # <<>>
    BY <1>1
  <2>3. file' = file \o Append(buffer, l) /\ stump' = {}
    BY <1>1, <2>1, <2>2 DEF Write, Glued
  <2>4. replay(file') = handleLine(replay(file \o buffer), l) /\ file' \in Seq(Line)
    <3>1. replay(file \o Append(buffer, l)) = handleLine(replay(file \o buffer), l)
      BY <1>1, PrefixAppend
    <3>2. file \o Append(buffer, l) \in Seq(Line)
      BY <1>1, <2>2
    <3> QED
      BY <2>3, <3>1, <3>2
  <2>5. replay(file') = mem
    BY <1>2, <1>3, <2>4 DEF IInv, Logs
  <2> QED
    BY <1>1, <1>2, <1>3, <2>1, <2>3, <2>4, <2>5, WrittenStep
<1>4. CASE handle = "ok" /\ pc' = pc /\ WriteFault(Append(buffer, l))
  <2> DEFINE lines == Append(buffer, l)
  <2>1. lines = buffer \/ \E k \in Line : lines = Append(buffer, k)
    BY <1>1
  <2>2. WriteFault(lines)
    BY <1>4
  <2>3. mem' \in Mem /\ teeCh' \in Seq(Event) /\ Len(teeCh') <= TeeSize
        /\ pc' \in {"loop", "compact", "stopped"} /\ pc' # "stopped"
    BY <1>1, <1>2, <1>4
  <2> HIDE DEF lines
  <2> QED
    BY <1>1, <1>2, <1>4, <2>1, <2>2, <2>3, BrokenStep
<1>5. CASE tryAppend(l)
  BY <1>1, <1>2, <1>5, tryAppendStep
<1> QED
  BY <1>3, <1>4, <1>5, <1>a

\* After a flush the file says what the memory says.
LEMMA WriteAllStep ==
  ASSUME IInv, pc = "loop", handle = "ok", WriteAll
  PROVE  file' \in Seq(Line) /\ replay(file') = mem /\ stump' = {} /\ buffer' = <<>>
<1>1. stump = {} /\ file \in Seq(Line) /\ buffer \in Seq(Line) /\ replay(file \o buffer) = mem
  BY DEF IInv, Handles, Types, Logs
<1>2. file' = file \o buffer /\ stump' = {} /\ buffer' = <<>>
  BY <1>1 DEF WriteAll, Write, Glued
<1> QED
  BY <1>1, <1>2

\* The ticker flushes, or an error leads to a compaction.
LEMMA FlushTickStep ==
  ASSUME IInv, FlushTick
  PROVE  IInv' /\ Advance
<1>1. /\ pc = "loop" /\ handle # "nil" /\ teeCh \in Seq(Event) /\ Len(teeCh) <= TeeSize
      /\ mem \in Mem /\ UNCHANGED <<mem, teeCh, compactFile>>
  BY DEF FlushTick, IInv, Handles, Types
<1>2. CASE handle = "ok" /\ WriteAll /\ UNCHANGED <<pc, handle>>
  BY <1>1, <1>2, WriteAllStep, WrittenStep
<1>3. CASE handle = "ok" /\ WriteFault(buffer) /\ recover
  <2>1. pc' \in {"loop", "compact"}
    BY <1>1, <1>3 DEF recover
  <2> QED
    BY <1>1, <1>3, <2>1, BrokenStep
<1>4. CASE recover /\ UNCHANGED <<file, stump, buffer, handle>>
  <2>1. pc' \in {"loop", "compact"}
    BY <1>1, <1>4 DEF recover
  <2> QED
    BY <1>1, <1>4, <2>1, FilesKept
<1> QED
  BY <1>1, <1>2, <1>3, <1>4 DEF FlushTick, bufVars

\* The process stops with all its events in the file, or its last write fails.
LEMMA StopStep ==
  ASSUME IInv, Stop
  PROVE  IInv' /\ Advance
<1>1. /\ pc = "loop" /\ handle # "nil" /\ teeCh = <<>> /\ mem \in Mem
      /\ pc' = "stopped" /\ UNCHANGED <<mem, teeCh, compactFile>>
      /\ teeCh \in Seq(Event) /\ Len(teeCh) <= TeeSize
  BY DEF Stop, IInv, Handles, Types
<1>2. CASE handle = "ok" /\ WriteAll /\ UNCHANGED handle
  BY <1>1, <1>2, WriteAllStep, WrittenStep
<1>3. CASE handle = "ok" /\ WriteFault(buffer)
  BY <1>1, <1>3, BrokenStep
<1>4. CASE handle = "broken" /\ UNCHANGED <<file, stump, buffer, handle>>
  <2>1. IInv' /\ OnDisk' = OnDisk
    BY <1>1, <1>4 DEF IInv, Types, Handles, Logs, OnDisk
  <2> QED
    BY <1>1, <1>4, <2>1, LogKept
<1> QED
  BY <1>1, <1>2, <1>3, <1>4 DEF Stop, bufVars

\* The memory is dumped into the file beside the log.
LEMMA DumpStep ==
  ASSUME IInv, Dump
  PROVE  IInv' /\ Advance
<1>1. /\ pc = "compact" /\ pc' = "dumped" /\ compactFile' = DumpLines
      /\ UNCHANGED <<mem, teeCh, file, stump, buffer, handle>>
  BY DEF Dump, Step, bufVars
<1>2. DumpLines \in Seq(Line) /\ replay(DumpLines) = mem
  BY ReplayDump DEF IInv, Types
<1>3. IInv'
  <2>1. Types'
    BY <1>1, <1>2 DEF IInv, Types
  <2>2. Handles'
    BY <1>1 DEF IInv, Handles
  <2>3. Logs'
    BY <1>1, <1>2 DEF IInv, Logs
  <2> QED
    BY <2>1, <2>2, <2>3 DEF IInv
<1>4. OnDisk' = OnDisk
  BY <1>1 DEF OnDisk
<1> QED
  BY <1>1, <1>3, <1>4, LogKept

\* The buffer is written, in part if the write fails, and the old lines are all
\* that is on disk until the compacted file takes their place.
LEMMA FlushOldStep ==
  ASSUME IInv, FlushOld
  PROVE  IInv' /\ Advance
<1>1. pc = "dumped" /\ handle # "nil" /\ file \in Seq(Line) /\ buffer \in Seq(Line)
  BY DEF FlushOld, IInv, Handles, Types
<1>2. pc' = "flushed" /\ handle' = "nil" /\ UNCHANGED <<mem, teeCh, compactFile>>
  BY <1>1 DEF FlushOld
<1>3. OnDisk = file /\ OnDisk' = file'
  BY <1>1, <1>2 DEF OnDisk
<1>4. {replay(file), replay(file \o buffer)} \subseteq Prefixes(file, buffer)
  BY <1>1, PrefixEnds
<1>5. file' \in Seq(Line) /\ buffer' = <<>> /\ replay(file') \in Prefixes(file, buffer)
  <2>1. CASE handle = "ok" /\ WriteAll
    <3>1. stump = {} /\ file \o buffer \in Seq(Line)
      BY <1>1, <2>1 DEF IInv, Handles
    <3>2. file' = file \o buffer /\ buffer' = <<>>
      BY <2>1, <3>1 DEF WriteAll, Write, Glued
    <3> QED
      BY <1>4, <3>1, <3>2
  <2>2. CASE handle = "ok" /\ FailedWrite(buffer)
    BY <2>2, FailedWriteIs
  <2>3. CASE handle = "broken" /\ UNCHANGED <<file, buffer>>
    BY <1>1, <1>4, <2>3 DEF IInv, Handles
  <2> QED
    BY <1>1, <2>1, <2>2, <2>3 DEF FlushOld
<1>6. IInv'
  BY <1>1, <1>2, <1>5 DEF IInv, Types, Handles, Logs
<1>7. Prefixes(OnDisk', buffer') = {replay(file')}
  BY <1>3, <1>5, PrefixOfNone
<1> QED
  BY <1>3, <1>5, <1>6, <1>7, Advances

\* From here on what a restart reads is the compacted file.
LEMMA RemoveStep ==
  ASSUME IInv, Remove
  PROVE  IInv' /\ Advance
<1>1. /\ pc = "flushed" /\ pc' = "removed" /\ file' = <<>> /\ stump' = {}
      /\ UNCHANGED <<mem, teeCh, compactFile, buffer, handle>>
  BY DEF Remove, Step, bufVars
<1>2. /\ handle = "nil" /\ buffer = <<>> /\ replay(compactFile) = mem /\ compactFile \in Seq(Line)
  BY <1>1 DEF IInv, Handles, Types, Logs
<1>3. IInv'
  <2>1. file' \in Seq(Line)
    BY <1>1
  <2> QED
    BY <1>1, <1>2, <2>1 DEF IInv, Types, Handles, Logs
<1>4. OnDisk = file /\ OnDisk' = compactFile
  BY <1>1 DEF OnDisk
<1> QED
  BY <1>1, <1>2, <1>3, <1>4, BufferWritten

\* The compacted file takes the place of the log.
LEMMA RenameStep ==
  ASSUME IInv, Rename
  PROVE  IInv' /\ Advance
<1>1. /\ pc = "removed" /\ pc' = "renamed" /\ file' = compactFile /\ compactFile' = <<>>
      /\ UNCHANGED <<mem, teeCh, stump, buffer, handle>>
  BY DEF Rename, Step, bufVars
<1>2. /\ handle = "nil" /\ stump = {} /\ replay(compactFile) = mem /\ compactFile \in Seq(Line)
  BY <1>1 DEF IInv, Handles, Types, Logs
<1>3. IInv'
  <2>1. compactFile' \in Seq(Line)
    BY <1>1
  <2> QED
    BY <1>1, <1>2, <2>1 DEF IInv, Types, Handles, Logs
<1>4. OnDisk' = OnDisk
  BY <1>1 DEF OnDisk
<1> QED
  BY <1>1, <1>3, <1>4, LogKept

\* The new log is opened, and there is a handle again.
LEMMA OpenStep ==
  ASSUME IInv, Open
  PROVE  IInv' /\ Advance
<1>1. /\ pc = "renamed" /\ pc' = "loop" /\ handle' = "ok"
      /\ UNCHANGED <<mem, teeCh, file, compactFile, stump, buffer>>
  BY DEF Open, Step, diskVars
<1>2. /\ handle = "nil" /\ stump = {} /\ buffer = <<>> /\ replay(file) = mem /\ file \in Seq(Line)
  BY <1>1 DEF IInv, Handles, Types, Logs
<1>3. file \o buffer = file
  BY <1>2
<1>4. IInv'
  BY <1>1, <1>2, <1>3 DEF IInv, Types, Handles, Logs
<1>5. OnDisk' = OnDisk
  BY <1>1 DEF OnDisk
<1> QED
  BY <1>1, <1>4, <1>5, LogKept

\* The dump and the last flush are the only operations of a compaction that fail.
LEMMA CompactStep ==
  ASSUME Sound, IInv, Compact
  PROVE  IInv' /\ Advance
<1>1. ASSUME NEW e \in CompactError, CompactFails(e[1], e[2])
      PROVE  IInv' /\ Advance
  <2>1. e[1] \in {"write", "dump"} /\ e[2] = pc
    BY <1>1 DEF CompactFails, Fault, Sound
  <2>2. pc = "compact"
    BY <2>1 DEF CompactError
  <2>3. pc' \in {"loop", "compact"} /\ UNCHANGED <<mem, teeCh, file, stump, compactFile, buffer, handle>>
    BY <1>1, <2>2 DEF CompactFails, recover, diskVars, bufVars
  <2>4. teeCh \in Seq(Event) /\ Len(teeCh) <= TeeSize
    BY DEF IInv, Types
  <2> QED
    BY <2>2, <2>3, <2>4, FilesKept
<1> QED
  BY <1>1, DumpStep, FlushOldStep, RemoveStep, RenameStep, OpenStep DEF Compact

\* A new process has read the complete lines of the file.
LEMMA RestartStep ==
  ASSUME Sound, IInv, Restart
  PROVE  /\ IInv'
         /\ pc # "removed" => mem' = Durable /\ Durable' = Durable /\ Since' = {Durable}
<1>1. /\ pc' = "loop" /\ handle' = "ok" /\ buffer' = <<>> /\ teeCh' = <<>> /\ mem' = replay(file)
      /\ stump' = {} /\ UNCHANGED <<file, compactFile>>
  BY DEF Restart, Sound
<1>2. file \in Seq(Line) /\ compactFile \in Seq(Line)
  BY DEF IInv, Types
<1>3. mem' \in Mem
  BY <1>1, <1>2, ReplayType
<1>4. /\ file' \o buffer' = file /\ buffer' \in Seq(Line) /\ teeCh' \in Seq(Event)
      /\ Len(teeCh') <= TeeSize
  <2>1. TeeSize \in Nat
    BY SnapshotAssumption
  <2>2. file \o <<>> = file /\ <<>> \in Seq(Line) /\ <<>> \in Seq(Event) /\ Len(<<>>) = 0
    BY <1>2
  <2> QED
    BY <1>1, <2>1, <2>2
<1>5. IInv'
  BY <1>1, <1>2, <1>3, <1>4 DEF IInv, Types, Handles, Logs
<1>6. ASSUME pc # "removed"
      PROVE  mem' = Durable /\ Durable' = Durable /\ Since' = {Durable}
  <2>1. OnDisk = file /\ OnDisk' = file
    BY <1>1, <1>6 DEF OnDisk
  <2>2. (IInv => Since = Prefixes(OnDisk, buffer) \cup {mem})'
    BY SinceIs, PTL
  <2>3. Prefixes(OnDisk', buffer') = {replay(file)}
    BY <1>1, <1>2, <2>1, PrefixOfNone
  <2> QED
    BY <1>1, <1>5, <2>1, <2>2, <2>3 DEF Durable
<1> QED
  BY <1>5, <1>6

\* Steps that leave memory, files and the control of receiveEvents alone.
LEMMA ControlStep ==
  ASSUME IInv, CoolDown \/ Shutdown \/ UNCHANGED vars
  PROVE  IInv' /\ Advance
<1>1. UNCHANGED <<mem, teeCh, file, stump, compactFile, buffer, handle, pc>>
  BY DEF CoolDown, Shutdown, vars, diskVars, bufVars
<1>2. teeCh \in Seq(Event) /\ Len(teeCh) <= TeeSize
  BY DEF IInv, Types
<1> QED
  BY <1>1, <1>2, FilesKept

\* Every step keeps the invariant, and advances or is a restart.
LEMMA NextStep ==
  ASSUME Sound, IInv, [Next]_vars
  PROVE  IInv' /\ (Advance \/ Restart)
<1>1. ASSUME NEW e \in Event, Tee(e)
      PROVE  IInv' /\ Advance
  BY <1>1, TeeStep
<1>2. recordEvent \/ Leave \/ FlushTick \/ Compact \/ Stop => IInv' /\ Advance
  BY RecordStep, LeaveStep, FlushTickStep, CompactStep, StopStep
<1>3. CoolDown \/ Shutdown \/ UNCHANGED vars => IInv' /\ Advance
  BY ControlStep
<1>4. Restart => IInv'
  BY RestartStep
<1> QED
  BY <1>1, <1>2, <1>3, <1>4 DEF Next

\* A first run starts from an empty file.
LEMMA InitStep == Init => IInv
<1> SUFFICES ASSUME Init
             PROVE  IInv
  OBVIOUS
<1>1. /\ mem = Blank /\ teeCh = <<>> /\ file = <<>> /\ stump = {} /\ compactFile = <<>>
      /\ buffer = <<>> /\ handle = "ok" /\ pc = "loop"
  BY DEF Init
<1>2. TeeSize \in Nat /\ mem \in Mem
  BY <1>1, BlankType, SnapshotAssumption
<1>3. <<>> \in Seq(Line) /\ <<>> \in Seq(Event) /\ Len(<<>>) = 0 /\ file \o buffer = <<>>
  BY <1>1
<1> QED
  BY <1>1, <1>2, <1>3, ReplayEmpty DEF IInv, Types, Handles, Logs

\* The inductive invariant holds.
LEMMA Inductive == ASSUME Sound PROVE Spec => []IInv
<1>1. IInv /\ [Next]_vars => IInv'
  BY NextStep
<1> QED
  BY <1>1, InitStep, PTL DEF Spec

\* What the runs check follows from it.
LEMMA IInvGives == IInv => SnapshotInv /\ StoppedIsDurable
<1> SUFFICES ASSUME IInv
             PROVE  SnapshotInv /\ StoppedIsDurable
  OBVIOUS
<1>1. TypeOK
  <2>1. pc \in {"flushed", "removed", "renamed"} => handle = "nil"
    BY DEF IInv, Handles
  <2> QED
    BY <2>1 DEF IInv, Types, Mem, Time, TypeOK
<1>2. LogIsMemory
  <2>1. stump = {} \/ buffer = <<>>
    BY DEF IInv, Handles
  <2> QED
    BY <2>1 DEF IInv, Logs, LogIsMemory, Glued
<1>3. HandleIsUsable
  BY DEF IInv, Types, Handles, HandleIsUsable
<1>4. StoppedIsDurable
  <2>1. file \in Seq(Line) /\ file \o <<>> = file
    BY DEF IInv, Types
  <2> QED
    BY <2>1 DEF IInv, Logs, StoppedIsDurable
<1> QED
  BY <1>1, <1>2, <1>3, <1>4 DEF SnapshotInv

-----------------------------------------------------------------------------
(* The theorems. *)

\* As long as no end of a file is torn and only writes and dumps fail, the
\* snapshotter has a log to write to, and the log and its buffer say what the
\* memory says, through any number of flushes, failures, compactions and runs
\* (snapshot.go:192-258,294-443).
THEOREM LogIsSound ==
  ASSUME ~TornEnds, Faults \subseteq {"write", "dump"}
  PROVE  Spec => []SnapshotInv
<1>1. Sound
  BY DEF Sound
<1> QED
  BY <1>1, Inductive, IInvGives, PTL

\* A process that was shut down has drained its events and left a file that
\* tells all of them, unless its last write failed, in the end or before with no
\* compaction after it (snapshot.go:147-169,472).
THEOREM StopIsDurable ==
  ASSUME ~TornEnds, Faults \subseteq {"write", "dump"}
  PROVE  Spec => []StoppedIsDurable
<1>1. Sound
  BY DEF Sound
<1> QED
  BY <1>1, Inductive, IInvGives, PTL

\* The snapshot implements a durable state: a restart reads what the memory was
\* at some time since the last flush.  A process killed after the removal of the
\* old file and before the renaming of the new one has lost it all
\* (snapshot.go:97,343-382).
THEOREM SnapshotIsDurableState ==
  ASSUME ~TornEnds, Faults \subseteq {"write", "dump"}, "removed" \notin CrashPoints
  PROVE  Spec => ImplementsDurableState
<1>1. Sound
  BY DEF Sound
<1>2. Init => State!Init
  <2> SUFFICES ASSUME Init
               PROVE  State!Init
    OBVIOUS
  <2>1. mem = Blank /\ file = <<>> /\ buffer = <<>> /\ pc = "loop"
    BY DEF Init
  <2>2. IInv
    BY InitStep
  <2>3. OnDisk = <<>> /\ Durable = Blank
    BY <2>1, ReplayEmpty DEF OnDisk, Durable
  <2>4. Prefixes(OnDisk, buffer) = {Blank}
    <3>1. <<>> \in Seq(Line)
      OBVIOUS
    <3> QED
      BY <2>1, <2>3, <3>1, ReplayEmpty, PrefixOfNone
  <2>5. Since = {Blank}
    BY <2>1, <2>2, <2>4, SinceIs
  <2> QED
    BY <2>1, <2>3, <2>5 DEF State!Init
<1>3. IInv /\ [Next]_vars => [State!Next]_State!vars
  <2> SUFFICES ASSUME IInv, [Next]_vars
               PROVE  State!Next
    OBVIOUS
  <2>1. CASE Advance
    <3>1. Durable' \in Since' /\ mem' \in Since'
      BY DEF Since
    <3> QED
      BY <2>1, <3>1 DEF Advance, State!Next, State!Step, State!Kept
  <2>2. CASE Restart
    <3>1. pc # "removed"
      BY <2>2 DEF Restart
    <3> QED
      BY <1>1, <2>2, <3>1, RestartStep DEF State!Next, State!Crash
  <2> QED
    BY <1>1, <2>1, <2>2, NextStep
<1> QED
  BY <1>1, <1>2, <1>3, Inductive, PTL DEF Spec, ImplementsDurableState, State!Spec
=============================================================================
