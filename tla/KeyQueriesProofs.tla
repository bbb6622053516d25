-------------------------- MODULE KeyQueriesProofs --------------------------
(***************************************************************************)
(* Proofs about KeyQueries: an operator who goes by the counts never cuts  *)
(* a node off, whatever the number of nodes, keys, crashes and failed      *)
(* writes, and the counts are true.                                        *)
(*                                                                         *)
(* The argument: a key that the operator believes to be installed is in    *)
(* every ring and in every file, and a primary is always one that he       *)
(* believes to be in use.  No command that is still under way may break    *)
(* this: a removal that is pending is of a key he has given up, a use that *)
(* is pending of a key he believes to be in use.  A count that is complete *)
(* gives him new beliefs; by then every node has answered, and as it takes *)
(* the queries in order it has nothing older left.                         *)
(***************************************************************************)
EXTENDS KeyQueries, FiniteSetTheorems, TLAPS

\* A query, and a response to it.
Query == [ID : Nat, Name : Command, Key : Key]
Answer == [From : Node, Success : BOOLEAN, Err : BOOLEAN, Keys : SUBSET Key]

Types == /\ ring \in [Node -> Seq(Key)] /\ file \in [Node -> Seq(Key)]
         /\ up \subseteq Node /\ accepted \subseteq Node
         /\ pc \in [Node -> {"idle", "changed", "writing"}]
         /\ inCh \in [Node -> Seq(Query)]
         /\ query \subseteq Query /\ (\A p, q \in query : p = q)
         /\ answers \subseteq Answer
         /\ collecting \in BOOLEAN
         /\ installed \subseteq Key /\ inUse \subseteq Key
         /\ queries \in Nat /\ faults \in Nat

\* No key is twice in it.
Distinct(r) == \A i, j \in 1 .. Len(r) : r[i] = r[j] => i = j

\* Rings and files hold a key once, and a ring is never empty.
RingsOK == \A n \in Node : ring[n] # <<>> /\ Distinct(ring[n]) /\ Distinct(file[n])

\* The current query has the highest ID, and a node that has it has nothing
\* after it; a node that is down has nothing.
LineOK ==
    /\ \A q \in query : q.ID <= queries
    /\ \A n \in Node : \A i \in 1 .. Len(inCh[n]) :
          /\ inCh[n][i].ID <= queries
          /\ inCh[n][i] \in query => i = Len(inCh[n]) /\ n \in accepted
    /\ \A n \in Node \ up : inCh[n] = <<>> /\ pc[n] = "idle"

\* What a command has achieved in a ring or a file, as far as it adds to it.
Achieved(r, q) == /\ q.Name = "install-key" => q.Key \in KeysOf(r)
                  /\ q.Name = "use-key" => r # <<>> /\ r[1] = q.Key

\* A node that has not yet answered a command has the ring it will answer for.
WorkOK == \A n \in Node : pc[n] # "idle" =>
             /\ inCh[n] # <<>>
             /\ inCh[n][1].Name # "list-key"
             /\ Achieved(ring[n], inCh[n][1])

\* While the answers are read there is one of a node at most; the node has
\* nothing left to do, and what it says of its ring is so.
AnswersOK ==
    collecting =>
       /\ query # {} /\ result = {}
       /\ \A r, s \in answers : r.From = s.From => r = s
       /\ \A r \in answers :
             /\ r.From \in accepted /\ inCh[r.From] = <<>>
             /\ r.Success => \A q \in query :
                   /\ Achieved(ring[r.From], q) /\ Achieved(file[r.From], q)
                   /\ q.Name = "list-key" /\ ~r.Err => r.Keys = KeysOf(ring[r.From])

\* A command under way is no danger to what the operator believes.
Harmless(q) == /\ q.Name = "remove-key" => q.Key \notin installed
               /\ q.Name = "use-key" => q.Key \in inUse

PendingOK == /\ \A q \in query : Harmless(q)
             /\ \A n \in Node : \A i \in 1 .. Len(inCh[n]) : Harmless(inCh[n][i])

\* A ring or a file that fits what the operator believes.
Fits(r) == installed \subseteq KeysOf(r) /\ r[1] \in inUse

BeliefsOK == /\ inUse \subseteq installed
             /\ \A n \in Node : Fits(ring[n]) /\ (file[n] # <<>> => Fits(file[n]))

\* A node that is up and at rest has its ring in the file, if no write failed.
FileOK == faults = 0 => \A n \in up : pc[n] = "idle" => file[n] = ring[n]

CountsOK == \A r \in result : r.NumErr <= r.NumResp /\ r.NumResp <= Cardinality(Node)

IInv == /\ Types /\ RingsOK /\ LineOK /\ WorkOK /\ AnswersOK
        /\ PendingOK /\ BeliefsOK /\ FileOK /\ CountsOK
-----------------------------------------------------------------------------
(* Rings. *)

\* The keys of a ring, by their places.
LEMMA KeysByPlace ==
  ASSUME NEW r \in Seq(Key)
  PROVE  /\ \A k : k \in KeysOf(r) <=> \E i \in 1 .. Len(r) : r[i] = k
         /\ r # <<>> => Len(r) \in Nat \ {0} /\ r[1] \in KeysOf(r)
  BY DEF KeysOf

\* AddKey adds the key, keeps the primary, and has no key twice.
LEMMA AddKeyRing ==
  ASSUME NEW r \in Seq(Key), NEW k \in Key, r # <<>>, Distinct(r), NEW s \in AddKey(r, k)
  PROVE  /\ s \in Seq(Key) /\ s # <<>> /\ Distinct(s)
         /\ k \in KeysOf(s) /\ KeysOf(r) \subseteq KeysOf(s) /\ s[1] = r[1]
<1>1. CASE k \in KeysOf(r)
  BY <1>1 DEF AddKey
<1>2. CASE k \notin KeysOf(r)
  <2>1. s = Append(r, k)
    BY <1>2 DEF AddKey
  <2>2. /\ s \in Seq(Key) /\ Len(s) = Len(r) + 1 /\ Len(r) \in Nat \ {0}
        /\ s[Len(r) + 1] = k
        /\ \A i \in 1 .. Len(r) : s[i] = r[i]
    BY <2>1
  <2>3. \A i \in 1 .. Len(r) : r[i] # k
    BY <1>2, KeysByPlace
  <2>4. Distinct(s)
    BY <2>2, <2>3 DEF Distinct
  <2>5. k \in KeysOf(s) /\ KeysOf(r) \subseteq KeysOf(s)
    BY <2>2, KeysByPlace
  <2>6. QED
    BY <2>2, <2>4, <2>5
<1>3. QED
  BY <1>1, <1>2

\* UseKey moves the key to the front.
LEMMA UseKeyRing ==
  ASSUME NEW r \in Seq(Key), NEW k \in Key, r # <<>>, Distinct(r), NEW s \in UseKey(r, k)
  PROVE  /\ s \in Seq(Key) /\ s # <<>> /\ Distinct(s)
         /\ KeysOf(r) \subseteq KeysOf(s) /\ s[1] = k
<1>1. PICK i \in 1 .. Len(r) :
         /\ r[i] = k
         /\ s = [j \in 1 .. Len(r) |-> CASE j = 1 -> k [] 1 < j /\ j <= i -> r[j - 1] [] i < j -> r[j]]
  BY DEF UseKey
<1>2. Len(r) \in Nat \ {0}
  OBVIOUS
<1>3. /\ s[1] = k
      /\ \A j \in 1 .. Len(r) : 1 < j /\ j <= i => s[j] = r[j - 1]
      /\ \A j \in 1 .. Len(r) : i < j => s[j] = r[j]
  BY <1>1, <1>2
<1>4. \A j \in 1 .. Len(r) : s[j] \in Key
  <2> TAKE j \in 1 .. Len(r)
  <2>1. j = 1 \/ (1 < j /\ j <= i) \/ i < j
    OBVIOUS
  <2>2. QED
    BY <2>1, <1>3
<1>5. s \in [1 .. Len(r) -> Key]
  BY <1>1, <1>4
<1>6. s \in Seq(Key) /\ Len(s) = Len(r)
  BY <1>2, <1>5
<1>7. Distinct(s)
  <2> SUFFICES ASSUME NEW a \in 1 .. Len(r), NEW b \in 1 .. Len(r), s[a] = s[b]
               PROVE  a = b
    BY <1>6 DEF Distinct
  <2> DEFINE from(j) == IF j = 1 THEN i ELSE IF j <= i THEN j - 1 ELSE j
  <2>1. /\ from(a) \in 1 .. Len(r) /\ r[from(a)] = s[a]
        /\ from(b) \in 1 .. Len(r) /\ r[from(b)] = s[b]
    BY <1>1, <1>3
  <2>2. from(a) = from(b)
    BY <2>1 DEF Distinct
  <2>3. QED
    BY <2>2
<1>8. KeysOf(r) \subseteq KeysOf(s)
  <2> SUFFICES ASSUME NEW a \in 1 .. Len(r)
               PROVE  \E j \in 1 .. Len(s) : s[j] = r[a]
    BY <1>6, KeysByPlace
  <2>1. CASE a < i
    BY <2>1, <1>3, <1>6, s[a + 1] = r[a], a + 1 \in 1 .. Len(s)
  <2>2. CASE a = i
    BY <2>2, <1>1, <1>2, <1>3, <1>6
  <2>3. CASE a > i
    BY <2>3, <1>3, <1>6
  <2>4. QED
    BY <2>1, <2>2, <2>3
<1>9. QED
  BY <1>2, <1>3, <1>6, <1>7, <1>8

\* RemoveKey takes the key out and nothing else; the primary stays.
LEMMA RemoveKeyRing ==
  ASSUME NEW r \in Seq(Key), NEW k \in Key, r # <<>>, Distinct(r), NEW s \in RemoveKey(r, k)
  PROVE  /\ s \in Seq(Key) /\ s # <<>> /\ Distinct(s)
         /\ KeysOf(r) \ {k} \subseteq KeysOf(s) /\ s[1] = r[1]
<1>1. PICK i \in 2 .. Len(r) :
         /\ r[i] = k
         /\ s = [j \in 1 .. Len(r) - 1 |-> IF j < i THEN r[j] ELSE r[j + 1]]
  BY DEF RemoveKey
<1>2. Len(r) \in Nat /\ Len(r) >= 2
  OBVIOUS
<1>3. /\ \A j \in 1 .. Len(r) - 1 : j < i => s[j] = r[j]
      /\ \A j \in 1 .. Len(r) - 1 : j >= i => s[j] = r[j + 1]
  BY <1>1, <1>2
<1>4. s \in [1 .. Len(r) - 1 -> Key]
  BY <1>1, <1>2
<1>5. s \in Seq(Key) /\ Len(s) = Len(r) - 1
  BY <1>2, <1>4
<1>6. Distinct(s)
  <2> SUFFICES ASSUME NEW a \in 1 .. Len(r) - 1, NEW b \in 1 .. Len(r) - 1, s[a] = s[b]
               PROVE  a = b
    BY <1>5 DEF Distinct
  <2> DEFINE from(j) == IF j < i THEN j ELSE j + 1
  <2>1. /\ from(a) \in 1 .. Len(r) /\ r[from(a)] = s[a]
        /\ from(b) \in 1 .. Len(r) /\ r[from(b)] = s[b]
    BY <1>2, <1>3
  <2>2. from(a) = from(b)
    BY <2>1 DEF Distinct
  <2>3. QED
    BY <2>2
<1>7. KeysOf(r) \ {k} \subseteq KeysOf(s)
  <2> SUFFICES ASSUME NEW a \in 1 .. Len(r), r[a] # k
               PROVE  \E j \in 1 .. Len(s) : s[j] = r[a]
    BY <1>5, KeysByPlace
  <2>1. CASE a < i
    BY <2>1, <1>2, <1>3, <1>5
  <2>2. CASE a > i
    BY <2>2, <1>2, <1>3, <1>5, s[a - 1] = r[a], a - 1 \in 1 .. Len(s)
  <2>3. a # i /\ a \in Nat /\ i \in Nat
    BY <1>1
  <2>4. QED
    BY <2>1, <2>2, <2>3
<1>8. s[1] = r[1]
  BY <1>2, <1>3
<1>9. QED
  BY <1>2, <1>5, <1>6, <1>7, <1>8

\* What a command does to a ring that fits what the operator believes.
LEMMA ChangedRing ==
  ASSUME NEW r \in Seq(Key), r # <<>>, Distinct(r), Fits(r),
         NEW q \in Query, q.Name # "list-key", Harmless(q),
         NEW s \in Changed(r, q)
  PROVE  /\ s \in Seq(Key) /\ s # <<>> /\ Distinct(s)
         /\ Fits(s) /\ Achieved(s, q)
<1> USE DEF Query
<1>1. CASE q.Name = "install-key"
  <2>1. s \in AddKey(r, q.Key)
    BY <1>1 DEF Changed
  <2>2. QED
    BY <1>1, <2>1, AddKeyRing DEF Fits, Achieved
<1>2. CASE q.Name = "use-key"
  <2>1. s \in UseKey(r, q.Key)
    BY <1>2 DEF Changed
  <2>2. QED
    BY <1>2, <2>1, UseKeyRing DEF Fits, Achieved, Harmless
<1>3. CASE q.Name = "remove-key"
  <2>1. s \in RemoveKey(r, q.Key)
    BY <1>3 DEF Changed
  <2>2. QED
    BY <1>3, <2>1, RemoveKeyRing DEF Fits, Achieved, Harmless
<1>4. QED
  BY <1>1, <1>2, <1>3 DEF Command
-----------------------------------------------------------------------------
(* Initially. *)

\* All nodes have one key, and it is in use (createSerf).
LEMMA InitInv == Init => IInv
<1> SUFFICES ASSUME Init
             PROVE  IInv
  OBVIOUS
<1> USE KeyAssumption DEF Init
<1>1. <<FirstKey>> \in Seq(Key) /\ <<FirstKey>> # <<>> /\ Len(<<FirstKey>>) = 1
  OBVIOUS
<1>2. Types
  <2>1. ring \in [Node -> Seq(Key)] /\ file \in [Node -> Seq(Key)]
    BY <1>1
  <2>2. inCh \in [Node -> Seq(Query)] /\ pc \in [Node -> {"idle", "changed", "writing"}]
    OBVIOUS
  <2>3. QED
    BY <2>1, <2>2 DEF Types
<1>3. RingsOK
  BY <1>1 DEF RingsOK, Distinct
<1>4. LineOK
  BY DEF LineOK
<1>5. WorkOK
  BY DEF WorkOK
<1>6. AnswersOK
  BY DEF AnswersOK
<1>7. PendingOK
  BY DEF PendingOK
<1>8. KeysOf(<<FirstKey>>) = {FirstKey}
  BY DEF KeysOf
<1>9. BeliefsOK
  BY <1>8 DEF BeliefsOK, Fits
<1>10. FileOK
  BY DEF FileOK
<1>11. CountsOK
  BY DEF CountsOK
<1>12. QED
  BY <1>2, <1>3, <1>4, <1>5, <1>6, <1>7, <1>9, <1>10, <1>11 DEF IInv

-----------------------------------------------------------------------------
(* The operator's calls. *)

\* A sensible query is harmless, and gets an ID that none had (KeyQuery).
LEMMA KeyQueryStep ==
  ASSUME IInv, NEW name \in Command, NEW k \in Key, KeyQuery(name, k)
  PROVE  IInv'
<1> USE DEF KeyQuery, nodeVars
<1> DEFINE new == [ID |-> queries + 1, Name |-> name, Key |-> k]
<1>1. Types
  BY DEF IInv
<1>2. /\ new \in Query /\ new.ID = queries + 1 /\ new.Name = name /\ new.Key = k
      /\ query' = {new}
  BY <1>1 DEF Types, Query
<1>3. Types'
  <2>1. query' \subseteq Query /\ \A p, q \in query' : p = q
    BY <1>2
  <2>2. installed' \subseteq Key /\ inUse' \subseteq Key /\ queries' \in Nat
    BY <1>1 DEF Types
  <2>3. QED
    BY <1>1, <2>1, <2>2 DEF Types
<1>4. RingsOK'
  BY DEF IInv, RingsOK
<1>5. LineOK'
  <2>1. ASSUME NEW n \in Node, NEW i \in 1 .. Len(inCh[n])
        PROVE  inCh[n][i].ID <= queries' /\ inCh[n][i] \notin query'
    <3>1. inCh[n][i] \in Query /\ inCh[n][i].ID <= queries /\ queries \in Nat
      BY <1>1 DEF IInv, LineOK, Types
    <3>2. inCh[n][i].ID # new.ID /\ inCh[n][i].ID \in Nat
      BY <1>2, <3>1 DEF Query
    <3>3. QED
      BY <1>2, <3>1, <3>2
  <2>2. \A q \in query' : q.ID <= queries'
    BY <1>1, <1>2 DEF Types
  <2>3. \A n \in Node \ up : inCh[n] = <<>> /\ pc[n] = "idle"
    BY DEF IInv, LineOK
  <2>4. QED
    BY <2>1, <2>2, <2>3 DEF LineOK
<1>6. WorkOK'
  BY DEF IInv, WorkOK
<1>7. AnswersOK'
  BY <1>2 DEF AnswersOK
<1>8. Harmless(new)'
  BY <1>2 DEF Harmless, Sensible, IInv, BeliefsOK
<1>9. ASSUME NEW n \in Node, NEW i \in 1 .. Len(inCh[n])
      PROVE  Harmless(inCh[n][i])'
  BY DEF IInv, PendingOK, Harmless
<1>10. PendingOK'
  BY <1>2, <1>8, <1>9 DEF PendingOK, Harmless
<1>11. BeliefsOK'
  <2>1. inUse' \subseteq installed'
    BY DEF IInv, BeliefsOK, Sensible
  <2>2. \A r : Fits(r) => Fits(r)'
    BY DEF Fits
  <2>3. QED
    BY <2>1, <2>2 DEF IInv, BeliefsOK
<1>12. FileOK'
  BY DEF IInv, FileOK
<1>13. CountsOK'
  BY DEF CountsOK
<1>14. QED
  BY <1>3, <1>4, <1>5, <1>6, <1>7, <1>10, <1>11, <1>12, <1>13 DEF IInv
\* Each answer is from another node: answers are counted as nodes are.
LEMMA AnswersAreNodes ==
  ASSUME IInv, collecting, NEW read \in SUBSET answers
  PROVE  /\ IsFiniteSet(read)
         /\ Cardinality(read) \in Nat /\ Cardinality(read) <= Cardinality(Node)
         /\ Cardinality(read) = Cardinality(Node) => \A n \in Node : \E r \in read : r.From = n
<1> DEFINE from == [r \in read |-> r.From]
<1>1. \A r \in read : r.From \in Node
  BY DEF IInv, Types, Answer
<1>2. from \in [read -> Node]
  BY <1>1
<1>3. \A r, s \in read : from[r] = from[s] => r = s
  BY DEF IInv, AnswersOK
<1>4. from \in Injection(read, Node)
  <2> HIDE DEF from
  <2>1. \A a, b \in read : from[a] = from[b] => a = b
    BY <1>3
  <2>2. QED
    BY <1>2, <2>1 DEF Injection, IsInjective
<1>5. /\ IsFiniteSet(read) /\ Cardinality(read) <= Cardinality(Node)
      /\ Cardinality(read) = Cardinality(Node) => from \in Surjection(read, Node)
  BY <1>4, FS_Injection, KeyAssumption
<1>6. Cardinality(read) \in Nat
  BY <1>5, FS_CardinalityType
<1>7. ASSUME from \in Surjection(read, Node), NEW n \in Node
      PROVE  \E r \in read : r.From = n
  BY <1>7 DEF Surjection
<1>8. QED
  BY <1>5, <1>6, <1>7

\* A complete count: every node has answered that it succeeded.
LEMMA CompleteMeansAll ==
  ASSUME IInv, collecting, NEW read \in SUBSET answers, Complete(collectKeyResponse(read))
  PROVE  /\ \A r \in read : r.Success
         /\ \A n \in Node : \E r \in read : r.From = n
<1>1. /\ collectKeyResponse(read).NumResp = Cardinality(read)
      /\ collectKeyResponse(read).NumErr = Cardinality({r \in read : ~r.Success})
  BY DEF collectKeyResponse
<1>2. Cardinality(read) = Cardinality(Node) /\ Cardinality({r \in read : ~r.Success}) = 0
  BY <1>1 DEF Complete
<1>3. IsFiniteSet({r \in read : ~r.Success})
  BY AnswersAreNodes, FS_Subset
<1>4. {r \in read : ~r.Success} = {}
  BY <1>2, <1>3, FS_EmptySet
<1>5. QED
  BY <1>2, <1>4, AnswersAreNodes

\* With a complete count a command is done in every ring and every file, and
\* no node has anything left to do.
LEMMA CompleteMeansDone ==
  ASSUME IInv, collecting, NEW read \in SUBSET answers, Complete(collectKeyResponse(read)),
         NEW q \in query, NEW n \in Node
  PROVE  inCh[n] = <<>> /\ Achieved(ring[n], q) /\ Achieved(file[n], q)
<1>1. PICK r \in read : r.From = n /\ r.Success
  BY CompleteMeansAll
<1>2. QED
  BY <1>1 DEF IInv, AnswersOK

\* KeyQuery returns: what the operator believes then is so (KeyQuery).
LEMMA KeyQueryReturnsStep ==
  ASSUME IInv, KeyQueryReturns
  PROVE  IInv'
<1> USE DEF KeyQueryReturns, nodeVars
<1>1. PICK read \in SUBSET answers : \E q \in query :
         LET res == collectKeyResponse(read)
         IN  /\ result' = IF Complete(res) THEN {res} ELSE {}
             /\ installed' = IF Complete(res) /\ q.Name = "install-key" THEN installed \cup {q.Key} ELSE installed
             /\ inUse' = IF Complete(res) /\ q.Name = "use-key" THEN {q.Key} ELSE inUse
  OBVIOUS
<1> DEFINE res == collectKeyResponse(read)
<1>2. PICK q \in query :
         /\ result' = IF Complete(res) THEN {res} ELSE {}
         /\ installed' = IF Complete(res) /\ q.Name = "install-key" THEN installed \cup {q.Key} ELSE installed
         /\ inUse' = IF Complete(res) /\ q.Name = "use-key" THEN {q.Key} ELSE inUse
  BY <1>1
<1>3. Types /\ q \in Query
  BY DEF IInv, Types
<1>4. Types'
  <2>1. installed' \subseteq Key /\ inUse' \subseteq Key
    BY <1>2, <1>3 DEF Types, Query
  <2>2. QED
    BY <1>3, <2>1 DEF Types
<1>5. RingsOK'
  BY DEF IInv, RingsOK
<1>6. LineOK'
  BY DEF IInv, LineOK
<1>7. WorkOK'
  BY DEF IInv, WorkOK
<1>8. AnswersOK'
  BY DEF AnswersOK
<1>9. CountsOK'
  <2>1. /\ res.NumResp = Cardinality(read)
        /\ res.NumErr = Cardinality({r \in read : ~r.Success})
    BY DEF collectKeyResponse
  <2>2. Cardinality({r \in read : ~r.Success}) <= Cardinality(read)
    BY AnswersAreNodes, FS_Subset
  <2>3. Cardinality(read) <= Cardinality(Node)
    BY AnswersAreNodes
  <2>4. res.NumErr <= res.NumResp /\ res.NumResp <= Cardinality(Node)
    BY <2>1, <2>2, <2>3
  <2>5. result' \subseteq {res}
    BY <1>2
  <2>6. QED
    BY <2>4, <2>5 DEF CountsOK
<1>10. FileOK'
  BY DEF IInv, FileOK
<1>11. PendingOK' /\ BeliefsOK'
  <2>1. CASE ~Complete(res)
    <3>1. installed' = installed /\ inUse' = inUse
      BY <1>2, <2>1
    <3>2. QED
      BY <3>1 DEF IInv, PendingOK, Harmless, BeliefsOK, Fits
  <2>2. CASE Complete(res)
    <3>1. \A n \in Node : inCh[n] = <<>> /\ Achieved(ring[n], q) /\ Achieved(file[n], q)
      BY <2>2, CompleteMeansDone
    <3>2. \A p \in query : p = q
      BY <1>3 DEF Types
    <3>3. Harmless(q)
      BY DEF IInv, PendingOK
    <3>4. Harmless(q)'
      BY <1>2, <2>2, <3>3 DEF Harmless
    <3>5. PendingOK'
      BY <3>1, <3>2, <3>4 DEF PendingOK, Harmless
    <3>6. inUse' \subseteq installed'
      BY <1>2, <3>3 DEF IInv, BeliefsOK, Harmless
    <3>7. ASSUME NEW n \in Node
          PROVE  Fits(ring[n])' /\ (file[n] # <<>> => Fits(file[n]))'
      BY <1>2, <3>1, <3>7 DEF IInv, BeliefsOK, Fits, Achieved
    <3>8. QED
      BY <3>5, <3>6, <3>7 DEF BeliefsOK
  <2>3. QED
    BY <2>1, <2>2
<1>12. QED
  BY <1>4, <1>5, <1>6, <1>7, <1>8, <1>9, <1>10, <1>11 DEF IInv
-----------------------------------------------------------------------------
(* The steps of a node. *)

\* The head and the tail of a line of queries.
LEMMA HeadAndTail ==
  ASSUME NEW s \in Seq(Query), s # <<>>
  PROVE  /\ Head(s) = s[1] /\ s[1] \in Query
         /\ Len(s) \in Nat \ {0}
         /\ Tail(s) \in Seq(Query) /\ Len(Tail(s)) = Len(s) - 1
         /\ \A i \in 1 .. Len(s) - 1 : Tail(s)[i] = s[i + 1]
         /\ Len(s) = 1 => Tail(s) = <<>>
<1>1. Len(s) \in Nat \ {0} /\ Head(s) = s[1] /\ s[1] \in Query
  OBVIOUS
<1>2. Tail(s) \in Seq(Query) /\ Len(Tail(s)) = Len(s) - 1
  OBVIOUS
<1>3. \A i \in 1 .. Len(s) - 1 : Tail(s)[i] = s[i + 1]
  OBVIOUS
<1>4. Len(s) = 1 => Tail(s) = <<>>
  <2> SUFFICES ASSUME Len(s) = 1
               PROVE  Tail(s) = <<>>
    OBVIOUS
  <2>1. PICK t : t = Tail(s)
    OBVIOUS
  <2>2. t \in Seq(Query) /\ Len(t) = 0
    BY <1>2, <2>1
  <2>3. t = <<>>
    BY <2>2
  <2>4. QED
    BY <2>1, <2>3
<1>5. QED
  BY <1>1, <1>2, <1>3, <1>4

\* A line of queries with one more.
LEMMA OneMore ==
  ASSUME NEW s \in Seq(Query), NEW q \in Query
  PROVE  /\ Append(s, q) \in Seq(Query) /\ Append(s, q) # <<>>
         /\ Len(s) \in Nat /\ Len(Append(s, q)) = Len(s) + 1
         /\ Append(s, q)[Len(s) + 1] = q
         /\ \A i \in 1 .. Len(s) : Append(s, q)[i] = s[i]
  OBVIOUS

\* A query that gets to a node is the last one there (Receive).
LEMMA ReceiveStep ==
  ASSUME IInv, NEW n \in Node, Receive(n)
  PROVE  IInv'
<1> USE DEF Receive, operatorVars
<1>1. PICK q \in query : inCh' = [inCh EXCEPT ![n] = Append(@, q)]
  OBVIOUS
<1>2. Types /\ q \in Query
  BY DEF IInv, Types
<1>3. /\ inCh'[n] \in Seq(Query) /\ inCh'[n] # <<>>
      /\ inCh' \in [Node -> Seq(Query)]
      /\ Len(inCh'[n]) = Len(inCh[n]) + 1 /\ inCh'[n][Len(inCh[n]) + 1] = q
      /\ \A i \in 1 .. Len(inCh[n]) : inCh'[n][i] = inCh[n][i]
      /\ Len(inCh[n]) \in Nat
      /\ \A m \in Node \ {n} : inCh'[m] = inCh[m]
  <2>1. inCh[n] \in Seq(Query) /\ inCh'[n] = Append(inCh[n], q)
    BY <1>1, <1>2 DEF Types
  <2>2. /\ inCh'[n] \in Seq(Query) /\ inCh'[n] # <<>>
        /\ Len(inCh'[n]) = Len(inCh[n]) + 1 /\ inCh'[n][Len(inCh[n]) + 1] = q
        /\ \A i \in 1 .. Len(inCh[n]) : inCh'[n][i] = inCh[n][i]
        /\ Len(inCh[n]) \in Nat
    BY <1>2, <2>1, OneMore
  <2>3. inCh' \in [Node -> Seq(Query)] /\ \A m \in Node \ {n} : inCh'[m] = inCh[m]
    BY <1>1, <1>2, <2>1, <2>2 DEF Types
  <2>4. QED
    BY <2>2, <2>3
<1>4. Types'
  BY <1>2, <1>3 DEF Types
<1>5. RingsOK'
  BY DEF IInv, RingsOK
<1>6. LineOK'
  <2>1. ASSUME NEW i \in 1 .. Len(inCh'[n])
        PROVE  inCh'[n][i].ID <= queries /\ (inCh'[n][i] \in query => i = Len(inCh'[n]))
    <3>1. CASE i \in 1 .. Len(inCh[n])
      BY <1>3, <3>1 DEF IInv, LineOK
    <3>2. CASE i = Len(inCh[n]) + 1
      BY <1>3, <3>2 DEF IInv, LineOK
    <3>3. QED
      BY <1>3, <3>1, <3>2
  <2>2. ASSUME NEW m \in Node \ {n}, NEW i \in 1 .. Len(inCh'[m])
        PROVE  /\ inCh'[m][i].ID <= queries
               /\ inCh'[m][i] \in query => i = Len(inCh'[m]) /\ m \in accepted'
    BY <1>3 DEF IInv, LineOK
  <2>3. \A m \in Node \ up : inCh'[m] = <<>> /\ pc[m] = "idle"
    BY <1>3 DEF IInv, LineOK
  <2>4. \A p \in query : p.ID <= queries
    BY DEF IInv, LineOK
  <2>5. n \in accepted'
    OBVIOUS
  <2>6. QED
    BY <2>1, <2>2, <2>3, <2>4, <2>5 DEF LineOK
<1>7. WorkOK'
  <2> SUFFICES ASSUME NEW m \in Node, pc[m] # "idle"
               PROVE  inCh'[m] # <<>> /\ inCh'[m][1] = inCh[m][1]
    BY DEF IInv, WorkOK, Achieved
  <2>1. inCh[m] # <<>>
    BY DEF IInv, WorkOK
  <2>2. CASE m = n
    <3>1. 1 \in 1 .. Len(inCh[n])
      BY <1>2, <2>1, <2>2 DEF Types
    <3>2. QED
      BY <1>3, <2>2, <3>1
  <2>3. QED
    BY <1>3, <2>1, <2>2
<1>8. AnswersOK'
  <2> SUFFICES ASSUME collecting
               PROVE  AnswersOK'
    BY DEF AnswersOK
  <2>1. \A r \in answers : r.From \in accepted' /\ inCh'[r.From] = <<>>
    BY <1>3 DEF IInv, AnswersOK, Types, Answer
  <2>2. QED
    BY <2>1 DEF IInv, AnswersOK, Achieved
<1>9. PendingOK'
  <2>1. ASSUME NEW m \in Node, NEW i \in 1 .. Len(inCh'[m])
        PROVE  Harmless(inCh'[m][i])
    <3>1. CASE m # n \/ i \in 1 .. Len(inCh[n])
      BY <1>3, <3>1 DEF IInv, PendingOK
    <3>2. CASE m = n /\ i = Len(inCh[n]) + 1
      BY <1>3, <3>2 DEF IInv, PendingOK
    <3>3. QED
      BY <1>3, <3>1, <3>2
  <2>2. QED
    BY <2>1 DEF IInv, PendingOK, Harmless
<1>10. BeliefsOK'
  BY DEF IInv, BeliefsOK, Fits
<1>11. FileOK'
  BY DEF IInv, FileOK
<1>12. CountsOK'
  BY DEF IInv, CountsOK
<1>13. QED
  BY <1>4, <1>5, <1>6, <1>7, <1>8, <1>9, <1>10, <1>11, <1>12 DEF IInv

\* What the four ways to end a query have in common: it leaves the line, and
\* its answer, if there is still one to give, says what is so (sendKeyResponse).
LEMMA AnswerStep ==
  ASSUME IInv, NEW n \in Node, n \in up, inCh[n] # <<>>,
         NEW success \in BOOLEAN, NEW err \in BOOLEAN, NEW listed \in SUBSET Key,
         Respond(n, inCh[n][1], success, err, listed), Done(n),
         success => /\ Achieved(ring[n], inCh[n][1]) /\ Achieved(file'[n], inCh[n][1])
                    /\ inCh[n][1].Name = "list-key" /\ ~err => listed = KeysOf(ring[n]),
         file' \in [Node -> Seq(Key)], file'[n] \in {file[n], ring[n]},
         \A m \in Node \ {n} : file'[m] = file[m],
         faults' \in Nat,
         UNCHANGED <<ring, up, query, accepted, collecting, result, installed, inUse, queries>>
  PROVE  /\ Types' /\ RingsOK' /\ LineOK' /\ WorkOK' /\ AnswersOK'
         /\ PendingOK' /\ BeliefsOK' /\ CountsOK'
<1> DEFINE q == inCh[n][1]
           new == [From |-> n, Success |-> success, Err |-> err, Keys |-> listed]
<1>1. Types
  BY DEF IInv
<1>2. inCh[n] \in Seq(Query)
  BY <1>1 DEF Types
<1>3. /\ q \in Query
      /\ inCh' \in [Node -> Seq(Query)]
      /\ Len(inCh[n]) \in Nat \ {0}
      /\ Len(inCh'[n]) = Len(inCh[n]) - 1
      /\ \A i \in 1 .. Len(inCh[n]) - 1 : inCh'[n][i] = inCh[n][i + 1]
      /\ Len(inCh[n]) = 1 => inCh'[n] = <<>>
      /\ \A m \in Node \ {n} : inCh'[m] = inCh[m]
  BY <1>1, <1>2, HeadAndTail DEF Types, Done
<1>4. /\ pc' \in [Node -> {"idle", "changed", "writing"}]
      /\ pc'[n] = "idle" /\ \A m \in Node \ {n} : pc'[m] = pc[m]
  BY <1>1 DEF Types, Done
<1>5. new \in Answer
  BY DEF Answer
<1>6. answers' = IF collecting /\ q \in query THEN answers \cup {new} ELSE answers
  BY DEF Respond
<1>7. Types'
  <2>1. answers' \subseteq Answer
    BY <1>1, <1>5, <1>6 DEF Types
  <2>2. QED
    BY <1>1, <1>3, <1>4, <2>1 DEF Types
<1>8. RingsOK'
  BY DEF IInv, RingsOK
<1>9. LineOK'
  <2>1. ASSUME NEW i \in 1 .. Len(inCh'[n])
        PROVE  /\ inCh'[n][i].ID <= queries
               /\ inCh'[n][i] \in query => i = Len(inCh'[n]) /\ n \in accepted
    <3>1. i + 1 \in 1 .. Len(inCh[n]) /\ inCh'[n][i] = inCh[n][i + 1]
      BY <1>3
    <3>2. /\ inCh[n][i + 1].ID <= queries
          /\ inCh[n][i + 1] \in query => i + 1 = Len(inCh[n]) /\ n \in accepted
      BY <3>1 DEF IInv, LineOK
    <3>3. QED
      BY <1>3, <3>1, <3>2
  <2>2. ASSUME NEW m \in Node \ {n}, NEW i \in 1 .. Len(inCh'[m])
        PROVE  /\ inCh'[m][i].ID <= queries
               /\ inCh'[m][i] \in query => i = Len(inCh'[m]) /\ m \in accepted
    BY <1>3 DEF IInv, LineOK
  <2>3. \A m \in Node \ up : inCh'[m] = <<>> /\ pc'[m] = "idle"
    BY <1>3, <1>4 DEF IInv, LineOK
  <2>4. \A p \in query : p.ID <= queries
    BY DEF IInv, LineOK
  <2>5. QED
    BY <2>1, <2>2, <2>3, <2>4 DEF LineOK
<1>10. WorkOK'
  <2> SUFFICES ASSUME NEW m \in Node, pc'[m] # "idle"
               PROVE  /\ inCh'[m] # <<>>
                      /\ inCh'[m][1].Name # "list-key"
                      /\ Achieved(ring[m], inCh'[m][1])
    BY DEF WorkOK, Achieved
  <2>1. m # n /\ pc[m] # "idle" /\ inCh'[m] = inCh[m]
    BY <1>3, <1>4
  <2>2. QED
    BY <2>1 DEF IInv, WorkOK
<1>11. AnswersOK'
  <2> SUFFICES ASSUME collecting
               PROVE  AnswersOK'
    BY DEF AnswersOK
  <2>1. \A r \in answers : /\ r.From \in Node \ {n} /\ r.From \in accepted
                           /\ inCh'[r.From] = <<>> /\ file'[r.From] = file[r.From]
    BY <1>1, <1>3 DEF IInv, AnswersOK, Types, Answer
  <2>2. CASE q \notin query
    <3>1. answers' = answers
      BY <1>6, <2>2
    <3>2. QED
      BY <2>1, <3>1 DEF IInv, AnswersOK, Achieved
  <2>3. CASE q \in query
    <3>1. answers' = answers \cup {new}
      BY <1>6, <2>3
    <3>2. Len(inCh[n]) = 1 /\ n \in accepted
      <4>1. 1 \in 1 .. Len(inCh[n]) /\ inCh[n][1] \in query
        BY <1>3, <2>3
      <4>2. QED
        BY <4>1 DEF IInv, LineOK
    <3>3. inCh'[n] = <<>>
      BY <1>3, <3>2
    <3>4. \A p \in query : p = q
      BY <1>1, <2>3 DEF Types
    <3>5. query' # {} /\ result' = {}
      BY DEF IInv, AnswersOK
    <3>6. \A r, s \in answers' : r.From = s.From => r = s
      BY <2>1, <3>1 DEF IInv, AnswersOK
    <3>7. new.From \in accepted' /\ inCh'[new.From] = <<>>
      BY <3>2, <3>3
    <3>8. ASSUME new.Success, NEW p \in query
          PROVE  /\ Achieved(ring[n], p) /\ Achieved(file'[n], p)
                 /\ p.Name = "list-key" /\ ~new.Err => new.Keys = KeysOf(ring[n])
      BY <3>4, <3>8
    <3>9. ASSUME NEW r \in answers, r.Success, NEW p \in query
          PROVE  /\ Achieved(ring[r.From], p) /\ Achieved(file'[r.From], p)
                 /\ p.Name = "list-key" /\ ~r.Err => r.Keys = KeysOf(ring[r.From])
      BY <2>1, <3>9 DEF IInv, AnswersOK
    <3>10. new.From = n
      OBVIOUS
    <3> HIDE DEF new
    <3>11. QED
      BY <2>1, <3>1, <3>5, <3>6, <3>7, <3>8, <3>9, <3>10 DEF AnswersOK, Achieved
  <2>4. QED
    BY <2>2, <2>3
<1>12. PendingOK'
  <2>1. ASSUME NEW m \in Node, NEW i \in 1 .. Len(inCh'[m])
        PROVE  Harmless(inCh'[m][i])
    <3>1. CASE m # n
      BY <1>3, <3>1 DEF IInv, PendingOK
    <3>2. CASE m = n
      <4>1. i + 1 \in 1 .. Len(inCh[n]) /\ inCh'[n][i] = inCh[n][i + 1]
        BY <1>3, <3>2
      <4>2. QED
        BY <3>2, <4>1 DEF IInv, PendingOK
    <3>3. QED
      BY <3>1, <3>2
  <2>2. QED
    BY <2>1 DEF IInv, PendingOK, Harmless
<1>13. BeliefsOK'
  BY DEF IInv, BeliefsOK, Fits
<1>14. CountsOK'
  BY DEF IInv, CountsOK
<1>15. QED
  BY <1>7, <1>8, <1>9, <1>10, <1>11, <1>12, <1>13, <1>14
\* A node at the head of a line that is not empty.
LEMMA HeadOfLine ==
  ASSUME IInv, NEW n \in Node, inCh[n] # <<>>
  PROVE  /\ Head(inCh[n]) = inCh[n][1] /\ inCh[n][1] \in Query
         /\ Harmless(inCh[n][1])
         /\ \A r \in answers : collecting => r.From # n
<1>1. inCh[n] \in Seq(Query)
  BY DEF IInv, Types
<1>2. /\ Head(inCh[n]) = inCh[n][1] /\ inCh[n][1] \in Query
      /\ 1 \in 1 .. Len(inCh[n])
  BY <1>1, HeadAndTail
<1>3. Harmless(inCh[n][1])
  BY <1>2 DEF IInv, PendingOK
<1>4. \A r \in answers : collecting => r.From # n
  BY DEF IInv, AnswersOK
<1>5. QED
  BY <1>2, <1>3, <1>4

\* A refused key changes nothing (handleKeyQuery).
LEMMA RejectKeyStep ==
  ASSUME IInv, NEW n \in Node, RejectKey(n)
  PROVE  IInv'
<1> USE DEF RejectKey, operatorVars
<1>1. Head(inCh[n]) = inCh[n][1]
  BY HeadOfLine
<1>2. Respond(n, inCh[n][1], FALSE, TRUE, {})
  BY <1>1
<1>3. file' \in [Node -> Seq(Key)] /\ faults' \in Nat
  BY DEF IInv, Types
<1>4. /\ Types' /\ RingsOK' /\ LineOK' /\ WorkOK' /\ AnswersOK'
      /\ PendingOK' /\ BeliefsOK' /\ CountsOK'
  <2>1. n \in up /\ inCh[n] # <<>> /\ Done(n)
    OBVIOUS
  <2>2. /\ file'[n] \in {file[n], ring[n]} /\ \A m \in Node \ {n} : file'[m] = file[m]
        /\ UNCHANGED <<ring, up, query, accepted, collecting, result, installed, inUse, queries>>
    OBVIOUS
  <2>3. FALSE \in BOOLEAN /\ TRUE \in BOOLEAN /\ {} \in SUBSET Key
    OBVIOUS
  <2> HIDE DEF RejectKey
  <2>4. QED
    BY <1>2, <1>3, <2>1, <2>2, <2>3, AnswerStep
<1>5. FileOK'
  BY DEF IInv, FileOK, Types, Done
<1>6. QED
  BY <1>4, <1>5 DEF IInv

\* A ring that has changed still fits, and has what the command was to achieve.
LEMMA ChangeRingStep ==
  ASSUME IInv, NEW n \in Node, ChangeRing(n)
  PROVE  IInv'
<1> USE DEF ChangeRing, queryVars, operatorVars
<1>1. Types
  BY DEF IInv
<1>2. /\ Head(inCh[n]) = inCh[n][1] /\ inCh[n][1] \in Query
      /\ Harmless(inCh[n][1]) /\ inCh[n][1].Name # "list-key"
      /\ \A r \in answers : collecting => r.From # n
  BY HeadOfLine
<1>3. PICK s \in Changed(ring[n], inCh[n][1]) : ring' = [ring EXCEPT ![n] = s]
  BY <1>2
<1>4. /\ s \in Seq(Key) /\ s # <<>> /\ Distinct(s)
      /\ Fits(s) /\ Achieved(s, inCh[n][1])
  <2>1. ring[n] \in Seq(Key) /\ ring[n] # <<>> /\ Distinct(ring[n]) /\ Fits(ring[n])
    BY <1>1 DEF Types, IInv, RingsOK, BeliefsOK
  <2>2. QED
    BY <1>2, <2>1, ChangedRing
<1>5. /\ ring' \in [Node -> Seq(Key)]
      /\ ring'[n] = s /\ \A m \in Node \ {n} : ring'[m] = ring[m]
  BY <1>1, <1>3, <1>4 DEF Types
<1>6. /\ pc' \in [Node -> {"idle", "changed", "writing"}]
      /\ pc'[n] = "changed" /\ \A m \in Node \ {n} : pc'[m] = pc[m]
  BY <1>1 DEF Types
<1>7. Types'
  BY <1>1, <1>5, <1>6 DEF Types
<1>8. RingsOK'
  BY <1>4, <1>5 DEF IInv, RingsOK
<1>9. LineOK'
  BY <1>6 DEF IInv, LineOK
<1>10. WorkOK'
  <2> SUFFICES ASSUME NEW m \in Node, pc'[m] # "idle"
               PROVE  /\ inCh[m] # <<>>
                      /\ inCh[m][1].Name # "list-key"
                      /\ Achieved(ring'[m], inCh[m][1])
    BY DEF WorkOK, Achieved
  <2>1. CASE m = n
    BY <1>2, <1>4, <1>5, <2>1
  <2>2. CASE m # n
    BY <1>5, <1>6, <2>2 DEF IInv, WorkOK
  <2>3. QED
    BY <2>1, <2>2
<1>11. AnswersOK'
  <2> SUFFICES ASSUME collecting
               PROVE  AnswersOK'
    BY DEF AnswersOK
  <2>1. \A r \in answers : ring'[r.From] = ring[r.From]
    BY <1>1, <1>2, <1>5 DEF Types, Answer
  <2>2. QED
    BY <2>1 DEF IInv, AnswersOK, Achieved
<1>12. PendingOK'
  BY DEF IInv, PendingOK, Harmless
<1>13. BeliefsOK'
  <2>1. ASSUME NEW m \in Node
        PROVE  Fits(ring'[m]) /\ (file[m] # <<>> => Fits(file[m]))
    BY <1>4, <1>5 DEF IInv, BeliefsOK
  <2>2. inUse \subseteq installed
    BY DEF IInv, BeliefsOK
  <2>3. QED
    BY <2>1, <2>2 DEF BeliefsOK, Fits
<1>14. FileOK'
  BY <1>5, <1>6 DEF IInv, FileOK, Types
<1>15. CountsOK'
  BY DEF IInv, CountsOK
<1>16. QED
  BY <1>7, <1>8, <1>9, <1>10, <1>11, <1>12, <1>13, <1>14, <1>15 DEF IInv

\* The file is cut short (writeKeyringFile).
LEMMA OpenFileStep ==
  ASSUME IInv, NEW n \in Node, OpenFile(n)
  PROVE  IInv'
<1> USE DEF OpenFile, queryVars, operatorVars
<1>1. Types /\ inCh[n] # <<>>
  BY DEF IInv, WorkOK
<1>2. /\ file' \in [Node -> Seq(Key)]
      /\ file'[n] = <<>> /\ \A m \in Node \ {n} : file'[m] = file[m]
  BY <1>1 DEF Types
<1>3. /\ pc' \in [Node -> {"idle", "changed", "writing"}]
      /\ pc'[n] = "writing" /\ \A m \in Node \ {n} : pc'[m] = pc[m]
  BY <1>1 DEF Types
<1>4. Types'
  BY <1>1, <1>2, <1>3 DEF Types
<1>5. RingsOK'
  BY <1>2 DEF IInv, RingsOK, Distinct
<1>6. LineOK'
  BY <1>3 DEF IInv, LineOK
<1>7. WorkOK'
  BY <1>3 DEF IInv, WorkOK, Achieved
<1>8. AnswersOK'
  <2> SUFFICES ASSUME collecting
               PROVE  AnswersOK'
    BY DEF AnswersOK
  <2>1. \A r \in answers : file'[r.From] = file[r.From]
    BY <1>1, <1>2, HeadOfLine DEF Types, Answer
  <2>2. QED
    BY <2>1 DEF IInv, AnswersOK, Achieved
<1>9. PendingOK'
  BY DEF IInv, PendingOK, Harmless
<1>10. BeliefsOK'
  BY <1>2 DEF IInv, BeliefsOK, Fits
<1>11. FileOK'
  BY <1>2, <1>3 DEF IInv, FileOK, Types
<1>12. CountsOK'
  BY DEF IInv, CountsOK
<1>13. QED
  BY <1>4, <1>5, <1>6, <1>7, <1>8, <1>9, <1>10, <1>11, <1>12 DEF IInv

\* The ring is in the file before the node answers (writeKeyringFile).
LEMMA WriteFileStep ==
  ASSUME IInv, NEW n \in Node, WriteFile(n)
  PROVE  IInv'
<1> USE DEF WriteFile, operatorVars
<1>1. Types /\ inCh[n] # <<>> /\ inCh[n][1].Name # "list-key" /\ Achieved(ring[n], inCh[n][1])
  BY DEF IInv, WorkOK
<1>2. Respond(n, inCh[n][1], TRUE, FALSE, {})
  BY <1>1, HeadOfLine
<1>3. /\ file' \in [Node -> Seq(Key)] /\ faults' \in Nat
      /\ file'[n] = ring[n] /\ \A m \in Node \ {n} : file'[m] = file[m]
  BY <1>1 DEF Types
<1>4. /\ Types' /\ RingsOK' /\ LineOK' /\ WorkOK' /\ AnswersOK'
      /\ PendingOK' /\ BeliefsOK' /\ CountsOK'
  <2>1. n \in up /\ Done(n)
    OBVIOUS
  <2>2. UNCHANGED <<ring, up, query, accepted, collecting, result, installed, inUse, queries>>
    OBVIOUS
  <2>3. FALSE \in BOOLEAN /\ TRUE \in BOOLEAN /\ {} \in SUBSET Key
    OBVIOUS
  <2>4. file'[n] \in {file[n], ring[n]} /\ Achieved(file'[n], inCh[n][1])
    BY <1>1, <1>3
  <2> HIDE DEF WriteFile
  <2>5. QED
    BY <1>1, <1>2, <1>3, <2>1, <2>2, <2>3, <2>4, AnswerStep
<1>5. FileOK'
  BY <1>1, <1>3 DEF IInv, FileOK, Types, Done
<1>6. QED
  BY <1>4, <1>5 DEF IInv

\* A failure is answered as one (handleKeyQuery).
LEMMA WriteFailsStep ==
  ASSUME IInv, NEW n \in Node, WriteFails(n)
  PROVE  IInv'
<1> USE DEF WriteFails, operatorVars
<1>1. Types /\ inCh[n] # <<>>
  BY DEF IInv, WorkOK
<1>2. Respond(n, inCh[n][1], FALSE, TRUE, {})
  BY <1>1, HeadOfLine
<1>3. file' \in [Node -> Seq(Key)] /\ faults' \in Nat /\ faults' # 0
  BY <1>1 DEF Types
<1>4. /\ Types' /\ RingsOK' /\ LineOK' /\ WorkOK' /\ AnswersOK'
      /\ PendingOK' /\ BeliefsOK' /\ CountsOK'
  <2>1. n \in up /\ Done(n)
    OBVIOUS
  <2>2. /\ file'[n] \in {file[n], ring[n]} /\ \A m \in Node \ {n} : file'[m] = file[m]
        /\ UNCHANGED <<ring, up, query, accepted, collecting, result, installed, inUse, queries>>
    OBVIOUS
  <2>3. FALSE \in BOOLEAN /\ TRUE \in BOOLEAN /\ {} \in SUBSET Key
    OBVIOUS
  <2> HIDE DEF WriteFails
  <2>4. QED
    BY <1>1, <1>2, <1>3, <2>1, <2>2, <2>3, AnswerStep
<1>5. FileOK'
  BY <1>3 DEF FileOK
<1>6. QED
  BY <1>4, <1>5 DEF IInv

\* A list without an error is the whole ring (handleListKey).
LEMMA ListKeyStep ==
  ASSUME IInv, NEW n \in Node, handleListKey(n)
  PROVE  IInv'
<1> USE DEF handleListKey, operatorVars
<1> DEFINE most == IF Len(ring[n]) < MaxListed THEN Len(ring[n]) ELSE MaxListed
<1>1. PICK listed : listed = SubSeq(ring[n], 1, most)
  OBVIOUS
<1>2. /\ Head(inCh[n]) = inCh[n][1] /\ inCh[n][1].Name = "list-key"
  BY HeadOfLine
<1>3. Respond(n, inCh[n][1], TRUE, listed # ring[n], KeysOf(listed))
  BY <1>1, <1>2
<1>4. KeysOf(listed) \in SUBSET Key
  <2>1. ring[n] \in Seq(Key) /\ most \in Nat /\ most <= Len(ring[n])
    BY KeyAssumption DEF IInv, Types
  <2>2. listed \in Seq(Key)
    BY <1>1, <2>1
  <2>3. QED
    BY <2>2 DEF KeysOf
<1>5. file' \in [Node -> Seq(Key)] /\ faults' \in Nat
  BY DEF IInv, Types
<1>6. /\ Types' /\ RingsOK' /\ LineOK' /\ WorkOK' /\ AnswersOK'
      /\ PendingOK' /\ BeliefsOK' /\ CountsOK'
  <2>1. n \in up /\ inCh[n] # <<>> /\ Done(n)
    OBVIOUS
  <2>2. /\ file'[n] \in {file[n], ring[n]} /\ \A m \in Node \ {n} : file'[m] = file[m]
        /\ UNCHANGED <<ring, up, query, accepted, collecting, result, installed, inUse, queries>>
    OBVIOUS
  <2>3. (listed # ring[n]) \in BOOLEAN /\ TRUE \in BOOLEAN
    OBVIOUS
  <2>4. Achieved(ring[n], inCh[n][1]) /\ Achieved(file'[n], inCh[n][1])
    BY <1>2 DEF Achieved
  <2>5. ~(listed # ring[n]) => KeysOf(listed) = KeysOf(ring[n])
    OBVIOUS
  <2> HIDE DEF handleListKey
  <2>6. QED
    BY <1>3, <1>4, <1>5, <2>1, <2>2, <2>3, <2>4, <2>5, AnswerStep
<1>7. FileOK'
  BY DEF IInv, FileOK, Types, Done
<1>8. QED
  BY <1>6, <1>7 DEF IInv

\* A crash takes what was under way; ring and file stay (and so does what an
\* answer said of them).
LEMMA CrashStep ==
  ASSUME IInv, NEW n \in Node, Crash(n)
  PROVE  IInv'
<1> USE DEF Crash, operatorVars
<1>1. Types
  BY DEF IInv
<1>2. /\ inCh' \in [Node -> Seq(Query)]
      /\ inCh'[n] = <<>> /\ \A m \in Node \ {n} : inCh'[m] = inCh[m]
  BY <1>1 DEF Types
<1>3. /\ pc' \in [Node -> {"idle", "changed", "writing"}]
      /\ pc'[n] = "idle" /\ \A m \in Node \ {n} : pc'[m] = pc[m]
  BY <1>1 DEF Types
<1>4. collecting' \in BOOLEAN /\ (collecting' => collecting)
  OBVIOUS
<1>5. Types'
  BY <1>1, <1>2, <1>3, <1>4 DEF Types
<1>6. RingsOK'
  BY DEF IInv, RingsOK
<1>7. LineOK'
  <2>1. \A m \in Node : \A i \in 1 .. Len(inCh'[m]) : m # n
    BY <1>2
  <2>2. \A m \in Node \ up' : inCh'[m] = <<>> /\ pc'[m] = "idle"
    BY <1>2, <1>3 DEF IInv, LineOK
  <2>3. QED
    BY <1>2, <2>1, <2>2 DEF IInv, LineOK
<1>8. WorkOK'
  BY <1>2, <1>3 DEF IInv, WorkOK, Achieved
<1>9. AnswersOK'
  <2> SUFFICES ASSUME collecting
               PROVE  AnswersOK'
    BY <1>4 DEF AnswersOK
  <2>1. \A r \in answers : inCh'[r.From] = <<>>
    BY <1>1, <1>2 DEF IInv, AnswersOK, Types, Answer
  <2>2. QED
    BY <2>1 DEF IInv, AnswersOK, Achieved
<1>10. PendingOK'
  <2>1. \A m \in Node : \A i \in 1 .. Len(inCh'[m]) : m # n
    BY <1>2
  <2>2. QED
    BY <1>2, <2>1 DEF IInv, PendingOK, Harmless
<1>11. BeliefsOK'
  BY DEF IInv, BeliefsOK, Fits
<1>12. FileOK'
  BY <1>3 DEF IInv, FileOK
<1>13. CountsOK'
  BY DEF IInv, CountsOK
<1>14. QED
  BY <1>5, <1>6, <1>7, <1>8, <1>9, <1>10, <1>11, <1>12, <1>13 DEF IInv

\* The keys of the file are as good as those of the ring (loadKeyring).
LEMMA RestartStep ==
  ASSUME IInv, NEW n \in Node, Restart(n)
  PROVE  IInv'
<1> USE DEF Restart, operatorVars
<1>1. Types /\ inCh[n] = <<>> /\ pc[n] = "idle"
  BY DEF IInv, LineOK
<1>2. /\ ring' \in [Node -> Seq(Key)]
      /\ ring'[n] = file[n] /\ \A m \in Node \ {n} : ring'[m] = ring[m]
  BY <1>1 DEF Types
<1>3. Types'
  BY <1>1, <1>2 DEF Types
<1>4. RingsOK'
  BY <1>2 DEF IInv, RingsOK
<1>5. LineOK'
  <2>1. \A m \in Node : \A i \in 1 .. Len(inCh[m]) : m # n
    BY <1>1
  <2>2. QED
    BY <2>1 DEF IInv, LineOK
<1>6. WorkOK'
  BY <1>1, <1>2 DEF IInv, WorkOK, Achieved
<1>7. AnswersOK'
  BY DEF AnswersOK
<1>8. PendingOK'
  BY DEF IInv, PendingOK, Harmless
<1>9. BeliefsOK'
  BY <1>2 DEF IInv, BeliefsOK, Fits
<1>10. FileOK'
  BY <1>2 DEF IInv, FileOK, Types
<1>11. CountsOK'
  BY DEF IInv, CountsOK
<1>12. QED
  BY <1>3, <1>4, <1>5, <1>6, <1>7, <1>8, <1>9, <1>10, <1>11 DEF IInv
-----------------------------------------------------------------------------
(* The theorems. *)

\* Every step keeps the invariant.
LEMMA StepInv == IInv /\ [Next]_vars => IInv'
<1> SUFFICES ASSUME IInv, [Next]_vars
             PROVE  IInv'
  OBVIOUS
<1>1. CASE \E name \in Command, k \in Key : KeyQuery(name, k)
  BY <1>1, KeyQueryStep
<1>2. CASE KeyQueryReturns
  BY <1>2, KeyQueryReturnsStep
<1>3. ASSUME NEW n \in Node,
             \/ Receive(n) \/ RejectKey(n) \/ ChangeRing(n) \/ handleListKey(n)
             \/ OpenFile(n) \/ WriteFile(n) \/ WriteFails(n)
             \/ Crash(n) \/ Restart(n)
      PROVE  IInv'
  BY <1>3, ReceiveStep, RejectKeyStep, ChangeRingStep, ListKeyStep, OpenFileStep,
     WriteFileStep, WriteFailsStep, CrashStep, RestartStep
<1>4. CASE UNCHANGED vars
  BY <1>4 DEF vars, IInv, Types, RingsOK, LineOK, WorkOK, AnswersOK, PendingOK, BeliefsOK,
              FileOK, CountsOK, Fits, Harmless, Achieved
<1>5. QED
  BY <1>1, <1>2, <1>3, <1>4 DEF Next

\* The inductive invariant holds throughout.
THEOREM Invariant == Spec => []IInv
  BY InitInv, StepInv, PTL DEF Spec

\* A ring that holds no key twice has as many keys as places.
LEMMA KeysCounted ==
  ASSUME NEW r \in Seq(Key), Distinct(r)
  PROVE  Cardinality(KeysOf(r)) = Len(r)
<1>1. /\ Len(r) \in Nat
      /\ r \in [1 .. Len(r) -> KeysOf(r)]
      /\ \A k \in KeysOf(r) : \E i \in 1 .. Len(r) : r[i] = k
  BY DEF KeysOf
<1>2. r \in Surjection(1 .. Len(r), KeysOf(r)) /\ r \in Injection(1 .. Len(r), KeysOf(r))
  BY <1>1 DEF Surjection, Injection, IsInjective, Distinct
<1>3. IsFiniteSet(1 .. Len(r)) /\ Cardinality(1 .. Len(r)) = Len(r)
  <2>1. PICK l \in Nat : l = Len(r)
    BY <1>1
  <2>2. IsFiniteSet(1 .. l) /\ Cardinality(1 .. l) = IF 1 > l THEN 0 ELSE l - 1 + 1
    BY FS_Interval
  <2>3. Cardinality(1 .. l) = l
    BY <2>2
  <2>4. QED
    BY <2>1, <2>2, <2>3
<1>4. QED
  BY <1>2, <1>3, FS_Surjection

\* The types, rings in which no key is twice, and a file that is up to date on
\* every node at rest after which no write has failed (key_query.go:193-213,
\* rpc/server/config.go:128-152): for any number of nodes, keys and crashes.
THEOREM RingsAreOnDisk == Spec => []KeyInv
<1>1. IInv => KeyInv
  <2> SUFFICES ASSUME IInv
               PROVE  KeyInv
    OBVIOUS
  <2>1. TypeOK
    BY DEF IInv, Types, Answer, CountsOK, TypeOK
  <2>2. \A n \in Node : ring[n] # <<>> /\ Cardinality(KeysOf(ring[n])) = Len(ring[n])
    BY KeysCounted DEF IInv, Types, RingsOK
  <2>3. faults = 0 => \A n \in up : pc[n] = "idle" => file[n] = ring[n]
    BY DEF IInv, FileOK
  <2>4. QED
    BY <2>1, <2>2, <2>3 DEF KeyInv
<1>2. QED
  BY Invariant, <1>1, PTL

\* What one node encrypts with, every node can read, at every moment of any
\* sequence of rotations that goes by the counts, through lost answers, failed
\* writes, crashes and restarts (cmd/keys.go:68-87, key_query.go:157-190).
THEOREM NobodyIsCutOff == Spec => []EverybodyUnderstood
<1>1. IInv => EverybodyUnderstood
  <2> SUFFICES ASSUME IInv, NEW n \in up, NEW m \in up
               PROVE  ring[n][1] \in KeysOf(ring[m])
    BY DEF EverybodyUnderstood
  <2>1. n \in Node /\ m \in Node
    BY DEF IInv, Types
  <2>2. ring[n][1] \in inUse /\ inUse \subseteq installed /\ installed \subseteq KeysOf(ring[m])
    BY <2>1 DEF IInv, BeliefsOK, Fits
  <2>3. QED
    BY <2>2
<1>2. QED
  BY Invariant, <1>1, PTL

\* The result of a query that is still read is empty until KeyQuery returns.
LEMMA OnlyReturnsResult ==
  ASSUME IInv, [Next]_vars, collecting, result' # {}
  PROVE  KeyQueryReturns
<1>1. result = {}
  BY DEF IInv, AnswersOK
<1>2. CASE UNCHANGED vars
  BY <1>1, <1>2 DEF vars
<1>3. CASE \E name \in Command, k \in Key : KeyQuery(name, k)
  BY <1>3 DEF KeyQuery
<1>4. ASSUME NEW n \in Node,
             \/ Receive(n) \/ RejectKey(n) \/ ChangeRing(n) \/ handleListKey(n)
             \/ OpenFile(n) \/ WriteFile(n) \/ WriteFails(n)
             \/ Crash(n) \/ Restart(n)
      PROVE  result' = result
  BY <1>4 DEF Receive, RejectKey, ChangeRing, handleListKey, OpenFile, WriteFile, WriteFails,
              Crash, Restart, queryVars
<1>5. QED
  BY <1>1, <1>2, <1>3, <1>4 DEF Next

\* No other step gives the operator a key to use.
LEMMA OnlyReturnsInstall ==
  ASSUME [Next]_vars, collecting, installed' # installed
  PROVE  KeyQueryReturns
<1>1. CASE UNCHANGED vars
  BY <1>1 DEF vars
<1>2. CASE \E name \in Command, k \in Key : KeyQuery(name, k)
  BY <1>2 DEF KeyQuery
<1>3. ASSUME NEW n \in Node,
             \/ Receive(n) \/ RejectKey(n) \/ ChangeRing(n) \/ handleListKey(n)
             \/ OpenFile(n) \/ WriteFile(n) \/ WriteFails(n)
             \/ Crash(n) \/ Restart(n)
      PROVE  installed' = installed
  BY <1>3 DEF Receive, RejectKey, ChangeRing, handleListKey, OpenFile, WriteFile, WriteFails,
              Crash, Restart, operatorVars
<1>4. QED
  BY <1>1, <1>2, <1>3 DEF Next

\* A list that is complete and without errors counts every key on the nodes
\* that have it: the answers and the nodes are in a one-to-one relation.
LEMMA ListCounts ==
  ASSUME IInv, collecting, NEW read \in SUBSET answers, Complete(collectKeyResponse(read)),
         collectKeyResponse(read).ErrFrom = {},
         NEW q \in query, q.Name = "list-key", NEW k \in Key
  PROVE  collectKeyResponse(read).KeyCount[k] = Cardinality({n \in Node : k \in KeysOf(ring[n])})
<1> DEFINE saying == {r \in read : k \in r.Keys}
           having == {n \in Node : k \in KeysOf(ring[n])}
           from == [r \in saying |-> r.From]
<1>1. collectKeyResponse(read).KeyCount[k] = Cardinality(saying)
  BY DEF collectKeyResponse
<1>2. \A r \in read : ~r.Err
  BY DEF collectKeyResponse
<1>3. \A r \in read : r.From \in Node /\ r.Keys = KeysOf(ring[r.From])
  BY <1>2, CompleteMeansAll DEF IInv, AnswersOK, Types, Answer
<1>4. \A n \in Node : \E r \in read : r.From = n
  BY CompleteMeansAll
<1>5. from \in [saying -> having]
  BY <1>3
<1>6. \A r, s \in saying : from[r] = from[s] => r = s
  BY DEF IInv, AnswersOK
<1>7. \A n \in having : \E r \in saying : from[r] = n
  BY <1>3, <1>4
<1>8. from \in Bijection(saying, having)
  <2> HIDE DEF from, saying, having
  <2>1. \A a, b \in saying : from[a] = from[b] => a = b
    BY <1>6
  <2>2. QED
    BY <1>5, <1>7, <2>1 DEF Bijection, Injection, IsInjective, Surjection
<1>9. IsFiniteSet(saying)
  BY AnswersAreNodes, FS_Subset
<1>10. Cardinality(saying) = Cardinality(having)
  <2> HIDE DEF from, saying, having
  <2>1. ExistsBijection(saying, having)
    BY <1>8 DEF ExistsBijection
  <2>2. QED
    BY <1>9, <2>1, FS_Bijection
<1>11. QED
  BY <1>1, <1>10

\* What KeyQuery counts without an error is so: keys that are installed in
\* every ring and in every file, whatever crashes, and keys that are listed
\* (key_query.go:51-109, 157-249).
THEOREM CountsCanBeTrusted == Spec => CountsAreTrue
<1>1. ASSUME IInv, [Next]_vars, collecting, ~collecting', installed # installed'
      PROVE  \A n \in Node : (installed' \ installed) \subseteq KeysOf(file[n])
  <2>1. KeyQueryReturns
    BY <1>1, OnlyReturnsInstall
  <2>2. PICK read \in SUBSET answers : \E q \in query :
           /\ Complete(collectKeyResponse(read)) /\ q.Name = "install-key"
           /\ installed' = installed \cup {q.Key}
    BY <1>1, <2>1 DEF KeyQueryReturns
  <2>3. PICK q \in query : /\ Complete(collectKeyResponse(read)) /\ q.Name = "install-key"
                           /\ installed' = installed \cup {q.Key}
    BY <2>2
  <2>4. \A n \in Node : Achieved(file[n], q)
    BY <1>1, <2>3, CompleteMeansDone
  <2>5. QED
    BY <2>3, <2>4 DEF Achieved
<1>2. ASSUME IInv, [Next]_vars, NEW q \in query, NEW res \in result',
             collecting, q.Name = "list-key", up = Node, Complete(res), res.ErrFrom = {}
      PROVE  \A k \in Key : res.KeyCount[k] = Cardinality({n \in Node : k \in KeysOf(ring[n])})
  <2>1. KeyQueryReturns
    BY <1>2, OnlyReturnsResult
  <2>2. PICK read \in SUBSET answers : result' \subseteq {collectKeyResponse(read)}
    BY <2>1 DEF KeyQueryReturns
  <2>3. res = collectKeyResponse(read)
    BY <2>2
  <2>4. QED
    BY <1>2, <2>3, ListCounts
<1>3. IInv /\ [Next]_vars =>
         [collecting /\ ~collecting' /\ installed # installed' =>
             \A n \in Node : (installed' \ installed) \subseteq KeysOf(file[n])]_vars
  BY <1>1
<1>4. IInv /\ [Next]_vars =>
         [\A q \in query, res \in result' :
             /\ collecting /\ q.Name = "list-key"
             /\ up = Node /\ Complete(res) /\ res.ErrFrom = {}
             => \A k \in Key : res.KeyCount[k] = Cardinality({n \in Node : k \in KeysOf(ring[n])})]_vars
  BY <1>2
<1>5. QED
  BY Invariant, <1>3, <1>4, PTL DEF Spec, CountsAreTrue, CompleteIsDone, ListIsTrue
=============================================================================
