------------------------- MODULE QueryManagerProofs -------------------------
(***************************************************************************)
(* For any queries at once, nodes, scripts, relays, timeouts and any       *)
(* selection of nodes: a caller is handed the response of a node once, of  *)
(* nodes its query selects only, never on a channel that is closed; and a  *)
(* query that no other call overlaps keeps its handler.                    *)
(***************************************************************************)
EXTENDS QueryManager, FiniteSetTheorems, TLAPS

-----------------------------------------------------------------------------
(* The inductive invariant. *)

\* The queries that Query has returned for, or would have.
Sent == {q \in Query : pc[q] \in {"reading", "done"}}

\* No clock, and no time of a query, is past one more than the number of queries
\* sent: this is why every time a caller reads is one of Times.
TimesOK == /\ \A n \in Node : clock[n] <= Cardinality(Sent) + 1
           /\ \A q \in Query : lTime[q] <= Cardinality(Sent) + (IF q \in Sent THEN 0 ELSE 1)
           /\ \A q \in Query : pc[q] \notin {"idle", "stuck"} => lTime[q] \in Times
           /\ \A q \in Query : timer[q] # "none" => pc[q] \notin {"idle", "stuck", "read"}
           /\ gossip \subseteq Sent

\* A handler is under the time of its query, whose call has registered it and is
\* not closed; and it has counted all that its caller got.
HandlersOK == \A t \in Times : \A h \in handlers[t] :
                 /\ lTime[h.q] = t
                 /\ pc[h.q] \in {"registered", "reading", "done"}
                 /\ h.q \notin closed
                 /\ \A i \in DOMAIN got[h.q] : got[h.q][i] \in h.received

\* Before it registers a handler a caller gets nothing and is not closed.
UnregisteredOK == \A q \in Query : pc[q] \in {"idle", "stuck", "read", "armed"} =>
                     got[q] = <<>> /\ q \notin closed

\* Only nodes that a query selects answer it, after it was sent.
AnswersOK == /\ \A n \in Node, q \in Query : pending[n][q] > 0 => n \in selected[q] /\ q \in gossip
             /\ \A r \in Response : net[r] > 0 => r.From \in selected[r.q] /\ r.q \in gossip

IInv == TypeOK /\ TimesOK /\ HandlersOK /\ UnregisteredOK /\ AnswersOK /\ ResponsesOnce

-----------------------------------------------------------------------------
(* The number of queries sent. *)

\* Numbers are numbers.
LEMMA Numbers == NumScripts \in Nat /\ NumRelays \in Nat /\ NumActive \subseteq Nat
BY QueryAssumption

\* It is at most the number of queries.
LEMMA SentBound ==
  ASSUME TypeOK
  PROVE  /\ IsFiniteSet(Sent) /\ Cardinality(Sent) \in Nat
         /\ Cardinality(Query) \in Nat /\ Cardinality(Sent) <= Cardinality(Query)
         /\ \A t \in Int : t \in Times <=> 1 <= t /\ t <= Cardinality(Query) + 1
<1>1. Sent \in SUBSET Query
  BY DEF Sent
<1>2. IsFiniteSet(Query)
  BY QueryAssumption
<1> QED
  BY <1>1, <1>2, FS_Subset, FS_CardinalityType DEF Times

-----------------------------------------------------------------------------
(* handleQuery. *)

\* What handleQuery may change, with the types.
LEMMA handleQueryTypes ==
  ASSUME IInv, NEW n \in Node, NEW q \in Query, handleQuery(n, q),
         lTime[q] + 1 \in Times
  PROVE  /\ clock' \in [Node -> Times]
         /\ gossip' \in {gossip, gossip \cup {q}}
         /\ pending' \in [Node -> [Query -> 0 .. NumScripts + 1]]
         /\ \A m \in Node : clock'[m] = clock[m] \/ clock'[m] = lTime[q] + 1
<1> USE DEF IInv, TypeOK
<1>1. Answers(q) \in 0 .. NumScripts + 1
  BY Numbers DEF Answers
<1>2. clock' \in [Node -> Times] /\ \A m \in Node : clock'[m] = clock[m] \/ clock'[m] = lTime[q] + 1
  BY DEF handleQuery
<1>3. pending' \in [Node -> [Query -> 0 .. NumScripts + 1]]
  <2>1. 0 \in 0 .. NumScripts + 1
    BY Numbers
  <2>2. pending' = pending \/ \E a \in 0 .. NumScripts + 1 : pending' = [pending EXCEPT ![n][q] = a]
    BY <1>1, <2>1 DEF handleQuery
  <2>3. ASSUME NEW a \in 0 .. NumScripts + 1, pending' = [pending EXCEPT ![n][q] = a]
        PROVE  pending' \in [Node -> [Query -> 0 .. NumScripts + 1]]
    BY <2>3
  <2> QED
    BY <2>2, <2>3
<1> QED
  BY <1>2, <1>3 DEF handleQuery

\* A node that does not match the filter has nothing to answer.
LEMMA handleQueryAnswers ==
  ASSUME IInv, NEW n \in Node, NEW q \in Query, handleQuery(n, q),
         UNCHANGED <<selected, net>>
  PROVE  AnswersOK' /\ gossip \subseteq gossip'
<1> USE DEF IInv, TypeOK, AnswersOK
<1>1. gossip \subseteq gossip'
  BY DEF handleQuery
<1>2. ASSUME NEW m \in Node, NEW p \in Query, pending'[m][p] > 0
      PROVE  m \in selected[p] /\ p \in gossip'
  <2>1. CASE pending'[m][p] = pending[m][p]
    BY <1>1, <1>2, <2>1
  <2>2. CASE pending'[m][p] # pending[m][p]
    <3>1. m = n /\ p = q
      BY <2>2 DEF handleQuery
    <3> QED
      BY <1>2, <2>2, <3>1 DEF handleQuery
  <2> QED
    BY <2>1, <2>2
<1> QED
  BY <1>1, <1>2

-----------------------------------------------------------------------------
(* The steps of a call. *)

\* A payload is too long.
LEMMA RejectPayloadStep == ASSUME IInv, NEW q \in Query, RejectPayload(q)  PROVE IInv'
<1> USE DEF IInv, RejectPayload, Goto, nodeVars, managerVars
<1>1. TypeOK'
  BY DEF TypeOK
<1>2. TimesOK'
  <2>1. Sent' = Sent
    BY DEF Sent, TypeOK
  <2> QED
    BY <2>1 DEF TimesOK, TypeOK, Times
<1>3. HandlersOK'
  <2>1. \A t \in Times : \A h \in handlers[t] : pc'[h.q] \in {"registered", "reading", "done"}
    <3> SUFFICES ASSUME NEW t \in Times, NEW h \in handlers[t]
                 PROVE  pc'[h.q] \in {"registered", "reading", "done"}
      OBVIOUS
    <3>1. h.q \in Query /\ pc[h.q] \in {"registered", "reading", "done"}
      BY DEF TypeOK, HandlersOK
    <3> QED
      BY <3>1 DEF TypeOK
  <2> QED
    BY <2>1 DEF HandlersOK, Times
<1>4. UnregisteredOK' /\ AnswersOK' /\ ResponsesOnce'
  BY DEF TypeOK, UnregisteredOK, AnswersOK, ResponsesOnce
<1> QED
  BY <1>1, <1>2, <1>3, <1>4

\* The caller reads the time.
LEMMA ReadTimeStep == ASSUME IInv, NEW q \in Query, ReadTime(q)  PROVE IInv'
<1> USE DEF IInv
<1>0. q \notin Sent /\ pc[q] = "idle"
  BY DEF ReadTime, Sent
<1>1. TypeOK'
  <2>1. clock[Origin] \in Times
    BY QueryAssumption DEF TypeOK
  <2> QED
    BY <2>1 DEF ReadTime, Goto, TypeOK, nodeVars, managerVars
<1>2. TimesOK'
  <2>1. clock[Origin] \in Times /\ clock[Origin] \in Nat
    BY QueryAssumption DEF TypeOK, Times
  <2>2. Sent' = Sent /\ q \notin Sent'
    BY <1>0 DEF ReadTime, Goto, TypeOK, Sent
  <2>3. /\ \A n \in Node : clock[n] \in Nat
        /\ \A p \in Query : lTime[p] \in Nat
        /\ Cardinality(Sent) \in Nat
    <3>1. \A n \in Node : clock[n] \in Times
      BY DEF TypeOK
    <3>2. \A p \in Query : lTime[p] \in Times \cup {0}
      BY DEF TypeOK
    <3> QED
      BY <3>1, <3>2, SentBound DEF Times
  <2>4. /\ lTime' = [lTime EXCEPT ![q] = clock[Origin]]
        /\ UNCHANGED <<clock, gossip, timer>>
        /\ pc'[q] = "read" /\ \A p \in Query \ {q} : pc'[p] = pc[p]
    BY DEF ReadTime, Goto, nodeVars, managerVars, TypeOK
  <2>5. \A n \in Node : clock'[n] <= Cardinality(Sent') + 1
    BY <2>2, <2>3, <2>4 DEF TimesOK
  <2>6. \A p \in Query : lTime'[p] <= Cardinality(Sent') + (IF p \in Sent' THEN 0 ELSE 1)
    <3>1. lTime'[q] = clock[Origin] /\ \A p \in Query \ {q} : lTime'[p] = lTime[p]
      BY <2>4 DEF TypeOK
    <3>2. clock[Origin] <= Cardinality(Sent) + 1
      BY QueryAssumption DEF TimesOK
    <3> QED
      BY <2>1, <2>2, <2>3, <3>1, <3>2 DEF TimesOK
  <2>7. \A p \in Query : pc'[p] \notin {"idle", "stuck"} => lTime'[p] \in Times
    BY <2>1, <2>4 DEF TimesOK, TypeOK
  <2>8. gossip' \subseteq Sent' /\ \A p \in Query : timer'[p] # "none" => pc'[p] \notin {"idle", "stuck", "read"}
    BY <1>0, <2>2, <2>4 DEF TimesOK
  <2> QED
    BY <2>5, <2>6, <2>7, <2>8 DEF TimesOK, Times
<1>3. HandlersOK'
  <2>1. /\ UNCHANGED <<handlers, closed, got>>
        /\ \A p \in Query \ {q} : pc'[p] = pc[p] /\ lTime'[p] = lTime[p]
    BY DEF ReadTime, Goto, managerVars, TypeOK
  <2>2. \A t \in Times : \A h \in handlers[t] : h.q \in Query \ {q}
    <3> SUFFICES ASSUME NEW t \in Times, NEW h \in handlers[t]
                 PROVE  h.q \in Query /\ h.q # q
      OBVIOUS
    <3>1. h.q \in Query
      BY DEF TypeOK
    <3>2. pc[h.q] # "idle"
      BY DEF HandlersOK
    <3> QED
      BY <1>0, <3>1, <3>2
  <2> QED
    BY <2>1, <2>2 DEF HandlersOK, Times
<1>4. UnregisteredOK' /\ AnswersOK' /\ ResponsesOnce'
  BY <1>0 DEF ReadTime, Goto, nodeVars, managerVars, TypeOK, UnregisteredOK, AnswersOK, ResponsesOnce
<1> QED
  BY <1>1, <1>2, <1>3, <1>4

\* It arms the timer.
LEMMA ArmTimerStep == ASSUME IInv, NEW q \in Query, ArmTimer(q)  PROVE IInv'
<1> USE DEF IInv, ArmTimer, Goto, nodeVars
<1>1. TypeOK'
  BY DEF TypeOK
<1>2. TimesOK'
  <2>1. Sent' = Sent
    BY DEF Sent, TypeOK
  <2> QED
    BY <2>1 DEF TimesOK, TypeOK, Times
<1>3. HandlersOK'
  <2>1. \A t \in Times : \A h \in handlers[t] : pc'[h.q] \in {"registered", "reading", "done"}
    <3> SUFFICES ASSUME NEW t \in Times, NEW h \in handlers[t]
                 PROVE  pc'[h.q] \in {"registered", "reading", "done"}
      OBVIOUS
    <3>1. h.q \in Query /\ pc[h.q] \in {"registered", "reading", "done"}
      BY DEF TypeOK, HandlersOK
    <3> QED
      BY <3>1 DEF TypeOK
  <2> QED
    BY <2>1 DEF HandlersOK, Times
<1>4. UnregisteredOK' /\ AnswersOK' /\ ResponsesOnce'
  BY DEF TypeOK, UnregisteredOK, AnswersOK, ResponsesOnce
<1> QED
  BY <1>1, <1>2, <1>3, <1>4

\* It registers its handler.
LEMMA SetHandlerStep == ASSUME IInv, NEW q \in Query, SetHandler(q)  PROVE IInv'
<1> USE DEF IInv, SetHandler, Goto, nodeVars
<1>0. lTime[q] \in Times
  BY DEF TimesOK
<1>1. TypeOK'
  <2>1. [q |-> q, received |-> {}] \in [q : Query, received : SUBSET Node]
    OBVIOUS
  <2>2. handlers' \in [Times -> SUBSET [q : Query, received : SUBSET Node]]
    BY <1>0, <2>1 DEF TypeOK
  <2>3. \A t \in Times : \A g, h \in handlers'[t] : g = h
    BY <1>0 DEF TypeOK
  <2> QED
    BY <2>2, <2>3 DEF TypeOK, Times
<1>2. TimesOK'
  <2>1. Sent' = Sent
    BY DEF Sent, TypeOK
  <2> QED
    BY <2>1 DEF TimesOK, TypeOK, Times
<1>3. HandlersOK'
  <2> SUFFICES ASSUME NEW t \in Times, NEW h \in handlers'[t]
               PROVE  /\ lTime[h.q] = t
                      /\ pc'[h.q] \in {"registered", "reading", "done"}
                      /\ h.q \notin closed
                      /\ \A i \in DOMAIN got[h.q] : got[h.q][i] \in h.received
    BY DEF HandlersOK, Times
  <2>1. CASE t = lTime[q]
    <3>1. h = [q |-> q, received |-> {}]
      BY <2>1 DEF TypeOK
    <3>2. got[q] = <<>> /\ q \notin closed
      BY DEF UnregisteredOK
    <3> QED
      BY <2>1, <3>1, <3>2 DEF TypeOK
  <2>2. CASE t # lTime[q]
    <3>1. h \in handlers[t]
      BY <2>2 DEF TypeOK
    <3> QED
      BY <3>1 DEF HandlersOK, TypeOK
  <2> QED
    BY <2>1, <2>2
<1>4. UnregisteredOK' /\ AnswersOK' /\ ResponsesOnce'
  BY DEF TypeOK, UnregisteredOK, AnswersOK, ResponsesOnce
<1> QED
  BY <1>1, <1>2, <1>3, <1>4

\* It sends the query.
LEMMA SendQueryStep == ASSUME IInv, NEW q \in Query, SendQuery(q)  PROVE IInv'
<1> USE DEF IInv
<1>0. /\ pc[q] = "registered" /\ pc' = [pc EXCEPT ![q] = "reading"]
      /\ UNCHANGED <<managerVars, lTime, selected, numNode, got, net>>
      /\ handleQuery(Origin, q) \/ UNCHANGED nodeVars
  BY DEF SendQuery, Goto
<1>1. q \in Query \ Sent /\ Sent' = Sent \cup {q}
  BY <1>0 DEF Sent, TypeOK
<1>2. /\ Cardinality(Sent) \in Nat /\ Cardinality(Sent) + 1 <= Cardinality(Query)
      /\ Cardinality(Sent') = Cardinality(Sent) + 1
  <2>1. Cardinality(Sent') = Cardinality(Sent) + 1
    BY <1>1, SentBound, FS_AddElement
  <2>2. Sent' \in SUBSET Query
    BY <1>1 DEF Sent
  <2>3. Cardinality(Sent') <= Cardinality(Query)
    BY <2>2, FS_Subset, QueryAssumption
  <2> QED
    BY <2>1, <2>3, SentBound
<1>3. lTime[q] \in Nat /\ lTime[q] <= Cardinality(Sent) + 1 /\ lTime[q] + 1 \in Times
  <2>1. lTime[q] \in Times
    BY <1>0 DEF TimesOK
  <2>2. lTime[q] <= Cardinality(Sent) + 1
    BY <1>1, <1>2, <2>1 DEF TimesOK, Times
  <2> QED
    BY <1>2, <2>1, <2>2, SentBound DEF Times
<1>4. Origin \in Node
  BY QueryAssumption
<1>5. /\ clock' \in [Node -> Times]
      /\ gossip' \in {gossip, gossip \cup {q}}
      /\ pending' \in [Node -> [Query -> 0 .. NumScripts + 1]]
      /\ \A m \in Node : clock'[m] = clock[m] \/ clock'[m] = lTime[q] + 1
  <2>1. CASE handleQuery(Origin, q)
    BY <1>3, <1>4, <2>1, handleQueryTypes
  <2>2. CASE UNCHANGED nodeVars
    BY <2>2 DEF nodeVars, TypeOK
  <2> QED
    BY <1>0, <2>1, <2>2
<1>6. TypeOK'
  <2>1. pc' \in [Query -> {"idle", "read", "armed", "registered", "reading", "done", "stuck"}]
    BY <1>0 DEF TypeOK
  <2> QED
    BY <1>0, <1>5, <2>1 DEF TypeOK, SendQuery, managerVars, Times
<1>7. TimesOK'
  <2>1. \A n \in Node : clock'[n] <= Cardinality(Sent') + 1
    <3> SUFFICES ASSUME NEW n \in Node
                 PROVE  clock'[n] <= Cardinality(Sent') + 1
      OBVIOUS
    <3>1. clock[n] \in Nat /\ clock[n] <= Cardinality(Sent) + 1
      BY DEF TimesOK, TypeOK, Times
    <3>2. clock'[n] = clock[n] \/ clock'[n] = lTime[q] + 1
      BY <1>5
    <3> QED
      BY <1>2, <1>3, <3>1, <3>2
  <2>2. \A p \in Query : lTime'[p] <= Cardinality(Sent') + (IF p \in Sent' THEN 0 ELSE 1)
    <3> SUFFICES ASSUME NEW p \in Query
                 PROVE  lTime[p] <= Cardinality(Sent') + (IF p \in Sent' THEN 0 ELSE 1)
      BY <1>0
    <3>1. lTime[p] \in Nat
      BY DEF TypeOK, Times
    <3> QED
      BY <1>1, <1>2, <1>3, <3>1 DEF TimesOK
  <2>3. gossip' \subseteq Sent'
    BY <1>1, <1>5 DEF TimesOK
  <2> QED
    BY <1>0, <2>1, <2>2, <2>3 DEF TimesOK, TypeOK, managerVars, Times
<1>8. HandlersOK' /\ UnregisteredOK'
  <2>1. \A t \in Times : \A h \in handlers[t] : pc'[h.q] \in {"registered", "reading", "done"}
    <3> SUFFICES ASSUME NEW t \in Times, NEW h \in handlers[t]
                 PROVE  pc'[h.q] \in {"registered", "reading", "done"}
      OBVIOUS
    <3>1. h.q \in Query /\ pc[h.q] \in {"registered", "reading", "done"}
      BY DEF TypeOK, HandlersOK
    <3> QED
      BY <1>0, <3>1 DEF TypeOK
  <2>2. HandlersOK'
    BY <1>0, <2>1 DEF HandlersOK, managerVars, Times
  <2>3. UnregisteredOK'
    BY <1>0 DEF TypeOK, UnregisteredOK, managerVars
  <2> QED
    BY <2>2, <2>3
<1>9. AnswersOK' /\ gossip \subseteq gossip'
  <2>1. CASE handleQuery(Origin, q)
    BY <1>0, <1>4, <2>1, handleQueryAnswers
  <2>2. CASE UNCHANGED nodeVars
    BY <1>0, <2>2 DEF nodeVars, AnswersOK
  <2> QED
    BY <1>0, <2>1, <2>2
<1>10. ResponsesOnce'
  BY <1>0, <1>9 DEF ResponsesOnce
<1> QED
  BY <1>6, <1>7, <1>8, <1>9, <1>10

\* The timer closes the channel of the handler under its time.
LEMMA TimerFiresStep == ASSUME IInv, NEW q \in Query, TimerFires(q)  PROVE IInv'
<1> USE DEF IInv, TimerFires, nodeVars, callVars
<1>0. lTime[q] \in Times
  BY DEF TimesOK
<1>1. TypeOK'
  <2>1. handlers[lTime[q]] \subseteq [q : Query, received : SUBSET Node]
    BY <1>0 DEF TypeOK
  <2>2. closed' \subseteq Query
    BY <2>1 DEF TypeOK
  <2> QED
    BY <2>2, <1>0 DEF TypeOK, Times
<1>2. TimesOK'
  <2>1. Sent' = Sent
    BY DEF Sent, TypeOK
  <2> QED
    BY <2>1 DEF TimesOK, TypeOK, Times
<1>3. HandlersOK'
  <2> SUFFICES ASSUME NEW t \in Times, NEW h \in handlers'[t]
               PROVE  /\ lTime[h.q] = t
                      /\ pc[h.q] \in {"registered", "reading", "done"}
                      /\ h.q \notin closed'
                      /\ \A i \in DOMAIN got[h.q] : got[h.q][i] \in h.received
    BY DEF HandlersOK, Times
  <2>1. h \in handlers[t] /\ t # lTime[q]
    BY <1>0 DEF TypeOK
  <2>2. \A g \in handlers[lTime[q]] : lTime[g.q] = lTime[q]
    BY <1>0 DEF HandlersOK
  <2> QED
    BY <2>1, <2>2 DEF HandlersOK
<1>4. UnregisteredOK'
  <2>1. \A g \in handlers[lTime[q]] : pc[g.q] \in {"registered", "reading", "done"}
    BY <1>0 DEF HandlersOK
  <2> QED
    BY <2>1 DEF UnregisteredOK
<1>5. AnswersOK' /\ ResponsesOnce'
  BY DEF AnswersOK, ResponsesOnce
<1> QED
  BY <1>1, <1>2, <1>3, <1>4, <1>5

\* It returns.
LEMMA CallReturnsStep == ASSUME IInv, NEW q \in Query, CallReturns(q)  PROVE IInv'
<1> USE DEF IInv, CallReturns, Goto, nodeVars, managerVars
<1>1. TypeOK'
  BY DEF TypeOK
<1>2. TimesOK'
  <2>1. Sent' = Sent
    BY DEF Sent, TypeOK
  <2> QED
    BY <2>1 DEF TimesOK, TypeOK, Times
<1>3. HandlersOK'
  <2>1. \A t \in Times : \A h \in handlers[t] : pc'[h.q] \in {"registered", "reading", "done"}
    <3> SUFFICES ASSUME NEW t \in Times, NEW h \in handlers[t]
                 PROVE  pc'[h.q] \in {"registered", "reading", "done"}
      OBVIOUS
    <3>1. h.q \in Query /\ pc[h.q] \in {"registered", "reading", "done"}
      BY DEF TypeOK, HandlersOK
    <3> QED
      BY <3>1 DEF TypeOK
  <2> QED
    BY <2>1 DEF HandlersOK, Times
<1>4. UnregisteredOK' /\ AnswersOK' /\ ResponsesOnce'
  BY DEF TypeOK, UnregisteredOK, AnswersOK, ResponsesOnce
<1> QED
  BY <1>1, <1>2, <1>3, <1>4

-----------------------------------------------------------------------------
(* The steps of the nodes and of the network. *)

\* A query gets to a node.
LEMMA GossipStep == ASSUME IInv, NEW n \in Node, NEW q \in Query, Gossip(n, q)  PROVE IInv'
<1> USE DEF IInv
<1>0. /\ q \in gossip /\ handleQuery(n, q)
      /\ UNCHANGED <<managerVars, callVars, net>>
  BY DEF Gossip
<1>1. Sent' = Sent /\ q \in Sent
  BY <1>0 DEF Sent, callVars, TimesOK
<1>2. lTime[q] \in Nat /\ lTime[q] <= Cardinality(Sent) /\ lTime[q] + 1 \in Times
  <2>1. lTime[q] \in Times
    BY <1>1 DEF TimesOK, Sent
  <2>2. lTime[q] <= Cardinality(Sent)
    BY <1>1, <2>1, SentBound DEF TimesOK, Times
  <2> QED
    BY <2>1, <2>2, SentBound DEF Times
<1>3. /\ clock' \in [Node -> Times]
      /\ gossip' \in {gossip, gossip \cup {q}}
      /\ pending' \in [Node -> [Query -> 0 .. NumScripts + 1]]
      /\ \A m \in Node : clock'[m] = clock[m] \/ clock'[m] = lTime[q] + 1
  BY <1>0, <1>2, handleQueryTypes
<1>4. TypeOK'
  BY <1>0, <1>3 DEF TypeOK, managerVars, callVars, Times
<1>5. TimesOK'
  <2>1. \A m \in Node : clock'[m] <= Cardinality(Sent) + 1
    <3> SUFFICES ASSUME NEW m \in Node
                 PROVE  clock'[m] <= Cardinality(Sent) + 1
      OBVIOUS
    <3>1. clock[m] <= Cardinality(Sent) + 1
      BY DEF TimesOK
    <3>2. clock'[m] = clock[m] \/ clock'[m] = lTime[q] + 1
      BY <1>3
    <3> QED
      BY <1>2, <3>1, <3>2, SentBound
  <2>2. gossip' \subseteq Sent
    BY <1>1, <1>3 DEF TimesOK
  <2> QED
    BY <1>0, <1>1, <2>1, <2>2 DEF TimesOK, managerVars, callVars, Times
<1>6. HandlersOK' /\ UnregisteredOK'
  BY <1>0 DEF HandlersOK, UnregisteredOK, managerVars, callVars, Times
<1>7. AnswersOK' /\ gossip \subseteq gossip'
  BY <1>0, handleQueryAnswers DEF callVars
<1>8. ResponsesOnce'
  BY <1>0, <1>7 DEF ResponsesOnce, callVars
<1> QED
  BY <1>4, <1>5, <1>6, <1>7, <1>8

\* What only takes answers from pending, adds answers of selected nodes to net,
\* or loses some, leaves the calls as they are.
LEMMA AnswerFrame ==
  ASSUME IInv, UNCHANGED <<clock, buffers, gossip, managerVars, callVars>>,
         pending' \in [Node -> [Query -> 0 .. NumScripts + 1]],
         net' \in [Response -> Nat],
         AnswersOK'
  PROVE  IInv'
<1> USE DEF IInv, managerVars, callVars
<1>1. TypeOK' /\ HandlersOK' /\ UnregisteredOK' /\ ResponsesOnce'
  BY DEF TypeOK, HandlersOK, UnregisteredOK, ResponsesOnce, Times
<1>2. TimesOK'
  BY DEF TimesOK, Sent, Times
<1> QED
  BY <1>1, <1>2

\* A handler of a node answers, with the relays, or does not.
LEMMA AnswerStep ==
  ASSUME IInv, NEW n \in Node, NEW q \in Query, Answer(n, q) \/ NoAnswer(n, q)
  PROVE  IInv'
<1> USE DEF IInv
<1>1. pending[n][q] > 0 /\ pending' = [pending EXCEPT ![n][q] = @ - 1]
  BY DEF Answer, NoAnswer
<1>2. /\ pending' \in [Node -> [Query -> 0 .. NumScripts + 1]]
      /\ \A m \in Node, p \in Query : pending'[m][p] <= pending[m][p]
  <2>1. pending[n][q] - 1 \in 0 .. NumScripts + 1
    BY <1>1, Numbers DEF TypeOK
  <2>2. pending' \in [Node -> [Query -> 0 .. NumScripts + 1]]
    BY <1>1, <2>1 DEF TypeOK
  <2> QED
    BY <1>1, <2>2, QueryAssumption DEF TypeOK
<1>3. n \in selected[q] /\ q \in gossip
  BY <1>1 DEF AnswersOK
<1>4. /\ net' \in [Response -> Nat]
      /\ \A r \in Response : net'[r] = net[r] \/ r = [q |-> q, From |-> n]
  <2>1. [q |-> q, From |-> n] \in Response
    BY DEF Response
  <2> QED
    <3>1. CASE net' = net
      BY <3>1 DEF TypeOK
    <3>2. CASE net' = [net EXCEPT ![[q |-> q, From |-> n]] = @ + 1 + NumRelays]
      <4>1. net[[q |-> q, From |-> n]] + 1 + NumRelays \in Nat
        BY <2>1, Numbers DEF TypeOK
      <4> QED
        BY <2>1, <3>2, <4>1 DEF TypeOK
    <3> QED
      BY <3>1, <3>2 DEF Answer, NoAnswer
<1>5. UNCHANGED <<clock, buffers, gossip, managerVars, callVars>>
  BY DEF Answer, NoAnswer
<1>6. AnswersOK'
  <2>1. \A m \in Node, p \in Query : pending'[m][p] > 0 => pending[m][p] > 0
    BY <1>2, QueryAssumption DEF TypeOK
  <2> QED
    BY <1>3, <1>4, <1>5, <2>1 DEF AnswersOK, callVars
<1> QED
  BY <1>2, <1>4, <1>5, <1>6, AnswerFrame

\* A response is lost.
LEMMA LoseStep == ASSUME IInv, NEW r \in Response, Lose(r)  PROVE IInv'
<1> USE DEF IInv
<1>1. /\ net' \in [Response -> Nat]
      /\ \A s \in Response : net'[s] > 0 => net[s] > 0
  BY DEF Lose, TypeOK
<1>2. AnswersOK'
  BY <1>1 DEF AnswersOK, Lose, nodeVars, callVars
<1> QED
  BY <1>1, <1>2, AnswerFrame DEF Lose, nodeVars, TypeOK

\* A response comes: it is handed to the caller of its handler, or dropped.
LEMMA ResponseStep == ASSUME IInv, NEW r \in Response, invokeResponseHandler(r)  PROVE IInv'
<1> USE DEF IInv
<1>1. /\ net[r] > 0 /\ net' = [net EXCEPT ![r] = @ - 1]
      /\ UNCHANGED <<nodeVars, timer, panicked, closed, lTime, selected, numNode, before>>
  BY DEF invokeResponseHandler
<1>2. r.q \in Query /\ r.From \in Node /\ r.q \in gossip /\ r.From \in selected[r.q]
  BY <1>1 DEF AnswersOK, Response
<1> DEFINE t == lTime[r.q]
<1>3. t \in Times
  BY <1>2 DEF TimesOK, Sent
<1>4. /\ net' \in [Response -> Nat]
      /\ \A s \in Response : net'[s] > 0 => net[s] > 0
  BY <1>1 DEF TypeOK
<1>5. AnswersOK'
  BY <1>1, <1>4 DEF AnswersOK, nodeVars
<1>6. CASE UNCHANGED <<handlers, got, pc>>
  BY <1>1, <1>4, <1>5, <1>6, AnswerFrame DEF nodeVars, managerVars, callVars, TypeOK
<1>7. ASSUME NEW h \in handlers[t], h.q = r.q, r.From \notin h.received,
             handlers' = [handlers EXCEPT ![t] = {[q |-> h.q, received |-> h.received \cup {r.From}]}],
             \/ UNCHANGED <<got, pc>>
             \/ /\ pc[h.q] = "reading" /\ ~Reached(h.q)
                /\ got' = [got EXCEPT ![h.q] = Append(@, r.From)]
                /\ UNCHANGED pc
             \/ /\ pc[h.q] = "reading" /\ Goto(h.q, "done")
                /\ UNCHANGED got
      PROVE  IInv'
  <2> DEFINE q == r.q
  <2>1. q \in Query /\ h \in [q : Query, received : SUBSET Node]
    BY <1>2, <1>3 DEF TypeOK
  <2>2. handlers' = [handlers EXCEPT ![t] = {[q |-> q, received |-> h.received \cup {r.From}]}]
    BY <1>7
  <2>3. got' = got \/ got' = [got EXCEPT ![q] = Append(got[q], r.From)]
    BY <1>7
  <2>4. got[q] \in Seq(Node) /\ Append(got[q], r.From) \in Seq(Node)
    BY <1>2, <2>1 DEF TypeOK
  <2>5. /\ pc' \in [Query -> {"idle", "read", "armed", "registered", "reading", "done", "stuck"}]
        /\ pc' = pc \/ (pc[q] = "reading" /\ pc' = [pc EXCEPT ![q] = "done"])
    BY <1>7, <2>1 DEF TypeOK, Goto
  <2>6. TypeOK'
    <3>1. handlers' \in [Times -> SUBSET [q : Query, received : SUBSET Node]]
      <4>1. [q |-> q, received |-> h.received \cup {r.From}] \in [q : Query, received : SUBSET Node]
        BY <1>2, <2>1
      <4> QED
        BY <1>3, <2>2, <4>1 DEF TypeOK
    <3>2. \A u \in Times : \A f, g \in handlers'[u] : f = g
      BY <1>3, <2>2 DEF TypeOK
    <3>3. got' \in [Query -> Seq(Node)]
      <4>1. CASE got' = [got EXCEPT ![q] = Append(got[q], r.From)]
        BY <2>1, <2>4, <4>1 DEF TypeOK
      <4> QED
        BY <2>3, <4>1 DEF TypeOK
    <3> QED
      BY <1>1, <1>4, <2>5, <3>1, <3>2, <3>3 DEF TypeOK, nodeVars, Times
  <2>7. TimesOK'
    <3>1. Sent' = Sent
      BY <2>5 DEF Sent, TypeOK
    <3>2. \A p \in Query : \A l \in {"idle", "stuck", "read"} : pc'[p] = l <=> pc[p] = l
      BY <2>5 DEF TypeOK
    <3> QED
      BY <1>1, <3>1, <3>2 DEF TimesOK, nodeVars, Times
  <2>8. HandlersOK'
    <3> SUFFICES ASSUME NEW u \in Times, NEW g \in handlers'[u]
                 PROVE  /\ lTime[g.q] = u
                        /\ pc'[g.q] \in {"registered", "reading", "done"}
                        /\ g.q \notin closed
                        /\ \A i \in DOMAIN got'[g.q] : got'[g.q][i] \in g.received
      BY <1>1 DEF HandlersOK, Times
    <3>1. CASE u = t
      <4>1. g = [q |-> q, received |-> h.received \cup {r.From}]
        BY <1>3, <2>2, <3>1 DEF TypeOK
      <4>2. /\ lTime[q] = t /\ pc[q] \in {"registered", "reading", "done"} /\ q \notin closed
            /\ \A i \in DOMAIN got[q] : got[q][i] \in h.received
        BY <1>3, <1>7 DEF HandlersOK
      <4>3. \A i \in DOMAIN got'[q] : got'[q][i] \in h.received \cup {r.From}
        <5>1. CASE got' = got
          BY <4>2, <5>1
        <5>2. CASE got' = [got EXCEPT ![q] = Append(got[q], r.From)]
          <6>1. got'[q] = Append(got[q], r.From)
            BY <2>1, <5>2 DEF TypeOK
          <6> QED
            BY <2>4, <4>2, <6>1
        <5> QED
          BY <2>3, <5>1, <5>2
      <4> QED
        BY <2>1, <2>5, <3>1, <4>1, <4>2, <4>3 DEF TypeOK
    <3>2. CASE u # t
      <4>1. g \in handlers[u]
        BY <2>2, <3>2 DEF TypeOK
      <4>2. g.q # q /\ g.q \in Query
        BY <3>2, <4>1 DEF HandlersOK, TypeOK
      <4>3. got'[g.q] = got[g.q] /\ pc'[g.q] = pc[g.q]
        BY <2>3, <2>5, <4>2 DEF TypeOK
      <4> QED
        BY <4>1, <4>3 DEF HandlersOK
    <3> QED
      BY <3>1, <3>2
  <2>9. UnregisteredOK'
    <3>1. pc[q] \in {"registered", "reading", "done"}
      BY <1>3, <1>7 DEF HandlersOK
    <3> QED
      <4> SUFFICES ASSUME NEW p \in Query, pc'[p] \in {"idle", "stuck", "read", "armed"}
                   PROVE  got'[p] = <<>> /\ p \notin closed
        BY <1>1 DEF UnregisteredOK
      <4>1. p # q /\ pc'[p] = pc[p]
        BY <2>1, <2>5, <3>1 DEF TypeOK
      <4>2. got'[p] = got[p]
        BY <2>3, <4>1 DEF TypeOK
      <4> QED
        BY <4>1, <4>2 DEF UnregisteredOK
  <2>10. ResponsesOnce'
    <3> SUFFICES ASSUME got' = [got EXCEPT ![q] = Append(got[q], r.From)], ~Reached(q)
                 PROVE  ResponsesOnce'
      <4>1. CASE got' = got
        BY <1>1, <4>1 DEF ResponsesOnce, nodeVars
      <4> QED
        BY <1>7, <4>1
    <3>1. ASSUME NEW p \in Query \ {q}
          PROVE  got'[p] = got[p]
      BY DEF TypeOK
    <3>2. got'[q] = Append(got[q], r.From)
      BY <2>1 DEF TypeOK
    <3>3. \A i \in DOMAIN got[q] : got[q][i] # r.From
      <4>1. \A i \in DOMAIN got[h.q] : got[h.q][i] \in h.received
        BY <1>3, <1>7 DEF HandlersOK
      <4> QED
        BY <1>7, <4>1
    <3>4. ASSUME NEW i \in DOMAIN got'[q], NEW j \in DOMAIN got'[q], i # j
          PROVE  got'[q][i] # got'[q][j]
      BY <2>1, <2>4, <3>2, <3>3, <3>4 DEF ResponsesOnce
    <3>5. \A i \in DOMAIN got'[q] : got'[q][i] \in selected[q] /\ q \in gossip
      BY <1>2, <2>1, <2>4, <3>2 DEF ResponsesOnce
    <3>6. q \in Reach => Len(got'[q]) <= numNode[q]
      <4>1. Len(got'[q]) = Len(got[q]) + 1 /\ Len(got[q]) \in Nat /\ numNode[q] \in Nat
        BY <2>1, <2>4, <3>2 DEF TypeOK
      <4>2. q \in Reach => Len(got[q]) # numNode[q]
        BY DEF Reached
      <4>3. q \in Reach => Len(got[q]) <= numNode[q]
        <5>1. CASE got[q] = <<>>
          BY <5>1, <4>1
        <5>2. CASE got[q] # <<>>
          <6>1. 1 \in DOMAIN got[q]
            BY <2>4, <5>2
          <6> QED
            BY <2>1, <6>1 DEF ResponsesOnce
        <5> QED
          BY <5>1, <5>2
      <4> QED
        BY <4>1, <4>2, <4>3
    <3> QED
      BY <1>1, <3>1, <3>4, <3>5, <3>6 DEF ResponsesOnce, nodeVars
  <2> QED
    BY <1>5, <2>6, <2>7, <2>8, <2>9, <2>10
<1> QED
  BY <1>6, <1>7 DEF invokeResponseHandler

-----------------------------------------------------------------------------
(* The theorems. *)

\* Every step keeps the inductive invariant.
LEMMA IInvStep == IInv /\ [Next]_vars => IInv'
<1> SUFFICES ASSUME IInv, [Next]_vars
             PROVE  IInv'
  OBVIOUS
<1>1. ASSUME NEW q \in Query, Caller(q)
      PROVE  IInv'
  BY <1>1, RejectPayloadStep, ReadTimeStep, ArmTimerStep, SetHandlerStep, SendQueryStep, TimerFiresStep, CallReturnsStep
     DEF Caller
<1>2. ASSUME NEW n \in Node, NEW q \in Query, Gossip(n, q) \/ Answer(n, q) \/ NoAnswer(n, q)
      PROVE  IInv'
  BY <1>2, GossipStep, AnswerStep
<1>3. ASSUME NEW r \in Response, invokeResponseHandler(r) \/ Lose(r)
      PROVE  IInv'
  BY <1>3, ResponseStep, LoseStep
<1>4. CASE UNCHANGED vars
  BY <1>4 DEF vars, IInv, TypeOK, TimesOK, Sent, HandlersOK, UnregisteredOK, AnswersOK,
              ResponsesOnce, Times
<1> QED
  BY <1>1, <1>2, <1>3, <1>4 DEF Next

\* It holds initially.
LEMMA IInvInit == Init => IInv
<1> SUFFICES ASSUME Init PROVE IInv
  OBVIOUS
<1> USE DEF Init
<1>1. 1 \in Times /\ 0 \in 0 .. NumScripts + 1
  <2>1. Cardinality(Query) \in Nat
    BY FS_CardinalityType, QueryAssumption
  <2> QED
    BY <2>1, Numbers DEF Times
<1>2. TypeOK
  <2>1. selected \in [Query -> SUBSET Node] /\ numNode \in [Query -> Nat]
    BY QueryAssumption, Numbers
  <2>2. pending \in [Node -> [Query -> 0 .. NumScripts + 1]]
    BY <1>1
  <2>3. clock \in [Node -> Times] /\ got \in [Query -> Seq(Node)] /\ net \in [Response -> Nat]
    BY <1>1
  <2>4. /\ handlers \in [Times -> SUBSET [q : Query, received : SUBSET Node]]
        /\ \A t \in Times : \A g, h \in handlers[t] : g = h
    OBVIOUS
  <2> QED
    BY <2>1, <2>2, <2>3, <2>4 DEF TypeOK
<1>3. TimesOK
  <2>1. Sent = {} /\ Cardinality(Sent) = 0
    BY FS_EmptySet DEF Sent
  <2> QED
    BY <2>1 DEF TimesOK
<1>4. HandlersOK /\ UnregisteredOK /\ AnswersOK /\ ResponsesOnce
  BY QueryAssumption DEF HandlersOK, UnregisteredOK, AnswersOK, ResponsesOnce
<1> QED
  BY <1>2, <1>3, <1>4 DEF IInv

\* The inductive invariant holds.
LEMMA IInvariant == Spec => []IInv
BY IInvInit, IInvStep, PTL DEF Spec

\* However many copies of a response come, directly and by relays, and however
\* many callers query at the same time, a caller gets it once, and from selected
\* nodes only (query.go:102-127, net_handlers.go:76-81).
THEOREM EachResponseOnce == Spec => []ResponsesOnce
BY IInvariant, PTL DEF IInv

\* No response is sent on a channel that a timer has closed (query.go:88-127).
THEOREM NeverSendsOnClosed == Spec => NoSendOnClosed
<1> DEFINE Silent == \A q \in closed : got'[q] = got[q]
<1>1. ASSUME IInv, Next
      PROVE  Silent
  <2> USE <1>1 DEF IInv
  <2>1. SUFFICES ASSUME NEW q \in closed, got'[q] # got[q]
                 PROVE  FALSE
    OBVIOUS
  <2>2. q \in Query
    BY DEF TypeOK
  <2>3. PICK r \in Response : invokeResponseHandler(r)
    BY <1>1, <2>1 DEF Next, Caller, RejectPayload, ReadTime, ArmTimer, SetHandler, SendQuery, TimerFires,
                      CallReturns, Gossip, Answer, NoAnswer, Lose, callVars
  <2>4. net[r] > 0
    BY <2>3 DEF invokeResponseHandler
  <2>5. lTime[r.q] \in Times
    BY <2>4 DEF AnswersOK, TimesOK, Sent, Response
  <2>6. PICK h \in handlers[lTime[r.q]] : got' = [got EXCEPT ![h.q] = Append(@, r.From)]
    BY <2>1, <2>3 DEF invokeResponseHandler
  <2>7. h.q = q
    BY <2>1, <2>2, <2>6 DEF TypeOK
  <2> QED
    BY <2>5, <2>7 DEF HandlersOK
<1>2. IInv /\ [Next]_vars => [Silent]_vars
  BY <1>1
<1> QED
  BY <1>2, IInvariant, PTL DEF Spec, NoSendOnClosed

-----------------------------------------------------------------------------
(* The handler of a call that no other overlaps. *)

\* What was broadcast before a query read its time has an earlier one, since the
\* clock of the origin passes the time of what is broadcast.
TimesApart ==
    /\ \A p \in gossip : lTime[p] < clock[Origin]
    /\ \A q \in Query : \A p \in before[q] : p \in gossip /\ lTime[p] < lTime[q]

\* A query has read its time when it may have a timer; a timer that was armed for
\* it is there once it is registered.
Reading(q) == pc[q] \notin {"idle", "stuck"}
TimerOK == \A q \in Query : pc[q] \in {"armed", "registered", "reading", "done"} => timer[q] # "none"

OwnInv == TimesApart /\ TimerOK /\ QueryInv

\* The calls of two queries that have the same time overlap.
LEMMA SameTimeIsRival ==
  ASSUME IInv, TimesApart, NEW p \in Query, NEW q \in Query, p # q, Reading(p), lTime[p] = lTime[q]
  PROVE  p \in Rivals(q)
<1>1. lTime[p] \in Nat /\ lTime[q] \in Nat
  BY DEF IInv, TypeOK, Times
<1> QED
  BY <1>1 DEF TimesApart, Rivals, Reading

\* A call that overlaps another goes on doing so.
LEMMA RivalsGrow ==
  ASSUME IInv, NEW q \in Query, Reading(q), before'[q] = before[q],
         \A p \in Query : Reading(p) => Reading(p)' /\ before'[p] = before[p]
  PROVE  Rivals(q) \subseteq Rivals(q)'
BY DEF Rivals, Reading

\* What every step does to a query that has read its time.
LEMMA CallsGoOn ==
  ASSUME IInv, Next
  PROVE  \A p \in Query : Reading(p) => Reading(p)' /\ before'[p] = before[p] /\ lTime'[p] = lTime[p]
<1> SUFFICES ASSUME NEW p \in Query, Reading(p)
             PROVE  Reading(p)' /\ before'[p] = before[p] /\ lTime'[p] = lTime[p]
  OBVIOUS
<1> USE DEF IInv, TypeOK
<1>1. ASSUME NEW q \in Query, RejectPayload(q) \/ ReadTime(q)
      PROVE  Reading(p)' /\ before'[p] = before[p] /\ lTime'[p] = lTime[p]
  <2>1. p # q
    BY <1>1 DEF RejectPayload, ReadTime, Reading
  <2> QED
    BY <1>1, <2>1 DEF RejectPayload, ReadTime, Reading, Goto
<1>2. ASSUME NEW q \in Query, ArmTimer(q) \/ SetHandler(q) \/ SendQuery(q) \/ CallReturns(q)
      PROVE  Reading(p)' /\ before'[p] = before[p] /\ lTime'[p] = lTime[p]
  BY <1>2 DEF ArmTimer, SetHandler, SendQuery, CallReturns, Reading, Goto
<1>3. ASSUME UNCHANGED callVars
      PROVE  Reading(p)' /\ before'[p] = before[p] /\ lTime'[p] = lTime[p]
  BY <1>3 DEF callVars, Reading
<1>4. ASSUME NEW r \in Response, invokeResponseHandler(r)
      PROVE  Reading(p)' /\ before'[p] = before[p] /\ lTime'[p] = lTime[p]
  BY <1>4 DEF invokeResponseHandler, Reading, Goto
<1> QED
  BY <1>1, <1>2, <1>3, <1>4 DEF Next, Caller, TimerFires, Gossip, Answer, NoAnswer, Lose

\* The clock passes what is broadcast before anyone reads it.
LEMMA TimesApartStep ==
  ASSUME IInv, TimesApart, Next
  PROVE  TimesApart'
<1> USE DEF IInv
<1>0. /\ \A n \in Node : clock[n] \in Nat /\ clock'[n] \in Nat
      /\ \A q \in Query : lTime[q] \in Nat /\ lTime'[q] \in Nat
      /\ Origin \in Node /\ gossip \subseteq Query
      /\ \A q \in gossip : Reading(q)
  <2>1. TypeOK /\ TypeOK'
    BY IInvStep DEF IInv
  <2>2. /\ \A n \in Node : clock[n] \in Times /\ clock'[n] \in Times
        /\ \A q \in Query : lTime[q] \in Times \cup {0} /\ lTime'[q] \in Times \cup {0}
    BY <2>1 DEF TypeOK, Times
  <2>3. gossip \subseteq Query /\ \A q \in gossip : Reading(q)
    BY DEF TypeOK, TimesOK, Sent, Reading
  <2> QED
    BY <2>2, <2>3, QueryAssumption DEF Times
<1>1. ASSUME NEW n \in Node, NEW q \in Query, handleQuery(n, q), q \in gossip \/ n = Origin,
             UNCHANGED <<lTime, before>>
      PROVE  TimesApart'
  <2>1. /\ clock'[Origin] >= clock[Origin]
        /\ n = Origin => clock'[Origin] > lTime[q]
        /\ gossip' \in {gossip, gossip \cup {q}}
    BY <1>0, <1>1 DEF handleQuery, TypeOK
  <2>2. \A p \in gossip' : lTime[p] < clock'[Origin]
    <3> SUFFICES ASSUME NEW p \in gossip'
                 PROVE  lTime[p] < clock'[Origin]
      OBVIOUS
    <3>1. CASE p \in gossip
      <4>1. lTime[p] < clock[Origin]
        BY <3>1 DEF TimesApart
      <4> QED
        BY <1>0, <2>1, <3>1, <4>1
    <3>2. CASE p \notin gossip
      BY <1>1, <2>1, <3>2
    <3> QED
      BY <3>1, <3>2
  <2> QED
    BY <1>1, <2>1, <2>2 DEF TimesApart
<1>2. ASSUME UNCHANGED <<clock, gossip, lTime, before>>
      PROVE  TimesApart'
  BY <1>2 DEF TimesApart
<1>3. ASSUME NEW q \in Query, ReadTime(q)
      PROVE  TimesApart'
  <2>1. /\ lTime' = [lTime EXCEPT ![q] = clock[Origin]] /\ before' = [before EXCEPT ![q] = gossip]
        /\ UNCHANGED <<clock, gossip>> /\ pc[q] = "idle"
    BY <1>3 DEF ReadTime, nodeVars
  <2>2. q \notin gossip /\ \A p \in Query \ {q} : lTime'[p] = lTime[p] /\ before'[p] = before[p]
    BY <1>0, <2>1 DEF Reading, TypeOK
  <2>3. lTime'[q] = clock[Origin] /\ before'[q] = gossip
    BY <2>1 DEF TypeOK
  <2> QED
    BY <1>0, <2>1, <2>2, <2>3 DEF TimesApart
<1>4. ASSUME NEW q \in Query, SendQuery(q)
      PROVE  TimesApart'
  BY <1>0, <1>1, <1>2, <1>4 DEF SendQuery, nodeVars
<1>5. ASSUME NEW n \in Node, NEW q \in Query, Gossip(n, q)
      PROVE  TimesApart'
  BY <1>1, <1>5 DEF Gossip, callVars
<1> QED
  BY <1>2, <1>3, <1>4, <1>5
     DEF Next, Caller, RejectPayload, ArmTimer, SetHandler, TimerFires, CallReturns, Answer, NoAnswer,
         invokeResponseHandler, Lose, nodeVars, callVars

\* A timer stays.
LEMMA TimerStep ==
  ASSUME IInv, TimerOK, Next
  PROVE  TimerOK'
<1> USE DEF IInv, TypeOK
<1> SUFFICES ASSUME NEW p \in Query, pc'[p] \in {"armed", "registered", "reading", "done"}
             PROVE  timer'[p] # "none"
  BY DEF TimerOK
<1>1. ASSUME NEW q \in Query, ArmTimer(q)
      PROVE  timer'[p] # "none"
  <2>1. CASE p = q
    BY <1>1, <2>1 DEF ArmTimer
  <2>2. CASE p # q
    BY <1>1, <2>2 DEF ArmTimer, Goto, TimerOK
  <2> QED
    BY <2>1, <2>2
<1>2. ASSUME NEW q \in Query, RejectPayload(q) \/ ReadTime(q) \/ SetHandler(q) \/ SendQuery(q) \/ CallReturns(q)
      PROVE  timer'[p] # "none"
  BY <1>2 DEF RejectPayload, ReadTime, SetHandler, SendQuery, CallReturns, Goto, managerVars, TimerOK
<1>3. ASSUME NEW q \in Query, TimerFires(q)
      PROVE  timer'[p] # "none"
  BY <1>3 DEF TimerFires, callVars, TimerOK
<1>4. ASSUME NEW r \in Response, invokeResponseHandler(r)
      PROVE  timer'[p] # "none"
  BY <1>4 DEF invokeResponseHandler, Goto, TimerOK
<1>5. ASSUME UNCHANGED <<managerVars, callVars>>
      PROVE  timer'[p] # "none"
  BY <1>5 DEF managerVars, callVars, TimerOK
<1> QED
  BY <1>1, <1>2, <1>3, <1>4, <1>5 DEF Next, Caller, Gossip, Answer, NoAnswer, Lose, managerVars, callVars

\* The handler of a query that no call overlaps is replaced and removed by its own
\* call and its own timer only.
LEMMA HandlerIsOwnStep ==
  ASSUME IInv, OwnInv, Next
  PROVE  HandlerIsOwn'
<1> USE DEF IInv
<1> SUFFICES ASSUME NEW p \in Query, pc'[p] \in {"registered", "reading", "done"},
                    timer'[p] = "armed", Rivals(p)' = {}
             PROVE  \E h \in handlers'[lTime'[p]] : h.q = p
  BY DEF HandlerIsOwn
<1>0. TypeOK /\ TimesApart /\ HandlerIsOwn
  BY DEF OwnInv, QueryInv
<1>1. ASSUME NEW q \in Query, SetHandler(q)
      PROVE  \E h \in handlers'[lTime'[p]] : h.q = p
  <2>1. /\ handlers' = [handlers EXCEPT ![lTime[q]] = {[q |-> q, received |-> {}]}]
        /\ pc[q] = "armed" /\ UNCHANGED <<lTime, timer>>
        /\ \A r \in Query \ {q} : pc'[r] = pc[r]
    BY <1>0, <1>1 DEF SetHandler, Goto, TypeOK
  <2>2. lTime[q] \in Times
    BY <2>1 DEF TimesOK
  <2>3. CASE p = q
    BY <1>0, <2>1, <2>2, <2>3 DEF TypeOK
  <2>4. CASE p # q
    <3>1. Reading(p) /\ Reading(q) /\ pc[p] \in {"registered", "reading", "done"}
      BY <2>1, <2>4 DEF Reading
    <3>2. Rivals(p) = {}
      BY <3>1, CallsGoOn, RivalsGrow
    <3>3. lTime[q] # lTime[p]
      BY <1>0, <2>4, <3>1, <3>2, SameTimeIsRival
    <3>4. lTime[p] \in Times
      BY <3>1 DEF TimesOK
    <3>5. handlers'[lTime'[p]] = handlers[lTime[p]]
      BY <1>0, <2>1, <3>3, <3>4 DEF TypeOK
    <3>6. \E h \in handlers[lTime[p]] : h.q = p
      BY <1>0, <2>1, <3>1, <3>2 DEF HandlerIsOwn
    <3> QED
      BY <3>5, <3>6
  <2> QED
    BY <2>3, <2>4
<1>2. ASSUME NEW q \in Query, TimerFires(q)
      PROVE  \E h \in handlers'[lTime'[p]] : h.q = p
  <2>1. /\ timer[q] = "armed" /\ timer' = [timer EXCEPT ![q] = "fired"]
        /\ handlers' = [handlers EXCEPT ![lTime[q]] = {}]
        /\ UNCHANGED callVars
    BY <1>2 DEF TimerFires
  <2>2. p # q /\ timer[p] = "armed" /\ Reading(p) /\ Reading(q) /\ pc[p] = pc'[p] /\ lTime'[p] = lTime[p]
    BY <1>0, <2>1 DEF TypeOK, TimesOK, Reading, callVars
  <2>3. Rivals(p) = {}
    BY <2>2, CallsGoOn, RivalsGrow
  <2>4. lTime[q] # lTime[p] /\ lTime[p] \in Times
    BY <1>0, <2>2, <2>3, SameTimeIsRival DEF TimesOK, Reading
  <2>5. handlers'[lTime'[p]] = handlers[lTime[p]]
    BY <1>0, <2>1, <2>2, <2>4 DEF TypeOK
  <2> QED
    BY <1>0, <2>2, <2>3, <2>5 DEF HandlerIsOwn
<1>3. ASSUME NEW q \in Query, ArmTimer(q)
      PROVE  \E h \in handlers'[lTime'[p]] : h.q = p
  <2>1. p # q /\ pc'[p] = pc[p] /\ timer'[p] = timer[p] /\ UNCHANGED <<handlers, lTime>>
    BY <1>0, <1>3 DEF ArmTimer, Goto, TypeOK
  <2>2. Rivals(p) = {}
    <3>1. Reading(p)
      BY <2>1 DEF Reading
    <3> QED
      BY <3>1, CallsGoOn, RivalsGrow
  <2> QED
    BY <1>0, <2>1, <2>2 DEF HandlerIsOwn
<1>4. ASSUME UNCHANGED timer, Reading(p), pc[p] \in {"registered", "reading", "done"},
             \A t \in Times : \A g \in handlers[t] : \E h \in handlers'[t] : h.q = g.q
      PROVE  \E h \in handlers'[lTime'[p]] : h.q = p
  <2>1. Rivals(p) = {} /\ lTime'[p] = lTime[p]
    BY <1>4, CallsGoOn, RivalsGrow
  <2>2. lTime[p] \in Times
    BY <1>4 DEF TimesOK
  <2>3. PICK g \in handlers[lTime[p]] : g.q = p
    BY <1>0, <1>4, <2>1 DEF HandlerIsOwn
  <2> QED
    BY <1>4, <2>1, <2>2, <2>3
<1>5. ASSUME NEW q \in Query, RejectPayload(q) \/ ReadTime(q) \/ SendQuery(q) \/ CallReturns(q)
      PROVE  \E h \in handlers'[lTime'[p]] : h.q = p
  <2>1. UNCHANGED <<timer, handlers>> /\ pc[p] \in {"registered", "reading", "done"}
    BY <1>0, <1>5 DEF RejectPayload, ReadTime, SendQuery, CallReturns, managerVars, Goto, TypeOK
  <2> QED
    BY <1>4, <2>1 DEF Reading
<1>6. ASSUME NEW r \in Response, invokeResponseHandler(r)
      PROVE  \E h \in handlers'[lTime'[p]] : h.q = p
  <2>1. UNCHANGED timer /\ pc[p] \in {"registered", "reading", "done"}
    BY <1>0, <1>6 DEF invokeResponseHandler, Goto, TypeOK
  <2>2. \A t \in Times : \A g \in handlers[t] : \E h \in handlers'[t] : h.q = g.q
    <3>1. CASE handlers' = handlers
      BY <3>1
    <3>2. CASE handlers' # handlers
      <4>1. PICK h \in handlers[lTime[r.q]] :
               handlers' = [handlers EXCEPT ![lTime[r.q]] =
                              {[q |-> h.q, received |-> h.received \cup {r.From}]}]
        BY <1>6, <3>2 DEF invokeResponseHandler
      <4> PICK g : g = [q |-> h.q, received |-> h.received \cup {r.From}]
        OBVIOUS
      <4>2. g.q = h.q
        OBVIOUS
      <4>3. \A f \in handlers[lTime[r.q]] : lTime[r.q] \in Times => f = h
        BY <1>0 DEF TypeOK
      <4>4. /\ lTime[r.q] \in Times => handlers'[lTime[r.q]] = {g}
            /\ \A t \in Times \ {lTime[r.q]} : handlers'[t] = handlers[t]
        BY <1>0, <4>1 DEF TypeOK
      <4> QED
        BY <4>2, <4>3, <4>4
    <3> QED
      BY <3>1, <3>2
  <2> QED
    BY <1>4, <2>1, <2>2 DEF Reading
<1>7. ASSUME UNCHANGED <<managerVars, callVars>>
      PROVE  \E h \in handlers'[lTime'[p]] : h.q = p
  BY <1>4, <1>7 DEF managerVars, callVars, Reading
<1> QED
  BY <1>1, <1>2, <1>3, <1>5, <1>6, <1>7 DEF Next, Caller, Gossip, Answer, NoAnswer, Lose, managerVars, callVars

\* A timer that finds no handler is that of a call another one overlaps, or has
\* fired before there was one.
LEMMA PanicStep ==
  ASSUME IInv, OwnInv, Next, panicked'
  PROVE  \E q \in Query : timer'[q] = "fired" /\ (Rivals(q)' # {} \/ pc'[q] = "armed")
<1> USE DEF IInv
<1>0. TypeOK /\ TimerOK /\ HandlerIsOwn /\ ~panicked
  BY DEF OwnInv, QueryInv, Next
<1>1. PICK q \in Query : TimerFires(q)
  BY <1>0 DEF Next, Caller, RejectPayload, ReadTime, ArmTimer, SetHandler, SendQuery, CallReturns,
              Gossip, Answer, NoAnswer, invokeResponseHandler, Lose, managerVars
<1>2. /\ timer[q] = "armed" /\ timer'[q] = "fired" /\ handlers[lTime[q]] = {}
      /\ UNCHANGED <<pc, before>>
  BY <1>0, <1>1 DEF TimerFires, TypeOK, callVars
<1>3. CASE pc[q] \in {"registered", "reading", "done"}
  <2>1. Rivals(q) # {}
    BY <1>0, <1>2, <1>3 DEF HandlerIsOwn
  <2> QED
    BY <1>2, <2>1 DEF Rivals
<1>4. CASE pc[q] \in {"idle", "stuck"}
  BY <1>2, <1>4 DEF TimesOK
<1>5. CASE pc[q] = "read"
  BY <1>2, <1>5 DEF TimesOK
<1>6. CASE pc[q] = "armed"
  BY <1>2, <1>6
<1> QED
  BY <1>0, <1>3, <1>4, <1>5, <1>6 DEF TypeOK

\* For any number of calls at the same time, any timeouts and any queries that are
\* too long: the handler under the time of a query stays its own from the moment
\* it is stored until its timer fires, if no call overlaps it; a timer finds none
\* only if one does, or if it fires before Query has stored it (query.go:87-100).
THEOREM HandlersAreOwn == Spec => []QueryInv
<1>1. Init => OwnInv
  <2>1. Init => QueryInv
    BY IInvInit DEF Init, QueryInv, HandlerIsOwn, IInv
  <2> QED
    BY <2>1 DEF Init, OwnInv, TimesApart, TimerOK
<1>2. IInv /\ OwnInv /\ [Next]_vars => OwnInv'
  <2>1. ASSUME IInv, OwnInv, Next
        PROVE  OwnInv'
    <3>1. TypeOK' /\ HandlerIsOwn' /\ TimesApart' /\ TimerOK'
      BY <2>1, IInvStep, HandlerIsOwnStep, TimesApartStep, TimerStep DEF OwnInv, IInv
    <3>2. panicked' => \E q \in Query : timer'[q] = "fired" /\ (Rivals(q)' # {} \/ pc'[q] = "armed")
      BY <2>1, PanicStep
    <3> QED
      BY <3>1, <3>2 DEF OwnInv, QueryInv
  <2>2. ASSUME OwnInv, UNCHANGED vars
        PROVE  OwnInv'
    <3>1. TypeOK' /\ TimesApart' /\ TimerOK'
      BY <2>2 DEF vars, OwnInv, QueryInv, TypeOK, Times, TimesApart, TimerOK
    <3>2. HandlerIsOwn' /\ (panicked' => \E q \in Query : timer'[q] = "fired" /\ (Rivals(q)' # {} \/ pc'[q] = "armed"))
      BY <2>2 DEF vars, OwnInv, QueryInv, HandlerIsOwn, Rivals
    <3> QED
      BY <3>1, <3>2 DEF OwnInv, QueryInv
  <2> QED
    BY <2>1, <2>2
<1> QED
  BY <1>1, <1>2, IInvariant, PTL DEF Spec, OwnInv
=============================================================================
