---------------------------- MODULE QueryManager ----------------------------
(***************************************************************************)
(* Queries: a caller registers a response handler under the Lamport time   *)
(* of its query, the query is gossiped, every node it selects answers the  *)
(* origin directly and through relays, and a timer ends the query by       *)
(* closing the caller's channel.  Callers, timers, the receiver of         *)
(* responses and the nodes that answer are interleaved.                    *)
(*                                                                         *)
(* Source: query.go, handleQuery, isQueryAccepted, handleQueryResponse and *)
(* handleRelay in net_handlers.go, Query in rpc/server/server.go.  All     *)
(* queries are of one origin.  The 32 random bits of a query ID are taken  *)
(* to be different for different queries.                                  *)
(***************************************************************************)
EXTENDS LamportBuffer, FiniteSets

CONSTANTS Query,        \* the queries, which are also their IDs
          Node, Origin, \* the nodes, and the one that queries
          Selections,   \* the sets of nodes that ForNodes and FilterTags select
          Oversized,    \* queries whose encoding may exceed QuerySizeLimit,
          Overloaded,   \* and those whose payload alone may
          Reach,        \* the queries of ReachQuery
          NumActive,    \* numbers of nodes ReachQuery may find active
          NumScripts,   \* handlers of a node that a query event matches
          NumRelays     \* duplicates of a response that may be under way

ASSUME QueryAssumption ==
          /\ IsFiniteSet(Query)
          /\ Origin \in Node
          /\ Selections \subseteq SUBSET Node
          /\ Oversized \cup Overloaded \subseteq Query \ Reach /\ Reach \subseteq Query
          /\ {NumScripts, NumRelays} \cup NumActive \subseteq Nat
          /\ nil \notin Query

VARIABLES clock,      \* query.clock of each node
          buffers,    \* query.buffers of each node
          handlers,   \* handlers[t]: the query registered under t and the nodes
                      \* received from, {} when there is none
          timer,      \* of each query: "none", "armed" or "fired"
          panicked,   \* a timer found no handler: close of a nil channel
          pc,         \* of each caller: "idle", then the steps of Serf.Query,
                      \* "reading" its channel, "done" or "stuck"
          lTime,      \* the time each caller read
          selected,   \* the nodes each query selects
          numNode,    \* the nodes ReachQuery waits for
          closed,     \* queries whose channel is closed
          got,        \* the responses each caller read, in order
          gossip,     \* queries that are broadcast
          pending,    \* of each node, the handlers that have not yet answered
                      \* a query that the node has accepted
          net,        \* responses under way, with the copies relayed
          before      \* history: the queries broadcast when each read its time

nodeVars == <<clock, buffers, pending, gossip>>
managerVars == <<handlers, timer, panicked, closed>>
callVars == <<pc, lTime, selected, numNode, got, before>>
vars == <<clock, buffers, handlers, timer, panicked, pc, lTime, selected, numNode,
          closed, got, gossip, pending, net, before>>

Times == 1 .. Cardinality(Query) + 1
Item(q) == [LTime |-> lTime[q], ID |-> q, Payload |-> nil]
Response == [q : Query, From : Node]

Init == /\ clock = [n \in Node |-> 1]
        /\ buffers = [n \in Node |-> EmptyBuffer]
        /\ handlers = [t \in Times |-> {}]
        /\ timer = [q \in Query |-> "none"]
        /\ panicked = FALSE
        /\ pc = [q \in Query |-> "idle"]
        /\ lTime = [q \in Query |-> 0]
        /\ \E chosen \in [Query -> Selections] :
              selected = [q \in Query |-> IF q \in Reach THEN Node ELSE chosen[q]]
        /\ numNode \in [Query -> NumActive]
        /\ closed = {}
        /\ got = [q \in Query |-> <<>>]
        /\ gossip = {}
        /\ pending = [n \in Node |-> [q \in Query |-> 0]]
        /\ net = [r \in Response |-> 0]
        /\ before = [q \in Query |-> {}]

Goto(q, label) == pc' = [pc EXCEPT ![q] = label]

-----------------------------------------------------------------------------
(* handleQuery, at any node: the clock, the buffer, the broadcast, the     *)
(* filter, and then the event, or the answer to "reach", which needs no    *)
(* handler.                                                                *)

Answers(q) == IF q \in Reach THEN 1 ELSE NumScripts

\* Mutant: ForNodes and FilterTags are not looked at.
handleQuery_noFilter(n, q) ==
    /\ clock' = [clock EXCEPT ![n] = IF @ > lTime[q] THEN @ ELSE lTime[q] + 1]
    /\ IF Accepts(buffers[n], clock'[n], Item(q))
         THEN /\ buffers' = [buffers EXCEPT ![n] = Added(@, Item(q))]
              /\ gossip' = gossip \cup {q}
              /\ pending' = [pending EXCEPT ![n][q] = Answers(q)]
         ELSE UNCHANGED <<buffers, gossip, pending>>

handleQuery(n, q) ==
    /\ clock' = [clock EXCEPT ![n] = IF @ > lTime[q] THEN @ ELSE lTime[q] + 1]
    /\ IF Accepts(buffers[n], clock'[n], Item(q))
         THEN /\ buffers' = [buffers EXCEPT ![n] = Added(@, Item(q))]
              /\ gossip' = gossip \cup {q}
              /\ pending' = [pending EXCEPT ![n][q] =
                                IF n \in selected[q] THEN Answers(q) ELSE 0]
         ELSE UNCHANGED <<buffers, gossip, pending>>

-----------------------------------------------------------------------------
(* Serf.Query, step by step. *)

\* The payload alone is too long: Query returns an error, which the RPC server
\* ignores; it reads a channel that nobody closes.
RejectPayload(q) ==
    /\ pc[q] = "idle"
    /\ q \in Overloaded
    /\ Goto(q, "stuck")
    /\ UNCHANGED <<nodeVars, managerVars, lTime, selected, numNode, got, net, before>>

\* The time is read; it is witnessed only in handleQuery.
ReadTime(q) ==
    /\ pc[q] = "idle"
    /\ lTime' = [lTime EXCEPT ![q] = clock[Origin]]
    /\ before' = [before EXCEPT ![q] = gossip]
    /\ Goto(q, "read")
    /\ UNCHANGED <<nodeVars, managerVars, selected, numNode, got, net>>

\* Mutant: no timer is armed for the handler.
ArmTimer_none(q) ==
    /\ pc[q] = "read"
    /\ Goto(q, "armed")
    /\ UNCHANGED <<nodeVars, managerVars, lTime, selected, numNode, got, net, before>>

\* setResponseHandler: first the timer, ...
ArmTimer(q) ==
    /\ pc[q] = "read"
    /\ timer' = [timer EXCEPT ![q] = "armed"]
    /\ Goto(q, "armed")
    /\ UNCHANGED <<nodeVars, handlers, panicked, closed, lTime, selected, numNode, got, net, before>>

\* ... then the handler, in place of any other of that time.
SetHandler(q) ==
    /\ pc[q] = "armed"
    /\ handlers' = [handlers EXCEPT ![lTime[q]] = {[q |-> q, received |-> {}]}]
    /\ Goto(q, "registered")
    /\ UNCHANGED <<nodeVars, timer, panicked, closed, lTime, selected, numNode, got, net, before>>

\* Mutant: nobody witnesses the time of the query that is sent.
SendQuery_noWitness(q) ==
    /\ pc[q] = "registered"
    /\ gossip' = gossip \cup {q}
    /\ pending' = [pending EXCEPT ![Origin][q] = IF Origin \in selected[q] THEN Answers(q) ELSE 0]
    /\ Goto(q, "reading")
    /\ UNCHANGED <<clock, buffers, managerVars, lTime, selected, numNode, got, net, before>>

\* The query is handled here like anywhere else, or too long once encoded.  In
\* both cases the RPC server goes on to read the channel.
SendQuery(q) ==
    /\ pc[q] = "registered"
    /\ handleQuery(Origin, q) \/ (q \in Oversized /\ UNCHANGED nodeVars)
    /\ Goto(q, "reading")
    /\ UNCHANGED <<managerVars, lTime, selected, numNode, got, net, before>>

\* Mutant: the handler stays when its timer fires.
TimerFires_keepHandler(q) ==
    /\ timer[q] = "armed"
    /\ timer' = [timer EXCEPT ![q] = "fired"]
    /\ panicked' = (handlers[lTime[q]] = {} \/ panicked)
    /\ closed' = closed \cup {h.q : h \in handlers[lTime[q]]}
    /\ UNCHANGED <<nodeVars, handlers, callVars, net>>

\* The function of AfterFunc closes whatever is registered under the time of
\* the query.  The caller chooses the timeout: it may end before Query does.
TimerFires(q) ==
    /\ timer[q] = "armed"
    /\ timer' = [timer EXCEPT ![q] = "fired"]
    /\ panicked' = (handlers[lTime[q]] = {} \/ panicked)
    /\ closed' = closed \cup {h.q : h \in handlers[lTime[q]]}
    /\ handlers' = [handlers EXCEPT ![lTime[q]] = {}]
    /\ UNCHANGED <<nodeVars, callVars, net>>

\* The loop over the channel ends when it is closed.
CallReturns(q) ==
    /\ pc[q] = "reading"
    /\ q \in closed
    /\ Goto(q, "done")
    /\ UNCHANGED <<nodeVars, managerVars, lTime, selected, numNode, got, net, before>>

-----------------------------------------------------------------------------
(* The other nodes, and the responses. *)

\* A gossip carries q to n, for the first time or once more.
Gossip(n, q) ==
    /\ q \in gossip
    /\ handleQuery(n, q)
    /\ UNCHANGED <<managerVars, callVars, net>>

\* respondToQueryEvent: the response goes to the origin and to the relays.
Answer(n, q) ==
    /\ pending[n][q] > 0
    /\ pending' = [pending EXCEPT ![n][q] = @ - 1]
    /\ net' = [net EXCEPT ![[q |-> q, From |-> n]] = @ + 1 + NumRelays]
    /\ UNCHANGED <<clock, buffers, gossip, managerVars, callVars>>

\* invokeEventScript answers only if the script starts, ends without an error
\* and prints something, before the deadline of the query.
NoAnswer(n, q) ==
    /\ pending[n][q] > 0
    /\ pending' = [pending EXCEPT ![n][q] = @ - 1]
    /\ UNCHANGED <<clock, buffers, gossip, managerVars, callVars, net>>

\* collectReachResponse has counted as many nodes as were active.
Reached(q) == q \in Reach /\ Len(got[q]) = numNode[q]

\* Mutant: a response that comes a second time, by a relay, is handed on.
invokeResponseHandler_noReceived(r) ==
    /\ net[r] > 0
    /\ net' = [net EXCEPT ![r] = @ - 1]
    /\ \E h \in handlers[lTime[r.q]] :
          /\ h.q = r.q
          /\ got' = [got EXCEPT ![h.q] = Append(@, r.From)]
    /\ UNCHANGED <<nodeVars, managerVars, pc, lTime, selected, numNode, before>>

\* invokeResponseHandler: a response of the query registered, the first from
\* that node, is handed to the caller, or dropped if it does not take it in
\* time.  Either way the node counts as received.  collectReachResponse takes one
\* response more than it waits for, drops it and returns.
invokeResponseHandler(r) ==
    /\ net[r] > 0
    /\ net' = [net EXCEPT ![r] = @ - 1]
    /\ LET current == {h \in handlers[lTime[r.q]] : h.q = r.q /\ r.From \notin h.received}
       IN  IF current = {}
             THEN UNCHANGED <<handlers, got, pc>>
             ELSE \E h \in current :
                    /\ handlers' = [handlers EXCEPT ![lTime[r.q]] =
                                       {[q |-> h.q, received |-> h.received \cup {r.From}]}]
                    /\ \/ UNCHANGED <<got, pc>>
                       \/ /\ pc[h.q] = "reading" /\ ~Reached(h.q)
                          /\ got' = [got EXCEPT ![h.q] = Append(@, r.From)]
                          /\ UNCHANGED pc
                       \/ /\ pc[h.q] = "reading" /\ Reached(h.q)
                          /\ Goto(h.q, "done")
                          /\ UNCHANGED got
    /\ UNCHANGED <<nodeVars, timer, panicked, closed, lTime, selected, numNode, before>>

Lose(r) == /\ net[r] > 0
           /\ net' = [net EXCEPT ![r] = @ - 1]
           /\ UNCHANGED <<nodeVars, managerVars, callVars>>

Caller(q) == RejectPayload(q) \/ ReadTime(q) \/ ArmTimer(q) \/ SetHandler(q) \/ SendQuery(q)
             \/ TimerFires(q) \/ CallReturns(q)

Next == /\ ~panicked
        /\ \/ \E q \in Query : Caller(q)
           \/ \E n \in Node, q \in Query : Gossip(n, q) \/ Answer(n, q) \/ NoAnswer(n, q)
           \/ \E r \in Response : invokeResponseHandler(r) \/ Lose(r)

(***************************************************************************)
(* A call that was made goes on, timers fire, and a reader sees its        *)
(* channel closed.  Nothing is assumed of the network or of other nodes.   *)
(***************************************************************************)
CallGoesOn(q) == ArmTimer(q) \/ SetHandler(q) \/ SendQuery(q) \/ CallReturns(q)

Spec == /\ Init /\ [][Next]_vars
        /\ \A q \in Query : WF_vars(~panicked /\ CallGoesOn(q)) /\ WF_vars(~panicked /\ TimerFires(q))

-----------------------------------------------------------------------------
TypeOK ==
    /\ clock \in [Node -> Times] /\ lTime \in [Query -> Times \cup {0}]
    /\ handlers \in [Times -> SUBSET [q : Query, received : SUBSET Node]]
    /\ \A t \in Times : \A g, h \in handlers[t] : g = h
    /\ timer \in [Query -> {"none", "armed", "fired"}]
    /\ panicked \in BOOLEAN
    /\ pc \in [Query -> {"idle", "read", "armed", "registered", "reading", "done", "stuck"}]
    /\ selected \in [Query -> SUBSET Node] /\ numNode \in [Query -> Nat]
    /\ closed \subseteq Query /\ gossip \subseteq Query
    /\ got \in [Query -> Seq(Node)]
    /\ pending \in [Node -> [Query -> 0 .. NumScripts + 1]]
    /\ net \in [Response -> Nat]
    /\ before \in [Query -> SUBSET Query]

\* A caller gets a node's response once at most, though it is sent directly and
\* relayed, and the query may reach the node again and again (query.go:113-116,
\* net_handlers.go:76); and only from nodes that the query selects, after it was
\* sent (net_handlers.go:81, query.go:110).  ReachQuery counts no more nodes than
\* were active (query.go:302).
ResponsesOnce ==
    \A q \in Query : \A i \in DOMAIN got[q] :
       /\ \A j \in DOMAIN got[q] : i # j => got[q][i] # got[q][j]
       /\ got[q][i] \in selected[q] /\ q \in gossip
       /\ q \in Reach => Len(got[q]) <= numNode[q]

\* Nothing is handed to a caller whose channel is closed (query.go:105): it
\* would be a send on a closed channel.
NoSendOnClosed == [][\A q \in closed : got'[q] = got[q]]_vars

\* The calls that overlap that of q, as far as times go: neither was broadcast when
\* the other read its time.  A query that is rejected overlaps all that follow.
Rivals(q) == {p \in Query \ {q} : /\ pc[p] \notin {"idle", "stuck"}
                                  /\ p \notin before[q] /\ q \notin before[p]}

\* From the moment it is registered until its timer fires, the handler under the
\* time of a query is its own if no call overlaps it, whatever calls overlap each
\* other: none takes its responses or its end away (query.go:95,153).
HandlerIsOwn == \A q \in Query :
                   /\ pc[q] \in {"registered", "reading", "done"}
                   /\ timer[q] = "armed" /\ Rivals(q) = {}
                   => \E h \in handlers[lTime[q]] : h.q = q

\* The types; a query keeps its handler; and a timer that finds no handler to close
\* (query.go:88-93) is that of a call that another overlaps, or has fired before
\* the handler was stored.
QueryInv == /\ TypeOK /\ HandlerIsOwn
            /\ panicked => \E q \in Query : /\ timer[q] = "fired"
                                           /\ (Rivals(q) # {} \/ pc[q] = "armed")

\* Every call of Query whose payload is not too long returns to its client, or a
\* timer that finds no handler ends the process: calls that overlap may take each
\* other's end, but there is one for each (query.go:88-100, rpc/server/server.go:221).
CallsReturn == \A q \in Query : pc[q] \notin {"idle", "stuck"} ~> (pc[q] = "done" \/ panicked)
=============================================================================
