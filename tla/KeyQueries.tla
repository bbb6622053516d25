------------------------------ MODULE KeyQueries ------------------------------
(***************************************************************************)
(* Key rotation: an operator installs, uses and removes encryption keys by *)
(* queries to all nodes; each node changes its keyring, writes it to a     *)
(* file and answers; the origin counts the answers.  Nodes crash, and come *)
(* back with the keys of their file.                                       *)
(*                                                                         *)
(* Source: key_query.go, loadKeyring in rpc/server/config.go; keyrings are *)
(* memberlist's, the operator is a person who reads the counts.  What is   *)
(* assumed of them is said at the operators.  A query travels as in        *)
(* QueryManager: it gets to a node or not, and so does its response.       *)
(***************************************************************************)
EXTENDS Naturals, Sequences, FiniteSets

CONSTANTS Node, Origin,  \* the nodes, and the one that calls KeyQuery
          Key, FirstKey, \* the keys, and the one that everybody starts with
          MaxListed,     \* keys that fit into a response
          MaxQueries, MaxCrashes, MaxFaults  \* bounds

ASSUME KeyAssumption ==
          /\ IsFiniteSet(Node)
          /\ Origin \in Node
          /\ FirstKey \in Key
          /\ MaxListed \in Nat \ {0}
          /\ {MaxQueries, MaxCrashes, MaxFaults} \subseteq Nat

VARIABLES ring,       \* keyring of each node: its keys, the primary first
          file,       \* the keyring file, <<>> when it is cut short
          up,
          pc,         \* receiveKeyEvents: "idle", "changed" or "writing"
          inCh,       \* key queries it has not finished
          query,      \* the query that is gossiped: {} or a record
          accepted,   \* nodes that had it in this life
          answers,    \* responses to it that were sent
          collecting, \* whether KeyQuery reads them
          result,     \* what it returned, if all nodes answered without an error
          installed,  \* keys that the operator knows to be on all nodes
          inUse,      \* keys that may be the primary of some node
          queries, crashes, faults

nodeVars == <<ring, file, pc, inCh>>
queryVars == <<query, accepted, answers, collecting, result>>
operatorVars == <<installed, inUse>>
vars == <<ring, file, up, pc, inCh, query, accepted, answers, collecting, result,
          installed, inUse, queries, crashes, faults>>

KeysOf(r) == {r[i] : i \in DOMAIN r}

Init == /\ ring = [n \in Node |-> <<FirstKey>>]
        /\ file = ring
        /\ up = Node
        /\ pc = [n \in Node |-> "idle"]
        /\ inCh = [n \in Node |-> <<>>]
        /\ query = {} /\ accepted = {} /\ answers = {}
        /\ collecting = FALSE
        /\ result = {}
        /\ installed = {FirstKey} /\ inUse = {FirstKey}
        /\ queries = 0 /\ crashes = 0 /\ faults = 0

-----------------------------------------------------------------------------
(* memberlist's keyring: the ring after a command, {} for an error. *)

AddKey(r, k) == {IF k \in KeysOf(r) THEN r ELSE Append(r, k)}

\* The key goes to the front.
UseKey(r, k) ==
    {[j \in 1 .. Len(r) |-> CASE j = 1 -> k [] 1 < j /\ j <= i -> r[j - 1] [] i < j -> r[j]]
        : i \in {i \in 1 .. Len(r) : r[i] = k}}

\* The primary cannot be removed.
RemoveKey(r, k) ==
    {[j \in 1 .. Len(r) - 1 |-> IF j < i THEN r[j] ELSE r[j + 1]]
        : i \in {i \in 2 .. Len(r) : r[i] = k}}

Changed(r, q) == CASE q.Name = "install-key" -> AddKey(r, q.Key)
                   [] q.Name = "use-key"     -> UseKey(r, q.Key)
                   [] q.Name = "remove-key"  -> RemoveKey(r, q.Key)

-----------------------------------------------------------------------------
(* The operator uses a key only when all nodes have it, removes one only   *)
(* when no node encrypts with it, and does all this when everybody is up.  *)

Sensible(name, k) == CASE name = "install-key" -> TRUE
                       [] name = "use-key"     -> k \in installed
                       [] name = "remove-key"  -> k \notin inUse
                       [] name = "list-key"    -> k = FirstKey

\* KeyQuery.  Older queries are no longer gossiped by then.
KeyQuery(name, k) ==
    /\ ~collecting
    /\ queries < MaxQueries
    /\ up = Node
    /\ Sensible(name, k)
    /\ queries' = queries + 1
    /\ query' = {[ID |-> queries', Name |-> name, Key |-> k]}
    /\ accepted' = {} /\ answers' = {}
    /\ collecting' = TRUE
    /\ result' = {}
    /\ installed' = IF name = "remove-key" THEN installed \ {k} ELSE installed
    /\ inUse' = IF name = "use-key" THEN inUse \cup {k} ELSE inUse
    /\ UNCHANGED <<nodeVars, up, crashes, faults>>

\* Mutant: whoever answers is counted as one that succeeded.
collectKeyResponse_noErr(read) ==
    [NumResp  |-> Cardinality(read),
     NumErr   |-> 0,
     ErrFrom  |-> {r.From : r \in {s \in read : s.Err}},
     KeyCount |-> [k \in Key |-> Cardinality({r \in read : k \in r.Keys})]]

\* The responses that were read, each from another node.
collectKeyResponse(read) ==
    [NumResp  |-> Cardinality(read),
     NumErr   |-> Cardinality({r \in read : ~r.Success}),
     ErrFrom  |-> {r.From : r \in {s \in read : s.Err}},
     KeyCount |-> [k \in Key |-> Cardinality({r \in read : k \in r.Keys})]]

Complete(res) == res.NumResp = Cardinality(Node) /\ res.NumErr = 0

\* KeyQuery returns when its timer closes the channel, or a response comes that
\* is one too many, with what was read until then; the operator draws the
\* conclusions.
KeyQueryReturns ==
    /\ collecting
    /\ collecting' = FALSE
    /\ \E read \in SUBSET answers, q \in query :
          LET res == collectKeyResponse(read)
          IN  /\ result' = IF Complete(res) THEN {res} ELSE {}
              /\ installed' = IF Complete(res) /\ q.Name = "install-key" THEN installed \cup {q.Key} ELSE installed
              /\ inUse' = IF Complete(res) /\ q.Name = "use-key" THEN {q.Key} ELSE inUse
    /\ answers' = {}
    /\ UNCHANGED <<nodeVars, up, query, accepted, queries, crashes, faults>>

-----------------------------------------------------------------------------
(* A node. *)

\* The query gets here, and through the event pipeline.
Receive(n) ==
    /\ n \in up \ accepted
    /\ \E q \in query : inCh' = [inCh EXCEPT ![n] = Append(@, q)]
    /\ accepted' = accepted \cup {n}
    /\ query # {}
    /\ UNCHANGED <<ring, file, up, pc, query, answers, collecting, result, operatorVars, queries, crashes, faults>>

\* sendKeyResponse, unless the deadline has passed.
Respond(n, q, success, err, listed) ==
    answers' = IF collecting /\ q \in query
                 THEN answers \cup {[From |-> n, Success |-> success, Err |-> err, Keys |-> listed]}
                 ELSE answers

Done(n) == /\ inCh' = [inCh EXCEPT ![n] = Tail(@)]
           /\ pc' = [pc EXCEPT ![n] = "idle"]

\* handleKeyQuery: the keyring refuses the key, ...
RejectKey(n) ==
    /\ n \in up /\ pc[n] = "idle" /\ inCh[n] # <<>>
    /\ LET q == Head(inCh[n])
       IN  /\ q.Name # "list-key"
           /\ Changed(ring[n], q) = {}
           /\ Respond(n, q, FALSE, TRUE, {})
    /\ Done(n)
    /\ UNCHANGED <<ring, file, up, query, accepted, collecting, result, operatorVars, queries, crashes, faults>>

\* ... or it changes, and the file is to follow.
ChangeRing(n) ==
    /\ n \in up /\ pc[n] = "idle" /\ inCh[n] # <<>>
    /\ LET q == Head(inCh[n])
       IN  /\ q.Name # "list-key"
           /\ \E r \in Changed(ring[n], q) : ring' = [ring EXCEPT ![n] = r]
    /\ pc' = [pc EXCEPT ![n] = "changed"]
    /\ UNCHANGED <<file, up, inCh, queryVars, operatorVars, queries, crashes, faults>>

\* os.WriteFile opens the file, which truncates it, ...
OpenFile(n) ==
    /\ n \in up /\ pc[n] = "changed"
    /\ file' = [file EXCEPT ![n] = <<>>]
    /\ pc' = [pc EXCEPT ![n] = "writing"]
    /\ UNCHANGED <<ring, up, inCh, queryVars, operatorVars, queries, crashes, faults>>

\* Mutant: the keys are written in the order in which they were installed.
WriteFile_unordered(n) ==
    /\ n \in up /\ pc[n] = "writing"
    /\ file' = [file EXCEPT ![n] =
           SelectSeq(<<FirstKey>>, LAMBDA k : k \in KeysOf(ring[n])) \o SelectSeq(ring[n], LAMBDA k : k # FirstKey)]
    /\ Respond(n, Head(inCh[n]), TRUE, FALSE, {})
    /\ Done(n)
    /\ UNCHANGED <<ring, up, query, accepted, collecting, result, operatorVars, queries, crashes, faults>>

\* ... and writes the keys of the ring, the primary first.
WriteFile(n) ==
    /\ n \in up /\ pc[n] = "writing"
    /\ file' = [file EXCEPT ![n] = ring[n]]
    /\ Respond(n, Head(inCh[n]), TRUE, FALSE, {})
    /\ Done(n)
    /\ UNCHANGED <<ring, up, query, accepted, collecting, result, operatorVars, queries, crashes, faults>>

\* Mutant: an error of the file is not reported.
WriteFails_silent(n) ==
    /\ n \in up /\ pc[n] \in {"changed", "writing"}
    /\ faults < MaxFaults
    /\ faults' = faults + 1
    /\ Respond(n, Head(inCh[n]), TRUE, FALSE, {})
    /\ Done(n)
    /\ UNCHANGED <<ring, file, up, query, accepted, collecting, result, operatorVars, queries, crashes>>

\* The file cannot be opened, or cannot be written.
WriteFails(n) ==
    /\ n \in up /\ pc[n] \in {"changed", "writing"}
    /\ faults < MaxFaults
    /\ faults' = faults + 1
    /\ Respond(n, Head(inCh[n]), FALSE, TRUE, {})
    /\ Done(n)
    /\ UNCHANGED <<ring, file, up, query, accepted, collecting, result, operatorVars, queries, crashes>>

\* Mutant: a list that was truncated is sent without the error.
handleListKey_silent(n) ==
    /\ n \in up /\ pc[n] = "idle" /\ inCh[n] # <<>>
    /\ Head(inCh[n]).Name = "list-key"
    /\ LET listed == SubSeq(ring[n], 1, IF Len(ring[n]) < MaxListed THEN Len(ring[n]) ELSE MaxListed)
       IN  Respond(n, Head(inCh[n]), TRUE, FALSE, KeysOf(listed))
    /\ Done(n)
    /\ UNCHANGED <<ring, file, up, query, accepted, collecting, result, operatorVars, queries, crashes, faults>>

\* The keys that fit into a response, with an error if these are not all.
handleListKey(n) ==
    /\ n \in up /\ pc[n] = "idle" /\ inCh[n] # <<>>
    /\ Head(inCh[n]).Name = "list-key"
    /\ LET listed == SubSeq(ring[n], 1, IF Len(ring[n]) < MaxListed THEN Len(ring[n]) ELSE MaxListed)
       IN  Respond(n, Head(inCh[n]), TRUE, listed # ring[n], KeysOf(listed))
    /\ Done(n)
    /\ UNCHANGED <<ring, file, up, query, accepted, collecting, result, operatorVars, queries, crashes, faults>>

-----------------------------------------------------------------------------
(* Crashes. *)

\* The call of KeyQuery ends with its process.
Crash(n) ==
    /\ n \in up
    /\ crashes < MaxCrashes
    /\ crashes' = crashes + 1
    /\ up' = up \ {n}
    /\ inCh' = [inCh EXCEPT ![n] = <<>>]
    /\ pc' = [pc EXCEPT ![n] = "idle"]
    /\ collecting' = (collecting /\ n # Origin)
    /\ UNCHANGED <<ring, file, query, accepted, answers, result, operatorVars, queries, faults>>

\* loadKeyring, if the file has keys.  A restart takes longer than a query;
\* the node has forgotten that it had the query, and may get it again.
Restart(n) ==
    /\ n \notin up
    /\ ~collecting
    /\ file[n] # <<>>
    /\ up' = up \cup {n}
    /\ ring' = [ring EXCEPT ![n] = file[n]]
    /\ accepted' = accepted \ {n}
    /\ UNCHANGED <<file, pc, inCh, query, answers, collecting, result, operatorVars, queries, crashes, faults>>

Command == {"install-key", "use-key", "remove-key", "list-key"}

Next == \/ \E name \in Command, k \in Key : KeyQuery(name, k)
        \/ KeyQueryReturns
        \/ \E n \in Node : \/ Receive(n) \/ RejectKey(n) \/ ChangeRing(n) \/ handleListKey(n)
                           \/ OpenFile(n) \/ WriteFile(n) \/ WriteFails(n)
                           \/ Crash(n) \/ Restart(n)

Spec == Init /\ [][Next]_vars

-----------------------------------------------------------------------------
TypeOK == /\ ring \in [Node -> Seq(Key)] /\ file \in [Node -> Seq(Key)]
          /\ up \subseteq Node /\ accepted \subseteq Node
          /\ pc \in [Node -> {"idle", "changed", "writing"}]
          /\ {r.From : r \in answers} \subseteq Node
          /\ \A r \in result : r.NumErr <= r.NumResp /\ r.NumResp <= Cardinality(Node)
          /\ installed \subseteq Key /\ inUse \subseteq Key
          /\ collecting \in BOOLEAN

\* The types; no key is twice in a ring and none is empty; and a node that has
\* no write behind it that failed would come back with the ring it has, the
\* primary included (key_query.go:193-213, rpc/server/config.go:128-152).
KeyInv ==
    /\ TypeOK
    /\ \A n \in Node : ring[n] # <<>> /\ Cardinality(KeysOf(ring[n])) = Len(ring[n])
    /\ faults = 0 => \A n \in up : pc[n] = "idle" => file[n] = ring[n]

\* All nodes that are up can read what any of them sends, at every moment of a
\* rotation and after crashes and failed writes, if the operator goes by the
\* counts of KeyQuery alone (cmd/keys.go:68-87, key_query.go:157-190).
EverybodyUnderstood ==
    \A n, m \in up : ring[n][1] \in KeysOf(ring[m])

\* When the operator takes a count of all nodes without an error for done, the
\* key is in every file (key_query.go:77-109,186-189).  That says nothing of a
\* write that fails later.
CompleteIsDone ==
    [][collecting /\ ~collecting' /\ installed # installed' =>
         \A n \in Node : (installed' \ installed) \subseteq KeysOf(file[n])]_vars

\* A list without errors counts each key on the nodes that have it, unless one
\* of them crashed in the meantime (key_query.go:215-249).
ListIsTrue ==
    [][\A q \in query, res \in result' :
          /\ collecting /\ q.Name = "list-key"
          /\ up = Node /\ Complete(res) /\ res.ErrFrom = {}
          => \A k \in Key : res.KeyCount[k] = Cardinality({n \in Node : k \in KeysOf(ring[n])})]_vars

\* What KeyQuery counts without an error is so when it is counted
\* (key_query.go:51-109): keys installed in every file, and keys that are listed.
CountsAreTrue == CompleteIsDone /\ ListIsTrue
=============================================================================
