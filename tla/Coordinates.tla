---------------------------- MODULE Coordinates ----------------------------
(***************************************************************************)
(* The network coordinate of a node and the cache of the coordinates of    *)
(* its peers.  A ping that is answered moves the coordinate (Relax) and    *)
(* then, in a second critical section, caches the coordinate of the peer   *)
(* and its own; the reaper removes entries, an RPC reads two of them.      *)
(*                                                                         *)
(* Floating point is reduced to how large a coordinate is: "near" for      *)
(* what no sum or square of a Relax overflows on, "far" for finite         *)
(* components that may, "bad" for an infinity, a NaN or another dimension. *)
(* A distance too long for a time.Duration becomes a wrong one, but a      *)
(* finite one: it can make what is near drift far.                         *)
(*                                                                         *)
(* Source: ping_delegate.go, coordinate/node.go, coordinate/coordinate.go, *)
(* Build in serf.go, reap in inactive.go, Rtt in rpc/server/server.go.     *)
(***************************************************************************)
EXTENDS Integers, Sequences

CONSTANTS Prober,               \* goroutines of memberlist that end a ping
          Caller,               \* goroutines that serve the RPC Rtt
          Peer,                 \* IDs of the other nodes
          Self, NoID,           \* the ID of this node, and the empty one
          AdjustmentWindowSize,
          MaxPings              \* bound on the pings answered

ASSUME CoordinatesAssumption ==
          /\ Self \notin Peer /\ NoID \notin Peer /\ Self # NoID
          /\ {AdjustmentWindowSize, MaxPings} \subseteq Nat

VARIABLES id,            \* p.id: empty until Build calls SetID
          coord,         \* coord.coord
          latenciesDiff, \* coord.latenciesDiff
          numResets,
          coordCache,    \* the entry of an ID, if there is one
          finish,        \* what each goroutine in Finish has still to cache
          rtt,           \* the coordinate each goroutine in Rtt has read
          samples        \* history of Relax: the difference it found, and
                         \* whether it or the coordinate it had was not near

nodeVars == <<coord, latenciesDiff, numResets, samples>>
pingVars == <<id, coord, latenciesDiff, numResets, coordCache, finish, rtt, samples>>

Size == {"near", "far", "bad"}
Coord == [version : 0 .. MaxPings, size : {"near", "far"}]
Key == Peer \cup {Self, NoID}

-----------------------------------------------------------------------------
(* The ring of the latest differences. *)

newLatencyRing == [idx |-> -1, latencies |-> <<>>]

\* Mutant: the index wraps around one sample late.
add_late(r, l) ==
    LET i == IF r.idx + 1 > AdjustmentWindowSize THEN 0 ELSE r.idx + 1
    IN  [idx |-> i, latencies |-> IF Len(r.latencies) = i THEN Append(r.latencies, l)
                                  ELSE [r.latencies EXCEPT ![i + 1] = l]]

add(r, l) ==
    LET i == IF r.idx + 1 = AdjustmentWindowSize THEN 0 ELSE r.idx + 1
    IN  [idx |-> i, latencies |-> IF Len(r.latencies) = i THEN Append(r.latencies, l)
                                  ELSE [r.latencies EXCEPT ![i + 1] = l]]

Values(r) == {r.latencies[i] : i \in DOMAIN r.latencies}

\* The sizes the sum of the ring can have.
getAdjustment(r) == CASE "bad" \in Values(r) -> {"bad"}
                      [] "far" \in Values(r) -> Size
                      [] OTHER -> {"near"}

-----------------------------------------------------------------------------
(* Relax: what can become of the coordinate and of the ring. *)

\* A distance of two coordinates, or one of them moved along it.
Between(a, b) == CASE "bad" \in {a, b} -> {"bad"}
                   [] "far" \in {a, b} -> Size
                   [] OTHER -> {"near"}

Worst(a, b) == CASE "bad" \in {a, b} -> "bad"
                 [] "far" \in {a, b} -> "far"
                 [] OTHER -> "near"

checkCoordinate(other) == other # "bad"

relax(size, other) == Between(size, other)

\* The difference is added, and the sum over the ring is the adjustment.
adjust(ring, size, other) ==
    IF AdjustmentWindowSize = 0
      THEN {[ring |-> ring, diff |-> "near", adjustment |-> "near"]}
      ELSE UNION {{[ring |-> add(ring, diff), diff |-> diff, adjustment |-> a] :
                      a \in getAdjustment(add(ring, diff))} : diff \in Between(size, other)}

\* The last move: a Relax overflows nowhere on what is near, but what is near may
\* have drifted so far by its end that the next one will.
centerNudge(size) == Between(size, "near") \cup (IF size = "near" THEN {"far"} ELSE {})

Relaxed(other) ==
    UNION {UNION {{[size |-> Worst(nudged, adj.adjustment), ring |-> adj.ring, diff |-> adj.diff] :
                      nudged \in centerNudge(size)} :
                  adj \in adjust(latenciesDiff, size, other)} :
           size \in relax(coord.size, other)}

-----------------------------------------------------------------------------
NewCoordinate == [version |-> 0, size |-> "near"]

PingInit == /\ id = NoID
            /\ coord = NewCoordinate
            /\ latenciesDiff = newLatencyRing
            /\ numResets = 0
            /\ coordCache = [k \in Key |-> {}]
            /\ finish = [g \in Prober |-> {}]
            /\ rtt = [c \in Caller |-> {}]
            /\ samples = <<>>

\* Build learns the ID when memberlist runs already, and pings.
SetID == /\ id = NoID
         /\ id' = Self
         /\ UNCHANGED <<nodeVars, coordCache, finish, rtt>>

\* A coordinate that is not finite any more is replaced by a new one; the ring
\* is kept.
Move(g, n, other) ==
    \E r \in Relaxed(other) :
       /\ coord' = [version |-> coord.version + 1,
                    size |-> IF r.size = "bad" THEN NewCoordinate.size ELSE r.size]
       /\ numResets' = IF r.size = "bad" THEN numResets + 1 ELSE numResets
       /\ latenciesDiff' = r.ring
       /\ samples' = Append(samples, [diff |-> r.diff, far |-> "far" \in {other, coord.size}])
       /\ finish' = [finish EXCEPT ![g] =
                        {[peer |-> n, size |-> other, moved |-> coord']}]

Finishing(g) == finish[g] = {} /\ coord.version < MaxPings

\* Mutant: a coordinate that Relax refused is cached all the same.
Finish_cacheRefused(g, n, other, inRange) ==
    /\ Finishing(g)
    /\ IF checkCoordinate(other) /\ inRange
         THEN Move(g, n, other)
         ELSE /\ finish' = [finish EXCEPT ![g] = {[peer |-> n, size |-> other, moved |-> coord]}]
              /\ UNCHANGED nodeVars
    /\ UNCHANGED <<id, coordCache, rtt>>

\* Finish up to the end of Relax, for a payload that can be decoded; inRange
\* says whether the round trip time is one that Relax takes.  What Relax
\* returns (moved) is not used.
Finish(g, n, other, inRange) ==
    /\ Finishing(g)
    /\ checkCoordinate(other) /\ inRange
    /\ Move(g, n, other)
    /\ UNCHANGED <<id, coordCache, rtt>>

\* Mutant: Finish caches the coordinate that Relax returned.
CacheCoords_returned(g) ==
    \E f \in finish[g] :
       /\ coordCache' = [coordCache EXCEPT ![f.peer] = {[version |-> 0, size |-> f.size]},
                                           ![id] = {f.moved}]
       /\ finish' = [finish EXCEPT ![g] = {}]
       /\ UNCHANGED <<id, nodeVars, rtt>>

\* The rest of Finish: the own coordinate is read under the lock of the cache.
CacheCoords(g) ==
    \E f \in finish[g] :
       /\ coordCache' = [coordCache EXCEPT ![f.peer] = {[version |-> 0, size |-> f.size]},
                                           ![id] = {coord}]
       /\ finish' = [finish EXCEPT ![g] = {}]
       /\ UNCHANGED <<id, nodeVars, rtt>>

\* The reaper gives a member up; a ping of it may still be on its way.
RemoveCachedCoord(n) ==
    /\ coordCache' = [coordCache EXCEPT ![n] = {}]
    /\ UNCHANGED <<id, nodeVars, finish, rtt>>

\* Rtt reads the cache twice and returns an error where it finds nothing.  The
\* server starts after Build.
RttFirst(c, n) ==
    /\ id = Self
    /\ rtt[c] = {}
    /\ rtt' = [rtt EXCEPT ![c] = coordCache[n]]
    /\ UNCHANGED <<id, nodeVars, coordCache, finish>>

RttSecond(c, n) ==
    /\ rtt[c] # {}
    /\ rtt' = [rtt EXCEPT ![c] = {}]
    /\ UNCHANGED <<id, nodeVars, coordCache, finish>>

PingNext == \/ SetID
            \/ \E g \in Prober, n \in Peer, other \in Size, inRange \in BOOLEAN :
                  Finish(g, n, other, inRange)
            \/ \E g \in Prober : CacheCoords(g)
            \/ \E n \in Peer : RemoveCachedCoord(n)
            \/ \E c \in Caller, n \in Key \ {NoID} : RttFirst(c, n) \/ RttSecond(c, n)

PingSpec == PingInit /\ [][PingNext]_pingVars

-----------------------------------------------------------------------------
PingTypeOK ==
    /\ id \in {Self, NoID}
    /\ coord \in Coord
    /\ coordCache \in [Key -> SUBSET Coord]
    /\ rtt \in [Caller -> SUBSET Coord]
    /\ samples \in Seq([diff : Size, far : BOOLEAN])

\* The ring holds the last AdjustmentWindowSize differences, each in the slot of
\* its turn.
RingIsWindow ==
    LET k == Len(samples)
        w == IF k < AdjustmentWindowSize THEN k ELSE AdjustmentWindowSize
    IN  /\ Len(latenciesDiff.latencies) = w
        /\ \A i \in k - w + 1 .. k :
              latenciesDiff.latencies[((i - 1) % AdjustmentWindowSize) + 1] = samples[i].diff

\* Whatever peers answer, in whatever order pings end, members are reaped and
\* Rtt reads: the coordinate sent to peers (ping_delegate.go:57), every cached
\* one, and every one Rtt computes with is finite and of one dimension, so that
\* DistanceTo does not panic (coordinate.go:90); and the adjustment is taken
\* over the last samples, also after the ring has wrapped around (node.go:32).
CoordInv == PingTypeOK /\ RingIsWindow

\* The own coordinate in the cache is never replaced by an older one, although
\* Relax and the update of the cache are two critical sections and several
\* pings end at once (ping_delegate.go:77,83).
OwnNeverBack ==
    [][\A old \in coordCache[Self], new \in coordCache'[Self] :
          new.version >= old.version]_pingVars

\* The own coordinate is reset only if one of the last AdjustmentWindowSize
\* samples was taken with a coordinate out of range, of the peer or the own one:
\* the difference it made stays in the ring, which a reset does not clear, until
\* it is overwritten, and costs resets no longer than that (node.go:187,217).
ResetsEnd ==
    [][numResets' # numResets =>
          \E i \in DOMAIN samples' :
             /\ samples'[i].far
             /\ i = Len(samples') \/ i > Len(samples') - AdjustmentWindowSize]_pingVars
=============================================================================
