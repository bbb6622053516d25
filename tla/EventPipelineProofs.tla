------------------------- MODULE EventPipelineProofs -------------------------
(***************************************************************************)
(* For channels of every size, any streams and any scripts: an event is at *)
(* one place, a stream misses only what it had no room for, and nothing is *)
(* given to it, or to a script, twice, nor out of order but for the member *)
(* events that Before admits.                                              *)
(***************************************************************************)
EXTENDS EventPipeline, FiniteSetTheorems, TLAPS

-----------------------------------------------------------------------------
(* Channels. *)

Elems(ch) == {ch[i] : i \in DOMAIN ch}
Apart(ch) == \A i, j \in DOMAIN ch : i # j => ch[i].ids \cap ch[j].ids = {}
Strictly(e, f) == \A m \in e.ids, n \in f.ids : m < n
Increasing(ch) == \A i, j \in DOMAIN ch : i < j => Strictly(ch[i], ch[j])
Ordered(ch) == \A i, j \in DOMAIN ch : i < j => Before(ch[i], ch[j])

\* A goroutine that takes the event at the head of a channel.
LEMMA Taken ==
  ASSUME NEW ch \in Seq(EventRecord), ch # <<>>
  PROVE  /\ Head(ch) \in EventRecord /\ Tail(ch) \in Seq(EventRecord)
         /\ Len(Tail(ch)) = Len(ch) - 1 /\ Len(ch) \in Nat
         /\ Head(ch) \in Elems(ch) /\ Elems(Tail(ch)) \subseteq Elems(ch)
         /\ Elems(ch) = Elems(Tail(ch)) \cup {Head(ch)}
         /\ Within(ch) = Within(Tail(ch)) \cup Head(ch).ids
         /\ Apart(ch) => /\ Apart(Tail(ch))
                         /\ Within(Tail(ch)) = Within(ch) \ Head(ch).ids
         /\ Increasing(ch) => /\ Increasing(Tail(ch))
                              /\ \A f \in Elems(Tail(ch)) : Strictly(Head(ch), f)
         /\ Ordered(ch) => /\ Ordered(Tail(ch))
                           /\ \A f \in Elems(Tail(ch)) : Before(Head(ch), f)
<1>1. /\ Head(ch) \in EventRecord /\ Tail(ch) \in Seq(EventRecord)
      /\ Len(Tail(ch)) = Len(ch) - 1 /\ Len(ch) \in Nat \ {0}
      /\ DOMAIN ch = 1 .. Len(ch) /\ DOMAIN Tail(ch) = 1 .. Len(ch) - 1
      /\ Head(ch) = ch[1]
      /\ \A i \in 1 .. Len(ch) - 1 : Tail(ch)[i] = ch[i + 1]
  OBVIOUS
<1>2. \A i \in DOMAIN ch : i = 1 \/ (i - 1 \in DOMAIN Tail(ch) /\ ch[i] = Tail(ch)[i - 1])
  BY <1>1
<1>3. Elems(ch) = Elems(Tail(ch)) \cup {Head(ch)}
  <2>1. 1 \in DOMAIN ch /\ \A i \in DOMAIN Tail(ch) : i + 1 \in DOMAIN ch
    BY <1>1
  <2>2. \A x \in Elems(Tail(ch)) \cup {Head(ch)} : x \in Elems(ch)
    BY <1>1, <2>1 DEF Elems
  <2>3. ASSUME NEW i \in DOMAIN ch
        PROVE  ch[i] \in Elems(Tail(ch)) \cup {Head(ch)}
    <3>1. CASE i = 1
      BY <1>1, <3>1
    <3>2. CASE i - 1 \in DOMAIN Tail(ch) /\ ch[i] = Tail(ch)[i - 1]
      BY <3>2 DEF Elems
    <3> QED
      BY <1>2, <2>3, <3>1, <3>2
  <2>4. \A x \in Elems(ch) : x \in Elems(Tail(ch)) \cup {Head(ch)}
    BY <2>3 DEF Elems
  <2> QED
    BY <2>2, <2>4
<1>4. Within(ch) = Within(Tail(ch)) \cup Head(ch).ids
  <2>1. \A n : n \in Within(ch) <=> \E e \in Elems(ch) : n \in e.ids
    BY DEF Within, Elems
  <2>2. \A n : n \in Within(Tail(ch)) <=> \E e \in Elems(Tail(ch)) : n \in e.ids
    BY DEF Within, Elems
  <2>3. \A n : n \in Within(ch) <=> n \in Within(Tail(ch)) \/ n \in Head(ch).ids
    BY <1>3, <2>1, <2>2
  <2> QED
    BY <2>3
<1>5. ASSUME Apart(ch)
      PROVE  /\ Apart(Tail(ch))
             /\ Within(Tail(ch)) = Within(ch) \ Head(ch).ids
  <2>1. \A i \in DOMAIN Tail(ch) : i + 1 \in DOMAIN ch /\ i + 1 # 1 /\ Tail(ch)[i] = ch[i + 1]
    BY <1>1
  <2>2. \A i \in DOMAIN Tail(ch) : Tail(ch)[i].ids \cap Head(ch).ids = {}
    BY <1>1, <1>5, <2>1 DEF Apart
  <2>3. Within(Tail(ch)) \cap Head(ch).ids = {}
    BY <2>2 DEF Within
  <2>4. Apart(Tail(ch))
    BY <1>1, <1>5 DEF Apart
  <2> QED
    BY <1>4, <2>3, <2>4
<1>6. Increasing(ch) => /\ Increasing(Tail(ch))
                        /\ \A f \in Elems(Tail(ch)) : Strictly(Head(ch), f)
  BY <1>1 DEF Increasing, Elems
<1>7. Ordered(ch) => /\ Ordered(Tail(ch))
                     /\ \A f \in Elems(Tail(ch)) : Before(Head(ch), f)
  BY <1>1 DEF Ordered, Elems
<1> QED
  BY <1>1, <1>3, <1>4, <1>5, <1>6, <1>7

\* One that puts an event into a channel.
LEMMA Put ==
  ASSUME NEW ch \in Seq(EventRecord), NEW e \in EventRecord
  PROVE  /\ Append(ch, e) \in Seq(EventRecord)
         /\ Len(Append(ch, e)) = Len(ch) + 1 /\ Len(ch) \in Nat
         /\ Elems(Append(ch, e)) = Elems(ch) \cup {e}
         /\ Within(Append(ch, e)) = Within(ch) \cup e.ids
         /\ Apart(ch) /\ Within(ch) \cap e.ids = {} => Apart(Append(ch, e))
         /\ Increasing(ch) /\ (\A f \in Elems(ch) : Strictly(f, e)) => Increasing(Append(ch, e))
         /\ Ordered(ch) /\ (\A f \in Elems(ch) : Before(f, e)) => Ordered(Append(ch, e))
<1> DEFINE new == Append(ch, e)
<1>1. /\ new \in Seq(EventRecord) /\ Len(ch) \in Nat /\ Len(new) = Len(ch) + 1
      /\ DOMAIN ch = 1 .. Len(ch) /\ DOMAIN new = 1 .. Len(ch) + 1
      /\ \A i \in DOMAIN ch : new[i] = ch[i]
      /\ new[Len(ch) + 1] = e
  OBVIOUS
<1> HIDE DEF new
<1>2. \A i \in DOMAIN new : i \in DOMAIN ch \/ i = Len(ch) + 1
  BY <1>1
<1>3. Elems(new) = Elems(ch) \cup {e}
  BY <1>1, <1>2 DEF Elems
<1>4. Within(new) = Within(ch) \cup e.ids
  BY <1>1, <1>2 DEF Within
<1>5. ASSUME Apart(ch), Within(ch) \cap e.ids = {}
      PROVE  Apart(new)
  <2>1. \A i \in DOMAIN ch : ch[i].ids \cap e.ids = {}
    BY <1>5 DEF Within
  <2> QED
    BY <1>1, <1>2, <1>5, <2>1 DEF Apart
<1>6. ASSUME Increasing(ch), \A f \in Elems(ch) : Strictly(f, e)
      PROVE  Increasing(new)
  BY <1>1, <1>2, <1>6 DEF Increasing, Elems
<1>7. ASSUME Ordered(ch), \A f \in Elems(ch) : Before(f, e)
      PROVE  Ordered(new)
  BY <1>1, <1>2, <1>7 DEF Ordered, Elems
<1> QED
  BY <1>1, <1>3, <1>4, <1>5, <1>6, <1>7 DEF new

-----------------------------------------------------------------------------
(* The inductive invariant. *)

\* Every event up to the n-th is at one of the places P.
OnePlace(P, n) == /\ UNION {P[i] : i \in DOMAIN P} = 1 .. n
                  /\ \A i, j \in DOMAIN P : i # j => P[i] \cap P[j] = {}

\* No channel holds an event twice.
ApartOK == Apart(inEventCh) /\ Apart(teedCh) /\ Apart(keyCh) /\ Apart(outEventCh)

\* What waits for a flush, or to be sent by one: of a member, and of a type, there is
\* one; and a flush is sent before another event is taken.
Disjoint(E) == \A e, f \in E : e # f => e.ids \cap f.ids = {} /\ e.of \cap f.of = {}
CoalescerOK == /\ Disjoint(newEvents) /\ Disjoint(flushing)
               /\ \A e \in newEvents \cup flushing : IsMemberEvent(e)
               /\ \A e, f \in flushing : e # f => e.Type # f.Type
               /\ flushing # {} => newEvents = {}

\* Event e is ahead of all that is in inEventCh, and of what will be; of all up
\* to teedCh; up to newEvents, unless it may be overtaken; up to what is being
\* flushed; up to keyCh; and up to outEventCh.
AheadIn(e) == /\ \A m \in e.ids : m <= sent
              /\ \A f \in Elems(inEventCh) : Strictly(e, f)
AheadTeed(e) == AheadIn(e) /\ \A f \in Elems(teedCh) : Strictly(e, f)
AheadNew(e) == AheadTeed(e) /\ (IsMemberEvent(e) => \A m \in e.ids, n \in Waiting : m < n)
AheadFlush(e) == AheadNew(e) /\ \A f \in flushing : Before(e, f)
AheadKey(e) == AheadFlush(e) /\ \A f \in Elems(keyCh) : Before(e, f)
AheadOut(e) == AheadKey(e) /\ \A f \in Elems(outEventCh) : Before(e, f)

\* The events on their way are in the order in which they were sent.
LineOK ==
    /\ Increasing(inEventCh) /\ Increasing(teedCh) /\ Ordered(keyCh) /\ Ordered(outEventCh)
    /\ \A e \in Elems(inEventCh) : \A m \in e.ids : m <= sent
    /\ \A e \in Elems(teedCh) : AheadIn(e)
    /\ \A e \in newEvents \cup flushing : AheadTeed(e)
    /\ \A e \in Elems(keyCh) : AheadFlush(e)
    /\ \A e \in Elems(outEventCh) : AheadKey(e)

\* What was given to a handler, or is being given, is ahead of them all.
GivenOK ==
    /\ \A d \in handling : AheadOut(d.event)
    /\ \A r \in Elems(ran) : AheadOut(r.event)
    /\ \A h \in Handler : \A e \in Elems(got[h]) : AheadOut(e)

\* The event that is being given was not given yet to whom it is to be given.
DispatchOK ==
    \A d \in handling :
       /\ ~d.listed => d.streams = {}
       /\ \A r \in Elems(ran) : \/ Before(r.event, d.event)
                                \/ r.event = d.event /\ r.script \notin d.scripts
       /\ \A h \in Handler : ~d.listed \/ h \in d.streams =>
             \A e \in Elems(got[h]) : Before(e, d.event)

\* A stream that was on when the event was taken has had it, if its turn is over.
TurnOK ==
    \A d \in handling, h \in handlers :
       d.listed /\ since[h] <= Len(done) /\ h \notin d.streams /\ Matches(filter[h], d.event) =>
          d.event.ids \subseteq missed[h] \cup Within(got[h])

IInv == /\ TypeOK /\ OnePlace(Places, sent) /\ ApartOK /\ CoalescerOK
        /\ LineOK /\ GivenOK /\ DispatchOK /\ InOrder
        /\ TurnOK /\ NoGaps

-----------------------------------------------------------------------------
(* Places. *)

\* The eleven places, one by one.
LEMMA PlacesAre ==
  /\ DOMAIN Places = 1 .. 11
  /\ Places[1] = Within(inEventCh) /\ Places[2] = Within(teedCh) /\ Places[3] = Waiting
  /\ Places[4] = Within(keyCh) /\ Places[5] = Within(outEventCh) /\ Places[6] = Begun
  /\ Places[7] = Handled /\ Places[8] = answered /\ Places[9] = dropped
  /\ Places[10] = Flushing /\ Places[11] = leftOut
BY DEF Places

\* The same, after a step.
LEMMA PlacesWillBe ==
  /\ DOMAIN Places' = 1 .. 11
  /\ Places'[1] = Within(inEventCh)' /\ Places'[2] = Within(teedCh)' /\ Places'[3] = Waiting'
  /\ Places'[4] = Within(keyCh)' /\ Places'[5] = Within(outEventCh)' /\ Places'[6] = Begun'
  /\ Places'[7] = Handled' /\ Places'[8] = answered' /\ Places'[9] = dropped'
  /\ Places'[10] = Flushing' /\ Places'[11] = leftOut'
BY DEF Places

\* Events that move from one place to another are at one place again.
LEMMA Moved ==
  ASSUME NEW P, NEW Q, DOMAIN P = 1 .. 11, DOMAIN Q = 1 .. 11, NEW n \in Nat,
         NEW i \in 1 .. 11, NEW j \in 1 .. 11, i # j,
         NEW S, S \subseteq P[i],
         Q[i] = P[i] \ S, Q[j] = P[j] \cup S,
         \A k \in 1 .. 11 : k \notin {i, j} => Q[k] = P[k],
         OnePlace(P, n)
  PROVE  OnePlace(Q, n)
<1>1. \A x : (\E k \in 1 .. 11 : x \in P[k]) <=> (\E k \in 1 .. 11 : x \in Q[k])
  <2> SUFFICES ASSUME NEW x
               PROVE  (\E k \in 1 .. 11 : x \in P[k]) <=> (\E k \in 1 .. 11 : x \in Q[k])
    OBVIOUS
  <2>1. ASSUME NEW k \in 1 .. 11, x \in P[k]
        PROVE  \E l \in 1 .. 11 : x \in Q[l]
    <3>1. k = i => x \in Q[i] \/ x \in Q[j]
      BY <2>1
    <3>2. k = j => x \in Q[j]
      BY <2>1
    <3> QED
      BY <2>1, <3>1, <3>2
  <2>2. ASSUME NEW k \in 1 .. 11, x \in Q[k]
        PROVE  \E l \in 1 .. 11 : x \in P[l]
    BY <2>2
  <2> QED
    BY <2>1, <2>2
<1>2. UNION {Q[k] : k \in DOMAIN Q} = UNION {P[k] : k \in DOMAIN P}
  BY <1>1
<1>3. ASSUME NEW k \in 1 .. 11, NEW l \in 1 .. 11, k # l
      PROVE  Q[k] \cap Q[l] = {}
  <2>1. \A a, b \in 1 .. 11 : a # b => P[a] \cap P[b] = {}
    BY DEF OnePlace
  <2>2. \A a \in 1 .. 11 : Q[a] \subseteq P[a] \cup (IF a = j THEN S ELSE {})
    OBVIOUS
  <2>3. ASSUME NEW a \in 1 .. 11, a # j
        PROVE  Q[a] \cap Q[j] = {}
    <3>1. Q[a] \cap S = {}
      <4>1. CASE a = i
        BY <4>1
      <4>2. CASE a # i
        BY <2>1, <2>3, <4>2
      <4> QED
        BY <4>1, <4>2
    <3>2. Q[a] \cap P[j] = {}
      BY <2>1, <2>2, <2>3
    <3> QED
      BY <3>1, <3>2
  <2> QED
    BY <1>3, <2>1, <2>2, <2>3
<1> QED
  BY <1>2, <1>3 DEF OnePlace

\* Every place is within what was sent, and places are apart.
LEMMA Placed ==
  ASSUME OnePlace(Places, sent)
  PROVE  /\ \A i \in 1 .. 11 : Places[i] \subseteq 1 .. sent
         /\ \A i, j \in 1 .. 11 : i # j => Places[i] \cap Places[j] = {}
BY PlacesAre DEF OnePlace

-----------------------------------------------------------------------------
(* Types. *)

ChannelTypes == /\ inEventCh \in Seq(EventRecord) /\ Len(inEventCh) <= ChSize
                /\ teedCh \in Seq(EventRecord) /\ Len(teedCh) <= ChSize
                /\ keyCh \in Seq(EventRecord) /\ Len(keyCh) <= ChSize
                /\ outEventCh \in Seq(EventRecord) /\ Len(outEventCh) <= ChSize
                /\ newEvents \subseteq EventRecord /\ flushing \subseteq EventRecord

Dispatch == [event : EventRecord, scripts : SUBSET ScriptFilters,
             streams : SUBSET Handler, listed : BOOLEAN]

Started == [event : EventRecord, script : ScriptFilters]

DispatchTypes == /\ handling \subseteq Dispatch /\ \A d, e \in handling : d = e
                 /\ invoking \subseteq EventRecord /\ \A d, e \in invoking : d = e
                 /\ done \in Seq(EventRecord)
                 /\ ran \in Seq(Started)

StreamTypes == /\ handlers \subseteq Handler /\ filter \in [Handler -> SUBSET EventType]
               /\ eventCh \in [Handler -> Seq(EventRecord)]
               /\ \A h \in Handler : Len(eventCh[h]) <= StreamSize
               /\ got \in [Handler -> Seq(EventRecord)]
               /\ missed \in [Handler -> SUBSET (1 .. sent)]
               /\ since \in [Handler -> Nat]

\* The type invariant in parts, before and after a step.
LEMMA TypesAre ==
  /\ TypeOK <=> sent \in 0 .. MaxEvents /\ ChannelTypes /\ DispatchTypes /\ StreamTypes
  /\ TypeOK' <=> sent' \in 0 .. MaxEvents /\ ChannelTypes' /\ DispatchTypes' /\ StreamTypes'
BY DEF TypeOK, ChannelTypes, Dispatch, Started, DispatchTypes, StreamTypes

\* The bounds are numbers.
LEMMA Numbers == ChSize \in Nat \ {0} /\ StreamSize \in Nat \ {0} /\ MaxEvents \in Nat
BY PipelineAssumption

\* What the events at a place have as numbers.
LEMMA SentIsBound ==
  ASSUME TypeOK, OnePlace(Places, sent), NEW d \in handling
  PROVE  d.event.ids \subseteq 1 .. sent
<1>1. Begun \subseteq 1 .. sent
  BY Placed, PlacesAre
<1> QED
  BY <1>1 DEF Begun

\* A channel that is given an event only when there is room.
LEMMA Room ==
  ASSUME NEW ch \in Seq(EventRecord), Len(ch) <= ChSize, NEW e \in EventRecord, NEW new,
         (Len(ch) < ChSize /\ new = Append(ch, e)) \/ new = ch
  PROVE  new \in Seq(EventRecord) /\ Len(new) <= ChSize
<1>1. CASE Len(ch) < ChSize /\ new = Append(ch, e)
  BY <1>1, Put, Numbers
<1>2. CASE new = ch
  BY <1>2
<1> QED
  BY <1>1, <1>2

\* What the coalesced events of a flush are, of the events it sends.
LEMMA CoalescedOf ==
  ASSUME NEW E, E \subseteq EventRecord, Disjoint(E), \A e \in E : IsMemberEvent(e),
         NEW F, F = {Coalesced(e.Type, E) : e \in E}
  PROVE  /\ F \subseteq EventRecord /\ Disjoint(F) /\ \A c \in F : IsMemberEvent(c)
         /\ \A c, d \in F : c # d => c.Type # d.Type
         /\ UNION {c.ids : c \in F} = UNION {e.ids : e \in E}
         /\ \A c \in F : \A m \in c.ids : \E e \in E : m \in e.ids
<1>1. ASSUME NEW e \in E
      PROVE  /\ Coalesced(e.Type, E).Type = e.Type
             /\ Coalesced(e.Type, E).ids = UNION {x.ids : x \in {y \in E : y.Type = e.Type}}
             /\ Coalesced(e.Type, E).of = UNION {x.of : x \in {y \in E : y.Type = e.Type}}
             /\ Coalesced(e.Type, E) \in EventRecord
  <2> DEFINE some == {y \in E : y.Type = e.Type}
  <2>1. \A x \in some : x.ids \subseteq Nat /\ x.of \subseteq Member
    BY DEF EventRecord
  <2>2. UNION {x.ids : x \in some} \subseteq Nat /\ UNION {x.of : x \in some} \subseteq Member
    BY <2>1
  <2>3. e.Type \in EventType
    BY DEF EventRecord
  <2>4. Coalesced(e.Type, E) = Event(e.Type, UNION {x.ids : x \in some}, UNION {x.of : x \in some})
    BY DEF Coalesced
  <2> HIDE DEF some
  <2>5. Coalesced(e.Type, E) = [Type |-> e.Type, ids |-> UNION {x.ids : x \in some},
                                of |-> UNION {x.of : x \in some}]
    BY <2>4 DEF Event
  <2> QED
    BY <2>2, <2>3, <2>5 DEF EventRecord, some
<1>2. F \subseteq EventRecord /\ \A c \in F : IsMemberEvent(c)
  BY <1>1 DEF IsMemberEvent
<1>3. \A c, d \in F : c # d => c.Type # d.Type
  BY <1>1
<1>4. Disjoint(F)
  <2> SUFFICES ASSUME NEW c \in F, NEW d \in F, c # d
               PROVE  c.ids \cap d.ids = {} /\ c.of \cap d.of = {}
    BY DEF Disjoint
  <2>1. PICK a \in E : c = Coalesced(a.Type, E)
    OBVIOUS
  <2>2. PICK b \in E : d = Coalesced(b.Type, E)
    OBVIOUS
  <2>3. a.Type # b.Type
    BY <2>1, <2>2
  <2>4. \A x, y \in E : x.Type = a.Type /\ y.Type = b.Type =>
           x.ids \cap y.ids = {} /\ x.of \cap y.of = {}
    BY <2>3 DEF Disjoint
  <2>5. /\ c.ids = UNION {x.ids : x \in {y \in E : y.Type = a.Type}}
        /\ c.of = UNION {x.of : x \in {y \in E : y.Type = a.Type}}
        /\ d.ids = UNION {x.ids : x \in {y \in E : y.Type = b.Type}}
        /\ d.of = UNION {x.of : x \in {y \in E : y.Type = b.Type}}
    BY <1>1, <2>1, <2>2
  <2> QED
    BY <2>4, <2>5
<1>5. \A c \in F : \A m \in c.ids : \E e \in E : m \in e.ids
  <2> SUFFICES ASSUME NEW c \in F, NEW m \in c.ids
               PROVE  \E e \in E : m \in e.ids
    OBVIOUS
  <2>1. PICK a \in E : c = Coalesced(a.Type, E)
    OBVIOUS
  <2>2. m \in UNION {x.ids : x \in {y \in E : y.Type = a.Type}}
    BY <1>1, <2>1
  <2> QED
    BY <2>2
<1>6. UNION {c.ids : c \in F} = UNION {e.ids : e \in E}
  <2>1. \A m : m \in UNION {c.ids : c \in F} => m \in UNION {e.ids : e \in E}
    BY <1>5
  <2>2. ASSUME NEW m, m \in UNION {e.ids : e \in E}
        PROVE  m \in UNION {c.ids : c \in F}
    <3>1. PICK e \in E : m \in e.ids
      BY <2>2
    <3>2. m \in Coalesced(e.Type, E).ids
      BY <1>1, <3>1
    <3> QED
      BY <3>2
  <2> QED
    BY <2>1, <2>2
<1> QED
  BY <1>2, <1>3, <1>4, <1>5, <1>6

\* What Send is called with.
LEMMA Senders ==
  /\ \A type \in MemberType, m \in Member : type \in EventType /\ {m} \in SUBSET Member
  /\ \A type \in {"user", "key"} : type \in EventType /\ {} \in SUBSET Member
BY DEF EventType

\* The same of a flush.
LEMMA Flushes ==
  ASSUME TypeOK, CoalescerOK, flush
  PROVE  /\ flushing' \subseteq EventRecord /\ Disjoint(flushing')
         /\ \A e \in flushing' : IsMemberEvent(e)
         /\ \A e, f \in flushing' : e # f => e.Type # f.Type
         /\ flushing = {} /\ newEvents' = {}
         /\ \A c \in flushing' : \A m \in c.ids : \E e \in newEvents : m \in e.ids
         /\ \E S \in SUBSET Waiting : Flushing' = Waiting \ S /\ leftOut' = leftOut \cup S
<1>1. PICK equal \in SUBSET newEvents :
         /\ flushing' = {Coalesced(e.Type, newEvents \ equal) : e \in newEvents \ equal}
         /\ leftOut' = leftOut \cup UNION {e.ids : e \in equal}
         /\ flushing = {} /\ newEvents' = {}
  BY DEF flush
<1> DEFINE E == newEvents \ equal
           S == UNION {e.ids : e \in equal}
<1>2. E \subseteq EventRecord /\ Disjoint(E) /\ \A e \in E : IsMemberEvent(e)
  BY TypesAre DEF ChannelTypes, CoalescerOK, Disjoint
<1>3. flushing' = {Coalesced(e.Type, E) : e \in E}
  BY <1>1
<1>4. /\ flushing' \subseteq EventRecord /\ Disjoint(flushing') /\ \A c \in flushing' : IsMemberEvent(c)
      /\ \A c, d \in flushing' : c # d => c.Type # d.Type
      /\ UNION {c.ids : c \in flushing'} = UNION {e.ids : e \in E}
      /\ \A c \in flushing' : \A m \in c.ids : \E e \in E : m \in e.ids
  <2> HIDE DEF E
  <2> QED
    BY <1>2, <1>3, CoalescedOf
<1>5. S \subseteq Waiting
  BY DEF Waiting
<1>6. UNION {e.ids : e \in E} = Waiting \ S
  <2>1. \A x \in E, y \in equal : x.ids \cap y.ids = {}
    BY DEF CoalescerOK, Disjoint
  <2> QED
    BY <2>1 DEF Waiting
<1>7. Flushing' = Waiting \ S
  BY <1>4, <1>6 DEF Flushing
<1>8. leftOut' = leftOut \cup S
  BY <1>1
<1> HIDE DEF S
<1> QED
  BY <1>1, <1>4, <1>5, <1>7, <1>8

\* What an event does that the coalescer takes.
LEMMA Coalesces ==
  ASSUME TypeOK, CoalescerOK, coalesce, NEW e, e = Head(teedCh)
  PROVE  /\ flushing = {} /\ flushing' = {}
         /\ \/ /\ ~IsMemberEvent(e) /\ Len(keyCh) < ChSize /\ keyCh' = Append(keyCh, e)
               /\ UNCHANGED <<newEvents, leftOut>>
            \/ /\ IsMemberEvent(e) /\ UNCHANGED keyCh
               /\ \E replaced \in SUBSET newEvents :
                     /\ newEvents' = (newEvents \ replaced) \cup {e}
                     /\ \A x \in newEvents \ replaced : x.of \cap e.of = {}
                     /\ leftOut' = leftOut \cup UNION {x.ids : x \in replaced}
<1>1. CASE ~IsMemberEvent(e)
  BY <1>1 DEF coalesce
<1>2. CASE IsMemberEvent(e)
  <2> DEFINE R == {x \in newEvents : x.of \cap e.of # {}}
  <2>1. /\ newEvents' = (newEvents \ R) \cup {e}
        /\ leftOut' = leftOut \cup UNION {x.ids : x \in R}
        /\ UNCHANGED keyCh /\ flushing = {} /\ flushing' = flushing
    BY <1>2 DEF coalesce
  <2>2. R \in SUBSET newEvents /\ \A x \in newEvents \ R : x.of \cap e.of = {}
    OBVIOUS
  <2> HIDE DEF R
  <2> QED
    BY <1>2, <2>1, <2>2
<1> QED
  BY <1>1, <1>2

\* A step beside the coalescer.
LEMMA CoalescerRests ==
  UNCHANGED coalescer => UNCHANGED <<newEvents, flushing, leftOut, Waiting, Flushing>>
BY DEF coalescer, Waiting, Flushing

\* The channels keep their types.
LEMMA ChannelTypesStep ==
  ASSUME TypeOK, CoalescerOK, Next
  PROVE  ChannelTypes' /\ sent' \in 0 .. MaxEvents
<1> USE Numbers
<1>1. ChannelTypes /\ sent \in 0 .. MaxEvents /\ StreamTypes /\ DispatchTypes
  BY TypesAre
<1>2. ASSUME UNCHANGED <<sent, channels, coalescer>>
      PROVE  ChannelTypes' /\ sent' \in 0 .. MaxEvents
  BY <1>1, <1>2, CoalescerRests DEF ChannelTypes, channels
<1>3. ASSUME NEW type \in EventType, NEW members \in SUBSET Member, Send(type, members)
      PROVE  ChannelTypes' /\ sent' \in 0 .. MaxEvents
  <2>1. Event(type, {sent'}, members) \in EventRecord
    BY <1>1, <1>3 DEF Send, Event, EventRecord
  <2> QED
    BY <1>1, <1>3, <2>1, Put, CoalescerRests DEF ChannelTypes, Send
<1>4. ASSUME teeEvents
      PROVE  ChannelTypes' /\ sent' \in 0 .. MaxEvents
  <2>1. Head(inEventCh) \in EventRecord /\ Tail(inEventCh) \in Seq(EventRecord)
        /\ Len(Tail(inEventCh)) <= ChSize
    BY <1>1, <1>4, Taken DEF ChannelTypes, teeEvents
  <2>2. (Len(teedCh) < ChSize /\ teedCh' = Append(teedCh, Head(inEventCh))) \/ teedCh' = teedCh
    BY <1>4 DEF teeEvents
  <2>3. teedCh' \in Seq(EventRecord) /\ Len(teedCh') <= ChSize
    BY <1>1, <2>1, <2>2, Room DEF ChannelTypes
  <2> QED
    BY <1>1, <1>4, <2>1, <2>3, CoalescerRests DEF ChannelTypes, teeEvents
<1>5. ASSUME coalesce
      PROVE  ChannelTypes' /\ sent' \in 0 .. MaxEvents
  <2>1. Head(teedCh) \in EventRecord /\ Tail(teedCh) \in Seq(EventRecord)
        /\ Len(Tail(teedCh)) <= ChSize
    BY <1>1, <1>5, Taken DEF ChannelTypes, coalesce
  <2>2. (Len(keyCh) < ChSize /\ keyCh' = Append(keyCh, Head(teedCh))) \/ keyCh' = keyCh
    BY <1>5 DEF coalesce
  <2>3. keyCh' \in Seq(EventRecord) /\ Len(keyCh') <= ChSize
    BY <1>1, <2>1, <2>2, Room DEF ChannelTypes
  <2>4. newEvents' \subseteq EventRecord /\ flushing' \subseteq EventRecord
    BY <1>1, <1>5, <2>1, Coalesces DEF ChannelTypes
  <2> QED
    BY <1>1, <1>5, <2>1, <2>3, <2>4 DEF ChannelTypes, coalesce
<1>6. ASSUME flush
      PROVE  ChannelTypes' /\ sent' \in 0 .. MaxEvents
  <2>1. UNCHANGED <<sent, channels>>
    BY <1>6 DEF flush
  <2> QED
    BY <1>1, <1>6, <2>1, Flushes DEF ChannelTypes, channels
<1>9. ASSUME NEW e \in flushing, sendCoalesced(e)
      PROVE  ChannelTypes' /\ sent' \in 0 .. MaxEvents
  <2>1. e \in EventRecord
    BY <1>1 DEF ChannelTypes
  <2> QED
    BY <1>1, <1>9, <2>1, Put DEF ChannelTypes, sendCoalesced
<1>7. ASSUME receiveKeyEvents
      PROVE  ChannelTypes' /\ sent' \in 0 .. MaxEvents
  <2>1. Head(keyCh) \in EventRecord /\ Tail(keyCh) \in Seq(EventRecord)
        /\ Len(Tail(keyCh)) <= ChSize
    BY <1>1, <1>7, Taken DEF ChannelTypes, receiveKeyEvents
  <2>2. (Len(outEventCh) < ChSize /\ outEventCh' = Append(outEventCh, Head(keyCh))) \/ outEventCh' = outEventCh
    BY <1>7 DEF receiveKeyEvents
  <2>3. outEventCh' \in Seq(EventRecord) /\ Len(outEventCh') <= ChSize
    BY <1>1, <2>1, <2>2, Room DEF ChannelTypes
  <2> QED
    BY <1>1, <1>7, <2>1, <2>3, CoalescerRests DEF ChannelTypes, receiveKeyEvents
<1>8. ASSUME receiveEvents
      PROVE  ChannelTypes' /\ sent' \in 0 .. MaxEvents
  BY <1>1, <1>8, Taken, CoalescerRests DEF ChannelTypes, receiveEvents
<1> QED
  BY <1>2, <1>3, <1>4, <1>5, <1>6, <1>7, <1>8, <1>9, Senders
     DEF Next, flushSends, DispatchStep, invokeEventScript, ScriptEnds, readHandlerList, HandleEvent,
         handleEventReturns, StartStreamEvents, StopStreamEvents, Monitor

\* The handlers' state keeps its types.
LEMMA DispatchTypesStep == ASSUME TypeOK, Next  PROVE DispatchTypes'
<1>1. DispatchTypes /\ ChannelTypes /\ StreamTypes
  BY TypesAre
<1>2. ASSUME UNCHANGED <<handling, invoking, done, ran>>
      PROVE  DispatchTypes'
  BY <1>1, <1>2 DEF DispatchTypes
<1>3. ASSUME receiveEvents
      PROVE  DispatchTypes'
  <2> DEFINE d == [event |-> Head(outEventCh),
                   scripts |-> {f \in ScriptFilters : Matches(f, Head(outEventCh))},
                   streams |-> {}, listed |-> FALSE]
  <2>1. Head(outEventCh) \in EventRecord
    BY <1>1, <1>3, Taken DEF ChannelTypes, receiveEvents
  <2>2. d \in Dispatch
    BY <2>1 DEF Dispatch
  <2>3. handling' = {d} /\ UNCHANGED <<invoking, done, ran>>
    BY <1>3 DEF receiveEvents
  <2> QED
    BY <1>1, <2>2, <2>3 DEF DispatchTypes
<1>4. ASSUME invokeEventScript
      PROVE  DispatchTypes'
  <2> PICK d \in handling : \E f \in d.scripts :
             /\ invoking' = {d.event}
             /\ handling' = {[d EXCEPT !.scripts = @ \ {f}]}
             /\ ran' = Append(ran, [event |-> d.event, script |-> f])
             /\ UNCHANGED done
    BY <1>4 DEF invokeEventScript
  <2>1. PICK f \in d.scripts :
             /\ invoking' = {d.event}
             /\ handling' = {[d EXCEPT !.scripts = @ \ {f}]}
             /\ ran' = Append(ran, [event |-> d.event, script |-> f])
             /\ UNCHANGED done
    OBVIOUS
  <2>2. d \in Dispatch
    BY <1>1 DEF DispatchTypes
  <2>3. [d EXCEPT !.scripts = @ \ {f}] \in Dispatch
    BY <2>2 DEF Dispatch
  <2>4. d.event \in EventRecord /\ f \in ScriptFilters
    BY <2>2 DEF Dispatch
  <2>5. [event |-> d.event, script |-> f] \in Started
    BY <2>4 DEF Started
  <2>6. ran' \in Seq(Started)
    BY <1>1, <2>1, <2>5 DEF DispatchTypes
  <2> QED
    BY <1>1, <2>1, <2>3, <2>4, <2>6 DEF DispatchTypes
<1>5. ASSUME readHandlerList
      PROVE  DispatchTypes'
  <2>1. PICK d \in handling :
             /\ handling' = {[d EXCEPT !.streams = handlers, !.listed = TRUE]}
             /\ UNCHANGED <<invoking, done, ran>>
    BY <1>5 DEF readHandlerList
  <2>2. d \in Dispatch /\ handlers \in SUBSET Handler
    BY <1>1 DEF DispatchTypes, StreamTypes
  <2>3. [d EXCEPT !.streams = handlers, !.listed = TRUE] \in Dispatch
    BY <2>2 DEF Dispatch
  <2> QED
    BY <1>1, <2>1, <2>3 DEF DispatchTypes
<1>6. ASSUME NEW h \in Handler, HandleEvent(h)
      PROVE  DispatchTypes'
  <2>1. PICK d \in handling :
             /\ handling' = {[d EXCEPT !.streams = @ \ {h}]}
             /\ UNCHANGED <<invoking, done, ran>>
    BY <1>6 DEF HandleEvent
  <2>2. d \in Dispatch
    BY <1>1 DEF DispatchTypes
  <2>3. [d EXCEPT !.streams = @ \ {h}] \in Dispatch
    BY <2>2 DEF Dispatch
  <2> QED
    BY <1>1, <2>1, <2>3 DEF DispatchTypes
<1>7. ASSUME handleEventReturns
      PROVE  DispatchTypes'
  <2>1. PICK d \in handling : /\ handling' = {} /\ done' = Append(done, d.event)
                              /\ UNCHANGED <<invoking, ran>>
    BY <1>7 DEF handleEventReturns
  <2>2. d.event \in EventRecord
    BY <1>1 DEF DispatchTypes, Dispatch
  <2> QED
    BY <1>1, <2>1, <2>2 DEF DispatchTypes
<1>8. ASSUME ScriptEnds
      PROVE  DispatchTypes'
  BY <1>1, <1>8 DEF DispatchTypes, ScriptEnds
<1> QED
  BY <1>2, <1>3, <1>4, <1>5, <1>6, <1>7, <1>8
     DEF Next, DispatchStep, Send, teeEvents, coalesce, flush, flushSends, sendCoalesced, receiveKeyEvents,
         StartStreamEvents, StopStreamEvents, Monitor

\* At most one event is with the handlers.
LEMMA HandlingIsOne == ASSUME TypeOK  PROVE Cardinality(handling) \in Nat
<1>1. CASE handling = {}
  BY <1>1, FS_EmptySet
<1>2. CASE handling # {}
  <2>1. PICK d \in handling : TRUE
    BY <1>2
  <2>2. handling = {d}
    BY <2>1 DEF TypeOK
  <2>3. Cardinality(handling) = 1
    BY <2>2, FS_Singleton
  <2> QED
    BY <2>3
<1> QED
  BY <1>1, <1>2

\* The streams keep their types; what one missed was sent.
LEMMA StreamTypesStep ==
  ASSUME TypeOK, OnePlace(Places, sent), Next
  PROVE  StreamTypes'
<1>1. StreamTypes /\ DispatchTypes /\ sent \in 0 .. MaxEvents
  BY TypesAre
<1>2. ASSUME UNCHANGED <<sent, streamVars, streamHistory>>
      PROVE  StreamTypes'
  BY <1>1, <1>2 DEF StreamTypes, streamVars, streamHistory
<1>3. ASSUME NEW type \in EventType, NEW members \in SUBSET Member, Send(type, members)
      PROVE  StreamTypes'
  <2>1. sent' = sent + 1 /\ UNCHANGED <<streamVars, streamHistory>>
    BY <1>3 DEF Send
  <2>2. 1 .. sent \subseteq 1 .. sent'
    BY <1>1, <2>1, Numbers
  <2>3. missed' \in [Handler -> SUBSET (1 .. sent')]
    BY <1>1, <2>1, <2>2 DEF StreamTypes, streamHistory
  <2> QED
    BY <1>1, <2>1, <2>3 DEF StreamTypes, streamVars, streamHistory
<1>4. ASSUME NEW h \in Handler, HandleEvent(h)
      PROVE  StreamTypes'
  <2>1. PICK d \in handling :
             /\ \/ /\ Len(eventCh[h]) < StreamSize
                   /\ eventCh' = [eventCh EXCEPT ![h] = Append(@, d.event)]
                   /\ got' = [got EXCEPT ![h] = Append(@, d.event)]
                   /\ UNCHANGED missed
                \/ /\ missed' = [missed EXCEPT ![h] = @ \cup d.event.ids]
                   /\ UNCHANGED <<eventCh, got>>
                \/ UNCHANGED <<eventCh, got, missed>>
             /\ UNCHANGED <<sent, handlers, filter, since>>
    BY <1>4 DEF HandleEvent
  <2>2. d.event \in EventRecord /\ d.event.ids \subseteq 1 .. sent
    BY <1>1, SentIsBound DEF DispatchTypes, Dispatch
  <2>3. CASE /\ Len(eventCh[h]) < StreamSize
             /\ eventCh' = [eventCh EXCEPT ![h] = Append(@, d.event)]
             /\ got' = [got EXCEPT ![h] = Append(@, d.event)]
             /\ UNCHANGED missed
    <3>1. /\ eventCh[h] \in Seq(EventRecord) /\ got[h] \in Seq(EventRecord)
      BY <1>1 DEF StreamTypes
    <3>2. /\ Append(eventCh[h], d.event) \in Seq(EventRecord)
          /\ Append(got[h], d.event) \in Seq(EventRecord)
          /\ Len(Append(eventCh[h], d.event)) <= StreamSize
      BY <2>2, <2>3, <3>1, Put, Numbers
    <3>3. eventCh' \in [Handler -> Seq(EventRecord)] /\ got' \in [Handler -> Seq(EventRecord)]
      BY <1>1, <2>3, <3>2 DEF StreamTypes
    <3>4. \A g \in Handler : Len(eventCh'[g]) <= StreamSize
      BY <1>1, <2>3, <3>2 DEF StreamTypes
    <3> QED
      BY <1>1, <2>1, <2>3, <3>3, <3>4 DEF StreamTypes
  <2>4. CASE /\ missed' = [missed EXCEPT ![h] = @ \cup d.event.ids]
             /\ UNCHANGED <<eventCh, got>>
    <3>1. missed' \in [Handler -> SUBSET (1 .. sent)]
      BY <1>1, <2>2, <2>4 DEF StreamTypes
    <3> QED
      BY <1>1, <2>1, <2>4, <3>1 DEF StreamTypes
  <2>5. CASE UNCHANGED <<eventCh, got, missed>>
    BY <1>1, <2>1, <2>5 DEF StreamTypes
  <2> QED
    BY <2>1, <2>3, <2>4, <2>5
<1>5. ASSUME NEW h \in Handler, NEW f \in Filter, StartStreamEvents(h, f)
      PROVE  StreamTypes'
  <2>1. f \in SUBSET EventType
    BY PipelineAssumption DEF EventType
  <2>2. Len(done) + Cardinality(handling) \in Nat
    BY <1>1, HandlingIsOne DEF DispatchTypes
  <2>3. since' \in [Handler -> Nat] /\ filter' \in [Handler -> SUBSET EventType]
        /\ handlers' \subseteq Handler
    BY <1>1, <1>5, <2>1, <2>2 DEF StreamTypes, StartStreamEvents
  <2> QED
    BY <1>1, <1>5, <2>3 DEF StreamTypes, StartStreamEvents
<1>6. ASSUME NEW h \in Handler, StopStreamEvents(h)
      PROVE  StreamTypes'
  BY <1>1, <1>6 DEF StreamTypes, StopStreamEvents, streamHistory
<1>7. ASSUME NEW h \in Handler, Monitor(h)
      PROVE  StreamTypes'
  <2>1. eventCh[h] \in Seq(EventRecord) /\ eventCh[h] # <<>> /\ Len(eventCh[h]) <= StreamSize
    BY <1>1, <1>7 DEF StreamTypes, Monitor
  <2>2. Tail(eventCh[h]) \in Seq(EventRecord) /\ Len(Tail(eventCh[h])) <= StreamSize
    BY <2>1, Taken, Numbers
  <2>3. eventCh' \in [Handler -> Seq(EventRecord)]
        /\ \A g \in Handler : Len(eventCh'[g]) <= StreamSize
    BY <1>1, <1>7, <2>2 DEF StreamTypes, Monitor
  <2> QED
    BY <1>1, <1>7, <2>3 DEF StreamTypes, Monitor, streamHistory
<1> QED
  <2>2. CASE \/ teeEvents \/ coalesce \/ flush \/ flushSends \/ receiveKeyEvents \/ receiveEvents
             \/ invokeEventScript \/ ScriptEnds \/ readHandlerList \/ handleEventReturns
    BY <1>2, <2>2
       DEF teeEvents, coalesce, flush, flushSends, sendCoalesced, receiveKeyEvents, receiveEvents,
           invokeEventScript, ScriptEnds, readHandlerList, handleEventReturns
  <2> QED
    BY <1>3, <1>4, <1>5, <1>6, <1>7, <2>2, Senders DEF Next, DispatchStep

-----------------------------------------------------------------------------
(* An event is at one place. *)

\* An event that is sent comes in at one place.
LEMMA Entered ==
  ASSUME NEW P, NEW Q, DOMAIN P = 1 .. 11, DOMAIN Q = 1 .. 11, NEW n \in Nat,
         NEW i \in 1 .. 11, Q[i] = P[i] \cup {n + 1},
         \A k \in 1 .. 11 : k # i => Q[k] = P[k],
         OnePlace(P, n)
  PROVE  OnePlace(Q, n + 1)
<1>1. \A k \in 1 .. 11 : P[k] \subseteq 1 .. n
  BY DEF OnePlace
<1>2. \A k \in 1 .. 11 : n + 1 \notin P[k]
  BY <1>1
<1>3. ASSUME NEW k \in 1 .. 11, NEW l \in 1 .. 11, k # l
      PROVE  Q[k] \cap Q[l] = {}
  <2>1. P[k] \cap P[l] = {}
    BY <1>3 DEF OnePlace
  <2> QED
    BY <1>2, <1>3, <2>1
<1>4. \A x : x \in UNION {Q[k] : k \in DOMAIN Q} <=> x \in UNION {P[k] : k \in DOMAIN P} \/ x = n + 1
  <2>1. \A x : \A k \in 1 .. 11 : x \in Q[k] <=> x \in P[k] \/ (k = i /\ x = n + 1)
    OBVIOUS
  <2> QED
    BY <2>1
<1>5. 1 .. (n + 1) = (1 .. n) \cup {n + 1}
  OBVIOUS
<1>6. UNION {Q[k] : k \in DOMAIN Q} = 1 .. (n + 1)
  BY <1>4, <1>5 DEF OnePlace
<1> QED
  BY <1>3, <1>6 DEF OnePlace

\* Places Q are places P once the events S have gone from the i-th to the j-th.
Moves(P, Q, i, j, S) ==
    /\ DOMAIN P = 1 .. 11 /\ DOMAIN Q = 1 .. 11
    /\ i \in 1 .. 11 /\ j \in 1 .. 11 /\ i # j
    /\ S \subseteq P[i]
    /\ Q[i] = P[i] \ S /\ Q[j] = P[j] \cup S
    /\ \A k \in 1 .. 11 : k \notin {i, j} => Q[k] = P[k]

\* They are at one place each again.
LEMMA MovesKeep ==
  ASSUME NEW n \in Nat, NEW P, NEW Q, NEW i, NEW j, NEW S, Moves(P, Q, i, j, S), OnePlace(P, n)
  PROVE  OnePlace(Q, n)
BY Moved DEF Moves

\* A step that moves the events S from the i-th place to the j-th.
MovesEvents(i, j, S) ==
    /\ i \in 1 .. 11 /\ j \in 1 .. 11 /\ i # j
    /\ S \subseteq Places[i]
    /\ Places'[i] = Places[i] \ S /\ Places'[j] = Places[j] \cup S
    /\ \A k \in 1 .. 11 : k \notin {i, j} => Places'[k] = Places[k]

\* Such a step leaves each event at one place.
LEMMA EventsMove ==
  ASSUME OnePlace(Places, sent), sent \in Nat, NEW i, NEW j, NEW S, MovesEvents(i, j, S)
  PROVE  OnePlace(Places', sent)
<1>1. DOMAIN Places = 1 .. 11 /\ DOMAIN Places' = 1 .. 11
  BY PlacesAre, PlacesWillBe
<1> QED
  BY <1>1, Moved DEF MovesEvents

\* Every step leaves each event at one place.
LEMMA PlacesStep ==
  ASSUME TypeOK, OnePlace(Places, sent), ApartOK, CoalescerOK, Next
  PROVE  OnePlace(Places, sent)' /\ ApartOK'
<1>1. /\ inEventCh \in Seq(EventRecord) /\ teedCh \in Seq(EventRecord)
      /\ keyCh \in Seq(EventRecord) /\ outEventCh \in Seq(EventRecord)
      /\ done \in Seq(EventRecord) /\ sent \in Nat
      /\ \A d, e \in handling : d = e
      /\ \A d \in handling : d \in Dispatch
  BY TypesAre, Numbers DEF ChannelTypes, DispatchTypes
<1>2. \A i, j \in 1 .. 11 : i # j => Places[i] \cap Places[j] = {}
  BY Placed
<1>3. ASSUME UNCHANGED <<sent, channels, coalescer, dropped, answered, done>>, Begun' = Begun
      PROVE  OnePlace(Places, sent)' /\ ApartOK'
  <2>1. Places' = Places /\ sent' = sent
    BY <1>3, CoalescerRests DEF Places, channels, Within, Handled
  <2> QED
    BY <1>3, <2>1 DEF OnePlace, ApartOK, channels, Apart
<1>4. ASSUME NEW type \in EventType, NEW members \in SUBSET Member, Send(type, members)
      PROVE  OnePlace(Places, sent)' /\ ApartOK'
  <2> DEFINE e == Event(type, {sent + 1}, members)
  <2>1. e \in EventRecord /\ e.ids = {sent + 1}
    BY <1>1, <1>4 DEF Event, EventRecord
  <2>2. /\ sent' = sent + 1 /\ inEventCh' = Append(inEventCh, e)
        /\ UNCHANGED <<teedCh, keyCh, outEventCh, coalescer, dropped, handling, answered, done>>
    BY <1>4 DEF Send
  <2> HIDE DEF e
  <2>3. Places[1] \subseteq 1 .. sent
    BY Placed
  <2>4. Within(inEventCh)' = Within(inEventCh) \cup {sent + 1} /\ Apart(inEventCh')
    <3>1. Within(inEventCh) \cap {sent + 1} = {}
      BY <1>1, <2>3, PlacesAre
    <3> QED
      BY <1>1, <2>1, <2>2, <3>1, Put DEF ApartOK
  <2>5. UNCHANGED <<Within(teedCh), Within(keyCh), Within(outEventCh), Begun, Handled>>
    BY <2>2 DEF Within, Begun, Handled
  <2>6. OnePlace(Places', sent + 1)
    <3>1. Places'[1] = Places[1] \cup {sent + 1} /\ \A k \in 1 .. 11 : k # 1 => Places'[k] = Places[k]
      BY <2>2, <2>4, <2>5, CoalescerRests, PlacesAre, PlacesWillBe
    <3>2. DOMAIN Places = 1 .. 11 /\ DOMAIN Places' = 1 .. 11
      BY PlacesAre, PlacesWillBe
    <3>3. 1 \in 1 .. 11
      OBVIOUS
    <3> QED
      BY <1>1, <3>1, <3>2, <3>3, Entered
  <2> QED
    BY <2>2, <2>4, <2>6 DEF OnePlace, ApartOK, Apart
<1>5. ASSUME teeEvents
      PROVE  OnePlace(Places, sent)' /\ ApartOK'
  <2> DEFINE e == Head(inEventCh)
  <2>1. /\ e \in EventRecord /\ inEventCh' = Tail(inEventCh)
        /\ Within(inEventCh') = Within(inEventCh) \ e.ids /\ e.ids \subseteq Within(inEventCh)
        /\ Apart(inEventCh')
    BY <1>1, <1>5, Taken DEF ApartOK, teeEvents
  <2>2. /\ UNCHANGED <<sent, keyCh, outEventCh, coalescer, handling, answered, done>>
        /\ \/ teedCh' = Append(teedCh, e) /\ UNCHANGED dropped
           \/ dropped' = dropped \cup e.ids /\ UNCHANGED teedCh
    BY <1>5 DEF teeEvents
  <2> HIDE DEF e
  <2>3. UNCHANGED <<Within(keyCh), Within(outEventCh), Begun, Handled>>
    BY <2>2 DEF Within, Begun, Handled
  <2>4. CASE teedCh' = Append(teedCh, e) /\ UNCHANGED dropped
    <3>1. Within(teedCh) \cap e.ids = {}
      BY <1>2, <2>1, PlacesAre
    <3>2. Within(teedCh') = Within(teedCh) \cup e.ids /\ Apart(teedCh')
      BY <1>1, <2>1, <2>4, <3>1, Put DEF ApartOK
    <3>3. OnePlace(Places', sent)
      <4>1. MovesEvents(1, 2, e.ids)
        BY <1>1, <2>1, <2>2, <2>3, <2>4, <3>2, CoalescerRests, PlacesAre, PlacesWillBe DEF MovesEvents
      <4> QED
        BY <1>1, <4>1, EventsMove
    <3> QED
      BY <2>1, <2>2, <3>2, <3>3 DEF OnePlace, ApartOK, Apart
  <2>5. CASE dropped' = dropped \cup e.ids /\ UNCHANGED teedCh
    <3>1. Within(teedCh') = Within(teedCh)
      BY <2>5
    <3>2. OnePlace(Places', sent)
      <4>1. MovesEvents(1, 9, e.ids)
        BY <1>1, <2>1, <2>2, <2>3, <2>5, <3>1, CoalescerRests, PlacesAre, PlacesWillBe DEF MovesEvents
      <4> QED
        BY <1>1, <4>1, EventsMove
    <3> QED
      BY <2>1, <2>2, <2>5, <3>2 DEF OnePlace, ApartOK, Apart
  <2> QED
    BY <2>2, <2>4, <2>5
<1>6. ASSUME coalesce
      PROVE  OnePlace(Places, sent)' /\ ApartOK'
  <2> DEFINE e == Head(teedCh)
  <2>1. /\ e \in EventRecord /\ teedCh' = Tail(teedCh)
        /\ Within(teedCh') = Within(teedCh) \ e.ids /\ e.ids \subseteq Within(teedCh)
        /\ Apart(teedCh')
    BY <1>1, <1>6, Taken DEF ApartOK, coalesce
  <2>2. UNCHANGED <<sent, inEventCh, outEventCh, dropped, handling, answered, done>>
    BY <1>6 DEF coalesce
  <2>3. UNCHANGED <<Within(inEventCh), Within(outEventCh), Begun, Handled>>
    BY <2>2 DEF Within, Begun, Handled
  <2>4. /\ flushing' = flushing /\ Flushing' = Flushing
        /\ \/ keyCh' = Append(keyCh, e) /\ UNCHANGED <<newEvents, leftOut>>
           \/ /\ UNCHANGED keyCh
              /\ \E replaced \in SUBSET newEvents :
                    /\ newEvents' = (newEvents \ replaced) \cup {e}
                    /\ leftOut' = leftOut \cup UNION {x.ids : x \in replaced}
    BY <1>6, Coalesces DEF Flushing
  <2> HIDE DEF e
  <2>5. CASE keyCh' = Append(keyCh, e) /\ UNCHANGED <<newEvents, leftOut>>
    <3>1. Within(keyCh) \cap e.ids = {}
      BY <1>2, <2>1, PlacesAre
    <3>2. Within(keyCh') = Within(keyCh) \cup e.ids /\ Apart(keyCh')
      BY <1>1, <2>1, <2>5, <3>1, Put DEF ApartOK
    <3>3. Waiting' = Waiting
      BY <2>5 DEF Waiting
    <3>4. OnePlace(Places', sent)
      <4>1. MovesEvents(2, 4, e.ids)
        BY <1>1, <2>1, <2>2, <2>3, <2>4, <2>5, <3>2, <3>3, PlacesAre, PlacesWillBe DEF MovesEvents
      <4> QED
        BY <1>1, <4>1, EventsMove
    <3> QED
      BY <2>1, <2>2, <3>2, <3>4 DEF OnePlace, ApartOK, Apart
  <2>6. ASSUME UNCHANGED keyCh, NEW replaced \in SUBSET newEvents,
               newEvents' = (newEvents \ replaced) \cup {e},
               leftOut' = leftOut \cup UNION {x.ids : x \in replaced}
        PROVE  OnePlace(Places, sent)' /\ ApartOK'
    <3> DEFINE R == UNION {x.ids : x \in replaced}
    <3>1. R \subseteq Waiting
      BY DEF Waiting
    <3>2. \A x \in newEvents \ replaced, y \in replaced : x.ids \cap y.ids = {}
      BY DEF CoalescerOK, Disjoint
    <3>3. Waiting' = (Waiting \ R) \cup e.ids
      BY <2>6, <3>2 DEF Waiting
    <3>4. Within(keyCh') = Within(keyCh) /\ leftOut' = leftOut \cup R
      BY <2>6
    <3> HIDE DEF R
    <3>5. e.ids \cap Waiting = {} /\ e.ids \subseteq Places[2] /\ R \subseteq Places[3]
      BY <1>2, <2>1, <3>1, PlacesAre
    <3>6. PICK P : P = [Places EXCEPT ![3] = Waiting \ R, ![11] = leftOut \cup R]
      OBVIOUS
    <3>7. Moves(Places, P, 3, 11, R)
      BY <3>5, <3>6, PlacesAre DEF Moves
    <3>8. Moves(P, Places', 2, 3, e.ids)
      <4>1. /\ P[1] = Within(inEventCh) /\ P[2] = Within(teedCh) /\ P[3] = Waiting \ R
            /\ P[4] = Within(keyCh) /\ P[5] = Within(outEventCh) /\ P[6] = Begun
            /\ P[7] = Handled /\ P[8] = answered /\ P[9] = dropped
            /\ P[10] = Flushing /\ P[11] = leftOut \cup R /\ DOMAIN P = 1 .. 11
        BY <3>6, PlacesAre
      <4>2. \A k \in 1 .. 11 : k \notin {2, 3} => Places'[k] = P[k]
        <5>1. /\ Places'[1] = P[1] /\ Places'[5] = P[5] /\ Places'[6] = P[6]
              /\ Places'[7] = P[7] /\ Places'[8] = P[8] /\ Places'[9] = P[9]
          BY <2>2, <2>3, <4>1, PlacesWillBe
        <5>2. Places'[4] = P[4] /\ Places'[10] = P[10] /\ Places'[11] = P[11]
          BY <2>4, <3>4, <4>1, PlacesWillBe
        <5> QED
          BY <5>1, <5>2
      <4>3. Places'[2] = P[2] \ e.ids /\ Places'[3] = P[3] \cup e.ids /\ e.ids \subseteq P[2]
        BY <2>1, <3>3, <4>1, PlacesWillBe
      <4> QED
        BY <4>1, <4>2, <4>3, PlacesWillBe DEF Moves
    <3>9. OnePlace(Places', sent)
      BY <1>1, <3>7, <3>8, MovesKeep
    <3> QED
      BY <2>1, <2>2, <2>6, <3>9 DEF OnePlace, ApartOK, Apart
  <2> QED
    BY <2>4, <2>5, <2>6
<1>7. ASSUME flush
      PROVE  OnePlace(Places, sent)' /\ ApartOK'
  <2>1. PICK S \in SUBSET Waiting : Flushing' = Waiting \ S /\ leftOut' = leftOut \cup S
    BY <1>7, Flushes
  <2>2. /\ newEvents' = {} /\ flushing = {}
        /\ UNCHANGED <<sent, channels, dropped, handling, answered, done>>
    BY <1>7 DEF flush
  <2>3. /\ UNCHANGED <<Within(inEventCh), Within(teedCh), Within(keyCh), Within(outEventCh), Begun, Handled>>
        /\ Waiting' = {} /\ Flushing = {}
    BY <2>2 DEF Within, Begun, Handled, channels, Waiting, Flushing
  <2>4. PICK P : P = [Places EXCEPT ![3] = Waiting \ S, ![11] = leftOut \cup S]
    OBVIOUS
  <2>5. Moves(Places, P, 3, 11, S)
    BY <2>4, PlacesAre DEF Moves
  <2>6. Moves(P, Places', 3, 10, P[3])
    <3>1. /\ P[1] = Within(inEventCh) /\ P[2] = Within(teedCh) /\ P[3] = Waiting \ S
          /\ P[4] = Within(keyCh) /\ P[5] = Within(outEventCh) /\ P[6] = Begun
          /\ P[7] = Handled /\ P[8] = answered /\ P[9] = dropped
          /\ P[10] = Flushing /\ P[11] = leftOut \cup S /\ DOMAIN P = 1 .. 11
      BY <2>4, PlacesAre
    <3>2. \A k \in 1 .. 11 : k \notin {3, 10} => Places'[k] = P[k]
      BY <2>1, <2>2, <2>3, <3>1, PlacesWillBe
    <3>3. Places'[3] = P[3] \ P[3] /\ Places'[10] = P[10] \cup P[3]
      BY <2>1, <2>3, <3>1, PlacesWillBe
    <3> QED
      BY <3>1, <3>2, <3>3, PlacesWillBe DEF Moves
  <2>7. OnePlace(Places', sent)
    <3>1. OnePlace(P, sent)
      BY <1>1, <2>5, MovesKeep
    <3> QED
      BY <1>1, <2>6, <3>1, MovesKeep
  <2> QED
    BY <2>2, <2>7 DEF OnePlace, ApartOK, Apart, channels
<1>14. ASSUME NEW e \in flushing, sendCoalesced(e)
       PROVE  OnePlace(Places, sent)' /\ ApartOK'
  <2>1. /\ keyCh' = Append(keyCh, e) /\ flushing' = flushing \ {e}
        /\ UNCHANGED <<sent, inEventCh, teedCh, outEventCh, newEvents, leftOut, dropped, handling,
                       answered, done>>
    BY <1>14 DEF sendCoalesced
  <2>2. e \in EventRecord /\ e.ids \subseteq Flushing
    BY TypesAre DEF ChannelTypes, Flushing
  <2>3. Flushing' = Flushing \ e.ids
    <3>1. \A f \in flushing \ {e} : f.ids \cap e.ids = {}
      BY DEF CoalescerOK, Disjoint
    <3> QED
      BY <2>1, <3>1 DEF Flushing
  <2>4. /\ UNCHANGED <<Within(inEventCh), Within(teedCh), Within(outEventCh), Begun, Handled, Waiting>>
    BY <2>1 DEF Within, Begun, Handled, Waiting
  <2>5. Within(keyCh) \cap e.ids = {}
    BY <1>2, <2>2, PlacesAre
  <2>6. Within(keyCh') = Within(keyCh) \cup e.ids /\ Apart(keyCh')
    BY <1>1, <2>1, <2>2, <2>5, Put DEF ApartOK
  <2>7. OnePlace(Places', sent)
    <3>1. MovesEvents(10, 4, e.ids)
      BY <1>1, <2>1, <2>2, <2>3, <2>4, <2>6, PlacesAre, PlacesWillBe DEF MovesEvents
    <3> QED
      BY <1>1, <3>1, EventsMove
  <2> QED
    BY <2>1, <2>6, <2>7 DEF OnePlace, ApartOK, Apart
<1>8. ASSUME receiveKeyEvents
      PROVE  OnePlace(Places, sent)' /\ ApartOK'
  <2> DEFINE e == Head(keyCh)
  <2>1. /\ e \in EventRecord /\ keyCh' = Tail(keyCh)
        /\ Within(keyCh') = Within(keyCh) \ e.ids /\ e.ids \subseteq Within(keyCh)
        /\ Apart(keyCh')
    BY <1>1, <1>8, Taken DEF ApartOK, receiveKeyEvents
  <2>2. /\ UNCHANGED <<sent, inEventCh, teedCh, coalescer, dropped, handling, done>>
        /\ \/ outEventCh' = Append(outEventCh, e) /\ UNCHANGED answered
           \/ answered' = answered \cup e.ids /\ UNCHANGED outEventCh
    BY <1>8 DEF receiveKeyEvents
  <2> HIDE DEF e
  <2>3. UNCHANGED <<Within(inEventCh), Within(teedCh), Begun, Handled>>
    BY <2>2 DEF Within, Begun, Handled
  <2>4. CASE outEventCh' = Append(outEventCh, e) /\ UNCHANGED answered
    <3>1. Within(outEventCh) \cap e.ids = {}
      BY <1>2, <2>1, PlacesAre
    <3>2. Within(outEventCh') = Within(outEventCh) \cup e.ids /\ Apart(outEventCh')
      BY <1>1, <2>1, <2>4, <3>1, Put DEF ApartOK
    <3>3. OnePlace(Places', sent)
      <4>1. MovesEvents(4, 5, e.ids)
        BY <1>1, <2>1, <2>2, <2>3, <2>4, <3>2, CoalescerRests, PlacesAre, PlacesWillBe DEF MovesEvents
      <4> QED
        BY <1>1, <4>1, EventsMove
    <3> QED
      BY <2>1, <2>2, <3>2, <3>3 DEF OnePlace, ApartOK, Apart
  <2>5. CASE answered' = answered \cup e.ids /\ UNCHANGED outEventCh
    <3>1. Within(outEventCh') = Within(outEventCh)
      BY <2>5
    <3>2. OnePlace(Places', sent)
      <4>1. MovesEvents(4, 8, e.ids)
        BY <1>1, <2>1, <2>2, <2>3, <2>5, <3>1, CoalescerRests, PlacesAre, PlacesWillBe DEF MovesEvents
      <4> QED
        BY <1>1, <4>1, EventsMove
    <3> QED
      BY <2>1, <2>2, <2>5, <3>2 DEF OnePlace, ApartOK, Apart
  <2> QED
    BY <2>2, <2>4, <2>5
<1>9. ASSUME receiveEvents
      PROVE  OnePlace(Places, sent)' /\ ApartOK'
  <2> DEFINE e == Head(outEventCh)
  <2>1. /\ e \in EventRecord /\ outEventCh' = Tail(outEventCh)
        /\ Within(outEventCh') = Within(outEventCh) \ e.ids /\ e.ids \subseteq Within(outEventCh)
        /\ Apart(outEventCh')
    BY <1>1, <1>9, Taken DEF ApartOK, receiveEvents
  <2>2. /\ UNCHANGED <<sent, inEventCh, teedCh, keyCh, coalescer, dropped, answered, done>>
        /\ handling = {}
        /\ handling' = {[event |-> e, scripts |-> {f \in ScriptFilters : Matches(f, e)},
                         streams |-> {}, listed |-> FALSE]}
    BY <1>9 DEF receiveEvents
  <2> HIDE DEF e
  <2>3. Begun = {} /\ Begun' = e.ids
    BY <2>2 DEF Begun
  <2>4. UNCHANGED <<Within(inEventCh), Within(teedCh), Within(keyCh), Handled>>
    BY <2>2 DEF Within, Handled
  <2>5. OnePlace(Places', sent)
    <3>1. MovesEvents(5, 6, e.ids)
      BY <1>1, <2>1, <2>2, <2>3, <2>4, CoalescerRests, PlacesAre, PlacesWillBe DEF MovesEvents
    <3> QED
      BY <1>1, <3>1, EventsMove
  <2> QED
    BY <2>1, <2>2, <2>5 DEF OnePlace, ApartOK, Apart
<1>10. ASSUME handleEventReturns
      PROVE  OnePlace(Places, sent)' /\ ApartOK'
  <2>1. PICK d \in handling : /\ handling' = {} /\ done' = Append(done, d.event)
                              /\ UNCHANGED <<sent, channels, coalescer, dropped, answered>>
    BY <1>10 DEF handleEventReturns
  <2>2. d.event \in EventRecord
    BY <1>1 DEF Dispatch
  <2>3. handling = {d}
    BY <1>1
  <2>4. Begun = d.event.ids /\ Begun' = {}
    BY <2>1, <2>3 DEF Begun
  <2>5. Handled' = Handled \cup d.event.ids
    BY <1>1, <2>1, <2>2, Put DEF Handled
  <2>6. UNCHANGED <<Within(inEventCh), Within(teedCh), Within(keyCh), Within(outEventCh)>>
    BY <2>1 DEF Within, channels
  <2>7. OnePlace(Places', sent)
    <3>1. MovesEvents(6, 7, d.event.ids)
      BY <1>1, <2>1, <2>4, <2>5, <2>6, CoalescerRests, PlacesAre, PlacesWillBe DEF MovesEvents
    <3> QED
      BY <1>1, <3>1, EventsMove
  <2> QED
    BY <2>1, <2>7 DEF OnePlace, ApartOK, Apart, channels
<1>11. ASSUME NEW d \in handling, NEW e, handling' = {e}, e.event = d.event
       PROVE  Begun' = Begun
  <2>1. handling = {d}
    BY <1>1
  <2> QED
    BY <1>11, <2>1 DEF Begun
<1>12. ASSUME invokeEventScript \/ readHandlerList \/ \E h \in Handler : HandleEvent(h)
       PROVE  OnePlace(Places, sent)' /\ ApartOK'
  <2>1. PICK d \in handling : \E e : handling' = {e} /\ e.event = d.event
    <3>1. CASE invokeEventScript
      <4>1. PICK d \in handling : \E f : handling' = {[d EXCEPT !.scripts = @ \ {f}]}
        BY <3>1 DEF invokeEventScript
      <4>2. PICK f : handling' = {[d EXCEPT !.scripts = @ \ {f}]}
        BY <4>1
      <4>3. [d EXCEPT !.scripts = @ \ {f}].event = d.event
        BY <1>1 DEF Dispatch
      <4> QED
        BY <4>2, <4>3
    <3>2. CASE readHandlerList
      <4>1. PICK d \in handling : handling' = {[d EXCEPT !.streams = handlers, !.listed = TRUE]}
        BY <3>2 DEF readHandlerList
      <4>2. [d EXCEPT !.streams = handlers, !.listed = TRUE].event = d.event
        BY <1>1 DEF Dispatch
      <4> QED
        BY <4>1, <4>2
    <3>3. CASE \E h \in Handler : HandleEvent(h)
      <4>1. PICK h \in Handler : HandleEvent(h)
        BY <3>3
      <4>2. PICK d \in handling : handling' = {[d EXCEPT !.streams = @ \ {h}]}
        BY <4>1 DEF HandleEvent
      <4>3. [d EXCEPT !.streams = @ \ {h}].event = d.event
        BY <1>1 DEF Dispatch
      <4> QED
        BY <4>2, <4>3
    <3> QED
      BY <1>12, <3>1, <3>2, <3>3
  <2>2. Begun' = Begun
    BY <1>11, <2>1
  <2>3. UNCHANGED <<sent, channels, coalescer, dropped, answered, done>>
    BY <1>12 DEF invokeEventScript, readHandlerList, HandleEvent
  <2> QED
    BY <1>3, <2>2, <2>3
<1>13. ASSUME UNCHANGED handling
       PROVE  Begun' = Begun
  BY <1>13 DEF Begun
<1> QED
  BY <1>3, <1>4, <1>5, <1>6, <1>7, <1>8, <1>9, <1>10, <1>12, <1>13, <1>14, Senders
     DEF Next, flushSends, DispatchStep, ScriptEnds, StartStreamEvents, StopStreamEvents, Monitor


\* The coalescer keeps one event of a member, and sends one of a type.
LEMMA CoalescerStep ==
  ASSUME TypeOK, OnePlace(Places, sent), CoalescerOK, Next
  PROVE  CoalescerOK'
<1>1. ASSUME UNCHANGED coalescer
      PROVE  CoalescerOK'
  BY <1>1 DEF CoalescerOK, Disjoint, coalescer
<1>2. ASSUME coalesce
      PROVE  CoalescerOK'
  <2> PICK e : e = Head(teedCh)
    OBVIOUS
  <2>1. flushing' = {} /\ flushing = {}
    BY <1>2, Coalesces
  <2>2. CASE UNCHANGED newEvents
    BY <2>1, <2>2 DEF CoalescerOK, Disjoint
  <2>3. ASSUME NEW replaced \in SUBSET newEvents, IsMemberEvent(e),
               newEvents' = (newEvents \ replaced) \cup {e},
               \A x \in newEvents \ replaced : x.of \cap e.of = {}
        PROVE  CoalescerOK'
    <3>1. e.ids \subseteq Within(teedCh)
      BY <1>2, TypesAre, Taken DEF ChannelTypes, coalesce
    <3>2. Within(teedCh) \cap Waiting = {}
      BY Placed, PlacesAre
    <3>3. \A x \in newEvents : x.ids \cap e.ids = {}
      BY <3>1, <3>2 DEF Waiting
    <3>4. Disjoint(newEvents')
      BY <2>3, <3>3 DEF CoalescerOK, Disjoint
    <3>5. \A x \in newEvents' : IsMemberEvent(x)
      BY <2>3 DEF CoalescerOK
    <3> QED
      BY <2>1, <3>4, <3>5 DEF CoalescerOK, Disjoint
  <2> QED
    BY <1>2, <2>2, <2>3, Coalesces
<1>3. ASSUME flush
      PROVE  CoalescerOK'
  BY <1>3, Flushes DEF CoalescerOK, Disjoint
<1>4. ASSUME NEW e \in flushing, sendCoalesced(e)
      PROVE  CoalescerOK'
  BY <1>4 DEF CoalescerOK, Disjoint, sendCoalesced
<1> QED
  BY <1>1, <1>2, <1>3, <1>4
     DEF Next, DispatchStep, flushSends, Send, teeEvents, receiveKeyEvents, receiveEvents,
         invokeEventScript, ScriptEnds, readHandlerList, HandleEvent, handleEventReturns,
         StartStreamEvents, StopStreamEvents, Monitor

-----------------------------------------------------------------------------
(* Events stay in line. *)

\* What is ahead of an event altogether may be so but for being overtaken.
LEMMA StrictlyBefore == \A e, f : Strictly(e, f) => Before(e, f)
BY DEF Strictly, Before

\* What is in a channel is an event.
LEMMA AreEvents ==
  ASSUME NEW ch \in Seq(EventRecord)
  PROVE  \A e \in Elems(ch) : e \in EventRecord
BY DEF Elems

\* An event that is ahead of everything stays ahead.
Keeps == \A e \in EventRecord : AheadOut(e) => AheadOut(e)'

\* Every step keeps events in line, and what is ahead of them all ahead.
LEMMA LineStep ==
  ASSUME TypeOK, OnePlace(Places, sent), CoalescerOK, LineOK, Next
  PROVE  LineOK' /\ Keeps
<1>1. /\ inEventCh \in Seq(EventRecord) /\ teedCh \in Seq(EventRecord)
      /\ keyCh \in Seq(EventRecord) /\ outEventCh \in Seq(EventRecord)
      /\ sent \in Nat
      /\ newEvents \subseteq EventRecord /\ flushing \subseteq EventRecord
  BY TypesAre, Numbers DEF ChannelTypes
<1>2. ASSUME UNCHANGED <<sent, channels, coalescer>>
      PROVE  LineOK' /\ Keeps
  BY <1>2, CoalescerRests DEF LineOK, Keeps, channels, Elems, Increasing, Ordered,
              AheadIn, AheadTeed, AheadNew, AheadFlush, AheadKey, AheadOut
<1>3. ASSUME NEW type \in EventType, NEW members \in SUBSET Member, Send(type, members)
      PROVE  LineOK' /\ Keeps
  <2> DEFINE s == Event(type, {sent + 1}, members)
  <2>1. s \in EventRecord /\ s.ids = {sent + 1}
    BY <1>1, <1>3 DEF Event, EventRecord
  <2>2. /\ sent' = sent + 1 /\ inEventCh' = Append(inEventCh, s)
        /\ UNCHANGED <<teedCh, keyCh, outEventCh, newEvents, flushing, Waiting>>
    BY <1>3, CoalescerRests DEF Send
  <2> HIDE DEF s
  <2>3. ASSUME NEW e \in EventRecord, \A m \in e.ids : m <= sent
        PROVE  Strictly(e, s) /\ \A m \in e.ids : m <= sent'
    BY <1>1, <2>1, <2>2, <2>3 DEF Strictly, EventRecord
  <2>4. Elems(inEventCh') = Elems(inEventCh) \cup {s} /\ Increasing(inEventCh')
    BY <1>1, <2>1, <2>2, <2>3, AreEvents, Put DEF LineOK
  <2>5. \A e \in EventRecord : AheadIn(e) => AheadIn(e)'
    BY <2>3, <2>4 DEF AheadIn
  <2>6. \A e \in EventRecord : AheadTeed(e) => AheadTeed(e)'
    BY <2>2, <2>5 DEF AheadTeed
  <2>7. \A e \in EventRecord : AheadNew(e) => AheadNew(e)'
    BY <2>2, <2>6 DEF AheadNew
  <2>14. \A e \in EventRecord : AheadFlush(e) => AheadFlush(e)'
    BY <2>2, <2>7 DEF AheadFlush
  <2>8. \A e \in EventRecord : AheadKey(e) => AheadKey(e)'
    BY <2>2, <2>14 DEF AheadKey
  <2>9. Keeps
    BY <2>2, <2>8 DEF AheadOut, Keeps
  <2>10. \A e \in Elems(inEventCh') : \A m \in e.ids : m <= sent'
    <3>1. \A e \in Elems(inEventCh) : \A m \in e.ids : m <= sent'
      BY <1>1, <2>2, <2>3, AreEvents DEF LineOK
    <3>2. \A m \in s.ids : m <= sent'
      BY <1>1, <2>1, <2>2
    <3> QED
      BY <2>4, <3>1, <3>2
  <2>11. \A e \in newEvents' \cup flushing' : AheadTeed(e)'
    BY <1>1, <2>2, <2>6 DEF LineOK
  <2>12. /\ Increasing(teedCh)' /\ Ordered(keyCh)' /\ Ordered(outEventCh)'
    BY <2>2 DEF LineOK, Increasing, Ordered
  <2>13. /\ \A e \in Elems(teedCh') : AheadIn(e)'
         /\ \A e \in Elems(keyCh') : AheadFlush(e)'
         /\ \A e \in Elems(outEventCh') : AheadKey(e)'
    BY <1>1, <2>2, <2>5, <2>8, <2>14, AreEvents DEF LineOK
  <2> QED
    BY <2>4, <2>9, <2>10, <2>11, <2>12, <2>13 DEF LineOK
<1>4. ASSUME teeEvents
      PROVE  LineOK' /\ Keeps
  <2> PICK s : s = Head(inEventCh)
    OBVIOUS
  <2>1. /\ s \in EventRecord /\ inEventCh' = Tail(inEventCh) /\ s \in Elems(inEventCh)
        /\ Elems(inEventCh') \subseteq Elems(inEventCh) /\ Increasing(inEventCh')
        /\ \A f \in Elems(inEventCh') : Strictly(s, f)
    BY <1>1, <1>4, Taken DEF LineOK, teeEvents
  <2>2. /\ UNCHANGED <<sent, keyCh, outEventCh, newEvents, flushing, Waiting>>
        /\ teedCh' = Append(teedCh, s) \/ teedCh' = teedCh
    BY <1>4, CoalescerRests DEF teeEvents
  <2>3. \A f \in Elems(teedCh) : Strictly(f, s)
    BY <2>1 DEF LineOK, AheadIn
  <2>4. Elems(teedCh') \subseteq Elems(teedCh) \cup {s} /\ Increasing(teedCh')
    <3>1. CASE teedCh' = Append(teedCh, s)
      BY <1>1, <2>1, <2>3, <3>1, Put DEF LineOK
    <3>2. CASE teedCh' = teedCh
      BY <3>2 DEF LineOK
    <3> QED
      BY <2>2, <3>1, <3>2
  <2>5. \A e : AheadIn(e) => AheadIn(e)' /\ Strictly(e, s)
    BY <2>1, <2>2 DEF AheadIn
  <2>6. \A e : AheadTeed(e) => AheadTeed(e)'
    BY <2>4, <2>5 DEF AheadTeed
  <2>7. \A e : AheadNew(e) => AheadNew(e)'
    BY <2>2, <2>6 DEF AheadNew
  <2>14. \A e : AheadFlush(e) => AheadFlush(e)'
    BY <2>2, <2>7 DEF AheadFlush
  <2>8. \A e : AheadKey(e) => AheadKey(e)'
    BY <2>2, <2>14 DEF AheadKey
  <2>9. Keeps
    BY <2>2, <2>8 DEF AheadOut, Keeps
  <2>10. AheadIn(s)'
    BY <2>1, <2>2 DEF LineOK, AheadIn
  <2>11. \A e \in Elems(teedCh') : AheadIn(e)'
    BY <2>4, <2>5, <2>10 DEF LineOK
  <2>12. /\ Ordered(keyCh)' /\ Ordered(outEventCh)'
         /\ \A e \in newEvents' \cup flushing' : AheadTeed(e)'
    BY <2>2, <2>6 DEF LineOK, Ordered
  <2>13. /\ \A e \in Elems(inEventCh') : \A m \in e.ids : m <= sent'
         /\ \A e \in Elems(keyCh') : AheadFlush(e)'
         /\ \A e \in Elems(outEventCh') : AheadKey(e)'
    BY <2>1, <2>2, <2>8, <2>14 DEF LineOK
  <2> QED
    BY <2>1, <2>4, <2>9, <2>11, <2>12, <2>13 DEF LineOK
<1>5. ASSUME coalesce
      PROVE  LineOK' /\ Keeps
  <2> PICK s : s = Head(teedCh)
    OBVIOUS
  <2>1. /\ s \in EventRecord /\ teedCh' = Tail(teedCh) /\ s \in Elems(teedCh)
        /\ Elems(teedCh') \subseteq Elems(teedCh) /\ Increasing(teedCh')
        /\ \A f \in Elems(teedCh') : Strictly(s, f)
    BY <1>1, <1>5, Taken DEF LineOK, coalesce
  <2>2. UNCHANGED <<sent, inEventCh, outEventCh>> /\ flushing = {} /\ flushing' = {}
    BY <1>5, Coalesces DEF coalesce
  <2>14. \/ /\ IsMemberEvent(s) /\ keyCh' = keyCh
            /\ \E replaced : newEvents' = (newEvents \ replaced) \cup {s}
         \/ ~IsMemberEvent(s) /\ newEvents' = newEvents /\ keyCh' = Append(keyCh, s)
    BY <1>5, Coalesces
  <2>15. \A n \in Waiting' : n \in Waiting \/ (IsMemberEvent(s) /\ n \in s.ids)
    BY <2>14 DEF Waiting
  <2>3. \A e : AheadIn(e) => AheadIn(e)'
    BY <2>2 DEF AheadIn
  <2>4. \A e : AheadTeed(e) => AheadTeed(e)' /\ Strictly(e, s)
    BY <2>1, <2>3 DEF AheadTeed
  <2>5. \A e : AheadNew(e) => AheadNew(e)' /\ Before(e, s)
    <3>1. ASSUME NEW e, AheadNew(e), IsMemberEvent(e), NEW m \in e.ids, NEW n \in Waiting'
          PROVE  m < n
      BY <2>4, <2>15, <3>1 DEF AheadNew, Strictly
    <3> QED
      BY <2>4, <3>1, StrictlyBefore DEF AheadNew
  <2>16. \A e : AheadFlush(e) => AheadFlush(e)' /\ Before(e, s)
    BY <2>2, <2>5 DEF AheadFlush
  <2>6. AheadTeed(s)'
    BY <2>1, <2>3 DEF LineOK, AheadTeed
  <2>7. /\ Elems(keyCh') \subseteq Elems(keyCh) \cup {s} /\ Ordered(keyCh')
        /\ IsMemberEvent(s) => Elems(keyCh') = Elems(keyCh)
    <3>1. CASE IsMemberEvent(s) /\ keyCh' = keyCh
      BY <3>1 DEF LineOK
    <3>2. CASE ~IsMemberEvent(s) /\ keyCh' = Append(keyCh, s)
      BY <1>1, <2>1, <2>16, <3>2, Put DEF LineOK
    <3> QED
      BY <2>14, <3>1, <3>2
  <2>8. \A e : AheadKey(e) => AheadKey(e)'
    BY <2>7, <2>16 DEF AheadKey
  <2>9. Keeps
    BY <2>2, <2>8 DEF AheadOut, Keeps
  <2>10. \A e \in Elems(keyCh') : AheadFlush(e)'
    <3>1. s \in Elems(keyCh') => ~IsMemberEvent(s) \/ s \in Elems(keyCh)
      BY <2>7
    <3>2. ~IsMemberEvent(s) => AheadFlush(s)'
      BY <2>2, <2>6 DEF AheadNew, AheadFlush
    <3> QED
      BY <2>7, <2>16, <3>1, <3>2 DEF LineOK
  <2>11. \A e \in newEvents' \cup flushing' : AheadTeed(e)'
    BY <2>2, <2>4, <2>6, <2>14 DEF LineOK
  <2>12. /\ Increasing(inEventCh)' /\ Ordered(outEventCh)'
         /\ \A e \in Elems(inEventCh') : \A m \in e.ids : m <= sent'
    BY <2>2 DEF LineOK, Increasing, Ordered
  <2>13. /\ \A e \in Elems(teedCh') : AheadIn(e)'
         /\ \A e \in Elems(outEventCh') : AheadKey(e)'
    BY <2>1, <2>2, <2>3, <2>8 DEF LineOK
  <2> QED
    BY <2>1, <2>7, <2>9, <2>10, <2>11, <2>12, <2>13 DEF LineOK
<1>6. ASSUME flush
      PROVE  LineOK' /\ Keeps
  <2>1. /\ UNCHANGED <<sent, inEventCh, teedCh, keyCh, outEventCh>>
        /\ newEvents' = {} /\ Waiting' = {}
        /\ \A c \in flushing' : /\ c \in EventRecord /\ IsMemberEvent(c)
                                 /\ \A m \in c.ids : \E e \in newEvents : m \in e.ids
    BY <1>6, Flushes DEF flush, channels, Waiting
  <2>2. \A e : AheadTeed(e) => AheadTeed(e)'
    BY <2>1 DEF AheadTeed, AheadIn
  <2>3. \A e : AheadNew(e) => AheadNew(e)'
    BY <2>1, <2>2 DEF AheadNew
  <2>4. \A e : AheadNew(e) => \A c \in flushing' : Before(e, c)
    <3> SUFFICES ASSUME NEW e, AheadNew(e), NEW c \in flushing'
                 PROVE  Before(e, c)
      OBVIOUS
    <3>1. \A n \in c.ids : n \in Waiting
      BY <2>1 DEF Waiting
    <3>2. IsMemberEvent(c) /\ (IsMemberEvent(e) => \A m \in e.ids, n \in Waiting : m < n)
      BY <2>1 DEF AheadNew
    <3> QED
      BY <3>1, <3>2 DEF Before
  <2>5. \A e : AheadFlush(e) => AheadFlush(e)'
    BY <2>3, <2>4 DEF AheadFlush
  <2>6. \A e : AheadKey(e) => AheadKey(e)'
    BY <2>1, <2>5 DEF AheadKey
  <2>7. Keeps
    BY <2>1, <2>6 DEF AheadOut, Keeps
  <2>8. \A c \in newEvents' \cup flushing' : AheadTeed(c)'
    <3> SUFFICES ASSUME NEW c \in flushing'
                 PROVE  AheadTeed(c)'
      BY <2>1
    <3>1. \A m \in c.ids : \E e \in newEvents : m \in e.ids /\ AheadTeed(e)
      BY <2>1 DEF LineOK
    <3>2. AheadTeed(c)
      BY <3>1 DEF AheadTeed, AheadIn, Strictly
    <3> QED
      BY <2>2, <3>2
  <2>9. /\ Increasing(inEventCh)' /\ Increasing(teedCh)' /\ Ordered(keyCh)' /\ Ordered(outEventCh)'
        /\ \A e \in Elems(inEventCh') : \A m \in e.ids : m <= sent'
        /\ \A e \in Elems(teedCh') : AheadIn(e)'
    BY <2>1 DEF LineOK, Increasing, Ordered, AheadIn
  <2>10. /\ \A e \in Elems(keyCh') : AheadFlush(e)'
         /\ \A e \in Elems(outEventCh') : AheadKey(e)'
    BY <2>1, <2>5, <2>6 DEF LineOK
  <2> QED
    BY <2>7, <2>8, <2>9, <2>10 DEF LineOK
<1>9. ASSUME NEW s \in flushing, sendCoalesced(s)
      PROVE  LineOK' /\ Keeps
  <2>1. /\ s \in EventRecord /\ keyCh' = Append(keyCh, s) /\ flushing' = flushing \ {s}
        /\ UNCHANGED <<sent, inEventCh, teedCh, outEventCh, newEvents>>
        /\ Waiting' = Waiting /\ Waiting = {}
    <3>1. newEvents = {}
      BY DEF CoalescerOK
    <3> QED
      BY <1>1, <1>9, <3>1 DEF sendCoalesced, Waiting
  <2>2. \A e : AheadTeed(e) => AheadTeed(e)'
    BY <2>1 DEF AheadTeed, AheadIn
  <2>3. \A e : AheadNew(e) => AheadNew(e)'
    BY <2>1, <2>2 DEF AheadNew
  <2>4. \A e : AheadFlush(e) => AheadFlush(e)' /\ Before(e, s)
    BY <2>1, <2>3 DEF AheadFlush
  <2>5. Elems(keyCh') = Elems(keyCh) \cup {s} /\ Ordered(keyCh')
    BY <1>1, <2>1, <2>4, Put DEF LineOK
  <2>6. \A e : AheadKey(e) => AheadKey(e)'
    BY <2>4, <2>5 DEF AheadKey
  <2>7. Keeps
    BY <2>1, <2>6 DEF AheadOut, Keeps
  <2>8. AheadFlush(s)'
    <3>1. AheadNew(s)'
      BY <2>1, <2>2 DEF LineOK, AheadNew
    <3>2. \A c \in flushing' : s.Type # c.Type /\ s.of \cap c.of = {}
                                /\ IsMemberEvent(s) /\ IsMemberEvent(c)
      BY <2>1 DEF CoalescerOK, Disjoint
    <3> QED
      BY <3>1, <3>2 DEF AheadFlush, Before
  <2>9. /\ Increasing(inEventCh)' /\ Increasing(teedCh)' /\ Ordered(outEventCh)'
        /\ \A e \in newEvents' \cup flushing' : AheadTeed(e)'
        /\ \A e \in Elems(inEventCh') : \A m \in e.ids : m <= sent'
        /\ \A e \in Elems(teedCh') : AheadIn(e)'
    BY <2>1, <2>2 DEF LineOK, Increasing, Ordered, AheadIn
  <2>10. /\ \A e \in Elems(keyCh') : AheadFlush(e)'
         /\ \A e \in Elems(outEventCh') : AheadKey(e)'
    BY <2>1, <2>4, <2>5, <2>6, <2>8 DEF LineOK
  <2> QED
    BY <2>5, <2>7, <2>9, <2>10 DEF LineOK
<1>7. ASSUME receiveKeyEvents
      PROVE  LineOK' /\ Keeps
  <2> PICK s : s = Head(keyCh)
    OBVIOUS
  <2>1. /\ s \in EventRecord /\ keyCh' = Tail(keyCh) /\ s \in Elems(keyCh)
        /\ Elems(keyCh') \subseteq Elems(keyCh) /\ Ordered(keyCh')
        /\ \A f \in Elems(keyCh') : Before(s, f)
    BY <1>1, <1>7, Taken DEF LineOK, receiveKeyEvents
  <2>2. /\ UNCHANGED <<sent, inEventCh, teedCh, newEvents, flushing, Waiting>>
        /\ outEventCh' = Append(outEventCh, s) \/ outEventCh' = outEventCh
    BY <1>7, CoalescerRests DEF receiveKeyEvents
  <2>3. \A e : AheadIn(e) => AheadIn(e)'
    BY <2>2 DEF AheadIn
  <2>4. \A e : AheadFlush(e) => AheadFlush(e)'
    BY <2>2, <2>3 DEF AheadFlush, AheadNew, AheadTeed
  <2>5. \A e : AheadKey(e) => AheadKey(e)' /\ Before(e, s)
    BY <2>1, <2>4 DEF AheadKey
  <2>6. Elems(outEventCh') \subseteq Elems(outEventCh) \cup {s} /\ Ordered(outEventCh')
    <3>1. CASE outEventCh' = Append(outEventCh, s)
      BY <1>1, <2>1, <2>5, <3>1, Put DEF LineOK
    <3>2. CASE outEventCh' = outEventCh
      BY <3>2 DEF LineOK
    <3> QED
      BY <2>2, <3>1, <3>2
  <2>7. Keeps
    BY <2>5, <2>6 DEF AheadOut, Keeps
  <2>8. AheadKey(s)'
    BY <2>1, <2>4 DEF LineOK, AheadKey
  <2>9. /\ Increasing(inEventCh)' /\ Increasing(teedCh)'
        /\ \A e \in newEvents' \cup flushing' : AheadTeed(e)'
        /\ \A e \in Elems(inEventCh') : \A m \in e.ids : m <= sent'
        /\ \A e \in Elems(teedCh') : AheadIn(e)'
    BY <2>2, <2>3 DEF LineOK, Increasing, AheadTeed
  <2>10. /\ \A e \in Elems(keyCh') : AheadFlush(e)'
         /\ \A e \in Elems(outEventCh') : AheadKey(e)'
    BY <2>1, <2>4, <2>5, <2>6, <2>8 DEF LineOK
  <2> QED
    BY <2>1, <2>6, <2>7, <2>9, <2>10 DEF LineOK
<1>8. ASSUME receiveEvents
      PROVE  LineOK' /\ Keeps
  <2>1. /\ outEventCh' = Tail(outEventCh) /\ Ordered(outEventCh')
        /\ Elems(outEventCh') \subseteq Elems(outEventCh)
        /\ UNCHANGED <<sent, inEventCh, teedCh, keyCh, newEvents, flushing, Waiting>>
    BY <1>1, <1>8, Taken, CoalescerRests DEF LineOK, receiveEvents
  <2>2. \A e : AheadKey(e) => AheadKey(e)'
    BY <2>1 DEF AheadKey, AheadFlush, AheadNew, AheadTeed, AheadIn
  <2>3. Keeps
    BY <2>1, <2>2 DEF AheadOut, Keeps
  <2>4. /\ Increasing(inEventCh)' /\ Increasing(teedCh)' /\ Ordered(keyCh)'
        /\ \A e \in newEvents' \cup flushing' : AheadTeed(e)'
        /\ \A e \in Elems(inEventCh') : \A m \in e.ids : m <= sent'
    BY <2>1 DEF LineOK, Increasing, Ordered, AheadTeed, AheadIn
  <2>5. /\ \A e \in Elems(teedCh') : AheadIn(e)'
        /\ \A e \in Elems(keyCh') : AheadFlush(e)'
        /\ \A e \in Elems(outEventCh') : AheadKey(e)'
    BY <2>1, <2>2 DEF LineOK, AheadFlush, AheadNew, AheadTeed, AheadIn
  <2> QED
    BY <2>1, <2>3, <2>4, <2>5 DEF LineOK
<1> QED
  BY <1>2, <1>3, <1>4, <1>5, <1>6, <1>7, <1>8, <1>9, Senders
     DEF Next, flushSends, DispatchStep, invokeEventScript, ScriptEnds, readHandlerList, HandleEvent,
         handleEventReturns, StartStreamEvents, StopStreamEvents, Monitor

-----------------------------------------------------------------------------
(* What the handlers are given. *)

\* What is put at the end of any sequence.
LEMMA Appended ==
  ASSUME NEW T, NEW s \in Seq(T), NEW e \in T
  PROVE  /\ Elems(Append(s, e)) = Elems(s) \cup {e}
         /\ DOMAIN Append(s, e) = 1 .. Len(s) + 1 /\ Len(s) \in Nat /\ DOMAIN s = 1 .. Len(s)
         /\ \A i \in 1 .. Len(s) : Append(s, e)[i] = s[i]
         /\ Append(s, e)[Len(s) + 1] = e
<1> DEFINE new == Append(s, e)
<1>1. /\ Len(s) \in Nat /\ DOMAIN s = 1 .. Len(s) /\ DOMAIN new = 1 .. Len(s) + 1
      /\ \A i \in 1 .. Len(s) : new[i] = s[i]
      /\ new[Len(s) + 1] = e
  OBVIOUS
<1> HIDE DEF new
<1>2. \A i \in DOMAIN new : i \in DOMAIN s \/ i = Len(s) + 1
  BY <1>1
<1>3. Elems(new) = Elems(s) \cup {e}
  BY <1>1, <1>2 DEF Elems
<1> QED
  BY <1>1, <1>3 DEF new

\* A step of invokeEventScript.
LEMMA Invoked ==
  ASSUME TypeOK, invokeEventScript
  PROVE  \E d \in handling, f \in ScriptFilters, e \in Dispatch :
            /\ handling = {d} /\ d \in Dispatch /\ handling' = {e} /\ f \in d.scripts
            /\ e.event = d.event /\ e.scripts = d.scripts \ {f}
            /\ e.streams = d.streams /\ e.listed = d.listed
            /\ ran' = Append(ran, [event |-> d.event, script |-> f])
<1>1. PICK d \in handling : \E f \in d.scripts :
           /\ handling' = {[d EXCEPT !.scripts = @ \ {f}]}
           /\ ran' = Append(ran, [event |-> d.event, script |-> f])
  BY DEF invokeEventScript
<1>2. PICK f \in d.scripts : /\ handling' = {[d EXCEPT !.scripts = @ \ {f}]}
                             /\ ran' = Append(ran, [event |-> d.event, script |-> f])
  BY <1>1
<1>3. d \in Dispatch /\ handling = {d}
  BY TypesAre DEF DispatchTypes
<1>4. PICK e : e = [d EXCEPT !.scripts = @ \ {f}]
  OBVIOUS
<1>5. /\ e \in Dispatch /\ f \in ScriptFilters
      /\ e.event = d.event /\ e.scripts = d.scripts \ {f}
      /\ e.streams = d.streams /\ e.listed = d.listed
  BY <1>3, <1>4 DEF Dispatch
<1> QED
  BY <1>2, <1>3, <1>4, <1>5

\* A step of readHandlerList.
LEMMA ListRead ==
  ASSUME TypeOK, readHandlerList
  PROVE  \E d \in handling, e \in Dispatch :
            /\ handling = {d} /\ d \in Dispatch /\ handling' = {e} /\ ~d.listed
            /\ e.event = d.event /\ e.scripts = d.scripts
            /\ e.streams = handlers /\ e.listed = TRUE
<1>1. PICK d \in handling : /\ ~d.listed
                            /\ handling' = {[d EXCEPT !.streams = handlers, !.listed = TRUE]}
  BY DEF readHandlerList
<1>2. d \in Dispatch /\ handling = {d} /\ handlers \in SUBSET Handler
  BY TypesAre DEF DispatchTypes, StreamTypes
<1>3. PICK e : e = [d EXCEPT !.streams = handlers, !.listed = TRUE]
  OBVIOUS
<1>4. /\ e \in Dispatch /\ e.event = d.event /\ e.scripts = d.scripts
      /\ e.streams = handlers /\ e.listed = TRUE
  BY <1>2, <1>3 DEF Dispatch
<1> QED
  BY <1>1, <1>2, <1>3, <1>4

\* A step of HandleEvent: the event is given, missed, or of no interest.
LEMMA EventHandled ==
  ASSUME TypeOK, NEW h \in Handler, HandleEvent(h)
  PROVE  \E d \in handling, e \in Dispatch :
            /\ handling = {d} /\ d \in Dispatch /\ handling' = {e} /\ h \in d.streams
            /\ e.event = d.event /\ e.scripts = d.scripts
            /\ e.streams = d.streams \ {h} /\ e.listed = d.listed
            /\ \A g \in Handler \ {h} : got'[g] = got[g] /\ missed'[g] = missed[g]
            /\ \/ got'[h] = Append(got[h], d.event) /\ missed'[h] = missed[h]
               \/ got'[h] = got[h] /\ missed'[h] = missed[h] \cup d.event.ids
               \/ got'[h] = got[h] /\ missed'[h] = missed[h] /\ ~Matches(filter[h], d.event)
<1>1. PICK d \in handling :
           /\ h \in d.streams
           /\ handling' = {[d EXCEPT !.streams = @ \ {h}]}
           /\ \/ /\ got' = [got EXCEPT ![h] = Append(@, d.event)]
                 /\ UNCHANGED missed
              \/ /\ missed' = [missed EXCEPT ![h] = @ \cup d.event.ids]
                 /\ UNCHANGED got
              \/ ~Matches(filter[h], d.event) /\ UNCHANGED <<got, missed>>
  BY DEF HandleEvent
<1>2. /\ d \in Dispatch /\ handling = {d}
      /\ got \in [Handler -> Seq(EventRecord)] /\ missed \in [Handler -> SUBSET (1 .. sent)]
  BY TypesAre DEF DispatchTypes, StreamTypes
<1>3. PICK e : e = [d EXCEPT !.streams = @ \ {h}]
  OBVIOUS
<1>4. /\ e \in Dispatch /\ e.event = d.event /\ e.scripts = d.scripts
      /\ e.streams = d.streams \ {h} /\ e.listed = d.listed
  BY <1>2, <1>3 DEF Dispatch
<1>5. \A g \in Handler \ {h} : got'[g] = got[g] /\ missed'[g] = missed[g]
  BY <1>1, <1>2
<1>6. \/ got'[h] = Append(got[h], d.event) /\ missed'[h] = missed[h]
      \/ got'[h] = got[h] /\ missed'[h] = missed[h] \cup d.event.ids
      \/ got'[h] = got[h] /\ missed'[h] = missed[h] /\ ~Matches(filter[h], d.event)
  BY <1>1, <1>2
<1> QED
  BY <1>1, <1>2, <1>3, <1>4, <1>5, <1>6

\* What was given stays ahead of everything on its way.
LEMMA GivenStep ==
  ASSUME TypeOK, LineOK, GivenOK, DispatchOK, Next, Keeps
  PROVE  GivenOK'
<1>1. /\ \A d \in handling : d.event \in EventRecord /\ AheadOut(d.event)'
      /\ \A r \in Elems(ran) : AheadOut(r.event)'
      /\ \A h \in Handler : \A e \in Elems(got[h]) : AheadOut(e)'
  <2>1. \A d \in handling : d.event \in EventRecord
    BY TypesAre DEF DispatchTypes, Dispatch
  <2>2. \A r \in Elems(ran) : r.event \in EventRecord
    <3>1. \A i \in DOMAIN ran : ran[i] \in Started
      BY TypesAre DEF DispatchTypes
    <3> QED
      BY <3>1 DEF Elems, Started
  <2>3. \A h \in Handler : \A e \in Elems(got[h]) : e \in EventRecord
    <3>1. \A h \in Handler : got[h] \in Seq(EventRecord)
      BY TypesAre DEF StreamTypes
    <3> QED
      BY <3>1, AreEvents
  <2> QED
    BY <2>1, <2>2, <2>3 DEF GivenOK, Keeps
<1>2. ASSUME UNCHANGED <<handling, ran, got>>
      PROVE  GivenOK'
  BY <1>1, <1>2 DEF GivenOK, Elems
<1>3. ASSUME receiveEvents
      PROVE  GivenOK'
  <2> PICK s : s = Head(outEventCh)
    OBVIOUS
  <2>1. outEventCh \in Seq(EventRecord)
    BY TypesAre DEF ChannelTypes
  <2>2. s \in Elems(outEventCh) /\ \A f \in Elems(outEventCh') : Before(s, f)
    BY <1>3, <2>1, Taken DEF LineOK, receiveEvents
  <2>3. AheadKey(s)'
    <3>1. AheadKey(s) /\ UNCHANGED <<sent, inEventCh, teedCh, keyCh, newEvents, flushing, Waiting>>
      BY <1>3, <2>2, CoalescerRests DEF LineOK, receiveEvents
    <3> QED
      BY <3>1 DEF AheadKey, AheadFlush, AheadNew, AheadTeed, AheadIn
  <2>4. AheadOut(s)'
    BY <2>2, <2>3 DEF AheadOut
  <2>5. UNCHANGED <<ran, got>> /\ \A d \in handling' : d.event = s
    BY <1>3 DEF receiveEvents, streamHistory
  <2> QED
    BY <1>1, <2>4, <2>5 DEF GivenOK, Elems
<1>4. ASSUME invokeEventScript
      PROVE  GivenOK'
  <2>1. PICK d \in handling, f \in ScriptFilters, e \in Dispatch :
             /\ handling' = {e} /\ e.event = d.event
             /\ ran' = Append(ran, [event |-> d.event, script |-> f])
    BY <1>4, Invoked
  <2>2. ran \in Seq(Started)
    BY TypesAre DEF DispatchTypes
  <2>3. Elems(ran') = Elems(ran) \cup {[event |-> d.event, script |-> f]}
    <3>1. [event |-> d.event, script |-> f] \in Started
      BY <1>1 DEF Started
    <3> QED
      BY <2>1, <2>2, <3>1, Appended
  <2>4. \A r \in Elems(ran') : AheadOut(r.event)'
    BY <1>1, <2>3
  <2>5. UNCHANGED got
    BY <1>4 DEF invokeEventScript, streamHistory
  <2> QED
    BY <1>1, <2>1, <2>4, <2>5 DEF GivenOK
<1>5. ASSUME readHandlerList
      PROVE  GivenOK'
  <2>1. PICK d \in handling, e \in Dispatch : handling' = {e} /\ e.event = d.event
    BY <1>5, ListRead
  <2>2. UNCHANGED <<ran, got>>
    BY <1>5 DEF readHandlerList, streamHistory
  <2> QED
    BY <1>1, <2>1, <2>2 DEF GivenOK
<1>6. ASSUME NEW h \in Handler, HandleEvent(h)
      PROVE  GivenOK'
  <2>1. PICK d \in handling, e \in Dispatch :
             /\ handling' = {e} /\ e.event = d.event
             /\ \A g \in Handler \ {h} : got'[g] = got[g]
             /\ got'[h] = Append(got[h], d.event) \/ got'[h] = got[h]
    BY <1>6, EventHandled
  <2>2. UNCHANGED ran
    BY <1>6 DEF HandleEvent
  <2>3. got[h] \in Seq(EventRecord)
    BY TypesAre DEF StreamTypes
  <2>4. Elems(got'[h]) \subseteq Elems(got[h]) \cup {d.event}
    BY <1>1, <2>1, <2>3, Put
  <2>5. ASSUME NEW g \in Handler, NEW x \in Elems(got'[g])
        PROVE  AheadOut(x)'
    BY <1>1, <2>1, <2>4, <2>5
  <2> QED
    BY <1>1, <2>1, <2>2, <2>5 DEF GivenOK
<1>7. ASSUME handleEventReturns
      PROVE  GivenOK'
  BY <1>1, <1>7 DEF GivenOK, handleEventReturns, streamHistory
<1> QED
  BY <1>2, <1>3, <1>4, <1>5, <1>6, <1>7
     DEF Next, DispatchStep, Send, teeEvents, coalesce, flush, flushSends, sendCoalesced, receiveKeyEvents, ScriptEnds,
         StartStreamEvents, StopStreamEvents, Monitor, streamHistory

\* The event that is being given is new to those it is still to be given to.
LEMMA DispatchStepKeeps ==
  ASSUME TypeOK, GivenOK, DispatchOK, Next
  PROVE  DispatchOK'
<1>1. ASSUME UNCHANGED <<handling, ran, got>>
      PROVE  DispatchOK'
  BY <1>1 DEF DispatchOK, Elems
<1>2. ASSUME receiveEvents
      PROVE  DispatchOK'
  <2> PICK s : s = Head(outEventCh)
    OBVIOUS
  <2>1. s \in Elems(outEventCh)
    BY <1>2, TypesAre, Taken DEF ChannelTypes, receiveEvents
  <2>2. /\ \A r \in Elems(ran) : Before(r.event, s)
        /\ \A h \in Handler : \A e \in Elems(got[h]) : Before(e, s)
    BY <2>1 DEF GivenOK, AheadOut
  <2>3. UNCHANGED <<ran, got>> /\ \A d \in handling' : d.event = s /\ d.streams = {} /\ ~d.listed
    BY <1>2 DEF receiveEvents, streamHistory
  <2> QED
    BY <2>2, <2>3 DEF DispatchOK, Elems
<1>3. ASSUME invokeEventScript
      PROVE  DispatchOK'
  <2>1. PICK d \in handling, f \in ScriptFilters, e \in Dispatch :
             /\ handling' = {e} /\ f \in d.scripts
             /\ e.event = d.event /\ e.scripts = d.scripts \ {f}
             /\ e.streams = d.streams /\ e.listed = d.listed
             /\ ran' = Append(ran, [event |-> d.event, script |-> f])
    BY <1>3, Invoked
  <2>2. ran \in Seq(Started) /\ [event |-> d.event, script |-> f] \in Started
    BY TypesAre DEF DispatchTypes, Dispatch, Started
  <2>3. Elems(ran') = Elems(ran) \cup {[event |-> d.event, script |-> f]}
    BY <2>1, <2>2, Appended
  <2>4. \A r \in Elems(ran') : \/ Before(r.event, e.event)
                               \/ r.event = e.event /\ r.script \notin e.scripts
    BY <2>1, <2>3 DEF DispatchOK
  <2>5. UNCHANGED got
    BY <1>3 DEF invokeEventScript, streamHistory
  <2> QED
    BY <2>1, <2>4, <2>5 DEF DispatchOK
<1>4. ASSUME readHandlerList
      PROVE  DispatchOK'
  <2>1. PICK d \in handling, e \in Dispatch :
             /\ handling' = {e} /\ ~d.listed /\ e.event = d.event /\ e.scripts = d.scripts
             /\ e.streams = handlers /\ e.listed = TRUE
    BY <1>4, ListRead
  <2>2. UNCHANGED <<ran, got>>
    BY <1>4 DEF readHandlerList, streamHistory
  <2> QED
    BY <2>1, <2>2 DEF DispatchOK, Elems
<1>5. ASSUME NEW h \in Handler, HandleEvent(h)
      PROVE  DispatchOK'
  <2>1. PICK d \in handling, e \in Dispatch :
             /\ handling' = {e} /\ h \in d.streams /\ e.event = d.event /\ e.scripts = d.scripts
             /\ e.streams = d.streams \ {h} /\ e.listed = d.listed
             /\ \A g \in Handler \ {h} : got'[g] = got[g]
    BY <1>5, EventHandled
  <2>2. UNCHANGED ran
    BY <1>5 DEF HandleEvent
  <2>3. e.listed = TRUE
    BY <2>1 DEF DispatchOK, Dispatch
  <2>4. ASSUME NEW g \in Handler, g \in e.streams, NEW x \in Elems(got'[g])
        PROVE  Before(x, e.event)
    BY <2>1, <2>4 DEF DispatchOK
  <2> QED
    BY <2>1, <2>2, <2>3, <2>4 DEF DispatchOK, Elems
<1>6. ASSUME handleEventReturns
      PROVE  DispatchOK'
  BY <1>6 DEF DispatchOK, handleEventReturns
<1> QED
  BY <1>1, <1>2, <1>3, <1>4, <1>5, <1>6
     DEF Next, DispatchStep, Send, teeEvents, coalesce, flush, flushSends, sendCoalesced, receiveKeyEvents, ScriptEnds,
         StartStreamEvents, StopStreamEvents, Monitor, streamHistory

\* Nothing is given twice or out of order.
LEMMA OrderStep ==
  ASSUME TypeOK, DispatchOK, InOrder, Next
  PROVE  InOrder'
<1>1. ASSUME UNCHANGED <<ran, got>>
      PROVE  InOrder'
  BY <1>1 DEF InOrder
<1>2. ASSUME invokeEventScript
      PROVE  InOrder'
  <2>1. PICK d \in handling, f \in ScriptFilters :
             d \in Dispatch /\ f \in d.scripts /\ ran' = Append(ran, [event |-> d.event, script |-> f])
    BY <1>2, Invoked
  <2> PICK r : r = [event |-> d.event, script |-> f]
    OBVIOUS
  <2>2. ran \in Seq(Started) /\ r \in Started
    BY <2>1, TypesAre DEF DispatchTypes, Dispatch, Started
  <2>3. /\ DOMAIN ran' = 1 .. Len(ran) + 1 /\ Len(ran) \in Nat /\ DOMAIN ran = 1 .. Len(ran)
        /\ \A i \in 1 .. Len(ran) : ran'[i] = ran[i]
        /\ ran'[Len(ran) + 1] = r
    BY <2>1, <2>2, Appended
  <2>4. \A i \in DOMAIN ran : \/ Before(ran[i].event, r.event)
                              \/ ran[i].event = r.event /\ ran[i].script # r.script
    BY <2>1 DEF DispatchOK, Elems
  <2>5. ASSUME NEW i \in DOMAIN ran', NEW j \in DOMAIN ran', i < j
        PROVE  \/ Before(ran'[i].event, ran'[j].event)
               \/ ran'[i].event = ran'[j].event /\ ran'[i].script # ran'[j].script
    <3>1. i \in DOMAIN ran
      BY <2>3, <2>5
    <3>2. CASE j \in DOMAIN ran
      BY <2>3, <2>5, <3>1, <3>2 DEF InOrder
    <3>3. CASE j = Len(ran) + 1
      BY <2>3, <2>4, <3>1, <3>3
    <3> QED
      BY <2>3, <3>2, <3>3
  <2>6. UNCHANGED got
    BY <1>2 DEF invokeEventScript, streamHistory
  <2> QED
    BY <2>5, <2>6 DEF InOrder
<1>3. ASSUME NEW h \in Handler, HandleEvent(h)
      PROVE  InOrder'
  <2>1. PICK d \in handling :
             /\ d \in Dispatch /\ h \in d.streams
             /\ \A g \in Handler \ {h} : got'[g] = got[g]
             /\ got'[h] = Append(got[h], d.event) \/ got'[h] = got[h]
    BY <1>3, EventHandled
  <2>2. got[h] \in Seq(EventRecord) /\ d.event \in EventRecord
    BY <2>1, TypesAre DEF StreamTypes, Dispatch
  <2>3. Ordered(got[h]) /\ \A e \in Elems(got[h]) : Before(e, d.event)
    BY <2>1 DEF InOrder, Ordered, DispatchOK
  <2>4. Ordered(got'[h])
    <3>1. CASE got'[h] = Append(got[h], d.event)
      BY <2>2, <2>3, <3>1, Put
    <3>2. CASE got'[h] = got[h]
      BY <2>3, <3>2
    <3> QED
      BY <2>1, <3>1, <3>2
  <2>5. \A g \in Handler : Ordered(got'[g])
    BY <2>1, <2>4 DEF InOrder, Ordered
  <2>6. UNCHANGED ran
    BY <1>3 DEF HandleEvent
  <2> QED
    BY <2>5, <2>6 DEF InOrder, Ordered
<1> QED
  BY <1>1, <1>2, <1>3
     DEF Next, DispatchStep, Send, teeEvents, coalesce, flush, flushSends, sendCoalesced, receiveKeyEvents, receiveEvents,
         ScriptEnds, readHandlerList, handleEventReturns, StartStreamEvents, StopStreamEvents,
         Monitor, streamHistory

\* A stream that is on has had what it matches when its turn is over.
LEMMA TurnStep ==
  ASSUME TypeOK, DispatchOK, TurnOK, Next
  PROVE  TurnOK'
<1>1. /\ got \in [Handler -> Seq(EventRecord)] /\ since \in [Handler -> Nat]
      /\ filter \in [Handler -> SUBSET EventType]
      /\ handlers \subseteq Handler /\ Len(done) \in Nat
      /\ \A d, e \in handling : d = e
  BY TypesAre DEF StreamTypes, DispatchTypes
<1>2. ASSUME UNCHANGED <<handling, filter, done, got, missed, since>>, handlers' \subseteq handlers
      PROVE  TurnOK'
  BY <1>2 DEF TurnOK, Within
<1>3. ASSUME receiveEvents
      PROVE  TurnOK'
  BY <1>3 DEF TurnOK, receiveEvents
<1>4. ASSUME invokeEventScript
      PROVE  TurnOK'
  <2>1. PICK d \in handling, e \in Dispatch :
             /\ handling' = {e} /\ e.event = d.event
             /\ e.streams = d.streams /\ e.listed = d.listed
    BY <1>4, Invoked
  <2>2. UNCHANGED <<handlers, filter, done, got, missed, since>>
    BY <1>4 DEF invokeEventScript, streamVars, streamHistory
  <2> QED
    BY <2>1, <2>2 DEF TurnOK, Within
<1>5. ASSUME readHandlerList
      PROVE  TurnOK'
  <2>1. PICK e \in Dispatch : handling' = {e} /\ e.streams = handlers
    BY <1>5, ListRead
  <2>2. UNCHANGED handlers
    BY <1>5 DEF readHandlerList, streamVars
  <2> QED
    BY <2>1, <2>2 DEF TurnOK
<1>6. ASSUME NEW h \in Handler, HandleEvent(h)
      PROVE  TurnOK'
  <2>1. PICK d \in handling, e \in Dispatch :
             /\ handling' = {e} /\ d \in Dispatch /\ e.event = d.event
             /\ e.streams = d.streams \ {h} /\ e.listed = d.listed
             /\ \A g \in Handler \ {h} : got'[g] = got[g] /\ missed'[g] = missed[g]
             /\ \/ got'[h] = Append(got[h], d.event) /\ missed'[h] = missed[h]
                \/ got'[h] = got[h] /\ missed'[h] = missed[h] \cup d.event.ids
                \/ got'[h] = got[h] /\ missed'[h] = missed[h] /\ ~Matches(filter[h], d.event)
    BY <1>6, EventHandled
  <2>2. UNCHANGED <<handlers, filter, done, since>>
    BY <1>6 DEF HandleEvent
  <2>3. d.event \in EventRecord /\ got[h] \in Seq(EventRecord)
    BY <1>1, <2>1 DEF Dispatch
  <2>4. Matches(filter[h], d.event) => d.event.ids \subseteq missed'[h] \cup Within(got'[h])
    BY <2>1, <2>3, Put
  <2>5. ASSUME NEW g \in handlers', e.listed, since'[g] <= Len(done'), g \notin e.streams,
               Matches(filter'[g], e.event)
        PROVE  e.event.ids \subseteq missed'[g] \cup Within(got'[g])
    <3>1. CASE g = h
      BY <2>1, <2>2, <2>4, <2>5, <3>1
    <3>2. CASE g # h
      BY <1>1, <2>1, <2>2, <2>5, <3>2 DEF TurnOK
    <3> QED
      BY <3>1, <3>2
  <2> QED
    BY <2>1, <2>5 DEF TurnOK, Within
<1>7. ASSUME handleEventReturns
      PROVE  TurnOK'
  BY <1>7 DEF TurnOK, handleEventReturns
<1>8. ASSUME NEW h \in Handler, NEW f \in Filter, StartStreamEvents(h, f)
      PROVE  TurnOK'
  <2>1. /\ handlers' = handlers \cup {h} /\ filter' = [filter EXCEPT ![h] = f]
        /\ since' = [since EXCEPT ![h] = Len(done) + Cardinality(handling)]
        /\ UNCHANGED <<handling, done, got, missed>>
    BY <1>8 DEF StartStreamEvents
  <2>2. ASSUME NEW d \in handling
        PROVE  since'[h] = Len(done) + 1
    <3>1. handling = {d}
      BY <1>1
    <3>2. Cardinality(handling) = 1
      BY <3>1, FS_Singleton
    <3> QED
      BY <1>1, <2>1, <3>2
  <2>3. ASSUME NEW d \in handling, NEW g \in handlers', d.listed, since'[g] <= Len(done),
               g \notin d.streams, Matches(filter'[g], d.event)
        PROVE  d.event.ids \subseteq missed[g] \cup Within(got[g])
    <3>1. g # h
      BY <1>1, <2>2, <2>3
    <3> QED
      BY <1>1, <2>1, <2>3, <3>1 DEF TurnOK
  <2> QED
    BY <2>1, <2>3 DEF TurnOK, Within
<1> QED
  BY <1>2, <1>3, <1>4, <1>5, <1>6, <1>7, <1>8
     DEF Next, DispatchStep, Send, teeEvents, coalesce, flush, flushSends, sendCoalesced, receiveKeyEvents, ScriptEnds,
         StopStreamEvents, Monitor, streamVars, streamHistory

\* A stream that is on misses nothing but what it had no room for.
LEMMA NoGapsStep ==
  ASSUME TypeOK, TurnOK, NoGaps, Next
  PROVE  NoGaps'
<1>1. /\ got \in [Handler -> Seq(EventRecord)] /\ since \in [Handler -> Nat]
      /\ filter \in [Handler -> SUBSET EventType]
      /\ handlers \subseteq Handler /\ done \in Seq(EventRecord) /\ Len(done) \in Nat
  BY TypesAre DEF StreamTypes, DispatchTypes
<1>2. ASSUME UNCHANGED <<filter, done, got, missed, since>>, handlers' \subseteq handlers
      PROVE  NoGaps'
  BY <1>2 DEF NoGaps, Within
<1>3. ASSUME NEW h \in Handler, HandleEvent(h)
      PROVE  NoGaps'
  <2>1. PICK d \in handling :
             /\ d \in Dispatch
             /\ \A g \in Handler \ {h} : got'[g] = got[g] /\ missed'[g] = missed[g]
             /\ \/ got'[h] = Append(got[h], d.event) /\ missed'[h] = missed[h]
                \/ got'[h] = got[h] /\ missed'[h] = missed[h] \cup d.event.ids
                \/ got'[h] = got[h] /\ missed'[h] = missed[h] /\ ~Matches(filter[h], d.event)
    BY <1>3, EventHandled
  <2>2. UNCHANGED <<handlers, filter, done, since>>
    BY <1>3 DEF HandleEvent
  <2>3. d.event \in EventRecord /\ got[h] \in Seq(EventRecord)
    BY <1>1, <2>1 DEF Dispatch
  <2>4. Within(got[h]) \subseteq Within(got'[h]) /\ missed[h] \subseteq missed'[h]
    <3>1. Within(Append(got[h], d.event)) = Within(got[h]) \cup d.event.ids
      BY <2>3, Put
    <3> QED
      BY <2>1, <3>1
  <2>5. \A g \in handlers : Within(got[g]) \subseteq Within(got'[g]) /\ missed[g] \subseteq missed'[g]
    BY <1>1, <2>1, <2>4
  <2>6. ASSUME NEW g \in handlers, NEW i \in since[g] + 1 .. Len(done), Matches(filter[g], done[i])
        PROVE  done[i].ids \subseteq missed'[g] \cup Within(got'[g])
    <3>1. done[i].ids \subseteq missed[g] \cup Within(got[g])
      BY <2>6 DEF NoGaps
    <3> QED
      BY <2>5, <3>1
  <2> QED
    BY <2>2, <2>6 DEF NoGaps, Within
<1>4. ASSUME handleEventReturns
      PROVE  NoGaps'
  <2>1. PICK d \in handling : /\ d.listed /\ d.streams = {} /\ done' = Append(done, d.event)
                              /\ UNCHANGED <<handlers, filter, got, missed, since>>
    BY <1>4 DEF handleEventReturns, streamVars, streamHistory
  <2>2. d.event \in EventRecord
    BY TypesAre DEF DispatchTypes, Dispatch
  <2>3. /\ Len(done') = Len(done) + 1 /\ done'[Len(done) + 1] = d.event
        /\ \A i \in 1 .. Len(done) : done'[i] = done[i]
    BY <1>1, <2>1, <2>2, Put, Appended
  <2>4. ASSUME NEW g \in handlers, NEW i \in since[g] + 1 .. Len(done'), Matches(filter[g], done'[i])
        PROVE  done'[i].ids \subseteq missed[g] \cup Within(got[g])
    <3>1. since[g] \in Nat
      BY <1>1
    <3>2. CASE i \in since[g] + 1 .. Len(done)
      <4>1. done'[i] = done[i]
        BY <1>1, <2>3, <3>1, <3>2
      <4> QED
        BY <2>4, <3>2, <4>1 DEF NoGaps
    <3>3. CASE i = Len(done) + 1
      <4>1. since[g] <= Len(done)
        BY <1>1, <2>3, <3>1, <3>3
      <4> QED
        BY <2>1, <2>3, <2>4, <3>3, <4>1 DEF TurnOK
    <3> QED
      BY <1>1, <2>3, <3>1, <3>2, <3>3
  <2> QED
    BY <2>1, <2>4 DEF NoGaps
<1>5. ASSUME NEW h \in Handler, NEW f \in Filter, StartStreamEvents(h, f)
      PROVE  NoGaps'
  <2>1. /\ handlers' = handlers \cup {h} /\ filter' = [filter EXCEPT ![h] = f]
        /\ since' = [since EXCEPT ![h] = Len(done) + Cardinality(handling)]
        /\ UNCHANGED <<done, got, missed>>
    BY <1>5 DEF StartStreamEvents
  <2>2. Cardinality(handling) \in Nat
    BY HandlingIsOne
  <2>3. ASSUME NEW g \in handlers', NEW i \in since'[g] + 1 .. Len(done), Matches(filter'[g], done[i])
        PROVE  done[i].ids \subseteq missed[g] \cup Within(got[g])
    <3>1. g # h
      BY <1>1, <2>1, <2>2, <2>3
    <3> QED
      BY <1>1, <2>1, <2>3, <3>1 DEF NoGaps
  <2> QED
    BY <2>1, <2>3 DEF NoGaps, Within
<1> QED
  BY <1>2, <1>3, <1>4, <1>5
     DEF Next, DispatchStep, Send, teeEvents, coalesce, flush, flushSends, sendCoalesced, receiveKeyEvents, receiveEvents,
         invokeEventScript, ScriptEnds, readHandlerList, StopStreamEvents, Monitor,
         streamVars, streamHistory

-----------------------------------------------------------------------------
(* The theorems. *)

\* The invariant holds at the start.
LEMMA IInvInit == Init => IInv
<1> SUFFICES ASSUME Init
             PROVE  IInv
  OBVIOUS
<1> USE DEF Init
<1>1. TypeOK
  <2>1. ChannelTypes
    BY Numbers DEF ChannelTypes
  <2>2. DispatchTypes
    BY DEF DispatchTypes
  <2>3. StreamTypes
    BY Numbers DEF StreamTypes
  <2> QED
    BY <2>1, <2>2, <2>3, TypesAre, Numbers
<1>2. OnePlace(Places, sent)
  <2>1. \A i \in 1 .. 11 : Places[i] = {}
    BY PlacesAre DEF Within, Begun, Handled, Waiting, Flushing
  <2> QED
    BY <2>1, PlacesAre DEF OnePlace
<1>3. ApartOK /\ CoalescerOK
  BY DEF ApartOK, Apart, CoalescerOK, Disjoint
<1>4. LineOK
  BY DEF LineOK, Increasing, Ordered, Elems
<1>5. GivenOK /\ DispatchOK /\ InOrder /\ TurnOK /\ NoGaps
  BY DEF GivenOK, DispatchOK, InOrder, TurnOK, NoGaps, Elems
<1> QED
  BY <1>1, <1>2, <1>3, <1>4, <1>5 DEF IInv

\* Every step keeps the invariant.
LEMMA IInvStep == IInv /\ [Next]_vars => IInv'
<1>1. ASSUME IInv, Next
      PROVE  IInv'
  <2> USE <1>1 DEF IInv
  <2>1. CoalescerOK'
    BY CoalescerStep
  <2>2. TypeOK'
    BY ChannelTypesStep, DispatchTypesStep, StreamTypesStep, TypesAre
  <2>3. OnePlace(Places, sent)' /\ ApartOK'
    BY PlacesStep
  <2>4. LineOK' /\ Keeps
    BY LineStep
  <2>5. GivenOK'
    BY <2>4, GivenStep
  <2>6. DispatchOK' /\ InOrder' /\ TurnOK' /\ NoGaps'
    BY DispatchStepKeeps, OrderStep, TurnStep, NoGapsStep
  <2> QED
    BY <2>1, <2>2, <2>3, <2>4, <2>5, <2>6
<1>2. ASSUME IInv, UNCHANGED vars
      PROVE  IInv'
  <2> USE <1>2 DEF IInv, vars
  <2>1. TypeOK'
    BY DEF TypeOK
  <2>7. UNCHANGED coalescer
    BY DEF coalescer
  <2>2. OnePlace(Places, sent)' /\ ApartOK' /\ CoalescerOK'
    BY <2>7, CoalescerRests DEF OnePlace, Places, ApartOK, CoalescerOK, Disjoint, Apart, Within, Begun, Handled
  <2>3. LineOK'
    BY <2>7, CoalescerRests
       DEF LineOK, Increasing, Ordered, Elems, AheadIn, AheadTeed, AheadNew, AheadFlush, AheadKey
  <2>4. GivenOK'
    BY <2>7, CoalescerRests
       DEF GivenOK, Elems, AheadIn, AheadTeed, AheadNew, AheadFlush, AheadKey, AheadOut
  <2>5. DispatchOK' /\ InOrder'
    BY DEF DispatchOK, InOrder, Elems
  <2>6. TurnOK' /\ NoGaps'
    BY DEF TurnOK, NoGaps, Within
  <2> QED
    BY <2>1, <2>2, <2>3, <2>4, <2>5, <2>6
<1> QED
  BY <1>1, <1>2

\* The invariant holds always.
LEMMA IInvariant == Spec => []IInv
<1>1. Init => IInv
  BY IInvInit
<1>2. IInv /\ [Next]_vars => IInv'
  BY IInvStep
<1> QED
  BY <1>1, <1>2, PTL DEF Spec

\* Every event is at one place, and nothing else is anywhere: none is lost on its
\* way to the handlers but those that the tee drops and the member events that the
\* coalescer leaves out (snapshot.go:129-140, coalescer.go:45-96).
THEOREM EventsAreAtOnePlace == Spec => []PipelineInv
<1>1. IInv => PipelineInv
  BY DEF IInv, PipelineInv, OnePlace
<1> QED
  BY <1>1, IInvariant, PTL

\* Of the events that come to the handlers a stream misses one it matches only if
\* it had no room for it itself (event_handlers.go:81-127).
THEOREM StreamsMissNothing == Spec => []NoGaps
<1>1. IInv => NoGaps
  BY DEF IInv
<1> QED
  BY <1>1, IInvariant, PTL

\* Scripts and streams are given events once; user events in order, and so the
\* member events of one member and those of one type, although a flush sends one
\* event of each type in any order (coalescer.go:45-66, event_handlers.go:81-127).
THEOREM HandlersInOrder == Spec => []InOrder
<1>1. IInv => InOrder
  BY DEF IInv
<1> QED
  BY <1>1, IInvariant, PTL
=============================================================================
