---------------------------- MODULE EventPipeline ----------------------------
(***************************************************************************)
(* What becomes of an event of a node: inEventCh, the tee, the coalescer   *)
(* of member events, the receptor of key queries, outEventCh, and then the *)
(* scripts, which run one at a time, and the streams of RPC clients.  Each *)
(* stage is a goroutine with a channel of limited size in front of it; the *)
(* tee and the streams drop what finds no room, all others wait.           *)
(*                                                                         *)
(* Source: event_handlers.go, teeEvents, coalesce, receiveKeyEvents,       *)
(* Monitor in rpc/server/server.go.  What the snapshot makes of events is  *)
(* in Snapshot, the maps of the coalescer and what each member's feed is   *)
(* after them in Coalescer, the answer to key queries in KeyQueries.  A    *)
(* goroutine that waits to send has its event still in the channel before  *)
(* it, and a flush what it has not sent yet.  The node is not shut down.   *)
(***************************************************************************)
EXTENDS Naturals, Sequences, FiniteSets

CONSTANTS Handler,        \* streams: the StreamEventHandlers ever created
          Filter,         \* sets of types that a filter may match
          ScriptFilters,  \* the filters of the scripts, one handler for each
          MemberType,     \* types of member events: join, failed, ...
          Member,
          ChSize,         \* size of the channels between the stages
          StreamSize,     \* size of the channel of a stream
          MaxEvents       \* bound

ASSUME PipelineAssumption ==
          /\ {ChSize, StreamSize} \subseteq Nat \ {0}
          /\ MaxEvents \in Nat
          /\ MemberType \cap {"user", "key"} = {}
          /\ Filter \cup ScriptFilters \subseteq SUBSET (MemberType \cup {"user"})

VARIABLES sent,        \* events sent so far; they are numbered
          inEventCh, teedCh, keyCh, outEventCh,
          newEvents,   \* member events that wait for a flush, one of a member
          flushing,    \* what the flush has still to send, one of a type
          leftOut,     \* member events the coalescer has left out
          dropped,     \* events the tee dropped
          handling,    \* the event receiveEvents is at: {} or a record
          invoking,    \* the event whose script runs: {} or one
          handlers,    \* handlerMap and handlerList
          filter,      \* of each stream, {} before it is started
          eventCh,     \* of each stream
          answered,    \* key queries handled
          done,        \* history: events that went through all handlers,
          ran,         \* the scripts that were started, each with its event,
          got,         \* those each stream was given, in order,
          missed,      \* those it had no room for, and
          since        \* how many were done or begun when it was started

coalescer == <<newEvents, flushing, leftOut>>
channels == <<inEventCh, teedCh, keyCh, outEventCh>>
streamVars == <<handlers, filter, eventCh>>
streamHistory == <<got, missed, since>>
vars == <<sent, inEventCh, teedCh, keyCh, outEventCh, newEvents, flushing, leftOut, dropped,
          handling, invoking, handlers, filter, eventCh, answered, done, ran, got, missed, since>>

\* An event, with the numbers of the events that are in it and their members.
Event(type, ids, members) == [Type |-> type, ids |-> ids, of |-> members]
IsMemberEvent(e) == e.Type \in MemberType

Init == /\ sent = 0
        /\ inEventCh = <<>> /\ teedCh = <<>> /\ keyCh = <<>> /\ outEventCh = <<>>
        /\ newEvents = {} /\ flushing = {} /\ leftOut = {} /\ dropped = {}
        /\ handling = {} /\ invoking = {}
        /\ handlers = {}
        /\ filter = [h \in Handler |-> {}]
        /\ eventCh = [h \in Handler |-> <<>>]
        /\ answered = {}
        /\ done = <<>> /\ ran = <<>>
        /\ got = [h \in Handler |-> <<>>]
        /\ missed = [h \in Handler |-> {}]
        /\ since = [h \in Handler |-> 0]

-----------------------------------------------------------------------------
(* Producers: handleAction, handleQuery, receiveNodeEvents, reap. *)

Send(type, members) ==
    /\ sent < MaxEvents
    /\ Len(inEventCh) < ChSize
    /\ sent' = sent + 1
    /\ inEventCh' = Append(inEventCh, Event(type, {sent'}, members))
    /\ UNCHANGED <<teedCh, keyCh, outEventCh, coalescer, dropped, handling, invoking,
                   streamVars, answered, done, ran, streamHistory>>

-----------------------------------------------------------------------------
(* The stages. *)

\* forwardEvent drops the event when there is no room.
teeEvents ==
    /\ inEventCh # <<>>
    /\ inEventCh' = Tail(inEventCh)
    /\ IF Len(teedCh) < ChSize
         THEN teedCh' = Append(teedCh, Head(inEventCh)) /\ UNCHANGED dropped
         ELSE dropped' = dropped \cup Head(inEventCh).ids /\ UNCHANGED teedCh
    /\ UNCHANGED <<sent, keyCh, outEventCh, coalescer, handling, invoking,
                   streamVars, answered, done, ran, streamHistory>>

\* Mutant: an event that is not a member event is passed on only if there is
\* room.
coalesce_drops ==
    /\ teedCh # <<>> /\ flushing = {}
    /\ teedCh' = Tail(teedCh)
    /\ LET e == Head(teedCh)
           replaced == {x \in newEvents : x.of \cap e.of # {}}
       IN  IF IsMemberEvent(e)
             THEN /\ newEvents' = (newEvents \ replaced) \cup {e}
                  /\ leftOut' = leftOut \cup UNION {x.ids : x \in replaced}
                  /\ UNCHANGED keyCh
             ELSE /\ keyCh' = IF Len(keyCh) < ChSize THEN Append(keyCh, e) ELSE keyCh
                  /\ UNCHANGED <<newEvents, leftOut>>
    /\ UNCHANGED <<sent, inEventCh, outEventCh, flushing, dropped, handling, invoking,
                   streamVars, answered, done, ran, streamHistory>>

\* Mutant: the events that wait are a list, not a map by member.
coalesce_list ==
    /\ teedCh # <<>> /\ flushing = {}
    /\ teedCh' = Tail(teedCh)
    /\ LET e == Head(teedCh)
       IN  IF IsMemberEvent(e)
             THEN newEvents' = newEvents \cup {e} /\ UNCHANGED keyCh
             ELSE /\ Len(keyCh) < ChSize
                  /\ keyCh' = Append(keyCh, e)
                  /\ UNCHANGED newEvents
    /\ UNCHANGED <<sent, inEventCh, outEventCh, flushing, leftOut, dropped, handling, invoking,
                   streamVars, answered, done, ran, streamHistory>>

\* A member event waits for the next flush, in the place of one of its member;
\* the others are passed on.  The goroutine that flushes takes none meanwhile.
coalesce ==
    /\ teedCh # <<>> /\ flushing = {}
    /\ teedCh' = Tail(teedCh)
    /\ LET e == Head(teedCh)
           replaced == {x \in newEvents : x.of \cap e.of # {}}
       IN  IF IsMemberEvent(e)
             THEN /\ newEvents' = (newEvents \ replaced) \cup {e}
                  /\ leftOut' = leftOut \cup UNION {x.ids : x \in replaced}
                  /\ UNCHANGED keyCh
             ELSE /\ Len(keyCh) < ChSize
                  /\ keyCh' = Append(keyCh, e)
                  /\ UNCHANGED <<newEvents, leftOut>>
    /\ UNCHANGED <<sent, inEventCh, outEventCh, flushing, dropped, handling, invoking,
                   streamVars, answered, done, ran, streamHistory>>

\* The coalesced event of a type.
Coalesced(type, E) ==
    LET some == {e \in E : e.Type = type}
    IN  Event(type, UNION {e.ids : e \in some}, UNION {e.of : e \in some})

\* What a flush has sent, in any flush so far.
Flushed == {keyCh[i] : i \in DOMAIN keyCh} \cup {outEventCh[i] : i \in DOMAIN outEventCh}
              \cup {d.event : d \in handling} \cup {done[i] : i \in DOMAIN done}

\* e may be equal to the old event of its member, if there is one.
MayEqualOld(e) == \E old \in Flushed : old.Type = e.Type /\ e.of \subseteq old.of

\* flush: one coalesced event of each type, of the events not equal to old ones.
flush ==
    /\ newEvents # {} /\ flushing = {}
    /\ \E equal \in SUBSET {e \in newEvents : MayEqualOld(e)} :
          /\ flushing' = {Coalesced(e.Type, newEvents \ equal) : e \in newEvents \ equal}
          /\ leftOut' = leftOut \cup UNION {e.ids : e \in equal}
    /\ newEvents' = {}
    /\ UNCHANGED <<sent, channels, dropped, handling, invoking,
                   streamVars, answered, done, ran, streamHistory>>

\* Mutant: what was flushed is not forgotten.
sendCoalesced_keeps(e) ==
    /\ e \in flushing
    /\ Len(keyCh) < ChSize
    /\ keyCh' = Append(keyCh, e)
    /\ newEvents' = newEvents \cup {e}
    /\ flushing' = flushing \ {e}
    /\ UNCHANGED <<sent, inEventCh, teedCh, outEventCh, leftOut, dropped, handling, invoking,
                   streamVars, answered, done, ran, streamHistory>>

\* They are sent in the order in which Go walks a map: in any.
sendCoalesced(e) ==
    /\ e \in flushing
    /\ Len(keyCh) < ChSize
    /\ keyCh' = Append(keyCh, e)
    /\ flushing' = flushing \ {e}
    /\ UNCHANGED <<sent, inEventCh, teedCh, outEventCh, newEvents, leftOut, dropped, handling,
                   invoking, streamVars, answered, done, ran, streamHistory>>

\* Key queries are answered here and go no further.
receiveKeyEvents ==
    /\ keyCh # <<>>
    /\ keyCh' = Tail(keyCh)
    /\ LET e == Head(keyCh)
       IN  IF e.Type = "key"
             THEN answered' = answered \cup e.ids /\ UNCHANGED outEventCh
             ELSE /\ Len(outEventCh) < ChSize
                  /\ outEventCh' = Append(outEventCh, e)
                  /\ UNCHANGED answered
    /\ UNCHANGED <<sent, inEventCh, teedCh, coalescer, dropped, handling, invoking,
                   streamVars, done, ran, streamHistory>>

-----------------------------------------------------------------------------
(* receiveEvents and the handlers. *)

Matches(f, e) == e.Type \in f

receiveEvents ==
    /\ handling = {}
    /\ outEventCh # <<>>
    /\ outEventCh' = Tail(outEventCh)
    /\ LET e == Head(outEventCh)
       IN  handling' = {[event |-> e,
                         scripts |-> {f \in ScriptFilters : Matches(f, e)},
                         streams |-> {}, listed |-> FALSE]}
    /\ UNCHANGED <<sent, inEventCh, teedCh, keyCh, coalescer, dropped, invoking,
                   streamVars, answered, done, ran, streamHistory>>

\* invokeScriptCh has no buffer: receiveInvokeScripts takes the next one when
\* the last script has ended.
invokeEventScript ==
    \E d \in handling : \E f \in d.scripts :
       /\ invoking = {}
       /\ invoking' = {d.event}
       /\ handling' = {[d EXCEPT !.scripts = @ \ {f}]}
       /\ ran' = Append(ran, [event |-> d.event, script |-> f])
       /\ UNCHANGED <<sent, channels, coalescer, dropped, streamVars, answered, done, streamHistory>>

ScriptEnds ==
    /\ invoking # {}
    /\ invoking' = {}
    /\ UNCHANGED <<sent, channels, coalescer, dropped, handling, streamVars, answered, done, ran, streamHistory>>

\* The list of streams is read once the scripts have been handed over.
readHandlerList ==
    \E d \in handling :
       /\ d.scripts = {} /\ ~d.listed
       /\ handling' = {[d EXCEPT !.streams = handlers, !.listed = TRUE]}
       /\ UNCHANGED <<sent, channels, coalescer, dropped, invoking, streamVars, answered, done, ran, streamHistory>>

\* Mutant: the first stream that has no room ends the loop over the list.
HandleEvent_stops(h) ==
    \E d \in handling :
       /\ h \in d.streams
       /\ IF ~Matches(filter[h], d.event)
            THEN /\ handling' = {[d EXCEPT !.streams = @ \ {h}]}
                 /\ UNCHANGED <<eventCh, got, missed>>
            ELSE IF Len(eventCh[h]) < StreamSize
            THEN /\ handling' = {[d EXCEPT !.streams = @ \ {h}]}
                 /\ eventCh' = [eventCh EXCEPT ![h] = Append(@, d.event)]
                 /\ got' = [got EXCEPT ![h] = Append(@, d.event)]
                 /\ UNCHANGED missed
            ELSE /\ handling' = {[d EXCEPT !.streams = {}]}
                 /\ missed' = [missed EXCEPT ![h] = @ \cup d.event.ids]
                 /\ UNCHANGED <<eventCh, got>>
       /\ UNCHANGED <<sent, channels, coalescer, dropped, invoking, handlers, filter,
                      answered, done, ran, since>>

\* StreamEventHandler.HandleEvent, of a stream that may have been stopped since
\* the list was read.
HandleEvent(h) ==
    \E d \in handling :
       /\ h \in d.streams
       /\ handling' = {[d EXCEPT !.streams = @ \ {h}]}
       /\ IF ~Matches(filter[h], d.event)
            THEN UNCHANGED <<eventCh, got, missed>>
            ELSE IF Len(eventCh[h]) < StreamSize
            THEN /\ eventCh' = [eventCh EXCEPT ![h] = Append(@, d.event)]
                 /\ got' = [got EXCEPT ![h] = Append(@, d.event)]
                 /\ UNCHANGED missed
            ELSE /\ missed' = [missed EXCEPT ![h] = @ \cup d.event.ids]
                 /\ UNCHANGED <<eventCh, got>>
       /\ UNCHANGED <<sent, channels, coalescer, dropped, invoking, handlers, filter,
                      answered, done, ran, since>>

handleEventReturns ==
    \E d \in handling :
       /\ d.listed /\ d.streams = {}
       /\ handling' = {}
       /\ done' = Append(done, d.event)
       /\ UNCHANGED <<sent, channels, coalescer, dropped, invoking, streamVars, answered, ran, streamHistory>>

-----------------------------------------------------------------------------
(* Streams: Monitor starts one, sends what it is given, and stops it. *)

StartStreamEvents(h, f) ==
    /\ filter[h] = {}
    /\ handlers' = handlers \cup {h}
    /\ filter' = [filter EXCEPT ![h] = f]
    /\ since' = [since EXCEPT ![h] = Len(done) + Cardinality(handling)]
    /\ UNCHANGED <<sent, channels, coalescer, dropped, handling, invoking, eventCh,
                   answered, done, ran, got, missed>>

StopStreamEvents(h) ==
    /\ h \in handlers
    /\ handlers' = handlers \ {h}
    /\ UNCHANGED <<sent, channels, coalescer, dropped, handling, invoking, filter, eventCh,
                   answered, done, ran, streamHistory>>

\* The client takes an event.
Monitor(h) ==
    /\ h \in handlers
    /\ eventCh[h] # <<>>
    /\ eventCh' = [eventCh EXCEPT ![h] = Tail(@)]
    /\ UNCHANGED <<sent, channels, coalescer, dropped, handling, invoking, handlers, filter,
                   answered, done, ran, streamHistory>>

DispatchStep == readHandlerList \/ handleEventReturns \/ \E h \in Handler : HandleEvent(h)

flushSends == \E e \in flushing : sendCoalesced(e)

Next == \/ \E type \in MemberType, m \in Member : Send(type, {m})
        \/ \E type \in {"user", "key"} : Send(type, {})
        \/ teeEvents \/ coalesce \/ flush \/ flushSends \/ receiveKeyEvents
        \/ receiveEvents \/ invokeEventScript \/ ScriptEnds \/ DispatchStep
        \/ \E h \in Handler, f \in Filter : StartStreamEvents(h, f)
        \/ \E h \in Handler : StopStreamEvents(h) \/ Monitor(h)

(***************************************************************************)
(* The goroutines go on when they can and the coalescer's ticker ticks.    *)
(* Nothing is assumed of scripts, which may hang, nor of clients.          *)
(***************************************************************************)
Spec == /\ Init /\ [][Next]_vars
        /\ WF_vars(teeEvents) /\ WF_vars(coalesce) /\ WF_vars(flush) /\ WF_vars(flushSends)
        /\ WF_vars(receiveKeyEvents) /\ WF_vars(receiveEvents) /\ WF_vars(invokeEventScript) /\ WF_vars(DispatchStep)

-----------------------------------------------------------------------------
Within(ch) == UNION {ch[i].ids : i \in DOMAIN ch}
Handled == Within(done)

EventType == MemberType \cup {"user", "key"}
EventRecord == [Type : EventType, ids : SUBSET Nat, of : SUBSET Member]

TypeOK ==
    /\ sent \in 0 .. MaxEvents
    /\ \A ch \in {inEventCh, teedCh, keyCh, outEventCh} :
          ch \in Seq(EventRecord) /\ Len(ch) <= ChSize
    /\ newEvents \cup flushing \subseteq EventRecord
    /\ handling \subseteq [event : EventRecord, scripts : SUBSET ScriptFilters,
                           streams : SUBSET Handler, listed : BOOLEAN]
    /\ \A d, e \in handling : d = e
    /\ invoking \subseteq EventRecord /\ \A d, e \in invoking : d = e
    /\ handlers \subseteq Handler /\ filter \in [Handler -> SUBSET EventType]
    /\ eventCh \in [Handler -> Seq(EventRecord)] /\ \A h \in Handler : Len(eventCh[h]) <= StreamSize
    /\ done \in Seq(EventRecord)
    /\ ran \in Seq([event : EventRecord, script : ScriptFilters])
    /\ got \in [Handler -> Seq(EventRecord)]
    /\ missed \in [Handler -> SUBSET (1 .. sent)]
    /\ since \in [Handler -> Nat]

\* The types, and that an event is at one place: on its way, with the coalescer or
\* the handlers, through, or left out by the coalescer or dropped by the tee; no
\* stage loses one or makes two of it (snapshot.go:129-140, coalescer.go:45-96).
\* Why the coalescer leaves one out is for Coalescer to say.
Begun == UNION {d.event.ids : d \in handling}
Waiting == UNION {e.ids : e \in newEvents}
Flushing == UNION {e.ids : e \in flushing}
Places == <<Within(inEventCh), Within(teedCh), Waiting, Within(keyCh), Within(outEventCh),
            Begun, Handled, answered, dropped, Flushing, leftOut>>
PipelineInv == /\ TypeOK
               /\ UNION {Places[i] : i \in DOMAIN Places} = 1 .. sent
               /\ \A i, j \in DOMAIN Places : i # j => Places[i] \cap Places[j] = {}

\* Of the events that came as far as the handlers, a stream that is on has all it
\* matches since it was started, but those it had no room for itself: no other
\* stream and no change of the list makes it miss one, and events wait for a slow
\* script (event_handlers.go:81-108,166-173).  What the tee drops comes to none.
NoGaps ==
    \A h \in handlers : \A i \in since[h] + 1 .. Len(done) :
       Matches(filter[h], done[i]) =>
          done[i].ids \subseteq missed[h] \cup Within(got[h])

\* Event e was sent before f, or may be given before it all the same: f is a
\* member event and e is not, or they are of different types and members.
Before(e, f) == \A m \in e.ids, n \in f.ids :
                   \/ m < n
                   \/ IsMemberEvent(f) /\ ~IsMemberEvent(e)
                   \/ /\ IsMemberEvent(f) /\ IsMemberEvent(e)
                      /\ e.Type # f.Type /\ e.of \cap f.of = {}

\* Each stream and each script is given an event once, whatever is dropped on the
\* way and whenever a stream was started.  User events come in the order in which
\* they were sent, and so do the events of one member and those of one type; a
\* member event, which waits for a flush, may be overtaken by events that are
\* none, and by one of another type and of other members, since a flush sends its
\* types in any order (event_handlers.go:39-42,175-198, coalescer.go:45-96).
InOrder ==
    /\ \A i, j \in DOMAIN ran : i < j =>
          \/ Before(ran[i].event, ran[j].event)
          \/ ran[i].event = ran[j].event /\ ran[i].script # ran[j].script
    /\ \A h \in Handler : \A i, j \in DOMAIN got[h] : i < j => Before(got[h][i], got[h][j])

\* As long as scripts end, every event that the tee did not drop gets to the
\* handlers or, a key query, is answered, or the coalescer leaves it out; no stage
\* waits for ever for another (event_handlers.go:166-198, key_query.go:116-131).
EventsArrive ==
    WF_vars(ScriptEnds) =>
       \A n \in 1 .. MaxEvents :
          n \in 1 .. sent ~> n \in Handled \cup answered \cup dropped \cup leftOut
=============================================================================
