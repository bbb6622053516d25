------------------------------ MODULE Snapshot ------------------------------
(***************************************************************************)
(* snapshot.go: the goroutine of receiveEvents writes the members that are *)
(* alive and the latest times of actions and queries to a log, through a   *)
(* buffer that is flushed at every tick, and compacts the log when it gets *)
(* long or a write has failed.  The process may be killed between any two  *)
(* operations on files; a new one replays the log.                         *)
(*                                                                         *)
(* A line is <<kind, value>>.  Sizes are counted in lines.  An address     *)
(* goes with its ID.  What was written to a file survives the process.     *)
(***************************************************************************)
EXTENDS Naturals, Sequences, FiniteSets

SX == INSTANCE SequencesExt

CONSTANTS NodeID,
          Junk,            \* what a torn line makes of an ID
          MinCompactSize,  \* Config.SnapshotMinCompactSize
          BytesPerNode,    \* snapshotBytesPerNode * snapshotCompactionFactor
          Faults,          \* operations on files that may fail
          CrashPoints,     \* values of pc at which the process may be killed
          TeeSize,         \* eventChSize
          TornEnds,        \* whether a process may end when the file ends within
                           \* a line
          MaxTime, MaxEvents, MaxRuns, MaxFaults   \* bounds

ASSUME SnapshotAssumption ==
          /\ Junk \notin NodeID
          /\ Faults \subseteq {"write", "dump", "remove", "rename", "open"}
          /\ CrashPoints \subseteq {"loop", "compact", "dumped", "flushed", "removed", "renamed"}
          /\ TornEnds \in BOOLEAN
          /\ {MinCompactSize, BytesPerNode, TeeSize, MaxTime, MaxEvents, MaxRuns, MaxFaults} \subseteq Nat

VARIABLES mem,         \* aliveNodes, lastActionClock, lastQueryClock
          leaving,
          teeCh,       \* events the tee has handed over
          file,        \* the complete lines at path
          stump,       \* the kind of an incomplete last line a dead process left
          compactFile, \* the lines at path + ".compact"
          buffer,      \* lines not written yet
          cut,         \* whether the first of them is in the file in part
          handle,      \* fh and buffer: "ok", "broken" after an error, or "nil"
          pc,          \* where receiveEvents is
          recovering,  \* whether recover called compact
          cooled,      \* whether recover may try again
          stopping,    \* whether shutdownCh is closed
          events, runs, faults

diskVars == <<file, stump, compactFile>>
bufVars == <<buffer, cut, handle>>
recVars == <<recovering, cooled>>
runVars == <<leaving, stopping>>
count == <<events, runs, faults>>
vars == <<mem, leaving, teeCh, file, stump, compactFile, buffer, cut, handle, pc,
          recovering, cooled, stopping, events, runs, faults>>

Blank == [aliveNodes |-> {}, lastActionClock |-> 0, lastQueryClock |-> 0]

-----------------------------------------------------------------------------
(* The log: how it is read, and what is written. *)

\* handleLine.  Two lines that were run together have the prefix of the first:
\* an alive line then yields a name that nobody has, the clock of queries is
\* reset by what is not a number, and the rest is skipped.  (The slice of line
\* 404 is out of range if the first was cut within the name and the second is
\* "leave"; that panic is not modelled.)
handleLine(s, l) ==
    CASE l[1] = "alive"        -> [s EXCEPT !.aliveNodes = @ \cup {l[2]}]
      [] l[1] = "not-alive"    -> [s EXCEPT !.aliveNodes = @ \ {l[2]}]
      [] l[1] = "action-clock" -> [s EXCEPT !.lastActionClock = l[2]]
      [] l[1] = "query-clock"  -> [s EXCEPT !.lastQueryClock = l[2]]
      [] l[1] = "glued"        ->
            [s EXCEPT !.aliveNodes = IF l[2] = "alive" THEN @ \cup {Junk} ELSE @,
                      !.lastQueryClock = IF l[2] = "query-clock" THEN 0 ELSE @]
      [] OTHER                 -> s

\* replay, which does not get to a line without its end.
replay(lines) ==
    LET after[i \in 0 .. Len(lines)] == IF i = 0 THEN Blank ELSE handleLine(after[i - 1], lines[i])
    IN  after[Len(lines)]

\* Mutant: the clock of actions is left out of the compacted log.
DumpLines_noClock ==
    LET alive == SX!SetToSeq({<<"alive", n>> : n \in mem.aliveNodes})
    IN  alive \o <<<<"query-clock", mem.lastQueryClock>>>>
              \o (IF leaving THEN <<<<"leave", "">>>> ELSE <<>>)

\* dump, in the order in which it writes.
DumpLines ==
    LET alive == SX!SetToSeq({<<"alive", n>> : n \in mem.aliveNodes})
    IN  alive \o <<<<"action-clock", mem.lastActionClock>>, <<"query-clock", mem.lastQueryClock>>>>
              \o (IF leaving THEN <<<<"leave", "">>>> ELSE <<>>)

\* The file after these lines were appended to it.
Glued(lines) == IF stump = {} \/ lines = <<>>
                  THEN lines
                  ELSE <<<<"glued", CHOOSE k \in stump : TRUE>>>> \o Tail(lines)
Write(lines) == /\ file' = file \o Glued(lines)
                /\ stump' = IF lines = <<>> THEN stump ELSE {}

\* A write that fails: the lines up to one, and perhaps part of that one, get
\* into the file.  bufio never writes what is left.
FailedWrite(lines) ==
    \E n \in 0 .. Len(lines) - 1 :
       /\ file' = file \o Glued(SubSeq(lines, 1, n))
       /\ stump' \in IF n = 0 /\ stump # {}
                       THEN {stump}
                       ELSE {{lines[n + 1][1]}} \cup (IF n = 0 /\ cut THEN {} ELSE {{}})
       /\ buffer' = <<>> /\ cut' = FALSE

WriteAll == /\ Write(buffer)
            /\ buffer' = <<>>
            /\ cut' = FALSE

threshold == IF Cardinality(mem'.aliveNodes) * BytesPerNode < MinCompactSize
               THEN MinCompactSize ELSE Cardinality(mem'.aliveNodes) * BytesPerNode
Exceeds == Len(file) + Len(buffer) + 1 > threshold

Init == /\ mem = Blank
        /\ leaving = FALSE
        /\ teeCh = <<>>
        /\ file = <<>> /\ stump = {} /\ compactFile = <<>>
        /\ buffer = <<>> /\ cut = FALSE /\ handle = "ok"
        /\ pc = "loop"
        /\ recovering = FALSE /\ cooled = TRUE
        /\ stopping = FALSE
        /\ events = 0 /\ runs = 1 /\ faults = 0

-----------------------------------------------------------------------------
(* Errors. *)

Fault(op) == /\ op \in Faults
             /\ faults < MaxFaults
             /\ faults' = faults + 1

\* bufio stays in error after it.
WriteFault(lines) == /\ Fault("write")
                     /\ lines # <<>>
                     /\ FailedWrite(lines)
                     /\ handle' = "broken"

\* A call on the buffer or the file of a nil handle.
NilHandle == /\ pc' = "panicked"
             /\ UNCHANGED <<mem, teeCh, diskVars, bufVars, recVars, runVars, count>>

\* Mutant: the error is taken note of, and nothing is done about it.
recover_noCompaction == /\ pc' = "loop"
                        /\ recovering' = FALSE
                        /\ UNCHANGED cooled

\* recover: another compaction, unless there was one lately.
recover == IF cooled
             THEN /\ pc' = "compact"
                  /\ recovering' = TRUE
                  /\ cooled' = FALSE
             ELSE /\ pc' = "loop"
                  /\ recovering' = FALSE
                  /\ UNCHANGED cooled

CoolDown == /\ ~cooled
            /\ cooled' = TRUE
            /\ UNCHANGED <<mem, teeCh, diskVars, bufVars, pc, recovering, runVars, count>>

-----------------------------------------------------------------------------
(* Events. *)

Event == ({"join", "failed", "leave", "update"} \X NodeID) \cup ({"action", "query"} \X (1 .. MaxTime))

\* forwardEvent, by the tee.
Tee(e) == /\ pc \notin {"stopped", "panicked"}
          /\ events < MaxEvents
          /\ events' = events + 1
          /\ teeCh' = IF Len(teeCh) < TeeSize THEN Append(teeCh, e) ELSE teeCh
          /\ UNCHANGED <<mem, diskVars, bufVars, pc, recVars, runVars, runs, faults>>

\* recordEvent: what an event adds to the log.
LineOf(e) ==
    CASE e[1] = "join"              -> {<<"alive", e[2]>>}
      [] e[1] \in {"failed", "leave"} -> {<<"not-alive", e[2]>>}
      [] e[1] = "action" /\ e[2] > mem.lastActionClock -> {<<"action-clock", e[2]>>}
      [] e[1] = "query" /\ e[2] > mem.lastQueryClock   -> {<<"query-clock", e[2]>>}
      [] OTHER -> {}

\* tryAppend, with a good handle: the buffer may be full, and then it is
\* written up to somewhere within the new line.
Appended(l) == \/ /\ buffer' = Append(buffer, l)
                  /\ UNCHANGED <<file, stump, cut>>
               \/ /\ buffer # <<>>
                  /\ Write(buffer)
                  /\ buffer' = <<l>>
                  /\ cut' = TRUE

tryAppend(l) ==
    \/ /\ handle = "ok"
       /\ Appended(l)
       /\ pc' = IF Exceeds THEN "compact" ELSE "loop"
       /\ UNCHANGED <<handle, recVars, faults>>
    \/ /\ handle = "ok" /\ buffer # <<>>
       /\ WriteFault(Append(buffer, l))
       /\ recover
    \/ /\ handle = "broken"
       /\ recover
       /\ UNCHANGED <<file, stump, bufVars, faults>>

recordEvent ==
    /\ pc = "loop"
    /\ teeCh # <<>>
    /\ LET lines == IF leaving THEN {} ELSE LineOf(Head(teeCh))
       IN  IF lines # {} /\ handle = "nil"
             THEN NilHandle
             ELSE /\ teeCh' = Tail(teeCh)
                  /\ \/ /\ lines = {}
                        /\ UNCHANGED <<mem, file, stump, bufVars, pc, recVars, faults>>
                     \/ \E l \in lines : mem' = handleLine(mem, l) /\ tryAppend(l)
                  /\ UNCHANGED <<compactFile, runVars, events, runs>>

\* case <-s.leaveCh: a line, and a flush unless the line led to a compaction or
\* an error.  That the flush fails is taken note of only.
Leave ==
    /\ pc = "loop" /\ ~stopping /\ ~leaving
    /\ IF handle = "nil"
         THEN NilHandle
         ELSE /\ leaving' = TRUE
              /\ mem' = mem
              /\ LET lines == Append(buffer, <<"leave", "">>)
                 IN  \/ /\ handle = "ok" /\ ~Exceeds
                        /\ \/ Write(lines) /\ buffer' = <<>> /\ cut' = FALSE /\ UNCHANGED <<handle, faults>>
                           \/ WriteFault(lines)
                        /\ UNCHANGED <<pc, recVars>>
                     \/ /\ tryAppend(<<"leave", "">>)
                        /\ pc' = "compact" \/ handle' = "broken"
              /\ UNCHANGED <<teeCh, compactFile, stopping, events, runs>>

FlushTick ==
    /\ pc = "loop" /\ ~stopping
    /\ IF handle = "nil"
         THEN NilHandle
         ELSE /\ \/ /\ handle = "ok"
                    /\ WriteAll
                    /\ UNCHANGED <<pc, recVars, handle, faults>>
                 \/ /\ handle = "ok"
                    /\ WriteFault(buffer)
                    /\ recover
                 \/ /\ handle = "broken"
                    /\ recover
                    /\ UNCHANGED <<file, stump, bufVars, faults>>
              /\ UNCHANGED <<mem, teeCh, compactFile, runVars, events, runs>>

-----------------------------------------------------------------------------
(* compact, one operation on files at a time. *)

Step(from, to) == /\ pc = from
                  /\ pc' = to
                  /\ UNCHANGED <<mem, teeCh, runVars, count>>

\* Mutant: the old file is closed before it is clear that the dump succeeds.
Dump_closesOld == /\ Step("compact", "dumped")
                  /\ compactFile' = DumpLines
                  /\ handle' = "nil"
                  /\ UNCHANGED <<file, stump, buffer, cut, recVars>>

Dump == /\ Step("compact", "dumped")
        /\ compactFile' = DumpLines
        /\ UNCHANGED <<file, stump, bufVars, recVars>>

\* s.buffer.Flush(), whose error is ignored, and s.buffer = nil.
FlushOld ==
    /\ pc = "dumped"
    /\ IF handle = "nil"
         THEN NilHandle
         ELSE /\ pc' = "flushed" /\ handle' = "nil"
              /\ \/ /\ handle = "ok"
                    /\ WriteAll
                    /\ UNCHANGED faults
                 \/ /\ handle = "ok" /\ buffer # <<>>
                    /\ Fault("write")
                    /\ FailedWrite(buffer)
                 \/ /\ handle = "broken"
                    /\ UNCHANGED <<file, stump, buffer, cut, faults>>
              /\ UNCHANGED <<mem, teeCh, compactFile, recVars, runVars, events, runs>>

Remove == /\ Step("flushed", "removed")
          /\ file' = <<>> /\ stump' = {}
          /\ UNCHANGED <<compactFile, bufVars, recVars>>

Rename == /\ Step("removed", "renamed")
          /\ file' = compactFile
          /\ compactFile' = <<>>
          /\ UNCHANGED <<stump, bufVars, recVars>>

Open == /\ Step("renamed", "loop")
        /\ handle' = "ok"
        /\ recovering' = FALSE
        /\ UNCHANGED <<diskVars, buffer, cut, cooled>>

\* An operation fails: compact returns the error.  tryAppend then calls
\* recover, which does not call itself.
CompactFails(op, at) ==
    /\ pc = at
    /\ Fault(op)
    /\ IF recovering
         THEN /\ pc' = "loop" /\ recovering' = FALSE
              /\ UNCHANGED cooled
         ELSE recover
    /\ UNCHANGED <<mem, teeCh, diskVars, bufVars, runVars, events, runs>>

CompactError == {<<"dump", "compact">>, <<"remove", "flushed">>,
                 <<"rename", "removed">>, <<"open", "renamed">>}

Compact == \/ Dump \/ FlushOld \/ Remove \/ Rename \/ Open
           \/ \E e \in CompactError : CompactFails(e[1], e[2])

-----------------------------------------------------------------------------
(* The end of a process, and the next one. *)

Shutdown == /\ ~stopping
            /\ stopping' = TRUE
            /\ UNCHANGED <<mem, leaving, teeCh, diskVars, bufVars, pc, recVars, count>>

\* Mutant: the file is flushed and closed before the events are drained.
Stop_flushFirst ==
    /\ pc = "loop" /\ stopping
    /\ handle # "nil"
    /\ pc' = "stopped"
    /\ IF handle = "ok" THEN WriteAll ELSE UNCHANGED <<file, stump, buffer, cut>>
    /\ UNCHANGED <<mem, teeCh, compactFile, handle, recVars, runVars, count>>

\* The deferred functions: the events of teeCh are drained, then the file is
\* flushed and closed, or cannot be.  The drain timeout is long enough.
Stop == /\ pc = "loop" /\ stopping
        /\ teeCh = <<>>
        /\ IF handle = "nil"
             THEN NilHandle
             ELSE /\ pc' = "stopped"
                  /\ \/ /\ handle = "ok"
                        /\ WriteAll
                        /\ UNCHANGED <<handle, faults>>
                     \/ /\ handle = "ok"
                        /\ WriteFault(buffer)
                     \/ /\ handle = "broken"
                        /\ UNCHANGED <<file, stump, bufVars, faults>>
                  /\ UNCHANGED <<mem, teeCh, compactFile, recVars, runVars, events, runs>>

\* What a process that ends leaves of a line.
Abandoned == IF cut /\ stump = {} THEN {Head(buffer)[1]} ELSE stump

\* The process is killed, or has stopped, and NewSnapshotter replays the file.
Restart ==
    /\ pc \in CrashPoints \cup {"stopped", "panicked"}
    /\ TornEnds \/ Abandoned = {}
    /\ runs < MaxRuns
    /\ runs' = runs + 1
    /\ mem' = replay(file)
    /\ stump' = Abandoned
    /\ leaving' = FALSE /\ stopping' = FALSE
    /\ teeCh' = <<>> /\ buffer' = <<>> /\ cut' = FALSE /\ handle' = "ok"
    /\ pc' = "loop"
    /\ recovering' = FALSE /\ cooled' = TRUE
    /\ UNCHANGED <<file, compactFile, events, faults>>

Next == \/ \E e \in Event : Tee(e)
        \/ CoolDown \/ recordEvent \/ Leave \/ FlushTick \/ Compact
        \/ Shutdown \/ Stop \/ Restart

(***************************************************************************)
(* The goroutine goes on with a compaction and with the events it has, its *)
(* ticker ticks, and time passes.  Nobody need shut the process down.      *)
(***************************************************************************)
Spec == /\ Init /\ [][Next]_vars
        /\ WF_vars(Compact) /\ WF_vars(recordEvent) /\ WF_vars(FlushTick)
        /\ WF_vars(CoolDown) /\ WF_vars(Stop)

-----------------------------------------------------------------------------
TypeOK == /\ mem.aliveNodes \subseteq NodeID \cup {Junk}
          /\ mem.lastActionClock \in 0 .. MaxTime /\ mem.lastQueryClock \in 0 .. MaxTime
          /\ Len(teeCh) <= TeeSize
          /\ handle \in {"ok", "broken", "nil"}
          /\ pc \in {"loop", "compact", "dumped", "flushed", "removed", "renamed", "stopped", "panicked"}
          /\ pc \in {"flushed", "removed", "renamed"} => handle = "nil"

\* What a restart will read: between its last two operations a compaction has
\* put all it needs into the new file.
OnDisk == IF pc = "removed" THEN compactFile ELSE file
Durable == replay(OnDisk)
Since == {replay(OnDisk \o Glued(SubSeq(buffer, 1, i))) : i \in 0 .. Len(buffer)}
            \cup {Durable, mem}

\* As long as no write has failed, the log and the buffer say what the memory
\* says, across compactions and runs (snapshot.go:192-258,294-443).
LogIsMemory == handle = "ok" /\ pc \in {"loop", "compact", "dumped", "stopped"} =>
                  replay(file \o Glued(buffer)) = mem

\* The snapshotter has a file to write to whenever it is not compacting
\* (snapshot.go:267-279: it recovers from an error by compaction).
HandleIsUsable == pc # "panicked" /\ (pc = "loop" => handle # "nil")

\* The types, the agreement of the log with the memory, and a log to write to.
SnapshotInv == TypeOK /\ LogIsMemory /\ HandleIsUsable

\* A restart, wherever the process was killed, reads a state the node was in,
\* and none older than what was flushed (snapshot.go:97,343-382).
State == INSTANCE DurableState WITH Initial <- Blank, current <- mem,
                                    durable <- Durable, since <- Since
ImplementsDurableState == State!Spec

\* When Wait returns after a shutdown, the file tells all that the tee had
\* handed over, unless a write failed and no compaction succeeded after it
\* (snapshot.go:147-169,472).
StoppedIsDurable == pc = "stopped" => teeCh = <<>> /\ (handle = "ok" => replay(file) = mem)

\* A time that was recorded gets to the file, after any number of failed
\* writes and compactions, if the process is neither shut down nor killed first
\* (snapshot.go:181-184,260-279).
TimesReachDisk == \A t \in 1 .. MaxTime :
    mem.lastActionClock = t ~>
       Durable.lastActionClock >= t \/ stopping \/ mem.lastActionClock < t
=============================================================================
