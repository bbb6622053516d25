----------------------------- MODULE LogStreams -----------------------------
(***************************************************************************)
(* The log lines that the RPC Monitor streams: a ring of the latest ones,  *)
(* and a bounded channel per stream into which lines are put without       *)
(* waiting.  A line that finds a channel full is skipped, and a goroutine  *)
(* logs a warning about it, which goes the same way as any other line.     *)
(* The logger holds its lock while it writes: a call of Printf is a step.  *)
(*                                                                         *)
(* Source: rpc/server/log.go, Monitor in rpc/server/server.go.             *)
(***************************************************************************)
EXTENDS Integers, Sequences, FiniteSets

SX == INSTANCE SequencesExt

CONSTANTS MonitorCall, \* calls of Monitor
          RingSize,    \* 512 in newLogStreamManager
          ChSize,      \* room in the channel of a stream, 1024 in Monitor
          Level,       \* the levels of lines, numbers
          WARN,        \* the level of the warning about a skipped line
          LogLevel,    \* the level the server is configured with
          Syslog,      \* whether the server may log to a syslog as well
          MaxLines     \* bound on the lines that reach the streams

ASSUME LogStreamsAssumption ==
          /\ Level \subseteq Nat /\ {WARN, LogLevel} \subseteq Level
          /\ RingSize \in Nat \ {0} /\ ChSize \in Nat /\ RingSize <= ChSize
          /\ Syslog \subseteq BOOLEAN
          /\ MaxLines \in Nat

VARIABLES syslog,     \* whether there is a syslog
          lines,      \* history: the levels of the lines that came to Write; a
                      \* line is known by its position here
          buf, idx,   \* the ring; 0 is an empty slot
          streamerMap,\* the registered streams
          minLevel,   \* the level of each stream
          logCh,      \* its channel
          taken,      \* what Monitor has taken from it so far
          expected,   \* history: the lines it was to get
          warnings,   \* goroutines that are to log that a line was skipped
          warned      \* history: those that have

logVars == <<syslog, lines, buf, idx, streamerMap, minLevel, logCh, taken,
             expected, warnings, warned>>

Check(min, level) == level >= min

LogInit == /\ syslog \in Syslog
           /\ lines = <<>>
           /\ buf = [i \in 0 .. RingSize - 1 |-> 0]
           /\ idx = 0
           /\ streamerMap = {}
           /\ minLevel \in [MonitorCall -> Level]
           /\ logCh = [s \in MonitorCall |-> <<>>]
           /\ taken = [s \in MonitorCall |-> <<>>]
           /\ expected = [s \in MonitorCall |-> {}]
           /\ warnings = 0
           /\ warned = 0

-----------------------------------------------------------------------------
(* The ring. *)

\* Mutant: the index is advanced before the line is stored.
write_early(line) ==
    /\ idx' = (idx + 1) % RingSize
    /\ buf' = [buf EXCEPT ![idx'] = line]

write(line) ==
    /\ buf' = [buf EXCEPT ![idx] = line]
    /\ idx' = (idx + 1) % RingSize

\* dump: the lines of the ring that a stream of level min lets through, from the
\* oldest to the newest.
dump(min) ==
    LET line(i) == buf[(idx + i - 1) % RingSize]
        old[i \in 0 .. RingSize] ==
           IF i = 0 THEN <<>>
           ELSE IF line(i) # 0 /\ Check(min, lines[line(i)]) THEN Append(old[i - 1], line(i))
           ELSE old[i - 1]
    IN  old[RingSize]

-----------------------------------------------------------------------------
(* Lines. *)

Receivers(level) == {s \in streamerMap : Check(minLevel[s], level)}
Full(s) == Len(logCh[s]) = ChSize

\* Mutant: the warning is left out when another one is under way.
Skipped_once(level) ==
    IF warnings = 0 THEN {s \in Receivers(level) : Full(s)} ELSE {}

\* The streams that skip the line, each with a warning of its own.
Skipped(level) == {s \in Receivers(level) : Full(s)}

\* Write: the next line is stored and streamed to all.
Write(level) ==
    LET line == Len(lines) + 1
    IN  /\ Len(lines) < MaxLines
        /\ lines' = Append(lines, level)
        /\ write(line)
        /\ logCh' = [s \in MonitorCall |-> IF s \in Receivers(level) /\ ~Full(s)
                                             THEN Append(logCh[s], line) ELSE logCh[s]]
        /\ expected' = [s \in MonitorCall |-> IF s \in Receivers(level)
                                                THEN expected[s] \cup {line} ELSE expected[s]]
        /\ UNCHANGED <<syslog, streamerMap, minLevel, taken>>

\* io.MultiWriter stops at a writer that fails or writes less than it was
\* given: FilterSyslog does either, and the streams come after it.
MayReachStreams(level) == syslog => Check(LogLevel, level)
MayStopBefore == syslog

Printf(level) ==
    /\ MayReachStreams(level)
    /\ Write(level)
    /\ warnings' = warnings + Cardinality(Skipped(level))
    /\ UNCHANGED warned

Warn ==
    /\ warnings > 0
    /\ warned' = warned + 1
    /\ \/ /\ MayReachStreams(WARN)
          /\ Write(WARN)
          /\ warnings' = warnings - 1 + Cardinality(Skipped(WARN))
       \/ /\ MayStopBefore
          /\ warnings' = warnings - 1
          /\ UNCHANGED <<syslog, lines, buf, idx, streamerMap, minLevel, logCh, taken, expected>>

-----------------------------------------------------------------------------
(* Monitor. *)

ringVars == <<syslog, lines, buf, idx, warnings, warned>>

\* register: the ring is dumped under the lock the lines are written under.
\* The channel is new and has room for all of it.
register(s) ==
    /\ s \notin streamerMap /\ expected[s] = {}
    /\ logCh' = [logCh EXCEPT ![s] = dump(minLevel[s])]
    /\ expected' = [expected EXCEPT ![s] = SX!ToSet(dump(minLevel[s]))]
    /\ streamerMap' = streamerMap \cup {s}
    /\ UNCHANGED <<ringVars, minLevel, taken>>

\* The loop takes a line and sends it to the client.
Send(s) ==
    /\ s \in streamerMap /\ logCh[s] # <<>>
    /\ taken' = [taken EXCEPT ![s] = Append(@, Head(logCh[s]))]
    /\ logCh' = [logCh EXCEPT ![s] = Tail(@)]
    /\ UNCHANGED <<ringVars, streamerMap, minLevel, expected>>

deregister(s) ==
    /\ s \in streamerMap
    /\ streamerMap' = streamerMap \ {s}
    /\ UNCHANGED <<ringVars, minLevel, logCh, taken, expected>>

LogNext == \/ \E level \in Level : Printf(level)
           \/ Warn
           \/ \E s \in MonitorCall : register(s) \/ Send(s) \/ deregister(s)

LogSpec == LogInit /\ [][LogNext]_logVars

-----------------------------------------------------------------------------
Line == 1 .. Len(lines)

LogTypeOK ==
    /\ lines \in Seq(Level)
    /\ buf \in [0 .. RingSize - 1 -> 0 .. MaxLines] /\ idx \in 0 .. RingSize - 1
    /\ streamerMap \subseteq MonitorCall
    /\ logCh \in [MonitorCall -> Seq(Line)] /\ \A s \in MonitorCall : Len(logCh[s]) <= ChSize
    /\ taken \in [MonitorCall -> Seq(Line)]
    /\ warnings \in Nat

\* The ring holds the latest lines from the oldest to the newest.
RingIsTail ==
    LET w == IF Len(lines) < RingSize THEN Len(lines) ELSE RingSize
    IN  dump(0) = [i \in 1 .. w |-> Len(lines) - w + i]

Streamed(s) == taken[s] \o logCh[s]

\* A stream gets lines of its level in the order they were written, each once,
\* the old ones of the ring first and then the new ones: none is doubled or out
\* of place where the dump ends and the streaming begins, also when the ring
\* has wrapped around and the channel was full (log.go:59-75,93-112).
LogInv ==
    /\ LogTypeOK
    /\ RingIsTail
    /\ \A s \in MonitorCall :
          /\ \A i \in 2 .. Len(Streamed(s)) : Streamed(s)[i - 1] < Streamed(s)[i]
          /\ SX!ToSet(Streamed(s)) \subseteq expected[s]
          /\ \A line \in expected[s] : Check(minLevel[s], lines[line])

\* What was skipped: the streams, each with the lines it was to get and is not
\* given.
Gaps == {gap \in MonitorCall \X Line :
            gap[2] \in expected[gap[1]] \ SX!ToSet(Streamed(gap[1]))}

\* No gap in a stream is silent: there are as many warnings, logged or about to
\* be, as lines were skipped over all streams, those of warnings included
\* (log.go:45-49).
SkipsAreWarned == Cardinality(Gaps) = warnings + warned
=============================================================================
