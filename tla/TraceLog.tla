------------------------------- MODULE TraceLog -------------------------------
(***************************************************************************)
(* The trace of the Paho C client (Log.c): a ring of the latest entries    *)
(* kept in memory for every thread, and the lines of at least the output   *)
(* level written to a file that is renamed to a backup when it is long.    *)
(* An entry is its number and level; Log and Log_stackTrace work under     *)
(* log_mutex, Log_terminate and the level's setter do not.                 *)
(***************************************************************************)
EXTENDS Integers, Sequences, SequencesExt

CONSTANTS
  max_trace_entries,    \* 400 in trace_settings
  max_lines_per_file,   \* MQTT_C_CLIENT_TRACE_MAX_LINES
  LogLevels,            \* the levels of messages and settings
  MaxEntries            \* entries made

ASSUME LogAssumption ==
  /\ {max_trace_entries, max_lines_per_file, MaxEntries} \subseteq Nat \ {0}
  /\ LogLevels \subseteq 1 .. 7

INVALID_LEVEL == -1
TRACE_MINIMUM == 3

VARIABLES
  ring,          \* trace_queue with start_index and next_index; open: it is not NULL
  levels,        \* trace_settings.trace_level and trace_output_level
  destination,   \* trace_destination: none, the file or stdout; what each holds; lines_written
  logged,        \* ghost: the entries made since Log_initialize, oldest first
  shown          \* ghost: the lines written, and the level the application asked for

logVars == <<ring, levels, destination, logged, shown>>

NoEntry == [number |-> 0, level |-> 0]
EmptyRing == [open |-> FALSE, start |-> -1, next |-> 0, entry |-> [i \in 0 .. max_trace_entries - 1 |-> NoEntry]]

LogInit ==
  /\ ring = EmptyRing
  /\ levels = [trace |-> TRACE_MINIMUM, output |-> INVALID_LEVEL]
  /\ destination = [to |-> "none", file |-> <<>>, backup |-> <<>>, stdout |-> <<>>, lines |-> 0]
  /\ logged = <<>> /\ shown = [lines |-> <<>>, level |-> TRACE_MINIMUM]

\* MQTT_C_CLIENT_TRACE names a file, or stdout, or nothing; the banner's lines are left out.
\* lines_written is not reset, so the first file of a second use is renamed early.
Log_initialize(to) ==
  /\ ~ring.open
  /\ ring' = [ring EXCEPT !.open = TRUE]
  /\ destination' = [destination EXCEPT !.to = to, !.file = <<>>, !.backup = <<>>, !.stdout = <<>>]
  /\ shown' = [shown EXCEPT !.lines = <<>>]
  /\ UNCHANGED <<levels, logged>>

\* The lowest level that is recorded only ever falls; the output level is what was set.
Log_setTraceLevel(level) ==
  /\ levels' = [trace |-> IF level < TRACE_MINIMUM THEN level ELSE levels.trace, output |-> level]
  /\ shown' = [shown EXCEPT !.level = level]
  /\ UNCHANGED <<ring, destination, logged>>

\* The level that was recorded stays; the output level and the ring start anew.
Log_terminate ==
  /\ ring.open
  /\ ring' = EmptyRing
  /\ destination' = [destination EXCEPT !.to = "none"]
  /\ levels' = [levels EXCEPT !.output = INVALID_LEVEL]
  /\ logged' = <<>>
  /\ shown' = [shown EXCEPT !.level = levels.trace]

Wrapped(i) == IF i = max_trace_entries THEN 0 ELSE i

\* When the ring is full the oldest entry gives way.
Oldest(r) == IF r.next = r.start THEN Wrapped(r.start + 1) ELSE IF r.start = -1 THEN 0 ELSE r.start

Log_pretrace(e) ==
  [ring EXCEPT !.entry[ring.next] = e, !.start = Oldest(ring), !.next = Wrapped(ring.next + 1)]

\* The file, with its last line, becomes the backup; if a new one cannot be opened, stdout serves.
Rotate(d, line, reopened) ==
  [d EXCEPT !.to = IF reopened THEN "file" ELSE "stdout", !.file = <<>>, !.lines = 0,
            !.backup = Append(d.file, line)]

Log_output(d, line, reopened) ==
  CASE d.to = "none" -> d
    [] d.to = "stdout" -> [d EXCEPT !.stdout = Append(@, line)]
    [] d.to = "file" /\ d.lines + 1 >= max_lines_per_file -> Rotate(d, line, reopened)
    [] OTHER -> [d EXCEPT !.file = Append(@, line), !.lines = @ + 1]

\* Log_posttrace: with no output level set, the recorded level is the output level
Output(level) == IF levels.output = INVALID_LEVEL THEN level >= levels.trace ELSE level >= levels.output

\* Log and Log_trace, or Log_stackTrace, for a message of the recorded level at least
Log(level, reopened) ==
  LET e == [number |-> Len(logged) + 1, level |-> level] IN
  /\ level >= levels.trace /\ ring.open /\ Len(logged) < MaxEntries
  /\ ring' = Log_pretrace(e)
  /\ logged' = Append(logged, e)
  /\ destination' = IF Output(level) THEN Log_output(destination, e, reopened) ELSE destination
  /\ shown' = IF level >= shown.level /\ destination.to # "none"
              THEN [shown EXCEPT !.lines = Append(@, e)] ELSE shown
  /\ UNCHANGED levels

LogNext ==
  \/ \E to \in {"none", "stdout", "file"} : Log_initialize(to)
  \/ \E level \in LogLevels : Log_setTraceLevel(level) \/ \E reopened \in BOOLEAN : Log(level, reopened)
  \/ Log_terminate

-----------------------------------------------------------------------------
RECURSIVE RingFrom(_, _)
RingFrom(i, n) == IF n = 0 THEN <<>> ELSE <<ring.entry[i]>> \o RingFrom(Wrapped(i + 1), n - 1)

Held == IF Len(logged) < max_trace_entries THEN Len(logged) ELSE max_trace_entries
LastEntries(s, n) == SubSeq(s, Len(s) - n + 1, Len(s))

\* The ring holds the latest entries, in order, whatever its wrap-around.
RingHoldsLatest ==
  ring.open => RingFrom(IF ring.start = -1 THEN 0 ELSE ring.start, Held) = LastEntries(logged, Held)

LinesWritten == destination.backup \o destination.file \o destination.stdout

\* The files hold the latest lines without a gap, the last one included, and the file being
\* written is never over its length.
FilesHoldLatest ==
  /\ IsSuffix(LinesWritten, shown.lines)
  /\ shown.lines # <<>> => LinesWritten # <<>>
  /\ Len(destination.file) < max_lines_per_file

\* Log.c keeps the latest trace entries in memory and exactly the messages of the level the
\* application asked for in its files, through wrap-around, renaming, failed reopening and
\* changes of level.
TraceSound == RingHoldsLatest /\ FilesHoldLatest
================================================================================
