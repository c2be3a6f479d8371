------------------------------ MODULE PidFile ------------------------------
(***************************************************************************)
(* The text of the pid file: what claimPlaygroundPIDFile writes and what   *)
(* readPIDFile makes of the lines of a file                                *)
(* (components/playground-ng/daemon_files.go).                             *)
(*                                                                         *)
(* A line is its key, the text before "=", and its value, the trimmed text *)
(* after it: Empty, Malformed (what strconv.Atoi or time.Parse rejects) or *)
(* the value itself.  Blank lines and lines with none of the three keys    *)
(* have the key "other".  None is the zero value of every field.           *)
(***************************************************************************)
LOCAL INSTANCE Naturals
LOCAL INSTANCE Sequences
LOCAL INSTANCE SequencesExt

CONSTANT None

Empty     == "empty"
Malformed == "malformed"

\* The lines over the given pids, times and tags.
PidFileLines(pids, times, tags) ==
         [key : {"pid"},        val : pids  \cup {Empty, Malformed}]
    \cup [key : {"started_at"}, val : times \cup {Empty, Malformed}]
    \cup [key : {"tag"},        val : tags  \cup {Empty}]
    \cup [key : {"other"},      val : {Empty}]

\* var out pidFile; seenPID := false
Start == [err |-> None, seen |-> FALSE,
          pid |-> None, startedAt |-> None, tag |-> None]

\* return pidFile{}, fmt.Errorf(...)
Failure(e) == [Start EXCEPT !.err = e]

\* A line, but for the empty started_at.  (As ParseLine itself it is the
\* mutated form in which an empty started_at goes to time.Parse.)
ParseLineStrict(out, line) ==
    CASE out.err # None -> out
      [] line.key \in {"pid", "started_at"} ->
           IF line.val \in {Empty, Malformed}
           THEN Failure(<<line.key, line.val>>)
           ELSE IF line.key = "pid"
                THEN [out EXCEPT !.pid = line.val, !.seen = TRUE]
                ELSE [out EXCEPT !.startedAt = line.val]
      [] line.key = "tag" ->
           [out EXCEPT !.tag = IF line.val = Empty THEN None ELSE line.val]
      [] OTHER -> out

\* One round of the loop over the lines; after an error nothing is read.
\* An empty started_at is skipped, an empty pid is an error.
ParseLine(out, line) ==
    IF line = [key |-> "started_at", val |-> Empty]
    THEN out
    ELSE ParseLineStrict(out, line)

\* readPIDFile, once the file is read: a record needs its pid.
ReadLines(lines) ==
    LET out == FoldLeft(ParseLine, Start, lines)
    IN  IF out.err = None /\ ~out.seen
        THEN Failure("missing pid field")
        ELSE out

\* Fprintf(f, "pid=%d\nstarted_at=%s\ntag=%s\n", ...)
WriteRecord(p, now, tag) ==
    <<[key |-> "pid",        val |-> p],
      [key |-> "started_at", val |-> now],
      [key |-> "tag",        val |-> tag]>>

-----------------------------------------------------------------------------
(* What readPIDFile is to return, said without the loop. *)

Rejected(l) ==
    \/ l.key = "pid"        /\ l.val \in {Empty, Malformed}
    \/ l.key = "started_at" /\ l.val = Malformed

\* The value of the last line with the key that has one.
LastValue(lines, key) ==
    LET with == SelectSeq(lines, LAMBDA l : l.key = key /\ l.val # Empty)
    IN  IF with = <<>> THEN None ELSE Last(with).val

\* The first rejected line decides the error; without one the record holds,
\* field by field, the last value given, and an empty tag line takes the
\* tag back.
RecordOf(lines) ==
    LET bad  == SelectSeq(lines, Rejected)
        tags == SelectSeq(lines, LAMBDA l : l.key = "tag")
    IN  CASE bad # <<>> -> Failure(<<Head(bad).key, Head(bad).val>>)
          [] LastValue(lines, "pid") = None -> Failure("missing pid field")
          [] OTHER ->
               [err |-> None, seen |-> TRUE,
                pid |-> LastValue(lines, "pid"),
                startedAt |-> LastValue(lines, "started_at"),
                tag |-> IF tags = <<>> \/ Last(tags).val = Empty
                        THEN None ELSE Last(tags).val]

\* readPIDFile returns what RecordOf says for every file of at most n lines:
\* the early returns, the skipped empty started_at and the overwriting of a
\* repeated field in the loop add up to "first error, else last value".
ParserMatchesReference(lines, n) ==
    \A f \in BoundedSeq(lines, n) : ReadLines(f) = RecordOf(f)

=============================================================================
