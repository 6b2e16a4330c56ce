------------------------------- MODULE EventLog -------------------------------
(****************************************************************************)
(* The bytes of an append-only JSON-lines file, as ClaimStore,              *)
(* EvidenceStore and CognitiveControlStore write and re-read them.  A file  *)
(* is a sequence of lines; a SHA-256 of it is modelled by the lines it      *)
(* covers (no collisions).                                                  *)
(****************************************************************************)
EXTENDS Integers, Sequences

\* Any proper, non-empty prefix of a JSON line: it never parses.
Torn == [event |-> "TORN"]

\* A line is what lies between two newlines of the file.  It holds more than
\* one chunk when bytes were appended after a piece that had no newline.
Line(Events) == [body : Seq(Events \cup {Torn}), nl : BOOLEAN]

\* json.loads accepts a line that is one whole event, newline or not.
Parses(line) == Len(line.body) = 1 /\ line.body[1] # Torn
EventOf(line) == line.body[1]

\* open("a").write: bytes go to the end of the file, so they continue a last
\* line that has no newline.
Write(file, chunk, nl) ==
    LET n == Len(file) IN
    IF n = 0 \/ file[n].nl
    THEN Append(file, [body |-> <<chunk>>, nl |-> nl])
    ELSE [file EXCEPT ![n] = [body |-> Append(@.body, chunk), nl |-> nl]]

\* _committed_log_sha256: everything but an unterminated, unparsable last line.
HashedLines(file) ==
    LET n == Len(file) IN
    IF n > 0 /\ ~file[n].nl /\ ~Parses(file[n])
    THEN SubSeq(file, 1, n - 1)
    ELSE file

=============================================================================
