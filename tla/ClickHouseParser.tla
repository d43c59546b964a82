-------------------------- MODULE ClickHouseParser --------------------------
(***************************************************************************)
(* The two parsers of src/drivers/clickhouse.rs on one answer: query feeds *)
(* its lines to a ClickHouseResponseParser, queryStream and save have a    *)
(* loop of their own.  An answer is a line of column names, one of column  *)
(* types and a line per row (JSONCompactEachRowWithNamesAndTypes); it may  *)
(* break off between two lines.                                            *)
(***************************************************************************)
EXTENDS Naturals, Sequences

CONSTANTS
    Limits,    \* limits a call may have; save has one no answer reaches
    Widths,    \* how many elements an array in a line has
    MaxLines,  \* bound on the lines of an answer
    None       \* an Option that is not set

ASSUME ParserAssumption ==
    Limits \subseteq Nat /\ Widths \subseteq Nat /\ MaxLines \in Nat /\ None \notin Nat

VARIABLES
    limit,   \* the limit of both calls
    lines,   \* the lines that arrived so far
    body,    \* the answer goes on, is over, or failed
    query,   \* the parser of query
    stream   \* the parser of queryStream and save

parserVars == <<limit, lines, body, query, stream>>

(* A line, as the parsers tell them apart: blank, no JSON array, an array. *)
Blank == [kind |-> "blank"]
Bad == [kind |-> "bad"]
Array(width, strings) == [kind |-> "array", width |-> width, strings |-> strings]
Line == {Blank, Bad} \union {Array(w, s) : w \in Widths, s \in BOOLEAN}

IsStringArray(line) == line.kind = "array" /\ line.strings
IsValueArray(line) == line.kind = "array"

-----------------------------------------------------------------------------

(* Lengths of the header lines once they are read, the rows, the outcome.  *)
Fresh == [names |-> None, types |-> None, rows |-> << >>, verdict |-> "reading"]
Fail(p) == [p EXCEPT !.verdict = "err"]

ParserInit ==
    /\ limit \in Limits
    /\ lines = << >>
    /\ body = "open"
    /\ query = Fresh
    /\ stream = Fresh

(* parse_string_array for the names, and again for the types, which must   *)
(* be as many (build_columns).                                             *)
WithNames(p, line) ==
    IF IsStringArray(line) THEN [p EXCEPT !.names = line.width] ELSE Fail(p)
WithTypes(p, line) ==
    IF IsStringArray(line) /\ line.width = p.names
    THEN [p EXCEPT !.types = line.width] ELSE Fail(p)

(* parse_value_array and values_to_row.                                    *)
WithRow(p, line) ==
    IF IsValueArray(line) /\ line.width = p.names
    THEN [p EXCEPT !.rows = Append(@, line)] ELSE Fail(p)

(* ingest_line.                                                            *)
IngestLine(p, line) ==
    CASE line = Blank                 -> p
      [] line # Blank /\ p.names = None -> WithNames(p, line)
      [] line # Blank /\ p.names # None /\ p.types = None -> WithTypes(p, line)
      [] OTHER -> IF Len(p.rows) >= limit THEN p ELSE WithRow(p, line)

(* Faulty variant: the limit is looked at one row late.                    *)
CompleteLate(p) == p.names # None /\ p.types # None /\ Len(p.rows) > limit
IsCompleteForLimit(p) == p.names # None /\ p.types # None /\ Len(p.rows) >= limit

(* finish: half a header is an error.                                      *)
FinishQuery(p) ==
    IF (p.names = None) = (p.types = None) THEN [p EXCEPT !.verdict = "ok"] ELSE Fail(p)

QueryReads(line) ==
    LET p == IngestLine(query, line)
    IN  query' = IF p.verdict = "reading" /\ IsCompleteForLimit(p) THEN FinishQuery(p) ELSE p

(* Faulty variant: blank lines count as rows.                              *)
StreamLineBlanks(p, line) ==
    CASE p.names = None -> WithNames(p, line)
      [] p.names # None /\ p.types = None -> WithTypes(p, line)
      [] OTHER -> WithRow(p, line)
(* The body of the loop of stream_clickhouse_query_to_channel, but for the *)
(* sending, which is in BatchProducer.                                     *)
StreamLine(p, line) ==
    CASE line = Blank                 -> p
      [] line # Blank /\ p.names = None -> WithNames(p, line)
      [] line # Blank /\ p.names # None /\ p.types = None -> WithTypes(p, line)
      [] OTHER -> WithRow(p, line)

(* while sent_rows < limit; then what is there is the result.              *)
LimitReached(p) == Len(p.rows) >= limit
StreamReads(line) ==
    LET p == StreamLine(stream, line)
    IN  stream' = IF p.verdict = "reading" /\ LimitReached(p)
                  THEN [p EXCEPT !.verdict = "ok"] ELSE p

(* With a limit of 0 the loop does not read a line.                        *)
StreamSkips ==
    /\ stream.verdict = "reading" /\ lines = << >> /\ LimitReached(stream)
    /\ stream' = [stream EXCEPT !.verdict = "ok"]
    /\ UNCHANGED <<limit, lines, body, query>>

Reading(p) == p.verdict = "reading"

NextLine(line) ==
    /\ body = "open" /\ Len(lines) < MaxLines
    /\ Reading(query) \/ Reading(stream)
    /\ ~(Reading(stream) /\ LimitReached(stream))
    /\ lines' = Append(lines, line)
    /\ IF Reading(query) THEN QueryReads(line) ELSE UNCHANGED query
    /\ IF Reading(stream) THEN StreamReads(line) ELSE UNCHANGED stream
    /\ UNCHANGED <<limit, body>>

(* next_line answers None: each finishes with what it has.                 *)
EndOfAnswer ==
    /\ body = "open"
    /\ ~(Reading(stream) /\ LimitReached(stream))
    /\ body' = "over"
    /\ query' = IF Reading(query) THEN FinishQuery(query) ELSE query
    /\ stream' = IF Reading(stream) THEN [stream EXCEPT !.verdict = "ok"] ELSE stream
    /\ UNCHANGED <<limit, lines>>

(* next_line fails, for those who still read.                              *)
AnswerBreaks ==
    /\ body = "open"
    /\ ~(Reading(stream) /\ LimitReached(stream))
    /\ body' = "broken"
    /\ query' = IF Reading(query) THEN Fail(query) ELSE query
    /\ stream' = IF Reading(stream) THEN Fail(stream) ELSE stream
    /\ UNCHANGED <<limit, lines>>

ParserFinished == ~Reading(query) /\ ~Reading(stream) /\ UNCHANGED parserVars

ParserNext ==
    \/ StreamSkips
    \/ \E line \in Line : NextLine(line)
    \/ EndOfAnswer \/ AnswerBreaks \/ ParserFinished

ParserSpec == ParserInit /\ [][ParserNext]_parserVars

-----------------------------------------------------------------------------
(* Properties.                                                             *)

Parser == [names : Widths \union {None}, types : Widths \union {None},
           rows : Seq(Line), verdict : {"reading", "ok", "err"}]

ParserTypeOK ==
    /\ limit \in Limits
    /\ lines \in Seq(Line) /\ Len(lines) <= MaxLines
    /\ body \in {"open", "over", "broken"}
    /\ query \in Parser /\ stream \in Parser
    /\ Len(query.rows) <= limit /\ Len(stream.rows) <= limit

(* The reference, for a whole answer: the first two lines that are not     *)
(* blank are the header, the next ones the rows, up to the limit.  Lines   *)
(* after those do not matter.                                              *)
Meaningful ==
    LET upTo[n \in 0 .. Len(lines)] ==
            IF n = 0 THEN << >>
            ELSE IF lines[n] = Blank THEN upTo[n - 1] ELSE Append(upTo[n - 1], lines[n])
    IN  upTo[Len(lines)]
Needed == SubSeq(Meaningful, 1, IF Len(Meaningful) < limit + 2 THEN Len(Meaningful) ELSE limit + 2)
WellFormed ==
    \A i \in 1 .. Len(Needed) :
        IF i <= 2 THEN IsStringArray(Needed[i]) /\ Needed[i].width = Needed[1].width
        ELSE IsValueArray(Needed[i]) /\ Needed[i].width = Needed[1].width
Enough == Len(Needed) = limit + 2
RowLines == SubSeq(Needed, 3, Len(Needed))

(* query answers the rows and columns of the answer, up to the limit, and  *)
(* errs exactly when one of the lines it needs is bad, half a header is    *)
(* all there is, or the answer breaks off before it has what it needs.     *)
QueryIsExact ==
    /\ query.verdict = "ok" =>
          /\ WellFormed /\ Len(Needed) # 1
          /\ query.rows = RowLines
          /\ (query.types = None) = (Needed = << >>)
          /\ Enough \/ body = "over"
    /\ query.verdict = "err" =>
          ~WellFormed \/ (body = "broken" /\ ~Enough) \/ (body = "over" /\ Len(Needed) = 1)

(* queryStream and save hand on the same rows: a bad line or a broken      *)
(* answer ends them with an error, after rows that are all good.  They     *)
(* differ from query in two cases only: half a header is an empty result   *)
(* without columns to them, and with a limit of 0 they read nothing.       *)
StreamIsExact ==
    /\ stream.verdict = "ok" /\ limit > 0 =>
          WellFormed /\ stream.rows = RowLines /\ (Enough \/ body = "over")
    /\ stream.verdict = "err" =>
          /\ ~WellFormed \/ (body = "broken" /\ ~Enough)
          /\ \A i \in 1 .. Len(stream.rows) : stream.rows[i] = Needed[i + 2]
    /\ ~Reading(query) /\ ~Reading(stream) =>
          \/ query = stream
          \/ limit = 0 /\ stream = [Fresh EXCEPT !.verdict = "ok"]
          \/ /\ body = "over" /\ Len(Needed) = 1
             /\ query.verdict = "err"
             /\ stream.verdict = "ok" /\ stream.types = None /\ stream.rows = << >>
=============================================================================
