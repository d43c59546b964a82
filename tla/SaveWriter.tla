----------------------------- MODULE SaveWriter -----------------------------
(***************************************************************************)
(* Saves to one path (StreamingSaveWriter in src/save.rs): how each of the *)
(* five formats opens its target, what a batch adds to the writer's        *)
(* buffer, how buffer and file come together, and what is left when a save *)
(* ends early: a failed query, a failed write, a panic or the death of the *)
(* process.  The file is a sequence of pieces; a row is two of them, since *)
(* buffers end anywhere in it.  A missing file and an empty one are the    *)
(* same to all of the code.                                                *)
(***************************************************************************)
EXTENDS Naturals, Sequences, SequencesExt

CONSTANTS
    Saves,     \* the saves that may be made
    Formats,   \* the formats of a configuration; one path has one format
    Modes,     \* the modes of a configuration
    BatchSize, \* rows of a batch, at most
    MaxRows,   \* bound on the rows of a save
    Overlap,   \* saves may be at work at the same time
    Faults     \* "cut": a save may stop inside a row;
               \* "nested": the part of a row that remains may end with "]"

ASSUME WriterAssumption ==
    /\ Formats \subseteq {"csv", "excel", "json", "orc", "parquet"}
    /\ Modes \subseteq {"overwrite", "append"}
    /\ BatchSize \in Nat \ {0}
    /\ MaxRows \in Nat
    /\ Overlap \in BOOLEAN
    /\ Faults \subseteq {"cut", "nested"}

VARIABLES
    file,    \* what is at the path
    format,  \* the format of the path
    mode,    \* the mode of each save
    save     \* the writer of each save

vars == <<file, format, mode, save>>

-----------------------------------------------------------------------------
(* Pieces of a file.                                                       *)

OpenBracket == [t |-> "open"]    \* "[" of a JSON array
Comma == [t |-> "comma"]
CloseBracket == [t |-> "close"]
Header == [t |-> "head"]         \* CSV header
Magic == [t |-> "magic"]         \* first bytes of the binary formats
Footer == [t |-> "footer"]       \* their schema and index, read first
Hole == [t |-> "hole"]           \* zeros between the end and a later write

Row(k, n) == [of |-> k, n |-> n]
Part(row, half) == [t |-> "part", row |-> row, half |-> half]

RowEnds == [t : {"part"}, row : [of : Saves, n : Nat], half : {2}]
PartsOf(k) == [t : {"part"}, row : [of : {k}, n : Nat], half : {1, 2}]
IsCut(f) == f # << >> /\ Last(f).t = "part" /\ Last(f).half = 1

(* The pieces of a file that are in a set, in their order.                 *)
Kept(f, pieces) ==
    LET upTo[n \in 0 .. Len(f)] ==
            IF n = 0 THEN << >>
            ELSE IF f[n] \in pieces THEN Append(upTo[n - 1], f[n]) ELSE upTo[n - 1]
    IN  upTo[Len(f)]

(* The rows that arrived whole.                                            *)
Rows(f) ==
    LET ends == Kept(f, RowEnds)
    IN  [i \in 1 .. Len(ends) |-> ends[i].row]

Bracketed(rows) ==
    [i \in 1 .. 3 * Len(rows) |->
        IF i % 3 = 1 THEN Comma ELSE Part(rows[(i + 2) \div 3], ((i + 1) % 3) + 1)]
Plain(rows) ==
    [i \in 1 .. 2 * Len(rows) |-> Part(rows[(i + 1) \div 2], ((i + 1) % 2) + 1)]

(* write_batch after the header: JSON puts a comma before every row but    *)
(* the first of an array (wrote_any_row).                                  *)
RowPieces(rows, begun) ==
    IF format # "json" THEN Plain(rows)
    ELSE IF begun \/ rows = << >> THEN Bracketed(rows)
    ELSE Tail(Bracketed(rows))

(* What comes before the first row unless it was begun, and what finish    *)
(* writes last.                                                            *)
Lead == CASE format = "csv" -> <<Header>>
          [] format = "json" -> <<OpenBracket>>
          [] OTHER -> <<Magic>>
Closing == CASE format = "csv" -> << >>
             [] format = "json" -> <<CloseBracket>>
             [] OTHER -> <<Footer>>

(* A readable file, as one save or several leave it.                       *)
Rendered(rows) == Lead \o RowPieces(rows, FALSE) \o Closing
Readable(f) == f = << >> \/ f = Rendered(Rows(f))

(* Writing bytes at a position; a file is filled with zeros up to it.      *)
WrittenAt(f, pos, bytes) ==
    [i \in 1 .. (IF pos + Len(bytes) > Len(f) THEN pos + Len(bytes) ELSE Len(f)) |->
        IF i > pos /\ i <= pos + Len(bytes) THEN bytes[i - pos]
        ELSE IF i <= Len(f) THEN f[i] ELSE Hole]

-----------------------------------------------------------------------------

Working(k) == save[k].pc \in {"opening", "writing"}

(* A writer's control point, whether header, schema or first row are       *)
(* written, its unwritten bytes, its place in the file, the rows it got,   *)
(* and, for the properties, what it found.                                 *)
NoWriter(label, n) ==
    [pc |-> label, begun |-> FALSE, buffer |-> << >>, pos |-> 0, given |-> n,
     before |-> << >>]
Ended(answer, w) == NoWriter(answer, w.given)

Init ==
    /\ file = << >>
    /\ format \in Formats
    /\ mode \in [Saves -> Modes]
    /\ save = [k \in Saves |-> NoWriter("new", 0)]

(* Faulty variants: every target is accepted; the rows already in an array *)
(* are not noticed.                                                        *)
AcceptsAnything(k) == TRUE
BegunCsvOnly(k) == mode[k] = "append" /\ file # << >> /\ format = "csv"

(* ensure_existing_append_target_supported, inspect_json_array_for_append: *)
(* Excel, ORC and Parquet append only to nothing, JSON to something that   *)
(* starts with "[" and ends with "]".                                      *)
EndsInBracket ==
    Last(file) = CloseBracket \/ ("nested" \in Faults /\ IsCut(file))
Accepts(k) ==
    \/ mode[k] = "overwrite" \/ format = "csv" \/ file = << >>
    \/ format = "json" /\ file # << >> /\ file[1] = OpenBracket /\ EndsInBracket

(* headers_written, has_rows: an empty array has no rows.                  *)
Begun(k) ==
    /\ mode[k] = "append" /\ file # << >>
    /\ format \in {"csv", "json"}
    /\ format = "json" => file # <<OpenBracket, CloseBracket>>

(* What the writer takes it for: a row that was cut after an empty array   *)
(* of its own looks like an array without rows, another like one that has. *)
LooksBegun(k) ==
    IF mode[k] = "append" /\ format = "json" /\ IsCut(file) THEN BOOLEAN ELSE {Begun(k)}

(* The part of StreamingSaveWriter::new that looks: type and mode of the   *)
(* call, the directory, the target.  Any of it may be refused, which       *)
(* leaves the file alone.                                                  *)
Check(k) ==
    /\ save[k].pc = "new"
    /\ Overlap \/ \A j \in Saves : ~Working(j)
    /\ \/ /\ Accepts(k)
          /\ \E begun \in LooksBegun(k) :
                save' = [save EXCEPT ![k].pc = "opening", ![k].begun = begun,
                                     ![k].before = file]
       \/ save' = [save EXCEPT ![k].pc = "err"]
    /\ UNCHANGED <<file, format, mode>>

(* Faulty variant: the array is cut before the end of its last row.        *)
CutRow(f) == SubSeq(f, 1, Len(f) - 2)
(* set_len(closing_bracket_pos).  A bracket inside a row is only a byte of *)
(* that piece.                                                             *)
CutBracket(f) == IF Last(f) = CloseBracket THEN Front(f) ELSE f

(* File::create, OpenOptions::append, the JSON array cut back or started;  *)
(* Excel opens nothing until it finishes.                                  *)
Opened(k) ==
    CASE format = "excel" -> file
      [] format \in {"orc", "parquet"} -> << >>
      [] format \in {"csv", "json"} /\ mode[k] = "overwrite" -> << >>
      [] format = "csv" /\ mode[k] = "append" -> file
      [] format = "json" /\ mode[k] = "append" ->
            IF file = << >> THEN <<OpenBracket>> ELSE CutBracket(file)

(* The part that opens.  A new JSON array has its bracket in the buffer,   *)
(* an array for an append has it in the file.                              *)
Open(k) ==
    /\ save[k].pc = "opening"
    /\ file' = Opened(k)
    /\ save' = [save EXCEPT
          ![k].pc = "writing",
          ![k].pos = Len(file'),
          ![k].buffer = IF format = "json" /\ mode[k] = "overwrite" THEN <<OpenBracket>> ELSE << >>]
    /\ UNCHANGED <<format, mode>>

NewRows(k, n) == [i \in 1 .. n |-> Row(k, save[k].given + i)]

(* The header or the schema comes with the first batch, even an empty one; *)
(* JSON has none.                                                          *)
LeadDue(k) == IF format = "json" \/ save[k].begun THEN << >> ELSE Lead

WriteBatch(k) ==
    /\ save[k].pc = "writing"
    /\ \E n \in 0 .. BatchSize :
          /\ save[k].given + n <= MaxRows
          /\ save' = [save EXCEPT
                ![k].buffer = @ \o LeadDue(k) \o RowPieces(NewRows(k, n), save[k].begun),
                ![k].begun = @ \/ n > 0 \/ format # "json",
                ![k].given = @ + n]
    /\ UNCHANGED <<file, format, mode>>

(* Faulty variant: a target to append to is opened without O_APPEND.       *)
WhereItStood(k) == save[k].pos
(* Appends to a CSV go to the end wherever that is now.                    *)
Where(k) == IF format = "csv" /\ mode[k] = "append" THEN Len(file) ELSE save[k].pos

(* A full buffer is passed on, cut at any place.                           *)
Flush(k) ==
    /\ save[k].pc = "writing" /\ format # "excel"
    /\ \E m \in 1 .. Len(save[k].buffer) :
          /\ file' = WrittenAt(file, Where(k), SubSeq(save[k].buffer, 1, m))
          /\ save' = [save EXCEPT
                ![k].buffer = SubSeq(@, m + 1, Len(@)),
                ![k].pos = Where(k) + m]
    /\ UNCHANGED <<format, mode>>

(* All that is still to be written when the batches are over.              *)
Remaining(k) == save[k].buffer \o LeadDue(k) \o Closing

(* How much of it the file gets to see; the workbook is written in one go, *)
(* over whatever was there.                                                *)
FileAfter(k, m) ==
    IF format = "excel" THEN SubSeq(Remaining(k), 1, m)
    ELSE WrittenAt(file, Where(k), SubSeq(Remaining(k), 1, m))

Finish(k) ==
    /\ save[k].pc = "writing"
    /\ file' = FileAfter(k, Len(Remaining(k)))
    /\ save' = [save EXCEPT ![k] = Ended("ok", @)]
    /\ UNCHANGED <<format, mode>>

(* The save ends with an error, or with the process, at any point.  The    *)
(* buffer is flushed when it is dropped, or part of it, or none of it.     *)
Abandon(k) ==
    /\ save[k].pc = "writing"
    /\ \/ UNCHANGED file
       \/ \E m \in 0 .. Len(Remaining(k)) : file' = FileAfter(k, m)
    /\ IsCut(file') => "cut" \in Faults
    /\ save' = [save EXCEPT ![k] = Ended("err", @)]
    /\ UNCHANGED <<format, mode>>

(* Nothing was opened after all.                                           *)
OpenFails(k) ==
    /\ save[k].pc = "opening"
    /\ save' = [save EXCEPT ![k] = Ended("err", @)]
    /\ UNCHANGED <<file, format, mode>>

Step(k) ==
    \/ Check(k) \/ Open(k) \/ OpenFails(k) \/ WriteBatch(k) \/ Flush(k)
    \/ Finish(k) \/ Abandon(k)

Finished == (\A k \in Saves : save[k].pc \in {"ok", "err"}) /\ UNCHANGED vars

Next == (\E k \in Saves : Step(k)) \/ Finished

Spec == Init /\ [][Next]_vars

-----------------------------------------------------------------------------
(* Properties.                                                             *)

Piece ==
    {OpenBracket, Comma, CloseBracket, Header, Magic, Footer}
    \union [t : {"part"}, row : [of : Saves, n : Nat], half : {1, 2}]

(* Pieces only: no save leaves zeros in the file.                          *)
TypeOK ==
    /\ file \in Seq(Piece)
    /\ format \in Formats
    /\ mode \in [Saves -> Modes]
    /\ save \in [Saves ->
          [pc : {"new", "opening", "writing", "ok", "err"}, begun : BOOLEAN,
           buffer : Seq(Piece), pos : Nat, given : 0 .. MaxRows, before : Seq(Piece)]]

(* A save that returns Ok leaves a file that can be read and holds exactly *)
(* the rows that belong there: its own, after those that were there if it  *)
(* appends.  Of a file that could not be read before, nothing is said.     *)
OkIsReadable ==
    [][\A k \in Saves :
         /\ save'[k].pc = "ok" /\ save[k].pc # "ok"
         /\ mode[k] = "overwrite" \/ Readable(save[k].before)
         => LET old == IF mode[k] = "append" THEN Rows(save[k].before) ELSE << >>
            IN  file' = Rendered(old \o [i \in 1 .. save[k].given |-> Row(k, i)])]_vars

(* After a save that returned Ok a JSON file is a valid array              *)
(* (tests/save_smoke.rs:173: "json export should be valid JSON").          *)
OkIsValidJson ==
    [][\A k \in Saves :
         save'[k].pc = "ok" /\ save[k].pc # "ok" /\ format = "json"
         => file' = Rendered(Rows(file'))]_vars

(* While only appends are at work nothing that is in the file goes or      *)
(* moves, but the bracket that closes an array: not when an append starts, *)
(* not when it fails half way, not when the process dies.                  *)
Keeps(f, g) ==
    LET kept == IF f # << >> /\ f[Len(f)] = CloseBracket THEN Len(f) - 1 ELSE Len(f)
    IN  /\ kept <= Len(g)
        /\ \A i \in 1 .. kept : g[i] = f[i]
AppendKeepsContent ==
    [][(\A k \in Saves : Working(k) => mode[k] = "append") => Keeps(file, file')]_vars

(* Appends to one CSV at the same time: the file starts with a header, no  *)
(* piece of a row is overwritten by another save or comes out of order     *)
(* among those of its own, and a save that is told "ok" has all of them in *)
(* the file - though pieces of two saves may alternate inside a row, and   *)
(* every save that found the file empty writes a header of its own.        *)
AppendsLoseNothing ==
    /\ file # << >> => file[1] = Header
    /\ \A k \in Saves :
          LET mine == Kept(file, PartsOf(k))
              all == Plain([i \in 1 .. save[k].given |-> Row(k, i)])
          IN  IF save[k].pc = "ok" THEN mine = all ELSE IsPrefix(mine, all)

(* One after the other the saves keep the promise of ExportFile: a save    *)
(* takes effect when its caller is told.                                   *)
Told == [k \in Saves |-> IF save[k].pc \in {"ok", "err"} THEN save[k].pc ELSE "pending"]
Promise == INSTANCE ExportFile WITH
    table <- IF \E k \in Saves : Working(k)
             THEN Rows(save[CHOOSE k \in Saves : Working(k)].before) ELSE Rows(file),
    told <- Told,
    given <- [k \in Saves |-> IF save[k].pc \in {"ok", "err"} THEN save[k].given ELSE 0]

ImplementsExportFile == Promise!Spec
=============================================================================
