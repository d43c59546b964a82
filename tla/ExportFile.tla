----------------------------- MODULE ExportFile -----------------------------
(***************************************************************************)
(* What saves to one path, made one after the other, promise of the rows   *)
(* in the file: each save is one step.  A save that is told "ok" has       *)
(* appended all its rows, or replaced the file by them.  One that is told  *)
(* "err" has appended some first part of them, or, when it overwrites,     *)
(* left either the old rows or a first part of its own.                    *)
(***************************************************************************)
EXTENDS Naturals, Sequences, SequencesExt

CONSTANTS Saves, MaxRows

VARIABLES
    table,   \* the rows in the file
    mode,    \* what each save was asked to do
    told,    \* what each caller was told
    given    \* rows each save got to write

abstractVars == <<table, mode, told, given>>

Row(k, n) == [of |-> k, n |-> n]
RowsOf(k, n) == [i \in 1 .. n |-> Row(k, i)]

Init ==
    /\ table = << >>
    /\ mode \in [Saves -> {"overwrite", "append"}]
    /\ told = [k \in Saves |-> "pending"]
    /\ given = [k \in Saves |-> 0]

Outcomes(k, n, answer) ==
    CASE answer = "ok" /\ mode[k] = "append"     -> {table \o RowsOf(k, n)}
      [] answer = "ok" /\ mode[k] = "overwrite"  -> {RowsOf(k, n)}
      [] answer = "err" /\ mode[k] = "append"    -> {table \o RowsOf(k, i) : i \in 0 .. n}
      [] answer = "err" /\ mode[k] = "overwrite" -> {table} \union {RowsOf(k, i) : i \in 0 .. n}

Save(k, n, answer) ==
    /\ told[k] = "pending"
    /\ table' \in Outcomes(k, n, answer)
    /\ told' = [told EXCEPT ![k] = answer]
    /\ given' = [given EXCEPT ![k] = n]
    /\ UNCHANGED mode

Next ==
    \E k \in Saves, n \in 0 .. MaxRows, answer \in {"ok", "err"} : Save(k, n, answer)

Spec == Init /\ [][Next]_abstractVars
=============================================================================
