----------------------------- MODULE AtomicSave -----------------------------
(***************************************************************************)
(* What save promises its caller, without threads or channels: an export   *)
(* is written once, possibly short, and the caller is told "ok" only when  *)
(* the export holds every row the statement returns, and is told once.     *)
(***************************************************************************)
EXTENDS Naturals

VARIABLES
    total,    \* rows the statement returns
    stored,   \* rows in the finished export
    sealed,   \* the export is finished
    told      \* what the caller was told

abstractVars == <<total, stored, sealed, told>>

Init ==
    /\ total \in Nat
    /\ stored = 0
    /\ sealed = FALSE
    /\ told = "pending"

(* The export is finished before the caller is told, or after the call     *)
(* died, and never touched again.                                          *)
Seal(n) ==
    /\ ~sealed /\ told \in {"pending", "died"}
    /\ n <= total
    /\ stored' = n
    /\ sealed' = TRUE
    /\ UNCHANGED <<total, told>>

Tell(answer) ==
    /\ told = "pending"
    /\ answer = "ok" => sealed /\ stored = total
    /\ told' = answer
    /\ UNCHANGED <<total, stored, sealed>>

Next ==
    \/ \E n \in 0 .. total : Seal(n)
    \/ \E answer \in {"ok", "err", "died"} : Tell(answer)

Spec == Init /\ [][Next]_abstractVars
=============================================================================
