----------------------------- MODULE RowStream ------------------------------
(***************************************************************************)
(* What queryStream promises the one who reads it, without tasks, batches  *)
(* or channels: rows are delivered in their order, none twice; the stream  *)
(* ends once, and by then all rows were delivered and the session says so; *)
(* or it fails once, and the session says that, or that all is well but    *)
(* for its own file.  Only a stream whose task broke ends short, and then  *)
(* the session says nothing.                                               *)
(***************************************************************************)
EXTENDS Naturals

VARIABLES
    whole,    \* rows that were asked for
    got,      \* rows delivered: the first ones
    state,    \* open, ended, failed or left
    record,   \* what the session says: none, success, error, or an
              \* unsaved success
    broken    \* the task panicked

streamVars == <<whole, got, state, record, broken>>

Init ==
    /\ whole \in Nat
    /\ got = 0
    /\ state = "open"
    /\ record = "none"
    /\ broken = FALSE

Deliver(n) ==
    /\ state = "open" /\ got + n <= whole
    /\ got' = got + n
    /\ UNCHANGED <<whole, state, record, broken>>

(* The call is recorded once, also for a reader who left.                  *)
Log(status) ==
    /\ record = "none" /\ ~broken
    /\ record' = status
    /\ UNCHANGED <<whole, got, state, broken>>

Break ==
    /\ record = "none" /\ ~broken
    /\ broken' = TRUE
    /\ UNCHANGED <<whole, got, state, record>>

CloseAs(how) ==
    /\ state = "open"
    /\ how = "ended" => broken \/ (got = whole /\ record = "success")
    /\ how = "failed" => record = "error" \/ (got = whole /\ record = "unsaved")
    /\ state' = how
    /\ UNCHANGED <<whole, got, record, broken>>

Next ==
    \/ \E n \in 1 .. whole : Deliver(n)
    \/ \E status \in {"success", "unsaved", "error"} : Log(status)
    \/ Break
    \/ \E how \in {"ended", "failed", "left"} : CloseAs(how)

Spec == Init /\ [][Next]_streamVars
=============================================================================
