---------------------------- MODULE BatchChannel ----------------------------
(***************************************************************************)
(* The bounded channel that carries query batches from the task reading a  *)
(* database to whoever consumes them: tokio::sync::mpsc::channel(2) as     *)
(* src/drivers/*.rs and src/save.rs use it.                                *)
(*                                                                         *)
(* The queue is kept immutable: `sent' is every message the channel ever   *)
(* accepted and `taken' counts those the receiver has taken, so the        *)
(* messages in flight are sent[taken + 1 .. Len(sent)].  Dropping the      *)
(* receiver loses exactly those.                                           *)
(*                                                                         *)
(* Rows are numbered 1, 2, ... in the order the database returns them, and *)
(* a batch is the run of rows lo + 1 .. hi, so lost, repeated or reordered *)
(* rows show up as batches that do not meet end to end.                    *)
(***************************************************************************)
EXTENDS Naturals, Sequences

CONSTANT Capacity   \* argument of mpsc::channel: 2 in every driver

ASSUME CapacityAssumption == Capacity \in Nat \ {0}

VARIABLES
    sent,     \* messages accepted so far, in order
    taken,    \* how many of them the receiver has taken
    txOpen,   \* some Sender of the channel is still alive
    rxOpen    \* the Receiver is still alive

channelVars == <<sent, taken, txOpen, rxOpen>>

-----------------------------------------------------------------------------

(* Column metadata as the producers hold it: Option<Vec<ColumnMeta>>, where *)
(* only None, an empty vector and a non-empty one are told apart.           *)
ColumnState == {"none", "empty", "meta"}

Batch(lo, hi, cols) == [tag |-> "batch", lo |-> lo, hi |-> hi, cols |-> cols]

(* Err(error) sent in place of a batch; `of' names whose error it is.       *)
Failure(of) == [tag |-> "failure", of |-> of]

BatchMessages == [tag : {"batch"}, lo : Nat, hi : Nat, cols : ColumnState]
FailureMessages == [tag : {"failure"}, of : {"query", "record"}]
Messages == BatchMessages \union FailureMessages

IsBatch(m) == m.tag = "batch"

(* How many rows the first n messages account for: batches follow one      *)
(* another, so the last batch among them tells; an error comes last.       *)
RowsAt(n) ==
    IF n = 0 THEN 0
    ELSE IF IsBatch(sent[n]) THEN sent[n].hi
    ELSE IF n = 1 THEN 0 ELSE sent[n - 1].hi

-----------------------------------------------------------------------------

InFlight == Len(sent) - taken

ChannelInit ==
    /\ sent = << >>
    /\ taken = 0
    /\ txOpen = TRUE
    /\ rxOpen = TRUE

(* send().await and blocking_send() complete when a slot is free.          *)
HasRoom == InFlight < Capacity

Send(m) ==
    /\ rxOpen
    /\ HasRoom
    /\ sent' = Append(sent, m)
    /\ UNCHANGED <<taken, txOpen, rxOpen>>

(* ... and fail once the receiver is gone.                                 *)
SendRefused == ~rxOpen /\ UNCHANGED channelVars

NextMessage == sent[taken + 1]

CanReceive == rxOpen /\ InFlight > 0

Receive ==
    /\ CanReceive
    /\ taken' = taken + 1
    /\ UNCHANGED <<sent, txOpen, rxOpen>>

(* recv() answers None: nothing in flight and every Sender dropped.        *)
AtEnd == rxOpen /\ InFlight = 0 /\ ~txOpen

DropSenders == txOpen' = FALSE /\ UNCHANGED <<sent, taken, rxOpen>>

DropReceiver == rxOpen' = FALSE /\ UNCHANGED <<sent, taken, txOpen>>

ChannelTypeOK ==
    /\ sent \in Seq(Messages)
    /\ taken \in 0 .. Len(sent)
    /\ InFlight <= Capacity
    /\ txOpen \in BOOLEAN
    /\ rxOpen \in BOOLEAN
=============================================================================
