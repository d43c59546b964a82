------------------------- MODULE BatchProducerProofs ------------------------
(***************************************************************************)
(* What the loop of the streaming functions maintains, for every number of *)
(* rows, limit, batch size, capacity and kind of driver.  Stated step by   *)
(* step, so that the proofs about a queryStream and about a save, whose    *)
(* tasks both run this loop, can cite it: ProducerInv about the rows,      *)
(* BatchInv about the batches they travel in.                              *)
(***************************************************************************)
EXTENDS BatchProducer, TLAPS

(* The function has not returned.                                          *)
Running == {"open", "loop", "send", "final"}

(* Batches meet end to end, and an error is the last message.              *)
Chained ==
    \A i \in 1 .. Len(sent) :
        IF IsBatch(sent[i])
        THEN sent[i].lo = RowsAt(i - 1) /\ sent[i].lo <= sent[i].hi
        ELSE i = Len(sent)

(* While it runs, the function has put only batches on the channel, and    *)
(* the rows it still holds follow the last of them.                        *)
RowsAccounted ==
    pc \in Running =>
        /\ outcome = "running"
        /\ \A i \in 1 .. Len(sent) : IsBatch(sent[i])
        /\ RowsAt(Len(sent)) + rows = sentRows

(* It reads no row beyond the limit, and leaves the loop with all it was   *)
(* asked for.                                                              *)
LimitKept ==
    /\ sentRows <= limit
    /\ pc = "final" => sentRows = WholeResult

ProducerInv == ProducerTypeOK /\ Chained /\ RowsAccounted /\ LimitKept

-----------------------------------------------------------------------------
(* The channel.                                                            *)

LEMMA RowsAtNat ==
  ASSUME sent \in Seq(Messages), Chained, NEW n \in 0 .. Len(sent)
  PROVE  RowsAt(n) \in Nat
<1>1. CASE n = 0
  BY <1>1 DEF RowsAt
<1>2. CASE n > 0
  <2>1. sent[n] \in Messages
    BY <1>2
  <2>2. CASE IsBatch(sent[n])
    BY <1>2, <2>1, <2>2 DEF RowsAt, Messages, BatchMessages, FailureMessages, IsBatch
  <2>3. CASE ~IsBatch(sent[n]) /\ n > 1
    <3>1. sent[n - 1] \in Messages /\ IsBatch(sent[n - 1])
      BY <2>3 DEF Chained
    <3>q. QED BY <2>3, <3>1 DEF RowsAt, Messages, BatchMessages, FailureMessages, IsBatch
  <2>4. CASE ~IsBatch(sent[n]) /\ n = 1
    BY <2>4 DEF RowsAt
  <2>q. QED BY <1>2, <2>2, <2>3, <2>4
<1>q. QED BY <1>1, <1>2

(* Appending a message leaves the count of the earlier ones alone.         *)
LEMMA RowsAtAppend ==
  ASSUME sent \in Seq(Messages), NEW m \in Messages, sent' = Append(sent, m)
  PROVE  /\ \A n \in 0 .. Len(sent) : RowsAt(n)' = RowsAt(n)
         /\ RowsAt(Len(sent))' = IF IsBatch(m) THEN m.hi
                                  ELSE IF Len(sent) = 0 THEN 0 ELSE sent[Len(sent)].hi
<1>1. /\ Len(sent') = Len(sent) + 1 /\ Len(sent) \in Nat
      /\ \A i \in 1 .. Len(sent) : sent'[i] = sent[i]
      /\ sent'[Len(sent) + 1] = m
  OBVIOUS
<1>2. ASSUME NEW n \in 0 .. Len(sent)
      PROVE  RowsAt(n)' = RowsAt(n)
  <2>1. n # 0 => sent'[n] = sent[n]
    BY <1>1
  <2>2. n # 0 /\ n # 1 => sent'[n - 1] = sent[n - 1]
    BY <1>1
  <2>q. QED BY <2>1, <2>2 DEF RowsAt, IsBatch
<1>3. RowsAt(Len(sent))' = IF IsBatch(m) THEN m.hi
                            ELSE IF Len(sent) = 0 THEN 0 ELSE sent[Len(sent)].hi
  BY <1>1 DEF RowsAt, IsBatch
<1>q. QED BY <1>2, <1>3

(* A batch that begins where the last one ended may follow it.             *)
LEMMA SendBatchChained ==
  ASSUME ChannelTypeOK, Chained, \A i \in 1 .. Len(sent) : IsBatch(sent[i]),
         NEW lo \in Nat, NEW hi \in Nat, NEW cols \in ColumnState,
         lo = RowsAt(Len(sent)), lo <= hi, Send(Batch(lo, hi, cols))
  PROVE  /\ ChannelTypeOK' /\ Chained'
         /\ \A i \in 1 .. Len(sent') : IsBatch(sent'[i])
         /\ RowsAt(Len(sent))' = hi
         /\ \A n \in 0 .. Len(sent) : RowsAt(n)' = RowsAt(n)
<1> DEFINE m == Batch(lo, hi, cols)
<1>1. m \in Messages /\ IsBatch(m) /\ m.lo = lo /\ m.hi = hi
  BY DEF Batch, Messages, BatchMessages, IsBatch
<1>2. sent \in Seq(Messages) /\ sent' = Append(sent, m)
  BY DEF Send, ChannelTypeOK
<1> HIDE DEF m
<1>3. /\ Len(sent') = Len(sent) + 1 /\ Len(sent) \in Nat
      /\ \A i \in 1 .. Len(sent) : sent'[i] = sent[i]
      /\ sent'[Len(sent) + 1] = m
  BY <1>1, <1>2
<1>4. /\ \A n \in 0 .. Len(sent) : RowsAt(n)' = RowsAt(n)
      /\ RowsAt(Len(sent))' = hi
  BY <1>1, <1>2, RowsAtAppend
<1>5. ChannelTypeOK'
  <2>1. sent' \in Seq(Messages)
    BY <1>1, <1>2
  <2>q. QED BY <1>3, <2>1, CapacityAssumption
            DEF ChannelTypeOK, Send, HasRoom, InFlight, CapacityAssumption
<1>6. ASSUME NEW i \in 1 .. Len(sent')
      PROVE  /\ IsBatch(sent'[i])
             /\ sent'[i].lo = RowsAt(i - 1)' /\ sent'[i].lo <= sent'[i].hi
  <2>1. CASE i \in 1 .. Len(sent)
    <3>1. RowsAt(i - 1)' = RowsAt(i - 1)
      BY <1>3, <1>4, <2>1
    <3>q. QED BY <1>3, <2>1, <3>1 DEF Chained
  <2>2. CASE i = Len(sent) + 1
    BY <1>1, <1>3, <1>4, <2>2
  <2>q. QED BY <1>3, <2>1, <2>2
<1>7. Chained'
  BY <1>6 DEF Chained, IsBatch
<1>q. QED BY <1>4, <1>5, <1>6, <1>7

(* An error may follow the batches; it accounts for no rows.               *)
LEMMA SendFailureChained ==
  ASSUME ChannelTypeOK, Chained, \A i \in 1 .. Len(sent) : IsBatch(sent[i]),
         NEW of \in {"query", "record"}, Send(Failure(of))
  PROVE  /\ ChannelTypeOK' /\ Chained'
         /\ Len(sent') = Len(sent) + 1
         /\ \A i \in 1 .. Len(sent) : sent'[i] = sent[i]
         /\ sent'[Len(sent')] = Failure(of)
         /\ RowsAt(Len(sent))' = RowsAt(Len(sent))
         /\ \A n \in 0 .. Len(sent) : RowsAt(n)' = RowsAt(n)
<1> DEFINE m == Failure(of)
<1>1. m \in Messages /\ ~IsBatch(m)
  BY DEF Failure, Messages, FailureMessages, IsBatch
<1>2. sent \in Seq(Messages) /\ sent' = Append(sent, m)
  BY DEF Send, ChannelTypeOK
<1> HIDE DEF m
<1>3. /\ Len(sent') = Len(sent) + 1 /\ Len(sent) \in Nat
      /\ \A i \in 1 .. Len(sent) : sent'[i] = sent[i]
      /\ sent'[Len(sent) + 1] = m
  BY <1>1, <1>2
<1>4. /\ \A n \in 0 .. Len(sent) : RowsAt(n)' = RowsAt(n)
      /\ RowsAt(Len(sent))' = IF Len(sent) = 0 THEN 0 ELSE sent[Len(sent)].hi
  BY <1>1, <1>2, RowsAtAppend
<1>6. RowsAt(Len(sent)) = IF Len(sent) = 0 THEN 0 ELSE sent[Len(sent)].hi
  BY <1>3 DEF RowsAt
<1>7. ChannelTypeOK'
  <2>1. sent' \in Seq(Messages)
    BY <1>1, <1>2
  <2>q. QED BY <1>3, <2>1, CapacityAssumption
            DEF ChannelTypeOK, Send, HasRoom, InFlight, CapacityAssumption
<1>8. ASSUME NEW i \in 1 .. Len(sent')
      PROVE  IF IsBatch(sent'[i])
             THEN sent'[i].lo = RowsAt(i - 1)' /\ sent'[i].lo <= sent'[i].hi
             ELSE i = Len(sent')
  <2>1. CASE i \in 1 .. Len(sent)
    <3>1. RowsAt(i - 1)' = RowsAt(i - 1)
      BY <1>3, <1>4, <2>1
    <3>q. QED BY <1>3, <2>1, <3>1 DEF Chained
  <2>2. CASE i = Len(sent) + 1
    BY <1>1, <1>3, <2>2
  <2>q. QED BY <1>3, <2>1, <2>2
<1>9. Chained'
  BY <1>8 DEF Chained, IsBatch
<1>q. QED BY <1>3, <1>4, <1>6, <1>7, <1>9 DEF m

-----------------------------------------------------------------------------
(* The loop.                                                               *)

LEMMA WholeResultNat ==
  ASSUME total \in Nat, limit \in Nat
  PROVE  WholeResult \in Nat /\ WholeResult <= total /\ WholeResult <= limit
  BY DEF WholeResult

LEMMA InitProducerInv ==
  ASSUME ProducerInit, limit \in Nat, batchSize \in Nat \ {0}
  PROVE  ProducerInv
<1>1. sent = << >> /\ Len(sent) = 0
  BY DEF ProducerInit, ChannelInit
<1>2. ChannelTypeOK
  BY <1>1, CapacityAssumption
     DEF ProducerInit, ChannelInit, ChannelTypeOK, InFlight, CapacityAssumption
<1>3. ProducerTypeOK
  <2>1. total \in 0 .. MaxRows /\ 0 \in 0 .. total /\ 0 \in 0 .. 2 /\ 0 \in Nat
    BY ProducerAssumption DEF ProducerAssumption, ProducerInit, StatementShape
  <2>q. QED BY <1>2, <2>1 DEF ProducerInit, StatementShape, ProducerTypeOK, ColumnState
<1>4. Chained /\ RowsAccounted
  BY <1>1 DEF ProducerInit, Chained, RowsAccounted, RowsAt
<1>5. LimitKept
  BY DEF ProducerInit, LimitKept
<1>q. QED BY <1>3, <1>4, <1>5 DEF ProducerInv

(* The steps that leave the channel alone.                                 *)
LEMMA QuietStep ==
  ASSUME ProducerInv,
         \/ OpenSqlx \/ OpenDuckDb \/ OpenClickHouse
         \/ ReadHeaderLine \/ FetchRow \/ FetchFails \/ LeaveLoop
  PROVE  /\ ProducerInv'
         /\ UNCHANGED <<channelVars, callVars>>
         /\ pc \in Running /\ pc' \in Running \union {"returned"}
         /\ pc' = "returned" => outcome' = "err"
<1>1. UNCHANGED <<channelVars, callVars>>
  BY DEF OpenSqlx, OpenDuckDb, OpenClickHouse, ReadHeaderLine, FetchRow, FetchFails, LeaveLoop
<1>2. /\ pc \in Running /\ pc' \in Running \union {"returned"}
      /\ pc' = "returned" => outcome' = "err"
  BY DEF OpenSqlx, OpenDuckDb, OpenClickHouse, ReadHeaderLine, FetchRow, FetchFails,
         LeaveLoop, Running
<1>3. Chained'
  BY <1>1 DEF ProducerInv, Chained, RowsAt, channelVars
<1>4. ProducerTypeOK'
  <2> USE DEF ProducerInv, ProducerTypeOK
  <2>1. ChannelTypeOK'
    BY <1>1 DEF ChannelTypeOK, channelVars, InFlight
  <2>2. columns' \in ColumnState
    BY DEF OpenSqlx, OpenDuckDb, OpenClickHouse, ReadHeaderLine, FetchRow, FetchFails,
           LeaveLoop, ColumnState
  <2>3. header' \in 0 .. 2
    BY DEF OpenSqlx, OpenDuckDb, OpenClickHouse, ReadHeaderLine, FetchRow, FetchFails,
           LeaveLoop, HeaderRead
  <2>4. rows' \in Nat /\ sentRows' \in 0 .. total
    BY ProducerAssumption
       DEF ProducerAssumption, OpenSqlx, OpenDuckDb, OpenClickHouse, ReadHeaderLine,
           FetchRow, FetchFails, LeaveLoop, RowAvailable
  <2>5. emitted' \in BOOLEAN /\ outcome' \in {"running", "ok", "err", "panic"}
    BY DEF OpenSqlx, OpenDuckDb, OpenClickHouse, ReadHeaderLine, FetchRow, FetchFails,
           LeaveLoop
  <2>q. QED BY <1>1, <2>1, <2>2, <2>3, <2>4, <2>5 DEF callVars
<1>5. RowsAccounted'
  <2>1. RowsAt(Len(sent))' = RowsAt(Len(sent)) /\ RowsAt(Len(sent)) \in Nat
    <3>1. RowsAt(Len(sent))' = RowsAt(Len(sent))
      BY <1>1 DEF RowsAt, channelVars
    <3>2. RowsAt(Len(sent)) \in Nat
      BY RowsAtNat DEF ProducerInv, ProducerTypeOK, ChannelTypeOK
    <3>q. QED BY <3>1, <3>2
  <2>2. sent' = sent
    BY <1>1 DEF channelVars
  <2>3. CASE FetchRow
    <3>1. /\ outcome = "running" /\ RowsAt(Len(sent)) + rows = sentRows
          /\ \A i \in 1 .. Len(sent) : IsBatch(sent[i])
      BY <2>3 DEF FetchRow, ProducerInv, RowsAccounted, Running
    <3>2. rows \in Nat /\ rows' = rows + 1 /\ sentRows' = sentRows + 1 /\ outcome' = outcome
      BY <2>3 DEF FetchRow, ProducerInv, ProducerTypeOK
    <3>3. RowsAt(Len(sent))' + rows' = sentRows'
      BY <2>1, <3>1, <3>2
    <3>4. \A i \in 1 .. Len(sent') : IsBatch(sent'[i])
      BY <2>2, <3>1 DEF IsBatch
    <3>q. QED BY <3>1, <3>2, <3>3, <3>4 DEF RowsAccounted, IsBatch
  <2>4. CASE FetchFails
    BY <2>4 DEF FetchFails, RowsAccounted, Running
  <2>5. CASE OpenSqlx \/ OpenDuckDb \/ OpenClickHouse \/ ReadHeaderLine \/ LeaveLoop
    BY <2>1, <2>2, <2>5 DEF OpenSqlx, OpenDuckDb, OpenClickHouse, ReadHeaderLine, LeaveLoop,
                            ProducerInv, RowsAccounted, Running, IsBatch
  <2>q. QED BY <2>3, <2>4, <2>5
<1>6. LimitKept'
  <2>1. UNCHANGED <<total, limit>> /\ WholeResult' = WholeResult
    BY <1>1 DEF callVars, WholeResult
  <2>2. CASE FetchRow
    BY <2>1, <2>2 DEF FetchRow, WantsMore, ProducerInv, ProducerTypeOK, LimitKept
  <2>3. CASE LeaveLoop
    BY <2>1, <2>3, ProducerAssumption
       DEF ProducerAssumption, LeaveLoop, WantsMore, SourceExhausted, WholeResult,
           ProducerInv, ProducerTypeOK, LimitKept
  <2>4. CASE OpenSqlx \/ OpenDuckDb \/ OpenClickHouse \/ ReadHeaderLine \/ FetchFails
    BY <2>1, <2>4 DEF OpenSqlx, OpenDuckDb, OpenClickHouse, ReadHeaderLine, FetchFails,
                      ProducerInv, LimitKept
  <2>q. QED BY <2>2, <2>3, <2>4
<1>q. QED BY <1>1, <1>2, <1>3, <1>4, <1>5, <1>6 DEF ProducerInv

(* The steps that send a batch, or find that nobody listens.               *)
LEMMA SendingStep ==
  ASSUME ProducerInv, SendBatch \/ SendBatchRefused \/ SendFinal \/ SkipFinal
  PROVE  /\ ProducerInv'
         /\ UNCHANGED <<taken, txOpen, rxOpen, callVars>>
         /\ pc \in Running /\ pc' \in {"loop", "returned"}
         /\ pc' = "returned" =>
               /\ outcome' = "ok"
               /\ rxOpen => sentRows' = WholeResult' /\ RowsAt(Len(sent))' = sentRows'
         /\ Len(sent') >= Len(sent)
         /\ \A i \in 1 .. Len(sent) : sent'[i] = sent[i]
         /\ \A i \in 1 .. Len(sent') : IsBatch(sent'[i])
<1> USE DEF ProducerInv
<1>1. /\ pc \in Running /\ pc' \in {"loop", "returned"}
      /\ pc' = "returned" => outcome' = "ok"
      /\ UNCHANGED <<taken, txOpen, rxOpen, callVars, columns, header, sentRows>>
  BY DEF SendBatch, SendBatchRefused, SendFinal, SkipFinal, Return, Running, Send,
         SendRefused, channelVars
<1>2. /\ sent \in Seq(Messages) /\ Len(sent) \in Nat
      /\ \A i \in 1 .. Len(sent) : IsBatch(sent[i])
      /\ RowsAt(Len(sent)) \in Nat /\ RowsAt(Len(sent)) + rows = sentRows
      /\ rows \in Nat /\ sentRows \in Nat
  <2>1. sent \in Seq(Messages) /\ Len(sent) \in Nat
    BY DEF ProducerTypeOK, ChannelTypeOK
  <2>2. RowsAt(Len(sent)) \in Nat
    BY <2>1, RowsAtNat
  <2>q. QED BY <1>1, <2>1, <2>2, ProducerAssumption
            DEF ProducerAssumption, RowsAccounted, ProducerTypeOK
<1>3. CASE Send(CurrentBatch) /\ emitted' \in BOOLEAN /\ rows' = 0
           /\ outcome' \in {outcome, "ok"}
  <2> DEFINE cols == IF columns = "none" THEN "empty" ELSE columns
  <2>1. /\ sentRows - rows \in Nat /\ sentRows - rows = RowsAt(Len(sent))
        /\ sentRows - rows <= sentRows
    BY <1>2
  <2>2. cols \in ColumnState
    BY DEF ProducerTypeOK, ColumnState
  <2>3. Send(Batch(sentRows - rows, sentRows, cols))
    BY <1>3 DEF CurrentBatch
  <2> HIDE DEF cols
  <2>4. /\ ChannelTypeOK' /\ Chained'
        /\ \A i \in 1 .. Len(sent') : IsBatch(sent'[i])
        /\ RowsAt(Len(sent))' = sentRows
    BY <1>2, <2>1, <2>2, <2>3, SendBatchChained DEF ProducerTypeOK
  <2>5. ProducerTypeOK'
    BY <1>1, <1>3, <2>4 DEF ProducerTypeOK, callVars
  <2>6. /\ Len(sent') >= Len(sent)
        /\ \A i \in 1 .. Len(sent) : sent'[i] = sent[i]
    BY <1>2, <2>3 DEF Send
  <2>7. RowsAccounted'
    BY <1>1, <1>2, <1>3, <2>4 DEF RowsAccounted, Running, SendBatch, SendBatchRefused,
       SendFinal, SkipFinal, Return, IsBatch
  <2>8. LimitKept' /\ WholeResult' = WholeResult
    BY <1>1 DEF LimitKept, callVars, WholeResult
  <2>9. pc' = "returned" => pc = "final" \/ ~rxOpen
    BY DEF SendBatch, SendBatchRefused, SendFinal, SkipFinal, SendRefused
  <2>q. QED BY <1>1, <2>4, <2>5, <2>6, <2>7, <2>8, <2>9 DEF LimitKept
<1>4. CASE UNCHANGED channelVars /\ Return
  <2>1. ProducerTypeOK'
    BY <1>1, <1>4 DEF ProducerTypeOK, Return, callVars, channelVars, ChannelTypeOK, InFlight
  <2>2. Chained' /\ RowsAt(Len(sent))' = RowsAt(Len(sent))
    BY <1>4 DEF Chained, RowsAt, channelVars
  <2>3. RowsAccounted' /\ LimitKept' /\ WholeResult' = WholeResult
    BY <1>1, <1>4 DEF Return, RowsAccounted, LimitKept, Running, callVars, WholeResult
  <2>4. ~rxOpen \/ (pc = "final" /\ ~FinalBatchDue)
    BY <1>1, <1>2, <1>4 DEF SendBatch, SendBatchRefused, SendFinal, SkipFinal, Send, Return,
       SendRefused, channelVars
  <2>5. ~rxOpen \/ (sentRows' = WholeResult' /\ RowsAt(Len(sent))' = sentRows')
    BY <1>1, <1>2, <2>2, <2>3, <2>4 DEF FinalBatchDue, LimitKept
  <2>6. sent' = sent
    BY <1>4 DEF channelVars
  <2>q. QED BY <1>1, <1>2, <2>1, <2>2, <2>3, <2>5, <2>6
<1>5. \/ Send(CurrentBatch) /\ emitted' \in BOOLEAN /\ rows' = 0
         /\ outcome' \in {outcome, "ok"}
      \/ UNCHANGED channelVars /\ Return
  BY DEF SendBatch, SendBatchRefused, SendFinal, SkipFinal, Return, RowsAfterTake,
         SendRefused, ProducerTypeOK
<1>q. QED BY <1>3, <1>4, <1>5

(* The steps of the others, who take messages, drop an end of the channel  *)
(* or go on where the function returned, keep what it established.         *)
LEMMA ProducerInvKept ==
  ASSUME ProducerInv, UNCHANGED <<sent, callVars, columns, header, sentRows, emitted>>,
         rows' \in {rows, 0}, outcome' \in {"running", "ok", "err", "panic"},
         pc' \notin Running \/ UNCHANGED <<pc, rows, outcome>>,
         taken' \in 0 .. Len(sent), taken' >= taken,
         txOpen' \in BOOLEAN, rxOpen' \in BOOLEAN
  PROVE  ProducerInv' /\ RowsAt(Len(sent))' = RowsAt(Len(sent))
         /\ WholeResult' = WholeResult
<1>1. RowsAt(Len(sent))' = RowsAt(Len(sent)) /\ Chained'
  BY DEF ProducerInv, Chained, RowsAt
<1>2. ChannelTypeOK'
  BY CapacityAssumption
     DEF CapacityAssumption, ProducerInv, ProducerTypeOK, ChannelTypeOK, InFlight
<1>3. ProducerTypeOK'
  BY <1>2 DEF ProducerInv, ProducerTypeOK, callVars
<1>4. RowsAccounted'
  BY <1>1 DEF ProducerInv, RowsAccounted
<1>5. LimitKept' /\ WholeResult' = WholeResult
  BY DEF ProducerInv, LimitKept, Running, callVars, WholeResult
<1>q. QED BY <1>1, <1>3, <1>4, <1>5 DEF ProducerInv
-----------------------------------------------------------------------------
(* What is in the batches.                                                 *)

(* Rows are taken for a batch when there are enough of them, and the       *)
(* columns are known by then; no batch that was sent while the loop runs   *)
(* is short.                                                               *)
Packed ==
    /\ columns \in {"none", schema}
    /\ rows > 0 => columns = schema
    /\ pc \in {"open", "loop", "final"} => rows < batchSize
    /\ pc = "send" => rows = batchSize
    /\ pc \in Running =>
          /\ emitted <=> Len(sent) > 0
          /\ \A i \in 1 .. Len(sent) : sent[i].hi - sent[i].lo = batchSize

(* A batch is full unless it is the last one, and empty only to tell the   *)
(* columns of an empty result.                                             *)
WellShaped(i) ==
    /\ sent[i].hi - sent[i].lo <= batchSize
    /\ sent[i].hi - sent[i].lo < batchSize => i = Len(sent) \/ ~IsBatch(sent[i + 1])
    /\ sent[i].cols = schema
    /\ sent[i].hi - sent[i].lo = 0 => i = 1 /\ schema = "meta"
Shaped == \A i \in 1 .. Len(sent) : IsBatch(sent[i]) => WellShaped(i)

(* When the columns are known at the latest.                               *)
Learned ==
    /\ pc = "open" => columns = "none"
    /\ columns = "none" => sentRows = 0
    /\ driver = "duckdb" /\ pc # "open" /\ outcome # "err" => columns = schema
    /\ driver = "clickhouse" /\ header = 2 => columns = schema
    /\ header \in 0 .. 2 /\ (schema = "empty" => header = 0)
    /\ limit = 0 => header = 0

(* Rows read and not on the channel: those of one batch at most, once the  *)
(* function returned.                                                      *)
Held == IF pc \in Running THEN rows ELSE batchSize

(* A consumer that took n messages lags by full batches, at most, for the  *)
(* others on the channel, and by the rows held.                            *)
Lagging ==
    \A n \in 0 .. Len(sent) :
        /\ RowsAt(n) <= sentRows
        /\ sentRows <= RowsAt(n) + (Len(sent) - n) * batchSize + Held

BatchInv == Packed /\ Shaped /\ Learned /\ Lagging

LEMMA InitBatchInv ==
  ASSUME ProducerInit, limit \in Nat, batchSize \in Nat \ {0}
  PROVE  BatchInv
<1>1. Len(sent) = 0 /\ pc = "open" /\ columns = "none" /\ rows = 0 /\ sentRows = 0
      /\ emitted = FALSE /\ header = 0 /\ outcome = "running" /\ schema \in {"empty", "meta"}
  BY DEF ProducerInit, ChannelInit, StatementShape
<1>2. Packed
  BY <1>1 DEF Packed, Running
<1>3. Shaped
  BY <1>1 DEF Shaped
<1>4. Learned
  BY <1>1 DEF Learned
<1>5. Lagging
  <2>1. (0 - 0) * batchSize = 0
    OBVIOUS
  <2>q. QED BY <1>1, <2>1 DEF Lagging, Held, RowsAt, Running
<1>q. QED BY <1>2, <1>3, <1>4, <1>5 DEF BatchInv

LEMMA BatchTypes ==
  ASSUME ProducerInv
  PROVE  /\ batchSize \in Nat /\ batchSize > 0 /\ rows \in Nat /\ sentRows \in Nat
         /\ limit \in Nat /\ total \in Nat /\ header \in 0 .. 2
         /\ sent \in Seq(Messages) /\ Len(sent) \in Nat
         /\ schema \in {"empty", "meta"} /\ columns \in {"none", "empty", "meta"}
         /\ \A n \in 0 .. Len(sent) : RowsAt(n) \in Nat
<1>1. sent \in Seq(Messages) /\ Len(sent) \in Nat
  BY DEF ProducerInv, ProducerTypeOK, ChannelTypeOK
<1>2. \A n \in 0 .. Len(sent) : RowsAt(n) \in Nat
  BY <1>1, RowsAtNat DEF ProducerInv
<1>q. QED BY <1>1, <1>2, ProducerAssumption
          DEF ProducerAssumption, ProducerInv, ProducerTypeOK, ColumnState

(* The steps that leave the channel alone.                                 *)
LEMMA QuietBatches ==
  ASSUME ProducerInv, BatchInv,
         \/ OpenSqlx \/ OpenDuckDb \/ OpenClickHouse
         \/ ReadHeaderLine \/ FetchRow \/ FetchFails \/ LeaveLoop
  PROVE  BatchInv'
<1>0. /\ batchSize \in Nat /\ batchSize > 0 /\ rows \in Nat /\ sentRows \in Nat
      /\ limit \in Nat /\ total \in Nat /\ header \in 0 .. 2
      /\ sent \in Seq(Messages) /\ Len(sent) \in Nat
      /\ schema \in {"empty", "meta"} /\ columns \in {"none", "empty", "meta"}
      /\ \A n \in 0 .. Len(sent) : RowsAt(n) \in Nat
  BY BatchTypes
<1> USE DEF BatchInv
<1>1. UNCHANGED <<sent, callVars>>
  BY DEF OpenSqlx, OpenDuckDb, OpenClickHouse, ReadHeaderLine, FetchRow, FetchFails,
         LeaveLoop, channelVars
<1>2. Packed'
  <2>1. UNCHANGED <<sent, schema, batchSize, emitted>>
    BY <1>1 DEF callVars, OpenSqlx, OpenDuckDb, OpenClickHouse, ReadHeaderLine, FetchRow,
                FetchFails, LeaveLoop
  <2>2. CASE FetchRow
    BY <1>0, <2>1, <2>2 DEF FetchRow, Packed, BatchFull, Running
  <2>3. CASE OpenSqlx \/ OpenDuckDb \/ OpenClickHouse
    BY <1>0, <2>1, <2>3 DEF OpenSqlx, OpenDuckDb, OpenClickHouse, Packed, Learned, Running
  <2>4. CASE ReadHeaderLine \/ FetchFails \/ LeaveLoop
    BY <1>0, <2>1, <2>4 DEF ReadHeaderLine, FetchFails, LeaveLoop, Packed, Running
  <2>q. QED BY <2>2, <2>3, <2>4
<1>3. Shaped'
  BY <1>1 DEF Shaped, WellShaped, IsBatch, callVars
<1>4. Learned'
  <2>1. UNCHANGED <<driver, schema, limit, total>>
    BY <1>1 DEF callVars
  <2>2. CASE FetchRow
    BY <1>0, <2>1, <2>2 DEF FetchRow, Learned, Packed, RowAvailable, WantsMore
  <2>3. CASE OpenSqlx \/ OpenDuckDb \/ OpenClickHouse
    <3>1. pc = "open" /\ outcome = "running"
      BY <2>3 DEF OpenSqlx, OpenDuckDb, OpenClickHouse, ProducerInv, RowsAccounted, Running
    <3>q. QED BY <1>0, <2>1, <2>3, <3>1 DEF OpenSqlx, OpenDuckDb, OpenClickHouse, Learned
  <2>4. CASE ReadHeaderLine
    <3>1. /\ sentRows \in 0 .. total /\ limit \in Nat /\ total \in Nat
          /\ sentRows < limit /\ header \in 0 .. 2 /\ header # 2
      BY <2>4 DEF ReadHeaderLine, WantsMore, HeaderRead, ProducerInv, ProducerTypeOK
    <3>q. QED BY <1>0, <2>1, <2>4, <3>1 DEF ReadHeaderLine, HeaderRead, Learned, ProducerInv, RowsAccounted, Running
  <2>5. CASE FetchFails
    BY <2>1, <2>5 DEF FetchFails, Learned
  <2>6. CASE LeaveLoop
    BY <2>1, <2>6 DEF LeaveLoop, Learned
  <2>q. QED BY <2>2, <2>3, <2>4, <2>5, <2>6
<1>5. Lagging'
  <2>1. /\ \A n \in 0 .. Len(sent) : RowsAt(n)' = RowsAt(n)
        /\ UNCHANGED <<sent, batchSize>>
    BY <1>1 DEF RowsAt, callVars
  <2>2. \/ sentRows' = sentRows /\ Held' >= Held /\ Held \in Nat /\ Held' \in Nat
        \/ sentRows' = sentRows + 1 /\ Held' = Held + 1 /\ Held \in Nat
    <3>1. CASE FetchRow
      BY <1>0, <3>1 DEF FetchRow, Held, Running
    <3>2. CASE FetchFails
      BY <1>0, <1>1, <3>2 DEF callVars, FetchFails, Held, Running, Packed
    <3>3. CASE OpenSqlx \/ OpenDuckDb \/ OpenClickHouse
      BY <1>0, <1>1, <3>3 DEF OpenSqlx, OpenDuckDb, OpenClickHouse, Held, Running, Packed, callVars
    <3>4. CASE ReadHeaderLine \/ LeaveLoop
      BY <1>0, <3>4 DEF ReadHeaderLine, LeaveLoop, Held, Running
    <3>q. QED BY <3>1, <3>2, <3>3, <3>4
  <2>3. ASSUME NEW n \in 0 .. Len(sent)
        PROVE  /\ RowsAt(n)' <= sentRows'
               /\ sentRows' <= RowsAt(n)' + (Len(sent') - n) * batchSize' + Held'
    <3> DEFINE lag == (Len(sent) - n) * batchSize
    <3>1. lag \in Nat /\ RowsAt(n) \in Nat
      BY <1>0
    <3>2. (Len(sent') - n) * batchSize' = lag
      BY <2>1
    <3>3. RowsAt(n) <= sentRows /\ sentRows <= RowsAt(n) + lag + Held
      BY DEF Lagging
    <3> HIDE DEF lag
    <3>q. QED BY <1>0, <2>1, <2>2, <3>1, <3>2, <3>3
  <2>q. QED BY <2>1, <2>3 DEF Lagging
<1>q. QED BY <1>2, <1>3, <1>4, <1>5
(* The steps that send a batch, or find that nobody listens.               *)
LEMMA SendingBatches ==
  ASSUME ProducerInv, BatchInv, SendBatch \/ SendBatchRefused \/ SendFinal \/ SkipFinal
  PROVE  /\ BatchInv'
         /\ pc' = "returned" /\ rxOpen /\ Len(sent') = 0 => columns # "meta"
<1> USE DEF BatchInv
<1>0. /\ batchSize \in Nat /\ batchSize > 0 /\ rows \in Nat /\ sentRows \in Nat
      /\ limit \in Nat /\ total \in Nat /\ header \in 0 .. 2
      /\ sent \in Seq(Messages) /\ Len(sent) \in Nat
      /\ schema \in {"empty", "meta"} /\ columns \in {"none", "empty", "meta"}
      /\ \A n \in 0 .. Len(sent) : RowsAt(n) \in Nat
  BY BatchTypes
<1>1. /\ pc \in {"send", "final"} /\ pc' \in {"loop", "returned"} /\ rows' = 0
      /\ UNCHANGED <<callVars, columns, header, sentRows>>
      /\ outcome = "running"
      /\ pc' = "loop" => outcome' = "running" /\ emitted' = TRUE
      /\ pc' = "loop" => pc = "send" /\ Send(CurrentBatch)
      /\ pc = "final" /\ ~FinalBatchDue => UNCHANGED <<sent, emitted>>
      /\ \/ Send(CurrentBatch) /\ (pc = "final" => FinalBatchDue)
         \/ UNCHANGED sent /\ ~rxOpen
         \/ UNCHANGED sent /\ pc = "final" /\ ~FinalBatchDue
  BY DEF SendBatch, SendBatchRefused, SendFinal, SkipFinal, Return, RowsAfterTake, SendRefused,
         channelVars, ProducerInv, RowsAccounted, Running
<1>2. /\ \A i \in 1 .. Len(sent) : IsBatch(sent[i])
      /\ RowsAt(Len(sent)) + rows = sentRows /\ rows <= batchSize
      /\ \A i \in 1 .. Len(sent) : sent[i].hi - sent[i].lo = batchSize
      /\ emitted <=> Len(sent) > 0
  BY <1>0, <1>1 DEF ProducerInv, RowsAccounted, Running, Packed
<1>3. UNCHANGED <<driver, schema, total, limit, batchSize>>
  BY <1>1 DEF callVars
<1>4. rows > 0 \/ columns = "meta" => columns = schema
  BY <1>0 DEF Packed
<1>5. Learned'
  BY <1>0, <1>1, <1>3, <1>4 DEF Learned, Packed
<1>6. CASE Send(CurrentBatch) /\ (pc = "final" => FinalBatchDue)
  <2> DEFINE m == CurrentBatch
  <2>1. /\ sent' = Append(sent, m) /\ Len(sent') = Len(sent) + 1
        /\ \A i \in 1 .. Len(sent) : sent'[i] = sent[i]
        /\ sent'[Len(sent) + 1] = m
    BY <1>0, <1>6 DEF Send
  <2>2. rows > 0 \/ columns = "meta"
    BY <1>0, <1>1, <1>6 DEF FinalBatchDue, Packed
  <2>3. columns = schema /\ schema # "none"
    BY <1>0, <1>4, <2>2
  <2>4. /\ IsBatch(m) /\ m.cols = schema /\ m.hi = sentRows /\ m.lo = sentRows - rows
        /\ m \in Messages
    <3>1. sentRows - rows \in Nat
      BY <1>0, <1>2
    <3>q. QED BY <1>0, <2>3, <3>1 DEF CurrentBatch, Batch, IsBatch, Messages, BatchMessages,
                                      ColumnState
  <2> HIDE DEF m
  <2>5. m.hi - m.lo = rows
    BY <1>0, <2>4
  <2>6. pc = "final" \/ rows = batchSize
    BY <1>1 DEF Packed
  <2>7. Packed'
    <3>1. pc' = "loop" =>
             /\ emitted' /\ Len(sent') > 0
             /\ \A i \in 1 .. Len(sent') : sent'[i].hi - sent'[i].lo = batchSize
      BY <1>0, <1>1, <1>2, <2>1, <2>5, <2>6 DEF ProducerInv, RowsAccounted, Running
    <3>q. QED BY <1>0, <1>1, <1>3, <3>1 DEF Packed, Running
  <2>8. Shaped'
    <3> SUFFICES ASSUME NEW i \in 1 .. Len(sent'), IsBatch(sent'[i])
                 PROVE  WellShaped(i)'
      BY DEF Shaped, IsBatch
    <3>1. CASE i \in 1 .. Len(sent)
      <4>1. sent'[i] = sent[i] /\ WellShaped(i)
        BY <1>2, <2>1, <3>1 DEF Shaped
      <4>2. sent[i].hi - sent[i].lo = batchSize
        BY <1>2, <3>1
      <4>q. QED BY <1>0, <1>3, <4>1, <4>2 DEF WellShaped
    <3>2. CASE i = Len(sent) + 1
      <4>1. rows = 0 => Len(sent) = 0 /\ schema = "meta"
        BY <1>0, <1>1, <1>2, <1>6, <2>3, <2>6 DEF FinalBatchDue
      <4>q. QED BY <1>0, <1>2, <1>3, <2>1, <2>4, <2>5, <3>2, <4>1 DEF WellShaped
    <3>q. QED BY <1>0, <2>1, <3>1, <3>2
  <2>9. Lagging'
    <3>1. /\ \A n \in 0 .. Len(sent) : RowsAt(n)' = RowsAt(n)
          /\ RowsAt(Len(sent))' = sentRows
      BY <1>0, <2>1, <2>4, RowsAtAppend
    <3>2. Held' \in Nat
      BY <1>0, <1>1, <1>3 DEF Held
    <3>3. ASSUME NEW n \in 0 .. Len(sent')
          PROVE  /\ RowsAt(n)' <= sentRows'
                 /\ sentRows' <= RowsAt(n)' + (Len(sent') - n) * batchSize' + Held'
      <4>1. CASE n \in 0 .. Len(sent)
        <5> DEFINE lag == (Len(sent) - n) * batchSize
        <5>1. lag \in Nat /\ (Len(sent) + 1 - n) * batchSize = lag + batchSize
          BY <1>0, <4>1
        <5>2. (Len(sent') - n) * batchSize' = lag + batchSize
          BY <1>3, <2>1, <5>1
        <5>3. RowsAt(n) <= sentRows /\ sentRows <= RowsAt(n) + lag + rows
          BY <1>1, <4>1 DEF Lagging, Held, Running
        <5> HIDE DEF lag
        <5>q. QED BY <1>0, <1>1, <1>2, <3>1, <3>2, <4>1, <5>1, <5>2, <5>3
      <4>2. CASE n = Len(sent')
        <5>1. (Len(sent') - n) * batchSize' = 0
          BY <1>0, <1>3, <2>1, <4>2
        <5>q. QED BY <1>0, <1>1, <3>1, <3>2, <4>2, <5>1
      <4>q. QED BY <1>0, <2>1, <4>1, <4>2
    <3>q. QED BY <3>3 DEF Lagging
  <2>q. QED BY <1>0, <1>5, <2>1, <2>7, <2>8, <2>9
<1>7. CASE UNCHANGED sent /\ (~rxOpen \/ (pc = "final" /\ ~FinalBatchDue))
  <2>1. pc' = "returned"
    BY <1>0, <1>1, <1>7 DEF Send
  <2>2. Packed'
    BY <1>0, <1>1, <1>3, <1>7, <2>1 DEF Packed, Running
  <2>3. Shaped'
    BY <1>3, <1>7 DEF Shaped, WellShaped, IsBatch
  <2>4. Lagging'
    <3>1. \A n \in 0 .. Len(sent) : RowsAt(n)' = RowsAt(n)
      BY <1>7 DEF RowsAt
    <3>2. Held' = batchSize /\ Held = rows
      BY <1>1, <1>3, <2>1 DEF Held, Running
    <3>3. ASSUME NEW n \in 0 .. Len(sent)
          PROVE  /\ RowsAt(n)' <= sentRows'
                 /\ sentRows' <= RowsAt(n)' + (Len(sent') - n) * batchSize' + Held'
      <4> DEFINE lag == (Len(sent) - n) * batchSize
      <4>1. lag \in Nat /\ (Len(sent') - n) * batchSize' = lag
        BY <1>0, <1>3, <1>7
      <4>2. RowsAt(n) <= sentRows /\ sentRows <= RowsAt(n) + lag + rows
        BY <3>2 DEF Lagging
      <4> HIDE DEF lag
      <4>q. QED BY <1>0, <1>1, <1>2, <3>1, <3>2, <4>1, <4>2
    <3>q. QED BY <1>7, <3>3 DEF Lagging
  <2>5. rxOpen /\ Len(sent') = 0 => columns # "meta"
    BY <1>0, <1>2, <1>7 DEF FinalBatchDue
  <2>q. QED BY <1>5, <2>2, <2>3, <2>4, <2>5
<1>q. QED BY <1>1, <1>6, <1>7

(* The steps of the others, as in ProducerInvKept.                         *)
LEMMA BatchInvKept ==
  ASSUME ProducerInv, BatchInv, UNCHANGED <<sent, callVars, columns, header, sentRows, emitted>>,
         rows' \in {rows, 0}, pc # "open" \/ pc' = pc,
         outcome' = outcome \/ (pc = "loop" /\ outcome' = "panic"),
         pc' \notin Running \/ UNCHANGED <<pc, rows, outcome>>
  PROVE  BatchInv'
<1> USE DEF BatchInv
<1>0. /\ batchSize \in Nat /\ batchSize > 0 /\ rows \in Nat /\ sentRows \in Nat
      /\ Len(sent) \in Nat /\ \A n \in 0 .. Len(sent) : RowsAt(n) \in Nat
  BY BatchTypes
<1>1. UNCHANGED <<driver, schema, total, limit, batchSize>>
  BY DEF callVars
<1>2. Packed'
  <2>1. CASE pc' \notin Running
    BY <1>0, <1>1, <2>1 DEF Packed, Running
  <2>2. CASE UNCHANGED <<pc, rows, outcome>>
    <3>1. UNCHANGED <<pc, rows, columns, schema, batchSize, emitted, sent>>
      BY <1>1, <2>2
    <3>q. QED BY <3>1 DEF Packed, Running
  <2>q. QED BY <2>1, <2>2
<1>3. Shaped'
  BY <1>1 DEF Shaped, WellShaped, IsBatch
<1>4. Learned'
  <2>1. pc = "loop" => outcome = "running"
    BY DEF ProducerInv, RowsAccounted, Running
  <2>q. QED BY <1>1, <2>1 DEF Learned, Running
<1>5. Lagging'
  <2>1. \A n \in 0 .. Len(sent) : RowsAt(n)' = RowsAt(n)
    BY DEF RowsAt
  <2>2. Held' >= Held /\ Held \in Nat /\ Held' \in Nat
    BY <1>0, <1>1 DEF Held, Packed, Running
  <2>3. ASSUME NEW n \in 0 .. Len(sent)
        PROVE  /\ RowsAt(n)' <= sentRows'
               /\ sentRows' <= RowsAt(n)' + (Len(sent') - n) * batchSize' + Held'
    <3> DEFINE lag == (Len(sent) - n) * batchSize
    <3>1. lag \in Nat /\ (Len(sent') - n) * batchSize' = lag
      BY <1>0, <1>1
    <3>2. RowsAt(n) <= sentRows /\ sentRows <= RowsAt(n) + lag + Held
      BY DEF Lagging
    <3> HIDE DEF lag
    <3>q. QED BY <1>0, <2>1, <2>2, <3>1, <3>2
  <2>q. QED BY <2>3 DEF Lagging
<1>q. QED BY <1>2, <1>3, <1>4, <1>5

(* An error may follow the batches of a function that returned.            *)
LEMMA FailureBatches ==
  ASSUME ProducerInv, BatchInv, \A i \in 1 .. Len(sent) : IsBatch(sent[i]),
         NEW of \in {"query", "record"}, Send(Failure(of)),
         pc \notin Running, pc' \notin Running,
         UNCHANGED <<callVars, columns, header, rows, sentRows, emitted, outcome>>
  PROVE  BatchInv'
<1> USE DEF BatchInv
<1>0. /\ batchSize \in Nat /\ batchSize > 0 /\ rows \in Nat /\ sentRows \in Nat
      /\ Len(sent) \in Nat /\ \A n \in 0 .. Len(sent) : RowsAt(n) \in Nat
  BY BatchTypes
<1>1. UNCHANGED <<driver, schema, total, limit, batchSize>>
  BY DEF callVars
<1>2. /\ Len(sent') = Len(sent) + 1
      /\ \A i \in 1 .. Len(sent) : sent'[i] = sent[i]
      /\ sent'[Len(sent) + 1] = Failure(of)
      /\ \A n \in 0 .. Len(sent) : RowsAt(n)' = RowsAt(n)
      /\ RowsAt(Len(sent))' = RowsAt(Len(sent))
  BY <1>0, SendFailureChained DEF ProducerInv, ProducerTypeOK
<1>3. ~IsBatch(sent'[Len(sent) + 1])
  BY <1>2 DEF IsBatch, Failure
<1>4. Packed'
  BY <1>1 DEF Packed, Running
<1>5. Shaped'
  <2> SUFFICES ASSUME NEW i \in 1 .. Len(sent'), IsBatch(sent'[i])
               PROVE  WellShaped(i)'
    BY DEF Shaped, IsBatch
  <2>1. i \in 1 .. Len(sent) /\ sent'[i] = sent[i] /\ WellShaped(i)
    <3>1. i # Len(sent) + 1
      BY <1>3
    <3>2. i \in 1 .. Len(sent)
      BY <1>0, <1>2, <3>1
    <3>q. QED BY <1>2, <3>2 DEF Shaped
  <2>2. CASE i = Len(sent)
    BY <1>0, <1>1, <1>3, <2>1, <2>2 DEF WellShaped, IsBatch
  <2>3. CASE i < Len(sent)
    <3>1. i + 1 \in 1 .. Len(sent) /\ sent'[i + 1] = sent[i + 1]
      BY <1>0, <1>2, <2>1, <2>3
    <3>q. QED BY <1>0, <1>1, <2>1, <2>3, <3>1 DEF WellShaped, IsBatch
  <2>q. QED BY <1>0, <2>1, <2>2, <2>3
<1>6. Learned'
  BY <1>1 DEF Learned, Running
<1>7. Lagging'
  <2>1. Held' = batchSize /\ Held = batchSize
    BY <1>1 DEF Held
  <2>2. ASSUME NEW n \in 0 .. Len(sent')
        PROVE  /\ RowsAt(n)' <= sentRows'
               /\ sentRows' <= RowsAt(n)' + (Len(sent') - n) * batchSize' + Held'
    <3>1. CASE n \in 0 .. Len(sent)
      <4> DEFINE lag == (Len(sent) - n) * batchSize
      <4>1. lag \in Nat /\ (Len(sent) + 1 - n) * batchSize = lag + batchSize
        BY <1>0, <3>1
      <4>2. (Len(sent') - n) * batchSize' = lag + batchSize
        BY <1>1, <1>2, <4>1
      <4>3. RowsAt(n) <= sentRows /\ sentRows <= RowsAt(n) + lag + batchSize
        BY <2>1, <3>1 DEF Lagging
      <4> HIDE DEF lag
      <4>q. QED BY <1>0, <1>2, <2>1, <3>1, <4>1, <4>2, <4>3
    <3>2. CASE n = Len(sent')
      <4> DEFINE k == Len(sent)
      <4>1. (k - k) * batchSize = 0 /\ (Len(sent') - n) * batchSize' = 0
        BY <1>0, <1>1, <1>2, <3>2
      <4>2. RowsAt(k) <= sentRows /\ sentRows <= RowsAt(k) + (k - k) * batchSize + batchSize
        BY <1>0, <2>1 DEF Lagging
      <4>q. QED BY <1>0, <1>1, <1>2, <2>1, <3>2, <4>1, <4>2
    <3>q. QED BY <1>0, <1>2, <3>1, <3>2
  <2>q. QED BY <2>2 DEF Lagging
<1>q. QED BY <1>4, <1>5, <1>6, <1>7

-----------------------------------------------------------------------------
(* How many steps the loop has left.                                       *)

LEMMA LoopTypes ==
  ASSUME ProducerTypeOK
  PROVE  /\ total \in Nat /\ sentRows \in Nat /\ total - sentRows \in Nat
         /\ header \in 0 .. 2 /\ 2 - header \in Nat
         /\ LoopRank \in Nat /\ LoopSteps \in Nat
         /\ Len(sent) \in Nat /\ taken \in Nat /\ InFlight \in Nat
<1>1. /\ total \in Nat /\ sentRows \in Nat /\ total - sentRows \in Nat
      /\ header \in 0 .. 2 /\ 2 - header \in Nat
      /\ Len(sent) \in Nat /\ taken \in Nat /\ InFlight \in Nat
  BY ProducerAssumption DEF ProducerAssumption, ProducerTypeOK, ChannelTypeOK, InFlight
<1>2. LoopRank \in Nat
  BY DEF LoopRank
<1>q. QED BY <1>1, <1>2 DEF LoopSteps

LEMMA LoopStepsNow ==
  /\ LoopSteps = 2 * (total - sentRows) + (2 - header) + LoopRank
  /\ LoopSteps' = 2 * (total' - sentRows') + (2 - header') + LoopRank'
  BY DEF LoopSteps

(* A lower rank is fewer steps, and so is a row less for one rank more.    *)
LEMMA FewerSteps ==
  ASSUME ProducerTypeOK, LoopRank' \in Nat, header' = header,
         \/ total' - sentRows' = total - sentRows /\ LoopRank' < LoopRank
         \/ /\ total - sentRows \in Nat \ {0} /\ LoopRank' <= LoopRank + 1
            /\ total' - sentRows' = (total - sentRows) - 1
  PROVE  LoopSteps' < LoopSteps
<1>1. total - sentRows \in Nat /\ 2 - header \in Nat /\ LoopRank \in Nat
  BY LoopTypes
<1>2. \A n, h, r, s \in Nat :
        /\ s < r => 2 * n + h + s < 2 * n + h + r
        /\ s <= r + 1 => 2 * (n - 1) + h + s < 2 * n + h + r
  OBVIOUS
<1>q. QED BY <1>1, <1>2, LoopStepsNow

LEMMA NoMoreSteps ==
  ASSUME ProducerTypeOK, UNCHANGED <<total, sentRows, header>>,
         LoopRank' \in Nat, LoopRank' <= LoopRank
  PROVE  LoopSteps' <= LoopSteps /\ LoopSteps' \in Nat
<1>1. /\ total - sentRows \in Nat /\ 2 - header \in Nat /\ LoopRank \in Nat
      /\ total' - sentRows' = total - sentRows /\ 2 - header' = 2 - header
  BY LoopTypes
<1>2. \A n, h, r, s \in Nat :
        s <= r => 2 * n + h + s <= 2 * n + h + r /\ 2 * n + h + s \in Nat
  OBVIOUS
<1>q. QED BY <1>1, <1>2, LoopStepsNow

(* A step of the loop reads a row or a header line, or gets closer to the  *)
(* end; a full batch is sent before the next row is read.                  *)
LEMMA LoopRunsDown ==
  ASSUME ProducerTypeOK, ProducerNext
  PROVE  /\ LoopSteps' < LoopSteps /\ InFlight' <= InFlight + 1
         /\ pc \in Running /\ pc' \in Running \union {"returned"}
         /\ UNCHANGED <<taken, rxOpen>>
<1>1. /\ total \in Nat /\ sentRows \in Nat /\ total - sentRows \in Nat
      /\ header \in 0 .. 2 /\ sent \in Seq(Messages) /\ taken \in Nat /\ Len(sent) \in Nat
  BY LoopTypes DEF ProducerTypeOK, ChannelTypeOK
<1>2. CASE OpenSqlx \/ OpenDuckDb \/ OpenClickHouse
  <2>1. /\ UNCHANGED <<total, sentRows, header, sent, taken, rxOpen>>
        /\ pc = "open" /\ pc' \in {"loop", "returned"}
    BY <1>2 DEF OpenSqlx, OpenDuckDb, OpenClickHouse, channelVars, callVars
  <2>2. LoopRank' \in Nat /\ LoopRank' < LoopRank
    BY <2>1 DEF LoopRank
  <2>q. QED BY <2>1, <2>2, <1>1, FewerSteps DEF InFlight, Running
<1>3. CASE ReadHeaderLine
  <2>1. /\ UNCHANGED <<total, sentRows, pc, sent, taken, rxOpen>>
        /\ header' = header + 1 /\ pc = "loop"
    BY <1>3 DEF ReadHeaderLine, channelVars, callVars
  <2>2. LoopRank' = 2 /\ LoopRank = 2
    BY <2>1 DEF LoopRank
  <2>3. LoopSteps' < LoopSteps
    BY <2>1, <2>2, <1>1, LoopStepsNow
  <2>q. QED BY <2>1, <2>3, <1>1 DEF InFlight, Running
<1>4. CASE FetchRow
  <2>1. /\ UNCHANGED <<total, header, sent, taken, rxOpen>> /\ sentRows' = sentRows + 1
        /\ sentRows < total /\ pc = "loop" /\ pc' \in {"send", "loop"}
    BY <1>4 DEF FetchRow, RowAvailable, channelVars, callVars
  <2>2. /\ LoopRank = 2 /\ LoopRank' \in {2, 3}
        /\ total' - sentRows' = (total - sentRows) - 1 /\ total - sentRows \in Nat \ {0}
    BY <2>1, <1>1 DEF LoopRank
  <2>3. LoopSteps' < LoopSteps
    BY <2>1, <2>2, FewerSteps
  <2>q. QED BY <2>1, <2>3, <1>1 DEF InFlight, Running
<1>5. CASE FetchFails \/ LeaveLoop
  <2>1. /\ UNCHANGED <<total, sentRows, header, sent, taken, rxOpen>>
        /\ pc = "loop" /\ pc' \in {"returned", "final"}
    BY <1>5 DEF FetchFails, LeaveLoop, channelVars, callVars
  <2>2. LoopRank' \in Nat /\ LoopRank' < LoopRank
    BY <2>1 DEF LoopRank
  <2>q. QED BY <2>1, <2>2, <1>1, FewerSteps DEF InFlight, Running
<1>6. CASE SendBatch \/ SendBatchRefused \/ SendFinal \/ SkipFinal
  <2>1. /\ UNCHANGED <<total, sentRows, header, taken, rxOpen>>
        /\ \/ pc = "send" /\ pc' \in {"loop", "returned"}
           \/ pc = "final" /\ pc' = "returned"
        /\ sent' = sent \/ sent' = Append(sent, CurrentBatch)
    BY <1>6 DEF SendBatch, SendBatchRefused, SendFinal, SkipFinal, Send, SendRefused, Return,
                channelVars, callVars
  <2>2. Len(sent') <= Len(sent) + 1 /\ Len(sent') \in Nat
    <3> HIDE DEF CurrentBatch
    <3>q. QED BY <2>1, <1>1
  <2>3. LoopRank' < LoopRank /\ LoopRank' \in Nat
    BY <2>1 DEF LoopRank
  <2>4. LoopSteps' < LoopSteps
    BY <2>1, <2>3, FewerSteps
  <2>5. InFlight' <= InFlight + 1
    BY <2>1, <2>2, <1>1 DEF InFlight
  <2>q. QED BY <2>1, <2>4, <2>5 DEF Running
<1>q. QED BY <1>2, <1>3, <1>4, <1>5, <1>6 DEF ProducerNext

LEMMA SumRunsDown ==
  \A a, b, s, t \in Nat : (b < a /\ t = s) \/ (b <= a /\ t < s) => b + t < a + s
  OBVIOUS

(* Messages on the way count one each, the steps of the sender two.        *)
LEMMA SenderRunsDown ==
  \A f, g, i, j, w \in Nat : g < f /\ j <= i + 1 => 2 * g + j + w < 2 * f + i + w
  OBVIOUS

LEMMA ReceiverRunsDown ==
  \A f, i, j, v, w \in Nat :
     (j = i /\ v < w) \/ (j = i - 1 /\ v <= w) => 2 * f + j + v < 2 * f + i + w
  OBVIOUS

-----------------------------------------------------------------------------
(* What a step of the loop leaves alone.                                   *)

LEMMA LoopKeepsCall == ProducerNext => callVars' = callVars
  BY DEF ProducerNext, OpenSqlx, OpenDuckDb, OpenClickHouse, ReadHeaderLine, FetchRow,
         FetchFails, LeaveLoop, SendBatch, SendBatchRefused, SendFinal, SkipFinal, Return

LEMMA LoopKeepsTaken ==
  ASSUME ProducerInv, ProducerNext
  PROVE  /\ taken' = taken /\ pc \in Running /\ outcome' # "panic"
         /\ sent' = sent \/ \E m \in Messages : sent' = Append(sent, m)
<1>1. pc \in Running => outcome = "running"
  BY DEF ProducerInv, RowsAccounted
<1>2. CASE \/ OpenSqlx \/ OpenDuckDb \/ OpenClickHouse
           \/ ReadHeaderLine \/ FetchRow \/ FetchFails \/ LeaveLoop
  BY <1>1, <1>2 DEF OpenSqlx, OpenDuckDb, OpenClickHouse, ReadHeaderLine, FetchRow, FetchFails,
                    LeaveLoop, channelVars, Running
<1>3. CASE SendBatch \/ SendBatchRefused \/ SendFinal \/ SkipFinal
  <2>1. /\ taken' = taken /\ pc \in {"send", "final"} /\ outcome' \in {outcome, "ok"}
        /\ sent' = sent \/ sent' = Append(sent, CurrentBatch)
    BY <1>3 DEF SendBatch, SendBatchRefused, SendFinal, SkipFinal, Return, Send, SendRefused,
                channelVars
  <2>2. CurrentBatch \in Messages
    <3>1. /\ sent \in Seq(Messages) /\ Chained /\ Len(sent) \in 0 .. Len(sent)
          /\ rows \in Nat /\ sentRows \in Nat /\ columns \in ColumnState
      BY LoopTypes DEF ProducerInv, ProducerTypeOK, ChannelTypeOK
    <3>2. RowsAt(Len(sent)) \in Nat /\ RowsAt(Len(sent)) + rows = sentRows
      BY <2>1, <3>1, RowsAtNat DEF ProducerInv, RowsAccounted, Running
    <3>3. sentRows - rows \in Nat
      BY <3>1, <3>2
    <3>q. QED BY <3>1, <3>3 DEF CurrentBatch, Batch, Messages, BatchMessages, ColumnState
  <2>q. QED BY <2>1, <2>2, <1>1 DEF Running
<1>q. QED BY <1>2, <1>3 DEF ProducerNext
=============================================================================
