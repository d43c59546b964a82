-------------------------- MODULE SavePipelineProofs ------------------------
(***************************************************************************)
(* What the caller of save may rely on, for every result and channel       *)
(* capacity, and whatever fails or panics: the pipeline of two threads     *)
(* implements AtomicSave.                                                  *)
(***************************************************************************)
EXTENDS SavePipeline, BatchProducerProofs

Reported == Len(sent) > 0 /\ ~IsBatch(sent[Len(sent)])

(* The worker has not made up its mind.                                    *)
Collecting == worker \in {"opening", "receiving"}

FutureInv ==
    /\ limit = Unlimited
    /\ pc \in Running \union {"returned", "drop", "await", "ended"}
    /\ txOpen = (pc \notin {"await", "ended"})
    /\ pc \in {"returned", "drop", "await"} => outcome \in {"ok", "err"}
    /\ pc = "ended" => outcome \in {"ok", "err", "panic"}
    /\ pc = "returned" => \A i \in 1 .. Len(sent) : IsBatch(sent[i])

(* No batch tells of rows the statement does not have.                     *)
BatchesWithin == \A i \in 1 .. Len(sent) : IsBatch(sent[i]) => sent[i].hi <= total

(* As long as the worker collects, everything the future put on the        *)
(* channel reaches it: all rows of a query that succeeded, the error of    *)
(* one that failed; and it has counted the rows it took.                   *)
CollectingInv ==
    Collecting =>
        /\ rxOpen
        /\ verdict = Undecided /\ reply = Undecided /\ ~sealed
        /\ \A i \in 1 .. taken : IsBatch(sent[i])
        /\ rowCount = RowsAt(taken)
        /\ outcome = "ok" => RowsAt(Len(sent)) = total
        /\ outcome = "err" /\ pc \in {"drop", "await", "ended"} => Reported

(* A finished export is the one answered with, and is whole unless the     *)
(* future died.                                                            *)
SealedInv ==
    /\ sealed => /\ verdict = Saved(rowCount) /\ rowCount <= total
                 /\ pc \in {"await", "ended"} /\ outcome \in {"ok", "panic"}
                 /\ outcome = "ok" => rowCount = total
    /\ verdict.kind = "saved" => sealed
    /\ reply \in {Undecided, Dropped, verdict}
    /\ worker = "replying" => reply = Undecided

CallInv ==
    /\ pc # "ended" => call = "pending" /\ view = NoView
    /\ pc = "ended" => call # "pending" /\ (call = "died") = (outcome = "panic")
    /\ call = "died" => view = NoView
    /\ call = "ok" => reply.kind = "saved" /\ view = SuccessView(reply.rows)
    /\ view.status = "success" => reply.kind = "saved"
    /\ call \in {"ok", "err"} => reply # Undecided

SaveType ==
    /\ worker \in {"opening", "receiving", "replying", "leaving", "gone"}
    /\ fileCols \in ColumnState
    /\ rowCount \in Nat
    /\ sealed \in BOOLEAN
    /\ verdict \in Verdicts
    /\ reply \in Verdicts
    /\ call \in {"pending", "ok", "err", "died"}
    /\ view \in {NoView, ErrorView} \union [status : {"success"}, rows : Nat]

SaveInv ==
    /\ ProducerInv /\ SaveType /\ FutureInv /\ BatchesWithin
    /\ CollectingInv /\ SealedInv /\ CallInv

-----------------------------------------------------------------------------

LEMMA TotalBelowLimit ==
  ASSUME ProducerInv, limit = Unlimited
  PROVE  WholeResult = total /\ total \in Nat
  BY ProducerAssumption
     DEF ProducerAssumption, ProducerInv, ProducerTypeOK, WholeResult, Unlimited

LEMMA ResolvedDefault == ResolveStreamBatchSize(None) \in Nat \ {0}
  BY ProducerAssumption DEF ProducerAssumption, ResolveStreamBatchSize

LEMMA InitSaveInv == Init => SaveInv
<1> SUFFICES ASSUME Init PROVE SaveInv
  OBVIOUS
<1>1. ProducerInv
  <2>1. limit \in Nat /\ batchSize \in Nat \ {0}
    BY ProducerAssumption, ResolvedDefault DEF ProducerAssumption, Init, Unlimited
  <2>q. QED BY <2>1, InitProducerInv DEF Init
<1>2. /\ sent = << >> /\ Len(sent) = 0 /\ taken = 0 /\ txOpen = TRUE /\ rxOpen = TRUE
      /\ pc = "open" /\ outcome = "running"
  BY DEF Init, ProducerInit, ChannelInit
<1>3. SaveType
  BY DEF Init, SaveType, Verdicts, Undecided, ColumnState
<1>4. FutureInv /\ BatchesWithin
  <2>1. BatchesWithin
    BY <1>2 DEF BatchesWithin
  <2>2. pc \in Running /\ pc \notin {"await", "ended"}
    BY <1>2 DEF Running
  <2>q. QED BY <1>2, <2>1, <2>2 DEF Init, FutureInv
<1>5. CollectingInv
  BY <1>2 DEF Init, CollectingInv, RowsAt
<1>6. SealedInv /\ CallInv
  BY <1>2 DEF Init, SealedInv, CallInv, Undecided, NoView
<1>q. QED BY <1>1, <1>3, <1>4, <1>5, <1>6 DEF SaveInv

(* Sending is the only step of the loop that adds to the channel, and it   *)
(* adds a batch of rows that were read.                                    *)
LEMMA WithinStep ==
  ASSUME ProducerInv, BatchesWithin, ProducerNext
  PROVE  BatchesWithin'
<1>1. total' = total /\ sentRows \in 0 .. total /\ total \in Nat
  BY ProducerAssumption, QuietStep, SendingStep
     DEF ProducerAssumption, ProducerInv, ProducerTypeOK, ProducerNext, callVars
<1>2. CASE sent' = sent
  BY <1>1, <1>2 DEF BatchesWithin, IsBatch
<1>3. CASE Send(CurrentBatch)
  <2>1. sent \in Seq(Messages) /\ sent' = Append(sent, CurrentBatch)
    BY <1>3 DEF Send, ProducerInv, ProducerTypeOK, ChannelTypeOK
  <2>2. CurrentBatch.hi <= total
    BY <1>1 DEF CurrentBatch, Batch
  <2> HIDE DEF CurrentBatch
  <2>3. ASSUME NEW i \in 1 .. Len(sent'), IsBatch(sent'[i])
        PROVE  sent'[i].hi <= total
    <3>1. CASE i \in 1 .. Len(sent)
      BY <2>1, <2>3, <3>1 DEF BatchesWithin, IsBatch
    <3>2. CASE i = Len(sent) + 1
      BY <2>1, <2>2, <3>2
    <3>q. QED BY <2>1, <3>1, <3>2
  <2>q. QED BY <1>1, <2>3 DEF BatchesWithin, IsBatch
<1>q. QED BY <1>2, <1>3
          DEF ProducerNext, OpenSqlx, OpenDuckDb, OpenClickHouse, ReadHeaderLine, FetchRow,
              FetchFails, LeaveLoop, SendBatch, SendBatchRefused, SendFinal, SkipFinal,
              SendRefused, channelVars

LEMMA RowsWithin ==
  ASSUME ProducerInv, BatchesWithin, NEW n \in 0 .. Len(sent),
         \A i \in 1 .. n : IsBatch(sent[i])
  PROVE  RowsAt(n) \in Nat /\ RowsAt(n) <= total
<1>1. RowsAt(n) \in Nat
  BY RowsAtNat DEF ProducerInv, ProducerTypeOK, ChannelTypeOK
<1>2. total \in Nat /\ Len(sent) \in Nat
  BY ProducerAssumption DEF ProducerAssumption, ProducerInv, ProducerTypeOK, ChannelTypeOK
<1>q. QED BY <1>1, <1>2 DEF RowsAt, BatchesWithin

-----------------------------------------------------------------------------
(* The future.                                                             *)

LEMMA LoopStep ==
  ASSUME SaveInv, ProducerNext, UNCHANGED <<workerVars, reply, call, view>>
  PROVE  SaveInv'
<1>1. ProducerInv /\ BatchesWithin' /\ SaveType' /\ limit = Unlimited
  BY WithinStep DEF SaveInv, SaveType, workerVars, FutureInv
<1>2. WholeResult = total /\ total \in Nat
  BY <1>1, TotalBelowLimit
<1>3. /\ ProducerInv' /\ UNCHANGED <<taken, txOpen, rxOpen, callVars>>
      /\ pc \in Running /\ pc' \in Running \union {"returned"}
      /\ Len(sent') >= Len(sent) /\ \A i \in 1 .. Len(sent) : sent'[i] = sent[i]
      /\ \A i \in 1 .. Len(sent') : IsBatch(sent'[i])
      /\ pc' = "returned" => outcome' \in {"ok", "err"}
      /\ pc' = "returned" /\ outcome' = "ok" /\ rxOpen => RowsAt(Len(sent))' = total
  <2>1. CASE \/ OpenSqlx \/ OpenDuckDb \/ OpenClickHouse
             \/ ReadHeaderLine \/ FetchRow \/ FetchFails \/ LeaveLoop
    <3>1. /\ ProducerInv' /\ UNCHANGED <<channelVars, callVars>>
          /\ pc \in Running /\ pc' \in Running \union {"returned"}
          /\ pc' = "returned" => outcome' = "err"
      BY <1>1, <2>1, QuietStep
    <3>2. \A i \in 1 .. Len(sent) : IsBatch(sent[i])
      BY <1>1, <3>1 DEF ProducerInv, RowsAccounted
    <3>3. Len(sent) \in Nat
      BY <1>1 DEF ProducerInv, ProducerTypeOK, ChannelTypeOK
    <3>q. QED BY <3>1, <3>2, <3>3 DEF channelVars, IsBatch
  <2>2. CASE SendBatch \/ SendBatchRefused \/ SendFinal \/ SkipFinal
    <3>1. /\ ProducerInv' /\ UNCHANGED <<taken, txOpen, rxOpen, callVars>>
          /\ pc \in Running /\ pc' \in {"loop", "returned"}
          /\ pc' = "returned" =>
                /\ outcome' = "ok"
                /\ rxOpen => sentRows' = WholeResult' /\ RowsAt(Len(sent))' = sentRows'
          /\ Len(sent') >= Len(sent)
          /\ \A i \in 1 .. Len(sent) : sent'[i] = sent[i]
          /\ \A i \in 1 .. Len(sent') : IsBatch(sent'[i])
      BY <1>1, <2>2, SendingStep
    <3>2. WholeResult' = total
      BY <1>2, <3>1 DEF callVars, WholeResult
    <3>q. QED BY <3>1, <3>2 DEF Running
  <2>q. QED BY <2>1, <2>2 DEF ProducerNext
<1>4. pc' \in Running => outcome' = "running"
  BY <1>3 DEF ProducerInv, RowsAccounted
<1>5. FutureInv'
  <2>1. pc \notin {"await", "ended"} /\ pc' \notin {"await", "ended"}
    BY <1>3 DEF Running
  <2>2. txOpen' = TRUE
    BY <1>3, <2>1 DEF SaveInv, FutureInv
  <2>3. limit' = Unlimited
    BY <1>1, <1>3 DEF callVars, Unlimited
  <2>4. pc' = "returned" => \A i \in 1 .. Len(sent') : IsBatch(sent'[i])
    BY <1>3
  <2>q. QED BY <1>3, <2>1, <2>2, <2>3, <2>4 DEF FutureInv, Running, Unlimited, IsBatch
<1>6. CollectingInv'
  <2>1. taken \in 0 .. Len(sent) /\ Len(sent) \in Nat
    BY <1>1 DEF ProducerInv, ProducerTypeOK, ChannelTypeOK
  <2>2. RowsAt(taken)' = RowsAt(taken)
    BY <1>3, <2>1 DEF RowsAt, IsBatch
  <2>3. \A i \in 1 .. taken' : IsBatch(sent'[i])
    BY <1>3, <2>1
  <2>4. pc' \notin {"drop", "await", "ended"}
    BY <1>3 DEF Running
  <2>5. outcome' = "ok" /\ Collecting => RowsAt(Len(sent))' = total'
    BY <1>3, <1>4 DEF SaveInv, CollectingInv, callVars
  <2>q. QED BY <1>3, <2>2, <2>3, <2>4, <2>5
            DEF SaveInv, CollectingInv, Collecting, workerVars, IsBatch
<1>7. SealedInv'
  BY <1>3 DEF SaveInv, SealedInv, workerVars, Running
<1>8. CallInv'
  BY <1>3 DEF SaveInv, CallInv, Running
<1>q. QED BY <1>1, <1>3, <1>5, <1>6, <1>7, <1>8 DEF SaveInv

(* The error of a query, if there is one, follows its rows.                *)
LEMMA ForwardStep ==
  ASSUME SaveInv, ForwardError \/ ReturnsNothingToForward
  PROVE  SaveInv'
<1>1. /\ pc = "returned" /\ pc' = "drop" /\ outcome \in {"ok", "err"}
      /\ UNCHANGED <<taken, txOpen, rxOpen, callVars, columns, header, rows, sentRows,
                    emitted, outcome, workerVars, reply, call, view>>
  BY DEF ForwardError, ReturnsNothingToForward, Send, SendRefused, channelVars
<1>2. /\ Len(sent) \in Nat /\ taken \in 0 .. Len(sent)
      /\ \A i \in 1 .. Len(sent) : IsBatch(sent[i])
  BY <1>1 DEF SaveInv, FutureInv, ProducerInv, ProducerTypeOK, ChannelTypeOK
<1>3. /\ ProducerInv' /\ BatchesWithin' /\ Len(sent') >= Len(sent)
      /\ \A i \in 1 .. Len(sent) : sent'[i] = sent[i]
      /\ RowsAt(Len(sent))' = RowsAt(Len(sent)) /\ RowsAt(taken)' = RowsAt(taken)
      /\ outcome = "err" /\ rxOpen => Reported'
  <2>1. CASE Send(Failure("query"))
    <3>1. /\ ChannelTypeOK' /\ Chained'
          /\ Len(sent') = Len(sent) + 1
          /\ \A i \in 1 .. Len(sent) : sent'[i] = sent[i]
          /\ sent'[Len(sent')] = Failure("query")
          /\ RowsAt(Len(sent))' = RowsAt(Len(sent))
          /\ \A n \in 0 .. Len(sent) : RowsAt(n)' = RowsAt(n)
      BY <1>2, <2>1, SendFailureChained DEF SaveInv, ProducerInv, ProducerTypeOK
    <3>2. ProducerInv'
      BY <1>1, <3>1 DEF SaveInv, ProducerInv, ProducerTypeOK, RowsAccounted, LimitKept,
                        Running, callVars, WholeResult
    <3>3. Reported'
      BY <1>2, <3>1 DEF Reported, Failure, IsBatch
    <3>4. BatchesWithin'
      <4>1. ~IsBatch(sent'[Len(sent')])
        BY <3>1 DEF Failure, IsBatch
      <4>q. QED BY <1>1, <1>2, <3>1, <4>1 DEF SaveInv, BatchesWithin, callVars, IsBatch
    <3>5. RowsAt(taken)' = RowsAt(taken)
      BY <1>1, <1>2, <3>1 DEF RowsAt, IsBatch
    <3>q. QED BY <1>2, <3>1, <3>2, <3>3, <3>4, <3>5
  <2>2. CASE UNCHANGED sent /\ ~(outcome = "err" /\ rxOpen)
    <3>1. ProducerInv' /\ RowsAt(Len(sent))' = RowsAt(Len(sent))
      BY <1>1, <2>2, ProducerInvKept
         DEF SaveInv, ProducerInv, ProducerTypeOK, ChannelTypeOK, Running
    <3>2. BatchesWithin' /\ RowsAt(taken)' = RowsAt(taken)
      BY <1>1, <2>2 DEF SaveInv, BatchesWithin, callVars, IsBatch, RowsAt
    <3>q. QED BY <1>2, <2>2, <3>1, <3>2
  <2>q. QED BY <2>1, <2>2
            DEF ForwardError, ReturnsNothingToForward, SendRefused, channelVars
<1>4. FutureInv'
  <2>1. txOpen' = TRUE
    BY <1>1 DEF SaveInv, FutureInv
  <2>q. QED BY <1>1, <2>1 DEF SaveInv, FutureInv, callVars, Running, Unlimited
<1>5. CollectingInv'
  <2>1. \A i \in 1 .. taken' : IsBatch(sent'[i])
    BY <1>1, <1>2, <1>3
  <2>q. QED BY <1>1, <1>3, <2>1
            DEF SaveInv, CollectingInv, Collecting, workerVars, callVars, IsBatch
<1>6. SaveType' /\ SealedInv' /\ CallInv'
  BY <1>1 DEF SaveInv, SaveType, SealedInv, CallInv, workerVars, callVars
<1>q. QED BY <1>3, <1>4, <1>5, <1>6 DEF SaveInv

(* The steps of the future after that leave the messages alone.            *)
LEMMA LateFutureStep ==
  ASSUME SaveInv, DropSender \/ Answer \/ FuturePanics
  PROVE  SaveInv'
<1>1. /\ UNCHANGED <<sent, taken, rxOpen, callVars, columns, header, sentRows, emitted,
                    workerVars, reply>>
      /\ \/ pc = "drop" /\ pc' = "await" /\ UNCHANGED <<rows, outcome, call, view>>
            /\ txOpen' = FALSE
         \/ pc = "await" /\ pc' = "ended" /\ UNCHANGED <<rows, outcome, txOpen>>
         \/ pc = "loop" /\ pc' = "ended" /\ rows' = 0 /\ outcome' = "panic"
            /\ call' = "died" /\ UNCHANGED view /\ txOpen' = FALSE
  BY DEF DropSender, Answer, FuturePanics, ProducerPanics, DropSenders, channelVars
<1>2. /\ ProducerInv' /\ RowsAt(Len(sent))' = RowsAt(Len(sent))
  <2>1. /\ Len(sent) \in Nat /\ taken \in 0 .. Len(sent)
        /\ txOpen' \in BOOLEAN /\ rxOpen' \in BOOLEAN
        /\ outcome' \in {"running", "ok", "err", "panic"}
    <3>1. Len(sent) \in Nat /\ taken \in 0 .. Len(sent)
      BY DEF SaveInv, ProducerInv, ProducerTypeOK, ChannelTypeOK
    <3>2. txOpen' \in BOOLEAN /\ rxOpen' \in BOOLEAN
      BY <1>1 DEF SaveInv, ProducerInv, ProducerTypeOK, ChannelTypeOK
    <3>3. outcome' \in {"running", "ok", "err", "panic"}
      BY <1>1 DEF SaveInv, ProducerInv, ProducerTypeOK
    <3>q. QED BY <3>1, <3>2, <3>3
  <2>2. taken' \in 0 .. Len(sent) /\ taken' >= taken
    BY <1>1, <2>1
  <2>q. QED BY <1>1, <2>1, <2>2, ProducerInvKept DEF SaveInv, Running
<1>3. BatchesWithin' /\ RowsAt(taken)' = RowsAt(taken) /\ UNCHANGED Reported
  BY <1>1 DEF SaveInv, BatchesWithin, callVars, IsBatch, RowsAt, Reported
<1>4. FutureInv'
  <2>1. limit' = Unlimited /\ pc' \in {"await", "ended"}
    BY <1>1 DEF SaveInv, FutureInv, callVars, Unlimited
  <2>2. txOpen' = FALSE
    BY <1>1 DEF SaveInv, FutureInv
  <2>3. /\ pc' = "await" => outcome' \in {"ok", "err"}
        /\ pc' = "ended" => outcome' \in {"ok", "err", "panic"}
    BY <1>1 DEF SaveInv, FutureInv
  <2>q. QED BY <2>1, <2>2, <2>3 DEF FutureInv, Unlimited
<1>5. CollectingInv'
  BY <1>1, <1>2, <1>3 DEF SaveInv, CollectingInv, Collecting, workerVars, callVars, IsBatch
<1>6. SealedInv'
  BY <1>1 DEF SaveInv, SealedInv, workerVars, callVars
<1>7. CallInv' /\ SaveType'
  <2>1. CASE DropSender
    BY <1>1, <2>1 DEF DropSender, SaveInv, CallInv, SaveType, workerVars
  <2>2. CASE Answer
    <3>1. /\ pc = "await" /\ pc' = "ended" /\ reply # Undecided
          /\ outcome' = outcome /\ outcome \in {"ok", "err"}
      BY <2>2 DEF Answer, SaveInv, FutureInv
    <3>2. CASE reply.kind = "saved"
      <4>1. reply.rows \in Nat
        BY <3>2 DEF SaveInv, SaveType, Verdicts
      <4>2. view' = SuccessView(reply.rows) /\ call' \in {"ok", "err"} /\ reply' = reply
        BY <2>2, <3>2 DEF Answer
      <4>q. QED BY <1>1, <3>1, <3>2, <4>1, <4>2
                DEF SaveInv, CallInv, SaveType, SuccessView, workerVars
    <3>3. CASE reply.kind # "saved"
      <4>1. view' = ErrorView /\ call' = "err" /\ reply' = reply
        BY <2>2, <3>3 DEF Answer
      <4>q. QED BY <1>1, <3>1, <4>1 DEF SaveInv, CallInv, SaveType, ErrorView, workerVars
    <3>q. QED BY <3>2, <3>3
  <2>3. CASE FuturePanics
    <3>1. pc = "loop" /\ pc' = "ended" /\ outcome' = "panic" /\ call' = "died"
          /\ UNCHANGED view
      BY <2>3 DEF FuturePanics, ProducerPanics
    <3>q. QED BY <1>1, <3>1 DEF SaveInv, CallInv, SaveType, NoView, workerVars
  <2>q. QED BY <2>1, <2>2, <2>3
<1>q. QED BY <1>2, <1>3, <1>4, <1>5, <1>6, <1>7 DEF SaveInv

-----------------------------------------------------------------------------
(* The worker.                                                             *)

(* What a step of the worker leaves as it was, whatever it does.           *)
LEMMA WorkerFrame ==
  ASSUME SaveInv, UNCHANGED <<sent, txOpen, callVars, localVars, call, view>>,
         taken' \in 0 .. Len(sent), taken' >= taken, rxOpen' \in {rxOpen, FALSE}
  PROVE  /\ ProducerInv' /\ FutureInv' /\ BatchesWithin'
         /\ RowsAt(Len(sent))' = RowsAt(Len(sent)) /\ UNCHANGED Reported
<1>1. txOpen' \in BOOLEAN /\ rxOpen' \in BOOLEAN
      /\ outcome' \in {"running", "ok", "err", "panic"} /\ rows' = rows
  BY DEF SaveInv, ProducerInv, ProducerTypeOK, ChannelTypeOK, localVars
<1>2. ProducerInv' /\ RowsAt(Len(sent))' = RowsAt(Len(sent))
  BY <1>1, ProducerInvKept DEF SaveInv, localVars
<1>3. FutureInv'
  BY DEF SaveInv, FutureInv, callVars, localVars, Unlimited, IsBatch
<1>4. BatchesWithin' /\ UNCHANGED Reported
  BY DEF SaveInv, BatchesWithin, callVars, IsBatch, Reported
<1>q. QED BY <1>2, <1>3, <1>4

LEMMA ReceivedRows ==
  ASSUME SaveInv, worker = "receiving", Receive, IsBatch(NextMessage)
  PROVE  /\ taken' = taken + 1 /\ taken' \in 0 .. Len(sent) /\ taken + 1 \in 1 .. Len(sent)
         /\ UNCHANGED <<sent, txOpen, rxOpen>>
         /\ \A i \in 1 .. taken + 1 : IsBatch(sent[i])
         /\ NextMessage \in BatchMessages
         /\ rowCount + (NextMessage.hi - NextMessage.lo) = RowsAt(taken + 1)
<1>1. /\ Len(sent) \in Nat /\ taken \in 0 .. Len(sent) /\ sent \in Seq(Messages)
      /\ Len(sent) - taken > 0
  BY DEF SaveInv, ProducerInv, ProducerTypeOK, ChannelTypeOK, Receive, CanReceive, InFlight
<1>2. taken + 1 \in 1 .. Len(sent) /\ NextMessage = sent[taken + 1]
  BY <1>1 DEF NextMessage
<1>3. \A i \in 1 .. taken + 1 : IsBatch(sent[i])
  <2>1. \A i \in 1 .. taken : IsBatch(sent[i])
    BY DEF SaveInv, CollectingInv, Collecting
  <2>q. QED BY <1>1, <1>2, <2>1
<1>4. NextMessage \in BatchMessages
  BY <1>1, <1>2 DEF Messages, BatchMessages, FailureMessages, IsBatch
<1>5. rowCount = RowsAt(taken) /\ RowsAt(taken) \in Nat /\ NextMessage.lo = RowsAt(taken)
  <2>1. rowCount = RowsAt(taken)
    BY DEF SaveInv, CollectingInv, Collecting
  <2>2. RowsAt(taken) \in Nat
    BY <1>1, RowsAtNat DEF SaveInv, ProducerInv
  <2>3. PICK k \in 1 .. Len(sent) : k = taken + 1
    BY <1>2
  <2>4. k - 1 = taken /\ IsBatch(sent[k]) /\ NextMessage = sent[k]
    BY <1>1, <1>2, <1>3, <2>3
  <2>5. sent[k].lo = RowsAt(k - 1)
    BY <2>4 DEF SaveInv, ProducerInv, Chained
  <2>q. QED BY <2>1, <2>2, <2>4, <2>5
<1>6. RowsAt(taken + 1) = NextMessage.hi
  BY <1>1, <1>2 DEF RowsAt
<1>7. NextMessage.hi \in Nat
  BY <1>4 DEF BatchMessages
<1>q. QED BY <1>1, <1>2, <1>3, <1>4, <1>5, <1>6, <1>7 DEF Receive

LEMMA OpenStep ==
  ASSUME SaveInv, OpenWriter
  PROVE  SaveInv'
<1>1. /\ UNCHANGED <<producerVars, fileCols, rowCount, sealed, reply, call, view>>
      /\ worker = "opening"
      /\ \/ worker' = "receiving" /\ UNCHANGED verdict
         \/ worker' = "replying" /\ verdict' = Failed("writer")
  BY DEF OpenWriter, Decide
<1>2. UNCHANGED <<sent, taken, txOpen, rxOpen, callVars, localVars>>
  BY <1>1 DEF producerVars, channelVars
<1>3. taken \in 0 .. Len(sent) /\ Len(sent) \in Nat
  BY DEF SaveInv, ProducerInv, ProducerTypeOK, ChannelTypeOK
<1>4. /\ ProducerInv' /\ FutureInv' /\ BatchesWithin'
      /\ RowsAt(Len(sent))' = RowsAt(Len(sent)) /\ UNCHANGED Reported
  BY <1>1, <1>2, <1>3, WorkerFrame
<1>5. SaveType'
  BY <1>1 DEF SaveInv, SaveType, Verdicts, Failed, Causes
<1>6. CollectingInv'
  <2>1. RowsAt(taken)' = RowsAt(taken)
    BY <1>2 DEF RowsAt, IsBatch
  <2>q. QED BY <1>1, <1>2, <1>4, <2>1
            DEF SaveInv, CollectingInv, Collecting, callVars, localVars, IsBatch
<1>7. SealedInv' /\ CallInv'
  BY <1>1, <1>2 DEF SaveInv, SealedInv, CallInv, CollectingInv, Collecting, Failed,
                    callVars, localVars
<1>q. QED BY <1>4, <1>5, <1>6, <1>7 DEF SaveInv

LEMMA WriteStep ==
  ASSUME SaveInv, WriteBatch
  PROVE  SaveInv'
<1> DEFINE size == NextMessage.hi - NextMessage.lo
<1>1. /\ worker = "receiving" /\ Receive /\ IsBatch(NextMessage)
      /\ UNCHANGED <<callVars, localVars, sealed, reply, call, view>>
      /\ fileCols' \in {fileCols, NextMessage.cols}
      /\ \/ rowCount' = rowCount + size /\ UNCHANGED <<worker, verdict>>
         \/ worker' = "replying" /\ UNCHANGED rowCount
            /\ verdict' \in {Failed("writer"), Failed("columns")}
  BY DEF WriteBatch, Decide
<1>2. /\ taken' = taken + 1 /\ taken' \in 0 .. Len(sent) /\ taken + 1 \in 1 .. Len(sent)
      /\ UNCHANGED <<sent, txOpen, rxOpen>>
      /\ \A i \in 1 .. taken + 1 : IsBatch(sent[i])
      /\ NextMessage \in BatchMessages
      /\ rowCount + size = RowsAt(taken + 1)
  BY <1>1, ReceivedRows
<1> HIDE DEF size
<1>3. /\ ProducerInv' /\ FutureInv' /\ BatchesWithin'
      /\ RowsAt(Len(sent))' = RowsAt(Len(sent)) /\ UNCHANGED Reported
  <2>1. taken' >= taken
    BY <1>2 DEF SaveInv, ProducerInv, ProducerTypeOK, ChannelTypeOK
  <2>q. QED BY <1>1, <1>2, <2>1, WorkerFrame
<1>4. RowsAt(taken)' = RowsAt(taken + 1) /\ RowsAt(taken + 1) \in Nat
  <2>1. RowsAt(taken)' = RowsAt(taken + 1)
    BY <1>2 DEF RowsAt, IsBatch
  <2>2. RowsAt(taken + 1) \in Nat
    BY <1>2, RowsAtNat DEF SaveInv, ProducerInv, ProducerTypeOK, ChannelTypeOK
  <2>q. QED BY <2>1, <2>2
<1>5. SaveType'
  <2>1. fileCols' \in ColumnState
    BY <1>1, <1>2 DEF SaveInv, SaveType, BatchMessages
  <2>2. rowCount' \in Nat
    BY <1>1, <1>2, <1>4 DEF SaveInv, SaveType
  <2>3. verdict' \in Verdicts
    BY <1>1 DEF SaveInv, SaveType, Verdicts, Failed, Causes
  <2>q. QED BY <1>1, <2>1, <2>2, <2>3 DEF SaveInv, SaveType
<1>6. CollectingInv'
  <2>1. CASE worker' = "replying"
    BY <2>1 DEF CollectingInv, Collecting
  <2>2. CASE rowCount' = rowCount + size /\ UNCHANGED <<worker, verdict>>
    BY <1>1, <1>2, <1>3, <1>4, <2>2
       DEF SaveInv, CollectingInv, Collecting, callVars, localVars, IsBatch
  <2>q. QED BY <1>1, <2>1, <2>2
<1>7. SealedInv' /\ CallInv'
  BY <1>1, <1>2 DEF SaveInv, SealedInv, CallInv, CollectingInv, Collecting, Failed,
                    callVars, localVars
<1>q. QED BY <1>3, <1>5, <1>6, <1>7 DEF SaveInv

(* The worker stops collecting with a failure: the query's, or its own.    *)
LEMMA StopStep ==
  ASSUME SaveInv, ReceiveError \/ WorkerPanics
  PROVE  SaveInv'
<1>1. /\ worker = "receiving" /\ worker' \in {"replying", "gone"}
      /\ UNCHANGED <<sent, txOpen, callVars, localVars, fileCols, rowCount, sealed, call, view>>
      /\ rxOpen' \in {rxOpen, FALSE}
      /\ \/ UNCHANGED <<verdict, taken>> /\ reply' = Dropped
         \/ UNCHANGED reply /\ Receive /\ ~IsBatch(NextMessage) /\ verdict' = Failed(NextMessage.of)
  BY DEF ReceiveError, WorkerPanics, Decide, Receive, DropReceiver
<1>2. Len(sent) \in Nat /\ taken \in 0 .. Len(sent) /\ sent \in Seq(Messages)
  BY DEF SaveInv, ProducerInv, ProducerTypeOK, ChannelTypeOK
<1>3. taken' \in 0 .. Len(sent) /\ taken' >= taken
  BY <1>1, <1>2 DEF Receive, CanReceive, InFlight
<1>4. ProducerInv' /\ FutureInv' /\ BatchesWithin'
  BY <1>1, <1>3, WorkerFrame
<1>5. SaveType'
  <2>1. ASSUME Receive, ~IsBatch(NextMessage)
        PROVE  NextMessage.of \in Causes
    <3>1. taken + 1 \in 1 .. Len(sent)
      BY <1>2, <2>1 DEF Receive, CanReceive, InFlight
    <3>2. NextMessage \in Messages
      BY <1>2, <3>1 DEF NextMessage
    <3>q. QED BY <2>1, <3>2 DEF Messages, BatchMessages, FailureMessages, IsBatch, Causes
  <2>2. verdict' \in Verdicts
    BY <1>1, <2>1 DEF SaveInv, SaveType, Verdicts, Failed
  <2>3. reply' \in Verdicts
    BY <1>1 DEF SaveInv, SaveType, Verdicts, Dropped
  <2>q. QED BY <1>1, <2>2, <2>3 DEF SaveInv, SaveType
<1>6. CollectingInv'
  BY <1>1 DEF CollectingInv, Collecting
<1>7. verdict = Undecided /\ reply = Undecided /\ ~sealed
  BY <1>1 DEF SaveInv, CollectingInv, Collecting
<1>8. SealedInv'
  <2>1. CASE UNCHANGED verdict /\ reply' = Dropped /\ worker' = "gone"
    BY <1>1, <1>7, <2>1 DEF SealedInv, Undecided, Dropped
  <2>2. CASE UNCHANGED reply /\ verdict' = Failed(NextMessage.of)
    BY <1>1, <1>7, <2>2 DEF SealedInv, Failed
  <2>q. QED BY <2>1, <2>2 DEF ReceiveError, WorkerPanics, Decide
<1>9. CallInv'
  <2>1. call \notin {"ok", "err"} /\ view.status # "success"
    BY <1>7 DEF SaveInv, CallInv, Undecided
  <2>q. QED BY <1>1, <2>1 DEF SaveInv, CallInv, localVars
<1>q. QED BY <1>4, <1>5, <1>6, <1>8, <1>9 DEF SaveInv

(* The writer is finished when every batch was written and every sender is *)
(* gone: the future has returned or died.                                  *)
LEMMA FinishStep ==
  ASSUME SaveInv, FinishWriter
  PROVE  /\ SaveInv'
         /\ sealed' /\ ~sealed => rowCount <= total
<1>1. /\ UNCHANGED <<producerVars, fileCols, rowCount, reply, call, view>>
      /\ worker = "receiving" /\ worker' = "replying" /\ AtEnd
      /\ \/ verdict' = Saved(rowCount) /\ sealed' = TRUE
         \/ verdict' = Failed("writer") /\ UNCHANGED sealed
  BY DEF FinishWriter, Decide
<1>2. UNCHANGED <<sent, taken, txOpen, rxOpen, callVars, localVars>>
  BY <1>1 DEF producerVars, channelVars
<1>3. taken \in 0 .. Len(sent) /\ Len(sent) \in Nat /\ taken = Len(sent) /\ ~txOpen
  BY <1>1 DEF SaveInv, ProducerInv, ProducerTypeOK, ChannelTypeOK, AtEnd, InFlight
<1>4. ProducerInv' /\ FutureInv' /\ BatchesWithin'
  <2>1. taken' \in 0 .. Len(sent) /\ taken' >= taken
    BY <1>2, <1>3
  <2>2. rxOpen' \in {rxOpen, FALSE} /\ UNCHANGED <<call, view>>
    BY <1>1, <1>2
  <2>q. QED BY <1>2, <2>1, <2>2, WorkerFrame
<1>5. /\ verdict = Undecided /\ reply = Undecided /\ ~sealed
      /\ \A i \in 1 .. Len(sent) : IsBatch(sent[i])
      /\ rowCount = RowsAt(Len(sent))
      /\ outcome = "ok" => RowsAt(Len(sent)) = total
      /\ outcome = "err" /\ pc \in {"drop", "await", "ended"} => Reported
  BY <1>1, <1>3 DEF SaveInv, CollectingInv, Collecting
<1>6. rowCount \in Nat /\ rowCount <= total
  BY <1>3, <1>5, RowsWithin DEF SaveInv
<1>7. pc \in {"await", "ended"} /\ outcome \in {"ok", "panic"}
  <2>1. pc \in {"await", "ended"}
    BY <1>3 DEF SaveInv, FutureInv
  <2>2. ~Reported
    BY <1>3, <1>5 DEF Reported
  <2>q. QED BY <1>5, <2>1, <2>2 DEF SaveInv, FutureInv
<1>8. SaveType'
  <2>1. verdict' \in Verdicts
    BY <1>1, <1>6 DEF Verdicts, Failed, Saved, Causes
  <2>2. sealed' \in BOOLEAN
    BY <1>1 DEF SaveInv, SaveType
  <2>q. QED BY <1>1, <2>1, <2>2 DEF SaveInv, SaveType
<1>9. CollectingInv'
  BY <1>1 DEF CollectingInv, Collecting
<1>10. SealedInv'
  <2>1. total' = total /\ pc' = pc /\ outcome' = outcome
    BY <1>2 DEF callVars, localVars
  <2>2. CASE verdict' = Saved(rowCount) /\ sealed' = TRUE
    BY <1>1, <1>5, <1>6, <1>7, <2>1, <2>2 DEF SealedInv, Saved
  <2>3. CASE verdict' = Failed("writer") /\ UNCHANGED sealed
    BY <1>1, <1>5, <2>3 DEF SealedInv, Failed
  <2>q. QED BY <1>1, <2>2, <2>3
<1>11. CallInv'
  BY <1>1, <1>2 DEF SaveInv, CallInv, localVars
<1>q. QED BY <1>4, <1>6, <1>8, <1>9, <1>10, <1>11 DEF SaveInv

LEMMA ReplyStep ==
  ASSUME SaveInv, SendReply \/ LeaveWorker
  PROVE  SaveInv'
<1>1. /\ UNCHANGED <<sent, taken, txOpen, callVars, localVars, fileCols, rowCount, sealed,
                    verdict, call, view>>
      /\ rxOpen' \in {rxOpen, FALSE}
      /\ worker' \in {"leaving", "gone"}
      /\ \/ worker = "replying" /\ reply' = verdict
         \/ UNCHANGED reply
  BY DEF SendReply, LeaveWorker, DropReceiver, producerVars, channelVars
<1>2. taken \in 0 .. Len(sent) /\ Len(sent) \in Nat
  BY DEF SaveInv, ProducerInv, ProducerTypeOK, ChannelTypeOK
<1>3. ProducerInv' /\ FutureInv' /\ BatchesWithin'
  <2>1. taken' \in 0 .. Len(sent) /\ taken' >= taken
    BY <1>1, <1>2
  <2>q. QED BY <1>1, <2>1, WorkerFrame
<1>4. SaveType' /\ CollectingInv'
  BY <1>1 DEF SaveInv, SaveType, CollectingInv, Collecting
<1>5. SealedInv'
  BY <1>1 DEF SaveInv, SealedInv, callVars, localVars
<1>6. CallInv'
  <2>1. CASE UNCHANGED reply
    BY <1>1, <2>1 DEF SaveInv, CallInv, localVars
  <2>2. CASE worker = "replying" /\ reply' = verdict
    <3>1. reply = Undecided
      BY <2>2 DEF SaveInv, SealedInv
    <3>2. call \notin {"ok", "err"} /\ view.status # "success"
      BY <3>1 DEF SaveInv, CallInv, Undecided
    <3>q. QED BY <1>1, <3>2 DEF SaveInv, CallInv, localVars
  <2>q. QED BY <1>1, <2>1, <2>2
<1>q. QED BY <1>3, <1>4, <1>5, <1>6 DEF SaveInv

-----------------------------------------------------------------------------

LEMMA NextSaveInv == SaveInv /\ [Next]_vars => SaveInv'
<1> SUFFICES ASSUME SaveInv, [Next]_vars PROVE SaveInv'
  OBVIOUS
<1>1. CASE Future
  BY <1>1, LoopStep, ForwardStep, LateFutureStep DEF Future
<1>2. CASE FuturePanics
  BY <1>2, LateFutureStep
<1>3. CASE Worker
  BY <1>3, OpenStep, WriteStep, StopStep, FinishStep, ReplyStep DEF Worker
<1>4. CASE WorkerPanics
  BY <1>4, StopStep
<1>5. CASE UNCHANGED vars
  <2>1. /\ UNCHANGED <<sent, taken, txOpen, rxOpen, callVars, localVars>>
        /\ UNCHANGED <<worker, fileCols, rowCount, sealed, verdict, reply, call, view>>
    BY <1>5 DEF vars, producerVars, workerVars, channelVars
  <2>2. taken \in 0 .. Len(sent) /\ Len(sent) \in Nat
    BY DEF SaveInv, ProducerInv, ProducerTypeOK, ChannelTypeOK
  <2>3. /\ ProducerInv' /\ FutureInv' /\ BatchesWithin'
        /\ RowsAt(Len(sent))' = RowsAt(Len(sent)) /\ UNCHANGED Reported
    BY <2>1, <2>2, WorkerFrame
  <2>4. RowsAt(taken)' = RowsAt(taken)
    BY <2>1 DEF RowsAt, IsBatch
  <2>5. SaveType' /\ SealedInv' /\ CallInv'
    BY <2>1 DEF SaveInv, SaveType, SealedInv, CallInv, callVars, localVars
  <2>6. CollectingInv'
    BY <2>1, <2>3, <2>4
       DEF SaveInv, CollectingInv, Collecting, callVars, localVars, IsBatch
  <2>q. QED BY <2>3, <2>5, <2>6 DEF SaveInv
<1>q. QED BY <1>1, <1>2, <1>3, <1>4, <1>5 DEF Next, Finished

(* The invariant the theorems below rest on holds throughout.              *)
THEOREM SaveInvariant == Spec => []SaveInv
<1>q. QED BY InitSaveInv, NextSaveInv, PTL DEF Spec

(* Every variable of the future and of the worker keeps its type.          *)
THEOREM SaveTypeOK == Spec => []TypeOK
<1>1. SaveInv => TypeOK
  <2>1. SaveInv => ProducerTypeOK
    BY DEF SaveInv, ProducerInv
  <2>2. SaveInv => pc \in {"open", "loop", "send", "final", "returned", "drop", "await", "ended"}
    BY DEF SaveInv, FutureInv, Running
  <2>q. QED BY <2>1, <2>2 DEF SaveInv, SaveType, TypeOK
<1>q. QED BY <1>1, SaveInvariant, PTL

LEMMA AnsweredOk ==
  ASSUME SaveInv, reply.kind = "saved", outcome # "panic"
  PROVE  sealed /\ rowCount = total /\ reply = Saved(total)
<1>1. reply = verdict /\ verdict.kind = "saved"
  BY DEF SaveInv, SealedInv, Undecided, Dropped
<1>q. QED BY <1>1 DEF SaveInv, SealedInv

(* save answers Ok only for a finished file that holds every row of the    *)
(* statement, and the session counts the same rows.                        *)
THEOREM OkIsWhole == Spec => []OkMeansWhole
<1>1. SaveInv => OkMeansWhole
  <2> SUFFICES ASSUME SaveInv, call = "ok"
               PROVE  sealed /\ rowCount = total /\ view = SuccessView(total)
    BY DEF OkMeansWhole
  <2>1. reply.kind = "saved" /\ view = SuccessView(reply.rows) /\ outcome # "panic"
    BY DEF SaveInv, CallInv
  <2>2. sealed /\ rowCount = total /\ reply = Saved(total)
    BY <2>1, AnsweredOk
  <2>q. QED BY <2>1, <2>2 DEF Saved
<1>q. QED BY <1>1, SaveInvariant, PTL

(* A query that failed part way is neither answered nor recorded as a      *)
(* success, in whatever order the error and the worker's own end come.     *)
THEOREM QueryErrorIsKept == Spec => []ErrorNotSwallowed
<1>1. SaveInv => ErrorNotSwallowed
  <2> SUFFICES ASSUME SaveInv, outcome = "err"
               PROVE  /\ ~sealed /\ call \in {"pending", "err"}
                      /\ view.status # "success"
    BY DEF ErrorNotSwallowed
  <2>1. ~sealed
    BY DEF SaveInv, SealedInv
  <2>2. reply.kind # "saved"
    BY <2>1, AnsweredOk
  <2>q. QED BY <2>1, <2>2 DEF SaveInv, SaveType, CallInv
<1>q. QED BY <1>1, SaveInvariant, PTL

(* A finished export holds the whole result, unless the future that fed    *)
(* the worker panicked.                                                    *)
THEOREM FinishedIsWhole == Spec => []SealedIsWhole
<1>1. SaveInv => SealedIsWhole
  BY DEF SaveInv, SealedInv, SealedIsWhole
<1>q. QED BY <1>1, SaveInvariant, PTL

-----------------------------------------------------------------------------
(* Refinement.                                                             *)

(* What the promise says of a step, in the variables of the pipeline.      *)
StoredRows == IF sealed THEN rowCount ELSE 0

LEMMA AnswerTells ==
  ASSUME SaveInv, Answer \/ FuturePanics
  PROVE  \E answer \in {"ok", "err", "died"} : Promise!Tell(answer)
<1>1. /\ pc \in {"await", "loop"} /\ call' \in {"ok", "err", "died"}
      /\ UNCHANGED <<total, sealed, rowCount>>
      /\ call' = "ok" => pc = "await" /\ reply.kind = "saved"
  BY DEF Answer, FuturePanics, ProducerPanics, callVars, workerVars
<1>2. call = "pending"
  BY <1>1 DEF SaveInv, CallInv
<1>3. call' = "ok" => sealed /\ rowCount = total
  BY <1>1, AnsweredOk DEF SaveInv, FutureInv
<1>q. QED BY <1>1, <1>2, <1>3 DEF Promise!Tell

LEMMA FinishSeals ==
  ASSUME SaveInv, FinishWriter
  PROVE  \/ \E n \in 0 .. total : Promise!Seal(n)
         \/ UNCHANGED <<total, sealed, rowCount, call>>
<1>1. /\ worker = "receiving" /\ UNCHANGED <<total, rowCount, call>>
      /\ sealed' = TRUE \/ UNCHANGED sealed
  BY DEF FinishWriter, producerVars, callVars
<1>2. ~sealed /\ reply = Undecided
  BY <1>1 DEF SaveInv, CollectingInv, Collecting
<1>3. call \in {"pending", "died"}
  BY <1>2 DEF SaveInv, CallInv, SaveType
<1>4. CASE sealed' = TRUE
  <2>1. rowCount \in 0 .. total
    <3>1. rowCount <= total /\ rowCount \in Nat
      BY <1>2, <1>4, FinishStep DEF SaveInv, SaveType
    <3>2. total \in Nat
      BY ProducerAssumption
         DEF ProducerAssumption, SaveInv, ProducerInv, ProducerTypeOK
    <3>q. QED BY <3>1, <3>2
  <2>2. Promise!Seal(rowCount)
    BY <1>1, <1>2, <1>3, <1>4, <2>1 DEF Promise!Seal
  <2>q. QED BY <2>1, <2>2
<1>q. QED BY <1>1, <1>4

(* The worker counts rows only while the file is not finished.             *)
LEMMA OthersStutter ==
  ASSUME SaveInv,
         \/ ProducerNext /\ UNCHANGED <<workerVars, reply, call, view>>
         \/ ForwardError \/ ReturnsNothingToForward \/ DropSender
         \/ OpenWriter \/ WriteBatch \/ ReceiveError \/ SendReply \/ LeaveWorker
         \/ WorkerPanics \/ UNCHANGED vars
  PROVE  UNCHANGED <<total, StoredRows, sealed, call>>
<1>1. CASE ProducerNext /\ UNCHANGED <<workerVars, reply, call, view>>
  <2>1. total' = total
    BY <1>1, QuietStep, SendingStep DEF SaveInv, FutureInv, ProducerNext, callVars
  <2>q. QED BY <1>1, <2>1 DEF workerVars, StoredRows
<1>2. CASE ForwardError \/ ReturnsNothingToForward \/ DropSender
  BY <1>2 DEF ForwardError, ReturnsNothingToForward, DropSender, callVars, workerVars,
              StoredRows
<1>3. CASE WriteBatch
  <2>1. ~sealed /\ UNCHANGED <<total, sealed, call>>
    BY <1>3 DEF WriteBatch, SaveInv, CollectingInv, Collecting, callVars
  <2>q. QED BY <2>1 DEF StoredRows
<1>4. CASE \/ OpenWriter \/ ReceiveError \/ SendReply \/ LeaveWorker
           \/ WorkerPanics \/ UNCHANGED vars
  BY <1>4 DEF OpenWriter, ReceiveError, SendReply, LeaveWorker, WorkerPanics, vars,
              producerVars, callVars, workerVars, StoredRows
<1>q. QED BY <1>1, <1>2, <1>3, <1>4

(* The pipeline of future, channel, worker and oneshot implements the      *)
(* promise of AtomicSave: finishing the file is Seal, the answer and the   *)
(* death of the future are Tell, everything else is a stuttering step.     *)
THEOREM PipelineKeepsPromise == Spec => ImplementsAtomicSave
<1>1. Init => Promise!Init
  <2> SUFFICES ASSUME Init PROVE Promise!Init
    OBVIOUS
  <2>1. total \in Nat
    BY ProducerAssumption DEF ProducerAssumption, Init, ProducerInit, StatementShape
  <2>q. QED BY <2>1 DEF Init, Promise!Init
<1>2. SaveInv /\ [Next]_vars => [Promise!Next]_Promise!abstractVars
  <2> SUFFICES ASSUME SaveInv, [Next]_vars
               PROVE  Promise!Next \/ UNCHANGED Promise!abstractVars
    OBVIOUS
  <2>1. CASE Answer \/ FuturePanics
    BY <2>1, AnswerTells DEF Promise!Next
  <2>2. CASE FinishWriter
    BY <2>2, FinishSeals DEF Promise!Next, Promise!abstractVars
  <2>3. CASE UNCHANGED <<total, StoredRows, sealed, call>>
    BY <2>3 DEF StoredRows, Promise!abstractVars
  <2>q. QED BY <2>1, <2>2, <2>3, OthersStutter DEF Next, Future, Worker, Finished
<1>q. QED BY <1>1, <1>2, SaveInvariant, PTL DEF Spec, ImplementsAtomicSave, Promise!Spec
-----------------------------------------------------------------------------
(* Who is to blame.                                                        *)

(* Every batch has the columns of the statement, so the worker never meets *)
(* inconsistent ones; only the query's error travels on the channel, and   *)
(* only when the query failed.                                             *)
BlameInv ==
    /\ BatchInv
    /\ \A i \in 1 .. Len(sent) :
          ~IsBatch(sent[i]) => sent[i].of = "query" /\ outcome = "err"
    /\ fileCols \in {"none", schema}
    /\ verdict.kind = "failed" => verdict.of \in {"query", "writer"}
    /\ verdict.kind = "failed" /\ verdict.of = "query" => outcome = "err"

LEMMA InitBlame == Init => BlameInv
<1> SUFFICES ASSUME Init PROVE BlameInv
  OBVIOUS
<1>1. limit \in Nat /\ batchSize \in Nat \ {0}
  BY ProducerAssumption, ResolvedDefault DEF ProducerAssumption, Init, Unlimited
<1>2. BatchInv
  BY <1>1, InitBatchInv DEF Init
<1>q. QED BY <1>2 DEF Init, ProducerInit, ChannelInit, BlameInv, Undecided

LEMMA LoopBlame ==
  ASSUME SaveInv, BlameInv, ProducerNext, UNCHANGED <<workerVars, reply, call, view>>
  PROVE  BlameInv'
<1>1. BatchInv' /\ callVars' = callVars /\ \A i \in 1 .. Len(sent') : IsBatch(sent'[i])
  <2>1. CASE \/ OpenSqlx \/ OpenDuckDb \/ OpenClickHouse
             \/ ReadHeaderLine \/ FetchRow \/ FetchFails \/ LeaveLoop
    <3>1. UNCHANGED <<channelVars, callVars>> /\ pc \in Running
      BY <2>1, QuietStep DEF SaveInv
    <3>2. sent' = sent /\ \A i \in 1 .. Len(sent) : IsBatch(sent[i])
      BY <3>1 DEF channelVars, SaveInv, ProducerInv, RowsAccounted
    <3>3. BatchInv'
      BY <2>1, QuietBatches DEF SaveInv, BlameInv
    <3>q. QED BY <3>1, <3>2, <3>3 DEF IsBatch
  <2>2. CASE SendBatch \/ SendBatchRefused \/ SendFinal \/ SkipFinal
    BY <2>2, SendingStep, SendingBatches DEF SaveInv, BlameInv
  <2>q. QED BY <2>1, <2>2 DEF ProducerNext
<1>2. pc \in Running
  BY <1>1, QuietStep, SendingStep DEF SaveInv, ProducerNext
<1>3. outcome # "err"
  BY <1>2 DEF SaveInv, ProducerInv, RowsAccounted
<1>q. QED BY <1>1, <1>3 DEF BlameInv, workerVars, callVars, IsBatch

LEMMA ForwardBlame ==
  ASSUME SaveInv, BlameInv, ForwardError
  PROVE  BlameInv'
<1>1. /\ pc = "returned" /\ pc' = "drop" /\ outcome = "err"
      /\ UNCHANGED <<callVars, columns, header, rows, sentRows, emitted, outcome, fileCols,
                    verdict>>
      /\ Send(Failure("query")) \/ UNCHANGED sent
  BY DEF ForwardError, SendRefused, channelVars, workerVars
<1>2. pc \notin Running /\ pc' \notin Running
  BY <1>1 DEF Running
<1>3. /\ \A i \in 1 .. Len(sent) : IsBatch(sent[i])
      /\ Len(sent) \in Nat /\ sent \in Seq(Messages)
  BY <1>1 DEF SaveInv, FutureInv, ProducerInv, ProducerTypeOK, ChannelTypeOK
<1>4. CASE Send(Failure("query"))
  <2>1. BatchInv'
    BY <1>1, <1>2, <1>3, <1>4, FailureBatches DEF SaveInv, BlameInv
  <2>2. \A i \in 1 .. Len(sent') : sent'[i] = Failure("query") \/ IsBatch(sent'[i])
    <3>1. sent' = Append(sent, Failure("query"))
      BY <1>4 DEF Send
    <3>2. ASSUME NEW i \in 1 .. Len(sent')
          PROVE  sent'[i] = Failure("query") \/ (sent'[i] = sent[i] /\ i \in 1 .. Len(sent))
      BY <1>3, <3>1
    <3>q. QED BY <1>3, <3>2
  <2>q. QED BY <1>1, <2>1, <2>2 DEF BlameInv, callVars, IsBatch, Failure
<1>5. CASE UNCHANGED sent
  <2>1. BatchInv'
    BY <1>1, <1>2, <1>5, BatchInvKept DEF SaveInv, BlameInv, Running
  <2>q. QED BY <1>1, <1>5, <2>1 DEF BlameInv, callVars, IsBatch
<1>q. QED BY <1>1, <1>4, <1>5

(* The steps that put nothing on the channel and do not touch the writer.  *)
LEMMA BlameKept ==
  ASSUME SaveInv, BlameInv, UNCHANGED <<sent, callVars, columns, header, sentRows, emitted>>,
         \/ UNCHANGED <<pc, rows, outcome>>
         \/ pc \notin Running /\ pc' \notin Running /\ UNCHANGED <<rows, outcome>>
         \/ pc = "loop" /\ pc' = "ended" /\ rows' = 0 /\ outcome' = "panic"
  PROVE  /\ BatchInv'
         /\ \A i \in 1 .. Len(sent') :
               ~IsBatch(sent'[i]) => sent'[i].of = "query" /\ outcome' = "err"
         /\ outcome = "err" => outcome' = "err"
<1>1. /\ pc = "loop" => outcome = "running" /\ \A i \in 1 .. Len(sent) : IsBatch(sent[i])
      /\ "ended" \notin Running /\ "open" \in Running /\ "loop" \in Running
  BY DEF SaveInv, ProducerInv, RowsAccounted, Running
<1>2. BatchInv'
  BY <1>1, BatchInvKept DEF SaveInv, BlameInv
<1>q. QED BY <1>1, <1>2 DEF BlameInv, IsBatch

LEMMA WorkerBlame ==
  ASSUME SaveInv, BlameInv, Worker \/ WorkerPanics
  PROVE  BlameInv'
<1>1. UNCHANGED <<sent, callVars, localVars>>
  BY DEF Worker, WorkerPanics, OpenWriter, WriteBatch, ReceiveError, FinishWriter, SendReply,
         LeaveWorker, Receive, DropReceiver, producerVars, channelVars
<1>2. UNCHANGED <<sent, callVars, columns, header, sentRows, emitted, pc, rows, outcome, schema>>
  BY <1>1 DEF localVars, callVars
<1>3. /\ BatchInv'
      /\ \A i \in 1 .. Len(sent') :
            ~IsBatch(sent'[i]) => sent'[i].of = "query" /\ outcome' = "err"
  BY <1>2, BlameKept
<1>4. ASSUME Receive
      PROVE  /\ IsBatch(NextMessage) => NextMessage.cols = schema
             /\ ~IsBatch(NextMessage) => NextMessage.of = "query" /\ outcome = "err"
  <2>1. taken + 1 \in 1 .. Len(sent)
    BY <1>4 DEF SaveInv, ProducerInv, ProducerTypeOK, ChannelTypeOK, Receive, CanReceive, InFlight
  <2>q. QED BY <2>1 DEF BlameInv, BatchInv, Shaped, WellShaped, NextMessage
<1>5. CASE WriteBatch
  <2>1. NextMessage.cols = schema /\ ColumnsAgree(NextMessage.cols)
    BY <1>4, <1>5 DEF WriteBatch, BlameInv, ColumnsAgree
  <2>2. fileCols' \in {"none", schema} /\ (verdict' = verdict \/ verdict' = Failed("writer"))
    BY <1>5, <2>1 DEF WriteBatch, Decide, BlameInv
  <2>q. QED BY <1>2, <1>3, <2>2 DEF BlameInv, Failed
<1>6. CASE ReceiveError
  <2>1. NextMessage.of = "query" /\ outcome = "err"
    BY <1>4, <1>6 DEF ReceiveError
  <2>2. fileCols' = fileCols /\ verdict' = Failed("query")
    BY <1>6, <2>1 DEF ReceiveError, Decide
  <2>q. QED BY <1>2, <1>3, <2>1, <2>2 DEF BlameInv, Failed
<1>7. CASE OpenWriter \/ FinishWriter
  <2>1. fileCols' = fileCols
        /\ verdict' \in {verdict, Failed("writer"), Saved(rowCount)}
    BY <1>7 DEF OpenWriter, FinishWriter, Decide
  <2>q. QED BY <1>2, <1>3, <2>1 DEF BlameInv, Failed, Saved
<1>8. CASE SendReply \/ LeaveWorker \/ WorkerPanics
  <2>1. fileCols' = fileCols /\ verdict' = verdict
    BY <1>8 DEF SendReply, LeaveWorker, WorkerPanics
  <2>q. QED BY <1>2, <1>3, <2>1 DEF BlameInv
<1>q. QED BY <1>5, <1>6, <1>7, <1>8 DEF Worker

LEMMA NextBlame ==
  ASSUME SaveInv, BlameInv, [Next]_vars
  PROVE  BlameInv'
<1>1. CASE ProducerNext /\ UNCHANGED <<workerVars, reply, call, view>>
  BY <1>1, LoopBlame
<1>2. CASE ForwardError
  BY <1>2, ForwardBlame
<1>3. CASE Worker \/ WorkerPanics
  BY <1>3, WorkerBlame
<1>4. CASE ReturnsNothingToForward \/ DropSender \/ Answer \/ FuturePanics \/ UNCHANGED vars
  <2>1. /\ UNCHANGED <<sent, callVars, columns, header, sentRows, emitted, fileCols, verdict>>
        /\ \/ UNCHANGED <<pc, rows, outcome>>
           \/ pc \notin Running /\ pc' \notin Running /\ UNCHANGED <<rows, outcome>>
           \/ pc = "loop" /\ pc' = "ended" /\ rows' = 0 /\ outcome' = "panic"
    <3>1. CASE ReturnsNothingToForward \/ DropSender \/ Answer
      BY <3>1 DEF ReturnsNothingToForward, DropSender, Answer, DropSenders, channelVars,
                  workerVars, Running
    <3>2. CASE FuturePanics
      BY <3>2 DEF FuturePanics, ProducerPanics, DropSenders, workerVars
    <3>3. CASE UNCHANGED vars
      BY <3>3 DEF vars, producerVars, channelVars, workerVars, localVars
    <3>q. QED BY <1>4, <3>1, <3>2, <3>3
  <2>2. /\ BatchInv'
        /\ \A i \in 1 .. Len(sent') :
              ~IsBatch(sent'[i]) => sent'[i].of = "query" /\ outcome' = "err"
        /\ outcome = "err" => outcome' = "err"
    BY <2>1, BlameKept
  <2>q. QED BY <2>1, <2>2 DEF BlameInv, callVars
<1>q. QED BY <1>1, <1>2, <1>3, <1>4 DEF Next, Future, Finished

(* The caller is told of the query's error only if the query failed; when  *)
(* it succeeded and the export did not, the reason is one of the file or   *)
(* of the worker's death, and never that the batches disagreed.            *)
THEOREM BlameIsHonest == Spec => []ErrorIsHonest
<1>1. SaveInv /\ BlameInv => ErrorIsHonest
  <2> SUFFICES ASSUME SaveInv, BlameInv PROVE ErrorIsHonest
    OBVIOUS
  <2>1. reply \in {Undecided, Dropped, verdict} /\ verdict \in Verdicts
    BY DEF SaveInv, SealedInv, SaveType
  <2>2. reply = Failed("query") => outcome = "err"
    BY <2>1 DEF BlameInv, Failed, Undecided, Dropped
  <2>3. ASSUME outcome = "ok", pc = "ended", ~sealed
        PROVE  reply \in {Failed("writer"), Dropped}
    <3>1. reply # Undecided
      BY <2>3 DEF SaveInv, SaveType, CallInv
    <3>2. CASE reply = verdict
      <4>1. verdict.kind # "saved"
        BY <2>3 DEF SaveInv, SealedInv
      <4>2. CASE verdict \in [kind : {"none", "dropped"}]
        BY <3>1, <3>2, <4>2 DEF Undecided, Dropped
      <4>3. CASE verdict \in [kind : {"failed"}, of : Causes]
        BY <2>3, <3>2, <4>3 DEF BlameInv, Failed
      <4>q. QED BY <2>1, <4>1, <4>2, <4>3 DEF Verdicts
    <3>q. QED BY <2>1, <3>1, <3>2
  <2>q. QED BY <2>2, <2>3 DEF ErrorIsHonest
<1>2. SaveInv /\ BlameInv /\ [Next]_vars => SaveInv' /\ BlameInv'
  BY NextSaveInv, NextBlame
<1>q. QED BY <1>1, <1>2, InitSaveInv, InitBlame, PTL DEF Spec

-----------------------------------------------------------------------------
(* A save comes to an end.                                                 *)

(* The receiver lives as long as the worker, which answers before it goes. *)
LifeInv ==
    /\ rxOpen = (worker # "gone")
    /\ worker = "replying" => verdict # Undecided
    /\ worker \in {"leaving", "gone"} => reply # Undecided

LEMMA InitLife == Init => LifeInv
  BY DEF Init, ProducerInit, ChannelInit, LifeInv

LEMMA ProducerKeepsReceiver ==
  ASSUME ProducerNext \/ ProducerPanics \/ ForwardError \/ ReturnsNothingToForward
            \/ DropSender \/ Answer
  PROVE  rxOpen' = rxOpen
  BY DEF ProducerNext, OpenSqlx, OpenDuckDb, OpenClickHouse, ReadHeaderLine, FetchRow,
         FetchFails, LeaveLoop, SendBatch, SendBatchRefused, SendFinal, SkipFinal,
         ProducerPanics, ForwardError, ReturnsNothingToForward, DropSender, Answer,
         Send, SendRefused, DropSenders, channelVars

LEMMA NextLife == SaveInv /\ LifeInv /\ [Next]_vars => LifeInv'
<1> SUFFICES ASSUME SaveInv, LifeInv, [Next]_vars PROVE LifeInv'
  OBVIOUS
<1>1. CASE Future \/ FuturePanics
  <2>1. UNCHANGED <<rxOpen, worker, verdict, reply>>
    BY <1>1, ProducerKeepsReceiver
       DEF Future, FuturePanics, ForwardError, ReturnsNothingToForward, DropSender, Answer,
           workerVars
  <2>q. QED BY <2>1 DEF LifeInv
<1>2. CASE OpenWriter
  BY <1>2 DEF OpenWriter, Decide, LifeInv, producerVars, channelVars, Failed, Undecided
<1>3. CASE WriteBatch
  <2>1. /\ UNCHANGED <<rxOpen, reply>> /\ worker = "receiving"
        /\ \/ worker' = "receiving"
           \/ worker' = "replying" /\ verdict'.kind = "failed"
    BY <1>3 DEF WriteBatch, Receive, Decide, Failed
  <2>q. QED BY <2>1 DEF LifeInv, Undecided
<1>4. CASE ReceiveError
  BY <1>4 DEF ReceiveError, Receive, Decide, LifeInv, Failed, Undecided
<1>5. CASE FinishWriter
  BY <1>5 DEF FinishWriter, Decide, LifeInv, producerVars, channelVars, Failed, Saved,
              Undecided
<1>6. CASE SendReply
  BY <1>6 DEF SendReply, LifeInv, producerVars, channelVars
<1>7. CASE LeaveWorker
  BY <1>7 DEF LeaveWorker, DropReceiver, LifeInv
<1>8. CASE WorkerPanics
  BY <1>8 DEF WorkerPanics, DropReceiver, LifeInv, Dropped, Undecided
<1>9. CASE Finished \/ UNCHANGED vars
  BY <1>9 DEF Finished, vars, producerVars, channelVars, workerVars, LifeInv
<1>q. QED BY <1>1, <1>2, <1>3, <1>4, <1>5, <1>6, <1>7, <1>8, <1>9 DEF Next, Worker

LEMMA LifeInvariant == Spec => []LifeInv
  BY SaveInvariant, InitLife, NextLife, PTL DEF Spec

(* The future of a save and its worker never wait for each other, for any  *)
(* result and any capacity: a save cannot stand still.                     *)
THEOREM NobodyWaitsInACircle == Spec => []NoWaitCycle
<1>1. SaveInv /\ LifeInv => NoWaitCycle
  <2> SUFFICES ASSUME SaveInv, LifeInv PROVE NoWaitCycle
    OBVIOUS
  <2>1. InFlight \in Nat /\ Capacity \in Nat /\ Capacity > 0
    BY CapacityAssumption
       DEF CapacityAssumption, SaveInv, ProducerInv, ProducerTypeOK, ChannelTypeOK, InFlight
  <2>2. WorkerWaits => pc \notin {"await", "ended"}
    BY DEF WorkerWaits, SaveInv, FutureInv
  <2>3. ASSUME FutureSends, rxOpen, ~HasRoom
        PROVE  worker # "gone" /\ ~WorkerWaits
    BY <2>1, <2>3 DEF HasRoom, WorkerWaits, LifeInv
  <2>4. ASSUME pc = "await", reply = Undecided
        PROVE  worker # "gone"
    BY <2>4 DEF LifeInv
  <2>q. QED BY <2>2, <2>3, <2>4 DEF NoWaitCycle, FutureWaits
<1>q. QED BY <1>1, SaveInvariant, LifeInvariant, PTL

LEMMA StepsAreNat ==
  ASSUME SaveInv
  PROVE  /\ ProducerTypeOK /\ LoopSteps \in Nat /\ FutureSteps \in Nat /\ InFlight \in Nat
         /\ WorkerRank \in Nat /\ StepsLeft \in Nat
<1>1. ProducerTypeOK /\ LoopSteps \in Nat /\ InFlight \in Nat
  BY LoopTypes DEF SaveInv, ProducerInv
<1>2. FutureTail \in Nat /\ WorkerRank \in Nat
  BY DEF SaveInv, SaveType, FutureTail, WorkerRank
<1>q. QED BY <1>1, <1>2 DEF FutureSteps, StepsLeft

StepsNat ==
    LoopSteps \in Nat /\ FutureSteps \in Nat /\ InFlight \in Nat /\ StepsLeft \in Nat

LEMMA StepsNatAlways == Spec => []StepsNat
<1>1. SaveInv => StepsNat
  BY StepsAreNat DEF StepsNat
<1>q. QED BY <1>1, SaveInvariant, PTL

LEMMA FutureRunsDown ==
  ASSUME SaveInv, StepsNat', Future \/ FuturePanics
  PROVE  StepsLeft' < StepsLeft
<1>1. /\ ProducerTypeOK /\ FutureSteps \in Nat /\ InFlight \in Nat /\ WorkerRank \in Nat
      /\ FutureSteps' \in Nat /\ InFlight' \in Nat
  BY StepsAreNat DEF StepsNat
<1>2. worker' = worker
  BY DEF Future, FuturePanics, ForwardError, ReturnsNothingToForward, DropSender, Answer,
         workerVars
<1>3. /\ LoopSteps \in Nat /\ LoopSteps' \in Nat
      /\ FutureSteps = LoopSteps + FutureTail /\ FutureSteps' = LoopSteps' + FutureTail'
  BY StepsAreNat DEF StepsNat, FutureSteps
<1>4. FutureSteps' < FutureSteps /\ InFlight' <= InFlight + 1
  <2>1. CASE ProducerNext
    <3>1. /\ LoopSteps' < LoopSteps /\ InFlight' <= InFlight + 1
          /\ pc \in Running /\ pc' \in Running \union {"returned"}
      BY <2>1, <1>1, LoopRunsDown
    <3>2. FutureTail' = 3 /\ FutureTail = 3
      BY <3>1 DEF FutureTail, Running
    <3>q. QED BY <3>1, <3>2, <1>3, SumRunsDown
  <2>2. CASE ForwardError \/ ReturnsNothingToForward \/ DropSender \/ Answer \/ FuturePanics
    <3>1. /\ UNCHANGED <<total, sentRows, header, taken>>
          /\ \/ pc = "returned" /\ pc' = "drop"
             \/ pc = "drop" /\ pc' = "await"
             \/ pc \in {"await", "loop"} /\ pc' = "ended"
          /\ sent' = sent \/ sent' = Append(sent, Failure("query"))
      BY <2>2 DEF ForwardError, ReturnsNothingToForward, DropSender, Answer, FuturePanics,
                  ProducerPanics, Send, SendRefused, DropSenders, channelVars, callVars
    <3>2. sent \in Seq(Messages) /\ taken \in Nat /\ Len(sent) \in Nat
      BY <1>1, LoopTypes DEF ProducerTypeOK, ChannelTypeOK
    <3>3. Len(sent') <= Len(sent) + 1 /\ Len(sent') \in Nat
      BY <3>1, <3>2
    <3>4. LoopRank' <= LoopRank /\ LoopRank' \in Nat
      BY <3>1 DEF LoopRank
    <3>5. LoopSteps' <= LoopSteps
      BY <3>1, <3>4, <1>1, NoMoreSteps
    <3>6. FutureTail' < FutureTail /\ FutureTail' \in Nat /\ FutureTail \in Nat
      BY <3>1 DEF FutureTail
    <3>7. FutureSteps' < FutureSteps
      BY <3>5, <3>6, <1>3, SumRunsDown
    <3>8. InFlight' <= InFlight + 1
      BY <3>1, <3>2, <3>3 DEF InFlight
    <3>q. QED BY <3>7, <3>8
  <2>q. QED BY <2>1, <2>2 DEF Future
<1>5. WorkerRank' = WorkerRank
  BY <1>2 DEF WorkerRank
<1>6. 2 * FutureSteps' + InFlight' + WorkerRank' < 2 * FutureSteps + InFlight + WorkerRank
  BY <1>1, <1>4, <1>5, SenderRunsDown
<1>q. QED BY <1>6 DEF StepsLeft

LEMMA WorkerRunsDown ==
  ASSUME SaveInv, StepsNat', Worker \/ WorkerPanics
  PROVE  StepsLeft' < StepsLeft
<1>1. /\ FutureSteps \in Nat /\ InFlight \in Nat /\ InFlight' \in Nat
      /\ Len(sent) \in Nat /\ taken \in Nat
  BY StepsAreNat, LoopTypes DEF StepsNat
<1>2. FutureSteps' = FutureSteps
  BY DEF Worker, OpenWriter, WriteBatch, ReceiveError, FinishWriter, SendReply, LeaveWorker,
         WorkerPanics, producerVars, callVars, localVars, FutureSteps, FutureTail, LoopSteps,
         LoopRank
<1>3. /\ WorkerRank \in Nat /\ WorkerRank' \in Nat
      /\ \/ InFlight' = InFlight /\ WorkerRank' < WorkerRank
         \/ InFlight' = InFlight - 1 /\ WorkerRank' <= WorkerRank
  <2>1. CASE OpenWriter \/ FinishWriter \/ SendReply \/ LeaveWorker \/ WorkerPanics
    <3>1. /\ UNCHANGED <<sent, taken>>
          /\ \/ worker = "opening" /\ worker' \in {"receiving", "replying"}
             \/ worker = "receiving" /\ worker' \in {"replying", "gone"}
             \/ worker = "replying" /\ worker' = "leaving"
             \/ worker = "leaving" /\ worker' = "gone"
      BY <2>1 DEF OpenWriter, FinishWriter, SendReply, LeaveWorker, WorkerPanics, Decide,
                  DropReceiver, producerVars, channelVars
    <3>q. QED BY <3>1 DEF InFlight, WorkerRank
  <2>2. CASE WriteBatch \/ ReceiveError
    <3>1. /\ sent' = sent /\ taken' = taken + 1
          /\ worker = "receiving" /\ worker' \in {"receiving", "replying"}
      BY <2>2 DEF WriteBatch, ReceiveError, Receive, Decide
    <3>q. QED BY <3>1, <1>1 DEF InFlight, WorkerRank
  <2>q. QED BY <2>1, <2>2 DEF Worker
<1>4. 2 * FutureSteps' + InFlight' + WorkerRank' < 2 * FutureSteps + InFlight + WorkerRank
  BY <1>1, <1>2, <1>3, ReceiverRunsDown
<1>q. QED BY <1>4 DEF StepsLeft

(* Each step of a save leaves fewer to make, for any result and capacity:  *)
(* nothing is sent, answered or written over and over.                     *)
THEOREM SaveStepsRunOut == Spec => SaveRunsDown
<1>1. SaveInv /\ StepsNat' /\ [Next]_vars => [StepsLeft' \in Nat /\ StepsLeft' < StepsLeft]_vars
  <2>1. StepsNat' => StepsLeft' \in Nat
    BY DEF StepsNat
  <2>2. Finished => UNCHANGED vars
    BY DEF Finished
  <2>q. QED BY <2>1, <2>2, FutureRunsDown, WorkerRunsDown DEF Next
<1>q. QED BY <1>1, SaveInvariant, StepsNatAlways, PTL DEF Spec, SaveRunsDown
=============================================================================
