-------------------------- MODULE QueryStreamProofs -------------------------
(***************************************************************************)
(* What the reader of a queryStream may rely on, for every result, limit,  *)
(* batch size and channel capacity: rows arrive in order and in batches of *)
(* the right shape, a clean end means a complete and recorded result, an   *)
(* error is in the session too, whose count is off by what the channel     *)
(* holds at most.                                                          *)
(***************************************************************************)
EXTENDS QueryStream, BatchProducerProofs

(* The reader has not walked away: it listens, or has seen the last        *)
(* message.  Releasing a stream that ended or failed does not undo that.   *)
Listening == rxOpen \/ reader \in {"ended", "errored"}

(* The last message is an error.                                           *)
Reported == Len(sent) > 0 /\ ~IsBatch(sent[Len(sent)])

ControlInv ==
    /\ pc \in Running \union {"returned", "report", "exit", "ended"}
    /\ txOpen = (pc # "ended")
    /\ pc \in {"returned", "report", "exit"} => outcome \in {"ok", "err"}
    /\ pc = "ended" => outcome \in {"ok", "err", "panic"}
    /\ pc \in {"returned", "report"} => \A i \in 1 .. Len(sent) : IsBatch(sent[i])
    /\ outcome = "panic" => \A i \in 1 .. Len(sent) : IsBatch(sent[i])

(* A function that returned Ok to a reader still there has sent it all.    *)
AllSent ==
    outcome = "ok" /\ Listening =>
        sentRows = WholeResult /\ RowsAt(Len(sent)) = sentRows

(* What the session tells at each point, and that a reader still there is  *)
(* told of every failure.                                                  *)
ViewInv ==
    /\ pc \in Running \union {"returned"} => view = NoView
    /\ outcome = "panic" => view = NoView
    /\ pc \in {"report", "exit", "ended"} /\ outcome = "err" => view.status = "error"
    /\ pc = "report" /\ outcome = "ok" => view = SuccessView(sentRows, FALSE)
    /\ pc \in {"exit", "ended"} /\ outcome = "ok" =>
          \/ view = SuccessView(sentRows, TRUE) /\ ~Reported
          \/ view = SuccessView(sentRows, FALSE) /\ (Listening => Reported)
    /\ pc \in {"exit", "ended"} /\ outcome = "err" => (Listening => Reported)
    /\ Reported => sent[Len(sent)].of = IF outcome = "err" THEN "query" ELSE "record"

ReaderInv ==
    /\ reader \in {"creating", "reading"} =>
          rxOpen /\ \A i \in 1 .. taken : IsBatch(sent[i])
    /\ reader = "ended" =>
          pc = "ended" /\ taken = Len(sent) /\ \A i \in 1 .. taken : IsBatch(sent[i])
    /\ reader = "errored" =>
          pc \in {"exit", "ended"} /\ taken = Len(sent) /\ Reported
    /\ reader \in {"rejected", "cancelled"} => ~rxOpen

StreamType ==
    /\ view \in Views
    /\ reader \in {"creating", "reading", "rejected", "cancelled", "ended", "errored"}

StreamInv ==
    ProducerInv /\ StreamType /\ ControlInv /\ AllSent /\ ViewInv /\ ReaderInv

-----------------------------------------------------------------------------

LEMMA ResolvedArguments ==
  ASSUME NEW a \in LimitArgs, NEW b \in BatchArgs
  PROVE  ResolveQueryLimit(a) \in Nat /\ ResolveStreamBatchSize(b) \in Nat \ {0}
<1>1. ResolveQueryLimit(a) \in Nat
  BY ArgAssumption, ProducerAssumption
     DEF ArgAssumption, ProducerAssumption, ResolveQueryLimit
<1>2. (IF b = None THEN DefaultBatch ELSE b) \in Nat
  BY ArgAssumption, ProducerAssumption DEF ArgAssumption, ProducerAssumption
<1>q. QED BY <1>1, <1>2 DEF ResolveStreamBatchSize

LEMMA InitStreamInv == Init => StreamInv
<1> SUFFICES ASSUME Init PROVE StreamInv
  OBVIOUS
<1>1. ProducerInv
  <2>1. limit \in Nat /\ batchSize \in Nat \ {0}
    BY ResolvedArguments DEF Init
  <2>q. QED BY <2>1, InitProducerInv DEF Init
<1>2. sent = << >> /\ Len(sent) = 0 /\ taken = 0 /\ txOpen = TRUE /\ rxOpen = TRUE
      /\ pc = "open" /\ outcome = "running"
  BY DEF Init, ProducerInit, ChannelInit
<1>3. StreamType
  BY DEF Init, StreamType, Views
<1>4. ControlInv
  BY <1>2 DEF ControlInv, Running
<1>5. AllSent /\ ViewInv /\ ReaderInv
  BY <1>2 DEF Init, AllSent, ViewInv, ReaderInv, Running, Reported
<1>q. QED BY <1>1, <1>3, <1>4, <1>5 DEF StreamInv

-----------------------------------------------------------------------------
(* The task.                                                               *)

LEMMA LoopStep ==
  ASSUME StreamInv, ProducerNext, UNCHANGED <<view, reader>>
  PROVE  StreamInv'
<1>1. CASE \/ OpenSqlx \/ OpenDuckDb \/ OpenClickHouse
           \/ ReadHeaderLine \/ FetchRow \/ FetchFails \/ LeaveLoop
  <2>1. /\ ProducerInv' /\ UNCHANGED <<channelVars, callVars>>
        /\ pc \in Running /\ pc' \in Running \union {"returned"}
        /\ pc' = "returned" => outcome' = "err"
    BY <1>1, QuietStep DEF StreamInv
  <2>2. pc' \in Running => outcome' = "running"
    BY <2>1 DEF ProducerInv, RowsAccounted
  <2>3. \A i \in 1 .. Len(sent) : IsBatch(sent[i])
    BY <2>1 DEF StreamInv, ProducerInv, RowsAccounted
  <2>4. ~Reported /\ UNCHANGED <<Reported, Listening>>
    <3>1. Len(sent) \in Nat
      BY DEF StreamInv, ProducerInv, ProducerTypeOK, ChannelTypeOK
    <3>q. QED BY <2>1, <2>3, <3>1 DEF Reported, Listening, channelVars, IsBatch
  <2>5. ControlInv'
    BY <2>1, <2>2, <2>3 DEF StreamInv, ControlInv, Running, channelVars, IsBatch
  <2>6. AllSent'
    BY <2>1, <2>2 DEF AllSent
  <2>7. ViewInv'
    BY <2>1, <2>2, <2>4 DEF StreamInv, ViewInv, Running
  <2>8. ReaderInv'
    BY <2>1, <2>3, <2>4 DEF StreamInv, ReaderInv, Running, channelVars, IsBatch
  <2>q. QED BY <2>1, <2>5, <2>6, <2>7, <2>8 DEF StreamInv, StreamType
<1>2. CASE SendBatch \/ SendBatchRefused \/ SendFinal \/ SkipFinal
  <2>1. /\ ProducerInv'
        /\ UNCHANGED <<taken, txOpen, rxOpen, callVars>>
        /\ pc \in Running /\ pc' \in {"loop", "returned"}
        /\ pc' = "returned" =>
              /\ outcome' = "ok"
              /\ rxOpen => sentRows' = WholeResult' /\ RowsAt(Len(sent))' = sentRows'
        /\ Len(sent') >= Len(sent)
        /\ \A i \in 1 .. Len(sent) : sent'[i] = sent[i]
        /\ \A i \in 1 .. Len(sent') : IsBatch(sent'[i])
    BY <1>2, SendingStep DEF StreamInv
  <2>2. pc' = "loop" => outcome' = "running"
    BY <2>1 DEF ProducerInv, RowsAccounted, Running
  <2>3. Len(sent) \in Nat /\ Len(sent') \in Nat /\ taken \in 0 .. Len(sent)
    BY <2>1 DEF StreamInv, ProducerInv, ProducerTypeOK, ChannelTypeOK
  <2>4. ~Reported'
    BY <2>1, <2>3 DEF Reported, IsBatch
  <2>5. ControlInv'
    BY <2>1, <2>2 DEF StreamInv, ControlInv, Running, IsBatch
  <2>6. AllSent'
    BY <2>1, <2>2 DEF StreamInv, AllSent, ReaderInv, Listening, Running
  <2>7. ViewInv'
    BY <2>1, <2>2, <2>4 DEF StreamInv, ViewInv, Running
  <2>8. ReaderInv'
    BY <2>1, <2>3 DEF StreamInv, ReaderInv, Running, IsBatch
  <2>q. QED BY <2>1, <2>5, <2>6, <2>7, <2>8 DEF StreamInv, StreamType
<1>q. QED BY <1>1, <1>2 DEF ProducerNext

LEMMA RecordStep ==
  ASSUME StreamInv, RecordSuccess \/ RecordError
  PROVE  StreamInv'
<1>1. /\ UNCHANGED <<channelVars, callVars, columns, header, rows, sentRows, emitted,
                    outcome, reader>>
      /\ pc = "returned" /\ pc' \in {"report", "exit"}
      /\ outcome = "err" => pc' = "report"
      /\ outcome \in {"ok", "err"}
  BY DEF RecordSuccess, RecordError
<1>2. /\ outcome = "err" => view' \in {ErrorView(TRUE), ErrorView(FALSE)}
      /\ outcome = "ok" => view' = SuccessView(sentRows, pc' = "exit")
  BY DEF RecordSuccess, RecordError
<1>3. /\ ProducerInv' /\ RowsAt(Len(sent))' = RowsAt(Len(sent))
      /\ WholeResult' = WholeResult
  BY <1>1, ProducerInvKept
     DEF StreamInv, ProducerInv, ProducerTypeOK, ChannelTypeOK, Running, channelVars
<1>4. ~Reported /\ UNCHANGED <<Reported, Listening>>
  <2>1. Len(sent) \in Nat
    BY DEF StreamInv, ProducerInv, ProducerTypeOK, ChannelTypeOK
  <2>q. QED BY <1>1, <2>1 DEF StreamInv, ControlInv, Reported, Listening, channelVars, IsBatch
<1>5. StreamType'
  <2>1. sentRows \in Nat
    BY ProducerAssumption DEF StreamInv, ProducerInv, ProducerTypeOK, ProducerAssumption
  <2>2. (pc' = "exit") \in BOOLEAN
    OBVIOUS
  <2>3. SuccessView(sentRows, pc' = "exit") \in Views
    BY <2>1, <2>2 DEF Views, SuccessView
  <2>4. ErrorView(TRUE) \in Views /\ ErrorView(FALSE) \in Views
    BY DEF Views, ErrorView
  <2>q. QED BY <1>1, <1>2, <2>3, <2>4 DEF StreamInv, StreamType
<1>6. ControlInv'
  BY <1>1 DEF StreamInv, ControlInv, Running, channelVars, IsBatch
<1>7. AllSent'
  BY <1>1, <1>3, <1>4 DEF StreamInv, AllSent
<1>8. ViewInv'
  <2>1. outcome = "err" => view'.status = "error"
    BY <1>2 DEF ErrorView
  <2>q. QED BY <1>1, <1>2, <1>4, <2>1 DEF ViewInv, Running, SuccessView
<1>9. ReaderInv'
  BY <1>1, <1>4 DEF StreamInv, ReaderInv, channelVars, IsBatch
<1>q. QED BY <1>3, <1>5, <1>6, <1>7, <1>8, <1>9 DEF StreamInv

LEMMA ReportStep ==
  ASSUME StreamInv, ReportFailure
  PROVE  StreamInv'
<1> DEFINE of == IF outcome = "err" THEN "query" ELSE "record"
<1>1. /\ pc = "report" /\ pc' = "exit"
      /\ UNCHANGED <<taken, txOpen, rxOpen, callVars, columns, header, rows, sentRows,
                    emitted, outcome, view, reader>>
  BY DEF ReportFailure, Send, SendRefused, channelVars
<1>2. /\ outcome \in {"ok", "err"} /\ Len(sent) \in Nat /\ taken \in 0 .. Len(sent)
      /\ \A i \in 1 .. Len(sent) : IsBatch(sent[i])
  BY <1>1 DEF StreamInv, ControlInv, ProducerInv, ProducerTypeOK, ChannelTypeOK
<1>3. reader \notin {"ended", "errored"}
  BY <1>1 DEF StreamInv, ReaderInv
<1>4. UNCHANGED Listening
  BY <1>1 DEF Listening
<1>5. CASE Send(Failure(of))
  <2>1. rxOpen /\ of \in {"query", "record"}
    BY <1>5 DEF Send
  <2>2. /\ ChannelTypeOK' /\ Chained'
        /\ Len(sent') = Len(sent) + 1
        /\ \A i \in 1 .. Len(sent) : sent'[i] = sent[i]
        /\ sent'[Len(sent')] = Failure(of)
        /\ RowsAt(Len(sent))' = RowsAt(Len(sent))
    BY <1>2, <1>5, <2>1, SendFailureChained DEF StreamInv, ProducerInv, ProducerTypeOK
  <2>3. ProducerInv' /\ WholeResult' = WholeResult
    BY <1>1, <2>2 DEF StreamInv, ProducerInv, ProducerTypeOK, RowsAccounted, LimitKept,
                      Running, callVars, WholeResult
  <2>4. Reported' /\ sent'[Len(sent')].of = of
    BY <1>2, <2>2 DEF Reported, Failure, IsBatch
  <2>5. ControlInv'
    BY <1>1, <1>2 DEF StreamInv, ControlInv, Running
  <2>6. AllSent'
    BY <1>1, <1>4, <2>2, <2>3 DEF StreamInv, AllSent
  <2>7. ViewInv'
    <3>1. sent'[Len(sent')].of = IF outcome' = "err" THEN "query" ELSE "record"
      BY <1>1, <2>4
    <3>q. QED BY <1>1, <1>2, <2>4, <3>1 DEF StreamInv, ViewInv, Running
  <2>8. ReaderInv'
    BY <1>1, <1>2, <1>3, <2>2 DEF StreamInv, ReaderInv, IsBatch
  <2>q. QED BY <1>1, <2>3, <2>5, <2>6, <2>7, <2>8 DEF StreamInv, StreamType
<1>6. CASE SendRefused
  <2>1. ~rxOpen /\ sent' = sent
    BY <1>6 DEF SendRefused, channelVars
  <2>2. /\ ProducerInv' /\ RowsAt(Len(sent))' = RowsAt(Len(sent))
        /\ WholeResult' = WholeResult
    BY <1>1, <2>1, ProducerInvKept
       DEF StreamInv, ProducerInv, ProducerTypeOK, ChannelTypeOK, Running
  <2>3. ~Listening
    BY <1>3, <2>1 DEF Listening
  <2>4. ~Reported /\ ~Reported'
    BY <1>2, <2>1 DEF Reported, IsBatch
  <2>5. ControlInv'
    BY <1>1, <1>2, <2>1 DEF StreamInv, ControlInv, Running, IsBatch
  <2>6. AllSent' /\ ViewInv'
    BY <1>1, <1>2, <1>4, <2>3, <2>4 DEF StreamInv, AllSent, ViewInv, Running
  <2>7. ReaderInv'
    BY <1>1, <1>3, <2>1 DEF StreamInv, ReaderInv
  <2>q. QED BY <1>1, <2>2, <2>5, <2>6, <2>7 DEF StreamInv, StreamType
<1>q. QED BY <1>5, <1>6 DEF ReportFailure

(* The task ends, in order or by a panic.                                  *)
LEMMA EndStep ==
  ASSUME StreamInv, EndTask \/ TaskPanics
  PROVE  StreamInv'
<1>1. /\ pc' = "ended" /\ txOpen' = FALSE
      /\ UNCHANGED <<sent, taken, rxOpen, callVars, columns, header, sentRows, emitted,
                    view, reader>>
      /\ \/ pc = "exit" /\ UNCHANGED <<rows, outcome>>
         \/ pc = "loop" /\ rows' = 0 /\ outcome' = "panic"
  BY DEF EndTask, TaskPanics, ProducerPanics, DropSenders
<1>2. /\ ProducerInv' /\ RowsAt(Len(sent))' = RowsAt(Len(sent))
      /\ WholeResult' = WholeResult
  <2>1. /\ taken' \in 0 .. Len(sent) /\ taken' >= taken
        /\ txOpen' \in BOOLEAN /\ rxOpen' \in BOOLEAN
        /\ outcome' \in {"running", "ok", "err", "panic"}
    <3>1. taken \in 0 .. Len(sent) /\ Len(sent) \in Nat
      BY DEF StreamInv, ProducerInv, ProducerTypeOK, ChannelTypeOK
    <3>2. /\ txOpen' \in BOOLEAN /\ rxOpen' \in BOOLEAN
          /\ outcome' \in {"running", "ok", "err", "panic"}
      BY <1>1 DEF StreamInv, ProducerInv, ProducerTypeOK, ChannelTypeOK
    <3>3. taken' \in 0 .. Len(sent) /\ taken' >= taken
      BY <1>1, <3>1
    <3>q. QED BY <3>2, <3>3
  <2>q. QED BY <1>1, <2>1, ProducerInvKept DEF StreamInv, Running
<1>3. UNCHANGED <<Reported, Listening>>
  BY <1>1 DEF Reported, Listening
<1>4. pc = "loop" => \A i \in 1 .. Len(sent) : IsBatch(sent[i])
  BY DEF StreamInv, ProducerInv, RowsAccounted, Running
<1>5. pc = "loop" => ~Reported
  <2>1. Len(sent) \in Nat
    BY DEF StreamInv, ProducerInv, ProducerTypeOK, ChannelTypeOK
  <2>q. QED BY <1>4, <2>1 DEF Reported
<1>6. ControlInv'
  BY <1>1, <1>4 DEF StreamInv, ControlInv, Running, IsBatch
<1>7. AllSent'
  BY <1>1, <1>2, <1>3 DEF StreamInv, AllSent
<1>8. ViewInv'
  BY <1>1, <1>3, <1>5 DEF StreamInv, ViewInv, Running
<1>9. ReaderInv'
  BY <1>1, <1>3 DEF StreamInv, ReaderInv, IsBatch
<1>q. QED BY <1>1, <1>2, <1>6, <1>7, <1>8, <1>9 DEF StreamInv, StreamType

-----------------------------------------------------------------------------
(* The reader.                                                             *)

LEMMA ReaderStep ==
  ASSUME StreamInv,
         \/ StreamCreated \/ StreamRejected \/ Pull \/ PullEnd \/ Cancel \/ Release
  PROVE  StreamInv'
<1>1. /\ UNCHANGED <<sent, txOpen, callVars, localVars, view>>
      /\ taken' \in {taken, taken + 1} /\ rxOpen' \in {rxOpen, FALSE}
      /\ Listening' => Listening
      /\ StreamType'
  BY DEF StreamCreated, StreamRejected, Pull, PullEnd, Cancel, Release, Receive, AtEnd,
         DropReceiver, producerVars, channelVars, StreamInv, StreamType, Listening,
         ReaderInv, CanReceive
<1>2. /\ Len(sent) \in Nat /\ taken \in 0 .. Len(sent) /\ rxOpen \in BOOLEAN
      /\ txOpen \in BOOLEAN
  BY DEF StreamInv, ProducerInv, ProducerTypeOK, ChannelTypeOK
<1>3. taken' \in 0 .. Len(sent) /\ taken' >= taken
  BY <1>1, <1>2 DEF StreamCreated, StreamRejected, Pull, PullEnd, Cancel, Release,
     Receive, CanReceive, InFlight, DropReceiver, producerVars, channelVars
<1>4. /\ ProducerInv' /\ RowsAt(Len(sent))' = RowsAt(Len(sent))
      /\ WholeResult' = WholeResult
  BY <1>1, <1>2, <1>3, ProducerInvKept
     DEF StreamInv, ProducerInv, ProducerTypeOK, localVars
<1>5. UNCHANGED Reported
  BY <1>1 DEF Reported
<1>6. ControlInv'
  BY <1>1 DEF StreamInv, ControlInv, localVars, IsBatch
<1>7. AllSent' /\ ViewInv'
  BY <1>1, <1>4, <1>5 DEF StreamInv, AllSent, ViewInv, localVars
<1>8. ReaderInv'
  <2>1. CASE StreamCreated
    BY <2>1 DEF StreamCreated, StreamInv, ReaderInv, producerVars, channelVars, IsBatch
  <2>2. CASE StreamRejected \/ Cancel
    BY <2>2 DEF StreamRejected, Cancel, DropReceiver, ReaderInv
  <2>3. CASE Pull
    <3>1. /\ rxOpen /\ rxOpen' = rxOpen /\ taken' = taken + 1 /\ taken + 1 \in 1 .. Len(sent)
          /\ \A i \in 1 .. taken : IsBatch(sent[i])
      BY <1>2, <2>3 DEF Pull, Receive, CanReceive, InFlight, StreamInv, ReaderInv
    <3>2. CASE IsBatch(sent[taken + 1])
      <4>1. reader' = "reading"
        BY <2>3, <3>2 DEF Pull, NextMessage
      <4>2. \A i \in 1 .. taken' : IsBatch(sent[i])
        BY <1>2, <3>1, <3>2
      <4>q. QED BY <1>1, <3>1, <4>1, <4>2 DEF ReaderInv, IsBatch
    <3>3. CASE ~IsBatch(sent[taken + 1])
      <4>1. reader' = "errored"
        BY <2>3, <3>3 DEF Pull, NextMessage
      <4>2. taken' = Len(sent) /\ Reported
        BY <1>2, <3>1, <3>3 DEF StreamInv, ProducerInv, Chained, Reported
      <4>3. pc \in {"exit", "ended"}
        BY <3>1, <3>3 DEF StreamInv, ProducerInv, RowsAccounted, ControlInv, Running
      <4>q. QED BY <1>1, <1>5, <4>1, <4>2, <4>3 DEF ReaderInv, localVars
    <3>q. QED BY <3>2, <3>3
  <2>4. CASE PullEnd
    <3>1. pc = "ended" /\ taken = Len(sent)
      <4>1. pc = "ended"
        BY <2>4 DEF PullEnd, AtEnd, StreamInv, ControlInv
      <4>2. Len(sent) - taken = 0
        BY <2>4 DEF PullEnd, AtEnd, InFlight
      <4>q. QED BY <1>2, <4>1, <4>2
    <3>q. QED BY <2>4, <3>1
              DEF PullEnd, StreamInv, ReaderInv, producerVars, channelVars, localVars, IsBatch
  <2>5. CASE Release
    BY <1>1, <1>5, <2>5 DEF Release, DropReceiver, StreamInv, ReaderInv, localVars, IsBatch
  <2>q. QED BY <2>1, <2>2, <2>3, <2>4, <2>5
<1>q. QED BY <1>1, <1>4, <1>6, <1>7, <1>8 DEF StreamInv

LEMMA NextStreamInv ==
  ASSUME StreamInv, [Next]_vars
  PROVE  StreamInv'
<1>1. CASE UNCHANGED vars
  <2>1. UNCHANGED <<sent, taken, txOpen, rxOpen, callVars, localVars, view, reader>>
    BY <1>1 DEF vars, producerVars, channelVars
  <2>2. /\ ProducerInv' /\ RowsAt(Len(sent))' = RowsAt(Len(sent))
        /\ WholeResult' = WholeResult
    BY <2>1, ProducerInvKept
       DEF StreamInv, ProducerInv, ProducerTypeOK, ChannelTypeOK, localVars
  <2>3. StreamType' /\ ControlInv' /\ ReaderInv' /\ UNCHANGED <<Reported, Listening>>
    BY <2>1 DEF StreamInv, StreamType, ControlInv, ReaderInv, Reported, Listening,
                localVars, IsBatch
  <2>4. AllSent' /\ ViewInv'
    BY <2>1, <2>2, <2>3 DEF StreamInv, AllSent, ViewInv, localVars
  <2>q. QED BY <2>2, <2>3, <2>4 DEF StreamInv
<1>2. CASE Finished
  BY <1>1, <1>2 DEF Finished
<1>3. CASE Task \/ TaskPanics
  BY <1>3, LoopStep, RecordStep, ReportStep, EndStep DEF Task
<1>4. CASE \/ StreamCreated \/ StreamRejected \/ Pull \/ PullEnd \/ Cancel \/ Release
  BY <1>4, ReaderStep
<1>q. QED BY <1>1, <1>2, <1>3, <1>4 DEF Next

LEMMA StreamInvariant == Spec => []StreamInv
  BY InitStreamInv, NextStreamInv, PTL DEF Spec

-----------------------------------------------------------------------------
(* What follows for the reader.                                            *)

(* Every variable keeps its type.                                          *)
THEOREM StreamTypeOK == Spec => []TypeOK
<1>1. StreamInv => TypeOK
  BY DEF StreamInv, StreamType, ControlInv, ProducerInv, Running, TypeOK
<1>q. QED BY <1>1, StreamInvariant, PTL

(* No row is lost, repeated or reordered between database and reader.      *)
THEOREM RowsInOrder == Spec => []InOrder
<1>1. StreamInv => InOrder
  BY DEF StreamInv, ProducerInv, Chained, RowsAccounted, Running, InOrder
<1>q. QED BY <1>1, StreamInvariant, PTL

(* A stream that ends without an error (of a task that did not panic) gave *)
(* the reader the whole result, which by then is in the session file.      *)
THEOREM CleanEnd == Spec => []CleanEndIsComplete
<1>1. StreamInv => CleanEndIsComplete
  <2> SUFFICES ASSUME StreamInv, reader = "ended", outcome # "panic"
               PROVE  Delivered = WholeResult /\ view = SuccessView(WholeResult, TRUE)
    BY DEF CleanEndIsComplete
  <2>1. pc = "ended" /\ taken = Len(sent) /\ outcome \in {"ok", "err"} /\ Listening
    BY DEF StreamInv, ReaderInv, ControlInv, Listening
  <2>2. ~Reported
    <3>1. Len(sent) \in Nat
      BY DEF StreamInv, ProducerInv, ProducerTypeOK, ChannelTypeOK
    <3>q. QED BY <2>1, <3>1 DEF StreamInv, ReaderInv, Reported
  <2>q. QED BY <2>1, <2>2 DEF StreamInv, ViewInv, AllSent, Delivered
<1>q. QED BY <1>1, StreamInvariant, PTL

(* An error the reader sees is in the session: a failed query as an error, *)
(* a record that could not be written as a success, after all its rows.    *)
THEOREM ErrorSeen == Spec => []ErrorSeenIsRecorded
<1>1. StreamInv => ErrorSeenIsRecorded
  <2> SUFFICES ASSUME StreamInv, reader = "errored"
               PROVE  IF sent[taken].of = "query" THEN view.status = "error"
                      ELSE view = SuccessView(WholeResult, FALSE) /\ Delivered = WholeResult
    BY DEF ErrorSeenIsRecorded
  <2>1. /\ pc \in {"exit", "ended"} /\ taken = Len(sent) /\ Reported /\ Listening
        /\ outcome \in {"ok", "err"}
    <3>1. pc \in {"exit", "ended"} /\ taken = Len(sent) /\ Reported /\ Listening
      BY DEF StreamInv, ReaderInv, Listening
    <3>2. outcome # "panic"
      <4>1. Len(sent) \in Nat
        BY DEF StreamInv, ProducerInv, ProducerTypeOK, ChannelTypeOK
      <4>q. QED BY <3>1, <4>1 DEF StreamInv, ControlInv, Reported
    <3>q. QED BY <3>1, <3>2 DEF StreamInv, ControlInv
  <2>2. CASE outcome = "err"
    BY <2>1, <2>2 DEF StreamInv, ViewInv
  <2>3. CASE outcome = "ok"
    BY <2>1, <2>3 DEF StreamInv, ViewInv, AllSent, Delivered
  <2>q. QED BY <2>1, <2>2, <2>3
<1>q. QED BY <1>1, StreamInvariant, PTL
-----------------------------------------------------------------------------
(* What is in the batches.                                                 *)

(* A function that returned Ok and sent nothing to a reader still there    *)
(* knew of no columns.                                                     *)
NothingUntold == outcome = "ok" /\ Listening /\ Len(sent) = 0 => columns # "meta"

StreamBatches == BatchInv /\ NothingUntold

LEMMA ProducerBatches ==
  ASSUME StreamInv, StreamBatches, ProducerNext, UNCHANGED <<view, reader>>
  PROVE  StreamBatches'
<1> USE DEF StreamBatches
<1>1. CASE \/ OpenSqlx \/ OpenDuckDb \/ OpenClickHouse
           \/ ReadHeaderLine \/ FetchRow \/ FetchFails \/ LeaveLoop
  <2>1. BatchInv'
    BY <1>1, QuietBatches DEF StreamInv
  <2>2. /\ ProducerInv' /\ pc' \in Running \union {"returned"}
        /\ pc' = "returned" => outcome' = "err"
    BY <1>1, QuietStep DEF StreamInv
  <2>3. outcome' # "ok"
    BY <2>2 DEF ProducerInv, RowsAccounted
  <2>q. QED BY <2>1, <2>3 DEF NothingUntold
<1>2. CASE SendBatch \/ SendBatchRefused \/ SendFinal \/ SkipFinal
  <2>1. /\ BatchInv'
        /\ pc' = "returned" /\ rxOpen /\ Len(sent') = 0 => columns # "meta"
    BY <1>2, SendingBatches DEF StreamInv
  <2>2. /\ ProducerInv' /\ rxOpen' = rxOpen
        /\ pc \in Running /\ pc' \in {"loop", "returned"}
    BY <1>2, SendingStep DEF StreamInv
  <2>3. columns' = columns
    BY <1>2 DEF SendBatch, SendBatchRefused, SendFinal, SkipFinal, Return
  <2>4. Listening' => rxOpen
    BY <2>2 DEF StreamInv, ReaderInv, Listening, Running
  <2>5. pc' = "loop" => outcome' # "ok"
    BY <2>2 DEF ProducerInv, RowsAccounted, Running
  <2>q. QED BY <2>1, <2>2, <2>3, <2>4, <2>5 DEF NothingUntold
<1>q. QED BY <1>1, <1>2 DEF ProducerNext

LEMMA AfterBatches ==
  ASSUME StreamInv, StreamBatches,
         RecordSuccess \/ RecordError \/ ReportFailure \/ EndTask \/ TaskPanics
  PROVE  StreamBatches'
<1> USE DEF StreamBatches
<1>1. CASE RecordSuccess \/ RecordError \/ EndTask
  <2>1. /\ UNCHANGED <<sent, rxOpen, callVars, columns, header, rows, sentRows, emitted,
                      outcome, reader>>
        /\ pc # "open" /\ pc' \notin Running
    BY <1>1 DEF RecordSuccess, RecordError, EndTask, DropSenders, channelVars, Running
  <2>2. BatchInv'
    BY <2>1, BatchInvKept DEF StreamInv
  <2>q. QED BY <2>1, <2>2 DEF NothingUntold, Listening
<1>2. CASE TaskPanics
  <2>1. /\ UNCHANGED <<sent, callVars, columns, header, sentRows, emitted>>
        /\ rows' = 0 /\ outcome' = "panic" /\ pc = "loop" /\ pc' \notin Running
    BY <1>2 DEF TaskPanics, ProducerPanics, DropSenders, Running
  <2>2. BatchInv'
    BY <2>1, BatchInvKept DEF StreamInv
  <2>q. QED BY <2>1, <2>2 DEF NothingUntold
<1>3. CASE ReportFailure
  <2> DEFINE of == IF outcome = "err" THEN "query" ELSE "record"
  <2>1. /\ UNCHANGED <<callVars, columns, header, rows, sentRows, emitted, outcome, reader>>
        /\ pc = "report" /\ pc' = "exit" /\ of \in {"query", "record"}
        /\ Send(Failure(of)) \/ SendRefused
    BY <1>3 DEF ReportFailure
  <2>2. /\ \A i \in 1 .. Len(sent) : IsBatch(sent[i])
        /\ Len(sent) \in Nat /\ sent \in Seq(Messages)
    BY <2>1 DEF StreamInv, ControlInv, ProducerInv, ProducerTypeOK, ChannelTypeOK
  <2> HIDE DEF of
  <2>3. CASE Send(Failure(of))
    <3>1. BatchInv'
      BY <2>1, <2>2, <2>3, FailureBatches DEF StreamInv, Running
    <3>2. Len(sent') # 0
      BY <2>2, <2>3 DEF Send
    <3>q. QED BY <3>1, <3>2 DEF NothingUntold
  <2>4. CASE SendRefused
    <3>1. sent' = sent /\ rxOpen' = rxOpen
      BY <2>4 DEF SendRefused, channelVars
    <3>2. BatchInv'
      BY <2>1, <3>1, BatchInvKept DEF StreamInv, Running
    <3>q. QED BY <2>1, <3>1, <3>2 DEF NothingUntold, Listening
  <2>q. QED BY <2>1, <2>3, <2>4
<1>q. QED BY <1>1, <1>2, <1>3

LEMMA NextStreamBatches ==
  ASSUME StreamInv, StreamBatches, [Next]_vars
  PROVE  StreamBatches'
<1>1. CASE Task \/ TaskPanics
  BY <1>1, ProducerBatches, AfterBatches DEF Task
<1>2. CASE \/ StreamCreated \/ StreamRejected \/ Pull \/ PullEnd \/ Cancel \/ Release
           \/ Finished \/ UNCHANGED vars
  <2>1. /\ UNCHANGED <<sent, callVars, localVars>>
        /\ rxOpen' => rxOpen
    BY <1>2 DEF StreamCreated, StreamRejected, Pull, PullEnd, Cancel, Release, Finished,
       vars, Receive, AtEnd, DropReceiver, producerVars, channelVars
  <2>2. UNCHANGED <<sent, callVars, columns, header, rows, sentRows, emitted, pc, outcome>>
    BY <2>1 DEF localVars
  <2>3. BatchInv'
    BY <2>2, BatchInvKept DEF StreamInv, StreamBatches
  <2>4. Listening' => Listening
    BY <1>2 DEF StreamCreated, StreamRejected, Pull, PullEnd, Cancel, Release, Finished,
       vars, Receive, AtEnd, DropReceiver, producerVars, channelVars, StreamInv, Listening,
       ReaderInv
  <2>5. NothingUntold'
    BY <2>2, <2>4 DEF StreamBatches, NothingUntold
  <2>q. QED BY <2>3, <2>5 DEF StreamBatches
<1>q. QED BY <1>1, <1>2 DEF Next

LEMMA StreamBatchesInvariant == Spec => [](StreamInv /\ StreamBatches)
<1>1. Init => StreamBatches
  <2> SUFFICES ASSUME Init PROVE StreamBatches
    OBVIOUS
  <2>1. limit \in Nat /\ batchSize \in Nat \ {0}
    BY ResolvedArguments DEF Init
  <2>2. BatchInv
    BY <2>1, InitBatchInv DEF Init
  <2>q. QED BY <2>2 DEF StreamBatches, NothingUntold, Init, ProducerInit
<1>q. QED BY <1>1, NextStreamBatches, InitStreamInv, NextStreamInv, PTL DEF Spec

(* Every batch but the last is full, has the columns of the result, and is *)
(* empty only to tell them.                                                *)
THEOREM BatchesWellShaped == Spec => []BatchShape
<1>1. StreamBatches => BatchShape
  BY DEF StreamBatches, BatchInv, Shaped, WellShaped, BatchShape
<1>q. QED BY <1>1, StreamBatchesInvariant, PTL

(* A stream that ends without a single batch has neither rows nor, as far  *)
(* as anybody could tell, columns.                                         *)
THEOREM SilenceIsEmpty == Spec => []SilentStream
<1>1. StreamInv /\ StreamBatches => SilentStream
  <2> SUFFICES ASSUME StreamInv, StreamBatches,
                      reader = "ended", outcome # "panic", sent = << >>
               PROVE  /\ WholeResult = 0
                      /\ schema = "meta" => columns = "none" /\ driver # "duckdb"
                      /\ driver = "clickhouse" => header < 2 /\ (limit = 0 => header = 0)
    BY DEF SilentStream
  <2>1. /\ pc = "ended" /\ Listening /\ outcome \in {"ok", "err"} /\ Len(sent) = 0
        /\ ~Reported
    BY DEF StreamInv, ReaderInv, ControlInv, Listening, Reported
  <2>2. outcome = "ok"
    BY <2>1 DEF StreamInv, ViewInv
  <2>3. WholeResult = 0
    <3>1. RowsAt(Len(sent)) = WholeResult
      BY <2>1, <2>2 DEF StreamInv, AllSent
    <3>q. QED BY <2>1, <3>1 DEF RowsAt
  <2>4. schema = "meta" => columns = "none" /\ driver # "duckdb"
    <3>1. columns # "meta"
      BY <2>1, <2>2 DEF StreamBatches, NothingUntold
    <3>q. QED BY <2>1, <2>2, <3>1 DEF StreamBatches, BatchInv, Packed, Learned
  <2>5. driver = "clickhouse" => header < 2 /\ (limit = 0 => header = 0)
    BY <2>4 DEF StreamBatches, BatchInv, Learned, StreamInv, ProducerInv, ProducerTypeOK
  <2>q. QED BY <2>3, <2>4, <2>5
<1>q. QED BY <1>1, StreamBatchesInvariant, PTL

(* The session never counts fewer rows than the reader got, and more only  *)
(* by the batches on the channel and the one the task was holding.         *)
THEOREM CountIsClose == Spec => []CountOvershoot
<1>1. StreamInv /\ StreamBatches => CountOvershoot
  <2> SUFFICES ASSUME StreamInv, StreamBatches, view.status = "success"
               PROVE  /\ Delivered <= view.rows
                      /\ view.rows <= Delivered + (Capacity + 1) * batchSize
                      /\ view.rows <= WholeResult
    BY DEF CountOvershoot
  <2>1. /\ batchSize \in Nat /\ sentRows \in Nat /\ limit \in Nat /\ total \in Nat
        /\ Len(sent) \in Nat /\ \A n \in 0 .. Len(sent) : RowsAt(n) \in Nat
    BY BatchTypes DEF StreamInv
  <2>2. /\ taken \in 0 .. Len(sent) /\ Len(sent) - taken <= Capacity /\ Capacity \in Nat
        /\ sentRows <= total /\ sentRows <= limit
    BY <2>1, CapacityAssumption
       DEF CapacityAssumption, StreamInv, ProducerInv, ProducerTypeOK, ChannelTypeOK,
           InFlight, LimitKept
  <2>3. pc \in {"report", "exit", "ended"} /\ outcome = "ok"
    <3>1. pc \notin Running \union {"returned"} /\ outcome # "panic"
      BY DEF StreamInv, ViewInv, NoView
    <3>2. outcome \in {"ok", "err"} /\ pc \in {"report", "exit", "ended"}
      BY <3>1 DEF StreamInv, ControlInv
    <3>3. outcome # "err"
      BY <3>2 DEF StreamInv, ViewInv
    <3>q. QED BY <3>2, <3>3
  <2>4. view.rows = sentRows
    BY <2>3 DEF StreamInv, ViewInv, SuccessView
  <2>5. Held = batchSize
    BY <2>3 DEF Held, Running
  <2>6. /\ RowsAt(taken) <= sentRows
        /\ sentRows <= RowsAt(taken) + (Len(sent) - taken) * batchSize + batchSize
    BY <2>2, <2>5 DEF StreamBatches, BatchInv, Lagging
  <2>7. /\ (Len(sent) - taken) * batchSize <= Capacity * batchSize
        /\ (Capacity + 1) * batchSize = Capacity * batchSize + batchSize
    <3> DEFINE k == Len(sent) - taken
    <3>1. k \in Nat /\ Capacity - k \in Nat
      BY <2>1, <2>2
    <3> HIDE DEF k
    <3>2. (Capacity - k) * batchSize \in Nat
      BY <2>1, <3>1
    <3>3. Capacity * batchSize = k * batchSize + (Capacity - k) * batchSize
      BY <2>1, <2>2, <3>1
    <3>4. k * batchSize <= Capacity * batchSize
      BY <2>1, <3>1, <3>2, <3>3
    <3>q. QED BY <2>1, <2>2, <3>4 DEF k
  <2> DEFINE flight == (Len(sent) - taken) * batchSize
             full == Capacity * batchSize
  <2>8. flight \in Nat /\ full \in Nat /\ RowsAt(taken) \in Nat
    BY <2>1, <2>2
  <2>9. /\ sentRows <= RowsAt(taken) + flight + batchSize /\ flight <= full
        /\ (Capacity + 1) * batchSize = full + batchSize
    BY <2>6, <2>7
  <2>10. sentRows <= WholeResult
    BY <2>1, <2>2 DEF WholeResult
  <2> HIDE DEF flight, full
  <2>q. QED BY <2>1, <2>4, <2>6, <2>8, <2>9, <2>10 DEF Delivered
<1>q. QED BY <1>1, StreamBatchesInvariant, PTL

-----------------------------------------------------------------------------
(* Who waits for whom, and for how long.                                   *)

(* The task stands still only for a reader that may still read, and the    *)
(* reader only for a task at work, for any capacity.                       *)
THEOREM TaskWaitsForReader == Spec => []StandsOnlyForReader
<1>1. StreamInv => StandsOnlyForReader
  <2> SUFFICES ASSUME StreamInv PROVE StandsOnlyForReader
    OBVIOUS
  <2>1. reader \in {"creating", "reading", "rejected", "cancelled", "ended", "errored"}
    BY DEF StreamInv, StreamType
  <2>2. TaskWaits => pc \in {"send", "report", "final"} /\ rxOpen
    BY DEF TaskWaits, TaskSends
  <2>3. TaskWaits => reader \in {"creating", "reading"}
    BY <2>1, <2>2 DEF StreamInv, ReaderInv
  <2>4. ReaderWaits => pc # "ended"
    BY DEF ReaderWaits, StreamInv, ControlInv
  <2>5. ReaderWaits => ~TaskWaits
    BY CapacityAssumption DEF CapacityAssumption, ReaderWaits, TaskWaits, HasRoom
  <2>q. QED BY <2>3, <2>4, <2>5 DEF StandsOnlyForReader
<1>q. QED BY <1>1, StreamInvariant, PTL

StepsNat ==
    /\ LoopSteps \in Nat /\ TaskTail \in Nat /\ TaskSteps \in Nat
    /\ InFlight \in Nat /\ ReaderSteps \in Nat /\ StreamStepsLeft \in Nat

LEMMA StepsAreNat == StreamInv => StepsNat
<1> SUFFICES ASSUME StreamInv PROVE StepsNat
  OBVIOUS
<1>1. LoopSteps \in Nat /\ InFlight \in Nat
  BY LoopTypes DEF StreamInv, ProducerInv
<1>2. TaskTail \in Nat
  BY DEF TaskTail
<1>3. ReaderSteps \in Nat
  BY DEF ReaderSteps
<1>4. TaskSteps \in Nat
  BY <1>1, <1>2 DEF TaskSteps
<1>q. QED BY <1>1, <1>2, <1>3, <1>4 DEF StepsNat, StreamStepsLeft

LEMMA StepsNatAlways == Spec => []StepsNat
  BY StepsAreNat, StreamInvariant, PTL

(* What a step of the task costs; the reader stays as it is.               *)
LEMMA TaskRunsDown ==
  ASSUME StreamInv, StepsNat', Task \/ TaskPanics
  PROVE  StreamStepsLeft' < StreamStepsLeft
<1>1. StepsNat /\ ProducerTypeOK
  BY StepsAreNat DEF StreamInv, ProducerInv
<1>2. TaskSteps = LoopSteps + TaskTail /\ TaskSteps' = LoopSteps' + TaskTail'
  BY DEF TaskSteps
<1>3. UNCHANGED <<reader, rxOpen>>
  <2>1. CASE ProducerNext /\ UNCHANGED <<view, reader>>
    BY <2>1, <1>1, LoopRunsDown
  <2>2. CASE RecordSuccess \/ RecordError \/ ReportFailure \/ EndTask \/ TaskPanics
    BY <2>2 DEF RecordSuccess, RecordError, ReportFailure, EndTask, TaskPanics, ProducerPanics,
                Send, SendRefused, DropSenders, channelVars
  <2>q. QED BY <2>1, <2>2 DEF Task
<1>4. TaskSteps' < TaskSteps /\ InFlight' <= InFlight + 1
  <2>1. CASE ProducerNext
    <3>1. /\ LoopSteps' < LoopSteps /\ InFlight' <= InFlight + 1
          /\ pc \in Running /\ pc' \in Running \union {"returned"}
      BY <2>1, <1>1, LoopRunsDown
    <3>2. TaskTail' = 3 /\ TaskTail = 3
      BY <3>1 DEF TaskTail, Running
    <3>q. QED BY <3>1, <3>2, <1>1, <1>2, SumRunsDown DEF StepsNat
  <2>2. CASE RecordSuccess \/ RecordError \/ ReportFailure \/ EndTask \/ TaskPanics
    <3>1. /\ UNCHANGED <<total, sentRows, header, taken>>
          /\ \/ pc = "returned" /\ pc' \in {"report", "exit"}
             \/ pc = "report" /\ pc' = "exit"
             \/ pc \in {"exit", "loop"} /\ pc' = "ended"
          /\ sent' = sent \/ \E of \in {"query", "record"} : sent' = Append(sent, Failure(of))
      BY <2>2 DEF RecordSuccess, RecordError, ReportFailure, EndTask, TaskPanics,
                  ProducerPanics, Send, SendRefused, DropSenders, channelVars, callVars
    <3>2. sent \in Seq(Messages) /\ taken \in Nat /\ Len(sent) \in Nat
      BY <1>1, LoopTypes DEF ProducerTypeOK, ChannelTypeOK
    <3>3. Len(sent') <= Len(sent) + 1 /\ Len(sent') \in Nat
      BY <3>1, <3>2
    <3>4. LoopRank' <= LoopRank /\ LoopRank' \in Nat
      BY <3>1 DEF LoopRank
    <3>5. LoopSteps' <= LoopSteps
      BY <3>1, <3>4, <1>1, NoMoreSteps
    <3>6. TaskTail' < TaskTail
      BY <3>1 DEF TaskTail
    <3>7. TaskSteps' < TaskSteps
      BY <3>5, <3>6, <1>1, <1>2, SumRunsDown DEF StepsNat
    <3>8. InFlight' <= InFlight + 1
      BY <3>1, <3>2, <3>3 DEF InFlight
    <3>q. QED BY <3>7, <3>8
  <2>q. QED BY <2>1, <2>2 DEF Task
<1>5. ReaderSteps' = ReaderSteps
  BY <1>3 DEF ReaderSteps
<1>6. 2 * TaskSteps' + InFlight' + ReaderSteps' < 2 * TaskSteps + InFlight + ReaderSteps
  BY <1>1, <1>4, <1>5, SenderRunsDown DEF StepsNat
<1>q. QED BY <1>6 DEF StreamStepsLeft

(* The reader takes a message, or comes closer to letting go.              *)
LEMMA ReaderRunsDown ==
  ASSUME StreamInv, StepsNat',
         StreamCreated \/ StreamRejected \/ Pull \/ PullEnd \/ Cancel \/ Release
  PROVE  StreamStepsLeft' < StreamStepsLeft
<1>1. StepsNat /\ taken \in Nat /\ Len(sent) \in Nat
  BY StepsAreNat, LoopTypes DEF StreamInv, ProducerInv
<1>2. TaskSteps' = TaskSteps
  BY DEF StreamCreated, StreamRejected, Pull, PullEnd, Cancel, Release, producerVars, callVars,
         localVars, TaskSteps, TaskTail, LoopSteps, LoopRank
<1>3. \/ InFlight' = InFlight /\ ReaderSteps' < ReaderSteps
      \/ InFlight' = InFlight - 1 /\ ReaderSteps' <= ReaderSteps
  <2>1. CASE StreamCreated \/ StreamRejected \/ PullEnd \/ Cancel \/ Release
    <3>1. /\ UNCHANGED <<sent, taken>>
          /\ \/ reader = "creating" /\ reader' = "reading" /\ rxOpen' = rxOpen
             \/ reader = "creating" /\ reader' = "rejected" /\ rxOpen' = FALSE
             \/ reader = "reading" /\ reader' = "ended" /\ rxOpen' = rxOpen
             \/ reader = "reading" /\ reader' = "cancelled" /\ rxOpen' = FALSE
             \/ reader' = reader /\ rxOpen /\ ~rxOpen'
      BY <2>1 DEF StreamCreated, StreamRejected, PullEnd, Cancel, Release, DropReceiver,
                  producerVars, channelVars
    <3>2. ReaderSteps' < ReaderSteps
      BY <3>1 DEF ReaderSteps
    <3>q. QED BY <3>1, <3>2 DEF InFlight
  <2>2. CASE Pull
    <3>1. /\ sent' = sent /\ taken' = taken + 1 /\ rxOpen' = rxOpen
          /\ reader = "reading" /\ reader' \in {"reading", "errored"}
      BY <2>2 DEF Pull, Receive
    <3>2. ReaderSteps' <= ReaderSteps
      BY <3>1 DEF ReaderSteps
    <3>3. InFlight' = InFlight - 1
      BY <3>1, <1>1 DEF InFlight
    <3>q. QED BY <3>2, <3>3
  <2>q. QED BY <2>1, <2>2
<1>4. 2 * TaskSteps' + InFlight' + ReaderSteps' < 2 * TaskSteps + InFlight + ReaderSteps
  BY <1>1, <1>2, <1>3, ReceiverRunsDown DEF StepsNat
<1>q. QED BY <1>4 DEF StreamStepsLeft

(* Each step of a stream leaves fewer to make, for any result, limit,      *)
(* batch size and capacity, whatever task and reader do.                   *)
THEOREM StreamStepsRunOut == Spec => StreamRunsDown
<1>1. StreamInv /\ StepsNat' /\ [Next]_vars
        => [StreamStepsLeft' \in Nat /\ StreamStepsLeft' < StreamStepsLeft]_vars
  <2>1. StepsNat' => StreamStepsLeft' \in Nat
    BY DEF StepsNat
  <2>2. Finished => UNCHANGED vars
    BY DEF Finished
  <2>q. QED BY <2>1, <2>2, TaskRunsDown, ReaderRunsDown DEF Next
<1>q. QED BY <1>1, StreamInvariant, StepsNatAlways, PTL DEF Spec, StreamRunsDown

-----------------------------------------------------------------------------
(* A queryStream is a RowStream.                                           *)

Bounded == Delivered \in Nat /\ Delivered <= WholeResult

LEMMA BoundedAlways == Spec => []Bounded
<1>1. StreamInv /\ StreamBatches => Bounded
  <2> SUFFICES ASSUME StreamInv, StreamBatches PROVE Bounded
    OBVIOUS
  <2>1. /\ taken \in 0 .. Len(sent) /\ RowsAt(taken) \in Nat
        /\ sentRows \in Nat /\ limit \in Nat /\ total \in Nat
    BY BatchTypes DEF StreamInv, ProducerInv, ProducerTypeOK, ChannelTypeOK
  <2>2. RowsAt(taken) <= sentRows /\ sentRows <= total /\ sentRows <= limit
    BY <2>1 DEF StreamBatches, BatchInv, Lagging, StreamInv, ProducerInv, ProducerTypeOK,
                LimitKept
  <2>q. QED BY <2>1, <2>2 DEF Bounded, Delivered, WholeResult
<1>q. QED BY <1>1, StreamBatchesInvariant, PTL

LEMMA WholeNat == StreamInv => WholeResult \in Nat
  BY ProducerAssumption DEF ProducerAssumption, StreamInv, ProducerInv, ProducerTypeOK,
                            WholeResult

(* What the reader has does not change with what is sent after it.         *)
LEMMA DeliveredStays ==
  ASSUME StreamInv, taken' = taken,
         sent' = sent \/ \E m \in Messages : sent' = Append(sent, m)
  PROVE  Delivered' = Delivered
<1>1. sent \in Seq(Messages) /\ Len(sent) \in Nat /\ taken \in 0 .. Len(sent)
  BY DEF StreamInv, ProducerInv, ProducerTypeOK, ChannelTypeOK
<1>2. \A i \in 1 .. Len(sent) : sent'[i] = sent[i]
  BY <1>1
<1>3. /\ taken # 0 => sent'[taken] = sent[taken]
      /\ taken # 0 /\ taken # 1 => sent'[taken - 1] = sent[taken - 1]
  BY <1>1, <1>2
<1>q. QED BY <1>3 DEF Delivered, RowsAt, IsBatch

(* The task delivers nothing itself; it records, or breaks, once.          *)
LEMMA TaskPromise ==
  ASSUME StreamInv, Task \/ TaskPanics
  PROVE  Promise!Next \/ UNCHANGED Promise!streamVars
<1>1. view \in Views /\ WholeResult' = WholeResult
  <2>1. callVars' = callVars
    BY LoopKeepsCall
       DEF Task, TaskPanics, RecordSuccess, RecordError, ReportFailure, EndTask, ProducerPanics
  <2>q. QED BY <2>1 DEF StreamInv, StreamType, callVars, WholeResult
<1>2. CASE ProducerNext /\ UNCHANGED <<view, reader>>
  <2>1. /\ taken' = taken /\ pc \in Running /\ outcome' # "panic"
        /\ sent' = sent \/ \E m \in Messages : sent' = Append(sent, m)
    BY <1>2, LoopKeepsTaken DEF StreamInv, ProducerInv
  <2>2. outcome = "running"
    BY <2>1 DEF StreamInv, ProducerInv, RowsAccounted
  <2>3. Delivered' = Delivered
    BY <2>1, DeliveredStays
  <2>q. QED BY <1>1, <1>2, <2>1, <2>2, <2>3
            DEF Promise!streamVars, ReaderState, Recorded, Broken
<1>3. CASE RecordSuccess \/ RecordError
  <2>1. /\ view = NoView /\ outcome \in {"ok", "err"} /\ outcome' = outcome
        /\ UNCHANGED <<sent, taken, reader>>
    BY <1>3 DEF RecordSuccess, RecordError, channelVars, StreamInv, ViewInv
  <2>2. Recorded = "none" /\ Recorded' \in {"success", "unsaved", "error"}
    BY <1>3, <2>1 DEF RecordSuccess, RecordError, SuccessView, ErrorView, NoView, Recorded
  <2>3. Delivered' = Delivered
    BY <2>1, DeliveredStays
  <2>4. UNCHANGED <<ReaderState, Broken>> /\ ~Broken
    BY <2>1 DEF ReaderState, Broken
  <2>5. Promise!Log(Recorded')
    BY <1>1, <2>2, <2>3, <2>4 DEF Promise!Log
  <2>q. QED BY <2>2, <2>5 DEF Promise!Next
<1>4. CASE ReportFailure \/ EndTask
  <2>1. /\ UNCHANGED <<view, reader, outcome, taken>>
        /\ sent' = sent \/ \E m \in Messages : sent' = Append(sent, m)
    BY <1>4 DEF ReportFailure, EndTask, Send, SendRefused, DropSenders, channelVars,
                Failure, Messages, FailureMessages
  <2>2. Delivered' = Delivered
    BY <2>1, DeliveredStays
  <2>q. QED BY <1>1, <2>1, <2>2 DEF Promise!streamVars, ReaderState, Recorded, Broken
<1>5. CASE TaskPanics
  <2>1. /\ UNCHANGED <<view, reader, sent, taken>> /\ pc = "loop" /\ outcome' = "panic"
    BY <1>5 DEF TaskPanics, ProducerPanics, DropSenders
  <2>2. view = NoView /\ outcome = "running"
    BY <2>1 DEF StreamInv, ViewInv, ProducerInv, RowsAccounted, Running
  <2>3. Delivered' = Delivered
    BY <2>1, DeliveredStays
  <2>4. UNCHANGED <<ReaderState, Recorded>> /\ Recorded = "none" /\ ~Broken /\ Broken' = TRUE
    BY <2>1, <2>2 DEF ReaderState, Recorded, NoView, Broken
  <2>5. Promise!Break
    BY <1>1, <2>3, <2>4 DEF Promise!Break
  <2>q. QED BY <2>5 DEF Promise!Next
<1>q. QED BY <1>2, <1>3, <1>4, <1>5 DEF Task

(* The reader is given the next rows, or closes the stream.                *)
LEMMA ReaderPromise ==
  ASSUME StreamInv, Bounded, Bounded', CleanEndIsComplete', ErrorSeenIsRecorded',
         StreamCreated \/ StreamRejected \/ Pull \/ PullEnd \/ Cancel \/ Release
  PROVE  Promise!Next \/ UNCHANGED Promise!streamVars
<1>1. /\ view' = view /\ outcome' = outcome /\ sent' = sent /\ callVars' = callVars
  BY DEF StreamCreated, StreamRejected, Pull, PullEnd, Cancel, Release, Receive, DropReceiver,
         producerVars, channelVars, localVars
<1>2. WholeResult' = WholeResult /\ UNCHANGED <<Recorded, Broken>>
  BY <1>1 DEF callVars, WholeResult, Recorded, Broken
<1>3. CASE StreamCreated \/ Release
  <2>1. taken' = taken /\ ReaderState' = ReaderState
    BY <1>3 DEF StreamCreated, Release, DropReceiver, producerVars, channelVars, ReaderState
  <2>2. Delivered' = Delivered
    BY <1>1, <2>1, DeliveredStays
  <2>q. QED BY <1>2, <2>1, <2>2 DEF Promise!streamVars
<1>4. CASE StreamRejected \/ Cancel
  <2>1. taken' = taken /\ ReaderState = "open" /\ ReaderState' = "left"
    BY <1>4 DEF StreamRejected, Cancel, DropReceiver, ReaderState
  <2>2. Delivered' = Delivered
    BY <1>1, <2>1, DeliveredStays
  <2>3. Promise!CloseAs("left")
    BY <1>2, <2>1, <2>2 DEF Promise!CloseAs
  <2>q. QED BY <2>3 DEF Promise!Next
<1>5. CASE PullEnd
  <2>1. taken' = taken /\ reader' = "ended" /\ ReaderState = "open" /\ ReaderState' = "ended"
    BY <1>5 DEF PullEnd, producerVars, channelVars, ReaderState
  <2>2. Delivered' = Delivered
    BY <1>1, <2>1, DeliveredStays
  <2>3. Broken \/ (Delivered = WholeResult /\ Recorded = "success")
    BY <1>1, <1>2, <2>1, <2>2 DEF CleanEndIsComplete, SuccessView, Broken, Recorded
  <2>4. Promise!CloseAs("ended")
    BY <1>2, <2>1, <2>2, <2>3 DEF Promise!CloseAs
  <2>q. QED BY <2>4 DEF Promise!Next
<1>6. CASE Pull
  <2>1. /\ reader = "reading" /\ taken' = taken + 1 /\ taken + 1 \in 1 .. Len(sent)
        /\ taken \in Nat /\ sent \in Seq(Messages)
    BY <1>6 DEF Pull, Receive, CanReceive, InFlight, StreamInv, ProducerInv, ProducerTypeOK,
                ChannelTypeOK
  <2>2. CASE IsBatch(sent[taken + 1])
    <3>1. reader' = "reading"
      BY <1>6, <2>2 DEF Pull, NextMessage
    <3>2. Delivered' = sent[taken + 1].hi
      BY <1>1, <2>1, <2>2 DEF Delivered, RowsAt, IsBatch
    <3>3. sent[taken + 1].lo = Delivered /\ sent[taken + 1].lo <= sent[taken + 1].hi
      <4>1. sent[taken + 1].lo = RowsAt((taken + 1) - 1)
            /\ sent[taken + 1].lo <= sent[taken + 1].hi
        BY <2>1, <2>2 DEF StreamInv, ProducerInv, Chained
      <4>2. (taken + 1) - 1 = taken
        BY <2>1
      <4>q. QED BY <4>1, <4>2 DEF Delivered
    <3>4. /\ Delivered \in Nat /\ Delivered' \in Nat /\ WholeResult \in Nat
          /\ Delivered <= Delivered' /\ Delivered' <= WholeResult
      <4>1. /\ Delivered \in Nat /\ Delivered' \in Nat /\ WholeResult \in Nat
            /\ Delivered' <= WholeResult
        BY <1>2, WholeNat DEF Bounded
      <4>2. Delivered <= Delivered'
        BY <3>2, <3>3
      <4>q. QED BY <4>1, <4>2
    <3>5. UNCHANGED ReaderState /\ ReaderState = "open"
      BY <2>1, <3>1 DEF ReaderState
    <3>6. CASE Delivered' = Delivered
      BY <1>2, <3>5, <3>6 DEF Promise!streamVars
    <3>7. CASE Delivered' # Delivered
      <4> DEFINE n == Delivered' - Delivered
      <4>1. n \in 1 .. WholeResult /\ Delivered + n = Delivered'
        <5>1. \A a, b, w \in Nat :
                a <= b /\ b <= w /\ b # a => b - a \in 1 .. w /\ a + (b - a) = b
          OBVIOUS
        <5>q. QED BY <3>4, <3>7, <5>1
      <4> HIDE DEF n
      <4>2. Promise!Deliver(n)
        BY <1>2, <3>4, <3>5, <4>1 DEF Promise!Deliver
      <4>q. QED BY <4>1, <4>2 DEF Promise!Next
    <3>q. QED BY <3>6, <3>7
  <2>3. CASE ~IsBatch(sent[taken + 1])
    <3>1. reader' = "errored" /\ ReaderState = "open" /\ ReaderState' = "failed"
      BY <1>6, <2>1, <2>3 DEF Pull, NextMessage, ReaderState
    <3>2. Delivered' = Delivered
      <4>1. taken > 0 => IsBatch(sent[taken])
        BY <2>1 DEF StreamInv, ReaderInv
      <4>q. QED BY <1>1, <2>1, <2>3, <4>1 DEF Delivered, RowsAt, IsBatch
    <3>3. Recorded = "error" \/ (Delivered = WholeResult /\ Recorded = "unsaved")
      <4>1. view.status = "error"
            \/ (view = SuccessView(WholeResult, FALSE) /\ Delivered = WholeResult)
        BY <1>1, <1>2, <3>1, <3>2 DEF ErrorSeenIsRecorded
      <4>q. QED BY <4>1 DEF SuccessView, Recorded
    <3>4. Promise!CloseAs("failed")
      BY <1>2, <3>1, <3>2, <3>3 DEF Promise!CloseAs
    <3>q. QED BY <3>4 DEF Promise!Next
  <2>q. QED BY <2>2, <2>3
<1>q. QED BY <1>3, <1>4, <1>5, <1>6

(* Every queryStream is a RowStream, for any result, limit, batch size and *)
(* capacity: pulling a batch delivers its rows, what the task records is   *)
(* logged, and what ends, fails or leaves the reader closes the stream.    *)
THEOREM StreamKeepsPromise == Spec => ImplementsRowStream
<1>1. Init => Promise!Init
  <2> SUFFICES ASSUME Init PROVE Promise!Init
    OBVIOUS
  <2>1. WholeResult \in Nat
    BY InitStreamInv, WholeNat
  <2>2. Delivered = 0
    BY DEF Init, ProducerInit, ChannelInit, Delivered, RowsAt
  <2>q. QED BY <2>1, <2>2 DEF Init, ProducerInit, NoView, Recorded, ReaderState, Broken,
                              Promise!Init
<1>2. /\ StreamInv /\ Bounded /\ Bounded' /\ CleanEndIsComplete' /\ ErrorSeenIsRecorded'
      /\ [Next]_vars
      => [Promise!Next]_Promise!streamVars
  <2> SUFFICES ASSUME StreamInv, Bounded, Bounded', CleanEndIsComplete', ErrorSeenIsRecorded',
                      [Next]_vars
               PROVE  Promise!Next \/ UNCHANGED Promise!streamVars
    OBVIOUS
  <2>1. CASE UNCHANGED vars
    BY <2>1 DEF vars, producerVars, channelVars, callVars, localVars, Delivered, RowsAt,
                WholeResult, ReaderState, Recorded, Broken, Promise!streamVars
  <2>2. Finished => UNCHANGED vars
    BY DEF Finished
  <2>q. QED BY <2>1, <2>2, TaskPromise, ReaderPromise DEF Next
<1>q. QED BY <1>1, <1>2, StreamInvariant, BoundedAlways, CleanEnd, ErrorSeen, PTL
          DEF Spec, ImplementsRowStream, Promise!Spec
=============================================================================
