---------------------------- MODULE DriverProofs ----------------------------
(***************************************************************************)
(* The two drivers that are not pools of connections.                      *)
(*                                                                         *)
(* The connection of a DuckDbDriver is used by one holder at a time and    *)
(* only while it is open: for any number of streams, batches and calls and *)
(* any channel capacity.                                                   *)
(*                                                                         *)
(* The two parsers of the ClickHouse driver give the rows of the answer or *)
(* an error: for answers of any length, any limit and any line widths.     *)
(***************************************************************************)
EXTENDS DuckDbDriver, ClickHouseParser, SequenceTheorems, TLAPS

-----------------------------------------------------------------------------
(* DuckDB.                                                                 *)

(* A thread that has a batch to send has not sent all of them: what keeps  *)
(* the counter of remaining batches from going below zero.                 *)
BatchInHand == \A s \in Streams : thread[s] = "sending" => left[s] > 0

DriverInv == TypeOK /\ BatchInHand /\ UsedWhileOpen

USE DriverAssumption DEF DriverAssumption

LEMMA InitDriverInv == Init => DriverInv
<1> SUFFICES ASSUME Init PROVE DriverInv
  OBVIOUS
<1>1. TypeOK
  <2>1. left \in [Streams -> 0 .. MaxBatches] /\ queue \in [Streams -> 0 .. Capacity]
    BY DEF Init
  <2>2. asked \in [Streams -> BOOLEAN] /\ rxOpen \in [Streams -> BOOLEAN]
    BY DEF Init
  <2>3. thread \in [Streams -> Threads]
    BY DEF Init, Threads
  <2>4. calls \in 0 .. MaxCalls
    BY DEF Init
  <2>q. QED BY <2>1, <2>2, <2>3, <2>4, Zenon DEF Init, TypeOK
<1>2. BatchInHand /\ UsedWhileOpen
  BY DEF Init, BatchInHand, UsedWhileOpen, Using
<1>q. QED BY <1>1, <1>2 DEF DriverInv

(* The JavaScript thread keeps the invariant.                              *)
LEMMA JsStep ==
  ASSUME DriverInv, CallDriver \/ JsCall
  PROVE  DriverInv'
<1>1. CASE CallDriver
  BY <1>1 DEF CallDriver, DriverInv, TypeOK, BatchInHand, UsedWhileOpen, Using,
              Threads, connVars, streamVars
<1>2. CASE CallLocks
  BY <1>2 DEF CallLocks, CallAdmitted, Usable, DriverInv, TypeOK, BatchInHand,
              UsedWhileOpen, Using, Threads, streamVars
<1>3. CASE CallReturns
  BY <1>3 DEF CallReturns, DriverInv, TypeOK, BatchInHand, UsedWhileOpen, Using,
              Threads, streamVars
<1>q. QED BY <1>1, <1>2, <1>3 DEF JsCall

(* What the JavaScript thread does with a stream keeps it.                 *)
LEMMA ReaderStep ==
  ASSUME DriverInv, NEW s \in Streams,
         QueryStream(s) \/ Ask(s) \/ Cancel(s) \/ Deliver(s)
  PROVE  DriverInv'
<1>1. CASE QueryStream(s)
  BY <1>1 DEF QueryStream, GoTo, DriverInv, TypeOK, BatchInHand, UsedWhileOpen,
              Using, Threads, connVars, jsVars
<1>2. CASE Ask(s)
  BY <1>2 DEF Ask, DriverInv, TypeOK, BatchInHand, UsedWhileOpen, Using, Threads,
              connVars, jsVars
<1>3. CASE Cancel(s)
  BY <1>3 DEF Cancel, DriverInv, TypeOK, BatchInHand, UsedWhileOpen, Using,
              Threads, connVars, jsVars
<1>4. CASE Deliver(s)
  <2>1. TypeOK'
    <3>1. queue' \in [Streams -> 0 .. Capacity]
      BY <1>4 DEF Deliver, DriverInv, TypeOK
    <3>2. asked' \in [Streams -> BOOLEAN] /\ rxOpen' \in [Streams -> BOOLEAN]
      BY <1>4 DEF Deliver, DriverInv, TypeOK
    <3>q. QED BY <1>4, <3>1, <3>2 DEF Deliver, DriverInv, TypeOK, connVars, jsVars
  <2>2. BatchInHand' /\ UsedWhileOpen'
    BY <1>4 DEF Deliver, DriverInv, BatchInHand, UsedWhileOpen, Using, connVars, jsVars
  <2>q. QED BY <2>1, <2>2 DEF DriverInv
<1>q. QED BY <1>1, <1>2, <1>3, <1>4

(* The thread of a stream keeps it: it is the holder while it uses the     *)
(* connection, and it unlocks on every way out.                            *)
LEMMA ThreadStep ==
  ASSUME DriverInv, NEW s \in Streams, Thread(s) \/ ReadPanics(s)
  PROVE  DriverInv'
<1> USE DEF DriverInv, TypeOK, BatchInHand, UsedWhileOpen, Using, Threads,
            GoTo, connVars, jsVars
<1>1. CASE StreamLocks(s)      BY <1>1 DEF StreamLocks, Usable
<1>2. CASE Prepare(s)          BY <1>2 DEF Prepare, ProducerReturns
<1>3. CASE ReadBatch(s)        BY <1>3 DEF ReadBatch, ProducerReturns
<1>4. CASE ReadPanics(s)       BY <1>4 DEF ReadPanics, ProducerReturns
<1>5. CASE SendBatch(s)        BY <1>5 DEF SendBatch, HasRoom
<1>6. CASE SendRefused(s)      BY <1>6 DEF SendRefused, ProducerReturns
<1>7. CASE Record(s)           BY <1>7 DEF Record
<1>8. CASE ReportError(s)      BY <1>8 DEF ReportError, HasRoom
<1>q. QED BY <1>1, <1>2, <1>3, <1>4, <1>5, <1>6, <1>7, <1>8 DEF Thread

LEMMA NextDriverInv ==
  ASSUME DriverInv, [Next]_vars
  PROVE  DriverInv'
<1>1. CASE UNCHANGED vars
  BY <1>1 DEF vars, connVars, jsVars, streamVars, DriverInv, TypeOK, BatchInHand,
              UsedWhileOpen, Using, Threads
<1>2. CASE Finished
  BY <1>1, <1>2 DEF Finished
<1>q. QED BY <1>1, <1>2, JsStep, ReaderStep, ThreadStep DEF Next

LEMMA DriverInvariant == Spec => []DriverInv
  BY InitDriverInv, NextDriverInv, PTL DEF Spec

(* The state of the driver is always of its type.                          *)
THEOREM DriverTypeOK == Spec => []TypeOK
  BY DriverInvariant, PTL DEF DriverInv

(* close never drops the connection under a running statement, and no two  *)
(* calls or streams are inside the connection at once.                     *)
THEOREM ConnectionUsedWhileOpen == Spec => []UsedWhileOpen
  BY DriverInvariant, PTL DEF DriverInv

(* What a thread has still to send fits beside what its channel holds, as  *)
(* long as every result fits its channel.                                  *)
Fitting ==
    \A s \in Streams :
        /\ thread[s] = "unborn" => queue[s] = 0
        /\ thread[s] \in {"locking", "preparing", "reading", "sending"} =>
              left[s] + queue[s] <= Capacity

LEMMA FittingStep ==
  ASSUME DriverInv, Fitting, [Next]_vars, ResultsFit'
  PROVE  Fitting'
<1> USE DEF Fitting, DriverInv, TypeOK, GoTo, connVars, jsVars, streamVars
<1>1. CASE UNCHANGED vars \/ Finished \/ CallDriver \/ JsCall
  BY <1>1 DEF vars, Finished, CallDriver, JsCall, CallLocks, CallReturns
<1>2. ASSUME NEW s \in Streams, QueryStream(s)
      PROVE  Fitting'
  <2>1. left'[s] <= Capacity /\ queue'[s] = 0 /\ left'[s] \in Nat
    BY <1>2 DEF QueryStream, ResultsFit
  <2>q. QED BY <1>2, <2>1 DEF QueryStream
<1>3. ASSUME NEW s \in Streams, Ask(s) \/ Cancel(s) \/ Deliver(s)
      PROVE  Fitting'
  <2>1. /\ UNCHANGED <<thread, left>> /\ queue'[s] \in Nat /\ queue'[s] <= queue[s]
        /\ \A u \in Streams \ {s} : queue'[u] = queue[u]
    BY <1>3 DEF Ask, Cancel, Deliver
  <2>q. QED BY <2>1
<1>4. ASSUME NEW s \in Streams, Thread(s) \/ ReadPanics(s)
      PROVE  Fitting'
  <2>1. CASE StreamLocks(s)  BY <2>1 DEF StreamLocks
  <2>2. CASE Prepare(s)      BY <2>2 DEF Prepare, ProducerReturns
  <2>3. CASE ReadBatch(s)    BY <2>3 DEF ReadBatch, ProducerReturns
  <2>4. CASE ReadPanics(s)   BY <2>4 DEF ReadPanics, ProducerReturns
  <2>5. CASE SendBatch(s)    BY <2>5 DEF SendBatch
  <2>6. CASE SendRefused(s)  BY <2>6 DEF SendRefused, ProducerReturns
  <2>7. CASE Record(s)       BY <2>7 DEF Record
  <2>8. CASE ReportError(s)  BY <2>8 DEF ReportError
  <2>q. QED BY <1>4, <2>1, <2>2, <2>3, <2>4, <2>5, <2>6, <2>7, <2>8 DEF Thread
<1>q. QED BY <1>1, <1>2, <1>3, <1>4 DEF Next

(* As long as every result fits its channel, no thread stands at a full    *)
(* channel with the connection locked.                                     *)
THEOREM FittingNeverStuck == Spec => NeverStuck
<1> DEFINE NoneStuck == \A s \in Streams : ~Stuck(s)
<1>1. Init => Fitting
  BY DEF Init, Fitting
<1>2. DriverInv /\ Fitting => NoneStuck
  <2> SUFFICES ASSUME DriverInv, Fitting, NEW s \in Streams, Stuck(s) PROVE FALSE
    OBVIOUS
  <2>1. left[s] \in Nat /\ queue[s] \in Nat /\ left[s] > 0
    BY DEF DriverInv, TypeOK, BatchInHand, Stuck
  <2>q. QED BY <2>1 DEF Fitting, Stuck, HasRoom
<1>3. DriverInv /\ Fitting /\ [Next]_vars /\ ResultsFit' => Fitting'
  BY FittingStep
<1> HIDE DEF NoneStuck
<1>4. Spec /\ []ResultsFit => []NoneStuck
  BY <1>1, <1>2, <1>3, DriverInvariant, PTL DEF Spec
<1>q. QED BY <1>4, PTL DEF NeverStuck, NoneStuck

(* A poisoned lock is free: the holder that panicked let go of it.         *)
PoisonedUnlocked == poisoned => lock = Nobody

LEMMA PoisonStep ==
  ASSUME DriverInv, PoisonedUnlocked, [Next]_vars
  PROVE  /\ PoisonedUnlocked'
         /\ poisoned => lock' = Nobody /\ open' = open
<1> USE DEF PoisonedUnlocked
<1>1. CASE UNCHANGED vars \/ Finished
  BY <1>1 DEF vars, connVars, Finished
<1>2. CASE CallDriver
  BY <1>2 DEF CallDriver, connVars
<1>3. CASE JsCall
  BY <1>3 DEF JsCall, CallLocks, CallReturns, CallAdmitted, Usable, DriverInv, UsedWhileOpen
<1>4. ASSUME NEW s \in Streams,
             QueryStream(s) \/ Ask(s) \/ Cancel(s) \/ Deliver(s)
      PROVE  UNCHANGED connVars
  BY <1>4 DEF QueryStream, Ask, Cancel, Deliver
<1>5. ASSUME NEW s \in Streams, Thread(s) \/ ReadPanics(s)
      PROVE  /\ PoisonedUnlocked'
             /\ poisoned => lock' = Nobody /\ open' = open
  BY <1>5 DEF Thread, StreamLocks, Usable, Prepare, ReadBatch, ReadPanics, SendBatch,
              SendRefused, Record, ReportError, ProducerReturns, connVars
<1>q. QED BY <1>1, <1>2, <1>3, <1>4, <1>5 DEF Next, connVars

(* One panic under the lock bars everyone from the connection for good,    *)
(* and close from dropping it.                                             *)
THEOREM PoisonIsFinal == Spec => PoisonBarsEveryone
<1>1. Init => PoisonedUnlocked
  BY DEF Init, PoisonedUnlocked
<1>2. DriverInv /\ PoisonedUnlocked /\ [Next]_vars => PoisonedUnlocked'
  BY PoisonStep
<1>3. DriverInv /\ PoisonedUnlocked /\ [Next]_vars
        => [poisoned => lock' = Nobody /\ open' = open]_vars
  BY PoisonStep
<1>q. QED BY <1>1, <1>2, <1>3, DriverInvariant, PTL DEF Spec, PoisonBarsEveryone

-----------------------------------------------------------------------------
(* ClickHouse: the lines an answer gives to a parser.                      *)

USE ParserAssumption DEF ParserAssumption

(* The function Meaningful is defined by: what of the first n lines is not *)
(* blank.  That it is defined, and by one function only, is an invariant.  *)
Collects(u, s) ==
    u = [n \in 0 .. Len(s) |->
            IF n = 0 THEN << >>
            ELSE IF s[n] = Blank THEN u[n - 1] ELSE Append(u[n - 1], s[n])]

Collected == \E u : Collects(u, lines) /\ \A v : Collects(v, lines) => v = u

LEMMA MeaningfulCollected ==
  ASSUME NEW u, Collects(u, lines), \A v : Collects(v, lines) => v = u
  PROVE  Meaningful = u[Len(lines)]
<1> DEFINE w == CHOOSE v : Collects(v, lines)
<1>1. Collects(w, lines)
  OBVIOUS
<1>2. w = u
  BY <1>1
<1>3. Meaningful = w[Len(lines)]
  BY DEF Meaningful, Collects
<1>q. QED BY <1>2, <1>3

LEMMA CollectedAtFirst ==
  ASSUME lines = << >>
  PROVE  Collected /\ Meaningful = << >>
<1> DEFINE z == [n \in 0 .. 0 |-> << >>]
<1>1. Collects(z, lines)
  BY DEF Collects
<1>2. \A v : Collects(v, lines) => v = z
  BY DEF Collects
<1>3. Meaningful = z[0]
  BY <1>1, <1>2, MeaningfulCollected
<1>q. QED BY <1>1, <1>2, <1>3 DEF Collected

(* One line more is one more that counts, unless it is blank.              *)
LEMMA CollectedNext ==
  ASSUME lines \in Seq(Line), Collected, NEW line \in Line, lines' = Append(lines, line)
  PROVE  /\ Collected'
         /\ Meaningful' = IF line = Blank THEN Meaningful ELSE Append(Meaningful, line)
<1>1. PICK u : Collects(u, lines) /\ \A v : Collects(v, lines) => v = u
  BY DEF Collected
<1> DEFINE k == Len(lines)
           last == IF line = Blank THEN u[k] ELSE Append(u[k], line)
           w == [n \in 0 .. k + 1 |-> IF n <= k THEN u[n] ELSE last]
<1>2. /\ k \in Nat /\ Len(lines') = k + 1
      /\ \A n \in 1 .. k : lines'[n] = lines[n]
      /\ lines'[k + 1] = line
  OBVIOUS
<1>3. ASSUME NEW n \in 0 .. k
      PROVE  u[n] = IF n = 0 THEN << >>
                    ELSE IF lines[n] = Blank THEN u[n - 1] ELSE Append(u[n - 1], lines[n])
  BY <1>1, <1>2 DEF Collects
<1> HIDE DEF k
<1>4. Collects(w, lines')
  <2>1. ASSUME NEW n \in 0 .. k + 1
        PROVE  w[n] = IF n = 0 THEN << >>
                      ELSE IF lines'[n] = Blank THEN w[n - 1] ELSE Append(w[n - 1], lines'[n])
    <3>1. CASE n = 0      BY <3>1, <1>2, <1>3
    <3>2. CASE n \in 1 .. k  BY <3>2, <1>2, <1>3
    <3>3. CASE n = k + 1  BY <3>3, <1>2
    <3>q. QED BY <3>1, <3>2, <3>3, <1>2
  <2> HIDE DEF last
  <2>q. QED BY <2>1, <1>2 DEF Collects
<1>5. ASSUME NEW v, Collects(v, lines')
      PROVE  v = w
  <2>1. v = [n \in 0 .. k + 1 |-> v[n]]
    BY <1>5, <1>2 DEF Collects
  <2>2. ASSUME NEW n \in 0 .. k + 1
        PROVE  v[n] = IF n = 0 THEN << >>
                      ELSE IF lines'[n] = Blank THEN v[n - 1] ELSE Append(v[n - 1], lines'[n])
    BY <1>5, <1>2 DEF Collects
  <2> DEFINE x == [n \in 0 .. k |-> v[n]]
  <2>3. Collects(x, lines)
    <3>1. ASSUME NEW n \in 0 .. k
          PROVE  x[n] = IF n = 0 THEN << >>
                        ELSE IF lines[n] = Blank THEN x[n - 1] ELSE Append(x[n - 1], lines[n])
      <4>1. CASE n = 0         BY <4>1, <2>2, <1>2
      <4>2. CASE n \in 1 .. k  BY <4>2, <2>2, <1>2
      <4>q. QED BY <4>1, <4>2, <1>2
    <3>q. QED BY <3>1 DEF Collects, k
  <2>4. x = u
    BY <2>3, <1>1
  <2>5. \A n \in 0 .. k : v[n] = u[n]
    BY <2>4
  <2>6. v[k + 1] = last
    BY <2>2, <2>5, <1>2
  <2> HIDE DEF last
  <2>7. \A n \in 0 .. k + 1 : v[n] = w[n]
    BY <2>5, <2>6, <1>2
  <2>8. w = [n \in 0 .. k + 1 |-> w[n]]
    OBVIOUS
  <2> HIDE DEF w
  <2>q. QED BY <2>1, <2>7, <2>8
<1>6. Collected'
  BY <1>4, <1>5 DEF Collected
<1>7. Meaningful = u[k]
  BY <1>1, MeaningfulCollected DEF k
<1>8. Meaningful' = w[k + 1]
  <2> DEFINE c == CHOOSE v : Collects(v, lines')
  <2>1. c = w
    BY <1>4, <1>5
  <2>2. Meaningful' = c[Len(lines')]
    BY DEF Meaningful, Collects
  <2>q. QED BY <2>1, <2>2, <1>2
<1>9. w[k + 1] = last
  <2> HIDE DEF last
  <2>q. QED BY <1>2
<1>q. QED BY <1>6, <1>7, <1>8, <1>9

(* What a parser needs of the answer.                                      *)
LEMMA NeededType ==
  ASSUME Meaningful \in Seq(Line \ {Blank}), limit \in Nat
  PROVE  /\ Needed \in Seq(Line \ {Blank})
         /\ Len(Needed) = IF Len(Meaningful) < limit + 2 THEN Len(Meaningful) ELSE limit + 2
         /\ \A i \in 1 .. Len(Needed) : Needed[i] = Meaningful[i]
<1> DEFINE k == IF Len(Meaningful) < limit + 2 THEN Len(Meaningful) ELSE limit + 2
<1>1. k \in 0 .. Len(Meaningful)
  OBVIOUS
<1>2. Needed = SubSeq(Meaningful, 1, k)
  BY DEF Needed
<1> HIDE DEF k
<1>3. /\ Needed \in Seq(Line \ {Blank}) /\ Len(Needed) = k
      /\ \A i \in 1 .. k : Needed[i] = Meaningful[i]
  BY <1>1, <1>2
<1>q. QED BY <1>3 DEF k

LEMMA NeededNext ==
  ASSUME Meaningful \in Seq(Line \ {Blank}), limit \in Nat, limit' = limit, ~Enough,
         NEW line \in Line \ {Blank}, Meaningful' = Append(Meaningful, line)
  PROVE  Needed' = Append(Needed, line)
<1> DEFINE n == Len(Meaningful)
<1>1. n < limit + 2
  BY NeededType DEF Enough
<1>2. Needed = SubSeq(Meaningful, 1, n) /\ Needed' = SubSeq(Meaningful', 1, n + 1)
  BY <1>1 DEF Needed
<1>3. SubSeq(Meaningful, 1, n) = Meaningful
  BY SubSeqFull
<1>4. SubSeq(Meaningful', 1, Len(Meaningful')) = Meaningful'
  BY SubSeqFull
<1>q. QED BY <1>2, <1>3, <1>4

-----------------------------------------------------------------------------
(* ClickHouse: one line.                                                   *)

(* WellFormed, of any sequence of lines.                                   *)
GoodLines(n) ==
    \A i \in 1 .. Len(n) :
        IF i <= 2 THEN IsStringArray(n[i]) /\ n[i].width = n[1].width
        ELSE IsValueArray(n[i]) /\ n[i].width = n[1].width

(* What a parser holds after the good lines n: the width of the header     *)
(* lines it has seen, and a row for each line after them.                  *)
HasRead(p, n) ==
    /\ (p.names = None) <=> (Len(n) = 0)
    /\ (p.types = None) <=> (Len(n) <= 1)
    /\ p.names # None => p.names = n[1].width
    /\ p.types # None => p.types = p.names
    /\ Len(p.rows) = (IF Len(n) <= 2 THEN 0 ELSE Len(n) - 2)
    /\ \A i \in 1 .. Len(p.rows) : p.rows[i] = n[i + 2]

LEMMA WidthOfArray ==
  ASSUME NEW line \in Line, IsValueArray(line)
  PROVE  line.width \in Widths /\ line.width # None
<1>1. PICK w \in Widths, s \in BOOLEAN : line = Array(w, s)
  BY DEF Line, IsValueArray, Blank, Bad
<1>q. QED BY <1>1 DEF Array

LEMMA StringsAreValues == \A line : IsStringArray(line) => IsValueArray(line)
  BY DEF IsStringArray, IsValueArray

LEMMA GoodLinesNext ==
  ASSUME NEW n \in Seq(Line), GoodLines(n), NEW line \in Line
  PROVE  GoodLines(Append(n, line)) <=>
            IF Len(n) = 0 THEN IsStringArray(line)
            ELSE /\ line.width = n[1].width
                 /\ IF Len(n) = 1 THEN IsStringArray(line) ELSE IsValueArray(line)
<1> DEFINE m == Append(n, line)
<1>1. /\ Len(n) \in Nat /\ Len(m) = Len(n) + 1
      /\ \A i \in 1 .. Len(n) : m[i] = n[i]
      /\ m[Len(n) + 1] = line
  OBVIOUS
<1> HIDE DEF m
<1>2. CASE Len(n) = 0
  <2>1. GoodLines(m) <=> (IsStringArray(m[1]) /\ m[1].width = m[1].width)
    BY <1>1, <1>2, 1 .. 1 = {1} DEF GoodLines
  <2>q. QED BY <1>1, <1>2, <2>1 DEF m, IsStringArray
<1>3. CASE Len(n) # 0
  <2>1. m[1] = n[1]
    BY <1>1, <1>3
  <2> DEFINE Good(i) == IF i <= 2 THEN IsStringArray(m[i]) /\ m[i].width = m[1].width
                        ELSE IsValueArray(m[i]) /\ m[i].width = m[1].width
  <2>2. \A i \in 1 .. Len(n) : Good(i)
    BY <1>1, <2>1 DEF GoodLines
  <2>3. GoodLines(m) <=> \A i \in 1 .. Len(m) : Good(i)
    BY DEF GoodLines
  <2>4. Good(Len(n) + 1) <=>
          /\ line.width = n[1].width
          /\ IF Len(n) = 1 THEN IsStringArray(line) ELSE IsValueArray(line)
    <3>1. \A k \in Nat : k # 0 => (k + 1 <= 2 <=> k = 1)
      OBVIOUS
    <3>2. Len(n) + 1 <= 2 <=> Len(n) = 1
      BY <1>1, <1>3, <3>1
    <3>q. QED BY <1>1, <2>1, <3>2
  <2> HIDE DEF Good
  <2>5. GoodLines(m) <=> Good(Len(n) + 1)
    BY <1>1, <2>2, <2>3
  <2>q. QED BY <1>3, <2>4, <2>5 DEF m
<1>q. QED BY <1>2, <1>3

(* A line after good ones is taken up when it is good, and ends the        *)
(* parser with an error when it is not.                                    *)
LEMMA LineIngested ==
  ASSUME limit \in Nat, NEW n \in Seq(Line), NEW p \in Parser, NEW line \in Line,
         line # Blank, Len(n) < limit + 2, Reading(p), HasRead(p, n), GoodLines(n)
  PROVE  LET q == IngestLine(p, line)
             m == Append(n, line)
         IN  /\ q \in Parser /\ Len(q.rows) <= limit
             /\ \/ Reading(q) /\ HasRead(q, m) /\ GoodLines(m)
                \/ q.verdict = "err" /\ ~GoodLines(m) /\ q.rows = p.rows
<1> DEFINE q == IngestLine(p, line)
           m == Append(n, line)
<1>1. /\ Len(n) \in Nat /\ Len(m) = Len(n) + 1
      /\ \A i \in 1 .. Len(n) : m[i] = n[i]
      /\ m[Len(n) + 1] = line
  OBVIOUS
<1>2. IsValueArray(line) => line.width \in Widths /\ line.width # None
  BY WidthOfArray
<1>3. IsStringArray(line) => IsValueArray(line)
  BY StringsAreValues
<1>4. /\ p.rows \in Seq(Line) /\ Len(p.rows) \in Nat
      /\ p.names \in Widths \union {None} /\ p.types \in Widths \union {None}
  BY DEF Parser
<1>5. \A r \in Parser : Fail(r) \in Parser /\ Fail(r).verdict = "err" /\ Fail(r).rows = r.rows
  BY DEF Parser, Fail
<1> HIDE DEF q, m
<1> SUFFICES /\ q \in Parser /\ Len(q.rows) <= limit
             /\ \/ Reading(q) /\ HasRead(q, m) /\ GoodLines(m)
                \/ q.verdict = "err" /\ ~GoodLines(m) /\ q.rows = p.rows
  BY DEF q, m
<1>6. CASE Len(n) = 0
  <2>1. q = WithNames(p, line)
    BY <1>6 DEF HasRead, IngestLine, q
  <2>2. GoodLines(m) <=> IsStringArray(line)
    BY <1>6, GoodLinesNext DEF m
  <2>3. CASE IsStringArray(line)
    <3>1. q = [p EXCEPT !.names = line.width]
      BY <2>1, <2>3 DEF WithNames
    <3>2. q \in Parser /\ Reading(q) /\ q.names = line.width /\ q.types = p.types /\ q.rows = p.rows
      BY <3>1, <2>3, <1>2, <1>3 DEF Parser, Reading
    <3>q. QED BY <3>2, <2>2, <2>3, <1>1, <1>2, <1>3, <1>6 DEF HasRead
  <2>4. CASE ~IsStringArray(line)
    BY <2>1, <2>2, <2>4, <1>5, <1>6 DEF WithNames, HasRead
  <2>q. QED BY <2>3, <2>4
<1>7. CASE Len(n) = 1
  <2>1. q = WithTypes(p, line)
    BY <1>7 DEF HasRead, IngestLine, q
  <2>2. GoodLines(m) <=> (line.width = n[1].width /\ IsStringArray(line))
    BY <1>7, GoodLinesNext DEF m
  <2>3. p.names = n[1].width
    BY <1>7 DEF HasRead
  <2>4. CASE IsStringArray(line) /\ line.width = p.names
    <3>1. q = [p EXCEPT !.types = line.width]
      BY <2>1, <2>4 DEF WithTypes
    <3>2. q \in Parser /\ Reading(q) /\ q.types = line.width /\ q.names = p.names /\ q.rows = p.rows
      BY <3>1, <2>4, <1>2, <1>3 DEF Parser, Reading
    <3>q. QED BY <3>2, <2>2, <2>3, <2>4, <1>1, <1>2, <1>3, <1>7 DEF HasRead
  <2>5. CASE ~(IsStringArray(line) /\ line.width = p.names)
    BY <2>1, <2>2, <2>3, <2>5, <1>5, <1>7 DEF WithTypes, HasRead
  <2>q. QED BY <2>4, <2>5
<1>8. CASE Len(n) > 1
  <2>1. Len(p.rows) = Len(n) - 2 /\ Len(p.rows) < limit /\ q = WithRow(p, line)
    <3>1. Len(p.rows) = Len(n) - 2
      <4>1. \A k \in Nat : k > 1 => (IF k <= 2 THEN 0 ELSE k - 2) = k - 2
        OBVIOUS
      <4>q. QED BY <1>8, <1>1, <4>1 DEF HasRead
    <3>2. p.names # None /\ p.types # None
      BY <1>8, <1>1 DEF HasRead
    <3>3. ~(Len(p.rows) >= limit)
      BY <3>1, <1>1, <1>4
    <3>q. QED BY <3>1, <3>2, <3>3, <1>4 DEF IngestLine, q
  <2>2. GoodLines(m) <=> (line.width = n[1].width /\ IsValueArray(line))
    <3>1. \A k \in Nat : k > 1 => k # 0 /\ k # 1
      OBVIOUS
    <3>2. Len(n) # 0 /\ Len(n) # 1
      BY <1>8, <1>1, <3>1
    <3>q. QED BY <3>2, GoodLinesNext DEF m
  <2>3. p.names = n[1].width
    BY <1>8, <1>1 DEF HasRead
  <2>4. CASE IsValueArray(line) /\ line.width = p.names
    <3>1. q = [p EXCEPT !.rows = Append(@, line)]
      BY <2>1, <2>4 DEF WithRow
    <3> DEFINE rows == Append(p.rows, line)
    <3>2. /\ rows \in Seq(Line) /\ Len(rows) = Len(p.rows) + 1
          /\ \A i \in 1 .. Len(p.rows) : rows[i] = p.rows[i]
          /\ rows[Len(p.rows) + 1] = line
      BY <1>4
    <3> HIDE DEF rows
    <3>3. q \in Parser /\ Reading(q) /\ q.types = p.types /\ q.names = p.names /\ q.rows = rows
      BY <3>1, <3>2, <2>4 DEF Parser, Reading, rows
    <3>4. \A i \in 1 .. Len(rows) : rows[i] = m[i + 2]
      <4>1. \A i \in 1 .. Len(p.rows) : rows[i] = n[i + 2] /\ m[i + 2] = n[i + 2]
        BY <3>2, <2>1, <1>1, <1>4 DEF HasRead
      <4>2. rows[Len(p.rows) + 1] = m[Len(p.rows) + 1 + 2]
        BY <3>2, <2>1, <1>1, <1>4
      <4>3. \A k \in Nat : \A i \in 1 .. k + 1 : i \in 1 .. k \/ i = k + 1
        OBVIOUS
      <4>q. QED BY <4>1, <4>2, <4>3, <3>2, <1>4
    <3>5. m[1] = n[1]
      BY <1>1, <1>8
    <3>6. HasRead(q, m)
      BY <3>2, <3>3, <3>4, <3>5, <2>1, <1>1, <1>4, <1>8 DEF HasRead
    <3>q. QED BY <3>2, <3>3, <3>6, <2>1, <2>2, <2>3, <2>4, <1>4
  <2>5. CASE ~(IsValueArray(line) /\ line.width = p.names)
    BY <2>1, <2>2, <2>3, <2>5, <1>5 DEF WithRow
  <2>q. QED BY <2>4, <2>5
<1>9. \A k \in Nat : k = 0 \/ k = 1 \/ k > 1
  OBVIOUS
<1>q. QED BY <1>1, <1>6, <1>7, <1>8, <1>9

(* The parser of query after a line, with the check for the limit; and the *)
(* one of queryStream, which does the same as long as it needs a row.      *)
LEMMA LineTaken ==
  ASSUME limit \in Nat, NEW n \in Seq(Line), NEW p \in Parser, NEW line \in Line,
         Len(p.rows) <= limit, Len(n) < limit + 2, Reading(p), HasRead(p, n), GoodLines(n)
  PROVE  LET q == IngestLine(p, line)
             r == IF Reading(q) /\ IsCompleteForLimit(q) THEN FinishQuery(q) ELSE q
             m == IF line = Blank THEN n ELSE Append(n, line)
         IN  /\ r \in Parser /\ Len(r.rows) <= limit
             /\ \/ Reading(r) /\ HasRead(r, m) /\ GoodLines(m) /\ Len(m) < limit + 2
                \/ r.verdict = "ok" /\ HasRead(r, m) /\ GoodLines(m) /\ Len(m) = limit + 2
                \/ r.verdict = "err" /\ ~GoodLines(m) /\ r.rows = p.rows
             /\ Len(p.rows) < limit =>
                   /\ StreamLine(p, line) = q
                   /\ r = IF Reading(q) /\ LimitReached(q) THEN [q EXCEPT !.verdict = "ok"] ELSE q
<1> DEFINE q == IngestLine(p, line)
           r == IF Reading(q) /\ IsCompleteForLimit(q) THEN FinishQuery(q) ELSE q
           m == IF line = Blank THEN n ELSE Append(n, line)
           Done == [q EXCEPT !.verdict = "ok"]
<1>1. /\ q \in Parser /\ Len(q.rows) <= limit
      /\ m \in Seq(Line) /\ Len(m) \in Nat /\ Len(m) <= limit + 2
      /\ \/ Reading(q) /\ HasRead(q, m) /\ GoodLines(m)
         \/ q.verdict = "err" /\ ~GoodLines(m) /\ q.rows = p.rows
  <2>1. CASE line = Blank
    BY <2>1 DEF IngestLine
  <2>2. CASE line # Blank
    BY <2>2, LineIngested
  <2>q. QED BY <2>1, <2>2
<1>2. Len(p.rows) < limit => StreamLine(p, line) = q
  <2>1. Len(p.rows) \in Nat /\ \A k \in Nat : k < limit => ~(k >= limit)
    BY DEF Parser
  <2>q. QED BY <2>1 DEF StreamLine, IngestLine
<1>3. Done \in Parser /\ Done.verdict = "ok" /\ Done.rows = q.rows
      /\ Done.names = q.names /\ Done.types = q.types
  BY <1>1 DEF Parser
<1>4. q.rows \in Seq(Line) /\ Len(q.rows) \in Nat
  BY <1>1 DEF Parser
<1> HIDE DEF q, m, r, Done
<1> SUFFICES /\ r \in Parser /\ Len(r.rows) <= limit
             /\ \/ Reading(r) /\ HasRead(r, m) /\ GoodLines(m) /\ Len(m) < limit + 2
                \/ r.verdict = "ok" /\ HasRead(r, m) /\ GoodLines(m) /\ Len(m) = limit + 2
                \/ r.verdict = "err" /\ ~GoodLines(m) /\ r.rows = p.rows
             /\ Len(p.rows) < limit =>
                   r = IF Reading(q) /\ LimitReached(q) THEN Done ELSE q
  BY <1>2 DEF q, m, r, Done
<1>5. ASSUME HasRead(q, m)
      PROVE  /\ IsCompleteForLimit(q) <=> Len(m) = limit + 2
             /\ IsCompleteForLimit(q) => FinishQuery(q) = Done
             /\ limit > 0 => (LimitReached(q) <=> IsCompleteForLimit(q))
  <2>1. /\ q.names = None <=> Len(m) = 0
        /\ q.types = None <=> Len(m) <= 1
        /\ Len(q.rows) = IF Len(m) <= 2 THEN 0 ELSE Len(m) - 2
    BY <1>5 DEF HasRead
  <2> DEFINE k == Len(m)
             l == Len(q.rows)
  <2>2. k \in Nat /\ k <= limit + 2
    BY <1>1
  <2>3. IsCompleteForLimit(q) <=> k # 0 /\ k > 1 /\ l >= limit
    BY <2>1, <2>2 DEF IsCompleteForLimit
  <2>4. LimitReached(q) <=> l >= limit
    BY DEF LimitReached
  <2>5. l = IF k <= 2 THEN 0 ELSE k - 2
    BY <2>1
  <2>6. IsCompleteForLimit(q) => FinishQuery(q) = Done
    BY DEF IsCompleteForLimit, FinishQuery, Done
  <2> HIDE DEF k, l
  <2>7. (k # 0 /\ k > 1 /\ l >= limit) <=> k = limit + 2
    BY <2>2, <2>5
  <2>8. limit > 0 => (l >= limit <=> k # 0 /\ k > 1 /\ l >= limit)
    BY <2>2, <2>5
  <2>q. QED BY <2>3, <2>4, <2>6, <2>7, <2>8 DEF k
<1>6. Len(p.rows) < limit => limit > 0
  BY DEF Parser
<1>7. CASE Reading(q) /\ HasRead(q, m) /\ GoodLines(m)
  <2>1. CASE IsCompleteForLimit(q)
    <3>1. r = Done
      BY <1>7, <2>1, <1>5 DEF r
    <3>2. HasRead(Done, m)
      BY <1>3, <1>7 DEF HasRead
    <3>q. QED BY <3>1, <3>2, <1>1, <1>3, <1>5, <1>6, <1>7, <2>1
  <2>2. CASE ~IsCompleteForLimit(q)
    <3>1. r = q
      BY <2>2 DEF r
    <3>2. Len(m) < limit + 2
      BY <1>1, <1>5, <1>7, <2>2
    <3>q. QED BY <3>1, <3>2, <1>1, <1>5, <1>6, <1>7, <2>2
  <2>q. QED BY <2>1, <2>2
<1>8. CASE q.verdict = "err" /\ ~GoodLines(m) /\ q.rows = p.rows
  <2>1. ~Reading(q)
    BY <1>8 DEF Reading
  <2>q. QED BY <2>1, <1>1, <1>8 DEF r
<1>q. QED BY <1>1, <1>7, <1>8

-----------------------------------------------------------------------------
(* ClickHouse: the invariant.                                              *)

(* query has read what it needs so far, or is done with it.                *)
QueryFollows ==
    /\ Reading(query) =>
          body = "open" /\ WellFormed /\ ~Enough /\ HasRead(query, Needed)
    /\ query.verdict = "ok" =>
          /\ WellFormed /\ HasRead(query, Needed) /\ Len(Needed) # 1
          /\ Enough \/ body = "over"
    /\ query.verdict = "err" =>
          /\ \/ ~WellFormed
             \/ body = "broken" /\ ~Enough
             \/ body = "over" /\ Len(Needed) = 1
          /\ \A i \in 1 .. Len(query.rows) : query.rows[i] = Needed[i + 2]

(* The two parsers are in the same state, but for a stream that reads      *)
(* nothing and for half a header.                                          *)
Twins ==
    \/ /\ stream = query
       /\ stream.verdict = "err" => ~WellFormed \/ (body = "broken" /\ ~Enough)
    \/ limit = 0 /\ stream = [Fresh EXCEPT !.verdict = "ok"]
    \/ /\ body = "over" /\ Len(Needed) = 1 /\ WellFormed
       /\ query.verdict = "err"
       /\ stream.verdict = "ok" /\ stream.types = None /\ stream.rows = << >>

ParserInv ==
    /\ ParserTypeOK /\ Collected /\ Meaningful \in Seq(Line \ {Blank})
    /\ QueryFollows /\ Twins

LEMMA WellFormedIsGood == WellFormed <=> GoodLines(Needed)
  BY DEF WellFormed, GoodLines

LEMMA FreshParser == Fresh \in Parser /\ [Fresh EXCEPT !.verdict = "ok"] \in Parser
<1>1. << >> \in Seq(Line)
  OBVIOUS
<1>2. [Fresh EXCEPT !.verdict = "ok"]
        = [names |-> None, types |-> None, rows |-> << >>, verdict |-> "ok"]
  BY DEF Fresh
<1> DEFINE rows == << >>
           Rows == Seq(Line)
<1>3. rows \in Rows
  BY <1>1
<1> HIDE DEF rows, Rows
<1>4. \A v \in {"reading", "ok", "err"} :
        [names |-> None, types |-> None, rows |-> rows, verdict |-> v]
          \in [names : Widths \union {None}, types : Widths \union {None},
              rows : Rows, verdict : {"reading", "ok", "err"}]
  BY <1>3
<1>q. QED BY <1>2, <1>4 DEF Fresh, Parser, rows, Rows

LEMMA InitParserInv == ParserInit => ParserInv
<1> SUFFICES ASSUME ParserInit PROVE ParserInv
  OBVIOUS
<1>1. Collected /\ Meaningful = << >>
  BY CollectedAtFirst DEF ParserInit
<1>2. Meaningful \in Seq(Line \ {Blank}) /\ limit \in Nat /\ Len(Meaningful) = 0
  BY <1>1 DEF ParserInit
<1>3. Len(Needed) = 0 /\ Needed \in Seq(Line \ {Blank})
  BY <1>2, NeededType
<1>4. WellFormed /\ ~Enough
  <2>1. \A k \in Nat : 0 # k + 2
    OBVIOUS
  <2>q. QED BY <2>1, <1>2, <1>3 DEF WellFormed, Enough
<1>5. HasRead(Fresh, Needed)
  BY <1>3 DEF HasRead, Fresh
<1>6. ParserTypeOK
  BY <1>2, FreshParser DEF ParserInit, ParserTypeOK, Fresh
<1>7. QueryFollows /\ Twins
  BY <1>4, <1>5 DEF ParserInit, QueryFollows, Twins, Fresh, Reading
<1>q. QED BY <1>1, <1>2, <1>6, <1>7 DEF ParserInv

(* What the invariant says of the lines while query reads.                 *)
LEMMA WhileReading ==
  ASSUME ParserInv, Reading(query)
  PROVE  /\ limit \in Nat /\ lines \in Seq(Line)
         /\ Needed \in Seq(Line \ {Blank}) /\ Needed \in Seq(Line)
         /\ Len(Needed) \in Nat /\ Len(Needed) < limit + 2
         /\ query \in Parser /\ query.rows \in Seq(Line)
         /\ Len(query.rows) \in Nat /\ Len(query.rows) <= limit
         /\ HasRead(query, Needed) /\ GoodLines(Needed)
<1>1. limit \in Nat /\ lines \in Seq(Line) /\ query \in Parser /\ Len(query.rows) <= limit
  BY DEF ParserInv, ParserTypeOK
<1>2. query.rows \in Seq(Line) /\ Len(query.rows) \in Nat
  BY <1>1 DEF Parser
<1>3. /\ Needed \in Seq(Line \ {Blank}) /\ Needed \in Seq(Line)
      /\ Len(Needed) \in Nat /\ Len(Needed) <= limit + 2
  <2>1. /\ Needed \in Seq(Line \ {Blank})
        /\ Len(Needed) = IF Len(Meaningful) < limit + 2 THEN Len(Meaningful) ELSE limit + 2
    BY <1>1, NeededType DEF ParserInv
  <2>2. Needed \in Seq(Line)
    BY <2>1
  <2>3. Len(Needed) \in Nat /\ Len(Meaningful) \in Nat
    BY <2>1 DEF ParserInv
  <2>q. QED BY <1>1, <2>1, <2>2, <2>3
<1>4. Len(Needed) # limit + 2 /\ HasRead(query, Needed) /\ GoodLines(Needed)
  BY WellFormedIsGood DEF ParserInv, QueryFollows, Enough
<1>q. QED BY <1>1, <1>2, <1>3, <1>4

(* A line while query reads.                                               *)
LEMMA LineWhileReading ==
  ASSUME ParserInv, Reading(query), NEW line \in Line, NextLine(line)
  PROVE  ParserInv'
<1> DEFINE q == IngestLine(query, line)
           r == IF Reading(q) /\ IsCompleteForLimit(q) THEN FinishQuery(q) ELSE q
           m == IF line = Blank THEN Needed ELSE Append(Needed, line)
<1>1. /\ lines' = Append(lines, line) /\ Len(lines) < MaxLines
      /\ limit' = limit /\ body' = body /\ body = "open"
      /\ query' = r
  BY DEF NextLine, QueryReads, Reading
<1>2. /\ Collected'
      /\ Meaningful' = IF line = Blank THEN Meaningful ELSE Append(Meaningful, line)
  BY <1>1, CollectedNext, WhileReading DEF ParserInv
<1>3. Meaningful' \in Seq(Line \ {Blank})
  BY <1>2 DEF ParserInv
<1>4. Needed' = m
  <2>1. CASE line = Blank
    BY <2>1, <1>1, <1>2 DEF Needed
  <2>2. CASE line # Blank
    BY <2>2, <1>1, <1>2, NeededNext, WhileReading DEF ParserInv, QueryFollows
  <2>q. QED BY <2>1, <2>2
<1>5. /\ r \in Parser /\ Len(r.rows) <= limit
      /\ \/ Reading(r) /\ HasRead(r, m) /\ GoodLines(m) /\ Len(m) < limit + 2
         \/ r.verdict = "ok" /\ HasRead(r, m) /\ GoodLines(m) /\ Len(m) = limit + 2
         \/ r.verdict = "err" /\ ~GoodLines(m) /\ r.rows = query.rows
      /\ Len(query.rows) < limit =>
            /\ StreamLine(query, line) = q
            /\ r = IF Reading(q) /\ LimitReached(q) THEN [q EXCEPT !.verdict = "ok"] ELSE q
  BY LineTaken, WhileReading
<1> HIDE DEF q, r, m
<1>6. WellFormed' <=> GoodLines(m)
  BY <1>4, WellFormedIsGood DEF WellFormed, GoodLines
<1>7. Enough' <=> Len(m) = limit + 2
  BY <1>1, <1>4 DEF Enough
<1>8. m \in Seq(Line) /\ Len(m) \in Nat /\ \A i \in 1 .. Len(Needed) : m[i] = Needed[i]
  BY WhileReading DEF m
<1>9. \A i \in 1 .. Len(query.rows) : query.rows[i] = m[i + 2]
  BY <1>8, WhileReading DEF HasRead
<1>10. QueryFollows'
  <2>1. CASE Reading(r) /\ HasRead(r, m) /\ GoodLines(m) /\ Len(m) < limit + 2
    <3>1. Len(m) # limit + 2
      BY <2>1, <1>8, WhileReading
    <3>q. QED BY <2>1, <3>1, <1>1, <1>4, <1>6, <1>7 DEF QueryFollows, Reading
  <2>2. CASE r.verdict = "ok" /\ HasRead(r, m) /\ GoodLines(m) /\ Len(m) = limit + 2
    <3>1. Len(m) # 1
      BY <2>2, WhileReading
    <3>q. QED BY <2>2, <3>1, <1>1, <1>4, <1>6, <1>7 DEF QueryFollows, Reading
  <2>3. CASE r.verdict = "err" /\ ~GoodLines(m) /\ r.rows = query.rows
    BY <2>3, <1>1, <1>4, <1>6, <1>9 DEF QueryFollows, Reading
  <2>q. QED BY <1>5, <2>1, <2>2, <2>3
<1>11. Twins' /\ stream' \in Parser /\ Len(stream'.rows) <= limit
  <2>1. CASE stream = query
    <3>1. Len(query.rows) < limit
      BY <2>1, WhileReading DEF NextLine, LimitReached
    <3>2. stream' = r
      BY <2>1, <3>1, <1>5 DEF NextLine, StreamReads, Reading
    <3>3. r.verdict = "err" => ~GoodLines(m)
      BY <1>5 DEF Reading
    <3>q. QED BY <3>2, <3>3, <1>1, <1>5, <1>6 DEF Twins
  <2>2. CASE limit = 0 /\ stream = [Fresh EXCEPT !.verdict = "ok"]
    <3>1. ~Reading(stream)
      BY <2>2 DEF Reading, Fresh
    <3>q. QED BY <2>2, <3>1, <1>1 DEF NextLine, Twins, ParserInv, ParserTypeOK
  <2>q. QED BY <2>1, <2>2, <1>1 DEF ParserInv, Twins
<1>12. ParserTypeOK'
  <2>1. lines' \in Seq(Line) /\ Len(lines') <= MaxLines
    BY <1>1, WhileReading
  <2>q. QED BY <2>1, <1>1, <1>5, <1>11 DEF ParserInv, ParserTypeOK
<1>q. QED BY <1>2, <1>3, <1>10, <1>11, <1>12 DEF ParserInv

(* The stream reads only while query does.                                 *)
LEMMA StreamReadsWithQuery ==
  ASSUME ParserInv, Reading(stream)
  PROVE  stream = query
  BY DEF ParserInv, Twins, Reading, Fresh

(* What is needed of the answer depends on the lines and the limit only.   *)
LEMMA SameLines ==
  ASSUME UNCHANGED <<limit, lines>>
  PROVE  /\ Needed' = Needed /\ Meaningful' = Meaningful /\ (Collected' <=> Collected)
         /\ (WellFormed' <=> WellFormed) /\ (Enough' <=> Enough)
<1>1. Meaningful' = Meaningful /\ (Collected' <=> Collected)
  BY DEF Meaningful, Collected, Collects
<1>2. Needed' = Needed
  BY <1>1 DEF Needed
<1>q. QED BY <1>1, <1>2 DEF WellFormed, Enough

LEMMA StreamSkipsStep ==
  ASSUME ParserInv, StreamSkips
  PROVE  ParserInv'
<1> DEFINE skipped == [stream EXCEPT !.verdict = "ok"]
<1>1. stream = query /\ Reading(query) /\ lines = << >> /\ LimitReached(stream)
  BY StreamReadsWithQuery DEF StreamSkips, Reading
<1>2. Needed = << >>
  <2>1. Meaningful = << >>
    BY <1>1, CollectedAtFirst
  <2>2. Len(Needed) = 0 /\ Needed \in Seq(Line)
    BY <2>1, <1>1, NeededType, WhileReading DEF ParserInv
  <2>q. QED BY <2>2
<1>3. limit = 0 /\ stream = Fresh
  <2>1. Len(query.rows) = 0 /\ query.names = None /\ query.types = None
    BY <1>1, <1>2, WhileReading DEF HasRead
  <2>2. query.rows = << >>
    BY <2>1, <1>1, WhileReading
  <2>3. limit = 0
    BY <2>1, <1>1, WhileReading DEF LimitReached
  <2>q. QED BY <2>1, <2>2, <2>3, <1>1, WhileReading DEF Parser, Fresh, Reading
<1>4. skipped \in Parser /\ skipped = [Fresh EXCEPT !.verdict = "ok"] /\ skipped.rows = << >>
  BY <1>3, FreshParser DEF Fresh
<1>5. UNCHANGED <<limit, lines, body, query>> /\ stream' = skipped
  BY DEF StreamSkips
<1> HIDE DEF skipped
<1>6. QueryFollows'
  BY <1>5, SameLines DEF ParserInv, QueryFollows, Reading
<1>7. Twins'
  BY <1>3, <1>4, <1>5 DEF Twins
<1>8. ParserTypeOK'
  BY <1>3, <1>4, <1>5 DEF ParserInv, ParserTypeOK
<1>q. QED BY <1>5, <1>6, <1>7, <1>8, SameLines DEF ParserInv

LEMMA EndOfAnswerStep ==
  ASSUME ParserInv, EndOfAnswer
  PROVE  ParserInv'
<1>1. UNCHANGED <<limit, lines>> /\ body = "open" /\ body' = "over"
  BY DEF EndOfAnswer
<1>2. CASE Reading(query)
  <2>1. query' = FinishQuery(query)
    BY <1>2 DEF EndOfAnswer
  <2>2. /\ query.names = None <=> Len(Needed) = 0
        /\ query.types = None <=> Len(Needed) <= 1
    BY <1>2, WhileReading DEF HasRead
  <2>3. WellFormed /\ ~Enough /\ \A i \in 1 .. Len(query.rows) : query.rows[i] = Needed[i + 2]
    BY <1>2, WhileReading DEF ParserInv, QueryFollows, HasRead
  <2> DEFINE done == [query EXCEPT !.verdict = "ok"]
             failed == [query EXCEPT !.verdict = "err"]
  <2>4. /\ done \in Parser /\ done.verdict = "ok" /\ done.rows = query.rows
        /\ done.names = query.names /\ done.types = query.types
        /\ failed \in Parser /\ failed.verdict = "err" /\ failed.rows = query.rows
    BY <1>2, WhileReading DEF Parser
  <2>5. query' = IF (query.names = None) <=> (query.types = None) THEN done ELSE failed
    BY <2>1 DEF FinishQuery, Fail
  <2> HIDE DEF done, failed
  <2>6. HasRead(done, Needed)
    BY <2>4, <1>2, WhileReading DEF HasRead
  <2>7. CASE Len(Needed) = 1
    <3>1. query' = failed
      BY <2>2, <2>5, <2>7
    <3>2. QueryFollows'
      BY <3>1, <2>3, <2>4, <2>7, <1>1, SameLines DEF QueryFollows, Reading
    <3>3. Twins' /\ stream' \in Parser /\ Len(stream'.rows) <= limit
      <4>1. CASE stream = query
        <5>1. stream' = done
          BY <4>1, <1>2 DEF EndOfAnswer, done
        <5>2. query.types = None /\ query.rows = << >>
          BY <2>7, <1>2, WhileReading DEF HasRead
        <5>q. QED BY <5>1, <5>2, <3>1, <2>3, <2>4, <2>7, <1>1, <1>2, WhileReading, SameLines DEF Twins
      <4>2. CASE limit = 0 /\ stream = [Fresh EXCEPT !.verdict = "ok"]
        <5>1. stream' = stream
          BY <4>2 DEF EndOfAnswer, Reading, Fresh
        <5>q. QED BY <5>1, <4>2, <1>1 DEF Twins, ParserInv, ParserTypeOK
      <4>q. QED BY <4>1, <4>2, <1>1 DEF ParserInv, Twins
    <3>q. QED BY <3>1, <3>2, <3>3, <2>4, <1>1, <1>2, WhileReading, SameLines DEF ParserInv, ParserTypeOK
  <2>8. CASE Len(Needed) # 1
    <3>1. query' = done
      <4>1. \A k \in Nat : k # 1 => (k = 0 <=> k <= 1)
        OBVIOUS
      <4>q. QED BY <4>1, <2>2, <2>5, <2>8, <1>2, WhileReading
    <3>2. QueryFollows'
      BY <3>1, <2>3, <2>4, <2>6, <2>8, <1>1, SameLines DEF QueryFollows, Reading
    <3>3. Twins' /\ stream' \in Parser /\ Len(stream'.rows) <= limit
      <4>1. CASE stream = query
        <5>1. stream' = done
          BY <4>1, <1>2 DEF EndOfAnswer, done
        <5>q. QED BY <5>1, <3>1, <2>4, <1>2, WhileReading DEF Twins
      <4>2. CASE limit = 0 /\ stream = [Fresh EXCEPT !.verdict = "ok"]
        <5>1. stream' = stream
          BY <4>2 DEF EndOfAnswer, Reading, Fresh
        <5>q. QED BY <5>1, <4>2, <1>1 DEF Twins, ParserInv, ParserTypeOK
      <4>q. QED BY <4>1, <4>2, <1>1 DEF ParserInv, Twins
    <3>q. QED BY <3>1, <3>2, <3>3, <2>4, <1>1, <1>2, WhileReading, SameLines DEF ParserInv, ParserTypeOK
  <2>q. QED BY <2>7, <2>8
<1>3. CASE ~Reading(query)
  <2>1. ~Reading(stream)
    BY <1>3, StreamReadsWithQuery
  <2>2. UNCHANGED <<query, stream>>
    BY <1>3, <2>1 DEF EndOfAnswer
  <2>q. QED BY <2>2, <1>1, <1>3, SameLines
            DEF ParserInv, ParserTypeOK, QueryFollows, Twins, Reading
<1>q. QED BY <1>2, <1>3

LEMMA AnswerBreaksStep ==
  ASSUME ParserInv, AnswerBreaks
  PROVE  ParserInv'
<1>1. UNCHANGED <<limit, lines>> /\ body = "open" /\ body' = "broken"
  BY DEF AnswerBreaks
<1>2. CASE Reading(query)
  <2> DEFINE failed == Fail(query)
  <2>1. failed \in Parser /\ failed.verdict = "err" /\ failed.rows = query.rows
    BY <1>2, WhileReading DEF Parser, Fail
  <2>2. ~Enough /\ \A i \in 1 .. Len(query.rows) : query.rows[i] = Needed[i + 2]
    BY <1>2, WhileReading DEF ParserInv, QueryFollows, HasRead
  <2>3. query' = failed
    BY <1>2 DEF AnswerBreaks
  <2>4. stream = query => stream' = failed
    BY <1>2 DEF AnswerBreaks
  <2>5. ~Reading(stream) => stream' = stream
    BY DEF AnswerBreaks
  <2> HIDE DEF failed
  <2>6. QueryFollows'
    BY <2>1, <2>2, <2>3, <1>1, SameLines DEF QueryFollows, Reading
  <2>7. Twins' /\ stream' \in Parser /\ Len(stream'.rows) <= limit
    <3>1. CASE stream = query
      BY <3>1, <2>1, <2>2, <2>3, <2>4, <1>1, <1>2, WhileReading, SameLines DEF Twins
    <3>2. CASE limit = 0 /\ stream = [Fresh EXCEPT !.verdict = "ok"]
      <4>1. stream' = stream
        BY <3>2, <2>5 DEF Reading, Fresh
      <4>q. QED BY <4>1, <3>2, <1>1 DEF Twins, ParserInv, ParserTypeOK
    <3>q. QED BY <3>1, <3>2, <1>1 DEF ParserInv, Twins
  <2>q. QED BY <2>1, <2>3, <2>6, <2>7, <1>1, <1>2, WhileReading, SameLines
            DEF ParserInv, ParserTypeOK
<1>3. CASE ~Reading(query)
  <2>1. UNCHANGED <<query, stream>>
    BY <1>3, StreamReadsWithQuery DEF AnswerBreaks
  <2>q. QED BY <2>1, <1>1, <1>3, SameLines
            DEF ParserInv, ParserTypeOK, QueryFollows, Twins, Reading
<1>q. QED BY <1>2, <1>3

LEMMA NextParserInv ==
  ASSUME ParserInv, [ParserNext]_parserVars
  PROVE  ParserInv'
<1>1. CASE UNCHANGED parserVars \/ ParserFinished
  BY <1>1, SameLines DEF parserVars, ParserFinished, ParserInv, ParserTypeOK, QueryFollows,
                         Twins, Reading
<1>2. ASSUME NEW line \in Line, NextLine(line)
      PROVE  ParserInv'
  <2>1. Reading(query)
    BY <1>2, StreamReadsWithQuery DEF NextLine
  <2>q. QED BY <2>1, <1>2, LineWhileReading
<1>q. QED BY <1>1, <1>2, StreamSkipsStep, EndOfAnswerStep, AnswerBreaksStep DEF ParserNext

LEMMA ParserInvariant == ParserSpec => []ParserInv
  BY InitParserInv, NextParserInv, PTL DEF ParserSpec

(* The rows of a parser that has read all it needs are RowLines.           *)
LEMMA RowsAreRowLines ==
  ASSUME ParserInv, HasRead(query, Needed)
  PROVE  query.rows = RowLines
<1> DEFINE n == Needed
           k == Len(Needed)
<1>1. n \in Seq(Line) /\ k \in Nat /\ query.rows \in Seq(Line)
  <2>1. Needed \in Seq(Line \ {Blank})
    BY NeededType DEF ParserInv, ParserTypeOK
  <2>q. QED BY <2>1 DEF ParserInv, ParserTypeOK, Parser
<1>2. Len(query.rows) = (IF k <= 2 THEN 0 ELSE k - 2)
      /\ \A i \in 1 .. Len(query.rows) : query.rows[i] = n[i + 2]
  BY DEF HasRead
<1>3. RowLines = SubSeq(n, 3, k)
  BY DEF RowLines
<1> HIDE DEF n, k
<1>4. \A i \in 3 .. k : n[i] \in Line
  BY <1>1 DEF n, k
<1>5. /\ SubSeq(n, 3, k) \in Seq(Line)
      /\ Len(SubSeq(n, 3, k)) = (IF 3 <= k THEN k - 3 + 1 ELSE 0)
      /\ \A i \in 1 .. k - 3 + 1 : SubSeq(n, 3, k)[i] = n[3 + i - 1]
  <2>1. 3 \in Int /\ k \in Int
    BY <1>1
  <2>q. QED BY <2>1, <1>4, SubSeqProperties
<1>6. Len(query.rows) = Len(SubSeq(n, 3, k))
  BY <1>1, <1>2, <1>5
<1>7. \A i \in 1 .. Len(query.rows) : query.rows[i] = SubSeq(n, 3, k)[i]
  BY <1>1, <1>2, <1>5
<1>q. QED BY <1>1, <1>3, <1>5, <1>6, <1>7, SeqEqual

(* The parsers stay within the limit and hold what the type says.          *)
THEOREM ParserTyped == ParserSpec => []ParserTypeOK
  BY ParserInvariant, PTL DEF ParserInv

(* query answers the rows and columns of the answer, up to the limit, and  *)
(* errs exactly when one of the lines it needs is bad, half a header is    *)
(* all there is, or the answer breaks off before it has what it needs.     *)
THEOREM QueryExact == ParserSpec => []QueryIsExact
<1>1. ParserInv => QueryIsExact
  <2> SUFFICES ASSUME ParserInv PROVE QueryIsExact
    OBVIOUS
  <2>1. /\ Needed \in Seq(Line \ {Blank}) /\ Len(Needed) \in Nat
        /\ Needed = << >> <=> Len(Needed) = 0
    BY NeededType DEF ParserInv, ParserTypeOK
  <2>2. ASSUME query.verdict = "ok"
        PROVE  /\ WellFormed /\ Len(Needed) # 1
               /\ query.rows = RowLines
               /\ (query.types = None) = (Needed = << >>)
               /\ Enough \/ body = "over"
    <3>1. /\ WellFormed /\ HasRead(query, Needed) /\ Len(Needed) # 1
          /\ Enough \/ body = "over"
      BY <2>2 DEF ParserInv, QueryFollows
    <3>2. query.types = None <=> Needed = << >>
      <4>1. \A k \in Nat : k # 1 => (k = 0 <=> k <= 1)
        OBVIOUS
      <4>q. QED BY <4>1, <3>1, <2>1 DEF HasRead
    <3>q. QED BY <3>1, <3>2, RowsAreRowLines
  <2>3. query.verdict = "err" =>
          ~WellFormed \/ (body = "broken" /\ ~Enough) \/ (body = "over" /\ Len(Needed) = 1)
    BY DEF ParserInv, QueryFollows
  <2>q. QED BY <2>2, <2>3 DEF QueryIsExact
<1>q. QED BY <1>1, ParserInvariant, PTL

(* queryStream and save hand on the same rows as query, and differ from it *)
(* only for half a header and for a limit of 0.                            *)
THEOREM StreamExact == ParserSpec => []StreamIsExact
<1>1. ParserInv => StreamIsExact
  <2> SUFFICES ASSUME ParserInv PROVE StreamIsExact
    OBVIOUS
  <2>1. ASSUME stream.verdict = "ok", limit > 0
        PROVE  WellFormed /\ stream.rows = RowLines /\ (Enough \/ body = "over")
    <3>1. CASE stream = query
      BY <3>1, <2>1, RowsAreRowLines DEF ParserInv, QueryFollows
    <3>2. CASE stream # query
      <4>1. /\ body = "over" /\ Len(Needed) = 1 /\ WellFormed /\ stream.rows = << >>
        BY <3>2, <2>1 DEF ParserInv, Twins, ParserTypeOK
      <4>2. RowLines = << >>
        BY <4>1, SubSeqEmpty, 1 < 3 DEF RowLines
      <4>q. QED BY <4>1, <4>2
    <3>q. QED BY <3>1, <3>2
  <2>2. ASSUME stream.verdict = "err"
        PROVE  /\ ~WellFormed \/ (body = "broken" /\ ~Enough)
               /\ \A i \in 1 .. Len(stream.rows) : stream.rows[i] = Needed[i + 2]
    <3>1. stream = query
      BY <2>2 DEF ParserInv, Twins, Fresh
    <3>q. QED BY <3>1, <2>2 DEF ParserInv, Twins, QueryFollows, Fresh
  <2>3. \/ query = stream
        \/ limit = 0 /\ stream = [Fresh EXCEPT !.verdict = "ok"]
        \/ /\ body = "over" /\ Len(Needed) = 1
           /\ query.verdict = "err"
           /\ stream.verdict = "ok" /\ stream.types = None /\ stream.rows = << >>
    BY DEF ParserInv, Twins
  <2>q. QED BY <2>1, <2>2, <2>3 DEF StreamIsExact
<1>q. QED BY <1>1, ParserInvariant, PTL
=============================================================================
