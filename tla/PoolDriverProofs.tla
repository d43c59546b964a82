-------------------------- MODULE PoolDriverProofs --------------------------
(***************************************************************************)
(* What holds of a pooled driver for every number of calls, closes and     *)
(* connections, and whatever JavaScript and the database do.               *)
(***************************************************************************)
EXTENDS PoolDriver, FiniteSetTheorems, TLAPS

Types ==
    /\ handle \in {"some", "taken"}
    /\ closed \in BOOLEAN
    /\ held \subseteq Calls
    /\ pc \in [Calls -> {"new", "describe", "describing", "fetch", "fetching",
                          "sending", "record", "done"}]
    /\ asked \in [Calls -> Requests]
    /\ outcome \in [Calls -> {"pending", "ok", "err", "panic"}]
    /\ late \in [Calls -> BOOLEAN]
    /\ reader \in [Calls -> {"still", "moved"}]
    /\ closer \in [Closers -> {"new", "took", "waiting", "closed", "ignored"}]

(* The pool leaves the driver before it is closed, and is marked closed    *)
(* before the close that took it waits for the connections.                *)
ClosingInv ==
    /\ \A k \in Closers : closer[k] # "new" => handle = "taken"
    /\ \A k \in Closers : closer[k] \in {"waiting", "closed"} => closed

(* A call that found the pool gone never asks for a connection.            *)
LateInv == \A c \in Calls : late[c] => pc[c] \in {"record", "done"} /\ outcome[c] = "err"

PoolInv ==
    /\ Types /\ Cardinality(held) <= MaxConnections
    /\ NoHoldAndWait /\ CloseIsFinal /\ ClosingInv /\ LateInv

-----------------------------------------------------------------------------

LEMMA InitPoolInv == Init => PoolInv
<1> SUFFICES ASSUME Init PROVE PoolInv
  OBVIOUS
<1>1. Types
  BY DEF Init, Types
<1>2. Cardinality(held) <= MaxConnections
  BY FS_EmptySet, PoolAssumption DEF Init, PoolAssumption
<1>3. NoHoldAndWait /\ CloseIsFinal /\ ClosingInv /\ LateInv
  BY DEF Init, NoHoldAndWait, CloseIsFinal, ClosingInv, LateInv
<1>q. QED BY <1>1, <1>2, <1>3 DEF PoolInv

(* Cardinalities of the sets of connections in use.                        *)
LEMMA HeldSizes ==
  ASSUME held \subseteq Calls, NEW c \in Calls
  PROVE  /\ Cardinality(held) \in Nat
         /\ Cardinality(held \union {c}) \in Nat /\ Cardinality(held \ {c}) \in Nat
         /\ Cardinality(held \union {c}) <= Cardinality(held) + 1
         /\ Cardinality(held \ {c}) <= Cardinality(held)
<1>1. IsFiniteSet(held)
  BY PoolAssumption, FS_Subset DEF PoolAssumption
<1>2. /\ Cardinality(held) \in Nat
      /\ Cardinality(held \union {c}) \in Nat /\ Cardinality(held \ {c}) \in Nat
  BY <1>1, FS_CardinalityType, FS_AddElement, FS_RemoveElement
<1>3. Cardinality(held \union {c}) <= Cardinality(held) + 1
  <2>1. Cardinality(held \union {c})
            = IF c \in held THEN Cardinality(held) ELSE Cardinality(held) + 1
    BY <1>1, FS_AddElement
  <2>q. QED BY <1>2, <2>1
<1>4. Cardinality(held \ {c}) <= Cardinality(held)
  <2>1. Cardinality(held \ {c})
            = IF c \in held THEN Cardinality(held) - 1 ELSE Cardinality(held)
    BY <1>1, FS_RemoveElement
  <2>q. QED BY <1>2, <2>1
<1>q. QED BY <1>2, <1>3, <1>4

(* A call takes a connection: only from a pool that is not closed.         *)
LEMMA AcquireStep ==
  ASSUME PoolInv, NEW c \in Calls, AcquireToDescribe(c) \/ AcquireToFetch(c)
  PROVE  PoolInv'
<1>1. /\ ~closed /\ Cardinality(held) < MaxConnections
      /\ held' = held \union {c}
      /\ pc[c] \in {"describe", "fetch"}
      /\ \/ pc' = [pc EXCEPT ![c] = "describing"]
         \/ pc' = [pc EXCEPT ![c] = "fetching"]
      /\ UNCHANGED <<handle, closed, asked, outcome, late, reader, closer>>
  BY DEF AcquireToDescribe, AcquireToFetch, Acquire, ConnectionFree, GoTo
<1>2. Types'
  BY <1>1 DEF PoolInv, Types
<1>3. Cardinality(held') <= MaxConnections
  <2>1. /\ Cardinality(held) \in Nat /\ Cardinality(held \union {c}) \in Nat
        /\ Cardinality(held \union {c}) <= Cardinality(held) + 1
    BY HeldSizes DEF PoolInv, Types
  <2>q. QED BY <1>1, <2>1, PoolAssumption DEF PoolAssumption
<1>4. NoHoldAndWait'
  BY <1>1 DEF PoolInv, Types, NoHoldAndWait
<1>5. \A k \in Closers : closer'[k] # "closed"
  BY <1>1 DEF PoolInv, ClosingInv
<1>6. CloseIsFinal'
  BY <1>5 DEF CloseIsFinal
<1>7. ClosingInv'
  BY <1>1 DEF PoolInv, ClosingInv
<1>8. LateInv'
  BY <1>1 DEF PoolInv, Types, LateInv
<1>q. QED BY <1>2, <1>3, <1>4, <1>6, <1>7, <1>8 DEF PoolInv

(* A call gives its connection back.                                       *)
LEMMA ReleaseStep ==
  ASSUME PoolInv, NEW c \in Calls, Described(c) \/ Fetched(c) \/ Panics(c)
  PROVE  PoolInv'
<1>1. /\ held' = held \ {c}
      /\ pc[c] \in {"describing", "fetching"}
      /\ UNCHANGED <<handle, closed, asked, late, reader, closer>>
      /\ \E l \in {"fetch", "record", "done"} : pc' = [pc EXCEPT ![c] = l]
      /\ \/ outcome' = outcome
         \/ \E r \in {"ok", "err", "panic"} : outcome' = [outcome EXCEPT ![c] = r]
  BY DEF Described, Fetched, Panics, HeldWithout, GoTo, Ends
<1>2. Types'
  BY <1>1 DEF PoolInv, Types
<1>3. Cardinality(held') <= MaxConnections
  <2>1. /\ Cardinality(held) \in Nat /\ Cardinality(held \ {c}) \in Nat
        /\ Cardinality(held \ {c}) <= Cardinality(held)
    BY HeldSizes DEF PoolInv, Types
  <2>q. QED BY <1>1, <2>1, PoolAssumption DEF PoolAssumption, PoolInv
<1>4. NoHoldAndWait'
  BY <1>1 DEF PoolInv, Types, NoHoldAndWait
<1>5. CloseIsFinal' /\ ClosingInv'
  BY <1>1 DEF PoolInv, CloseIsFinal, ClosingInv
<1>6. ~late[c]
  BY <1>1 DEF PoolInv, LateInv
<1>7. LateInv'
  BY <1>1, <1>6 DEF PoolInv, Types, LateInv
<1>q. QED BY <1>2, <1>3, <1>4, <1>5, <1>7 DEF PoolInv

(* The steps of a call that leave the connections as they are.             *)
LEMMA CallStep ==
  ASSUME PoolInv, NEW c \in Calls,
         \/ Begin(c) \/ NotDescribed(c) \/ NothingToFetch(c) \/ FetchRefused(c)
         \/ FillsChannel(c) \/ SendsOn(c) \/ Record(c)
  PROVE  PoolInv'
<1>1. /\ UNCHANGED <<handle, closed, held, asked, reader, closer>>
      /\ \/ /\ pc[c] \in {"new", "describe", "fetch", "record"}
            /\ \E l \in {"describe", "fetch", "record", "done"} : pc' = [pc EXCEPT ![c] = l]
         \/ /\ pc[c] \in {"fetching", "sending"}
            /\ \E m \in {"fetching", "sending"} : pc' = [pc EXCEPT ![c] = m]
      /\ \/ outcome' = outcome
         \/ \E r \in {"ok", "err"} : outcome' = [outcome EXCEPT ![c] = r]
         \/ outcome' = [outcome EXCEPT ![c] = outcome[c]]
  BY DEF Begin, NotDescribed, NothingToFetch, FetchRefused, FillsChannel, SendsOn, Record,
         GoTo, Ends
<1>2. LateInv' /\ late' \in [Calls -> BOOLEAN]
  <2>1. CASE Begin(c)
    <3>1. /\ late' = [late EXCEPT ![c] = \E k \in Closers : CloseReturned(k)]
          /\ pc[c] = "new"
      BY <2>1 DEF Begin
    <3>2. (\E k \in Closers : CloseReturned(k)) => handle = "taken"
      BY DEF PoolInv, ClosingInv, CloseReturned
    <3>3. handle = "taken" =>
             /\ outcome' = [outcome EXCEPT ![c] = "err"]
             /\ \E l \in {"record", "done"} : pc' = [pc EXCEPT ![c] = l]
      BY <2>1 DEF Begin, Ends, GoTo
    <3>4. late' \in [Calls -> BOOLEAN]
      BY <3>1 DEF PoolInv, Types
    <3>5. ASSUME NEW d \in Calls, late'[d]
          PROVE  pc'[d] \in {"record", "done"} /\ outcome'[d] = "err"
      <4>1. CASE d = c
        <5>1. handle = "taken"
          BY <3>1, <3>2, <3>5, <4>1 DEF PoolInv, Types
        <5>q. QED BY <3>3, <4>1, <5>1 DEF PoolInv, Types
      <4>2. CASE d # c
        <5>1. late[d]
          BY <3>1, <3>5, <4>2 DEF PoolInv, Types
        <5>q. QED BY <1>1, <4>2, <5>1 DEF PoolInv, Types, LateInv
      <4>q. QED BY <4>1, <4>2
    <3>q. QED BY <3>4, <3>5 DEF LateInv
  <2>2. CASE Record(c)
    <3>1. /\ late' = late /\ pc' = [pc EXCEPT ![c] = "done"]
          /\ \/ outcome' = [outcome EXCEPT ![c] = outcome[c]]
             \/ outcome' = [outcome EXCEPT ![c] = "err"]
      BY <2>2 DEF Record, Ends, GoTo
    <3>q. QED BY <3>1 DEF PoolInv, Types, LateInv
  <2>3. CASE \/ NotDescribed(c) \/ NothingToFetch(c) \/ FetchRefused(c)
             \/ FillsChannel(c) \/ SendsOn(c)
    <3>1. late' = late
      BY <2>3 DEF NotDescribed, NothingToFetch, FetchRefused, FillsChannel, SendsOn
    <3>2. ~late[c]
      BY <2>3 DEF NotDescribed, NothingToFetch, FetchRefused, FillsChannel, SendsOn,
                  PoolInv, LateInv
    <3>q. QED BY <1>1, <3>1, <3>2 DEF PoolInv, Types, LateInv
  <2>q. QED BY <2>1, <2>2, <2>3
<1>5. Types'
  <2>1. outcome' \in [Calls -> {"pending", "ok", "err", "panic"}]
    BY <1>1 DEF PoolInv, Types
  <2>2. pc' \in [Calls -> {"new", "describe", "describing", "fetch", "fetching",
                            "sending", "record", "done"}]
    BY <1>1 DEF PoolInv, Types
  <2>q. QED BY <1>1, <1>2, <2>1, <2>2 DEF PoolInv, Types
<1>6. NoHoldAndWait'
  BY <1>1 DEF PoolInv, Types, NoHoldAndWait
<1>7. Cardinality(held') <= MaxConnections /\ CloseIsFinal' /\ ClosingInv'
  BY <1>1 DEF PoolInv, CloseIsFinal, ClosingInv
<1>q. QED BY <1>2, <1>5, <1>6, <1>7 DEF PoolInv

LEMMA CloseStep ==
  ASSUME PoolInv, NEW k \in Closers, TakePool(k) \/ Close(k)
  PROVE  PoolInv'
<1>1. UNCHANGED <<held, pc, asked, outcome, late, reader>>
  BY DEF TakePool, Close, MarkClosed, PoolClosed
<1>2. /\ \E l \in {"took", "waiting", "closed", "ignored"} :
            closer' = [closer EXCEPT ![k] = l]
      /\ handle' \in {handle, "taken"} /\ closed' \in {closed, TRUE}
  BY DEF TakePool, Close, MarkClosed, PoolClosed, CloserGoTo
<1>3. Types'
  BY <1>1, <1>2 DEF PoolInv, Types
<1>4. NoHoldAndWait' /\ LateInv' /\ Cardinality(held') <= MaxConnections
  BY <1>1 DEF PoolInv, NoHoldAndWait, LateInv
<1>5. CloseIsFinal' /\ ClosingInv'
  <2>1. CASE TakePool(k)
    <3>1. /\ handle' = "taken" /\ closed' = closed
          /\ closer' = [closer EXCEPT ![k] = IF handle = "some" THEN "took" ELSE "ignored"]
      BY <2>1 DEF TakePool, CloserGoTo
    <3>q. QED BY <1>1, <3>1 DEF PoolInv, Types, CloseIsFinal, ClosingInv
  <2>2. CASE MarkClosed(k)
    <3>1. /\ handle' = handle /\ closed' = TRUE /\ closer[k] = "took"
          /\ closer' = [closer EXCEPT ![k] = "waiting"]
      BY <2>2 DEF MarkClosed, CloserGoTo
    <3>q. QED BY <1>1, <3>1 DEF PoolInv, Types, CloseIsFinal, ClosingInv
  <2>3. CASE PoolClosed(k)
    <3>1. /\ handle' = handle /\ closed' = closed /\ closer[k] = "waiting" /\ held = {}
          /\ closer' = [closer EXCEPT ![k] = "closed"]
      BY <2>3 DEF PoolClosed, CloserGoTo
    <3>q. QED BY <1>1, <3>1 DEF PoolInv, Types, CloseIsFinal, ClosingInv
  <2>q. QED BY <2>1, <2>2, <2>3 DEF Close
<1>q. QED BY <1>3, <1>4, <1>5 DEF PoolInv

LEMMA NextPoolInv == PoolInv /\ [Next]_vars => PoolInv'
<1> SUFFICES ASSUME PoolInv, [Next]_vars PROVE PoolInv'
  OBVIOUS
<1>1. ASSUME NEW c \in Calls, Begin(c) \/ Call(c) \/ Panics(c) \/ ReaderMoves(c)
      PROVE  PoolInv'
  <2>1. CASE ReaderMoves(c)
    BY <2>1 DEF ReaderMoves, PoolInv, Types, NoHoldAndWait, CloseIsFinal, ClosingInv, LateInv
  <2>q. QED BY <1>1, <2>1, AcquireStep, ReleaseStep, CallStep DEF Call
<1>2. ASSUME NEW k \in Closers, TakePool(k) \/ Close(k)
      PROVE  PoolInv'
  BY <1>2, CloseStep
<1>3. CASE UNCHANGED vars
  BY <1>3 DEF vars, PoolInv, Types, NoHoldAndWait, CloseIsFinal, ClosingInv, LateInv
<1>q. QED BY <1>1, <1>2, <1>3 DEF Next, Finished

(* The invariant the theorems below rest on holds throughout.              *)
THEOREM PoolInvariant == Spec => []PoolInv
<1>q. QED BY InitPoolInv, NextPoolInv, PTL DEF Spec

(* Every variable keeps its type, and the pool lends no more connections   *)
(* than it has.                                                            *)
THEOREM PoolTypeOK == Spec => []TypeOK
<1>1. PoolInv => TypeOK
  BY DEF PoolInv, Types, TypeOK
<1>q. QED BY <1>1, PoolInvariant, PTL

(* A call that waits for a connection holds none, and a call that is over  *)
(* or being recorded has returned its own, panicked ones included.         *)
THEOREM ConnectionsReturned == Spec => []NoHoldAndWait
<1>1. PoolInv => NoHoldAndWait
  BY DEF PoolInv
<1>q. QED BY <1>1, PoolInvariant, PTL

(* Once the close that took the pool has returned no connection is in use. *)
THEOREM ClosedIsQuiet == Spec => []CloseIsFinal
<1>1. PoolInv => CloseIsFinal
  BY DEF PoolInv
<1>q. QED BY <1>1, PoolInvariant, PTL

(* A call made after any close returned comes to an error.                 *)
THEOREM LateCallsFail == Spec => []LateCallRefused
<1>1. PoolInv => LateCallRefused
  BY DEF PoolInv, LateInv, LateCallRefused
<1>q. QED BY <1>1, PoolInvariant, PTL
=============================================================================
