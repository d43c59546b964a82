-------------------------- MODULE SaveWriterProofs --------------------------
(***************************************************************************)
(* What saves to one path leave in the file, for any number of saves, any  *)
(* batches, any split of their bytes and any way a save may end.           *)
(*                                                                         *)
(* The module first proves what Kept, Rows, Plain and Bracketed do to the  *)
(* end of one sequence and the start of the next.  They are defined over   *)
(* sequences of any length; the facts follow by well-founded induction     *)
(* (Least, Climb, SeqClimb).  Four invariants carry the theorems:          *)
(*   Alone       one save works at a time and knows the end of the file    *)
(*               (AppendsTakeNothing);                                     *)
(*   Accounted   file and buffer of a save together hold the rows it kept  *)
(*               and those it got (SavesKeepPromise);                      *)
(*   Whole       and they are a readable file but for its end              *)
(*               (OkMeansReadable);                                        *)
(*   AllInOrder  when appends overlap, each save's own pieces are in order *)
(*               in file and buffer (CsvAppendsLoseNothing).               *)
(***************************************************************************)
EXTENDS SaveWriter, Integers, SequenceTheorems, WellFoundedInduction, TLAPS

-----------------------------------------------------------------------------
(* Induction over the naturals: a set that holds 0, and with each number   *)
(* the next one, holds them all.                                           *)

LEMMA Least ==
  ASSUME NEW T, T \subseteq Nat, T # {}
  PROVE  \E m \in T : \A k \in T : m <= k
<1> DEFINE R == OpToRel(<, Nat)
<1>1. IsWellFoundedOn(R, Nat)
  BY NatLessThanWellFounded
<1> HIDE DEF R
<1>2. PICK m \in T : \A k \in T : <<k, m>> \notin R
  BY <1>1, WFMin
<1>3. \A k \in T : ~(k < m)
  BY <1>2 DEF R, OpToRel
<1>q. QED BY <1>2, <1>3

LEMMA Climb ==
  ASSUME NEW T, 0 \in T, \A n \in Nat : n \in T => n + 1 \in T
  PROVE  \A n \in Nat : n \in T
<1> SUFFICES ASSUME Nat \ T # {} PROVE FALSE
  OBVIOUS
<1>1. PICK m \in Nat \ T : \A k \in Nat \ T : m <= k
  BY Least
<1>2. m # 0 /\ m - 1 \in Nat /\ m - 1 \in T
  BY <1>1
<1>3. (m - 1) + 1 \in T
  BY <1>2
<1>q. QED BY <1>1, <1>3

-----------------------------------------------------------------------------
(* The pieces of a sequence that are in a set.                             *)

(* The function Kept is defined by, and the value of it: what of the first *)
(* n pieces is kept.                                                       *)
Collects(u, f, P, m) ==
    u = [n \in 0 .. m |->
            IF n = 0 THEN << >>
            ELSE IF f[n] \in P THEN Append(u[n - 1], f[n]) ELSE u[n - 1]]
UpTo(f, P) == CHOOSE u : Collects(u, f, P, Len(f))

LEMMA KeptIsUpTo == \A f, P : Kept(f, P) = UpTo(f, P)[Len(f)]
  BY DEF Kept, UpTo, Collects

LEMMA Collecting ==
  ASSUME NEW f, NEW P, NEW m \in Nat, NEW u, Collects(u, f, P, m)
  PROVE  \E v : Collects(v, f, P, m + 1)
<1> DEFINE next == IF f[m + 1] \in P THEN Append(u[m], f[m + 1]) ELSE u[m]
           v == [n \in 0 .. m + 1 |-> IF n = m + 1 THEN next ELSE u[n]]
           w == [n \in 0 .. m + 1 |->
                    IF n = 0 THEN << >>
                    ELSE IF f[n] \in P THEN Append(v[n - 1], f[n]) ELSE v[n - 1]]
<1>1. ASSUME NEW n \in 0 .. m + 1
      PROVE  v[n] = w[n]
  <2>1. CASE n = m + 1
    BY <2>1
  <2>2. CASE n # m + 1
    <3>1. n \in 0 .. m /\ v[n] = u[n]
      BY <2>2
    <3>2. n # 0 => v[n - 1] = u[n - 1]
      BY <3>1
    <3>q. QED BY <3>1, <3>2 DEF Collects
  <2>q. QED BY <2>1, <2>2
<1>2. v = w
  <2> HIDE DEF next
  <2>1. DOMAIN v = 0 .. m + 1 /\ DOMAIN w = 0 .. m + 1
    OBVIOUS
  <2>2. v = [n \in 0 .. m + 1 |-> v[n]] /\ w = [n \in 0 .. m + 1 |-> w[n]]
    OBVIOUS
  <2> HIDE DEF v, w
  <2>q. QED BY <1>1, <2>2
<1>3. Collects(v, f, P, m + 1)
  BY <1>2 DEF Collects
<1> HIDE DEF v
<1>q. QED BY <1>3

LEMMA UpToDefined ==
  ASSUME NEW S, NEW f \in Seq(S), NEW P
  PROVE  Collects(UpTo(f, P), f, P, Len(f))
<1> DEFINE T == {m \in Nat : \E u : Collects(u, f, P, m)}
<1>1. 0 \in T
  <2> DEFINE z == [n \in 0 .. 0 |-> << >>]
  <2>1. Collects(z, f, P, 0)
    BY DEF Collects
  <2> HIDE DEF z
  <2>q. QED BY <2>1
<1>2. ASSUME NEW m \in Nat, m \in T
      PROVE  m + 1 \in T
  BY <1>2, Collecting
<1>3. Len(f) \in T
  <2> HIDE DEF T
  <2>q. QED BY <1>1, <1>2, Climb, LenProperties
<1>q. QED BY <1>3 DEF UpTo

LEMMA UpToStep ==
  ASSUME NEW S, NEW f \in Seq(S), NEW P
  PROVE  /\ UpTo(f, P)[0] = << >>
         /\ \A n \in 1 .. Len(f) :
               UpTo(f, P)[n] = IF f[n] \in P THEN Append(UpTo(f, P)[n - 1], f[n])
                               ELSE UpTo(f, P)[n - 1]
<1>1. Len(f) \in Nat
  BY LenProperties
<1> DEFINE u == UpTo(f, P)
<1>2. u = [n \in 0 .. Len(f) |->
              IF n = 0 THEN << >>
              ELSE IF f[n] \in P THEN Append(u[n - 1], f[n]) ELSE u[n - 1]]
  BY UpToDefined DEF Collects
<1> HIDE DEF u
<1>3. u[0] = << >>
  BY <1>1, <1>2
<1>4. ASSUME NEW n \in 1 .. Len(f)
      PROVE  u[n] = IF f[n] \in P THEN Append(u[n - 1], f[n]) ELSE u[n - 1]
  <2>1. n \in 0 .. Len(f) /\ n # 0
    BY <1>1
  <2>q. QED BY <1>2, <2>1
<1>q. QED BY <1>3, <1>4 DEF u

(* What is kept is a sequence of pieces of the set.                        *)
LEMMA KeptType ==
  ASSUME NEW S, NEW f \in Seq(S), NEW P
  PROVE  Kept(f, P) \in Seq(S \intersect P)
<1>1. Len(f) \in Nat /\ \A n \in 1 .. Len(f) : f[n] \in S
  BY LenProperties
<1> DEFINE u == UpTo(f, P)
           T == {n \in Nat : n <= Len(f) => u[n] \in Seq(S \intersect P)}
<1>2. /\ u[0] = << >>
      /\ \A n \in 1 .. Len(f) :
            u[n] = IF f[n] \in P THEN Append(u[n - 1], f[n]) ELSE u[n - 1]
  BY UpToStep
<1> HIDE DEF u
<1>3. 0 \in T
  BY <1>2, EmptySeq
<1>4. ASSUME NEW n \in Nat, n \in T
      PROVE  n + 1 \in T
  <2> SUFFICES ASSUME n + 1 <= Len(f) PROVE u[n + 1] \in Seq(S \intersect P)
    OBVIOUS
  <2>1. n + 1 \in 1 .. Len(f) /\ (n + 1) - 1 = n /\ u[n] \in Seq(S \intersect P)
    BY <1>1, <1>4
  <2>2. u[n + 1] = IF f[n + 1] \in P THEN Append(u[n], f[n + 1]) ELSE u[n]
    BY <1>2, <2>1
  <2>3. CASE f[n + 1] \in P
    <3>1. f[n + 1] \in S \intersect P
      BY <1>1, <2>1, <2>3
    <3>q. QED BY <2>1, <2>2, <2>3, <3>1, AppendProperties
  <2>4. CASE f[n + 1] \notin P
    BY <2>1, <2>2, <2>4
  <2>q. QED BY <2>3, <2>4
<1>5. Len(f) \in T
  <2> HIDE DEF T
  <2>q. QED BY <1>1, <1>3, <1>4, Climb
<1>q. QED BY <1>1, <1>5, KeptIsUpTo DEF u

(* Two sequences keep the same of what they have in common.                *)
LEMMA UpToCommon ==
  ASSUME NEW S, NEW f \in Seq(S), NEW g \in Seq(S), NEW P, NEW m \in Nat,
         m <= Len(f), m <= Len(g), \A i \in 1 .. m : f[i] = g[i]
  PROVE  UpTo(f, P)[m] = UpTo(g, P)[m]
<1>1. Len(f) \in Nat /\ Len(g) \in Nat
  BY LenProperties
<1> DEFINE u == UpTo(f, P)
           v == UpTo(g, P)
           T == {n \in Nat : n <= m => u[n] = v[n]}
<1>2. /\ u[0] = << >>
      /\ \A n \in 1 .. Len(f) :
            u[n] = IF f[n] \in P THEN Append(u[n - 1], f[n]) ELSE u[n - 1]
  BY UpToStep
<1>3. /\ v[0] = << >>
      /\ \A n \in 1 .. Len(g) :
            v[n] = IF g[n] \in P THEN Append(v[n - 1], g[n]) ELSE v[n - 1]
  BY UpToStep
<1> HIDE DEF u, v
<1>4. 0 \in T
  BY <1>2, <1>3
<1>5. ASSUME NEW n \in Nat, n \in T
      PROVE  n + 1 \in T
  <2> SUFFICES ASSUME n + 1 <= m PROVE u[n + 1] = v[n + 1]
    OBVIOUS
  <2>1. n + 1 \in 1 .. Len(f) /\ n + 1 \in 1 .. Len(g) /\ n + 1 \in 1 .. m
        /\ (n + 1) - 1 = n /\ u[n] = v[n]
    BY <1>1, <1>5
  <2>2. f[n + 1] = g[n + 1]
    BY <2>1
  <2>3. u[n + 1] = IF f[n + 1] \in P THEN Append(u[n], f[n + 1]) ELSE u[n]
    BY <1>2, <2>1
  <2>4. v[n + 1] = IF g[n + 1] \in P THEN Append(v[n], g[n + 1]) ELSE v[n]
    BY <1>3, <2>1
  <2>q. QED BY <2>1, <2>2, <2>3, <2>4
<1>6. m \in T
  <2> HIDE DEF T
  <2>q. QED BY <1>4, <1>5, Climb
<1>q. QED BY <1>6 DEF u, v

LEMMA KeptEmpty == \A P : Kept(<< >>, P) = << >>
<1> SUFFICES ASSUME NEW P PROVE Kept(<< >>, P) = << >>
  OBVIOUS
<1> DEFINE e == << >>
<1>1. e \in Seq({0}) /\ Len(e) = 0
  BY EmptySeq
<1> HIDE DEF e
<1>2. UpTo(e, P)[0] = << >>
  <2>1. e \in Seq({0})
    BY <1>1
  <2>q. QED BY <2>1, UpToStep
<1>3. Kept(e, P) = UpTo(e, P)[0]
  BY <1>1, KeptIsUpTo
<1>q. QED BY <1>2, <1>3 DEF e

(* One file after another keeps one's pieces after the other's.            *)
LEMMA KeptConcat ==
  ASSUME NEW S, NEW f \in Seq(S), NEW g \in Seq(S), NEW P
  PROVE  Kept(f \o g, P) = Kept(f, P) \o Kept(g, P)
<1>1. /\ Len(f) \in Nat /\ Len(g) \in Nat /\ f \o g \in Seq(S)
      /\ Len(f \o g) = Len(f) + Len(g)
      /\ \A i \in 1 .. Len(f) : (f \o g)[i] = f[i]
      /\ \A i \in 1 .. Len(g) : (f \o g)[Len(f) + i] = g[i]
  BY LenProperties, ConcatProperties
<1> DEFINE h == f \o g
           u == UpTo(h, P)
           v == UpTo(g, P)
           before == Kept(f, P)
           T == {n \in Nat : n <= Len(g) => v[n] \in Seq(S) /\ u[Len(f) + n] = before \o v[n]}
<1>2. \A n \in 1 .. Len(h) :
         u[n] = IF h[n] \in P THEN Append(u[n - 1], h[n]) ELSE u[n - 1]
  <2> HIDE DEF h
  <2>1. h \in Seq(S)
    BY <1>1 DEF h
  <2>q. QED BY <2>1, UpToStep
<1>3. /\ v[0] = << >>
      /\ \A n \in 1 .. Len(g) :
            v[n] = IF g[n] \in P THEN Append(v[n - 1], g[n]) ELSE v[n - 1]
  BY UpToStep
<1>4. u[Len(f)] = before
  <2>1. UpTo(h, P)[Len(f)] = UpTo(f, P)[Len(f)]
    <3>1. Len(f) <= Len(h) /\ Len(f) <= Len(f) /\ \A i \in 1 .. Len(f) : h[i] = f[i]
      BY <1>1
    <3> HIDE DEF h
    <3>2. h \in Seq(S)
      BY <1>1 DEF h
    <3>q. QED BY <1>1, <3>1, <3>2, UpToCommon
  <2>q. QED BY <2>1, KeptIsUpTo
<1>5. before \in Seq(S)
  <2>1. Kept(f, P) \in Seq(S \intersect P)
    BY KeptType
  <2>q. QED BY <2>1, SeqMonotonic
<1>6. /\ Len(h) = Len(f) + Len(g)
      /\ \A i \in 1 .. Len(g) : h[Len(f) + i] = g[i]
      /\ \A i \in 1 .. Len(g) : g[i] \in S
  BY <1>1, LenProperties
<1> HIDE DEF h, u, v, before
<1>7. 0 \in T
  <2>1. Len(f) + 0 = Len(f)
    BY <1>1
  <2>q. QED BY <1>3, <1>4, <1>5, <2>1, ConcatEmptySeq, EmptySeq
<1>8. ASSUME NEW n \in Nat, n \in T
      PROVE  n + 1 \in T
  <2> SUFFICES ASSUME n + 1 <= Len(g)
               PROVE  v[n + 1] \in Seq(S) /\ u[Len(f) + (n + 1)] = before \o v[n + 1]
    OBVIOUS
  <2> DEFINE k == Len(f) + (n + 1)
             x == g[n + 1]
  <2>1. /\ n + 1 \in 1 .. Len(g) /\ (n + 1) - 1 = n
        /\ k \in 1 .. Len(h) /\ k - 1 = Len(f) + n
        /\ v[n] \in Seq(S) /\ u[Len(f) + n] = before \o v[n]
        /\ x \in S /\ h[k] = x
    BY <1>1, <1>6, <1>8
  <2>2. v[n + 1] = IF x \in P THEN Append(v[n], x) ELSE v[n]
    BY <1>3, <2>1
  <2>3. u[k] = IF x \in P THEN Append(before \o v[n], x) ELSE before \o v[n]
    BY <1>2, <2>1
  <2> HIDE DEF k, x
  <2>4. Append(before \o v[n], x) = before \o Append(v[n], x)
    <3> DEFINE kept == v[n]
               one == <<x>>
    <3>1. one \in Seq(S) /\ kept \in Seq(S) /\ before \o kept \in Seq(S)
      BY <1>5, <2>1, ConcatProperties
    <3>2. Append(kept, x) = kept \o one /\ Append(before \o kept, x) = (before \o kept) \o one
      BY <2>1, <3>1, AppendIsConcat
    <3> HIDE DEF kept, one
    <3>3. (before \o kept) \o one = before \o (kept \o one)
      BY <1>5, <3>1, ConcatAssociative
    <3>q. QED BY <3>2, <3>3 DEF kept
  <2>5. Append(v[n], x) \in Seq(S)
    BY <2>1, AppendProperties
  <2>q. QED BY <2>1, <2>2, <2>3, <2>4, <2>5 DEF k
<1>9. Len(g) \in T
  <2> HIDE DEF T
  <2>q. QED BY <1>1, <1>7, <1>8, Climb
<1>10. u[Len(f) + Len(g)] = before \o v[Len(g)]
  BY <1>1, <1>9
<1>11. Kept(f \o g, P) = u[Len(f) + Len(g)]
  BY <1>1, KeptIsUpTo DEF h, u
<1>12. v[Len(g)] = Kept(g, P)
  BY KeptIsUpTo DEF v
<1>q. QED BY <1>10, <1>11, <1>12 DEF before

LEMMA KeptOne ==
  ASSUME NEW x, NEW P
  PROVE  Kept(<<x>>, P) = IF x \in P THEN <<x>> ELSE << >>
<1> DEFINE f == <<x>>
<1>1. f \in Seq({x}) /\ Len(f) = 1 /\ f[1] = x
  OBVIOUS
<1> HIDE DEF f
<1>2. /\ UpTo(f, P)[0] = << >>
      /\ \A n \in 1 .. Len(f) :
            UpTo(f, P)[n] = IF f[n] \in P THEN Append(UpTo(f, P)[n - 1], f[n])
                            ELSE UpTo(f, P)[n - 1]
  BY <1>1, UpToStep
<1>3. UpTo(f, P)[1] = IF x \in P THEN Append(<< >>, x) ELSE << >>
  <2>1. 1 \in 1 .. Len(f) /\ 1 - 1 = 0
    BY <1>1
  <2>q. QED BY <1>1, <1>2, <2>1
<1>4. Kept(f, P) = UpTo(f, P)[1]
  BY <1>1, KeptIsUpTo
<1>q. QED BY <1>3, <1>4 DEF f

(* Induction over sequences.                                               *)
LEMMA SeqClimb ==
  ASSUME NEW S, NEW T, << >> \in T,
         \A s \in Seq(S), x \in S : s \in T => s \o <<x>> \in T
  PROVE  \A s \in Seq(S) : s \in T
<1> SUFFICES ASSUME NEW s \in Seq(S) PROVE s \in T
  OBVIOUS
<1>1. Len(s) \in Nat /\ \A i \in 1 .. Len(s) : s[i] \in S
  BY LenProperties
<1> DEFINE N == {n \in Nat : n <= Len(s) => SubSeq(s, 1, n) \in T}
<1>2. 0 \in N
  <2>1. SubSeq(s, 1, 0) = << >>
    BY SubSeqEmpty
  <2>q. QED BY <2>1
<1>3. ASSUME NEW n \in Nat, n \in N
      PROVE  n + 1 \in N
  <2> SUFFICES ASSUME n + 1 <= Len(s) PROVE SubSeq(s, 1, n + 1) \in T
    OBVIOUS
  <2>1. n + 1 \in 1 .. Len(s) /\ 1 \in 1 .. Len(s) /\ n + 1 \in 1 .. Len(s) /\ n \in 0 .. Len(s)
        /\ (n + 1) - 1 = n /\ SubSeq(s, 1, n) \in T
    BY <1>1, <1>3
  <2>2. SubSeq(s, 1, n + 1) = SubSeq(s, 1, (n + 1) - 1) \o <<s[n + 1]>>
    BY <2>1, SubSeqRecursiveSecond
  <2>3. SubSeq(s, 1, n) \in Seq(S) /\ s[n + 1] \in S
    <3>1. \A i \in 1 .. n : s[i] \in S
      BY <1>1, <2>1
    <3>q. QED BY <1>1, <2>1, <3>1, SubSeqProperties
  <2>q. QED BY <2>1, <2>2, <2>3
<1>4. Len(s) \in N
  <2> HIDE DEF N
  <2>q. QED BY <1>1, <1>2, <1>3, Climb
<1>5. SubSeq(s, 1, Len(s)) \in T
  BY <1>1, <1>4
<1>6. SubSeq(s, 1, Len(s)) = s
  BY SubSeqFull
<1>q. QED BY <1>5, <1>6

-----------------------------------------------------------------------------
(* The rows of a file.                                                     *)

RowIds == [of : Saves, n : Nat]
Bytes == Piece \union {Hole}

LEMMA RowsType ==
  ASSUME NEW f \in Seq(Bytes)
  PROVE  Rows(f) \in Seq(RowIds)
<1> DEFINE ends == Kept(f, RowEnds)
<1>1. ends \in Seq(Bytes \intersect RowEnds)
  BY KeptType
<1>2. Len(ends) \in Nat /\ \A i \in 1 .. Len(ends) : ends[i] \in RowEnds
  BY <1>1, LenProperties
<1>3. \A i \in 1 .. Len(ends) : ends[i].row \in RowIds
  BY <1>2 DEF RowEnds, RowIds
<1> HIDE DEF ends
<1>4. [i \in 1 .. Len(ends) |-> ends[i].row] \in Seq(RowIds)
  BY <1>2, <1>3
<1>q. QED BY <1>4 DEF Rows, ends

LEMMA RowsConcat ==
  ASSUME NEW f \in Seq(Bytes), NEW g \in Seq(Bytes)
  PROVE  Rows(f \o g) = Rows(f) \o Rows(g)
<1> DEFINE a == Kept(f, RowEnds)
           b == Kept(g, RowEnds)
           c == Kept(f \o g, RowEnds)
           rows(s) == [i \in 1 .. Len(s) |-> s[i].row]
           E == Bytes \intersect RowEnds
<1>1. a \in Seq(E) /\ b \in Seq(E) /\ c = a \o b
  BY KeptType, KeptConcat
<1> HIDE DEF a, b, c, E
<1>2. /\ Len(a) \in Nat /\ Len(b) \in Nat /\ Len(c) = Len(a) + Len(b)
      /\ \A i \in 1 .. Len(c) : c[i] = IF i <= Len(a) THEN a[i] ELSE b[i - Len(a)]
  BY <1>1, LenProperties, ConcatProperties
<1>3. /\ \A i \in 1 .. Len(a) : a[i].row \in RowIds
      /\ \A i \in 1 .. Len(b) : b[i].row \in RowIds
  BY <1>1, ElementOfSeq DEF E, RowEnds, RowIds
<1>4. rows(a) \in Seq(RowIds) /\ rows(b) \in Seq(RowIds)
  BY <1>2, <1>3
<1>5. Len(rows(a)) = Len(a) /\ Len(rows(b)) = Len(b)
  BY <1>2
<1>6. rows(c) = rows(a) \o rows(b)
  <2> DEFINE u == rows(a)
             v == rows(b)
             w == rows(c)
  <2>1. u \in Seq(RowIds) /\ v \in Seq(RowIds)
    BY <1>4
  <2>2. /\ Len(u) = Len(a) /\ \A i \in 1 .. Len(a) : u[i] = a[i].row
        /\ Len(v) = Len(b) /\ \A i \in 1 .. Len(b) : v[i] = b[i].row
    BY <1>5
  <2>3. \A i \in 1 .. Len(c) : w[i] = c[i].row
    OBVIOUS
  <2>4. w \in Seq(RowIds) /\ Len(w) = Len(c)
    <3>1. \A i \in 1 .. Len(c) : c[i].row \in RowIds
      BY <1>2, <1>3
    <3>q. QED BY <1>2, <3>1
  <2> HIDE DEF u, v, w
  <2>5. /\ u \o v \in Seq(RowIds) /\ Len(u \o v) = Len(u) + Len(v)
        /\ \A i \in 1 .. Len(u) + Len(v) :
              (u \o v)[i] = IF i <= Len(u) THEN u[i] ELSE v[i - Len(u)]
    BY <2>1, ConcatProperties
  <2> DEFINE x == u \o v
  <2>6. /\ x \in Seq(RowIds) /\ Len(x) = Len(c)
        /\ \A i \in 1 .. Len(c) : x[i] = IF i <= Len(a) THEN u[i] ELSE v[i - Len(a)]
    BY <1>2, <2>2, <2>5
  <2> HIDE DEF x
  <2>7. ASSUME NEW i \in 1 .. Len(c)
        PROVE  x[i] = w[i]
    <3>1. CASE i <= Len(a)
      <4>1. i \in 1 .. Len(a)
        BY <1>2, <3>1
      <4>q. QED BY <1>2, <2>2, <2>3, <2>6, <3>1, <4>1
    <3>2. CASE ~(i <= Len(a))
      <4>1. i - Len(a) \in 1 .. Len(b)
        BY <1>2, <3>2
      <4>q. QED BY <1>2, <2>2, <2>3, <2>6, <3>2, <4>1
    <3>q. QED BY <3>1, <3>2
  <2>8. x = w
    BY <2>4, <2>6, <2>7, SeqEqual
  <2>q. QED BY <2>8 DEF u, v, w, x
<1>q. QED BY <1>6 DEF Rows, a, b, c

LEMMA RowsEmpty == Rows(<< >>) = << >>
<1>1. Kept(<< >>, RowEnds) = << >> /\ Len(<< >>) = 0
  BY KeptEmpty
<1>q. QED BY <1>1 DEF Rows

LEMMA RowsOne ==
  ASSUME NEW x
  PROVE  Rows(<<x>>) = IF x \in RowEnds THEN <<x.row>> ELSE << >>
<1>1. CASE x \in RowEnds
  <2>1. Kept(<<x>>, RowEnds) = <<x>>
    BY <1>1, KeptOne
  <2>2. [i \in 1 .. Len(<<x>>) |-> <<x>>[i].row] = <<x.row>>
    OBVIOUS
  <2>q. QED BY <1>1, <2>1, <2>2 DEF Rows
<1>2. CASE x \notin RowEnds
  <2>1. Kept(<<x>>, RowEnds) = << >>
    BY <1>2, KeptOne
  <2>q. QED BY <1>2, <2>1 DEF Rows
<1>q. QED BY <1>1, <1>2

(* What is written besides rows.                                           *)
Frame == {OpenBracket, Comma, CloseBracket, Header, Magic, Footer}

LEMMA FrameHasNoRows ==
  ASSUME NEW x \in Frame
  PROVE  <<x>> \in Seq(Bytes) /\ Rows(<<x>>) = << >>
<1>1. x \in Bytes
  BY DEF Frame, Bytes, Piece
<1>2. x.t # "part"
  <2>1. \/ x = OpenBracket \/ x = Comma \/ x = CloseBracket
        \/ x = Header \/ x = Magic \/ x = Footer
    BY DEF Frame
  <2>q. QED BY <2>1 DEF OpenBracket, Comma, CloseBracket, Header, Magic, Footer
<1>3. x \notin RowEnds
  BY <1>2 DEF RowEnds
<1>4. <<x>> \in Seq(Bytes)
  BY <1>1
<1>q. QED BY <1>3, <1>4, RowsOne

LEMMA LeadHasNoRows ==
  /\ Lead \in Seq(Bytes) /\ Rows(Lead) = << >>
  /\ Closing \in Seq(Bytes) /\ Rows(Closing) = << >>
<1>1. \E x \in Frame : Lead = <<x>>
  BY DEF Lead, Frame
<1>2. Closing = << >> \/ \E x \in Frame : Closing = <<x>>
  BY DEF Closing, Frame
<1>3. << >> \in Seq(Bytes)
  BY EmptySeq
<1>q. QED BY <1>1, <1>2, <1>3, FrameHasNoRows, RowsEmpty

(* The two halves of a row bring one row.                                  *)
LEMMA PartsBringRow ==
  ASSUME NEW r \in RowIds
  PROVE  /\ <<Part(r, 1), Part(r, 2)>> \in Seq(Bytes)
         /\ Rows(<<Part(r, 1), Part(r, 2)>>) = <<r>>
<1>1. Part(r, 1) \in Bytes /\ Part(r, 2) \in Bytes
  BY DEF Part, Bytes, Piece, RowIds
<1>2. Part(r, 1) \notin RowEnds /\ Part(r, 2) \in RowEnds /\ Part(r, 2).row = r
  BY DEF Part, RowEnds, RowIds
<1> DEFINE p == Part(r, 1)
           q == Part(r, 2)
<1>3. Rows(<<p>>) = << >> /\ Rows(<<q>>) = <<r>>
  BY <1>2, RowsOne
<1> HIDE DEF p, q
<1>4. <<p>> \in Seq(Bytes) /\ <<q>> \in Seq(Bytes) /\ <<p, q>> \in Seq(Bytes)
  BY <1>1 DEF p, q
<1>5. <<p>> \o <<q>> = <<p, q>>
  <2>1. /\ Len(<<p>>) = 1 /\ Len(<<q>>) = 1 /\ <<p>>[1] = p /\ <<q>>[1] = q
        /\ Len(<<p, q>>) = 2 /\ <<p, q>>[1] = p /\ <<p, q>>[2] = q
    OBVIOUS
  <2>2. /\ <<p>> \o <<q>> \in Seq(Bytes) /\ Len(<<p>> \o <<q>>) = 2
        /\ (<<p>> \o <<q>>)[1] = p /\ (<<p>> \o <<q>>)[2] = q
    BY <1>4, <2>1, ConcatProperties
  <2> DEFINE x == <<p>> \o <<q>>
             y == <<p, q>>
  <2>3. /\ x \in Seq(Bytes) /\ y \in Seq(Bytes) /\ Len(x) = 2 /\ Len(y) = 2
        /\ x[1] = y[1] /\ x[2] = y[2]
    BY <1>4, <2>1, <2>2
  <2> HIDE DEF x, y
  <2>4. Len(x) = Len(y) /\ \A i \in 1 .. Len(x) : x[i] = y[i]
    BY <2>3
  <2>5. x = y
    BY <2>3, <2>4, SeqEqual
  <2>q. QED BY <2>5 DEF x, y
<1>6. Rows(<<p>> \o <<q>>) = << >> \o <<r>>
  BY <1>3, <1>4, RowsConcat
<1>7. << >> \o <<r>> = <<r>>
  OBVIOUS
<1>q. QED BY <1>4, <1>5, <1>6, <1>7 DEF p, q

(* How rows are written.                                                   *)

LEMMA PartType ==
  ASSUME NEW r \in RowIds, NEW h \in {1, 2}
  PROVE  Part(r, h) \in Bytes
  BY DEF Part, Bytes, Piece, RowIds

LEMMA PlainPieces ==
  ASSUME NEW rows \in Seq(RowIds)
  PROVE  /\ Plain(rows) \in Seq(Bytes) /\ Len(Plain(rows)) = 2 * Len(rows)
         /\ \A i \in 1 .. Len(rows) : /\ Plain(rows)[2 * i - 1] = Part(rows[i], 1)
                                      /\ Plain(rows)[2 * i] = Part(rows[i], 2)
<1> DEFINE p(i) == Part(rows[(i + 1) \div 2], ((i + 1) % 2) + 1)
           n == 2 * Len(rows)
           s == [i \in 1 .. n |-> p(i)]
<1>1. Len(rows) \in Nat /\ n \in Nat /\ \A i \in 1 .. Len(rows) : rows[i] \in RowIds
  BY LenProperties
<1>2. ASSUME NEW i \in 1 .. n
      PROVE  p(i) \in Bytes
  <2>1. (i + 1) \div 2 \in 1 .. Len(rows) /\ ((i + 1) % 2) + 1 \in {1, 2}
    BY <1>1
  <2>2. rows[(i + 1) \div 2] \in RowIds
    BY <1>1, <2>1
  <2>q. QED BY <2>1, <2>2, PartType
<1>3. ASSUME NEW i \in 1 .. Len(rows)
      PROVE  /\ 2 * i - 1 \in 1 .. n /\ p(2 * i - 1) = Part(rows[i], 1)
             /\ 2 * i \in 1 .. n /\ p(2 * i) = Part(rows[i], 2)
  <2>1. /\ 2 * i - 1 \in 1 .. n /\ 2 * i \in 1 .. n
        /\ (2 * i - 1 + 1) \div 2 = i /\ (2 * i - 1 + 1) % 2 = 0
        /\ (2 * i + 1) \div 2 = i /\ (2 * i + 1) % 2 = 1
    BY <1>1
  <2>q. QED BY <2>1
<1>4. Plain(rows) = s
  BY DEF Plain
<1> HIDE DEF p, n
<1>5. s \in Seq(Bytes) /\ Len(s) = n
  BY <1>1, <1>2
<1>6. ASSUME NEW i \in 1 .. Len(rows)
      PROVE  s[2 * i - 1] = Part(rows[i], 1) /\ s[2 * i] = Part(rows[i], 2)
  BY <1>3
<1>q. QED BY <1>4, <1>5, <1>6 DEF n

LEMMA BracketedPieces ==
  ASSUME NEW rows \in Seq(RowIds)
  PROVE  /\ Bracketed(rows) \in Seq(Bytes) /\ Len(Bracketed(rows)) = 3 * Len(rows)
         /\ \A i \in 1 .. Len(rows) : /\ Bracketed(rows)[3 * i - 2] = Comma
                                      /\ Bracketed(rows)[3 * i - 1] = Part(rows[i], 1)
                                      /\ Bracketed(rows)[3 * i] = Part(rows[i], 2)
<1> DEFINE p(i) == IF i % 3 = 1 THEN Comma ELSE Part(rows[(i + 2) \div 3], ((i + 1) % 3) + 1)
           n == 3 * Len(rows)
           s == [i \in 1 .. n |-> p(i)]
<1>1. Len(rows) \in Nat /\ n \in Nat /\ \A i \in 1 .. Len(rows) : rows[i] \in RowIds
  BY LenProperties
<1>2. ASSUME NEW i \in 1 .. n
      PROVE  p(i) \in Bytes
  <2>1. CASE i % 3 = 1
    BY <2>1 DEF Bytes, Piece
  <2>2. CASE i % 3 # 1
    <3>1. (i + 2) \div 3 \in 1 .. Len(rows) /\ ((i + 1) % 3) + 1 \in {1, 2}
      BY <1>1, <2>2
    <3>2. rows[(i + 2) \div 3] \in RowIds
      BY <1>1, <3>1
    <3>q. QED BY <2>2, <3>1, <3>2, PartType
  <2>q. QED BY <2>1, <2>2
<1>3. ASSUME NEW i \in 1 .. Len(rows)
      PROVE  /\ 3 * i - 2 \in 1 .. n /\ p(3 * i - 2) = Comma
             /\ 3 * i - 1 \in 1 .. n /\ p(3 * i - 1) = Part(rows[i], 1)
             /\ 3 * i \in 1 .. n /\ p(3 * i) = Part(rows[i], 2)
  <2>1. /\ 3 * i - 2 \in 1 .. n /\ 3 * i - 1 \in 1 .. n /\ 3 * i \in 1 .. n
        /\ (3 * i - 2) % 3 = 1 /\ (3 * i - 1) % 3 = 2 /\ (3 * i) % 3 = 0
        /\ (3 * i - 1 + 2) \div 3 = i /\ (3 * i - 1 + 1) % 3 = 0
        /\ (3 * i + 2) \div 3 = i /\ (3 * i + 1) % 3 = 1
    BY <1>1
  <2>q. QED BY <2>1
<1>4. Bracketed(rows) = s
  BY DEF Bracketed
<1> HIDE DEF p, n
<1>5. s \in Seq(Bytes) /\ Len(s) = n
  BY <1>1, <1>2
<1>6. ASSUME NEW i \in 1 .. Len(rows)
      PROVE  /\ s[3 * i - 2] = Comma
             /\ s[3 * i - 1] = Part(rows[i], 1) /\ s[3 * i] = Part(rows[i], 2)
  BY <1>3
<1>q. QED BY <1>4, <1>5, <1>6 DEF n

(* Rows are written one by one.                                            *)
LEMMA PlainConcat ==
  ASSUME NEW a \in Seq(RowIds), NEW b \in Seq(RowIds)
  PROVE  Plain(a \o b) = Plain(a) \o Plain(b)
<1> DEFINE c == a \o b
           u == Plain(a)
           v == Plain(b)
           w == Plain(c)
<1>1. /\ Len(a) \in Nat /\ Len(b) \in Nat /\ Len(c) = Len(a) + Len(b) /\ c \in Seq(RowIds)
      /\ \A i \in 1 .. Len(a) : c[i] = a[i]
      /\ \A i \in 1 .. Len(b) : c[Len(a) + i] = b[i]
  BY LenProperties, ConcatProperties
<1> HIDE DEF c
<1>2. /\ u \in Seq(Bytes) /\ Len(u) = 2 * Len(a)
      /\ \A i \in 1 .. Len(a) : u[2 * i - 1] = Part(a[i], 1) /\ u[2 * i] = Part(a[i], 2)
      /\ v \in Seq(Bytes) /\ Len(v) = 2 * Len(b)
      /\ \A i \in 1 .. Len(b) : v[2 * i - 1] = Part(b[i], 1) /\ v[2 * i] = Part(b[i], 2)
      /\ w \in Seq(Bytes) /\ Len(w) = 2 * Len(c)
      /\ \A i \in 1 .. Len(c) : w[2 * i - 1] = Part(c[i], 1) /\ w[2 * i] = Part(c[i], 2)
  BY <1>1, PlainPieces
<1> HIDE DEF u, v, w
<1> DEFINE x == u \o v
<1>3. /\ x \in Seq(Bytes) /\ Len(x) = Len(u) + Len(v)
      /\ \A i \in 1 .. Len(u) + Len(v) :
            x[i] = IF i <= Len(u) THEN u[i] ELSE v[i - Len(u)]
  <2>1. u \in Seq(Bytes) /\ v \in Seq(Bytes)
    BY <1>2
  <2>q. QED BY <2>1, ConcatProperties
<1> HIDE DEF x
<1>n. /\ Len(a) \in Nat /\ Len(b) \in Nat /\ Len(c) = Len(a) + Len(b)
      /\ Len(u) = 2 * Len(a) /\ Len(v) = 2 * Len(b) /\ Len(w) = 2 * Len(c)
  BY <1>1, <1>2
<1>4. ASSUME NEW k \in 1 .. Len(w)
      PROVE  w[k] = x[k]
  <2>1. PICK i \in 1 .. Len(c) : k = 2 * i - 1 \/ k = 2 * i
    <3> DEFINE i == (k + 1) \div 2
    <3>1. i \in 1 .. Len(c) /\ (k = 2 * i - 1 \/ k = 2 * i)
      BY <1>n
    <3> HIDE DEF i
    <3>q. QED BY <3>1
  <2>2. CASE i <= Len(a)
    <3>1. i \in 1 .. Len(a) /\ k \in 1 .. Len(u) /\ k \in 1 .. Len(u) + Len(v) /\ k <= Len(u)
      BY <1>n, <2>1, <2>2
    <3>2. x[k] = u[k] /\ c[i] = a[i]
      BY <1>1, <1>3, <3>1
    <3>q. QED BY <1>2, <2>1, <3>1, <3>2
  <2>3. CASE ~(i <= Len(a))
    <3> DEFINE j == i - Len(a)
               l == k - Len(u)
    <3>0. i \in Nat /\ k \in Nat /\ Len(u) \in Nat /\ Len(v) \in Nat
      BY <1>n
    <3>1. j \in 1 .. Len(b) /\ l \in 1 .. Len(v) /\ i = Len(a) + j /\ k = Len(u) + l
          /\ (k = 2 * i - 1 => l = 2 * j - 1) /\ (k = 2 * i => l = 2 * j)
      BY <1>n, <2>1, <2>3, <3>0
    <3>2. k \in 1 .. Len(u) + Len(v) /\ ~(k <= Len(u)) /\ l = k - Len(u)
      BY <1>n, <3>1
    <3> HIDE DEF j, l
    <3>3. c[i] = b[j]
      <4>1. c[Len(a) + j] = b[j]
        BY <1>1, <3>1
      <4>q. QED BY <3>1, <4>1
    <3>4. x[k] = v[l]
      BY <1>3, <3>2
    <3>q. QED BY <1>2, <2>1, <3>1, <3>3, <3>4
  <2>q. QED BY <2>2, <2>3
<1>5. Len(w) = Len(x)
  BY <1>3, <1>n
<1>6. w = x
  BY <1>2, <1>3, <1>4, <1>5, SeqEqual
<1>q. QED BY <1>6 DEF c, u, v, w, x

LEMMA BracketedConcat ==
  ASSUME NEW a \in Seq(RowIds), NEW b \in Seq(RowIds)
  PROVE  Bracketed(a \o b) = Bracketed(a) \o Bracketed(b)
<1> DEFINE c == a \o b
           u == Bracketed(a)
           v == Bracketed(b)
           w == Bracketed(c)
<1>1. /\ Len(a) \in Nat /\ Len(b) \in Nat /\ Len(c) = Len(a) + Len(b) /\ c \in Seq(RowIds)
      /\ \A i \in 1 .. Len(a) : c[i] = a[i]
      /\ \A i \in 1 .. Len(b) : c[Len(a) + i] = b[i]
  BY LenProperties, ConcatProperties
<1> HIDE DEF c
<1>2. /\ u \in Seq(Bytes) /\ Len(u) = 3 * Len(a)
      /\ \A i \in 1 .. Len(a) : /\ u[3 * i - 2] = Comma
                                /\ u[3 * i - 1] = Part(a[i], 1) /\ u[3 * i] = Part(a[i], 2)
      /\ v \in Seq(Bytes) /\ Len(v) = 3 * Len(b)
      /\ \A i \in 1 .. Len(b) : /\ v[3 * i - 2] = Comma
                                /\ v[3 * i - 1] = Part(b[i], 1) /\ v[3 * i] = Part(b[i], 2)
      /\ w \in Seq(Bytes) /\ Len(w) = 3 * Len(c)
      /\ \A i \in 1 .. Len(c) : /\ w[3 * i - 2] = Comma
                                /\ w[3 * i - 1] = Part(c[i], 1) /\ w[3 * i] = Part(c[i], 2)
  BY <1>1, BracketedPieces
<1> HIDE DEF u, v, w
<1> DEFINE x == u \o v
<1>3. /\ x \in Seq(Bytes) /\ Len(x) = Len(u) + Len(v)
      /\ \A i \in 1 .. Len(u) + Len(v) :
            x[i] = IF i <= Len(u) THEN u[i] ELSE v[i - Len(u)]
  <2>1. u \in Seq(Bytes) /\ v \in Seq(Bytes)
    BY <1>2
  <2>q. QED BY <2>1, ConcatProperties
<1> HIDE DEF x
<1>n. /\ Len(a) \in Nat /\ Len(b) \in Nat /\ Len(c) = Len(a) + Len(b)
      /\ Len(u) = 3 * Len(a) /\ Len(v) = 3 * Len(b) /\ Len(w) = 3 * Len(c)
  BY <1>1, <1>2
<1>4. ASSUME NEW k \in 1 .. Len(w)
      PROVE  w[k] = x[k]
  <2>1. PICK i \in 1 .. Len(c) : k = 3 * i - 2 \/ k = 3 * i - 1 \/ k = 3 * i
    <3> DEFINE i == (k + 2) \div 3
    <3>1. i \in 1 .. Len(c) /\ (k = 3 * i - 2 \/ k = 3 * i - 1 \/ k = 3 * i)
      BY <1>n
    <3> HIDE DEF i
    <3>q. QED BY <3>1
  <2>2. CASE i <= Len(a)
    <3>1. i \in 1 .. Len(a) /\ k \in 1 .. Len(u) /\ k \in 1 .. Len(u) + Len(v) /\ k <= Len(u)
      BY <1>n, <2>1, <2>2
    <3>2. x[k] = u[k] /\ c[i] = a[i]
      BY <1>1, <1>3, <3>1
    <3>q. QED BY <1>2, <2>1, <3>1, <3>2
  <2>3. CASE ~(i <= Len(a))
    <3> DEFINE j == i - Len(a)
               l == k - Len(u)
    <3>0. i \in Nat /\ k \in Nat /\ Len(u) \in Nat /\ Len(v) \in Nat
      BY <1>n
    <3>1. j \in 1 .. Len(b) /\ l \in 1 .. Len(v) /\ i = Len(a) + j /\ k = Len(u) + l
          /\ (k = 3 * i - 2 => l = 3 * j - 2)
          /\ (k = 3 * i - 1 => l = 3 * j - 1) /\ (k = 3 * i => l = 3 * j)
      BY <1>n, <2>1, <2>3, <3>0
    <3>2. k \in 1 .. Len(u) + Len(v) /\ ~(k <= Len(u)) /\ l = k - Len(u)
      BY <1>n, <3>1
    <3> HIDE DEF j, l
    <3>3. c[i] = b[j]
      <4>1. c[Len(a) + j] = b[j]
        BY <1>1, <3>1
      <4>q. QED BY <3>1, <4>1
    <3>4. x[k] = v[l]
      BY <1>3, <3>2
    <3>q. QED BY <1>2, <2>1, <3>1, <3>3, <3>4
  <2>q. QED BY <2>2, <2>3
<1>5. Len(w) = Len(x)
  BY <1>3, <1>n
<1>6. w = x
  BY <1>2, <1>3, <1>4, <1>5, SeqEqual
<1>q. QED BY <1>6 DEF c, u, v, w, x

LEMMA PlainRows ==
  ASSUME NEW rows \in Seq(RowIds)
  PROVE  Rows(Plain(rows)) = rows
<1> DEFINE T == {s \in Seq(RowIds) : Rows(Plain(s)) = s}
<1>1. << >> \in T
  <2>1. Plain(<< >>) = << >>
    BY DEF Plain
  <2>q. QED BY <2>1, RowsEmpty, EmptySeq
<1>2. ASSUME NEW s \in Seq(RowIds), NEW x \in RowIds, s \in T
      PROVE  s \o <<x>> \in T
  <2> DEFINE one == <<x>>
  <2>1. one \in Seq(RowIds) /\ Len(one) = 1 /\ one[1] = x
    OBVIOUS
  <2>2. Plain(one) = <<Part(x, 1), Part(x, 2)>>
    BY <2>1 DEF Plain
  <2>3. Plain(one) \in Seq(Bytes) /\ Rows(Plain(one)) = one
    BY <2>2, PartsBringRow
  <2> HIDE DEF one
  <2>4. Plain(s \o one) = Plain(s) \o Plain(one) /\ Plain(s) \in Seq(Bytes)
    BY <2>1, PlainConcat, PlainPieces
  <2>5. Rows(Plain(s \o one)) = s \o one
    BY <1>2, <2>3, <2>4, RowsConcat
  <2>6. s \o one \in Seq(RowIds)
    BY <2>1, ConcatProperties
  <2>q. QED BY <2>5, <2>6 DEF one
<1>3. rows \in T
  <2> HIDE DEF T
  <2>q. QED BY <1>1, <1>2, SeqClimb
<1>q. QED BY <1>3

LEMMA BracketedRows ==
  ASSUME NEW rows \in Seq(RowIds)
  PROVE  Rows(Bracketed(rows)) = rows
<1> DEFINE T == {s \in Seq(RowIds) : Rows(Bracketed(s)) = s}
<1>1. << >> \in T
  <2>1. Bracketed(<< >>) = << >>
    BY DEF Bracketed
  <2>q. QED BY <2>1, RowsEmpty, EmptySeq
<1>2. ASSUME NEW s \in Seq(RowIds), NEW x \in RowIds, s \in T
      PROVE  s \o <<x>> \in T
  <2> DEFINE one == <<x>>
             halves == <<Part(x, 1), Part(x, 2)>>
             comma == <<Comma>>
  <2>1. one \in Seq(RowIds) /\ Len(one) = 1 /\ one[1] = x
    OBVIOUS
  <2>2. halves \in Seq(Bytes) /\ Rows(halves) = one
    BY PartsBringRow
  <2>3. comma \in Seq(Bytes) /\ Rows(comma) = << >>
    BY FrameHasNoRows DEF Frame
  <2>4. Bracketed(one) = comma \o halves
    <3> DEFINE u == Bracketed(one)
               v == comma \o halves
    <3>1. /\ u \in Seq(Bytes) /\ Len(u) = 3 * Len(one)
          /\ \A i \in 1 .. Len(one) : u[3 * i - 2] = Comma
                                      /\ u[3 * i - 1] = Part(one[i], 1)
                                      /\ u[3 * i] = Part(one[i], 2)
      BY <2>1, BracketedPieces
    <3>2. u[1] = Comma /\ u[2] = Part(x, 1) /\ u[3] = Part(x, 2) /\ Len(u) = 3
      <4>1. 1 \in 1 .. Len(one) /\ 3 * 1 - 2 = 1 /\ 3 * 1 - 1 = 2 /\ 3 * 1 = 3
        BY <2>1
      <4>q. QED BY <2>1, <3>1, <4>1
    <3>3. /\ Len(comma) = 1 /\ comma[1] = Comma /\ Len(halves) = 2
          /\ halves[1] = Part(x, 1) /\ halves[2] = Part(x, 2)
      OBVIOUS
    <3> HIDE DEF u, comma, halves
    <3>4. /\ v \in Seq(Bytes) /\ Len(v) = Len(comma) + Len(halves)
          /\ \A i \in 1 .. Len(comma) + Len(halves) :
                v[i] = IF i <= Len(comma) THEN comma[i] ELSE halves[i - Len(comma)]
      BY <2>2, <2>3, ConcatProperties
    <3> HIDE DEF v
    <3>5. v[1] = Comma /\ v[2] = Part(x, 1) /\ v[3] = Part(x, 2) /\ Len(v) = 3
      BY <3>3, <3>4
    <3>6. Len(u) = Len(v) /\ \A i \in 1 .. Len(u) : u[i] = v[i]
      BY <3>2, <3>5
    <3>7. u = v
      BY <3>1, <3>4, <3>6, SeqEqual
    <3>q. QED BY <3>7 DEF u, v, comma, halves
  <2> HIDE DEF one, halves, comma
  <2>5. Bracketed(one) \in Seq(Bytes) /\ Rows(Bracketed(one)) = one
    <3>1. Rows(comma \o halves) = << >> \o one
      BY <2>2, <2>3, RowsConcat
    <3>q. QED BY <2>1, <2>4, <3>1, BracketedPieces, ConcatEmptySeq
  <2>6. Bracketed(s \o one) = Bracketed(s) \o Bracketed(one) /\ Bracketed(s) \in Seq(Bytes)
    BY <2>1, BracketedConcat, BracketedPieces
  <2>7. Rows(Bracketed(s \o one)) = s \o one
    BY <1>2, <2>5, <2>6, RowsConcat
  <2>8. s \o one \in Seq(RowIds)
    BY <2>1, ConcatProperties
  <2>q. QED BY <2>7, <2>8 DEF one
<1>3. rows \in T
  <2> HIDE DEF T
  <2>q. QED BY <1>1, <1>2, SeqClimb
<1>q. QED BY <1>3

(* The rows of a batch are written whole and in order, whatever the format *)
(* and whatever was written before.                                        *)
LEMMA RowPiecesRows ==
  ASSUME NEW rows \in Seq(RowIds), NEW begun
  PROVE  RowPieces(rows, begun) \in Seq(Bytes) /\ Rows(RowPieces(rows, begun)) = rows
<1>1. CASE format # "json"
  BY <1>1, PlainPieces, PlainRows DEF RowPieces
<1>2. CASE format = "json" /\ (begun \/ rows = << >>)
  BY <1>2, BracketedPieces, BracketedRows DEF RowPieces
<1>3. CASE format = "json" /\ ~(begun \/ rows = << >>)
  <2> DEFINE b == Bracketed(rows)
             comma == <<Comma>>
  <2>1. /\ b \in Seq(Bytes) /\ Rows(b) = rows /\ Len(b) = 3 * Len(rows)
        /\ \A i \in 1 .. Len(rows) : b[3 * i - 2] = Comma
    BY BracketedPieces, BracketedRows
  <2>2. Len(rows) \in Nat /\ Len(rows) # 0
    BY <1>3
  <2>3. Len(b) > 0 /\ b[1] = Comma /\ b # << >>
    <3>1. 1 \in 1 .. Len(rows) /\ 3 * 1 - 2 = 1
      BY <2>2
    <3>q. QED BY <2>1, <2>2, <3>1
  <2>4. comma \in Seq(Bytes) /\ Rows(comma) = << >>
    BY FrameHasNoRows DEF Frame
  <2> HIDE DEF b
  <2>5. b = comma \o Tail(b) /\ Tail(b) \in Seq(Bytes)
    BY <2>1, <2>3
  <2> HIDE DEF comma
  <2>6. Rows(b) = << >> \o Rows(Tail(b))
    BY <2>4, <2>5, RowsConcat
  <2>7. Rows(Tail(b)) = rows
    BY <2>1, <2>5, <2>6, RowsType, ConcatEmptySeq
  <2>8. RowPieces(rows, begun) = Tail(b)
    BY <1>3 DEF RowPieces, b
  <2>q. QED BY <2>5, <2>7, <2>8
<1>q. QED BY <1>1, <1>2, <1>3

-----------------------------------------------------------------------------
(* Writing at the end of a file.                                           *)

LEMMA WrittenAtEnd ==
  ASSUME NEW S, NEW f \in Seq(S), NEW bytes \in Seq(S)
  PROVE  WrittenAt(f, Len(f), bytes) = f \o bytes
<1> DEFINE n == IF Len(f) + Len(bytes) > Len(f) THEN Len(f) + Len(bytes) ELSE Len(f)
           p(i) == IF i > Len(f) /\ i <= Len(f) + Len(bytes) THEN bytes[i - Len(f)]
                   ELSE IF i <= Len(f) THEN f[i] ELSE Hole
           u == [i \in 1 .. n |-> p(i)]
           v == f \o bytes
<1>1. Len(f) \in Nat /\ Len(bytes) \in Nat
  BY LenProperties
<1>2. n = Len(f) + Len(bytes)
  BY <1>1
<1>3. /\ v \in Seq(S) /\ Len(v) = Len(f) + Len(bytes)
      /\ \A i \in 1 .. Len(f) + Len(bytes) :
            v[i] = IF i <= Len(f) THEN f[i] ELSE bytes[i - Len(f)]
  BY ConcatProperties
<1>4. ASSUME NEW i \in 1 .. n
      PROVE  p(i) = v[i]
  <2> HIDE DEF v
  <2>1. i \in Nat /\ i <= Len(f) + Len(bytes) /\ i \in 1 .. Len(f) + Len(bytes)
    BY <1>1, <1>2
  <2>q. QED BY <1>1, <1>3, <2>1
<1>5. v = [i \in 1 .. n |-> v[i]]
  <2>1. v \in Seq(S) /\ Len(v) = n
    BY <1>2, <1>3
  <2> HIDE DEF v, n
  <2>2. v \in [1 .. n -> S]
    BY <2>1, LenProperties
  <2>q. QED BY <2>2
<1>6. u = v
  <2> HIDE DEF p, v, n
  <2>q. QED BY <1>4, <1>5
<1>q. QED BY <1>6 DEF WrittenAt

LEMMA WrittenAtType ==
  ASSUME NEW f \in Seq(Bytes), NEW pos \in Nat, NEW bytes \in Seq(Bytes)
  PROVE  WrittenAt(f, pos, bytes) \in Seq(Bytes)
<1> DEFINE n == IF pos + Len(bytes) > Len(f) THEN pos + Len(bytes) ELSE Len(f)
           p(i) == IF i > pos /\ i <= pos + Len(bytes) THEN bytes[i - pos]
                   ELSE IF i <= Len(f) THEN f[i] ELSE Hole
<1>1. /\ Len(f) \in Nat /\ Len(bytes) \in Nat
      /\ \A i \in 1 .. Len(f) : f[i] \in Bytes
      /\ \A i \in 1 .. Len(bytes) : bytes[i] \in Bytes
  BY LenProperties
<1>2. n \in Nat
  BY <1>1
<1>3. ASSUME NEW i \in 1 .. n
      PROVE  p(i) \in Bytes
  <2>1. CASE i > pos /\ i <= pos + Len(bytes)
    <3>1. i - pos \in 1 .. Len(bytes)
      BY <1>1, <1>2, <2>1
    <3>q. QED BY <1>1, <2>1, <3>1
  <2>2. CASE ~(i > pos /\ i <= pos + Len(bytes)) /\ i <= Len(f)
    <3>1. i \in 1 .. Len(f)
      BY <1>1, <1>2, <2>2
    <3>q. QED BY <1>1, <2>2, <3>1
  <2>3. CASE ~(i > pos /\ i <= pos + Len(bytes)) /\ ~(i <= Len(f))
    BY <2>3 DEF Bytes
  <2>q. QED BY <2>1, <2>2, <2>3
<1>4. [i \in 1 .. n |-> p(i)] \in Seq(Bytes)
  <2> HIDE DEF n, p
  <2>q. QED BY <1>2, <1>3
<1>q. QED BY <1>4 DEF WrittenAt

LEMMA CutOff ==
  ASSUME NEW S, NEW s \in Seq(S), NEW m \in 0 .. Len(s)
  PROVE  /\ SubSeq(s, 1, m) \in Seq(S) /\ SubSeq(s, m + 1, Len(s)) \in Seq(S)
         /\ SubSeq(s, 1, m) \o SubSeq(s, m + 1, Len(s)) = s
<1>1. Len(s) \in Nat /\ \A i \in 1 .. Len(s) : s[i] \in S
  BY LenProperties
<1>2. \A i \in 1 .. m : s[i] \in S
  BY <1>1
<1>3. \A i \in m + 1 .. Len(s) : s[i] \in S
  BY <1>1
<1>4. SubSeq(s, 1, m) \in Seq(S) /\ SubSeq(s, m + 1, Len(s)) \in Seq(S)
  BY <1>1, <1>2, <1>3, SubSeqProperties
<1>5. SubSeq(s, 1, m) \o SubSeq(s, m + 1, Len(s)) = SubSeq(s, 1, Len(s))
  <2>1. 1 \in 1 .. Len(s) + 1 /\ m \in 1 - 1 .. Len(s) /\ Len(s) \in m .. Len(s)
    BY <1>1
  <2>q. QED BY <2>1, ConcatAdjacentSubSeq
<1>q. QED BY <1>4, <1>5, SubSeqFull

-----------------------------------------------------------------------------
(* The types, and what a single save knows of the file.                    *)

(* Pieces and, should saves overwrite one another, holes.                  *)
WriterState ==
    [pc : {"new", "opening", "writing", "ok", "err"}, begun : BOOLEAN,
     buffer : Seq(Bytes), pos : Nat, given : 0 .. MaxRows, before : Seq(Bytes)]
WriterType ==
    /\ file \in Seq(Bytes)
    /\ format \in Formats
    /\ mode \in [Saves -> Modes]
    /\ save \in [Saves -> WriterState]

LEMMA NewRowsType ==
  ASSUME WriterType, NEW k \in Saves, NEW n \in Nat
  PROVE  NewRows(k, n) \in Seq(RowIds)
<1>1. save[k].given \in Nat
  BY WriterAssumption DEF WriterAssumption, WriterType, WriterState
<1>2. \A i \in 1 .. n : Row(k, save[k].given + i) \in RowIds
  BY <1>1 DEF Row, RowIds
<1>q. QED BY <1>2 DEF NewRows

LEMMA RemainingType ==
  ASSUME WriterType, NEW k \in Saves
  PROVE  /\ LeadDue(k) \in Seq(Bytes) /\ Rows(LeadDue(k)) = << >>
         /\ save[k].buffer \in Seq(Bytes)
         /\ Remaining(k) \in Seq(Bytes) /\ Rows(Remaining(k)) = Rows(save[k].buffer)
<1>1. LeadDue(k) \in Seq(Bytes) /\ Rows(LeadDue(k)) = << >>
  BY LeadHasNoRows, RowsEmpty, EmptySeq DEF LeadDue
<1>2. save[k].buffer \in Seq(Bytes)
  BY DEF WriterType, WriterState
<1> DEFINE b == save[k].buffer
           l == LeadDue(k)
           c == Closing
<1>3. b \in Seq(Bytes) /\ l \in Seq(Bytes) /\ c \in Seq(Bytes)
      /\ Rows(l) = << >> /\ Rows(c) = << >> /\ Rows(b) \in Seq(RowIds)
  BY <1>1, <1>2, LeadHasNoRows, RowsType
<1> HIDE DEF b, l, c
<1>4. b \o l \in Seq(Bytes) /\ (b \o l) \o c \in Seq(Bytes)
  BY <1>3, ConcatProperties
<1>5. Rows((b \o l) \o c) = (Rows(b) \o Rows(l)) \o Rows(c)
  BY <1>3, <1>4, RowsConcat
<1>6. Rows((b \o l) \o c) = Rows(b)
  BY <1>3, <1>5, ConcatEmptySeq
<1>7. Remaining(k) = (b \o l) \o c
  BY DEF Remaining, b, l, c
<1>q. QED BY <1>1, <1>2, <1>4, <1>6, <1>7 DEF b

LEMMA FileAfterType ==
  ASSUME WriterType, NEW k \in Saves, NEW m \in 0 .. Len(Remaining(k))
  PROVE  FileAfter(k, m) \in Seq(Bytes)
<1>1. SubSeq(Remaining(k), 1, m) \in Seq(Bytes)
  BY RemainingType, CutOff
<1>2. Where(k) \in Nat /\ file \in Seq(Bytes)
  BY LenProperties DEF Where, WriterType, WriterState
<1>q. QED BY <1>1, <1>2, WrittenAtType DEF FileAfter

LEMMA OpenedType ==
  ASSUME WriterType, NEW k \in Saves, save[k].pc = "opening"
  PROVE  Opened(k) \in Seq(Bytes)
<1>1. file \in Seq(Bytes) /\ format \in {"csv", "excel", "json", "orc", "parquet"}
      /\ mode[k] \in {"overwrite", "append"}
  BY WriterAssumption DEF WriterAssumption, WriterType
<1>2. <<OpenBracket>> \in Seq(Bytes) /\ << >> \in Seq(Bytes)
  BY FrameHasNoRows, EmptySeq DEF Frame
<1>3. file # << >> => CutBracket(file) \in Seq(Bytes)
  <2> SUFFICES ASSUME file # << >> PROVE Front(file) \in Seq(Bytes)
    BY <1>1 DEF CutBracket
  <2>1. Len(file) - 1 \in 0 .. Len(file)
    BY <1>1, EmptySeq
  <2>q. QED BY <1>1, <2>1, CutOff DEF Front
<1>q. QED BY <1>1, <1>2, <1>3 DEF Opened

(* How a save may begin.                                                   *)
BeginsWith(k, b) ==
    save' = [save EXCEPT ![k].pc = "opening", ![k].begun = b, ![k].before = file]

LEMMA CheckEffect ==
  ASSUME NEW k \in Saves, Check(k)
  PROVE  /\ save[k].pc = "new" /\ file' = file
         /\ \/ save' = [save EXCEPT ![k].pc = "err"]
            \/ Accepts(k) /\ \E b \in BOOLEAN : b \in LooksBegun(k) /\ BeginsWith(k, b)
<1>1. LooksBegun(k) \subseteq BOOLEAN
  BY DEF LooksBegun, Begun
<1>q. QED BY <1>1 DEF Check, BeginsWith

(* What each step does to the file and to its own writer.                  *)
LEMMA StepEffect ==
  ASSUME WriterType, NEW k \in Saves, Step(k)
  PROVE  /\ UNCHANGED <<format, mode>>
         /\ save' = [save EXCEPT ![k] = save'[k]] /\ save'[k] \in WriterState
         /\ file' \in Seq(Bytes)
<1> DEFINE w == save[k]
<1>0. /\ w \in WriterState /\ file \in Seq(Bytes) /\ Len(file) \in Nat
      /\ save \in [Saves -> WriterState] /\ << >> \in Seq(Bytes)
  BY LenProperties, EmptySeq DEF WriterType
<1>1. CASE Check(k)
  <2>1. UNCHANGED <<file, format, mode>>
    BY <1>1 DEF Check
  <2>2. ASSUME NEW b \in BOOLEAN, BeginsWith(k, b)
        PROVE  save' = [save EXCEPT ![k] = save'[k]] /\ save'[k] \in WriterState
    <3> DEFINE f == file
    <3>1. f \in Seq(Bytes) /\ save' = [save EXCEPT ![k].pc = "opening", ![k].begun = b, ![k].before = f]
      BY <1>0, <2>2 DEF BeginsWith
    <3> HIDE DEF f
    <3>2. save'[k] = [w EXCEPT !.pc = "opening", !.begun = b, !.before = f]
      BY <1>0, <3>1
    <3>3. save' = [save EXCEPT ![k] = save'[k]]
      BY <1>0, <3>1, <3>2
    <3>4. save'[k] \in WriterState
      BY <1>0, <3>1, <3>2 DEF WriterState
    <3>q. QED BY <3>3, <3>4
  <2>3. CASE save' = [save EXCEPT ![k].pc = "err"]
    <3>1. save'[k] = [w EXCEPT !.pc = "err"]
      BY <1>0, <2>3
    <3>2. save' = [save EXCEPT ![k] = save'[k]]
      BY <1>0, <2>3, <3>1
    <3>3. save'[k] \in WriterState
      BY <1>0, <3>1 DEF WriterState
    <3>q. QED BY <1>0, <2>1, <3>2, <3>3
  <2>q. QED BY <1>0, <1>1, <2>1, <2>2, <2>3, CheckEffect
<1>2. CASE Open(k)
  <2>1. file' \in Seq(Bytes) /\ Len(file') \in Nat
    BY <1>2, OpenedType, LenProperties DEF Open
  <2>2. <<OpenBracket>> \in Seq(Bytes)
    BY FrameHasNoRows DEF Frame
  <2>q. QED BY <1>0, <1>2, <2>1, <2>2 DEF Open, WriterState
<1>3. CASE OpenFails(k)
  BY <1>0, <1>3 DEF OpenFails, Ended, NoWriter, WriterState
<1>4. CASE WriteBatch(k)
  <2>1. PICK n \in 0 .. BatchSize :
          /\ w.given + n <= MaxRows
          /\ save' = [save EXCEPT
                ![k].buffer = w.buffer \o LeadDue(k) \o RowPieces(NewRows(k, n), w.begun),
                ![k].begun = w.begun \/ n > 0 \/ format # "json",
                ![k].given = w.given + n]
    BY <1>4 DEF WriteBatch
  <2>2. n \in Nat /\ w.given \in Nat /\ MaxRows \in Nat
    BY <1>0, WriterAssumption DEF WriterAssumption, WriterState
  <2>3. w.buffer \in Seq(Bytes) /\ LeadDue(k) \in Seq(Bytes)
        /\ RowPieces(NewRows(k, n), w.begun) \in Seq(Bytes)
    BY <2>2, RemainingType, NewRowsType, RowPiecesRows
  <2>4. w.buffer \o LeadDue(k) \o RowPieces(NewRows(k, n), w.begun) \in Seq(Bytes)
    BY <2>3, ConcatProperties
  <2>5. w.given + n \in 0 .. MaxRows
    BY <2>1, <2>2
  <2>6. (w.begun \/ n > 0 \/ format # "json") \in BOOLEAN
    OBVIOUS
  <2>7. file' = file /\ UNCHANGED <<format, mode>>
    BY <1>4 DEF WriteBatch
  <2>q. QED BY <1>0, <2>1, <2>4, <2>5, <2>6, <2>7 DEF WriterState
<1>5. CASE Flush(k)
  <2>1. PICK m \in 1 .. Len(w.buffer) :
          /\ file' = WrittenAt(file, Where(k), SubSeq(w.buffer, 1, m))
          /\ save' = [save EXCEPT ![k].buffer = SubSeq(w.buffer, m + 1, Len(w.buffer)),
                                  ![k].pos = Where(k) + m]
    BY <1>5 DEF Flush
  <2>2. w.buffer \in Seq(Bytes) /\ Len(w.buffer) \in Nat /\ m \in 0 .. Len(w.buffer) /\ m \in Nat
    BY <1>0, LenProperties DEF WriterState
  <2>3. SubSeq(w.buffer, 1, m) \in Seq(Bytes) /\ SubSeq(w.buffer, m + 1, Len(w.buffer)) \in Seq(Bytes)
    BY <2>2, CutOff
  <2>4. Where(k) \in Nat /\ Where(k) + m \in Nat
    BY <1>0, <2>2 DEF Where, WriterState
  <2>5. file' \in Seq(Bytes)
    BY <1>0, <2>1, <2>3, <2>4, WrittenAtType
  <2>6. UNCHANGED <<format, mode>>
    BY <1>5 DEF Flush
  <2>q. QED BY <1>0, <2>1, <2>3, <2>4, <2>5, <2>6 DEF WriterState
<1>6. CASE Finish(k) \/ Abandon(k)
  <2>1. Len(Remaining(k)) \in Nat
    BY RemainingType, LenProperties
  <2>2. file' = file \/ \E m \in 0 .. Len(Remaining(k)) : file' = FileAfter(k, m)
    <3>1. CASE Finish(k)
      <4>1. Len(Remaining(k)) \in 0 .. Len(Remaining(k))
        BY <2>1
      <4>q. QED BY <3>1, <4>1 DEF Finish
    <3>q. QED BY <1>6, <3>1 DEF Abandon
  <2>3. file' \in Seq(Bytes)
    BY <1>0, <2>2, FileAfterType
  <2>4. \E answer \in {"ok", "err"} : save' = [save EXCEPT ![k] = Ended(answer, w)]
    BY <1>6 DEF Finish, Abandon
  <2>5. \A answer \in {"ok", "err"} : Ended(answer, w) \in WriterState
    BY <1>0 DEF Ended, NoWriter, WriterState
  <2>6. UNCHANGED <<format, mode>>
    BY <1>6 DEF Finish, Abandon
  <2>q. QED BY <1>0, <2>3, <2>4, <2>5, <2>6
<1>q. QED BY <1>1, <1>2, <1>3, <1>4, <1>5, <1>6 DEF Step

LEMMA InitWriterType == Init => WriterType
<1> SUFFICES ASSUME Init PROVE WriterType
  OBVIOUS
<1>1. << >> \in Seq(Bytes) /\ 0 \in 0 .. MaxRows
  BY EmptySeq, WriterAssumption DEF WriterAssumption
<1>2. NoWriter("new", 0) \in WriterState
  BY <1>1 DEF NoWriter, WriterState
<1>q. QED BY <1>1, <1>2 DEF Init, WriterType

LEMMA NextWriterType == WriterType /\ [Next]_vars => WriterType'
<1> SUFFICES ASSUME WriterType, [Next]_vars PROVE WriterType'
  OBVIOUS
<1>1. ASSUME NEW k \in Saves, Step(k) PROVE WriterType'
  BY <1>1, StepEffect DEF WriterType
<1>2. CASE UNCHANGED vars
  BY <1>2 DEF vars, WriterType
<1>q. QED BY <1>1, <1>2 DEF Next, Finished

-----------------------------------------------------------------------------
(* One save at a time.                                                     *)

(* Without overlap the working save finds the file as it left it: what it  *)
(* found before it opened it, its own end after; the formats that cannot   *)
(* append found nothing.                                                   *)
Alone ==
    /\ \A j, k \in Saves : Working(j) /\ Working(k) => j = k
    /\ \A k \in Saves : Working(k) =>
          /\ mode[k] = "append" /\ format \notin {"csv", "json"} => save[k].before = << >>
          /\ save[k].pc = "opening" \/ format = "excel" => file = save[k].before
          /\ save[k].pc = "writing" /\ format # "excel" => save[k].pos = Len(file)

LEMMA InitAlone == Init => Alone
  BY DEF Init, Alone, Working, NoWriter

(* Only the one that takes a step can be at work after it.                 *)
LEMMA OnlyOne ==
  ASSUME WriterType, Alone, ~Overlap, NEW k \in Saves, Step(k)
  PROVE  /\ \A j \in Saves : j # k => ~Working(j) /\ save'[j] = save[j]
         /\ Check(k) \/ Working(k)
<1>1. Check(k) \/ Working(k)
  BY DEF Step, Open, OpenFails, WriteBatch, Flush, Finish, Abandon, Working
<1>2. \A j \in Saves : j # k => ~Working(j)
  BY <1>1 DEF Alone, Check
<1>3. save' = [save EXCEPT ![k] = save'[k]] /\ save \in [Saves -> WriterState]
  BY StepEffect DEF WriterType
<1>4. \A j \in Saves : j # k => save'[j] = save[j]
  BY <1>3
<1>q. QED BY <1>1, <1>2, <1>4

(* What a working save writes goes to the end of the file.                 *)
LEMMA Appended ==
  ASSUME WriterType, NEW k \in Saves, save[k].pc = "writing", format # "excel",
         (format = "csv" /\ mode[k] = "append") \/ save[k].pos = Len(file),
         NEW bytes \in Seq(Bytes)
  PROVE  WrittenAt(file, Where(k), bytes) = file \o bytes
<1>1. file \in Seq(Bytes) /\ Where(k) = Len(file)
  BY DEF WriterType, Where
<1>q. QED BY <1>1, WrittenAtEnd

LEMMA AloneKept ==
  ASSUME WriterType, Alone, ~Overlap, NEW k \in Saves, Step(k)
  PROVE  Alone'
<1> DEFINE w == save[k]
<1>0. /\ \A j \in Saves : j # k => ~Working(j) /\ save'[j] = save[j]
      /\ w \in WriterState /\ save \in [Saves -> WriterState]
      /\ file \in Seq(Bytes) /\ Len(file) \in Nat
      /\ UNCHANGED <<format, mode>>
  BY OnlyOne, StepEffect, LenProperties DEF WriterType
<1>1. \A j \in Saves : Working(j)' => j = k
  BY <1>0 DEF Working
<1>2. SUFFICES ASSUME save'[k].pc \in {"opening", "writing"}
      PROVE  /\ mode[k] = "append" /\ format \notin {"csv", "json"} => save'[k].before = << >>
             /\ save'[k].pc = "opening" \/ format = "excel" => file' = save'[k].before
             /\ save'[k].pc = "writing" /\ format # "excel" => save'[k].pos = Len(file')
  BY <1>0, <1>1 DEF Alone, Working
<1>3. CASE Check(k)
  <2>1. Accepts(k) /\ \E b \in BOOLEAN : BeginsWith(k, b)
    <3>1. ~ (save' = [save EXCEPT ![k].pc = "err"])
      BY <1>0, <1>2 DEF WriterState
    <3>q. QED BY <1>3, <3>1, CheckEffect
  <2>2. save'[k].pc = "opening" /\ save'[k].before = file
    BY <1>0, <2>1 DEF WriterState, BeginsWith
  <2>3. file' = file
    BY <1>3 DEF Check
  <2>4. mode[k] = "append" /\ format \notin {"csv", "json"} => file = << >>
    BY <2>1 DEF Accepts
  <2>q. QED BY <2>2, <2>3, <2>4
<1>4. ASSUME Working(k), save'[k].before = w.before
      PROVE  mode[k] = "append" /\ format \notin {"csv", "json"} => save'[k].before = << >>
  BY <1>4 DEF Alone
<1>5. CASE Open(k)
  <2>1. /\ save'[k].pc = "writing" /\ save'[k].before = w.before /\ save'[k].pos = Len(file')
        /\ w.pc = "opening" /\ file' = Opened(k)
    BY <1>0, <1>5 DEF Open, WriterState
  <2>2. Working(k)
    BY <2>1 DEF Working
  <2>3. format = "excel" => file' = w.before
    BY <2>1, <2>2 DEF Alone, Opened
  <2>q. QED BY <1>4, <2>1, <2>2, <2>3
<1>6. CASE WriteBatch(k)
  <2>1. /\ save'[k].pc = w.pc /\ save'[k].before = w.before /\ save'[k].pos = w.pos
        /\ w.pc = "writing" /\ file' = file
    BY <1>0, <1>6 DEF WriteBatch, WriterState
  <2>2. Working(k)
    BY <2>1 DEF Working
  <2>q. QED BY <1>4, <2>1, <2>2 DEF Alone
<1>7. CASE Flush(k)
  <2>1. PICK m \in 1 .. Len(w.buffer) :
          /\ file' = WrittenAt(file, Where(k), SubSeq(w.buffer, 1, m))
          /\ save' = [save EXCEPT ![k].buffer = SubSeq(w.buffer, m + 1, Len(w.buffer)),
                                  ![k].pos = Where(k) + m]
    BY <1>7 DEF Flush
  <2>2. w.pc = "writing" /\ format # "excel" /\ Working(k)
    BY <1>7 DEF Flush, Working
  <2>3. w.pos = Len(file) /\ Where(k) = Len(file)
    BY <2>2 DEF Alone, Where
  <2>4. w.buffer \in Seq(Bytes) /\ Len(w.buffer) \in Nat /\ m \in 0 .. Len(w.buffer)
    BY <1>0, LenProperties DEF WriterState
  <2>5. SubSeq(w.buffer, 1, m) \in Seq(Bytes) /\ Len(SubSeq(w.buffer, 1, m)) = m
    BY <2>4, CutOff
  <2> DEFINE part == SubSeq(w.buffer, 1, m)
  <2>6. file' = file \o part
    BY <2>1, <2>2, <2>3, <2>5, Appended
  <2>7. Len(file') = Len(file) + m
    <3> HIDE DEF part
    <3>1. part \in Seq(Bytes) /\ Len(part) = m
      BY <2>5 DEF part
    <3>2. Len(file \o part) = Len(file) + Len(part)
      BY <1>0, <3>1, ConcatProperties
    <3>q. QED BY <2>6, <3>1, <3>2
  <2>8. save'[k].pc = w.pc /\ save'[k].before = w.before /\ save'[k].pos = Where(k) + m
    BY <1>0, <2>1 DEF WriterState
  <2>q. QED BY <1>4, <2>2, <2>3, <2>7, <2>8
<1>8. CASE OpenFails(k) \/ Finish(k) \/ Abandon(k)
  <2>1. \E answer \in {"ok", "err"} : save' = [save EXCEPT ![k] = Ended(answer, w)]
    BY <1>8 DEF OpenFails, Finish, Abandon
  <2>2. save'[k].pc \in {"ok", "err"}
    BY <1>0, <2>1 DEF Ended, NoWriter
  <2>q. QED BY <1>2, <2>2
<1>q. QED BY <1>3, <1>5, <1>6, <1>7, <1>8 DEF Step

WriterInv == WriterType /\ (~Overlap => Alone)

LEMMA InitWriterInv == Init => WriterInv
  BY InitWriterType, InitAlone DEF WriterInv

LEMMA NextWriterInv == WriterInv /\ [Next]_vars => WriterInv'
<1> SUFFICES ASSUME WriterInv, [Next]_vars PROVE WriterInv'
  OBVIOUS
<1>1. WriterType'
  BY NextWriterType DEF WriterInv
<1>2. ASSUME ~Overlap, NEW k \in Saves, Step(k) PROVE Alone'
  BY <1>2, AloneKept DEF WriterInv
<1>3. ASSUME ~Overlap, UNCHANGED vars PROVE Alone'
  BY <1>3 DEF WriterInv, vars, Alone, Working
<1>q. QED BY <1>1, <1>2, <1>3 DEF Next, Finished, WriterInv

LEMMA WriterInvHolds == Spec => []WriterInv
  BY InitWriterInv, NextWriterInv, PTL DEF Spec

-----------------------------------------------------------------------------
(* Appends take nothing away.                                              *)

LEMMA KeepsGrowth ==
  ASSUME NEW f \in Seq(Bytes), NEW b \in Seq(Bytes)
  PROVE  Keeps(f, f \o b) /\ Keeps(f, f)
<1> DEFINE g == f \o b
<1>1. Len(f) \in Nat /\ Len(b) \in Nat
  BY LenProperties
<1>2. Len(g) = Len(f) + Len(b) /\ \A i \in 1 .. Len(f) : g[i] = f[i]
  BY <1>1, ConcatProperties
<1> HIDE DEF g
<1>3. Len(f) <= Len(g) /\ Len(f) - 1 <= Len(g)
  BY <1>1, <1>2
<1>4. 1 .. Len(f) - 1 \subseteq 1 .. Len(f)
  BY <1>1
<1>5. Keeps(f, g)
  BY <1>2, <1>3, <1>4 DEF Keeps
<1>6. Keeps(f, f)
  BY <1>1 DEF Keeps
<1>q. QED BY <1>5, <1>6 DEF g

LEMMA KeepsBracket ==
  ASSUME NEW f \in Seq(Bytes), f # << >>
  PROVE  Keeps(f, CutBracket(f))
<1>1. Len(f) \in Nat /\ Len(f) # 0
  BY EmptySeq, LenProperties
<1>2. CASE f[Len(f)] = CloseBracket
  <2>1. CutBracket(f) = SubSeq(f, 1, Len(f) - 1)
    BY <1>2 DEF CutBracket, Last, Front
  <2>2. Len(SubSeq(f, 1, Len(f) - 1)) = Len(f) - 1
        /\ \A i \in 1 .. Len(f) - 1 : SubSeq(f, 1, Len(f) - 1)[i] = f[i]
    <3>1. 1 .. Len(f) - 1 \subseteq 1 .. Len(f) /\ Len(f) - 1 \in Nat /\ 1 \in Nat
      BY <1>1
    <3>2. \A i \in 1 .. Len(f) - 1 : f[i] \in Bytes
      BY <3>1, LenProperties
    <3> DEFINE n == Len(f) - 1
               g == SubSeq(f, 1, n)
    <3>3. n \in Nat /\ n \in Int /\ 1 \in Int /\ \A i \in 1 .. n : f[i] \in Bytes
      BY <3>1, <3>2
    <3> HIDE DEF n
    <3>4. /\ Len(g) = IF 1 <= n THEN n - 1 + 1 ELSE 0
          /\ \A i \in 1 .. n - 1 + 1 : g[i] = f[1 + i - 1]
      BY <3>3, SubSeqProperties
    <3> HIDE DEF g
    <3>5. n - 1 + 1 = n /\ (~(1 <= n) => n = 0) /\ \A i \in 1 .. n : 1 + i - 1 = i
      BY <3>3
    <3>6. Len(g) = n /\ \A i \in 1 .. n : g[i] = f[i]
      BY <3>4, <3>5
    <3>q. QED BY <3>6 DEF g, n
  <2>q. QED BY <1>1, <1>2, <2>1, <2>2 DEF Keeps
<1>3. CASE f[Len(f)] # CloseBracket
  <2>1. CutBracket(f) = f
    BY <1>3 DEF CutBracket, Last
  <2>q. QED BY <1>1, <2>1, KeepsGrowth
<1>q. QED BY <1>2, <1>3

LEMMA KeepsNothing ==
  ASSUME NEW g \in Seq(Bytes)
  PROVE  Keeps(<< >>, g)
<1>1. Len(g) \in Nat /\ Len(<< >>) = 0
  BY LenProperties
<1>q. QED BY <1>1 DEF Keeps

LEMMA StepKeeps ==
  ASSUME WriterInv, ~Overlap \/ Formats \subseteq {"csv"},
         NEW k \in Saves, Step(k), \A j \in Saves : Working(j) => mode[j] = "append"
  PROVE  Keeps(file, file')
<1> DEFINE w == save[k]
<1>0. /\ file \in Seq(Bytes) /\ file' \in Seq(Bytes)
      /\ format \in {"csv", "excel", "json", "orc", "parquet"}
      /\ format # "csv" => Alone
  BY StepEffect, WriterAssumption DEF WriterInv, WriterType, WriterAssumption
<1>1. CASE file' = file
  BY <1>0, <1>1, KeepsGrowth
<1>2. CASE file = << >>
  BY <1>0, <1>2, KeepsNothing
<1>3. CASE Open(k) /\ file # << >>
  <2>1. mode[k] = "append" /\ file' = Opened(k) /\ Working(k) /\ w.pc = "opening"
    BY <1>3 DEF Open, Working
  <2>2. format \in {"csv", "json", "excel"}
    BY <1>0, <1>3, <2>1 DEF Alone
  <2>3. file' = file \/ file' = CutBracket(file)
    BY <1>3, <2>1, <2>2 DEF Opened
  <2>q. QED BY <1>0, <1>3, <2>3, KeepsGrowth, KeepsBracket
<1>4. ASSUME w.pc = "writing", format # "excel", NEW bytes \in Seq(Bytes),
             file' = WrittenAt(file, Where(k), bytes)
      PROVE  Keeps(file, file')
  <2>1. Working(k) /\ mode[k] = "append"
    BY <1>4 DEF Working
  <2>2. format = "csv" \/ w.pos = Len(file)
    BY <1>0, <1>4, <2>1 DEF Alone
  <2>3. file' = file \o bytes
    BY <1>4, <2>1, <2>2, Appended DEF WriterInv
  <2>q. QED BY <1>0, <2>3, KeepsGrowth
<1>5. CASE Flush(k)
  <2>1. PICK m \in 1 .. Len(w.buffer) : file' = WrittenAt(file, Where(k), SubSeq(w.buffer, 1, m))
    BY <1>5 DEF Flush
  <2>2. w.buffer \in Seq(Bytes) /\ m \in 0 .. Len(w.buffer)
    BY LenProperties DEF WriterInv, WriterType, WriterState
  <2>3. SubSeq(w.buffer, 1, m) \in Seq(Bytes)
    BY <2>2, CutOff
  <2>q. QED BY <1>4, <1>5, <2>1, <2>3 DEF Flush
<1>6. ASSUME w.pc = "writing", NEW m \in 0 .. Len(Remaining(k)), file' = FileAfter(k, m)
      PROVE  Keeps(file, file')
  <2>1. CASE format = "excel"
    <3>1. Working(k) /\ mode[k] = "append"
      BY <1>6 DEF Working
    <3>2. file = << >>
      BY <1>0, <2>1, <3>1 DEF Alone
    <3>q. QED BY <1>2, <3>2
  <2>2. CASE format # "excel"
    <3>1. SubSeq(Remaining(k), 1, m) \in Seq(Bytes)
      BY RemainingType, CutOff DEF WriterInv
    <3>q. QED BY <1>4, <1>6, <2>2, <3>1 DEF FileAfter
  <2>q. QED BY <2>1, <2>2
<1>7. CASE Finish(k)
  <2>1. Len(Remaining(k)) \in Nat
    BY RemainingType, LenProperties DEF WriterInv
  <2>2. Len(Remaining(k)) \in 0 .. Len(Remaining(k))
    BY <2>1
  <2>q. QED BY <1>6, <1>7, <2>2 DEF Finish
<1>8. CASE Abandon(k)
  BY <1>1, <1>6, <1>8 DEF Abandon
<1>9. CASE Check(k) \/ OpenFails(k) \/ WriteBatch(k)
  BY <1>1, <1>9 DEF Check, OpenFails, WriteBatch
<1>q. QED BY <1>2, <1>3, <1>5, <1>7, <1>8, <1>9 DEF Step

(* Nothing that an append finds is lost or moved, but the bracket that     *)
(* closes an array (OpenOptions::append, set_len(closing_bracket_pos)):    *)
(* one save after another in all formats, or appends to one CSV at the     *)
(* same time.                                                              *)
THEOREM AppendsTakeNothing ==
  ASSUME ~Overlap \/ Formats \subseteq {"csv"}
  PROVE  Spec => AppendKeepsContent
<1>1. WriterInv /\ [Next]_vars =>
        [(\A k \in Saves : Working(k) => mode[k] = "append") => Keeps(file, file')]_vars
  <2> SUFFICES ASSUME WriterInv, [Next]_vars,
                      \A k \in Saves : Working(k) => mode[k] = "append",
                      ~ UNCHANGED vars
               PROVE  Keeps(file, file')
    OBVIOUS
  <2>1. PICK k \in Saves : Step(k)
    BY DEF Next, Finished
  <2>q. QED BY <2>1, StepKeeps
<1>q. QED BY <1>1, WriterInvHolds, PTL DEF Spec, AppendKeepsContent

-----------------------------------------------------------------------------
(* One after the other the saves keep the promise of ExportFile.           *)

Regrouped(s, t, u) == (s \o t) \o u = s \o (t \o u)

LEMMA Assoc ==
  ASSUME NEW S, NEW s \in Seq(S), NEW t \in Seq(S), NEW u \in Seq(S)
  PROVE  Regrouped(s, t, u)
  BY ConcatAssociative DEF Regrouped

(* The rows of a save from the one after the i-th to the n-th.             *)
RowsFrom(k, i, n) == [x \in 1 .. n - i |-> Row(k, i + x)]

LEMMA RowsFromType ==
  ASSUME NEW k \in Saves, NEW i \in Nat, NEW n \in Nat, i <= n
  PROVE  /\ RowsFrom(k, i, n) \in Seq(RowIds) /\ Len(RowsFrom(k, i, n)) = n - i
         /\ \A x \in 1 .. n - i : RowsFrom(k, i, n)[x] = Row(k, i + x)
<1> DEFINE d == n - i
           s == [x \in 1 .. d |-> Row(k, i + x)]
<1>1. d \in Nat
  OBVIOUS
<1>2. \A x \in 1 .. d : Row(k, i + x) \in RowIds
  BY <1>1 DEF Row, RowIds
<1>3. RowsFrom(k, i, n) = s
  BY DEF RowsFrom
<1>4. s \in Seq(RowIds) /\ Len(s) = d /\ \A x \in 1 .. d : s[x] = Row(k, i + x)
  <2> HIDE DEF d
  <2>q. QED BY <1>1, <1>2
<1>q. QED BY <1>3, <1>4

(* None, and one batch after another.                                      *)
LEMMA RowsFromNone ==
  ASSUME NEW k \in Saves, NEW n \in Nat
  PROVE  RowsFrom(k, n, n) = << >>
<1>1. RowsFrom(k, n, n) \in Seq(RowIds) /\ Len(RowsFrom(k, n, n)) = 0
  BY RowsFromType
<1>q. QED BY <1>1, EmptySeq

LEMMA RowsFromJoin ==
  ASSUME NEW k \in Saves, NEW i \in Nat, NEW j \in Nat, NEW n \in Nat, i <= j, j <= n
  PROVE  RowsFrom(k, i, j) \o RowsFrom(k, j, n) = RowsFrom(k, i, n)
<1> DEFINE a == RowsFrom(k, i, j)
           b == RowsFrom(k, j, n)
           c == RowsFrom(k, i, n)
<1>0. i <= n
  OBVIOUS
<1>1. /\ a \in Seq(RowIds) /\ Len(a) = j - i /\ \A x \in 1 .. j - i : a[x] = Row(k, i + x)
      /\ b \in Seq(RowIds) /\ Len(b) = n - j /\ \A x \in 1 .. n - j : b[x] = Row(k, j + x)
      /\ c \in Seq(RowIds) /\ Len(c) = n - i /\ \A x \in 1 .. n - i : c[x] = Row(k, i + x)
  BY <1>0, RowsFromType
<1> HIDE DEF a, b, c
<1>2. /\ a \o b \in Seq(RowIds) /\ Len(a \o b) = Len(a) + Len(b)
      /\ \A x \in 1 .. Len(a) + Len(b) :
            (a \o b)[x] = IF x <= Len(a) THEN a[x] ELSE b[x - Len(a)]
  BY <1>1, ConcatProperties
<1>3. Len(a) + Len(b) = n - i /\ n - i \in Nat
  BY <1>1
<1>4. ASSUME NEW x \in 1 .. n - i
      PROVE  (a \o b)[x] = c[x]
  <2>1. CASE x <= j - i
    <3>1. x \in 1 .. j - i
      BY <2>1
    <3>q. QED BY <1>1, <1>2, <1>3, <2>1, <3>1
  <2>2. CASE ~(x <= j - i)
    <3>1. x - (j - i) \in 1 .. n - j /\ j + (x - (j - i)) = i + x
      BY <2>2
    <3>2. b[x - (j - i)] = Row(k, i + x)
      BY <1>1, <3>1
    <3>q. QED BY <1>1, <1>2, <1>3, <2>2, <3>2
  <2>q. QED BY <2>1, <2>2
<1>5. a \o b = c
  <2> DEFINE s == a \o b
  <2>1. s \in Seq(RowIds) /\ Len(s) = Len(c) /\ \A x \in 1 .. Len(s) : s[x] = c[x]
    BY <1>1, <1>2, <1>3, <1>4
  <2> HIDE DEF s
  <2>2. s = c
    BY <1>1, <2>1, SeqEqual
  <2>q. QED BY <2>2 DEF s
<1>q. QED BY <1>5 DEF a, b, c

(* Rows cut in two are cut at some row.                                    *)
IsSplit(a, b, k, i, j, n) == a = RowsFrom(k, i, j) /\ b = RowsFrom(k, j, n)

LEMMA RowsFromSplit ==
  ASSUME NEW k \in Saves, NEW i \in Nat, NEW n \in Nat, i <= n,
         NEW a \in Seq(RowIds), NEW b \in Seq(RowIds), a \o b = RowsFrom(k, i, n)
  PROVE  \E j \in i .. n : IsSplit(a, b, k, i, j, n)
<1> DEFINE c == a \o b
           j == i + Len(a)
<1>1. /\ Len(a) \in Nat /\ Len(b) \in Nat /\ Len(c) = Len(a) + Len(b)
      /\ \A x \in 1 .. Len(a) : c[x] = a[x]
      /\ \A x \in 1 .. Len(b) : c[Len(a) + x] = b[x]
  <2>1. Len(a) \in Nat /\ Len(b) \in Nat
    BY LenProperties
  <2>2. /\ Len(c) = Len(a) + Len(b)
        /\ \A x \in 1 .. Len(a) + Len(b) :
              c[x] = IF x <= Len(a) THEN a[x] ELSE b[x - Len(a)]
    BY ConcatProperties
  <2> HIDE DEF c
  <2>3. ASSUME NEW x \in 1 .. Len(b)
        PROVE  c[Len(a) + x] = b[x]
    <3>1. Len(a) + x \in 1 .. Len(a) + Len(b) /\ ~(Len(a) + x <= Len(a))
          /\ Len(a) + x - Len(a) = x
      BY <2>1
    <3>q. QED BY <2>2, <3>1
  <2>4. \A x \in 1 .. Len(a) : c[x] = a[x]
    BY <2>1, <2>2
  <2>q. QED BY <2>1, <2>2, <2>3, <2>4
<1>2. Len(c) = n - i /\ \A x \in 1 .. n - i : c[x] = Row(k, i + x)
  BY RowsFromType
<1> HIDE DEF c
<1>3. j \in i .. n /\ j \in Nat /\ j - i = Len(a) /\ n - j = Len(b) /\ i <= j /\ j <= n
      /\ Len(a) + Len(b) = n - i
  <2>1. Len(a) \in Nat /\ Len(b) \in Nat /\ Len(a) + Len(b) = n - i
    BY <1>1, <1>2
  <2>q. QED BY <2>1
<1>4. /\ RowsFrom(k, i, j) \in Seq(RowIds) /\ Len(RowsFrom(k, i, j)) = j - i
      /\ \A x \in 1 .. j - i : RowsFrom(k, i, j)[x] = Row(k, i + x)
      /\ RowsFrom(k, j, n) \in Seq(RowIds) /\ Len(RowsFrom(k, j, n)) = n - j
      /\ \A x \in 1 .. n - j : RowsFrom(k, j, n)[x] = Row(k, j + x)
  <2> HIDE DEF j
  <2>q. QED BY <1>3, RowsFromType
<1>5. a = RowsFrom(k, i, j)
  <2>1. \A x \in 1 .. Len(a) : x \in 1 .. n - i
    BY <1>1, <1>3
  <2> HIDE DEF j
  <2>2. \A x \in 1 .. Len(a) : a[x] = RowsFrom(k, i, j)[x]
    BY <1>1, <1>2, <1>3, <1>4, <2>1
  <2>q. QED BY <1>3, <1>4, <2>2, SeqEqual
<1>6. b = RowsFrom(k, j, n)
  <2>1. \A x \in 1 .. Len(b) : Len(a) + x \in 1 .. n - i /\ i + (Len(a) + x) = j + x
    BY <1>1, <1>3
  <2> HIDE DEF j
  <2>2. \A x \in 1 .. Len(b) : b[x] = RowsFrom(k, j, n)[x]
    BY <1>1, <1>2, <1>3, <1>4, <2>1
  <2>q. QED BY <1>3, <1>4, <2>2, SeqEqual
<1>q. QED BY <1>3, <1>5, <1>6 DEF IsSplit

(* Of the rows of a save up to the n-th the first j are in the file, after *)
(* those that stay, and the rest in the buffer.                            *)
Shared(f, b, base, k, j, n) ==
    Rows(f) = base \o RowsFrom(k, 0, j) /\ Rows(b) = RowsFrom(k, j, n)

(* What is taken from a buffer to the end of a file takes its rows along.  *)
LEMMA TakenUp ==
  ASSUME NEW k \in Saves, NEW n \in Nat, NEW i \in 0 .. n,
         NEW f \in Seq(Bytes), NEW b \in Seq(Bytes), NEW base \in Seq(RowIds),
         Shared(f, b, base, k, i, n)
  PROVE  /\ Rows(f \o b) = base \o RowsFrom(k, 0, n)
         /\ \A m \in 0 .. Len(b) : \E j \in 0 .. n :
               Shared(f \o SubSeq(b, 1, m), SubSeq(b, m + 1, Len(b)), base, k, j, n)
<1>0. i \in Nat /\ i <= n /\ 0 <= i /\ 0 \in Nat /\ n \in Nat
      /\ Rows(f) = base \o RowsFrom(k, 0, i) /\ Rows(b) = RowsFrom(k, i, n)
  BY DEF Shared
<1>1. ASSUME NEW j \in i .. n, NEW g \in Seq(Bytes), Rows(g) = RowsFrom(k, i, j)
      PROVE  Rows(f \o g) = base \o RowsFrom(k, 0, j)
  <2>1. j \in Nat /\ i <= j /\ 0 <= j
    BY <1>0
  <2>2. Rows(f \o g) = (base \o RowsFrom(k, 0, i)) \o RowsFrom(k, i, j)
    BY <1>0, <1>1, RowsConcat
  <2>3. RowsFrom(k, 0, i) \in Seq(RowIds) /\ RowsFrom(k, i, j) \in Seq(RowIds)
    BY <1>0, <2>1, RowsFromType
  <2>4. (base \o RowsFrom(k, 0, i)) \o RowsFrom(k, i, j)
        = base \o (RowsFrom(k, 0, i) \o RowsFrom(k, i, j))
    <3>1. Regrouped(base, RowsFrom(k, 0, i), RowsFrom(k, i, j))
      BY <2>3, Assoc
    <3>q. QED BY <3>1 DEF Regrouped
  <2>5. RowsFrom(k, 0, i) \o RowsFrom(k, i, j) = RowsFrom(k, 0, j)
    BY <1>0, <2>1, RowsFromJoin
  <2>q. QED BY <2>2, <2>4, <2>5
<1>2. Rows(f \o b) = base \o RowsFrom(k, 0, n)
  <2>1. n \in i .. n
    BY <1>0
  <2>q. QED BY <1>0, <1>1, <2>1
<1>3. ASSUME NEW m \in 0 .. Len(b)
      PROVE  \E j \in 0 .. n :
               Shared(f \o SubSeq(b, 1, m), SubSeq(b, m + 1, Len(b)), base, k, j, n)
  <2> DEFINE u == SubSeq(b, 1, m)
             v == SubSeq(b, m + 1, Len(b))
  <2>1. u \in Seq(Bytes) /\ v \in Seq(Bytes) /\ u \o v = b
    BY CutOff
  <2> HIDE DEF u, v
  <2>2. Rows(u) \o Rows(v) = RowsFrom(k, i, n) /\ Rows(u) \in Seq(RowIds) /\ Rows(v) \in Seq(RowIds)
    BY <1>0, <2>1, RowsConcat, RowsType
  <2>3. PICK j \in i .. n : Rows(u) = RowsFrom(k, i, j) /\ Rows(v) = RowsFrom(k, j, n)
    <3>1. \E j \in i .. n : IsSplit(Rows(u), Rows(v), k, i, j, n)
      BY <1>0, <2>2, RowsFromSplit
    <3>q. QED BY <3>1 DEF IsSplit
  <2>4. j \in 0 .. n
    BY <1>0
  <2>5. Rows(f \o u) = base \o RowsFrom(k, 0, j)
    BY <1>1, <2>1, <2>3
  <2>q. QED BY <2>3, <2>4, <2>5 DEF u, v, Shared
<1>q. QED BY <1>2, <1>3

LEMMA NewRowsFrom ==
  ASSUME NEW k \in Saves, NEW n \in Nat, save[k].given \in Nat
  PROVE  NewRows(k, n) = RowsFrom(k, save[k].given, save[k].given + n)
<1>1. (save[k].given + n) - save[k].given = n
  OBVIOUS
<1>q. QED BY <1>1 DEF NewRows, RowsFrom

LEMMA CutBracketRows ==
  ASSUME NEW f \in Seq(Bytes), f # << >>
  PROVE  CutBracket(f) \in Seq(Bytes) /\ Rows(CutBracket(f)) = Rows(f)
<1>1. Len(f) \in Nat /\ Len(f) # 0 /\ Len(f) - 1 \in 0 .. Len(f)
  BY EmptySeq, LenProperties
<1>2. CASE Last(f) = CloseBracket
  <2> DEFINE u == SubSeq(f, 1, Len(f) - 1)
             v == <<CloseBracket>>
  <2>1. u \in Seq(Bytes) /\ f = u \o v
    <3>1. Len(f) \in 1 .. Len(f) /\ 1 \in 1 .. Len(f)
      BY <1>1
    <3>2. SubSeq(f, 1, Len(f)) = SubSeq(f, 1, Len(f) - 1) \o <<f[Len(f)]>>
      BY <3>1, SubSeqRecursiveSecond
    <3>3. SubSeq(f, 1, Len(f)) = f
      BY SubSeqFull
    <3>4. u \in Seq(Bytes)
      BY <1>1, CutOff
    <3>q. QED BY <1>2, <3>2, <3>3, <3>4 DEF Last
  <2>2. v \in Seq(Bytes) /\ Rows(v) = << >>
    BY FrameHasNoRows DEF Frame
  <2>3. CutBracket(f) = u
    BY <1>2 DEF CutBracket, Front
  <2> HIDE DEF u, v
  <2>4. Rows(f) = Rows(u) \o << >> /\ Rows(u) \in Seq(RowIds)
    BY <2>1, <2>2, RowsConcat, RowsType
  <2>q. QED BY <2>1, <2>3, <2>4, ConcatEmptySeq
<1>3. CASE Last(f) # CloseBracket
  BY <1>3 DEF CutBracket
<1>q. QED BY <1>2, <1>3

(* The rows that stay, and the file that the buffer will be added to.      *)
Base(k) == IF mode[k] = "append" THEN Rows(save[k].before) ELSE << >>
Start == IF format = "excel" THEN << >> ELSE file

(* The rows a save got are in the file, after those that stay, and the     *)
(* rest in its buffer.                                                     *)
Accounted ==
    \A k \in Saves :
        /\ save[k].pc \in {"new", "opening"} => save[k].given = 0 /\ save[k].buffer = << >>
        /\ save[k].pc = "writing" =>
              \E i \in 0 .. save[k].given :
                  Shared(Start, save[k].buffer, Base(k), k, i, save[k].given)

LEMMA InitAccounted == Init => Accounted
  BY DEF Init, Accounted, NoWriter

LEMMA BaseType ==
  ASSUME WriterType, NEW k \in Saves
  PROVE  Base(k) \in Seq(RowIds) /\ Start \in Seq(Bytes) /\ save[k].given \in Nat
<1>1. save[k].before \in Seq(Bytes) /\ save[k].given \in 0 .. MaxRows /\ MaxRows \in Nat
  BY WriterAssumption DEF WriterAssumption, WriterType, WriterState
<1>2. Rows(save[k].before) \in Seq(RowIds) /\ << >> \in Seq(RowIds) /\ << >> \in Seq(Bytes)
  BY <1>1, RowsType, EmptySeq
<1>q. QED BY <1>1, <1>2 DEF Base, Start, WriterType

(* A save that opened its target starts from the rows that stay.           *)
LEMMA OpenKeepsRows ==
  ASSUME WriterType, Alone, NEW k \in Saves, Open(k)
  PROVE  Rows(Start') = Base(k)
<1>1. /\ save[k].pc = "opening" /\ Working(k) /\ file' = Opened(k) /\ format' = format
      /\ file \in Seq(Bytes)
      /\ format \in {"csv", "excel", "json", "orc", "parquet"}
      /\ mode[k] \in {"overwrite", "append"}
  BY WriterAssumption DEF WriterAssumption, WriterType, Open, Working
<1>2. /\ file = save[k].before
      /\ mode[k] = "append" /\ format \notin {"csv", "json"} => save[k].before = << >>
  BY <1>1 DEF Alone
<1>3. CASE mode[k] = "overwrite"
  <2>1. Start' = << >> \/ (format = "json" /\ FALSE)
    BY <1>1, <1>3 DEF Opened, Start
  <2>q. QED BY <1>3, <2>1, RowsEmpty DEF Base
<1>4. CASE mode[k] = "append" /\ format \notin {"csv", "json"}
  <2>1. Start' = << >>
    BY <1>1, <1>4 DEF Opened, Start
  <2>q. QED BY <1>2, <1>4, <2>1, RowsEmpty DEF Base
<1>5. CASE mode[k] = "append" /\ format = "csv"
  BY <1>1, <1>2, <1>5 DEF Opened, Start, Base
<1>6. CASE mode[k] = "append" /\ format = "json"
  <2>1. Start' = IF file = << >> THEN <<OpenBracket>> ELSE CutBracket(file)
    BY <1>1, <1>6 DEF Opened, Start
  <2>2. Rows(<<OpenBracket>>) = << >>
    BY FrameHasNoRows DEF Frame
  <2>3. Base(k) = Rows(file)
    BY <1>2, <1>6 DEF Base
  <2>4. CASE file = << >>
    BY <2>1, <2>2, <2>3, <2>4, RowsEmpty
  <2>5. CASE file # << >>
    BY <1>1, <2>1, <2>3, <2>5, CutBracketRows
  <2>q. QED BY <2>4, <2>5
<1>q. QED BY <1>1, <1>3, <1>4, <1>5, <1>6

(* A flush and the last writes add to what the save started from.          *)
LEMMA AddedToStart ==
  ASSUME WriterType, Alone, NEW k \in Saves, save[k].pc = "writing"
  PROVE  /\ format # "excel" => \A bytes \in Seq(Bytes) :
               WrittenAt(file, Where(k), bytes) = Start \o bytes
         /\ \A m \in 0 .. Len(Remaining(k)) :
               FileAfter(k, m) = Start \o SubSeq(Remaining(k), 1, m)
<1>1. Working(k)
  BY DEF Working
<1>2. ASSUME format # "excel", NEW bytes \in Seq(Bytes)
      PROVE  WrittenAt(file, Where(k), bytes) = Start \o bytes
  <2>1. save[k].pos = Len(file)
    BY <1>1, <1>2 DEF Alone
  <2>q. QED BY <1>2, <2>1, Appended DEF Start
<1>3. ASSUME NEW m \in 0 .. Len(Remaining(k))
      PROVE  FileAfter(k, m) = Start \o SubSeq(Remaining(k), 1, m)
  <2> DEFINE part == SubSeq(Remaining(k), 1, m)
  <2>1. part \in Seq(Bytes)
    BY RemainingType, CutOff
  <2> HIDE DEF part
  <2>2. CASE format = "excel"
    <3>1. Start = << >> /\ << >> \o part = part
      BY <2>1, <2>2, ConcatEmptySeq DEF Start
    <3>2. FileAfter(k, m) = part
      BY <2>2 DEF FileAfter, part
    <3>q. QED BY <3>1, <3>2 DEF part
  <2>3. CASE format # "excel"
    <3>1. FileAfter(k, m) = WrittenAt(file, Where(k), part)
      BY <2>3 DEF FileAfter, part
    <3>q. QED BY <1>2, <2>1, <2>3, <3>1 DEF part
  <2>q. QED BY <2>2, <2>3
<1>q. QED BY <1>2, <1>3

LEMMA BatchRows ==
  ASSUME WriterType, NEW k \in Saves, NEW n \in Nat, NEW i \in 0 .. save[k].given,
         Rows(save[k].buffer) = RowsFrom(k, i, save[k].given)
  PROVE  Rows(save[k].buffer \o LeadDue(k) \o RowPieces(NewRows(k, n), save[k].begun))
         = RowsFrom(k, i, save[k].given + n)
<1> DEFINE b == save[k].buffer
           l == LeadDue(k)
           p == RowPieces(NewRows(k, n), save[k].begun)
           g == save[k].given
<1>1. g \in Nat /\ i \in Nat /\ i <= g /\ g <= g + n /\ g + n \in Nat
  BY BaseType
<1>2. /\ b \in Seq(Bytes) /\ l \in Seq(Bytes) /\ Rows(l) = << >> /\ Rows(b) = RowsFrom(k, i, g)
      /\ p \in Seq(Bytes) /\ Rows(p) = NewRows(k, n)
  BY RemainingType, NewRowsType, RowPiecesRows
<1>3. Rows(p) = RowsFrom(k, g, g + n)
  BY <1>1, <1>2, NewRowsFrom
<1>4. RowsFrom(k, i, g) \in Seq(RowIds)
  BY <1>1, RowsFromType
<1>5. RowsFrom(k, i, g) \o RowsFrom(k, g, g + n) = RowsFrom(k, i, g + n)
  <2> HIDE DEF g
  <2>q. QED BY <1>1, RowsFromJoin
<1> HIDE DEF b, l, p, g
<1>6. b \o l \in Seq(Bytes) /\ Rows(b \o l) = RowsFrom(k, i, g) \o << >>
  BY <1>2, RowsConcat, ConcatProperties
<1>7. Rows(b \o l) = RowsFrom(k, i, g)
  BY <1>4, <1>6, ConcatEmptySeq
<1>8. Rows((b \o l) \o p) = RowsFrom(k, i, g) \o RowsFrom(k, g, g + n)
  BY <1>2, <1>3, <1>6, <1>7, RowsConcat
<1>q. QED BY <1>5, <1>8 DEF b, l, p, g

LEMMA AccountedKept ==
  ASSUME WriterType, Alone, Accounted, ~Overlap, NEW k \in Saves, Step(k)
  PROVE  Accounted'
<1> DEFINE w == save[k]
<1>0. /\ \A j \in Saves : j # k => ~Working(j) /\ save'[j] = save[j]
      /\ w \in WriterState /\ save \in [Saves -> WriterState]
      /\ UNCHANGED <<format, mode>>
      /\ Base(k) \in Seq(RowIds) /\ Start \in Seq(Bytes) /\ w.given \in Nat
  BY OnlyOne, StepEffect, BaseType DEF WriterType
<1>1. SUFFICES
        /\ save'[k].pc \in {"new", "opening"} => save'[k].given = 0 /\ save'[k].buffer = << >>
        /\ save'[k].pc = "writing" =>
              \E i \in 0 .. save'[k].given :
                  Shared(Start', save'[k].buffer, Base(k)', k, i, save'[k].given)
  <2>1. ASSUME NEW j \in Saves, j # k
        PROVE  /\ save'[j].pc \in {"new", "opening"} => save'[j].given = 0 /\ save'[j].buffer = << >>
               /\ save'[j].pc # "writing"
    BY <1>0, <2>1 DEF Working, Accounted
  <2>q. QED BY <2>1 DEF Accounted
<1>2. CASE Check(k)
  <2>1. w.pc = "new" /\ save'[k].pc \in {"opening", "err"}
        /\ save'[k].given = w.given /\ save'[k].buffer = w.buffer
    <3>1. CASE save' = [save EXCEPT ![k].pc = "err"]
      BY <1>0, <1>2, <3>1 DEF Check, WriterState
    <3>2. ASSUME NEW b \in BOOLEAN, BeginsWith(k, b)
          PROVE  /\ save'[k].pc \in {"opening", "err"}
                 /\ save'[k].given = w.given /\ save'[k].buffer = w.buffer
      BY <1>0, <3>2 DEF BeginsWith, WriterState
    <3>q. QED BY <1>2, <3>1, <3>2, CheckEffect
  <2>q. QED BY <2>1 DEF Accounted
<1>3. CASE Open(k)
  <2>1. /\ w.pc = "opening" /\ save'[k].pc = "writing" /\ save'[k].given = w.given
        /\ save'[k].buffer \in {<< >>, <<OpenBracket>>} /\ save'[k].before = w.before
    BY <1>0, <1>3 DEF Open, WriterState
  <2>2. save'[k].given = 0
    BY <2>1 DEF Accounted
  <2>3. RowsFrom(k, 0, 0) = << >>
    BY RowsFromNone
  <2>4. Rows(save'[k].buffer) = << >>
    BY <2>1, RowsEmpty, FrameHasNoRows DEF Frame
  <2>5. Base(k)' = Base(k)
    BY <1>0, <2>1 DEF Base
  <2>6. Rows(Start') = Base(k) /\ Base(k) \o << >> = Base(k)
    BY <1>0, <1>3, OpenKeepsRows, ConcatEmptySeq
  <2>7. 0 \in 0 .. save'[k].given
    BY <2>2
  <2>8. Shared(Start', save'[k].buffer, Base(k)', k, 0, save'[k].given)
    BY <2>2, <2>3, <2>4, <2>5, <2>6 DEF Shared
  <2>q. QED BY <2>1, <2>7, <2>8
<1>4. ASSUME w.pc = "writing"
      PROVE  \E i \in 0 .. w.given : Shared(Start, w.buffer, Base(k), k, i, w.given)
  BY <1>4 DEF Accounted
<1>5. CASE WriteBatch(k)
  <2>1. PICK n \in 0 .. BatchSize :
          /\ w.given + n <= MaxRows
          /\ save' = [save EXCEPT
                ![k].buffer = w.buffer \o LeadDue(k) \o RowPieces(NewRows(k, n), w.begun),
                ![k].begun = w.begun \/ n > 0 \/ format # "json",
                ![k].given = w.given + n]
    BY <1>5 DEF WriteBatch
  <2>2. /\ w.pc = "writing" /\ save'[k].pc = "writing" /\ save'[k].given = w.given + n
        /\ save'[k].buffer = w.buffer \o LeadDue(k) \o RowPieces(NewRows(k, n), w.begun)
        /\ save'[k].before = w.before /\ file' = file
    BY <1>0, <1>5, <2>1 DEF WriteBatch, WriterState
  <2>3. PICK i \in 0 .. w.given : Shared(Start, w.buffer, Base(k), k, i, w.given)
    BY <1>4, <2>2
  <2>4. n \in Nat /\ i \in 0 .. save'[k].given
    BY <1>0, <2>2, WriterAssumption DEF WriterAssumption
  <2>5. Rows(save'[k].buffer) = RowsFrom(k, i, save'[k].given)
    BY <2>2, <2>3, <2>4, BatchRows DEF Shared
  <2>6. Start' = Start /\ Base(k)' = Base(k)
    BY <1>0, <2>2 DEF Start, Base
  <2>7. Shared(Start', save'[k].buffer, Base(k)', k, i, save'[k].given)
    BY <2>3, <2>5, <2>6 DEF Shared
  <2>q. QED BY <2>2, <2>4, <2>7
<1>6. CASE Flush(k)
  <2>1. PICK m \in 1 .. Len(w.buffer) :
          /\ file' = WrittenAt(file, Where(k), SubSeq(w.buffer, 1, m))
          /\ save' = [save EXCEPT ![k].buffer = SubSeq(w.buffer, m + 1, Len(w.buffer)),
                                  ![k].pos = Where(k) + m]
    BY <1>6 DEF Flush
  <2>2. /\ w.pc = "writing" /\ save'[k].pc = "writing" /\ save'[k].given = w.given
        /\ save'[k].buffer = SubSeq(w.buffer, m + 1, Len(w.buffer))
        /\ save'[k].before = w.before /\ format # "excel"
    BY <1>0, <1>6, <2>1 DEF Flush, WriterState
  <2>3. PICK i \in 0 .. w.given : Shared(Start, w.buffer, Base(k), k, i, w.given)
    BY <1>4, <2>2
  <2>4. w.buffer \in Seq(Bytes) /\ m \in 0 .. Len(w.buffer)
    BY <1>0, LenProperties DEF WriterState
  <2>5. Start' = Start \o SubSeq(w.buffer, 1, m)
    <3>1. SubSeq(w.buffer, 1, m) \in Seq(Bytes)
      BY <2>4, CutOff
    <3>2. file' = Start \o SubSeq(w.buffer, 1, m)
      BY <2>1, <2>2, <3>1, AddedToStart
    <3>q. QED BY <1>0, <2>2, <3>2 DEF Start
  <2>6. \E j \in 0 .. w.given :
          Shared(Start \o SubSeq(w.buffer, 1, m), SubSeq(w.buffer, m + 1, Len(w.buffer)),
                 Base(k), k, j, w.given)
    BY <1>0, <2>3, <2>4, TakenUp
  <2>7. Base(k)' = Base(k)
    BY <1>0, <2>2 DEF Base
  <2>q. QED BY <2>2, <2>5, <2>6, <2>7
<1>7. CASE OpenFails(k) \/ Finish(k) \/ Abandon(k)
  <2>1. \E answer \in {"ok", "err"} : save' = [save EXCEPT ![k] = Ended(answer, w)]
    BY <1>7 DEF OpenFails, Finish, Abandon
  <2>2. save'[k].pc \in {"ok", "err"}
    BY <1>0, <2>1 DEF Ended, NoWriter
  <2>q. QED BY <2>2
<1>q. QED BY <1>2, <1>3, <1>5, <1>6, <1>7 DEF Step

AloneInv == WriterType /\ Alone /\ Accounted

LEMMA NextAloneInv == ~Overlap /\ AloneInv /\ [Next]_vars => AloneInv'
<1> SUFFICES ASSUME ~Overlap, AloneInv, [Next]_vars PROVE AloneInv'
  OBVIOUS
<1>1. WriterType'
  BY NextWriterType DEF AloneInv
<1>2. ASSUME NEW k \in Saves, Step(k) PROVE Alone' /\ Accounted'
  BY <1>2, AloneKept, AccountedKept DEF AloneInv
<1>3. ASSUME UNCHANGED vars PROVE Alone' /\ Accounted'
  BY <1>3 DEF AloneInv, vars, Alone, Accounted, Working, Start, Base
<1>q. QED BY <1>1, <1>2, <1>3 DEF Next, Finished, AloneInv

(* What ExportFile sees.                                                   *)
Table == IF \E k \in Saves : Working(k)
         THEN Rows(save[CHOOSE k \in Saves : Working(k)].before) ELSE Rows(file)
GivenTo == [k \in Saves |-> IF save[k].pc \in {"ok", "err"} THEN save[k].given ELSE 0]

LEMMA TableOf ==
  ASSUME Alone
  PROVE  /\ \A k \in Saves : Working(k) => Table = Rows(save[k].before)
         /\ (\A k \in Saves : ~Working(k)) => Table = Rows(file)
<1>1. ASSUME NEW k \in Saves, Working(k)
      PROVE  Table = Rows(save[k].before)
  <2>1. (CHOOSE j \in Saves : Working(j)) = k
    BY <1>1 DEF Alone
  <2>q. QED BY <1>1, <2>1 DEF Table
<1>q. QED BY <1>1 DEF Table

(* The rows of the file when a save has ended.                             *)
LEMMA LastWrite ==
  ASSUME AloneInv, NEW k \in Saves, save[k].pc = "writing"
  PROVE  /\ Rows(FileAfter(k, Len(Remaining(k)))) = Base(k) \o RowsFrom(k, 0, save[k].given)
         /\ \A m \in 0 .. Len(Remaining(k)) : \E j \in 0 .. save[k].given :
               Rows(FileAfter(k, m)) = Base(k) \o RowsFrom(k, 0, j)
         /\ \E j \in 0 .. save[k].given : Rows(Start) = Base(k) \o RowsFrom(k, 0, j)
<1> DEFINE g == save[k].given
           r == Remaining(k)
<1>1. /\ Base(k) \in Seq(RowIds) /\ Start \in Seq(Bytes) /\ g \in Nat
      /\ r \in Seq(Bytes) /\ Rows(r) = Rows(save[k].buffer) /\ Len(r) \in Nat
  BY BaseType, RemainingType, LenProperties DEF AloneInv
<1>2. PICK i \in 0 .. g : Shared(Start, save[k].buffer, Base(k), k, i, g)
  BY DEF AloneInv, Accounted
<1>3. Shared(Start, r, Base(k), k, i, g)
  BY <1>1, <1>2 DEF Shared
<1>4. \A m \in 0 .. Len(r) : FileAfter(k, m) = Start \o SubSeq(r, 1, m)
  BY AddedToStart DEF AloneInv
<1> HIDE DEF g, r
<1>5. /\ Rows(Start \o r) = Base(k) \o RowsFrom(k, 0, g)
      /\ \A m \in 0 .. Len(r) : \E j \in 0 .. g :
            Shared(Start \o SubSeq(r, 1, m), SubSeq(r, m + 1, Len(r)), Base(k), k, j, g)
  BY <1>1, <1>3, TakenUp
<1>6. Len(r) \in 0 .. Len(r) /\ SubSeq(r, 1, Len(r)) = r
  BY <1>1, SubSeqFull
<1>7. Rows(FileAfter(k, Len(r))) = Base(k) \o RowsFrom(k, 0, g)
  BY <1>4, <1>5, <1>6
<1>8. \A m \in 0 .. Len(r) : \E j \in 0 .. g :
            Rows(FileAfter(k, m)) = Base(k) \o RowsFrom(k, 0, j)
  BY <1>4, <1>5 DEF Shared
<1>9. \E j \in 0 .. g : Rows(Start) = Base(k) \o RowsFrom(k, 0, j)
  BY <1>3 DEF Shared
<1>q. QED BY <1>7, <1>8, <1>9 DEF g, r

(* The rows that an ended save may leave in the file.                      *)
Left(k, n, answer) ==
    \/ answer = "ok" /\ Rows(file') = Base(k) \o RowsFrom(k, 0, n)
    \/ answer = "err" /\ \E j \in 0 .. n : Rows(file') = Base(k) \o RowsFrom(k, 0, j)
    \/ answer = "err" /\ Rows(file') = Table

LEMMA LeftIsAnOutcome ==
  ASSUME AloneInv, NEW k \in Saves, NEW n \in Nat, NEW answer \in {"ok", "err"},
         Left(k, n, answer),
         mode[k] = "append" => Base(k) = Table \/ (answer = "err" /\ Rows(file') = Table)
  PROVE  Rows(file') \in Promise!Outcomes(k, n, answer)
<1>1. \A j \in Nat : Promise!RowsOf(k, j) = RowsFrom(k, 0, j) /\ RowsFrom(k, 0, j) \in Seq(RowIds)
  <2> SUFFICES ASSUME NEW j \in Nat
               PROVE  Promise!RowsOf(k, j) = RowsFrom(k, 0, j) /\ RowsFrom(k, 0, j) \in Seq(RowIds)
    OBVIOUS
  <2>1. 0 \in Nat /\ 0 <= j /\ j - 0 = j /\ \A x \in 1 .. j : 0 + x = x
    OBVIOUS
  <2>q. QED BY <2>1, RowsFromType DEF Promise!RowsOf, Promise!Row, RowsFrom, Row
<1>2. mode[k] \in {"overwrite", "append"}
  BY WriterAssumption DEF WriterAssumption, AloneInv, WriterType
<1>3. CASE mode[k] = "append"
  <2>1. Table \in Seq(RowIds) /\ 0 \in 0 .. n
    <3>1. Rows(file) \in Seq(RowIds)
      BY RowsType DEF AloneInv, WriterType
    <3>2. ASSUME NEW j \in Saves, Working(j) PROVE Table \in Seq(RowIds)
      <4>1. save[j].before \in Seq(Bytes)
        BY DEF AloneInv, WriterType, WriterState
      <4>q. QED BY <3>2, <4>1, RowsType, TableOf DEF AloneInv
    <3>q. QED BY <3>1, <3>2, TableOf DEF AloneInv
  <2>2. Table \o Promise!RowsOf(k, 0) = Table
    BY <1>1, <2>1, RowsFromNone, ConcatEmptySeq
  <2>3. ASSUME answer = "ok", Base(k) = Table, Rows(file') = Base(k) \o RowsFrom(k, 0, n)
        PROVE  Rows(file') \in Promise!Outcomes(k, n, answer)
    BY <1>1, <1>3, <2>3 DEF Promise!Outcomes, Table
  <2>4. ASSUME answer = "err", NEW j \in 0 .. n, Rows(file') = Table \o Promise!RowsOf(k, j)
        PROVE  Rows(file') \in Promise!Outcomes(k, n, answer)
    BY <1>3, <2>4 DEF Promise!Outcomes, Table
  <2>5. ASSUME answer = "err", Base(k) = Table,
               NEW j \in 0 .. n, Rows(file') = Base(k) \o RowsFrom(k, 0, j)
        PROVE  Rows(file') \in Promise!Outcomes(k, n, answer)
    <3>1. RowsFrom(k, 0, j) = Promise!RowsOf(k, j)
      BY <1>1
    <3>q. QED BY <2>4, <2>5, <3>1
  <2>6. ASSUME answer = "err", Rows(file') = Table
        PROVE  Rows(file') \in Promise!Outcomes(k, n, answer)
    BY <2>1, <2>2, <2>4, <2>6
  <2>7. answer # "ok" \/ answer # "err"
    OBVIOUS
  <2>q. QED BY <1>3, <2>3, <2>5, <2>6, <2>7 DEF Left
<1>4. CASE mode[k] = "overwrite"
  <2>1. Base(k) = << >>
    BY <1>4 DEF Base
  <2>2. \A j \in Nat : Base(k) \o RowsFrom(k, 0, j) = Promise!RowsOf(k, j)
    BY <1>1, <2>1, ConcatEmptySeq
  <2>3. CASE answer = "ok" /\ Rows(file') = Base(k) \o RowsFrom(k, 0, n)
    BY <1>4, <2>2, <2>3 DEF Promise!Outcomes
  <2>4. ASSUME answer = "err", NEW j \in 0 .. n, Rows(file') = Promise!RowsOf(k, j)
        PROVE  Rows(file') \in Promise!Outcomes(k, n, answer)
    BY <1>4, <2>4 DEF Promise!Outcomes
  <2>5. CASE answer = "err" /\ Rows(file') = Table
    BY <1>4, <2>5 DEF Promise!Outcomes, Table
  <2>6. ASSUME answer = "err", NEW j \in 0 .. n, Rows(file') = Base(k) \o RowsFrom(k, 0, j)
        PROVE  Rows(file') \in Promise!Outcomes(k, n, answer)
    <3>0. j \in Nat
      OBVIOUS
    <3>1. Base(k) \o RowsFrom(k, 0, j) = Promise!RowsOf(k, j)
      BY <2>2, <3>0
    <3>q. QED BY <2>4, <2>6, <3>1
  <2>q. QED BY <2>3, <2>5, <2>6 DEF Left
<1>q. QED BY <1>2, <1>3, <1>4

(* The steps that tell a caller, and those that nobody is told of.         *)
LEMMA EndIsSave ==
  ASSUME AloneInv, ~Overlap, NEW k \in Saves, Step(k),
         NEW n \in 0 .. MaxRows, NEW answer \in {"ok", "err"},
         save[k].pc \notin {"ok", "err"}, save'[k].pc = answer, save'[k].given = n,
         Rows(file') \in Promise!Outcomes(k, n, answer)
  PROVE  Promise!Save(k, n, answer)
<1>1. /\ \A j \in Saves : j # k => ~Working(j) /\ save'[j] = save[j]
      /\ UNCHANGED <<format, mode>>
  BY OnlyOne, StepEffect DEF AloneInv
<1>2. Told[k] = "pending"
  BY DEF Told, AloneInv, WriterType, WriterState
<1>3. \A j \in Saves : ~Working(j)'
  BY <1>1 DEF Working
<1>4. Table' = Rows(file')
  BY <1>3 DEF Table
<1>5. Told' = [Told EXCEPT ![k] = answer]
  BY <1>1 DEF Told
<1>6. GivenTo' = [GivenTo EXCEPT ![k] = n]
  BY <1>1 DEF GivenTo
<1>7. Table' \in Promise!Outcomes(k, n, answer)
  BY <1>4
<1>q. QED BY <1>1, <1>2, <1>5, <1>6, <1>7 DEF Promise!Save, Table, GivenTo

LEMMA WorkIsStutter ==
  ASSUME AloneInv, ~Overlap, NEW k \in Saves, Step(k),
         save[k].pc \notin {"ok", "err"}, Working(k)',
         Rows(save'[k].before) = Table
  PROVE  UNCHANGED Promise!abstractVars
<1>1. /\ \A j \in Saves : j # k => ~Working(j) /\ save'[j] = save[j]
      /\ UNCHANGED <<format, mode>> /\ Alone'
  BY OnlyOne, StepEffect, AloneKept DEF AloneInv
<1>2. save'[k].pc \notin {"ok", "err"}
  BY DEF Working
<1>3. Table' = Table
  <2>1. (CHOOSE j \in Saves : Working(j)') = k
    BY <1>1 DEF Working
  <2>q. QED BY <2>1 DEF Table
<1>4. Told' = Told
  BY <1>1, <1>2 DEF Told
<1>5. GivenTo' = GivenTo
  BY <1>1, <1>2 DEF GivenTo
<1>q. QED BY <1>1, <1>3, <1>4, <1>5 DEF Promise!abstractVars, Table, GivenTo

LEMMA StepKeepsPromise ==
  ASSUME AloneInv, ~Overlap, NEW k \in Saves, Step(k)
  PROVE  Promise!Next \/ UNCHANGED Promise!abstractVars
<1> DEFINE w == save[k]
<1>0. /\ \A j \in Saves : j # k => ~Working(j)
      /\ w \in WriterState /\ save \in [Saves -> WriterState]
      /\ w.given \in Nat /\ w.given \in 0 .. MaxRows
      /\ format # "excel" => Start = file
      /\ UNCHANGED <<format, mode>>
  BY OnlyOne, StepEffect, BaseType DEF AloneInv, WriterType, WriterState, Start
<1>1. ASSUME NEW answer \in {"ok", "err"}, w.pc \notin {"ok", "err"},
             save'[k].pc = answer, save'[k].given = w.given,
             Left(k, w.given, answer),
             mode[k] = "append" => Base(k) = Table \/ (answer = "err" /\ Rows(file') = Table)
      PROVE  Promise!Next \/ UNCHANGED Promise!abstractVars
  <2> DEFINE n == w.given
  <2>1. n \in Nat /\ n \in 0 .. MaxRows /\ save'[k].given = n /\ Left(k, n, answer)
    BY <1>0, <1>1
  <2> HIDE DEF n
  <2>2. Rows(file') \in Promise!Outcomes(k, n, answer)
    BY <1>1, <2>1, LeftIsAnOutcome
  <2>3. Promise!Save(k, n, answer)
    BY <1>1, <2>1, <2>2, EndIsSave
  <2>q. QED BY <2>1, <2>3 DEF Promise!Next
<1>2. Working(k) => Table = Rows(w.before) /\ (mode[k] = "append" => Base(k) = Table)
  BY TableOf DEF AloneInv, Base
<1>3. CASE Check(k)
  <2>1. w.pc = "new" /\ Table = Rows(file) /\ file' = file
    <3>1. w.pc = "new" /\ file' = file
      BY <1>3 DEF Check
    <3>2. \A j \in Saves : ~Working(j)
      BY <1>0, <3>1 DEF Working
    <3>q. QED BY <3>1, <3>2, TableOf DEF AloneInv
  <2>2. CASE save' = [save EXCEPT ![k].pc = "err"]
    <3>1. save'[k].pc = "err" /\ save'[k].given = w.given
      BY <1>0, <2>2 DEF WriterState
    <3>q. QED BY <1>1, <2>1, <3>1 DEF Left
  <2>3. CASE \E b \in BOOLEAN : BeginsWith(k, b)
    <3>1. save'[k].pc = "opening" /\ save'[k].before = file
      BY <1>0, <2>3 DEF WriterState, BeginsWith
    <3>q. QED BY <2>1, <3>1, WorkIsStutter DEF Working
  <2>q. QED BY <1>3, <2>2, <2>3, CheckEffect
<1>4. CASE OpenFails(k)
  <2>1. w.pc = "opening" /\ file' = file /\ Working(k)
    BY <1>4 DEF OpenFails, Working
  <2>2. file = w.before
    BY <2>1 DEF AloneInv, Alone
  <2>3. save'[k].pc = "err" /\ save'[k].given = w.given
    BY <1>0, <1>4 DEF OpenFails, Ended, NoWriter
  <2>q. QED BY <1>1, <1>2, <2>1, <2>2, <2>3 DEF Left
<1>5. CASE Open(k) \/ WriteBatch(k) \/ Flush(k)
  <2>1. w.pc \in {"opening", "writing"} /\ save'[k].pc = "writing" /\ save'[k].before = w.before
    <3>1. CASE Open(k)
      BY <1>0, <3>1 DEF Open, WriterState
    <3>2. CASE WriteBatch(k)
      BY <1>0, <3>2 DEF WriteBatch, WriterState
    <3>3. CASE Flush(k)
      BY <1>0, <3>3 DEF Flush, WriterState
    <3>q. QED BY <1>5, <3>1, <3>2, <3>3
  <2>q. QED BY <1>2, <2>1, WorkIsStutter DEF Working
<1>6. CASE Finish(k)
  <2>1. w.pc = "writing" /\ Working(k) /\ file' = FileAfter(k, Len(Remaining(k)))
    BY <1>6 DEF Finish, Working
  <2>2. save'[k].pc = "ok" /\ save'[k].given = w.given
    BY <1>0, <1>6 DEF Finish, Ended, NoWriter
  <2>3. Left(k, w.given, "ok")
    BY <2>1, LastWrite DEF Left
  <2>q. QED BY <1>1, <1>2, <2>1, <2>2, <2>3
<1>7. CASE Abandon(k)
  <2>1. w.pc = "writing" /\ Working(k)
    BY <1>7 DEF Abandon, Working
  <2>2. save'[k].pc = "err" /\ save'[k].given = w.given
    BY <1>0, <1>7 DEF Abandon, Ended, NoWriter
  <2>3. Left(k, w.given, "err")
    <3>1. CASE file' = file /\ format # "excel"
      BY <1>0, <2>1, <3>1, LastWrite DEF Left
    <3>2. CASE file' = file /\ format = "excel"
      <4>1. file = w.before
        BY <2>1, <3>2 DEF AloneInv, Alone
      <4>q. QED BY <1>2, <2>1, <3>2, <4>1 DEF Left
    <3>3. ASSUME NEW m \in 0 .. Len(Remaining(k)), file' = FileAfter(k, m)
          PROVE  Left(k, w.given, "err")
      BY <2>1, <3>3, LastWrite DEF Left
    <3>q. QED BY <1>7, <3>1, <3>2, <3>3 DEF Abandon
  <2>q. QED BY <1>1, <1>2, <2>1, <2>2, <2>3
<1>q. QED BY <1>3, <1>4, <1>5, <1>6, <1>7 DEF Step

(* Saves that follow one another do to the rows of the file what           *)
(* ExportFile promises, in every format and mode: all of a save or, if its *)
(* caller is told of an error, some first part of it (write_batch, finish  *)
(* and the drop of the writer).                                            *)
THEOREM SavesKeepPromise ==
  ASSUME ~Overlap
  PROVE  Spec => ImplementsExportFile
<1>1. Init => AloneInv
  BY InitWriterType, InitAlone, InitAccounted DEF AloneInv
<1>2. AloneInv /\ [Next]_vars => AloneInv'
  BY NextAloneInv
<1>3. Init => Promise!Init
  <2> SUFFICES ASSUME Init PROVE Promise!Init
    OBVIOUS
  <2>1. Rows(file) = << >> /\ \A k \in Saves : save[k] = NoWriter("new", 0)
    BY RowsEmpty DEF Init
  <2>2. Table = << >>
    BY <2>1 DEF Table, Working, NoWriter
  <2>3. Told = [k \in Saves |-> "pending"] /\ GivenTo = [k \in Saves |-> 0]
    BY <2>1 DEF Told, GivenTo, NoWriter
  <2>4. mode \in [Saves -> {"overwrite", "append"}]
    BY WriterAssumption DEF WriterAssumption, Init
  <2>q. QED BY <2>2, <2>3, <2>4 DEF Promise!Init, Table, GivenTo
<1>4. AloneInv /\ [Next]_vars => [Promise!Next]_Promise!abstractVars
  <2> SUFFICES ASSUME AloneInv, [Next]_vars
               PROVE  Promise!Next \/ UNCHANGED Promise!abstractVars
    OBVIOUS
  <2>1. CASE \E k \in Saves : Step(k)
    BY <2>1, StepKeepsPromise
  <2>2. CASE UNCHANGED vars
    BY <2>2 DEF vars, Promise!abstractVars, Table, GivenTo, Told, Working
  <2>q. QED BY <2>1, <2>2 DEF Next, Finished
<1>q. QED BY <1>1, <1>2, <1>3, <1>4, PTL DEF Spec, ImplementsExportFile, Promise!Spec

-----------------------------------------------------------------------------
(* Appends to one CSV at the same time.                                    *)

CsvAppends == Formats \subseteq {"csv"} /\ Modes \subseteq {"append"}

Mine(f, k) == Kept(f, PartsOf(k))
Sent(k) == Plain(RowsFrom(k, 0, save[k].given))
Writes(k) == {Header} \union PartsOf(k)
StartsRight(f) == f # << >> => f[1] = Header

(* What a save has of its own in the file and, after it, in the buffer is  *)
(* what it got, in order; once it failed, some first part of it.  Whoever  *)
(* writes first has the header first.                                      *)
InOrder(k) ==
    LET w == save[k]
    IN  /\ w.buffer \in Seq(Writes(k))
        /\ w.pc # "writing" \/ ~w.begun => w.buffer = << >>
        /\ w.pc \in {"opening", "writing"} /\ w.begun /\ file = << >> =>
              w.buffer # << >> /\ w.buffer[1] = Header
        /\ w.pc # "err" => Mine(file, k) \o Mine(w.buffer, k) = Sent(k)
        /\ w.pc = "err" => IsPrefix(Mine(file, k), Sent(k))
AllInOrder == StartsRight(file) /\ \A k \in Saves : InOrder(k)

LEMMA SeqSubset ==
  ASSUME NEW S, NEW T, S \subseteq T, NEW s \in Seq(S)
  PROVE  s \in Seq(T)
<1>1. Len(s) \in Nat /\ \A i \in 1 .. Len(s) : s[i] \in S
  BY LenProperties
<1>2. s \in [1 .. Len(s) -> T]
  BY <1>1, LenProperties
<1>q. QED BY <1>1, <1>2

(* All or nothing.                                                         *)
LEMMA KeptNone ==
  ASSUME NEW S, NEW P, S \intersect P = {}, NEW f \in Seq(S)
  PROVE  Kept(f, P) = << >>
<1> DEFINE s == Kept(f, P)
<1>1. s \in Seq(S \intersect P)
  BY KeptType
<1> HIDE DEF s
<1>2. Len(s) \in Nat /\ \A i \in 1 .. Len(s) : s[i] \in {}
  BY <1>1, LenProperties
<1>3. Len(s) = 0
  BY <1>2
<1>4. s = << >>
  BY <1>1, <1>3, EmptySeq
<1>q. QED BY <1>4 DEF s

LEMMA KeptAll ==
  ASSUME NEW P, NEW f \in Seq(P)
  PROVE  Kept(f, P) = f
<1> DEFINE T == {s \in Seq(P) : Kept(s, P) = s}
<1>1. << >> \in T
  BY KeptEmpty, EmptySeq
<1>2. ASSUME NEW s \in Seq(P), NEW x \in P, s \in T
      PROVE  s \o <<x>> \in T
  <2> DEFINE one == <<x>>
  <2>1. one \in Seq(P) /\ Kept(one, P) = one
    BY KeptOne
  <2>2. Kept(s, P) = s
    BY <1>2
  <2> HIDE DEF one
  <2>3. Kept(s \o one, P) = Kept(s, P) \o Kept(one, P)
    <3>1. ASSUME NEW g \in Seq(P) PROVE Kept(s \o g, P) = Kept(s, P) \o Kept(g, P)
      <4> HIDE DEF T
      <4>q. QED BY KeptConcat
    <3>q. QED BY <2>1, <3>1
  <2>4. s \o one \in Seq(P)
    BY <2>1, ConcatProperties
  <2>5. Kept(s \o one, P) = s \o one
    BY <2>1, <2>2, <2>3
  <2>q. QED BY <2>4, <2>5 DEF one
<1>3. \A s \in Seq(P) : s \in T
  <2> HIDE DEF T
  <2>q. QED BY <1>1, <1>2, SeqClimb
<1>q. QED BY <1>3

LEMMA FirstOfConcat ==
  ASSUME NEW S, NEW a \in Seq(S), NEW b \in Seq(S)
  PROVE  SubSeq(a \o b, 1, Len(a)) = a
<1> DEFINE c == a \o b
           n == Len(a)
           d == SubSeq(c, 1, n)
<1>1. /\ n \in Nat /\ Len(b) \in Nat /\ c \in Seq(S) /\ Len(c) = n + Len(b)
      /\ \A i \in 1 .. n : c[i] = a[i]
  <2>1. n \in Nat /\ Len(b) \in Nat
    BY LenProperties
  <2>q. QED BY <2>1, ConcatProperties
<1>2. \A i \in 1 .. n : a[i] \in S /\ c[i] \in S
  BY <1>1, LenProperties
<1> HIDE DEF c, n
<1>3. /\ d \in Seq(S) /\ Len(d) = IF 1 <= n THEN n - 1 + 1 ELSE 0
      /\ \A i \in 1 .. n - 1 + 1 : d[i] = c[1 + i - 1]
  BY <1>1, <1>2, SubSeqProperties
<1>4. n - 1 + 1 = n /\ (~(1 <= n) => n = 0) /\ \A i \in 1 .. n : 1 + i - 1 = i
  BY <1>1
<1> HIDE DEF d
<1>5. d \in Seq(S) /\ Len(d) = n /\ \A i \in 1 .. n : d[i] = a[i]
  BY <1>1, <1>3, <1>4
<1>6. d = a
  BY <1>5, SeqEqual DEF n
<1>q. QED BY <1>6 DEF d, c, n

LEMMA PrefixOfConcat ==
  ASSUME NEW S, NEW a \in Seq(S), NEW b \in Seq(S)
  PROVE  IsPrefix(a, a \o b)
<1>1. Len(a) <= Len(a \o b)
  <2>1. Len(a) \in Nat /\ Len(b) \in Nat
    BY LenProperties
  <2>2. Len(a \o b) = Len(a) + Len(b)
    BY ConcatProperties
  <2>q. QED BY <2>1, <2>2
<1>2. SubSeq(a \o b, 1, Len(a)) = a /\ SubSeq(a, 1, Len(a)) = a
  BY FirstOfConcat, SubSeqFull
<1>q. QED BY <1>1, <1>2 DEF IsPrefix

-----------------------------------------------------------------------------
(* Own pieces.                                                             *)

LEMMA WritesType ==
  ASSUME NEW k \in Saves
  PROVE  Writes(k) \subseteq Bytes /\ PartsOf(k) \subseteq Writes(k)
  BY DEF Writes, PartsOf, Bytes, Piece

LEMMA MineType ==
  ASSUME NEW k \in Saves, NEW f \in Seq(Bytes)
  PROVE  Mine(f, k) \in Seq(PartsOf(k))
<1>1. Mine(f, k) \in Seq(Bytes \intersect PartsOf(k))
  BY KeptType DEF Mine
<1>q. QED BY <1>1, SeqSubset

LEMMA MineConcat ==
  ASSUME NEW k \in Saves, NEW f \in Seq(Bytes), NEW g \in Seq(Bytes)
  PROVE  Mine(f \o g, k) = Mine(f, k) \o Mine(g, k)
  BY KeptConcat DEF Mine

LEMMA NotOthers ==
  ASSUME NEW j \in Saves, NEW k \in Saves, j # k, NEW f \in Seq(Writes(k))
  PROVE  Mine(f, j) = << >>
<1>1. Writes(k) \intersect PartsOf(j) = {}
  <2> SUFFICES ASSUME NEW x \in Writes(k), x \in PartsOf(j) PROVE FALSE
    OBVIOUS
  <2>1. x.t = "part" /\ x.row.of = j
    BY DEF PartsOf
  <2>2. x # Header
    BY <2>1 DEF Header
  <2>3. x.row.of = k
    BY <2>2 DEF Writes, PartsOf
  <2>q. QED BY <2>1, <2>3
<1>q. QED BY <1>1, KeptNone DEF Mine

(* All that a save writes of a batch is its own.                           *)
LEMMA PlainIsMine ==
  ASSUME NEW k \in Saves, NEW i \in Nat, NEW n \in Nat, i <= n
  PROVE  /\ Plain(RowsFrom(k, i, n)) \in Seq(PartsOf(k))
         /\ Mine(Plain(RowsFrom(k, i, n)), k) = Plain(RowsFrom(k, i, n))
<1> DEFINE rows == RowsFrom(k, i, n)
           p == Plain(rows)
<1>1. /\ rows \in Seq(RowIds) /\ Len(rows) = n - i
      /\ \A x \in 1 .. n - i : rows[x] = Row(k, i + x)
  BY RowsFromType
<1> HIDE DEF rows
<1>2. /\ p \in Seq(Bytes) /\ Len(p) = 2 * Len(rows)
      /\ \A x \in 1 .. Len(rows) : p[2 * x - 1] = Part(rows[x], 1) /\ p[2 * x] = Part(rows[x], 2)
  BY <1>1, PlainPieces
<1> HIDE DEF p
<1>3. ASSUME NEW x \in 1 .. Len(rows)
      PROVE  p[2 * x - 1] \in PartsOf(k) /\ p[2 * x] \in PartsOf(k)
  <2>1. rows[x] = Row(k, i + x) /\ i + x \in Nat
    BY <1>1, <1>3
  <2>2. \A h \in {1, 2} : Part(rows[x], h) \in PartsOf(k)
    BY <2>1 DEF Part, Row, PartsOf
  <2>q. QED BY <1>2, <1>3, <2>2
<1>4. ASSUME NEW y \in 1 .. Len(p)
      PROVE  p[y] \in PartsOf(k)
  <2>1. n - i \in Nat /\ Len(rows) \in Nat /\ Len(p) = 2 * Len(rows)
    BY <1>1, <1>2
  <2>2. \E x \in 1 .. Len(rows) : y = 2 * x - 1 \/ y = 2 * x
    <3>1. y = 2 * ((y + 1) \div 2) - 1 \/ y = 2 * ((y + 1) \div 2)
      BY <2>1
    <3>2. (y + 1) \div 2 \in 1 .. Len(rows)
      BY <2>1
    <3>q. QED BY <3>1, <3>2
  <2>q. QED BY <1>3, <2>2
<1>5. p \in Seq(PartsOf(k))
  <2>1. Len(p) \in Nat /\ p \in [1 .. Len(p) -> PartsOf(k)]
    BY <1>2, <1>4, LenProperties
  <2>q. QED BY <2>1
<1>6. Mine(p, k) = p
  BY <1>5, KeptAll DEF Mine
<1>q. QED BY <1>5, <1>6 DEF p, rows

(* A write of one save changes nothing for another.                        *)
LEMMA OthersInOrder ==
  ASSUME WriterType, AllInOrder, NEW k \in Saves, Step(k),
         NEW bytes \in Seq(Writes(k)), file' = file \o bytes,
         NEW j \in Saves, j # k
  PROVE  InOrder(j)'
<1>1. save'[j] = save[j] /\ file \in Seq(Bytes) /\ bytes \in Seq(Bytes) /\ file' \in Seq(Bytes)
  <2>1. save' = [save EXCEPT ![k] = save'[k]] /\ save \in [Saves -> WriterState]
        /\ file \in Seq(Bytes) /\ file' \in Seq(Bytes)
    BY StepEffect DEF WriterType
  <2>2. bytes \in Seq(Bytes)
    BY WritesType, SeqSubset
  <2>q. QED BY <2>1, <2>2
<1>2. Mine(file', j) = Mine(file, j)
  <2>1. Mine(bytes, j) = << >>
    BY NotOthers
  <2>2. Mine(file', j) = Mine(file, j) \o << >>
    BY <1>1, <2>1, MineConcat
  <2>q. QED BY <1>1, <2>2, MineType, ConcatEmptySeq
<1>3. file' = << >> => file = << >>
  <2>1. /\ Len(file) \in Nat /\ Len(bytes) \in Nat
        /\ Len(file \o bytes) = Len(file) + Len(bytes)
    BY <1>1, LenProperties, ConcatProperties
  <2>2. file' = << >> => Len(file \o bytes) = 0
    OBVIOUS
  <2>3. file' = << >> => Len(file) = 0
    BY <2>1, <2>2
  <2>q. QED BY <1>1, <2>3, EmptySeq
<1>q. QED BY <1>1, <1>2, <1>3 DEF AllInOrder, InOrder, Sent

LEMMA HeadOfConcat ==
  ASSUME NEW S, NEW a \in Seq(S), NEW b \in Seq(S), a # << >>
  PROVE  a \o b # << >> /\ (a \o b)[1] = a[1]
<1> DEFINE c == a \o b
<1>1. Len(a) \in Nat /\ Len(b) \in Nat /\ Len(a) # 0
  BY EmptySeq, LenProperties
<1>2. c \in Seq(S) /\ Len(c) = Len(a) + Len(b) /\ \A i \in 1 .. Len(a) + Len(b) :
            c[i] = IF i <= Len(a) THEN a[i] ELSE b[i - Len(a)]
  BY ConcatProperties
<1> HIDE DEF c
<1>3. 1 \in 1 .. Len(a) + Len(b) /\ 1 <= Len(a) /\ Len(c) # 0
  BY <1>1, <1>2
<1>4. c # << >> /\ c[1] = a[1]
  BY <1>2, <1>3, EmptySeq
<1>q. QED BY <1>4 DEF c

LEMMA HeadOfPart ==
  ASSUME NEW S, NEW s \in Seq(S), NEW m \in 0 .. Len(s), SubSeq(s, 1, m) # << >>
  PROVE  s # << >> /\ SubSeq(s, 1, m)[1] = s[1]
<1> DEFINE a == SubSeq(s, 1, m)
           b == SubSeq(s, m + 1, Len(s))
<1>1. a \in Seq(S) /\ b \in Seq(S) /\ a \o b = s /\ a # << >>
  BY CutOff
<1> HIDE DEF a, b
<1>2. a \o b # << >> /\ (a \o b)[1] = a[1]
  BY <1>1, HeadOfConcat
<1>q. QED BY <1>1, <1>2 DEF a

(* What is taken from the buffer to the file stays behind what is there.   *)
LEMMA MineMoves ==
  ASSUME NEW k \in Saves, NEW f \in Seq(Bytes), NEW b \in Seq(Writes(k)), NEW m \in 0 .. Len(b)
  PROVE  LET part == SubSeq(b, 1, m)
             rest == SubSeq(b, m + 1, Len(b))
         IN  /\ part \in Seq(Writes(k)) /\ rest \in Seq(Writes(k))
             /\ Mine(f \o part, k) \o Mine(rest, k) = Mine(f, k) \o Mine(b, k)
<1> DEFINE part == SubSeq(b, 1, m)
           rest == SubSeq(b, m + 1, Len(b))
           x == Mine(f, k)
           y == Mine(part, k)
           z == Mine(rest, k)
<1>1. part \in Seq(Writes(k)) /\ rest \in Seq(Writes(k)) /\ part \o rest = b
  BY CutOff
<1> HIDE DEF part, rest
<1>2. part \in Seq(Bytes) /\ rest \in Seq(Bytes)
  BY <1>1, WritesType, SeqSubset
<1>3. Mine(f \o part, k) = x \o y /\ Mine(b, k) = y \o z
  <2>1. Mine(part \o rest, k) = y \o z
    BY <1>2, MineConcat
  <2>q. QED BY <1>1, <1>2, <2>1, MineConcat
<1>4. x \in Seq(PartsOf(k)) /\ y \in Seq(PartsOf(k)) /\ z \in Seq(PartsOf(k))
  BY <1>2, MineType
<1> HIDE DEF x, y, z
<1>5. (x \o y) \o z = x \o (y \o z)
  BY <1>4, ConcatAssociative
<1>q. QED BY <1>1, <1>3, <1>5 DEF x, z, part, rest

(* The header is due exactly when nobody wrote it.                         *)
LEMMA LeadFirst ==
  ASSUME WriterType, format = "csv", NEW k \in Saves, InOrder(k), save[k].pc = "writing"
  PROVE  LET b == save[k].buffer \o LeadDue(k)
         IN  /\ b \in Seq(Writes(k)) /\ Mine(b, k) = Mine(save[k].buffer, k)
             /\ file = << >> => b # << >> /\ b[1] = Header
             /\ Remaining(k) = b
<1> DEFINE w == save[k]
           l == LeadDue(k)
           head == <<Header>>
           b == w.buffer \o l
<1>1. w.buffer \in Seq(Writes(k)) /\ w.buffer \in Seq(Bytes) /\ << >> \in Seq(Writes(k))
      /\ (~w.begun => w.buffer = << >>)
      /\ (w.begun /\ file = << >> => w.buffer # << >> /\ w.buffer[1] = Header)
  <2>1. w.buffer \in Seq(Writes(k))
    BY DEF InOrder
  <2>2. w.buffer \in Seq(Bytes)
    BY <2>1, WritesType, SeqSubset
  <2>q. QED BY <2>1, <2>2, EmptySeq DEF InOrder
<1>2. l = IF w.begun THEN << >> ELSE head
  BY DEF LeadDue, Lead
<1>3. head \in Seq(Writes(k)) /\ head \in Seq(Bytes) /\ Mine(head, k) = << >>
      /\ head # << >> /\ head[1] = Header
  <2>1. Header \notin PartsOf(k)
    BY DEF PartsOf, Header
  <2>2. Mine(head, k) = << >>
    BY <2>1, KeptOne DEF Mine
  <2>3. head \in Seq(Writes(k))
    BY DEF Writes
  <2>4. head \in Seq(Bytes)
    BY <2>3, WritesType, SeqSubset
  <2>5. head # << >> /\ head[1] = Header
    OBVIOUS
  <2>q. QED BY <2>2, <2>3, <2>4, <2>5
<1>4. Mine(<< >>, k) = << >>
  BY KeptEmpty DEF Mine
<1>5. b \in Seq(Writes(k)) /\ Mine(b, k) = Mine(w.buffer, k)
      /\ (file = << >> => b # << >> /\ b[1] = Header)
  <2> HIDE DEF head
  <2>1. CASE w.begun
    <3>1. b = w.buffer
      <4>1. w.buffer \o << >> = w.buffer
        BY <1>1, ConcatEmptySeq
      <4>q. QED BY <1>2, <2>1, <4>1
    <3> HIDE DEF b
    <3>q. QED BY <1>1, <2>1, <3>1
  <2>2. CASE ~w.begun
    <3>1. b = head /\ w.buffer = << >>
      <4>1. << >> \o head = head
        BY <1>3, ConcatEmptySeq
      <4>q. QED BY <1>1, <1>2, <2>2, <4>1
    <3> HIDE DEF b
    <3>q. QED BY <1>3, <1>4, <3>1
  <2>q. QED BY <2>1, <2>2
<1>6. Remaining(k) = b
  <2>1. Closing = << >> /\ Remaining(k) = b \o Closing
    BY DEF Closing, Remaining
  <2> HIDE DEF b
  <2>q. QED BY <1>5, <2>1, ConcatEmptySeq
<1>q. QED BY <1>5, <1>6 DEF b, l, w

SentType(k) ==
    /\ save[k].given \in Nat /\ Sent(k) \in Seq(PartsOf(k))
    /\ Mine(file, k) \in Seq(PartsOf(k)) /\ Mine(save[k].buffer, k) \in Seq(PartsOf(k))

LEMMA SentHasType ==
  ASSUME WriterType, NEW k \in Saves
  PROVE  SentType(k)
<1>1. save[k].given \in Nat /\ save[k].buffer \in Seq(Bytes) /\ file \in Seq(Bytes)
  BY BaseType DEF WriterType, WriterState
<1>2. 0 \in Nat /\ 0 <= save[k].given
  BY <1>1
<1>q. QED BY <1>1, <1>2, PlainIsMine, MineType DEF SentType, Sent

(* The file as it is, when nothing is written.                             *)
LEMMA NothingWritten ==
  ASSUME WriterType, NEW k \in Saves
  PROVE  << >> \in Seq(Writes(k)) /\ file \o << >> = file
  BY EmptySeq, ConcatEmptySeq DEF WriterType

(* A save that failed before it wrote more leaves a first part.            *)
LEMMA FailedInOrder ==
  ASSUME WriterType, NEW k \in Saves, NEW f \in Seq(Bytes), NEW r \in Seq(Bytes),
         Mine(f, k) \o Mine(r, k) = Sent(k)
  PROVE  IsPrefix(Mine(f, k), Sent(k))
<1> DEFINE a == Mine(f, k)
           b == Mine(r, k)
<1>1. a \in Seq(PartsOf(k)) /\ b \in Seq(PartsOf(k))
  BY MineType
<1> HIDE DEF a, b
<1>2. IsPrefix(a, a \o b)
  BY <1>1, PrefixOfConcat
<1>q. QED BY <1>2 DEF a, b

LEMMA BatchInOrder ==
  ASSUME WriterType, NEW k \in Saves, NEW n \in Nat, NEW b \in Seq(Writes(k)),
         Mine(file, k) \o Mine(b, k) = Sent(k)
  PROVE  /\ Plain(NewRows(k, n)) \in Seq(Writes(k))
         /\ Mine(file, k) \o Mine(b \o Plain(NewRows(k, n)), k)
               = Plain(RowsFrom(k, 0, save[k].given + n))
<1> DEFINE g == save[k].given
           p == Plain(NewRows(k, n))
           x == Mine(file, k)
           y == Mine(b, k)
<1>1. g \in Nat /\ g + n \in Nat /\ 0 \in Nat /\ 0 <= g /\ g <= g + n
  BY SentHasType DEF SentType
<1>2. NewRows(k, n) = RowsFrom(k, g, g + n)
  BY <1>1, NewRowsFrom
<1>3. p \in Seq(PartsOf(k)) /\ Mine(p, k) = p
  <2> HIDE DEF g
  <2>q. QED BY <1>1, <1>2, PlainIsMine
<1>4. p \in Seq(Writes(k)) /\ p \in Seq(Bytes) /\ b \in Seq(Bytes) /\ file \in Seq(Bytes)
  <2> HIDE DEF p
  <2>1. p \in Seq(Writes(k))
    BY <1>3, WritesType, SeqSubset
  <2>q. QED BY <2>1, WritesType, SeqSubset DEF WriterType
<1>5. Plain(RowsFrom(k, 0, g + n)) = Plain(RowsFrom(k, 0, g)) \o Plain(RowsFrom(k, g, g + n))
  <2> DEFINE u == RowsFrom(k, 0, g)
             v == RowsFrom(k, g, g + n)
  <2>1. u \in Seq(RowIds) /\ v \in Seq(RowIds)
    <3> HIDE DEF g
    <3>q. QED BY <1>1, RowsFromType
  <2>2. u \o v = RowsFrom(k, 0, g + n)
    <3> HIDE DEF g
    <3>q. QED BY <1>1, RowsFromJoin
  <2> HIDE DEF u, v
  <2>3. Plain(u \o v) = Plain(u) \o Plain(v)
    BY <2>1, PlainConcat
  <2>q. QED BY <2>2, <2>3 DEF u, v
<1>6. Mine(b \o p, k) = y \o p
  <2> HIDE DEF p
  <2>q. QED BY <1>3, <1>4, MineConcat
<1>7. x \in Seq(PartsOf(k)) /\ y \in Seq(PartsOf(k))
  BY <1>4, MineType
<1>8. x \o (y \o p) = (x \o y) \o p
  <2>1. Regrouped(x, y, p)
    BY <1>3, <1>7, Assoc
  <2>q. QED BY <2>1 DEF Regrouped
<1>9. x \o y = Plain(RowsFrom(k, 0, g))
  BY DEF Sent
<1> HIDE DEF x, y
<1>10. x \o Mine(b \o p, k) = Plain(RowsFrom(k, 0, g)) \o p
  BY <1>6, <1>8, <1>9
<1>q. QED BY <1>2, <1>4, <1>5, <1>10 DEF x, p, g

LEMMA StepInOrder ==
  ASSUME CsvAppends, WriterType, AllInOrder, NEW k \in Saves, Step(k)
  PROVE  \E bytes \in Seq(Writes(k)) :
           file' = file \o bytes /\ StartsRight(file') /\ InOrder(k)'
<1> DEFINE w == save[k]
           g == w.given
<1>0. /\ format = "csv" /\ mode[k] = "append" /\ format' = format /\ mode' = mode
      /\ w \in WriterState /\ save \in [Saves -> WriterState] /\ save'[k] \in WriterState
      /\ file \in Seq(Bytes) /\ w.buffer \in Seq(Bytes) /\ << >> \in Seq(Bytes)
      /\ << >> \in Seq(Writes(k)) /\ file \o << >> = file
      /\ InOrder(k) /\ StartsRight(file)
  BY NothingWritten, StepEffect, EmptySeq DEF CsvAppends, WriterType, WriterState, AllInOrder
<1>1. Mine(<< >>, k) = << >> /\ SentType(k)
  BY KeptEmpty, SentHasType DEF Mine
<1>2. w.pc # "err" => IsPrefix(Mine(file, k), Sent(k))
  BY <1>0, FailedInOrder DEF InOrder
<1>3. SUFFICES ASSUME file' # file \/ ~InOrder(k)'
               PROVE  \E bytes \in Seq(Writes(k)) :
                         file' = file \o bytes /\ StartsRight(file') /\ InOrder(k)'
  BY <1>0
<1>4. CASE Check(k)
  <2>1. w.pc = "new" /\ file' = file /\ w.buffer = << >>
    BY <1>0, <1>4 DEF Check, InOrder
  <2>2. CASE save' = [save EXCEPT ![k].pc = "err"]
    <3>1. save'[k].pc = "err" /\ save'[k].buffer = w.buffer /\ save'[k].given = g
      BY <1>0, <2>2 DEF WriterState
    <3>2. InOrder(k)'
      BY <1>0, <1>2, <2>1, <3>1 DEF InOrder, Sent
    <3>q. QED BY <1>3, <2>1, <3>2
  <2>3. CASE \E b \in BOOLEAN : b \in LooksBegun(k) /\ BeginsWith(k, b)
    <3>0. PICK b \in BOOLEAN : b \in LooksBegun(k) /\ BeginsWith(k, b)
      BY <2>3
    <3>4. b => file # << >>
      BY <3>0 DEF LooksBegun, Begun, IsCut
    <3>1. save'[k].pc = "opening" /\ save'[k].buffer = w.buffer /\ save'[k].given = g
          /\ (save'[k].begun => file # << >>)
      BY <1>0, <3>0, <3>4 DEF WriterState, BeginsWith
    <3>2. InOrder(k)'
      BY <1>0, <2>1, <3>1 DEF InOrder, Sent
    <3>q. QED BY <1>3, <2>1, <3>2
  <2>q. QED BY <1>4, <2>2, <2>3, CheckEffect
<1>5. CASE Open(k)
  <2>1. /\ w.pc = "opening" /\ file' = file /\ w.buffer = << >>
        /\ save'[k].pc = "writing" /\ save'[k].buffer = << >> /\ save'[k].given = g
        /\ save'[k].begun = w.begun
    <3>1. w.pc = "opening" /\ file' = file
      BY <1>0, <1>5 DEF Open, Opened
    <3>2. save'[k].pc = "writing" /\ save'[k].buffer = << >> /\ save'[k].given = g
          /\ save'[k].begun = w.begun
      BY <1>0, <1>5 DEF Open, WriterState
    <3>q. QED BY <1>0, <3>1, <3>2 DEF InOrder
  <2>2. InOrder(k)'
    BY <1>0, <2>1 DEF InOrder, Sent
  <2>q. QED BY <1>3, <2>1, <2>2
<1>6. CASE OpenFails(k)
  <2>1. /\ w.pc = "opening" /\ file' = file
        /\ save'[k].pc = "err" /\ save'[k].buffer = << >> /\ save'[k].given = g
    BY <1>0, <1>6 DEF OpenFails, Ended, NoWriter
  <2>2. InOrder(k)'
    BY <1>0, <1>2, <2>1 DEF InOrder, Sent
  <2>q. QED BY <1>3, <2>1, <2>2
<1>7. ASSUME w.pc = "writing"
      PROVE  /\ w.buffer \o LeadDue(k) \in Seq(Writes(k))
             /\ Mine(file, k) \o Mine(w.buffer \o LeadDue(k), k) = Sent(k)
             /\ file = << >> => /\ w.buffer \o LeadDue(k) # << >>
                               /\ (w.buffer \o LeadDue(k))[1] = Header
             /\ Remaining(k) = w.buffer \o LeadDue(k)
  BY <1>0, <1>7, LeadFirst DEF InOrder
<1> DEFINE b == w.buffer \o LeadDue(k)
<1>8. CASE WriteBatch(k)
  <2>1. PICK n \in 0 .. BatchSize :
          /\ w.given + n <= MaxRows
          /\ save' = [save EXCEPT
                ![k].buffer = w.buffer \o LeadDue(k) \o RowPieces(NewRows(k, n), w.begun),
                ![k].begun = w.begun \/ n > 0 \/ format # "json",
                ![k].given = w.given + n]
    BY <1>8 DEF WriteBatch
  <2> DEFINE p == Plain(NewRows(k, n))
  <2>2. RowPieces(NewRows(k, n), w.begun) = p
    BY <1>0 DEF RowPieces
  <2>3. /\ w.pc = "writing" /\ save'[k].pc = "writing" /\ save'[k].given = g + n
        /\ save'[k].buffer = b \o p /\ save'[k].begun = TRUE /\ file' = file
    BY <1>0, <1>8, <2>1, <2>2 DEF WriteBatch, WriterState
  <2>4. n \in Nat
    BY WriterAssumption DEF WriterAssumption
  <2>5. b \in Seq(Writes(k)) /\ Mine(file, k) \o Mine(b, k) = Sent(k)
        /\ (file = << >> => b # << >> /\ b[1] = Header)
    BY <1>7, <2>3
  <2> HIDE DEF b
  <2>6. p \in Seq(Writes(k)) /\ Mine(file, k) \o Mine(b \o p, k) = Plain(RowsFrom(k, 0, g + n))
    BY <2>4, <2>5, BatchInOrder
  <2> HIDE DEF p
  <2>7. b \o p \in Seq(Writes(k)) /\ (file = << >> => b \o p # << >> /\ (b \o p)[1] = Header)
    BY <2>5, <2>6, ConcatProperties, HeadOfConcat
  <2>8. InOrder(k)'
    BY <2>3, <2>6, <2>7 DEF InOrder, Sent
  <2>q. QED BY <1>3, <2>3, <2>8
<1>9. ASSUME NEW r \in Seq(Writes(k)), NEW m \in 0 .. Len(r),
             file = << >> /\ r # << >> => r[1] = Header,
             file' = WrittenAt(file, Where(k), SubSeq(r, 1, m))
      PROVE  /\ SubSeq(r, 1, m) \in Seq(Writes(k)) /\ SubSeq(r, m + 1, Len(r)) \in Seq(Writes(k))
             /\ file' = file \o SubSeq(r, 1, m) /\ StartsRight(file')
             /\ Mine(file', k) \o Mine(SubSeq(r, m + 1, Len(r)), k) = Mine(file, k) \o Mine(r, k)
  <2> DEFINE part == SubSeq(r, 1, m)
             rest == SubSeq(r, m + 1, Len(r))
  <2>1. /\ part \in Seq(Writes(k)) /\ rest \in Seq(Writes(k))
        /\ Mine(file \o part, k) \o Mine(rest, k) = Mine(file, k) \o Mine(r, k)
    BY <1>0, MineMoves
  <2>2. part # << >> => r # << >> /\ part[1] = r[1]
    BY HeadOfPart
  <2> HIDE DEF part, rest
  <2>3. part \in Seq(Bytes)
    BY <2>1, WritesType, SeqSubset
  <2>4. file' = file \o part
    <3>1. Where(k) = Len(file) /\ file' = WrittenAt(file, Where(k), part)
      BY <1>0, <1>9 DEF Where, part
    <3>q. QED BY <1>0, <2>3, <3>1, WrittenAtEnd
  <2>5. StartsRight(file')
    <3>1. CASE file # << >>
      BY <1>0, <2>3, <2>4, <3>1, HeadOfConcat DEF StartsRight
    <3>2. CASE file = << >>
      <4>1. file' = part
        BY <2>3, <2>4, <3>2, ConcatEmptySeq
      <4>q. QED BY <1>9, <2>2, <3>2, <4>1 DEF StartsRight
    <3>q. QED BY <3>1, <3>2
  <2>q. QED BY <2>1, <2>4, <2>5 DEF part, rest
<1>10. CASE Flush(k)
  <2>1. PICK m \in 1 .. Len(w.buffer) :
          /\ file' = WrittenAt(file, Where(k), SubSeq(w.buffer, 1, m))
          /\ save' = [save EXCEPT ![k].buffer = SubSeq(w.buffer, m + 1, Len(w.buffer)),
                                  ![k].pos = Where(k) + m]
    BY <1>10 DEF Flush
  <2> DEFINE part == SubSeq(w.buffer, 1, m)
             rest == SubSeq(w.buffer, m + 1, Len(w.buffer))
  <2>2. /\ w.pc = "writing" /\ save'[k].pc = "writing" /\ save'[k].given = g
        /\ save'[k].buffer = rest /\ save'[k].begun = w.begun
    BY <1>0, <1>10, <2>1 DEF Flush, WriterState
  <2>3. w.buffer \in Seq(Writes(k)) /\ m \in 0 .. Len(w.buffer) /\ Len(w.buffer) \in Nat
    BY <1>0, LenProperties DEF InOrder
  <2>4. w.buffer # << >> /\ w.begun /\ (file = << >> => w.buffer[1] = Header)
    <3>1. w.buffer # << >>
      BY <2>3
    <3>q. QED BY <1>0, <2>2, <3>1 DEF InOrder
  <2>5. /\ part \in Seq(Writes(k)) /\ rest \in Seq(Writes(k))
        /\ file' = file \o part /\ StartsRight(file')
        /\ Mine(file', k) \o Mine(rest, k) = Mine(file, k) \o Mine(w.buffer, k)
    BY <1>9, <2>1, <2>3, <2>4
  <2>6. file' # << >>
    <3>1. part # << >>
      <4>1. Len(part) = m
        <5>1. m \in Nat /\ m # 0 /\ m <= Len(w.buffer)
          BY <2>3
        <5>2. \A i \in 1 .. m : w.buffer[i] \in Writes(k)
          BY <2>3, <5>1, LenProperties
        <5>3. Len(part) = IF 1 <= m THEN m - 1 + 1 ELSE 0
          BY <5>1, <5>2, SubSeqProperties
        <5>q. QED BY <5>1, <5>3
      <4>q. QED BY <4>1
    <3> HIDE DEF part
    <3>2. part \in Seq(Bytes)
      BY <2>5, WritesType, SeqSubset
    <3>3. Len(file \o part) = Len(file) + Len(part) /\ Len(file) \in Nat /\ Len(part) \in Nat
          /\ Len(part) # 0
      BY <1>0, <3>1, <3>2, ConcatProperties, LenProperties, EmptySeq
    <3>4. file \o part = << >> => Len(file \o part) = 0
      OBVIOUS
    <3>q. QED BY <2>5, <3>3, <3>4
  <2> HIDE DEF rest, part
  <2>7. InOrder(k)'
    BY <1>0, <2>2, <2>4, <2>5, <2>6 DEF InOrder, Sent
  <2>q. QED BY <2>5, <2>7
<1>11. ASSUME w.pc = "writing", NEW answer \in {"ok", "err"}, NEW m \in 0 .. Len(Remaining(k)),
              answer = "ok" => m = Len(Remaining(k)),
              file' = FileAfter(k, m), save' = [save EXCEPT ![k] = Ended(answer, w)]
       PROVE  \E bytes \in Seq(Writes(k)) :
                file' = file \o bytes /\ StartsRight(file') /\ InOrder(k)'
  <2>1. b \in Seq(Writes(k)) /\ Mine(file, k) \o Mine(b, k) = Sent(k)
        /\ (file = << >> => b # << >> /\ b[1] = Header) /\ m \in 0 .. Len(b)
        /\ (answer = "ok" => m = Len(b))
    BY <1>7, <1>11
  <2>2. file' = WrittenAt(file, Where(k), SubSeq(b, 1, m))
    BY <1>0, <1>7, <1>11 DEF FileAfter
  <2>3. save'[k].pc = answer /\ save'[k].buffer = << >> /\ save'[k].given = g
    BY <1>0, <1>11 DEF Ended, NoWriter
  <2> HIDE DEF b
  <2> DEFINE part == SubSeq(b, 1, m)
             rest == SubSeq(b, m + 1, Len(b))
  <2>4. /\ part \in Seq(Writes(k)) /\ rest \in Seq(Writes(k))
        /\ file' = file \o part /\ StartsRight(file')
        /\ Mine(file', k) \o Mine(rest, k) = Sent(k)
    BY <1>9, <2>1, <2>2
  <2>5. answer = "ok" => rest = << >>
    <3>1. Len(b) \in Nat
      BY <2>1, LenProperties
    <3>q. QED BY <2>1, <3>1, SubSeqEmpty
  <2> HIDE DEF part, rest
  <2>6. answer = "ok" => Mine(file', k) \o Mine(<< >>, k) = Sent(k)
    BY <2>4, <2>5
  <2>7. IsPrefix(Mine(file', k), Sent(k))
    <3>1. file' \in Seq(Bytes) /\ rest \in Seq(Bytes)
      BY <2>4, StepEffect, WritesType, SeqSubset
    <3>q. QED BY <2>4, <3>1, FailedInOrder
  <2>8. InOrder(k)'
    BY <1>0, <2>3, <2>6, <2>7 DEF InOrder, Sent
  <2>q. QED BY <2>4, <2>8
<1>12. CASE Finish(k)
  <2>1. Len(Remaining(k)) \in 0 .. Len(Remaining(k))
    <3>1. Len(Remaining(k)) \in Nat
      BY RemainingType, LenProperties
    <3>q. QED BY <3>1
  <2>q. QED BY <1>11, <1>12, <2>1 DEF Finish
<1>13. CASE Abandon(k)
  <2>1. CASE file' = file
    <3>1. /\ w.pc = "writing"
          /\ save'[k].pc = "err" /\ save'[k].buffer = << >> /\ save'[k].given = g
      BY <1>0, <1>13 DEF Abandon, Ended, NoWriter
    <3>2. InOrder(k)'
      BY <1>0, <1>2, <2>1, <3>1 DEF InOrder, Sent
    <3>q. QED BY <1>3, <2>1, <3>2
  <2>2. ASSUME NEW m \in 0 .. Len(Remaining(k)), file' = FileAfter(k, m)
        PROVE  \E bytes \in Seq(Writes(k)) :
                 file' = file \o bytes /\ StartsRight(file') /\ InOrder(k)'
    <3>1. w.pc = "writing" /\ save' = [save EXCEPT ![k] = Ended("err", w)] /\ "err" # "ok"
      BY <1>13 DEF Abandon
    <3>q. QED BY <1>11, <2>2, <3>1
  <2>q. QED BY <1>13, <2>1, <2>2 DEF Abandon
<1>q. QED BY <1>4, <1>5, <1>6, <1>8, <1>10, <1>12, <1>13 DEF Step

LEMMA NextAllInOrder == CsvAppends /\ WriterType /\ AllInOrder /\ [Next]_vars => AllInOrder'
<1> SUFFICES ASSUME CsvAppends, WriterType, AllInOrder, [Next]_vars PROVE AllInOrder'
  OBVIOUS
<1>1. ASSUME NEW k \in Saves, Step(k) PROVE AllInOrder'
  <2>1. PICK bytes \in Seq(Writes(k)) :
          file' = file \o bytes /\ StartsRight(file') /\ InOrder(k)'
    BY <1>1, StepInOrder
  <2>2. \A j \in Saves : j # k => InOrder(j)'
    BY <1>1, <2>1, OthersInOrder
  <2>q. QED BY <2>1, <2>2 DEF AllInOrder
<1>2. CASE UNCHANGED vars
  BY <1>2 DEF vars, AllInOrder, InOrder, Sent
<1>q. QED BY <1>1, <1>2 DEF Next, Finished

LEMMA InitAllInOrder == Init => AllInOrder
<1>0. Init => StartsRight(file)
  BY DEF Init, StartsRight
<1> SUFFICES ASSUME Init, NEW k \in Saves PROVE InOrder(k)
  BY <1>0 DEF AllInOrder
<1>1. /\ file = << >> /\ save[k].pc = "new" /\ save[k].buffer = << >> /\ save[k].given = 0
      /\ ~save[k].begun /\ << >> \in Seq(Writes(k))
  BY EmptySeq DEF Init, NoWriter
<1>2. Mine(<< >>, k) = << >> /\ << >> \o << >> = << >>
  BY KeptEmpty, EmptySeq, ConcatEmptySeq DEF Mine
<1>3. Sent(k) = << >>
  <2>1. RowsFrom(k, 0, 0) = << >>
    BY RowsFromNone
  <2>2. Plain(<< >>) = << >>
    BY DEF Plain
  <2>q. QED BY <1>1, <2>1, <2>2 DEF Sent
<1>q. QED BY <1>1, <1>2, <1>3 DEF InOrder

LEMMA InOrderLosesNothing ==
  ASSUME WriterType, AllInOrder
  PROVE  AppendsLoseNothing
<1>1. ASSUME NEW k \in Saves
      PROVE  /\ save[k].pc = "ok" => Mine(file, k) = Sent(k)
             /\ IsPrefix(Mine(file, k), Sent(k))
             /\ Sent(k) = Plain([i \in 1 .. save[k].given |-> Row(k, i)])
  <2>1. InOrder(k) /\ SentType(k) /\ save[k].buffer \in Seq(Bytes) /\ file \in Seq(Bytes)
    BY SentHasType DEF AllInOrder, WriterType, WriterState
  <2>2. save[k].pc = "ok" => Mine(file, k) = Sent(k)
    <3>1. Mine(<< >>, k) = << >> /\ Mine(file, k) \o << >> = Mine(file, k)
      BY <2>1, KeptEmpty, ConcatEmptySeq DEF Mine, SentType
    <3>q. QED BY <2>1, <3>1 DEF InOrder
  <2>3. IsPrefix(Mine(file, k), Sent(k))
    BY <2>1, FailedInOrder DEF InOrder
  <2>4. RowsFrom(k, 0, save[k].given) = [i \in 1 .. save[k].given |-> Row(k, i)]
    <3>1. save[k].given - 0 = save[k].given /\ \A i \in 1 .. save[k].given : 0 + i = i
      BY <2>1 DEF SentType
    <3>q. QED BY <3>1 DEF RowsFrom
  <2>q. QED BY <2>2, <2>3, <2>4 DEF Sent
<1>q. QED BY <1>1 DEF AppendsLoseNothing, Mine, AllInOrder, StartsRight

(* Appends to one CSV at the same time (OpenOptions::append, BufWriter,    *)
(* and csv's header, written by who finds the file empty) lose no piece of *)
(* each other's rows and keep those of one save in order, and the file     *)
(* starts with a header: for any number of saves, whatever their buffers.  *)
THEOREM CsvAppendsLoseNothing ==
  ASSUME CsvAppends
  PROVE  Spec => []AppendsLoseNothing
<1>1. Init => WriterType /\ AllInOrder
  BY InitWriterType, InitAllInOrder
<1>2. WriterType /\ AllInOrder /\ [Next]_vars => (WriterType /\ AllInOrder)'
  BY NextWriterType, NextAllInOrder
<1>3. WriterType /\ AllInOrder => AppendsLoseNothing
  BY InOrderLosesNothing
<1>q. QED BY <1>1, <1>2, <1>3, PTL DEF Spec

-----------------------------------------------------------------------------
(* What an answer of Ok says of the file.                                  *)

Due(k) == Base(k) \o RowsFrom(k, 0, save[k].given)

(* A save that overwrites, or found a file that can be read, has what such *)
(* a file needs, but for its end, in the file, in its buffer or still due; *)
(* it puts a comma before its next row if there is one before it.          *)
FoundRows(k) ==
    /\ mode[k] = "append" /\ save[k].before # << >>
    /\ format \in {"csv", "json"}
    /\ format = "json" => save[k].before # <<OpenBracket, CloseBracket>>
Complete(k) == (Start \o save[k].buffer) \o LeadDue(k) = Lead \o RowPieces(Due(k), FALSE)
Noticed(k) == format = "json" => save[k].begun = (Due(k) # << >>)
Knows(k) == mode[k] = "overwrite" \/ Readable(save[k].before)
Whole ==
    \A k \in Saves :
        /\ save[k].pc = "opening" /\ Knows(k) => save[k].begun = FoundRows(k)
        /\ save[k].pc = "writing" /\ Knows(k) => Complete(k) /\ Noticed(k)

LEMMA TailOfConcat ==
  ASSUME NEW S, NEW s \in Seq(S), NEW t \in Seq(S), s # << >>
  PROVE  Tail(s \o t) = Tail(s) \o t
<1> DEFINE c == s \o t
           a == Tail(s)
           u == Tail(c)
           v == a \o t
<1>1. /\ Len(s) \in Nat /\ Len(t) \in Nat /\ Len(s) # 0
      /\ c \in Seq(S) /\ Len(c) = Len(s) + Len(t)
      /\ \A i \in 1 .. Len(s) + Len(t) : c[i] = IF i <= Len(s) THEN s[i] ELSE t[i - Len(s)]
  <2>1. Len(s) \in Nat /\ Len(t) \in Nat /\ Len(s) # 0
    BY EmptySeq, LenProperties
  <2>q. QED BY <2>1, ConcatProperties
<1>2. c # << >>
  BY HeadOfConcat
<1>3. a \in Seq(S) /\ Len(a) = Len(s) - 1 /\ \A i \in 1 .. Len(s) - 1 : a[i] = s[i + 1]
  BY <1>1, HeadTailProperties
<1> HIDE DEF c
<1>4. u \in Seq(S) /\ Len(u) = Len(c) - 1 /\ \A i \in 1 .. Len(c) - 1 : u[i] = c[i + 1]
  BY <1>1, <1>2, HeadTailProperties
<1> HIDE DEF a
<1>5. v \in Seq(S) /\ Len(v) = Len(a) + Len(t)
      /\ \A i \in 1 .. Len(a) + Len(t) : v[i] = IF i <= Len(a) THEN a[i] ELSE t[i - Len(a)]
  BY <1>3, ConcatProperties
<1> HIDE DEF u, v
<1>6. ASSUME NEW i \in 1 .. Len(u)
      PROVE  u[i] = v[i]
  <2>1. /\ i \in 1 .. Len(c) - 1 /\ i \in 1 .. Len(a) + Len(t) /\ i + 1 \in 1 .. Len(s) + Len(t)
        /\ (i <= Len(a) <=> i + 1 <= Len(s)) /\ i + 1 - Len(s) = i - Len(a)
        /\ (i <= Len(a) => i \in 1 .. Len(s) - 1)
    <3>1. /\ Len(s) \in Nat /\ Len(t) \in Nat /\ Len(s) # 0 /\ Len(c) = Len(s) + Len(t)
          /\ Len(a) = Len(s) - 1 /\ Len(u) = Len(c) - 1 /\ i \in 1 .. Len(u)
      BY <1>1, <1>3, <1>4
    <3>q. QED BY <3>1
  <2>2. u[i] = c[i + 1]
    BY <1>4, <2>1
  <2>3. CASE i <= Len(a)
    <3>1. v[i] = a[i] /\ a[i] = s[i + 1]
      BY <1>3, <1>5, <2>1, <2>3
    <3>2. c[i + 1] = s[i + 1]
      BY <1>1, <2>1, <2>3
    <3>q. QED BY <2>2, <3>1, <3>2
  <2>4. CASE ~(i <= Len(a))
    <3>1. v[i] = t[i - Len(a)]
      BY <1>5, <2>1, <2>4
    <3>2. c[i + 1] = t[i + 1 - Len(s)]
      BY <1>1, <2>1, <2>4
    <3>q. QED BY <2>1, <2>2, <3>1, <3>2
  <2>q. QED BY <2>3, <2>4
<1>7. Len(u) = Len(v)
  BY <1>1, <1>3, <1>4, <1>5
<1>8. u = v
  BY <1>4, <1>5, <1>6, <1>7, SeqEqual
<1>q. QED BY <1>8 DEF u, v, a, c

(* A batch goes on where the rows before it end.                           *)
LEMMA RowPiecesJoin ==
  ASSUME NEW a \in Seq(RowIds), NEW b \in Seq(RowIds), NEW c \in BOOLEAN,
         format = "json" => c = (a # << >>)
  PROVE  RowPieces(a, FALSE) \o RowPieces(b, c) = RowPieces(a \o b, FALSE)
<1>1. CASE format # "json"
  <2>1. Plain(a \o b) = Plain(a) \o Plain(b)
    BY PlainConcat
  <2>q. QED BY <1>1, <2>1 DEF RowPieces
<1>2. CASE format = "json" /\ a = << >>
  <2>1. << >> \o b = b
    BY ConcatEmptySeq
  <2>2. RowPieces(a, FALSE) = << >>
    <3>1. Bracketed(<< >>) = << >>
      BY DEF Bracketed
    <3>q. QED BY <1>2, <3>1 DEF RowPieces
  <2>3. c = FALSE
    BY <1>2
  <2> DEFINE p == RowPieces(b, FALSE)
  <2>4. p \in Seq(Bytes)
    BY RowPiecesRows
  <2> HIDE DEF p
  <2>5. << >> \o p = p
    BY <2>4, ConcatEmptySeq
  <2>q. QED BY <1>2, <2>1, <2>2, <2>3, <2>5 DEF p
<1>3. CASE format = "json" /\ a # << >>
  <2> DEFINE x == Bracketed(a)
             y == Bracketed(b)
  <2>1. x \in Seq(Bytes) /\ y \in Seq(Bytes) /\ Bracketed(a \o b) = x \o y
    BY BracketedPieces, BracketedConcat
  <2>2. x # << >>
    <3>1. Len(x) = 3 * Len(a) /\ Len(a) \in Nat /\ Len(a) # 0
      BY <1>3, BracketedPieces, EmptySeq, LenProperties
    <3>q. QED BY <3>1
  <2>3. a \o b # << >>
    BY <1>3, HeadOfConcat
  <2>4. RowPieces(a, FALSE) = Tail(x) /\ RowPieces(b, c) = y
    BY <1>3 DEF RowPieces
  <2>5. RowPieces(a \o b, FALSE) = Tail(x \o y)
    BY <1>3, <2>1, <2>3 DEF RowPieces
  <2> HIDE DEF x, y
  <2>6. Tail(x \o y) = Tail(x) \o y
    BY <2>1, <2>2, TailOfConcat
  <2>q. QED BY <2>4, <2>5, <2>6
<1>q. QED BY <1>1, <1>2, <1>3

LEMMA DueType ==
  ASSUME WriterType, NEW k \in Saves
  PROVE  Due(k) \in Seq(RowIds) /\ RowPieces(Due(k), FALSE) \in Seq(Bytes)
<1>1. Base(k) \in Seq(RowIds) /\ save[k].given \in Nat /\ 0 \in Nat /\ 0 <= save[k].given
  BY BaseType
<1>2. RowsFrom(k, 0, save[k].given) \in Seq(RowIds)
  BY <1>1, RowsFromType
<1>3. Due(k) \in Seq(RowIds)
  BY <1>1, <1>2, ConcatProperties DEF Due
<1>q. QED BY <1>3, RowPiecesRows

LEMMA InitWhole == Init => Whole
  BY DEF Init, Whole, NoWriter

LEMMA ReadableNext ==
  ASSUME UNCHANGED <<format, mode>>, NEW k \in Saves, save'[k].before = save[k].before
  PROVE  Knows(k)' = Knows(k) /\ Base(k)' = Base(k)
<1>1. Lead' = Lead /\ Closing' = Closing
  BY DEF Lead, Closing
<1>2. Readable(save[k].before)' = Readable(save[k].before)
  BY <1>1 DEF Readable, Rendered, RowPieces
<1>3. Base(k)' = Base(k)
  BY DEF Base
<1>q. QED BY <1>2, <1>3 DEF Knows

LEMMA CompleteNext ==
  ASSUME UNCHANGED <<format, mode>>, NEW k \in Saves, NEW d, Due(k)' = d,
         NEW l, l = IF format = "json" \/ save'[k].begun THEN << >> ELSE Lead,
         (Start' \o save'[k].buffer) \o l = Lead \o RowPieces(d, FALSE),
         format = "json" => save'[k].begun = (d # << >>)
  PROVE  Complete(k)' /\ Noticed(k)'
<1>1. Lead' = Lead
  BY DEF Lead
<1>2. LeadDue(k)' = l
  BY <1>1 DEF LeadDue
<1>3. RowPieces(Due(k), FALSE)' = RowPieces(d, FALSE)
  BY DEF RowPieces
<1>4. Complete(k)'
  BY <1>1, <1>2, <1>3 DEF Complete
<1>q. QED BY <1>4 DEF Noticed

AllRegrouped(s, b, l, p) == s \o ((b \o l) \o p) = ((s \o b) \o l) \o p

LEMMA Regroup ==
  ASSUME NEW S, NEW s \in Seq(S), NEW b \in Seq(S), NEW l \in Seq(S), NEW p \in Seq(S)
  PROVE  AllRegrouped(s, b, l, p)
<1>1. b \o l \in Seq(S) /\ s \o b \in Seq(S)
  BY ConcatProperties
<1>2. Regrouped(s, b \o l, p)
  BY <1>1, Assoc
<1>3. Regrouped(s, b, l)
  BY Assoc
<1>q. QED BY <1>2, <1>3 DEF Regrouped, AllRegrouped

LEMMA BothEmpty ==
  ASSUME NEW S, NEW a \in Seq(S), NEW b \in Seq(S)
  PROVE  (a \o b = << >>) = (a = << >> /\ b = << >>)
<1>1. CASE a # << >>
  BY <1>1, HeadOfConcat
<1>2. CASE a = << >>
  <2>1. << >> \o b = b
    BY ConcatEmptySeq
  <2>q. QED BY <1>2, <2>1
<1>q. QED BY <1>1, <1>2

LEMMA WholeBatch ==
  ASSUME WriterType, NEW k \in Saves, WriteBatch(k), Complete(k), Noticed(k)
  PROVE  Complete(k)' /\ Noticed(k)'
<1> DEFINE w == save[k]
           g == w.given
<1>0. w \in WriterState /\ save \in [Saves -> WriterState] /\ UNCHANGED <<format, mode>> /\ file' = file
      /\ g \in Nat /\ Base(k) \in Seq(RowIds) /\ w.begun \in BOOLEAN
  BY BaseType DEF WriterType, WriterState, WriteBatch
<1>1. PICK n \in 0 .. BatchSize :
        /\ w.given + n <= MaxRows
        /\ save' = [save EXCEPT
              ![k].buffer = w.buffer \o LeadDue(k) \o RowPieces(NewRows(k, n), w.begun),
              ![k].begun = w.begun \/ n > 0 \/ format # "json",
              ![k].given = w.given + n]
  BY DEF WriteBatch
<1> DEFINE new == NewRows(k, n)
           p == RowPieces(new, w.begun)
           b == w.buffer
           l == LeadDue(k)
           s == Start
           d == Due(k) \o new
           q == RowPieces(Due(k), FALSE)
<1>2. /\ save'[k].given = g + n /\ save'[k].before = w.before
      /\ save'[k].buffer = (b \o l) \o p /\ save'[k].begun = (w.begun \/ n > 0 \/ format # "json")
  BY <1>0, <1>1 DEF WriterState
<1>3. n \in Nat /\ g + n \in Nat /\ g <= g + n /\ 0 <= g /\ 0 \in Nat
  BY <1>0, WriterAssumption DEF WriterAssumption
<1>4. new \in Seq(RowIds) /\ p \in Seq(Bytes) /\ Due(k) \in Seq(RowIds) /\ q \in Seq(Bytes)
      /\ b \in Seq(Bytes) /\ l \in Seq(Bytes) /\ s \in Seq(Bytes) /\ Lead \in Seq(Bytes)
  BY <1>3, NewRowsType, RowPiecesRows, DueType, RemainingType, BaseType, LeadHasNoRows
<1>5. Due(k)' = d
  <2> DEFINE u == RowsFrom(k, 0, g)
             v == RowsFrom(k, g, g + n)
  <2>1. new = v
    BY <1>0, <1>3, NewRowsFrom
  <2>2. u \in Seq(RowIds) /\ v \in Seq(RowIds) /\ u \o v = RowsFrom(k, 0, g + n)
    <3> HIDE DEF g
    <3>1. u \in Seq(RowIds) /\ v \in Seq(RowIds)
      BY <1>0, <1>3, RowsFromType
    <3>2. u \o v = RowsFrom(k, 0, g + n)
      BY <1>0, <1>3, RowsFromJoin
    <3>q. QED BY <3>1, <3>2
  <2>3. Due(k) = Base(k) \o u
    BY DEF Due
  <2>4. Base(k)' = Base(k)
    BY <1>0, <1>2, ReadableNext
  <2>5. Due(k)' = Base(k) \o RowsFrom(k, 0, g + n)
    BY <1>2, <2>4 DEF Due
  <2> HIDE DEF u, v, new
  <2>6. Regrouped(Base(k), u, v)
    BY <1>0, <2>2, Assoc
  <2>q. QED BY <2>1, <2>2, <2>3, <2>5, <2>6 DEF Regrouped
<1>6. q \o p = RowPieces(d, FALSE)
  <2> HIDE DEF new
  <2>1. format = "json" => w.begun = (Due(k) # << >>)
    BY DEF Noticed
  <2>q. QED BY <1>0, <1>4, <2>1, RowPiecesJoin
<1>7. (s \o b) \o l = Lead \o q
  BY DEF Complete
<1>8. s \o ((b \o l) \o p) = Lead \o (q \o p) /\ s \o ((b \o l) \o p) \in Seq(Bytes)
  <2> HIDE DEF s, b, l, p, q
  <2>1. AllRegrouped(s, b, l, p)
    BY <1>4, Regroup
  <2>2. Regrouped(Lead, q, p)
    BY <1>4, Assoc
  <2>3. b \o l \in Seq(Bytes)
    BY <1>4, ConcatProperties
  <2>4. (b \o l) \o p \in Seq(Bytes)
    BY <1>4, <2>3, ConcatProperties
  <2>5. s \o ((b \o l) \o p) \in Seq(Bytes)
    BY <1>4, <2>4, ConcatProperties
  <2>q. QED BY <1>7, <2>1, <2>2, <2>5 DEF AllRegrouped, Regrouped
<1>9. Start' = s
  BY <1>0 DEF Start
<1>10. format = "json" \/ save'[k].begun
  BY <1>2
<1>11. format = "json" => save'[k].begun = (d # << >>)
  <2> SUFFICES ASSUME format = "json" PROVE save'[k].begun = (d # << >>)
    OBVIOUS
  <2>1. (d = << >>) = (Due(k) = << >> /\ new = << >>)
    <3> HIDE DEF new
    <3>q. QED BY <1>4, BothEmpty
  <2>2. (new = << >>) = (n = 0)
    <3>1. Len(new) = n
      BY <1>3 DEF NewRows
    <3>2. Len(new) = 0 => new = << >>
      BY <1>4, EmptySeq
    <3>q. QED BY <3>1, <3>2
  <2>3. w.begun = (Due(k) # << >>) /\ save'[k].begun = (w.begun \/ n > 0)
    BY <1>2 DEF Noticed
  <2>4. (n > 0) = ~(n = 0)
    BY <1>3
  <2> HIDE DEF new
  <2>q. QED BY <2>1, <2>2, <2>3, <2>4
<1> HIDE DEF s, b, l, p, q, d
<1>12. (Start' \o save'[k].buffer) \o << >> = Lead \o RowPieces(d, FALSE)
  <2> DEFINE t == s \o ((b \o l) \o p)
  <2>1. Start' \o save'[k].buffer = t
    BY <1>2, <1>9
  <2>2. t \in Seq(Bytes) /\ t = Lead \o RowPieces(d, FALSE)
    BY <1>6, <1>8
  <2> HIDE DEF t
  <2>3. t \o << >> = t
    BY <2>2, ConcatEmptySeq
  <2>q. QED BY <2>1, <2>2, <2>3
<1>q. QED BY <1>0, <1>5, <1>10, <1>11, <1>12, CompleteNext

LEMMA WholeFlush ==
  ASSUME WriterType, Alone, NEW k \in Saves, Flush(k), Complete(k), Noticed(k)
  PROVE  Complete(k)' /\ Noticed(k)'
<1> DEFINE w == save[k]
           d == Due(k)
           l == LeadDue(k)
<1>0. w \in WriterState /\ save \in [Saves -> WriterState] /\ UNCHANGED <<format, mode>>
      /\ Start \in Seq(Bytes)
  BY BaseType DEF WriterType, Flush
<1>1. PICK m \in 1 .. Len(w.buffer) :
        /\ file' = WrittenAt(file, Where(k), SubSeq(w.buffer, 1, m))
        /\ save' = [save EXCEPT ![k].buffer = SubSeq(w.buffer, m + 1, Len(w.buffer)),
                                ![k].pos = Where(k) + m]
  BY DEF Flush
<1> DEFINE part == SubSeq(w.buffer, 1, m)
           rest == SubSeq(w.buffer, m + 1, Len(w.buffer))
<1>2. /\ w.pc = "writing" /\ format # "excel"
      /\ save'[k].given = w.given /\ save'[k].before = w.before
      /\ save'[k].buffer = rest /\ save'[k].begun = w.begun
  BY <1>0, <1>1 DEF Flush, WriterState
<1>3. part \in Seq(Bytes) /\ rest \in Seq(Bytes) /\ part \o rest = w.buffer
  <2>1. w.buffer \in Seq(Bytes) /\ m \in 0 .. Len(w.buffer)
    BY <1>0, LenProperties DEF WriterState
  <2>q. QED BY <2>1, CutOff
<1>4. Start' = Start \o part
  <2>1. file' = WrittenAt(file, Where(k), part)
    BY <1>1
  <2> HIDE DEF part
  <2>2. file' = Start \o part
    BY <1>2, <1>3, <2>1, AddedToStart
  <2>q. QED BY <1>0, <1>2, <2>2 DEF Start
<1>5. Regrouped(Start, part, rest)
  <2> HIDE DEF part, rest
  <2>q. QED BY <1>0, <1>3, Assoc
<1>6. Start' \o save'[k].buffer = Start \o w.buffer
  BY <1>2, <1>3, <1>4, <1>5 DEF Regrouped
<1>7. Due(k)' = d
  <2>1. Base(k)' = Base(k)
    BY <1>0, <1>2, ReadableNext
  <2>q. QED BY <1>2, <2>1 DEF Due
<1>8. l = IF format = "json" \/ save'[k].begun THEN << >> ELSE Lead
  BY <1>2 DEF LeadDue
<1>9. (Start' \o save'[k].buffer) \o l = Lead \o RowPieces(d, FALSE)
  BY <1>6 DEF Complete
<1>10. format = "json" => save'[k].begun = (d # << >>)
  BY <1>2 DEF Noticed
<1> HIDE DEF d, l
<1>q. QED BY <1>0, <1>7, <1>8, <1>9, <1>10, CompleteNext

LEMMA Pair ==
  ASSUME NEW x, NEW y
  PROVE  <<x>> \o <<y>> = <<x, y>>
<1> DEFINE S == {x, y}
           a == <<x>>
           b == <<y>>
           c == <<x, y>>
           d == a \o b
<1>1. /\ a \in Seq(S) /\ Len(a) = 1 /\ a[1] = x
      /\ b \in Seq(S) /\ Len(b) = 1 /\ b[1] = y
      /\ c \in Seq(S) /\ Len(c) = 2 /\ c[1] = x /\ c[2] = y
  OBVIOUS
<1> HIDE DEF a, b, c
<1>2. /\ d \in Seq(S) /\ Len(d) = Len(a) + Len(b)
      /\ \A i \in 1 .. Len(a) + Len(b) : d[i] = IF i <= Len(a) THEN a[i] ELSE b[i - Len(a)]
  BY <1>1, ConcatProperties
<1> HIDE DEF d
<1>3. Len(d) = 2 /\ d[1] = x /\ d[2] = y
  <2>1. Len(d) = 2 /\ \A i \in 1 .. 2 : d[i] = IF i <= 1 THEN a[i] ELSE b[i - 1]
    BY <1>1, <1>2
  <2>q. QED BY <1>1, <2>1
<1>4. \A i \in 1 .. Len(d) : d[i] = c[i]
  BY <1>1, <1>3
<1>5. d = c
  BY <1>1, <1>2, <1>3, <1>4, SeqEqual
<1>q. QED BY <1>5 DEF a, b, c, d

(* An array that can be read has rows unless it is two brackets, and its   *)
(* closing bracket is what set_len takes away.                             *)
LEMMA ReadableArray ==
  ASSUME NEW f \in Seq(Bytes), f # << >>, Readable(f), format = "json"
  PROVE  /\ CutBracket(f) = Lead \o RowPieces(Rows(f), FALSE)
         /\ (f # <<OpenBracket, CloseBracket>>) = (Rows(f) # << >>)
         /\ ~IsCut(f)
<1> DEFINE a == Lead \o RowPieces(Rows(f), FALSE)
           c == <<CloseBracket>>
<1>1. f = a \o c
  BY DEF Readable, Rendered, Closing
<1>2. a \in Seq(Bytes) /\ c \in Seq(Bytes)
  <2>1. RowPieces(Rows(f), FALSE) \in Seq(Bytes) /\ Lead \in Seq(Bytes)
    BY RowsType, RowPiecesRows, LeadHasNoRows
  <2>q. QED BY <2>1, ConcatProperties, FrameHasNoRows DEF Frame
<1>3. CutBracket(f) = a /\ ~IsCut(f)
  <2> HIDE DEF a
  <2>1. Last(f) = CloseBracket /\ Front(f) = a
    <3>1. Len(a) \in Nat /\ Len(c) = 1 /\ c[1] = CloseBracket
      BY <1>2, LenProperties
    <3> HIDE DEF c
    <3>2. Len(a \o c) = Len(a) + 1 /\ (a \o c)[Len(a) + 1] = c[1]
      <4>1. /\ Len(a \o c) = Len(a) + Len(c) /\ \A i \in 1 .. Len(a) + Len(c) :
                  (a \o c)[i] = IF i <= Len(a) THEN a[i] ELSE c[i - Len(a)]
        BY <1>2, ConcatProperties
      <4>2. Len(a) + 1 \in 1 .. Len(a) + Len(c) /\ ~(Len(a) + 1 <= Len(a)) /\ Len(a) + 1 - Len(a) = 1
        BY <3>1
      <4>q. QED BY <3>1, <4>1, <4>2
    <3>3. SubSeq(a \o c, 1, Len(a)) = a
      BY <1>2, FirstOfConcat
    <3>4. Len(f) = Len(a) + 1 /\ f[Len(f)] = CloseBracket /\ SubSeq(f, 1, Len(a)) = a
      BY <1>1, <3>1, <3>2, <3>3
    <3>5. Len(f) - 1 = Len(a)
      BY <3>1, <3>4
    <3>q. QED BY <3>4, <3>5 DEF Last, Front
  <2>q. QED BY <2>1 DEF CutBracket, IsCut, CloseBracket
<1>4. Rows(f) = << >> => f = <<OpenBracket, CloseBracket>>
  <2> SUFFICES ASSUME Rows(f) = << >> PROVE f = <<OpenBracket, CloseBracket>>
    OBVIOUS
  <2>1. RowPieces(<< >>, FALSE) = << >>
    BY DEF RowPieces, Bracketed
  <2>2. a = <<OpenBracket>>
    <3>1. Lead = <<OpenBracket>> /\ <<OpenBracket>> \o << >> = <<OpenBracket>>
      BY DEF Lead
    <3>q. QED BY <2>1, <3>1
  <2>3. <<OpenBracket>> \o <<CloseBracket>> = <<OpenBracket, CloseBracket>>
    BY Pair
  <2>q. QED BY <1>1, <2>2, <2>3
<1>5. f = <<OpenBracket, CloseBracket>> => Rows(f) = << >>
  <2> DEFINE o == <<OpenBracket>>
  <2>1. o \o c = <<OpenBracket, CloseBracket>>
    BY Pair
  <2>2. o \in Seq(Bytes) /\ Rows(o) = << >> /\ Rows(c) = << >>
    BY FrameHasNoRows DEF Frame
  <2> HIDE DEF o, c
  <2>3. Rows(o \o c) = << >> \o << >>
    BY <1>2, <2>2, RowsConcat
  <2>4. << >> \o << >> = << >>
    BY EmptySeq, ConcatEmptySeq
  <2>q. QED BY <2>1, <2>3, <2>4
<1>q. QED BY <1>3, <1>4, <1>5 DEF a

LEMMA NoRowPieces == RowPieces(<< >>, FALSE) = << >>
  BY DEF RowPieces, Plain, Bracketed

LEMMA WholeOpen ==
  ASSUME WriterType, Alone, Accounted, NEW k \in Saves, Open(k),
         Knows(k), save[k].begun = FoundRows(k)
  PROVE  Complete(k)' /\ Noticed(k)'
<1> DEFINE w == save[k]
           d == Base(k)
           l == IF format = "json" \/ w.begun THEN << >> ELSE Lead
           s == Start'
           b == save'[k].buffer
<1>0. /\ w \in WriterState /\ save \in [Saves -> WriterState] /\ UNCHANGED <<format, mode>>
      /\ d \in Seq(RowIds) /\ file \in Seq(Bytes)
      /\ format \in {"csv", "excel", "json", "orc", "parquet"} /\ mode[k] \in {"overwrite", "append"}
  BY BaseType, WriterAssumption DEF WriterType, Open, WriterAssumption
<1>1. /\ w.pc = "opening" /\ save'[k].begun = w.begun
      /\ save'[k].given = w.given /\ save'[k].before = w.before /\ file' = Opened(k)
      /\ b = IF format = "json" /\ mode[k] = "overwrite" THEN <<OpenBracket>> ELSE << >>
  BY <1>0 DEF Open, WriterState
<1>2. /\ file = w.before
      /\ mode[k] = "append" /\ format \notin {"csv", "json"} => w.before = << >>
  <2>1. Working(k)
    BY <1>1 DEF Working
  <2>q. QED BY <1>1, <2>1 DEF Alone
<1>3. Due(k)' = d
  <2>1. w.given = 0 /\ RowsFrom(k, 0, 0) = << >>
    BY <1>1, RowsFromNone DEF Accounted
  <2>2. Base(k)' = Base(k)
    BY <1>0, <1>1, ReadableNext
  <2>q. QED BY <1>0, <1>1, <2>1, <2>2, ConcatEmptySeq DEF Due
<1>4. Lead \in Seq(Bytes) /\ Lead \o << >> = Lead /\ << >> \o Lead = Lead
      /\ << >> \in Seq(Bytes) /\ << >> \o << >> = << >>
  BY LeadHasNoRows, EmptySeq, ConcatEmptySeq
<1>5. (s \o b) \o l = Lead \o RowPieces(d, FALSE) /\ (format = "json" => w.begun = (d # << >>))
  <2>1. ASSUME d = << >>, ~w.begun, s \o b = IF format = "json" THEN Lead ELSE << >>
        PROVE  (s \o b) \o l = Lead \o RowPieces(d, FALSE) /\ (format = "json" => w.begun = (d # << >>))
    <3>1. RowPieces(d, FALSE) = << >>
      BY <2>1, NoRowPieces
    <3>2. (s \o b) \o l = Lead
      <4>1. CASE format = "json"
        <5>1. s \o b = Lead /\ l = << >>
          BY <2>1, <4>1
        <5> HIDE DEF s, b, l
        <5>q. QED BY <1>4, <5>1
      <4>2. CASE format # "json"
        <5>1. s \o b = << >> /\ l = Lead
          BY <2>1, <4>2
        <5> HIDE DEF s, b, l
        <5>q. QED BY <1>4, <5>1
      <4>q. QED BY <4>1, <4>2
    <3>3. w.begun = FALSE
      BY <1>0, <2>1 DEF WriterState
    <3>4. w.begun = (d # << >>)
      BY <2>1, <3>3
    <3> HIDE DEF s, b, l
    <3>q. QED BY <1>4, <3>1, <3>2, <3>4
  <2>2. format = "json" => Lead = <<OpenBracket>>
    BY DEF Lead
  <2>3. CASE mode[k] = "overwrite"
    <3>1. s = << >> /\ b = IF format = "json" THEN Lead ELSE << >>
      BY <1>0, <1>1, <2>2, <2>3 DEF Opened, Start
    <3>2. d = << >> /\ ~w.begun
      BY <2>3 DEF Base, FoundRows
    <3>q. QED BY <1>4, <2>1, <3>1, <3>2
  <2>4. CASE mode[k] = "append" /\ w.before = << >>
    <3>1. b = << >> /\ s = IF format = "json" THEN Lead ELSE << >>
      BY <1>0, <1>1, <1>2, <2>2, <2>4 DEF Opened, Start
    <3>2. d = << >> /\ ~w.begun
      BY <2>4, RowsEmpty DEF Base, FoundRows
    <3>q. QED BY <1>4, <2>1, <3>1, <3>2
  <2>5. CASE mode[k] = "append" /\ w.before # << >>
    <3> DEFINE a == Lead \o RowPieces(d, FALSE)
    <3>1. /\ format \in {"csv", "json"} /\ d = Rows(file) /\ b = << >> /\ Readable(file)
          /\ w.begun = (format = "json" => file # <<OpenBracket, CloseBracket>>)
      BY <1>0, <1>1, <1>2, <2>5 DEF Base, FoundRows, Knows
    <3>2. a \in Seq(Bytes) /\ a \o << >> = a
      <4>1. RowPieces(d, FALSE) \in Seq(Bytes)
        BY <1>0, RowPiecesRows
      <4>2. a \in Seq(Bytes)
        BY <1>4, <4>1, ConcatProperties
      <4> HIDE DEF a
      <4>q. QED BY <4>2, ConcatEmptySeq
    <3>3. s = a /\ (format = "json" => w.begun = (d # << >>))
      <4>1. CASE format = "csv"
        <5>1. s = file
          BY <1>0, <1>1, <2>5, <4>1 DEF Opened, Start
        <5>2. file = a \o << >>
          BY <1>2, <2>5, <3>1, <4>1 DEF Readable, Rendered, Closing
        <5> HIDE DEF a
        <5>q. QED BY <3>2, <4>1, <5>1, <5>2
      <4>2. CASE format = "json"
        <5>1. s = CutBracket(file)
          BY <1>0, <1>1, <1>2, <2>5, <4>2 DEF Opened, Start
        <5>2. CutBracket(file) = a /\ (file # <<OpenBracket, CloseBracket>>) = (d # << >>)
          BY <1>0, <1>2, <2>5, <3>1, <4>2, ReadableArray
        <5>q. QED BY <3>1, <4>2, <5>1, <5>2
      <4>q. QED BY <3>1, <4>1, <4>2
    <3>4. l = << >>
      BY <3>1
    <3> HIDE DEF a, s, l
    <3>q. QED BY <3>1, <3>2, <3>3, <3>4 DEF a
  <2>q. QED BY <1>0, <2>3, <2>4, <2>5
<1> HIDE DEF d
<1>q. QED BY <1>0, <1>1, <1>3, <1>5, CompleteNext

LEMMA StepWhole ==
  ASSUME AloneInv, ~Overlap, Whole, NEW k \in Saves, Step(k)
  PROVE  Whole'
<1> DEFINE w == save[k]
<1>0. /\ \A j \in Saves : j # k => ~Working(j) /\ save'[j] = save[j]
      /\ w \in WriterState /\ save \in [Saves -> WriterState]
      /\ UNCHANGED <<format, mode>>
      /\ WriterType /\ Alone /\ Accounted
  BY OnlyOne, StepEffect DEF AloneInv, WriterType
<1>1. SUFFICES
        /\ save'[k].pc = "opening" /\ Knows(k)' => save'[k].begun = FoundRows(k)'
        /\ save'[k].pc = "writing" /\ Knows(k)' => Complete(k)' /\ Noticed(k)'
  <2>1. \A j \in Saves : j # k => save'[j].pc \notin {"opening", "writing"}
    BY <1>0 DEF Working
  <2>q. QED BY <2>1 DEF Whole
<1>2. CASE Check(k)
  <2>1. w.pc = "new"
    BY <1>2 DEF Check
  <2>2. CASE save' = [save EXCEPT ![k].pc = "err"]
    <3>1. save'[k].pc = "err"
      BY <1>0, <2>2 DEF WriterState
    <3>q. QED BY <3>1
  <2>3. CASE \E b \in BOOLEAN : b \in LooksBegun(k) /\ BeginsWith(k, b)
    <3>0. PICK b \in BOOLEAN : b \in LooksBegun(k) /\ BeginsWith(k, b)
      BY <2>3
    <3>1. save'[k].pc = "opening" /\ save'[k].begun = b /\ save'[k].before = file
      BY <1>0, <3>0 DEF WriterState, BeginsWith
    <3>2. Knows(k)' => mode[k] = "overwrite" \/ Readable(file)
      BY <1>0, <3>1 DEF Knows, Readable, Rendered, Lead, RowPieces, Closing
    <3>3. Knows(k)' => b = Begun(k)
      <4> SUFFICES ASSUME Knows(k)', mode[k] = "append", format = "json", IsCut(file)
                   PROVE  FALSE
        BY <3>0 DEF LooksBegun
      <4>1. file # << >> /\ Readable(file) /\ file \in Seq(Bytes)
        BY <1>0, <3>2 DEF IsCut, WriterType
      <4>q. QED BY <4>1, ReadableArray
    <3>q. QED BY <1>0, <3>1, <3>3 DEF Begun, FoundRows
  <2>q. QED BY <1>2, <2>2, <2>3, CheckEffect
<1>3. CASE Open(k) \/ WriteBatch(k) \/ Flush(k)
  <2>1. save'[k].pc = "writing" /\ save'[k].before = w.before /\ w.pc \in {"opening", "writing"}
        /\ (Open(k) <=> w.pc = "opening")
    <3>1. CASE Open(k)
      BY <1>0, <3>1 DEF Open, WriterState
    <3>2. CASE WriteBatch(k)
      BY <1>0, <3>2 DEF WriteBatch, WriterState, Open
    <3>3. CASE Flush(k)
      BY <1>0, <3>3 DEF Flush, WriterState, Open
    <3>q. QED BY <1>3, <3>1, <3>2, <3>3
  <2>2. Knows(k)' = Knows(k)
    BY <1>0, <2>1, ReadableNext
  <2>3. ASSUME Knows(k) PROVE Complete(k)' /\ Noticed(k)'
    <3>1. CASE Open(k)
      BY <1>0, <2>1, <2>3, <3>1, WholeOpen DEF Whole
    <3>2. CASE ~Open(k)
      <4>1. Complete(k) /\ Noticed(k) /\ (WriteBatch(k) \/ Flush(k))
        BY <1>3, <2>1, <2>3, <3>2 DEF Whole
      <4>q. QED BY <1>0, <4>1, WholeBatch, WholeFlush
    <3>q. QED BY <3>1, <3>2
  <2>q. QED BY <2>1, <2>2, <2>3
<1>4. CASE OpenFails(k) \/ Finish(k) \/ Abandon(k)
  <2>1. \E answer \in {"ok", "err"} : save' = [save EXCEPT ![k] = Ended(answer, w)]
    BY <1>4 DEF OpenFails, Finish, Abandon
  <2>2. save'[k].pc \in {"ok", "err"}
    BY <1>0, <2>1 DEF Ended, NoWriter
  <2>q. QED BY <2>2
<1>q. QED BY <1>2, <1>3, <1>4 DEF Step

(* The last write completes the file.                                      *)
LEMMA FinishRenders ==
  ASSUME AloneInv, Whole, NEW k \in Saves, Finish(k), Knows(k)
  PROVE  file' = Rendered(Due(k))
<1> DEFINE r == Remaining(k)
           b == save[k].buffer
           l == LeadDue(k)
           p == RowPieces(Due(k), FALSE)
<1>1. save[k].pc = "writing" /\ file' = FileAfter(k, Len(r)) /\ WriterType /\ Alone
  BY DEF Finish, AloneInv
<1>2. /\ Start \in Seq(Bytes) /\ r \in Seq(Bytes) /\ Len(r) \in Nat
      /\ b \in Seq(Bytes) /\ l \in Seq(Bytes) /\ Closing \in Seq(Bytes)
  BY <1>1, BaseType, RemainingType, LenProperties, LeadHasNoRows
<1>3. file' = Start \o r
  <2>1. Len(r) \in 0 .. Len(r) /\ SubSeq(r, 1, Len(r)) = r
    BY <1>2, SubSeqFull
  <2>q. QED BY <1>1, <2>1, AddedToStart
<1>4. r = (b \o l) \o Closing
  BY DEF Remaining
<1>5. AllRegrouped(Start, b, l, Closing)
  <2> HIDE DEF b, l
  <2>q. QED BY <1>2, Regroup
<1>6. (Start \o b) \o l = Lead \o p
  BY <1>1 DEF Whole, Complete
<1>7. file' = (Lead \o p) \o Closing
  BY <1>3, <1>4, <1>5, <1>6 DEF AllRegrouped
<1>q. QED BY <1>7 DEF Rendered

(* A save that returned Ok (StreamingSaveWriter::finish) left a file that  *)
(* can be read and has its own rows in order, after those it found if it   *)
(* appends: for every format, whatever the sizes of batches and buffers    *)
(* and whatever failed before it, unless it appended to a file that nobody *)
(* can read.                                                               *)
THEOREM OkMeansReadable ==
  ASSUME ~Overlap
  PROVE  Spec => OkIsReadable
<1>1. Init => AloneInv /\ Whole
  BY InitWriterType, InitAlone, InitAccounted, InitWhole DEF AloneInv
<1>2. AloneInv /\ Whole /\ [Next]_vars => (AloneInv /\ Whole)'
  <2> SUFFICES ASSUME AloneInv, Whole, [Next]_vars PROVE AloneInv' /\ Whole'
    OBVIOUS
  <2>1. CASE \E k \in Saves : Step(k)
    BY <2>1, NextAloneInv, StepWhole
  <2>2. CASE UNCHANGED vars
    <3>1. \A k \in Saves : Complete(k)' = Complete(k) /\ Noticed(k)' = Noticed(k)
                          /\ Knows(k)' = Knows(k) /\ FoundRows(k)' = FoundRows(k)
      BY <2>2 DEF vars, Complete, Noticed, Knows, FoundRows, Readable, Rendered, Start, LeadDue,
                  Lead, Closing, RowPieces, Due, Base
    <3>q. QED BY <2>2, <3>1, NextAloneInv DEF vars, Whole
  <2>q. QED BY <2>1, <2>2 DEF Next, Finished
<1>3. AloneInv /\ Whole /\ [Next]_vars =>
        [\A k \in Saves :
           /\ save'[k].pc = "ok" /\ save[k].pc # "ok"
           /\ mode[k] = "overwrite" \/ Readable(save[k].before)
           => LET old == IF mode[k] = "append" THEN Rows(save[k].before) ELSE << >>
              IN  file' = Rendered(old \o [i \in 1 .. save[k].given |-> Row(k, i)])]_vars
  <2> SUFFICES ASSUME AloneInv, Whole, [Next]_vars, ~ UNCHANGED vars, NEW k \in Saves,
                      save'[k].pc = "ok", save[k].pc # "ok",
                      mode[k] = "overwrite" \/ Readable(save[k].before)
               PROVE  file' = Rendered(Base(k) \o [i \in 1 .. save[k].given |-> Row(k, i)])
    BY DEF Base
  <2>1. PICK j \in Saves : Step(j)
    BY DEF Next, Finished
  <2>2. save \in [Saves -> WriterState] /\ save' = [save EXCEPT ![j] = save'[j]]
        /\ save[k].given \in Nat
    BY <2>1, StepEffect, BaseType DEF AloneInv, WriterType
  <2>3. j = k
    BY <2>2
  <2>4. Finish(k)
    <3> DEFINE w == save[k]
    <3>0. save \in [Saves -> WriterState] /\ w \in WriterState
      BY <2>2
    <3>1. ~ Check(k)
      <4> SUFFICES ASSUME Check(k) PROVE FALSE
        OBVIOUS
      <4>1. CASE save' = [save EXCEPT ![k].pc = "err"]
        BY <3>0, <4>1 DEF WriterState
      <4>2. ASSUME NEW b \in BOOLEAN, BeginsWith(k, b) PROVE FALSE
        BY <3>0, <4>2 DEF WriterState, BeginsWith
      <4>q. QED BY <4>1, <4>2, CheckEffect
    <3>2. ~ Open(k)
      BY <3>0 DEF Open, WriterState
    <3>3. ~ OpenFails(k) /\ ~ Abandon(k)
      BY <3>0 DEF OpenFails, Abandon, Ended, NoWriter
    <3>4. ~ WriteBatch(k)
      <4>1. WriteBatch(k) => save'[k].pc = w.pc
        BY <3>0 DEF WriteBatch, WriterState
      <4>q. QED BY <4>1
    <3>5. ~ Flush(k)
      <4>1. Flush(k) => save'[k].pc = w.pc
        BY <3>0 DEF Flush, WriterState
      <4>q. QED BY <4>1
    <3>q. QED BY <2>1, <2>3, <3>1, <3>2, <3>3, <3>4, <3>5 DEF Step
  <2>5. RowsFrom(k, 0, save[k].given) = [i \in 1 .. save[k].given |-> Row(k, i)]
    <3>1. save[k].given - 0 = save[k].given /\ \A i \in 1 .. save[k].given : 0 + i = i
      BY <2>2
    <3>q. QED BY <3>1 DEF RowsFrom
  <2>6. file' = Rendered(Due(k))
    BY <2>4, FinishRenders DEF Knows
  <2>q. QED BY <2>5, <2>6 DEF Due
<1>q. QED BY <1>1, <1>2, <1>3, PTL DEF Spec, OkIsReadable

-----------------------------------------------------------------------------
(* No holes.                                                               *)

LEMMA RowsAreWritten ==
  ASSUME NEW rows \in Seq(RowIds), NEW begun
  PROVE  RowPieces(rows, begun) \in Seq(Piece)
<1> DEFINE n == Len(rows)
<1>1. n \in Nat /\ \A i \in 1 .. n : rows[i] \in RowIds
  BY LenProperties
<1>2. \A r \in RowIds, h \in {1, 2} : Part(r, h) \in Piece
  BY DEF Part, Piece, RowIds
<1>3. Plain(rows) \in Seq(Piece)
  <2>1. ASSUME NEW i \in 1 .. 2 * n
        PROVE  Part(rows[(i + 1) \div 2], ((i + 1) % 2) + 1) \in Piece
    <3>1. (i + 1) \div 2 \in 1 .. n /\ ((i + 1) % 2) + 1 \in {1, 2}
      BY <1>1
    <3>q. QED BY <1>1, <1>2, <3>1
  <2>2. 2 * n \in Nat
    BY <1>1
  <2>q. QED BY <2>1, <2>2 DEF Plain
<1>4. Bracketed(rows) \in Seq(Piece)
  <2>1. ASSUME NEW i \in 1 .. 3 * n, i % 3 # 1
        PROVE  Part(rows[(i + 2) \div 3], ((i + 1) % 3) + 1) \in Piece
    <3>1. (i + 2) \div 3 \in 1 .. n /\ ((i + 1) % 3) + 1 \in {1, 2}
      BY <1>1, <2>1
    <3>q. QED BY <1>1, <1>2, <3>1
  <2>2. Comma \in Piece
    BY DEF Piece
  <2>3. 3 * n \in Nat
    BY <1>1
  <2>q. QED BY <2>1, <2>2, <2>3 DEF Bracketed
<1>5. rows # << >> => Tail(Bracketed(rows)) \in Seq(Piece)
  <2>1. rows # << >> => Bracketed(rows) # << >>
    <3>1. Len(Bracketed(rows)) = 3 * n /\ (rows # << >> => n # 0)
      BY <1>1, BracketedPieces, EmptySeq
    <3>q. QED BY <1>1, <3>1, EmptySeq
  <2>q. QED BY <1>4, <2>1, HeadTailProperties
<1>q. QED BY <1>3, <1>4, <1>5 DEF RowPieces

LEMMA FrameIsWritten ==
  /\ Lead \in Seq(Piece) /\ Closing \in Seq(Piece)
  /\ << >> \in Seq(Piece) /\ <<OpenBracket>> \in Seq(Piece)
<1>1. \A x \in Frame : <<x>> \in Seq(Piece)
  <2> SUFFICES ASSUME NEW x \in Frame PROVE <<x>> \in Seq(Piece)
    OBVIOUS
  <2>1. x \in Piece
    BY DEF Frame, Piece
  <2>q. QED BY <2>1
<1>2. << >> \in Seq(Piece)
  BY EmptySeq
<1>3. \E x \in Frame : Lead = <<x>>
  BY DEF Lead, Frame
<1>4. Closing = << >> \/ \E x \in Frame : Closing = <<x>>
  BY DEF Closing, Frame
<1>5. OpenBracket \in Frame
  BY DEF Frame
<1>q. QED BY <1>1, <1>2, <1>3, <1>4, <1>5

(* Nobody writes beyond the end of the file, and so nothing but pieces is  *)
(* in it.                                                                  *)
NoHoles ==
    /\ file \in Seq(Piece)
    /\ \A k \in Saves : save[k].buffer \in Seq(Piece) /\ save[k].before \in Seq(Piece)

LEMMA InitNoHoles == Init => NoHoles
<1> SUFFICES ASSUME Init PROVE NoHoles
  OBVIOUS
<1>1. ASSUME NEW k \in Saves
      PROVE  save[k].buffer = << >> /\ save[k].before = << >>
  BY DEF Init, NoWriter
<1>2. file = << >>
  BY DEF Init
<1>q. QED BY <1>1, <1>2, FrameIsWritten DEF NoHoles

LEMMA WrittenInFile ==
  ASSUME WriterInv, NoHoles, ~Overlap \/ CsvAppends, NEW k \in Saves,
         save[k].pc = "writing", format # "excel", NEW bytes \in Seq(Piece)
  PROVE  WrittenAt(file, Where(k), bytes) \in Seq(Piece)
<1>1. bytes \in Seq(Bytes)
  <2>1. Piece \subseteq Bytes
    BY DEF Bytes
  <2>q. QED BY <2>1, SeqSubset
<1>2. (format = "csv" /\ mode[k] = "append") \/ save[k].pos = Len(file)
  <2>1. CASE CsvAppends
    BY <2>1 DEF CsvAppends, WriterInv, WriterType
  <2>2. CASE ~Overlap
    BY <2>2 DEF WriterInv, Alone, Working
  <2>q. QED BY <2>1, <2>2
<1>3. WrittenAt(file, Where(k), bytes) = file \o bytes
  BY <1>1, <1>2, Appended DEF WriterInv
<1>q. QED BY <1>3, ConcatProperties DEF NoHoles

LEMMA StepNoHoles ==
  ASSUME WriterInv, NoHoles, ~Overlap \/ CsvAppends, NEW k \in Saves, Step(k)
  PROVE  NoHoles'
<1> DEFINE w == save[k]
           r == Remaining(k)
<1>0. /\ w \in WriterState /\ save \in [Saves -> WriterState]
      /\ file \in Seq(Piece) /\ w.buffer \in Seq(Piece) /\ w.before \in Seq(Piece)
      /\ format \in {"csv", "excel", "json", "orc", "parquet"}
      /\ mode[k] \in {"overwrite", "append"}
  BY WriterAssumption DEF WriterInv, WriterType, NoHoles, WriterAssumption
<1>1. SUFFICES /\ file' \in Seq(Piece)
               /\ save'[k].buffer \in Seq(Piece) /\ save'[k].before \in Seq(Piece)
  <2>1. \A j \in Saves : j # k => save'[j] = save[j]
    <3>1. save' = [save EXCEPT ![k] = save'[k]]
      BY StepEffect DEF WriterInv
    <3>q. QED BY <1>0, <3>1
  <2>q. QED BY <1>1, <2>1 DEF NoHoles
<1>2. r \in Seq(Piece) /\ LeadDue(k) \in Seq(Piece)
  <2>1. LeadDue(k) \in Seq(Piece)
    BY FrameIsWritten DEF LeadDue
  <2>q. QED BY <1>0, <2>1, FrameIsWritten, ConcatProperties DEF Remaining
<1>3. CASE Check(k)
  <2>1. \/ \E b \in BOOLEAN : BeginsWith(k, b)
        \/ save' = [save EXCEPT ![k].pc = "err"]
    BY <1>3, CheckEffect
  <2>2. save'[k].buffer = w.buffer /\ save'[k].before \in {w.before, file}
    <3>1. CASE save' = [save EXCEPT ![k].pc = "err"]
      BY <1>0, <3>1 DEF WriterState
    <3>2. ASSUME NEW b \in BOOLEAN, BeginsWith(k, b)
          PROVE  save'[k].buffer = w.buffer /\ save'[k].before = file
      BY <1>0, <3>2 DEF WriterState, BeginsWith
    <3>q. QED BY <2>1, <3>1, <3>2
  <2>3. file' = file
    BY <1>3 DEF Check
  <2>q. QED BY <1>0, <2>2, <2>3
<1>4. CASE Open(k)
  <2>1. file # << >> => CutBracket(file) \in Seq(Piece)
    <3> SUFFICES ASSUME file # << >> PROVE Front(file) \in Seq(Piece)
      BY <1>0 DEF CutBracket
    <3>1. Len(file) \in Nat /\ Len(file) # 0
      BY <1>0, EmptySeq, LenProperties
    <3>2. Len(file) - 1 \in 0 .. Len(file)
      BY <3>1
    <3>q. QED BY <1>0, <3>2, CutOff DEF Front
  <2>2. Opened(k) \in Seq(Piece)
    BY <1>0, <2>1, FrameIsWritten DEF Opened
  <2>3. /\ file' = Opened(k) /\ save'[k].before = w.before
        /\ save'[k].buffer = IF format = "json" /\ mode[k] = "overwrite" THEN <<OpenBracket>> ELSE << >>
    BY <1>0, <1>4 DEF Open, WriterState
  <2>q. QED BY <1>0, <2>2, <2>3, FrameIsWritten
<1>5. CASE WriteBatch(k)
  <2>1. PICK n \in 0 .. BatchSize :
          save' = [save EXCEPT
            ![k].buffer = w.buffer \o LeadDue(k) \o RowPieces(NewRows(k, n), w.begun),
            ![k].begun = w.begun \/ n > 0 \/ format # "json",
            ![k].given = w.given + n]
    BY <1>5 DEF WriteBatch
  <2>2. RowPieces(NewRows(k, n), w.begun) \in Seq(Piece)
    <3>1. n \in Nat
      BY WriterAssumption DEF WriterAssumption
    <3>q. QED BY <3>1, NewRowsType, RowsAreWritten DEF WriterInv
  <2>3. w.buffer \o LeadDue(k) \o RowPieces(NewRows(k, n), w.begun) \in Seq(Piece)
    BY <1>0, <1>2, <2>2, ConcatProperties
  <2>4. save'[k].before = w.before /\ file' = file
        /\ save'[k].buffer = w.buffer \o LeadDue(k) \o RowPieces(NewRows(k, n), w.begun)
    BY <1>0, <1>5, <2>1 DEF WriterState, WriteBatch
  <2>q. QED BY <1>0, <2>3, <2>4
<1>6. CASE Flush(k)
  <2>1. PICK m \in 1 .. Len(w.buffer) :
          /\ file' = WrittenAt(file, Where(k), SubSeq(w.buffer, 1, m))
          /\ save' = [save EXCEPT ![k].buffer = SubSeq(w.buffer, m + 1, Len(w.buffer)),
                                  ![k].pos = Where(k) + m]
    BY <1>6 DEF Flush
  <2>2. m \in 0 .. Len(w.buffer)
    BY <1>0, LenProperties
  <2>3. SubSeq(w.buffer, 1, m) \in Seq(Piece) /\ SubSeq(w.buffer, m + 1, Len(w.buffer)) \in Seq(Piece)
    BY <1>0, <2>2, CutOff
  <2>4. file' \in Seq(Piece)
    BY <1>6, <2>1, <2>3, WrittenInFile DEF Flush
  <2>5. save'[k].before = w.before /\ save'[k].buffer = SubSeq(w.buffer, m + 1, Len(w.buffer))
    BY <1>0, <2>1 DEF WriterState
  <2>q. QED BY <1>0, <2>3, <2>4, <2>5
<1>7. CASE Finish(k) \/ Abandon(k) \/ OpenFails(k)
  <2>1. ASSUME w.pc = "writing", NEW m \in 0 .. Len(r)
        PROVE  FileAfter(k, m) \in Seq(Piece)
    <3>1. SubSeq(r, 1, m) \in Seq(Piece)
      BY <1>2, CutOff
    <3>q. QED BY <2>1, <3>1, WrittenInFile DEF FileAfter
  <2>2. Len(r) \in 0 .. Len(r)
    BY <1>2, LenProperties
  <2>3. file' \in Seq(Piece)
    BY <1>0, <1>7, <2>1, <2>2 DEF Finish, Abandon, OpenFails
  <2>4. \E answer \in {"ok", "err"} : save' = [save EXCEPT ![k] = Ended(answer, w)]
    BY <1>7 DEF Finish, Abandon, OpenFails
  <2>5. save'[k].buffer = << >> /\ save'[k].before = << >>
    BY <1>0, <2>4 DEF Ended, NoWriter
  <2>q. QED BY <2>3, <2>5, FrameIsWritten
<1>q. QED BY <1>3, <1>4, <1>5, <1>6, <1>7 DEF Step

(* Every variable keeps its type, and no save leaves zeros in the file: if *)
(* saves follow one another, or all append to one CSV (O_APPEND).          *)
THEOREM WriterTypeOK ==
  ASSUME ~Overlap \/ CsvAppends
  PROVE  Spec => []TypeOK
<1>1. WriterInv /\ NoHoles /\ [Next]_vars => NoHoles'
  <2> SUFFICES ASSUME WriterInv, NoHoles, [Next]_vars PROVE NoHoles'
    OBVIOUS
  <2>1. CASE UNCHANGED vars
    BY <2>1 DEF NoHoles, vars
  <2>q. QED BY <2>1, StepNoHoles DEF Next, Finished
<1>2. WriterInv /\ NoHoles => TypeOK
  BY DEF WriterInv, WriterType, WriterState, NoHoles, TypeOK
<1>q. QED BY <1>1, <1>2, InitNoHoles, WriterInvHolds, PTL DEF Spec
=============================================================================
