---------------------------- MODULE DudeJsonProofs ----------------------------
(***************************************************************************)
(* Proofs about the writing of the objects as JSON, for every structure,   *)
(* any number of objects and texts, fonts and numbers of any contents.     *)
(*                                                                         *)
(* A text goes through thirty-five replacements, one after the other, some *)
(* of them on what an earlier one has written.  The argument turns them    *)
(* into a single pass that writes a piece for each character of the text   *)
(* (Spread); a piece is JSON on its own, and texts that are JSON may be    *)
(* put one behind the other.                                               *)
(***************************************************************************)
EXTENDS DudeJson, FiniteSetTheorems, SequenceTheorems, WellFoundedInduction, TLAPS

-----------------------------------------------------------------------------
(* Induction over the natural numbers in the form of sets.                 *)

\* A set of natural numbers that is not empty has a least element.
LEMMA LeastElement ==
  ASSUME NEW T, T \subseteq Nat, T # {}
  PROVE  \E x \in T : \A y \in T : x <= y
<1> DEFINE Less == {pair \in Nat \X Nat : pair[1] < pair[2]}
<1>1. OpToRel(<, Nat) = Less
  BY Zenon DEF OpToRel
<1>2. IsWellFoundedOn(Less, Nat)
  BY <1>1, NatLessThanWellFounded, Zenon
<1> HIDE DEF Less
<1>3. PICK x \in T : \A y \in T : ~ (<<y, x>> \in Less)
  BY <1>2, WFMin
<1> USE DEF Less
<1>4. ASSUME NEW y \in T, y < x
      PROVE  FALSE
  <2>1. <<y, x>> \in Nat \X Nat /\ <<y, x>>[1] < <<y, x>>[2]
    BY <1>4
  <2> QED
    BY <2>1, <1>3
<1> QED
  BY <1>4

\* A set that holds 0 and, with each of its naturals, the next one, holds all.
LEMMA SetInduction ==
  ASSUME NEW T, 0 \in T, \A n \in Nat : n \in T => n + 1 \in T
  PROVE  Nat \subseteq T
<1> SUFFICES ASSUME Nat \ T # {}
             PROVE  FALSE
  OBVIOUS
<1>1. PICK n \in Nat \ T : \A m \in Nat \ T : n <= m
  BY LeastElement
<1>2. n # 0 /\ n - 1 \in Nat /\ n - 1 \in T
  BY <1>1
<1> QED
  BY <1>1, <1>2

\* What holds of the empty text and, with a text, of the same text with one
\* more character, holds of all.
LEMMA TextInduction ==
  ASSUME NEW B, NEW T, <<>> \in T,
         \A t \in Seq(B), b \in B : t \in T => Append(t, b) \in T
  PROVE  Seq(B) \subseteq T
<1> DEFINE Good == {n \in Nat : \A t \in Seq(B) : Len(t) = n => t \in T}
<1>1. 0 \in Good
  <2>1. \A t \in Seq(B) : Len(t) = 0 => t = <<>>
    BY EmptySeq
  <2> QED
    BY <2>1
<1>2. ASSUME NEW n \in Nat, n \in Good
      PROVE  n + 1 \in Good
  <2> SUFFICES ASSUME NEW t \in Seq(B), Len(t) = n + 1
               PROVE  t \in T
    OBVIOUS
  <2>1. t # <<>>
    BY EmptySeq
  <2>2. PICK s \in Seq(B), b \in B : t = Append(s, b)
    BY <2>1, SequenceEmptyOrAppend
  <2>3. Len(t) = Len(s) + 1 /\ Len(s) \in Nat
    BY <2>2, AppendProperties, LenProperties
  <2>4. Len(s) = n
    BY <2>3
  <2> QED
    BY <2>2, <2>4, <1>2
<1>3. Nat \subseteq Good
  <2> HIDE DEF Good
  <2> QED
    BY <1>1, <1>2, SetInduction
<1> QED
  BY <1>3, LenProperties

-----------------------------------------------------------------------------
(* Texts put one behind the other.                                         *)

Texts == Seq(Bytes)

LEMMA Joined ==
  ASSUME NEW s \in Bytes, NEW t \in Bytes
  PROVE  /\ s \o t \in Bytes
         /\ Len(s \o t) = Len(s) + Len(t)
         /\ Len(s) \in Nat /\ Len(t) \in Nat
         /\ \A i \in 1..Len(s) : (s \o t)[i] = s[i]
         /\ \A i \in 1..Len(t) : (s \o t)[Len(s) + i] = t[i]
<1>1. Len(s) \in Nat /\ Len(t) \in Nat
  BY LenProperties DEF Bytes
<1>2. /\ s \o t \in Seq(Byte)
      /\ Len(s \o t) = Len(s) + Len(t)
      /\ \A i \in 1..(Len(s) + Len(t)) : (s \o t)[i] = IF i <= Len(s) THEN s[i] ELSE t[i - Len(s)]
  BY ConcatProperties DEF Bytes
<1>3. ASSUME NEW i \in 1..Len(t)
      PROVE  (s \o t)[Len(s) + i] = t[i]
  <2> DEFINE k == Len(s) + i
  <2>1. k \in 1..(Len(s) + Len(t)) /\ ~(k <= Len(s)) /\ k - Len(s) = i
    BY <1>1
  <2> HIDE DEF k
  <2>2. (s \o t)[k] = t[i]
    BY <2>1, <1>2
  <2> QED
    BY <2>2 DEF k
<1>4. \A i \in 1..Len(s) : i \in 1..(Len(s) + Len(t)) /\ i <= Len(s)
  BY <1>1
<1> QED
  BY <1>1, <1>2, <1>3, <1>4 DEF Bytes

LEMMA EmptyText == <<>> \in Bytes /\ Len(<<>>) = 0
BY EmptySeq DEF Bytes

LEMMA JoinedNothing ==
  ASSUME NEW s \in Bytes
  PROVE  s \o <<>> = s /\ <<>> \o s = s
BY ConcatEmptySeq DEF Bytes

LEMMA JoinedThree ==
  ASSUME NEW s \in Bytes, NEW t \in Bytes, NEW u \in Bytes
  PROVE  (s \o t) \o u = s \o (t \o u)
BY ConcatAssociative DEF Bytes

\* A function that follows the recursion of FlattenSeq is there.
LEMMA Flattened ==
  ASSUME NEW ss \in Texts, Len(ss) # 0
  PROVE  \E f \in [1..Len(ss) -> Bytes] :
           /\ f[1] = ss[1]
           /\ \A i \in 2..Len(ss) : f[i] = f[i - 1] \o ss[i]
           /\ Seqs!FlattenSeq(ss) = f[Len(ss)]
<1> DEFINE n == Len(ss)
<1>0. n \in Nat /\ n >= 1 /\ \A i \in 1..n : ss[i] \in Bytes
  BY LenProperties, ElementOfSeq DEF Texts
<1> HIDE DEF n
<1> DEFINE Row(i, f) == IF i = 1 THEN ss[i] ELSE f[i - 1] \o ss[i]
           Upto(m, f) == f = [i \in 1..m |-> Row(i, f)]
           Good == {m \in Nat : \E f : Upto(m, f)}
<1>1. 0 \in Good
  <2> DEFINE f == [i \in 1..0 |-> <<>>]
  <2>1. Upto(0, f)
    OBVIOUS
  <2> QED
    BY <2>1
<1>2. ASSUME NEW m \in Nat, m \in Good
      PROVE  m + 1 \in Good
  <2>1. PICK f : Upto(m, f)
    BY <1>2
  <2> DEFINE g == [i \in 1..(m + 1) |-> IF i = m + 1 THEN Row(i, f) ELSE f[i]]
  <2>2. \A i \in 1..(m + 1) : g[i] = Row(i, g)
    <3> SUFFICES ASSUME NEW i \in 1..(m + 1)
                 PROVE  g[i] = Row(i, g)
      OBVIOUS
    <3>1. i # 1 => i - 1 \in 1..m /\ g[i - 1] = f[i - 1]
      OBVIOUS
    <3>2. Row(i, g) = Row(i, f)
      BY <3>1
    <3>3. ASSUME i # m + 1
          PROVE  f[i] = Row(i, f)
      <4>1. i \in 1..m
        BY <3>3
      <4> HIDE DEF Row
      <4> QED
        BY <4>1, <2>1
    <3> HIDE DEF Row
    <3> QED
      BY <3>2, <3>3
  <2>3. g = [i \in 1..(m + 1) |-> Row(i, g)]
    <3> HIDE DEF Row
    <3> QED
      BY <2>2
  <2>4. Upto(m + 1, g)
    BY <2>3
  <2> HIDE DEF g, Row, Upto
  <2>5. \E u : Upto(m + 1, u)
    BY <2>4
  <2> QED
    BY <2>5
<1>3. n \in Good
  <2> HIDE DEF Good
  <2> QED
    BY <1>0, <1>1, <1>2, SetInduction
<1>4. PICK f : Upto(n, f)
  BY <1>3
<1> DEFINE h == CHOOSE g : g = [i \in 1..n |-> IF i = 1 THEN ss[i] ELSE g[i - 1] \o ss[i]]
<1>5. h = [i \in 1..n |-> IF i = 1 THEN ss[i] ELSE h[i - 1] \o ss[i]]
  <2>1. f = [i \in 1..n |-> IF i = 1 THEN ss[i] ELSE f[i - 1] \o ss[i]]
    BY <1>4
  <2> QED
    BY <2>1
<1>6. Seqs!FlattenSeq(ss) = h[n]
  BY DEF Seqs!FlattenSeq, n
<1> HIDE DEF h
<1>7. h[1] = ss[1] /\ \A i \in 2..n : h[i] = h[i - 1] \o ss[i]
  <2>1. \A i \in 1..n : h[i] = IF i = 1 THEN ss[i] ELSE h[i - 1] \o ss[i]
    BY <1>5
  <2>2. 1 \in 1..n /\ \A i \in 2..n : i \in 1..n /\ i # 1
    BY <1>0
  <2> QED
    BY <2>1, <2>2
<1> DEFINE Typed == {m \in Nat : m \in 1..n => h[m] \in Bytes}
<1>8. 0 \in Typed
  OBVIOUS
<1>9. ASSUME NEW m \in Nat, m \in Typed
      PROVE  m + 1 \in Typed
  <2> SUFFICES ASSUME m + 1 \in 1..n
               PROVE  h[m + 1] \in Bytes
    OBVIOUS
  <2>1. CASE m = 0
    BY <2>1, <1>7, <1>0
  <2>2. CASE m # 0
    <3>1. m + 1 \in 2..n /\ m \in 1..n /\ (m + 1) - 1 = m
      BY <2>2, <1>0
    <3>2. h[m] \in Bytes /\ ss[m + 1] \in Bytes
      BY <3>1, <1>9, <1>0
    <3>3. h[m + 1] = h[m] \o ss[m + 1]
      BY <3>1, <1>7
    <3> QED
      BY <3>2, <3>3, Joined
  <2> QED
    BY <2>1, <2>2
<1>10. Nat \subseteq Typed
  <2> HIDE DEF Typed
  <2> QED
    BY <1>8, <1>9, SetInduction
<1>11. h \in [1..n -> Bytes]
  <2>1. DOMAIN h = 1..n /\ h = [i \in 1..n |-> h[i]]
    BY <1>5
  <2>2. \A i \in 1..n : h[i] \in Bytes
    BY <1>10, <1>0
  <2> QED
    BY <2>1, <2>2
<1> QED
  BY <1>6, <1>7, <1>11 DEF n

LEMMA FlattenedNone == Seqs!FlattenSeq(<<>>) = <<>>
BY EmptyText DEF Seqs!FlattenSeq

LEMMA FlattenedIsText ==
  ASSUME NEW ss \in Texts
  PROVE  Seqs!FlattenSeq(ss) \in Bytes
<1>0. Len(ss) \in Nat
  BY LenProperties DEF Texts
<1>1. CASE Len(ss) = 0
  <2>1. ss = <<>>
    BY <1>1, EmptySeq DEF Texts
  <2> QED
    BY <2>1, FlattenedNone, EmptyText
<1>2. CASE Len(ss) # 0
  <2>1. PICK f \in [1..Len(ss) -> Bytes] : Seqs!FlattenSeq(ss) = f[Len(ss)]
    BY <1>2, Flattened
  <2> QED
    BY <2>1, <1>0, <1>2
<1> QED
  BY <1>1, <1>2

\* One more text at the end.
LEMMA FlattenedOneMore ==
  ASSUME NEW ss \in Texts, NEW t \in Bytes
  PROVE  Seqs!FlattenSeq(Append(ss, t)) = Seqs!FlattenSeq(ss) \o t
<1> DEFINE n  == Len(ss)
           tt == Append(ss, t)
<1>0. /\ n \in Nat
      /\ tt \in Texts /\ Len(tt) = n + 1
      /\ \A i \in 1..n : tt[i] = ss[i]
      /\ tt[n + 1] = t
  BY LenProperties, AppendProperties DEF Texts
<1> HIDE DEF tt
<1>1. PICK f \in [1..Len(tt) -> Bytes] :
        /\ f[1] = tt[1]
        /\ \A i \in 2..Len(tt) : f[i] = f[i - 1] \o tt[i]
        /\ Seqs!FlattenSeq(tt) = f[Len(tt)]
  <2>1. tt \in Texts /\ Len(tt) # 0
    BY <1>0
  <2> QED
    BY <2>1, Flattened
<1>2. CASE n = 0
  <2>1. ss = <<>>
    BY <1>2, EmptySeq DEF Texts
  <2>2. Seqs!FlattenSeq(tt) = t
    BY <1>0, <1>1, <1>2
  <2> QED
    BY <2>1, <2>2, FlattenedNone, JoinedNothing DEF tt
<1>3. CASE n # 0
  <2>1. PICK g \in [1..n -> Bytes] :
          /\ g[1] = ss[1]
          /\ \A i \in 2..n : g[i] = g[i - 1] \o ss[i]
          /\ Seqs!FlattenSeq(ss) = g[n]
    BY <1>3, Flattened
  <2> DEFINE Good == {m \in Nat : m \in 1..n => f[m] = g[m]}
  <2>2. 0 \in Good
    OBVIOUS
  <2>3. ASSUME NEW m \in Nat, m \in Good
        PROVE  m + 1 \in Good
    <3> SUFFICES ASSUME m + 1 \in 1..n
                 PROVE  f[m + 1] = g[m + 1]
      OBVIOUS
    <3>1. CASE m = 0
      <4>1. f[1] = ss[1]
        BY <1>0, <1>1, <3>1
      <4> QED
        BY <3>1, <4>1, <2>1
    <3>2. CASE m # 0
      <4> DEFINE k == m + 1
      <4>1. k \in 2..n /\ k \in 2..Len(tt) /\ k - 1 = m /\ m \in 1..n /\ k \in 1..n
        BY <1>0, <3>2
      <4> HIDE DEF k
      <4>2. f[k] = f[m] \o ss[k] /\ g[k] = g[m] \o ss[k]
        BY <4>1, <1>0, <1>1, <2>1
      <4>3. f[m] = g[m]
        BY <4>1, <2>3
      <4> QED
        BY <4>2, <4>3 DEF k
    <3> QED
      BY <3>1, <3>2
  <2>4. Nat \subseteq Good
    <3> HIDE DEF Good
    <3> QED
      BY <2>2, <2>3, SetInduction
  <2>5. f[n] = g[n]
    BY <2>4, <1>0, <1>3
  <2>6. n + 1 \in 2..Len(tt)
    BY <1>0, <1>3
  <2>9. f[n + 1] = f[(n + 1) - 1] \o tt[n + 1]
    BY <2>6, <1>1
  <2>7. (n + 1) - 1 = n
    BY <1>0
  <2>8. f[n + 1] = g[n] \o t
    BY <2>5, <2>9, <2>7, <1>0
  <2> QED
    BY <2>8, <1>0, <1>1, <2>1 DEF tt
<1> QED
  BY <1>2, <1>3

LEMMA FlattenedOne ==
  ASSUME NEW t \in Bytes
  PROVE  Seqs!FlattenSeq(<<t>>) = t
<1>1. <<>> \in Texts
  BY EmptySeq DEF Texts
<1>2. Append(<<>>, t) = <<t>>
  OBVIOUS
<1> QED
  BY <1>1, <1>2, FlattenedOneMore, FlattenedNone, JoinedNothing

\* One list of texts behind another.
LEMMA FlattenedJoined ==
  ASSUME NEW ss \in Texts, NEW tt \in Texts
  PROVE  /\ ss \o tt \in Texts
         /\ Seqs!FlattenSeq(ss \o tt) = Seqs!FlattenSeq(ss) \o Seqs!FlattenSeq(tt)
<1> DEFINE Good == {uu \in Texts : Seqs!FlattenSeq(ss \o uu) = Seqs!FlattenSeq(ss) \o Seqs!FlattenSeq(uu)}
<1>1. <<>> \in Good
  <2>1. ss \o <<>> = ss /\ <<>> \in Texts
    BY ConcatEmptySeq, EmptySeq DEF Texts
  <2> QED
    BY <2>1, FlattenedNone, FlattenedIsText, JoinedNothing
<1>2. ASSUME NEW uu \in Seq(Bytes), NEW t \in Bytes, uu \in Good
      PROVE  Append(uu, t) \in Good
  <2>1. /\ uu \in Texts /\ Append(uu, t) \in Texts /\ ss \o uu \in Texts
        /\ <<t>> \in Texts
    BY AppendProperties, ConcatProperties DEF Texts
  <2>2. ss \o Append(uu, t) = Append(ss \o uu, t)
    <3>1. Append(uu, t) = uu \o <<t>> /\ Append(ss \o uu, t) = (ss \o uu) \o <<t>>
      BY <2>1, AppendIsConcat DEF Texts
    <3>2. (ss \o uu) \o <<t>> = ss \o (uu \o <<t>>)
      BY <2>1, ConcatAssociative DEF Texts
    <3> QED
      BY <3>1, <3>2
  <2>3. Seqs!FlattenSeq(Append(ss \o uu, t)) = Seqs!FlattenSeq(ss \o uu) \o t
    BY <2>1, FlattenedOneMore
  <2>4. Seqs!FlattenSeq(Append(uu, t)) = Seqs!FlattenSeq(uu) \o t
    BY <2>1, FlattenedOneMore
  <2>5. (Seqs!FlattenSeq(ss) \o Seqs!FlattenSeq(uu)) \o t
          = Seqs!FlattenSeq(ss) \o (Seqs!FlattenSeq(uu) \o t)
    BY <2>1, FlattenedIsText, JoinedThree
  <2> QED
    BY <2>1, <2>2, <2>3, <2>4, <2>5, <1>2
<1>3. Seq(Bytes) \subseteq Good
  <2> HIDE DEF Good
  <2> QED
    BY <1>1, <1>2, TextInduction
<1> QED
  BY <1>3, ConcatProperties DEF Texts

-----------------------------------------------------------------------------
(* A text of which every character is replaced by a piece.                 *)

Pieces == [Byte -> Bytes]

Spread(f, t) == Seqs!FlattenSeq([i \in DOMAIN t |-> f[t[i]]])

LEMMA PiecesOfText ==
  ASSUME NEW f \in Pieces, NEW t \in Bytes
  PROVE  /\ [i \in DOMAIN t |-> f[t[i]]] \in Texts
         /\ Len([i \in DOMAIN t |-> f[t[i]]]) = Len(t)
<1> DEFINE n == Len(t)
           e(i) == f[t[i]]
<1>1. DOMAIN t = 1..n /\ n \in Nat /\ \A i \in 1..n : t[i] \in Byte
  BY LenProperties, ElementOfSeq DEF Bytes
<1>2. \A i \in 1..n : e(i) \in Bytes
  BY <1>1 DEF Pieces
<1> HIDE DEF e, n
<1>3. [i \in 1..n |-> e(i)] \in Seq(Bytes)
  <2>1. [i \in 1..n |-> e(i)] \in [1..n -> Bytes]
    BY <1>2
  <2> QED
    BY <2>1, <1>1, SeqDef
<1>4. Len([i \in 1..n |-> e(i)]) = n
  BY <1>1, <1>3
<1> QED
  BY <1>1, <1>3, <1>4 DEF e, n, Texts

LEMMA SpreadIsText ==
  ASSUME NEW f \in Pieces, NEW t \in Bytes
  PROVE  Spread(f, t) \in Bytes
BY PiecesOfText, FlattenedIsText DEF Spread

LEMMA SpreadNothing ==
  ASSUME NEW f
  PROVE  Spread(f, <<>>) = <<>>
<1>1. [i \in DOMAIN <<>> |-> f[<<>>[i]]] = <<>>
  OBVIOUS
<1> QED
  BY <1>1, FlattenedNone DEF Spread

LEMMA SpreadOneMore ==
  ASSUME NEW f \in Pieces, NEW t \in Bytes, NEW b \in Byte
  PROVE  Spread(f, Append(t, b)) = Spread(f, t) \o f[b]
<1> DEFINE ss == [i \in DOMAIN t |-> f[t[i]]]
           u  == Append(t, b)
           tt == [i \in DOMAIN u |-> f[u[i]]]
           n  == Len(t)
<1>1. /\ n \in Nat /\ DOMAIN t = 1..n
      /\ u \in Bytes /\ Len(u) = n + 1 /\ DOMAIN u = 1..(n + 1)
      /\ \A i \in 1..n : u[i] = t[i]
      /\ u[n + 1] = b
  <2>1. n \in Nat /\ DOMAIN t = 1..n
    BY LenProperties DEF Bytes
  <2>2. /\ u \in Seq(Byte) /\ Len(u) = n + 1
        /\ \A i \in 1..n : u[i] = t[i]
        /\ u[n + 1] = b
    BY AppendProperties DEF Bytes
  <2>3. DOMAIN u = 1..(n + 1)
    BY <2>2, LenProperties
  <2> QED
    BY <2>1, <2>2, <2>3 DEF Bytes
<1> HIDE DEF u, n
<1>2. ss \in Texts /\ Len(ss) = n /\ tt \in Texts /\ Len(tt) = n + 1
  BY <1>1, PiecesOfText DEF n
<1>3. f[b] \in Bytes
  BY DEF Pieces
<1>4. tt = Append(ss, f[b])
  <2> DEFINE w == Append(ss, f[b])
  <2>1. /\ w \in Texts /\ Len(w) = n + 1
        /\ \A i \in 1..n : w[i] = ss[i]
        /\ w[n + 1] = f[b]
    BY <1>2, <1>3, AppendProperties DEF Texts
  <2>2. \A i \in 1..(n + 1) : tt[i] = w[i]
    <3> SUFFICES ASSUME NEW i \in 1..(n + 1)
                 PROVE  tt[i] = w[i]
      OBVIOUS
    <3> HIDE DEF w
    <3>1. CASE i = n + 1
      BY <3>1, <1>1, <2>1
    <3>2. CASE i # n + 1
      <4>1. i \in 1..n
        BY <3>2, <1>1
      <4>2. tt[i] = f[t[i]] /\ ss[i] = f[t[i]]
        BY <4>1, <1>1
      <4> QED
        BY <4>1, <4>2, <2>1
    <3> QED
      BY <3>1, <3>2
  <2> HIDE DEF w, tt, ss
  <2>3. tt = w
    BY <2>1, <2>2, <1>2, SeqEqual DEF Texts
  <2> QED
    BY <2>3 DEF w
<1>5. Seqs!FlattenSeq(Append(ss, f[b])) = Seqs!FlattenSeq(ss) \o f[b]
  BY <1>2, <1>3, FlattenedOneMore
<1> QED
  BY <1>4, <1>5 DEF Spread, u

LEMMA SpreadOne ==
  ASSUME NEW f \in Pieces, NEW b \in Byte
  PROVE  Spread(f, <<b>>) = f[b]
<1>1. Append(<<>>, b) = <<b>> /\ f[b] \in Bytes
  BY DEF Pieces
<1> QED
  BY <1>1, EmptyText, SpreadOneMore, SpreadNothing, JoinedNothing

LEMMA AppendedIsJoined ==
  ASSUME NEW t \in Bytes, NEW b \in Byte
  PROVE  /\ Append(t, b) = t \o <<b>>
         /\ Append(t, b) \in Bytes
         /\ <<b>> \in Bytes
BY AppendIsConcat, AppendProperties DEF Bytes

LEMMA SpreadJoined ==
  ASSUME NEW f \in Pieces, NEW s \in Bytes, NEW t \in Bytes
  PROVE  Spread(f, s \o t) = Spread(f, s) \o Spread(f, t)
<1> DEFINE Good == {u \in Bytes : Spread(f, s \o u) = Spread(f, s) \o Spread(f, u)}
<1>1. <<>> \in Good
  BY EmptyText, SpreadNothing, SpreadIsText, JoinedNothing
<1>2. ASSUME NEW u \in Seq(Byte), NEW b \in Byte, u \in Good
      PROVE  Append(u, b) \in Good
  <2>1. /\ u \in Bytes /\ s \o u \in Bytes
        /\ Append(u, b) \in Bytes /\ <<b>> \in Bytes
        /\ Append(u, b) = u \o <<b>>
        /\ Append(s \o u, b) = (s \o u) \o <<b>>
        /\ (s \o u) \o <<b>> = s \o (u \o <<b>>)
    <3>1. u \in Bytes
      BY DEF Bytes
    <3>2. s \o u \in Bytes
      BY <3>1, Joined
    <3>3. Append(u, b) \in Bytes /\ <<b>> \in Bytes /\ Append(u, b) = u \o <<b>>
      BY <3>1, AppendedIsJoined
    <3>4. Append(s \o u, b) = (s \o u) \o <<b>>
      BY <3>2, AppendedIsJoined
    <3>5. (s \o u) \o <<b>> = s \o (u \o <<b>>)
      BY <3>1, <3>3, JoinedThree
    <3> QED
      BY <3>1, <3>2, <3>3, <3>4, <3>5
  <2>2. Spread(f, s \o Append(u, b)) = Spread(f, s \o u) \o f[b]
    BY <2>1, SpreadOneMore
  <2>3. Spread(f, Append(u, b)) = Spread(f, u) \o f[b]
    BY <2>1, SpreadOneMore
  <2>4. f[b] \in Bytes /\ Spread(f, s) \in Bytes /\ Spread(f, u) \in Bytes
    BY <2>1, SpreadIsText DEF Pieces
  <2>5. (Spread(f, s) \o Spread(f, u)) \o f[b] = Spread(f, s) \o (Spread(f, u) \o f[b])
    BY <2>4, JoinedThree
  <2> QED
    BY <2>1, <2>2, <2>3, <2>5, <1>2
<1>3. Seq(Byte) \subseteq Good
  <2> HIDE DEF Good
  <2> QED
    BY <1>1, <1>2, TextInduction
<1> QED
  BY <1>3 DEF Bytes

\* Two passes are one: the second goes over the pieces of the first.
Then(f, g) == [b \in Byte |-> Spread(g, f[b])]

LEMMA ThenIsPieces ==
  ASSUME NEW f \in Pieces, NEW g \in Pieces
  PROVE  Then(f, g) \in Pieces
<1>1. \A b \in Byte : Spread(g, f[b]) \in Bytes
  BY SpreadIsText DEF Pieces
<1> QED
  BY <1>1 DEF Pieces, Then

LEMMA SpreadTwice ==
  ASSUME NEW f \in Pieces, NEW g \in Pieces, NEW t \in Bytes
  PROVE  Spread(g, Spread(f, t)) = Spread(Then(f, g), t)
<1> DEFINE h == Then(f, g)
           Good == {u \in Bytes : Spread(g, Spread(f, u)) = Spread(h, u)}
<1>0. h \in Pieces /\ \A b \in Byte : h[b] = Spread(g, f[b])
  BY ThenIsPieces DEF Then
<1> HIDE DEF h
<1>1. <<>> \in Good
  BY EmptyText, SpreadNothing
<1>2. ASSUME NEW u \in Seq(Byte), NEW b \in Byte, u \in Good
      PROVE  Append(u, b) \in Good
  <2>1. u \in Bytes /\ Append(u, b) \in Bytes /\ Spread(f, u) \in Bytes /\ f[b] \in Bytes
    BY AppendedIsJoined, SpreadIsText DEF Bytes, Pieces
  <2>2. Spread(f, Append(u, b)) = Spread(f, u) \o f[b]
    BY <2>1, SpreadOneMore
  <2>3. Spread(g, Spread(f, u) \o f[b]) = Spread(g, Spread(f, u)) \o Spread(g, f[b])
    BY <2>1, SpreadJoined
  <2>4. Spread(h, Append(u, b)) = Spread(h, u) \o h[b]
    BY <2>1, <1>0, SpreadOneMore
  <2> QED
    BY <2>1, <2>2, <2>3, <2>4, <1>0, <1>2
<1>3. Seq(Byte) \subseteq Good
  <2> HIDE DEF Good
  <2> QED
    BY <1>1, <1>2, TextInduction
<1> QED
  BY <1>3 DEF Bytes, h

\* A pass that leaves every character of a text alone.
LEMMA SpreadUnchanged ==
  ASSUME NEW f \in Pieces, NEW t \in Bytes, \A i \in 1..Len(t) : f[t[i]] = <<t[i]>>
  PROVE  Spread(f, t) = t
<1> DEFINE Alone(u) == \A i \in 1..Len(u) : f[u[i]] = <<u[i]>>
           Good == {u \in Bytes : Alone(u) => Spread(f, u) = u}
<1>1. <<>> \in Good
  BY EmptyText, SpreadNothing
<1>2. ASSUME NEW u \in Seq(Byte), NEW b \in Byte, u \in Good
      PROVE  Append(u, b) \in Good
  <2> DEFINE v == Append(u, b)
  <2>1. u \in Bytes /\ v \in Bytes /\ v = u \o <<b>>
    BY AppendedIsJoined DEF Bytes
  <2>2. /\ Len(u) \in Nat /\ Len(v) = Len(u) + 1
        /\ \A i \in 1..Len(u) : v[i] = u[i]
        /\ v[Len(u) + 1] = b
    BY AppendProperties, LenProperties
  <2>3. ASSUME Alone(v)
        PROVE  Spread(f, v) = v
    <3> HIDE DEF v
    <3>1. \A i \in 1..Len(v) : f[v[i]] = <<v[i]>>
      BY <2>3
    <3>2. Alone(u)
      BY <3>1, <2>2
    <3>3. f[b] = <<b>>
      BY <3>1, <2>2
    <3>4. Spread(f, u) = u
      BY <3>2, <1>2
    <3>5. Spread(f, v) = Spread(f, u) \o f[b]
      BY <2>1, SpreadOneMore DEF v
    <3> QED
      BY <3>3, <3>4, <3>5, <2>1
  <2> QED
    BY <2>1, <2>3
<1>3. Seq(Byte) \subseteq Good
  <2> HIDE DEF Good
  <2> QED
    BY <1>1, <1>2, TextInduction
<1> QED
  BY <1>3 DEF Bytes

\* Pieces of characters of some kind make a text of such characters.
LEMMA SpreadOfKind ==
  ASSUME NEW C, C \subseteq Byte, NEW f \in [Byte -> Seq(C)], NEW t \in Bytes
  PROVE  f \in Pieces /\ Spread(f, t) \in Seq(C)
<1>1. \A s \in Seq(C) : s \in Bytes
  BY SeqMonotonic DEF Bytes
<1>2. f \in Pieces
  BY <1>1 DEF Pieces
<1> DEFINE Good == {u \in Bytes : Spread(f, u) \in Seq(C)}
<1>3. <<>> \in Good
  BY EmptyText, SpreadNothing, EmptySeq
<1>4. ASSUME NEW u \in Seq(Byte), NEW b \in Byte, u \in Good
      PROVE  Append(u, b) \in Good
  <2>1. u \in Bytes /\ Append(u, b) \in Bytes
    BY AppendedIsJoined DEF Bytes
  <2>2. Spread(f, Append(u, b)) = Spread(f, u) \o f[b]
    BY <2>1, <1>2, SpreadOneMore
  <2>3. f[b] \in Seq(C) /\ Spread(f, u) \in Seq(C)
    BY <1>4
  <2>4. Spread(f, u) \o f[b] \in Seq(C)
    BY <2>3, ConcatProperties
  <2> QED
    BY <2>1, <2>2, <2>4
<1>5. Seq(Byte) \subseteq Good
  <2> HIDE DEF Good
  <2> QED
    BY <1>3, <1>4, TextInduction
<1> QED
  BY <1>2, <1>5 DEF Bytes

-----------------------------------------------------------------------------
(* The passes of Sanitize.                                                 *)

\* The pass that puts a text in the place of one character.
Only(c, dest) == [b \in Byte |-> IF b = c THEN dest ELSE <<b>>]

LEMMA ReplaceAllIsSpread ==
  ASSUME NEW t \in Bytes, NEW c \in Byte, NEW dest \in Bytes
  PROVE  /\ Only(c, dest) \in Pieces
         /\ ReplaceAll(t, c, dest) = Spread(Only(c, dest), t)
<1>1. \A b \in Byte : <<b>> \in Bytes
  BY AppendedIsJoined, EmptyText
<1>2. \A i \in DOMAIN t : t[i] \in Byte
  BY ElementOfSeq, LenProperties DEF Bytes
<1>3. [i \in DOMAIN t |-> IF t[i] = c THEN dest ELSE <<t[i]>>]
        = [i \in DOMAIN t |-> Only(c, dest)[t[i]]]
  BY <1>2 DEF Only
<1> QED
  BY <1>1, <1>3 DEF Only, Pieces, ReplaceAll, Spread

Escaped == (1..31) \cup {168, Quote}

\* What the escapes are made of, but for the quote's.
Safe == (32..255) \ {Quote, 168}

LEMMA SafePiece ==
  ASSUME NEW S1 \in SUBSET Byte
  PROVE  /\ \A a \in S1 : <<a>> \in Seq(S1)
         /\ \A a, b \in S1 : <<a, b>> \in Seq(S1)
         /\ \A a, b, c \in S1 : <<a, b, c>> \in Seq(S1)
         /\ \A a, b, c, d, e \in S1 : <<a, b, c, d, e>> \in Seq(S1)
OBVIOUS

LEMMA HexIsSafe ==
  ASSUME NEW d \in 0..15
  PROVE  HexDigit(d) \in (48..57) \cup (97..102) /\ HexDigit(d) \in Safe
BY DEF HexDigit, Digit0, Safe, Quote

LEMMA EscapeIsSafe ==
  ASSUME NEW c \in Escaped
  PROVE  /\ c # Quote => Escape(c) \in Seq(Safe)
         /\ Escape(c) \in Seq((32..255) \ {168})
<1>1. /\ Backslash \in Safe /\ 98 \in Safe /\ 116 \in Safe /\ 110 \in Safe /\ 118 \in Safe
      /\ 102 \in Safe /\ 114 \in Safe /\ 120 \in Safe
      /\ Safe \in SUBSET Byte
  BY DEF Safe, Backslash, Quote, Byte
<1>2. c # Quote => HexDigit(c \div 16) \in Safe /\ HexDigit(c % 16) \in Safe
  <2> SUFFICES ASSUME c # Quote
               PROVE  HexDigit(c \div 16) \in Safe /\ HexDigit(c % 16) \in Safe
    OBVIOUS
  <2>1. c \in 1..31 \/ c = 168
    BY DEF Escaped
  <2>2. c \div 16 \in 0..15 /\ c % 16 \in 0..15
    BY <2>1
  <2> QED
    BY <2>2, HexIsSafe
<1>3. ASSUME c # Quote
      PROVE  Escape(c) \in Seq(Safe)
  BY <1>1, <1>2, <1>3, SafePiece DEF Escape
<1>4. Escape(Quote) \in Seq((32..255) \ {168})
  BY DEF Escape, Quote, Backslash
<1>5. ASSUME c # Quote
      PROVE  Escape(c) \in Seq((32..255) \ {168})
  <2> DEFINE T == (32..255) \ {168}
  <2>1. Safe \subseteq T
    BY DEF Safe
  <2>2. Escape(c) \in Seq(Safe)
    BY <1>3, <1>5
  <2> HIDE DEF T
  <2>3. Escape(c) \in Seq(T)
    BY <2>1, <2>2, SeqMonotonic
  <2> QED
    BY <2>3 DEF T
<1> QED
  BY <1>3, <1>4, <1>5

\* After so many of the passes of EscapeAll.
EscapedBy(n) ==
  [b \in Byte |-> IF \E i \in 1..n : EscapeOrder[i] = b THEN Escape(b) ELSE <<b>>]

EscapeEach == [b \in Byte |-> IF b \in Escaped THEN Escape(b) ELSE <<b>>]

LEMMA JoinedPair ==
  ASSUME NEW s \in Bytes, NEW t \in Bytes, Len(t) = 2
  PROVE  /\ Len(s \o t) = Len(s) + 2
         /\ \A i \in 1..Len(s) : (s \o t)[i] = s[i]
         /\ (s \o t)[Len(s) + 1] = t[1]
         /\ (s \o t)[Len(s) + 2] = t[2]
<1>1. 1 \in 1..Len(t) /\ 2 \in 1..Len(t)
  OBVIOUS
<1>2. /\ Len(s \o t) = Len(s) + Len(t)
      /\ \A i \in 1..Len(s) : (s \o t)[i] = s[i]
      /\ \A i \in 1..Len(t) : (s \o t)[Len(s) + i] = t[i]
  BY Joined
<1>3. (s \o t)[Len(s) + 1] = t[1]
  BY <1>1, <1>2
<1>4. (s \o t)[Len(s) + 2] = t[2]
  BY <1>1, <1>2
<1> QED
  BY <1>2, <1>3, <1>4

LEMMA EscapeOrderIs ==
  /\ Len(EscapeOrder) = 33
  /\ \A i \in 1..31 : EscapeOrder[i] = i
  /\ EscapeOrder[32] = 168
  /\ EscapeOrder[33] = Quote
<1> DEFINE s == [c \in 1..31 |-> c]
           t == <<168, Quote>>
<1>1. s \in Bytes
  <2>1. s \in [1..31 -> Byte]
    BY DEF Byte
  <2>2. s \in Seq(Byte)
    BY <2>1, SeqDef
  <2> QED
    BY <2>2 DEF Bytes
<1>2. Len(s) = 31
  OBVIOUS
<1>3. t \in Bytes /\ Len(t) = 2 /\ t[1] = 168 /\ t[2] = Quote
  BY DEF Quote, Bytes, Byte
<1>4. EscapeOrder = s \o t
  BY DEF EscapeOrder
<1>5. \A i \in 1..31 : s[i] = i
  OBVIOUS
<1> HIDE DEF s, t
<1>6. /\ Len(s \o t) = Len(s) + 2
      /\ \A i \in 1..Len(s) : (s \o t)[i] = s[i]
      /\ (s \o t)[Len(s) + 1] = t[1]
      /\ (s \o t)[Len(s) + 2] = t[2]
  BY <1>1, <1>3, JoinedPair
<1>7. Len(s) + 1 = 32 /\ Len(s) + 2 = 33
  BY <1>2
<1> QED
  BY <1>2, <1>3, <1>4, <1>5, <1>6, <1>7

LEMMA EscapeOrderEscapes ==
  /\ \A i \in 1..33 : EscapeOrder[i] \in Escaped /\ EscapeOrder[i] \in Byte
  /\ \A b \in Escaped : \E i \in 1..33 : EscapeOrder[i] = b
<1>1. \A i \in 1..33 : i \in 1..31 \/ i = 32 \/ i = 33
  OBVIOUS
<1>2. \A i \in 1..33 : EscapeOrder[i] \in Escaped /\ EscapeOrder[i] \in Byte
  BY <1>1, EscapeOrderIs DEF Escaped, Byte, Quote
<1>3. ASSUME NEW b \in Escaped
      PROVE  \E i \in 1..33 : EscapeOrder[i] = b
  <2>1. b \in 1..31 \/ b = 168 \/ b = Quote
    BY DEF Escaped
  <2>2. (1..31) \subseteq 1..33 /\ 32 \in 1..33 /\ 33 \in 1..33
    OBVIOUS
  <2> QED
    BY <2>1, <2>2, EscapeOrderIs
<1> QED
  BY <1>2, <1>3

LEMMA EscapedByPieces ==
  ASSUME NEW n \in 0..33
  PROVE  EscapedBy(n) \in Pieces
<1>1. \A b \in Byte : <<b>> \in Bytes
  BY AppendedIsJoined, EmptyText
<1>2. \A b \in Escaped : Escape(b) \in Bytes
  <2>1. (32..255) \ {168} \subseteq Byte
    BY DEF Byte
  <2> QED
    BY <2>1, EscapeIsSafe, SeqMonotonic DEF Bytes
<1>3. \A i \in 1..n : EscapeOrder[i] \in Escaped
  BY EscapeOrderEscapes
<1> QED
  BY <1>1, <1>2, <1>3 DEF EscapedBy, Pieces

LEMMA EscapedByNone ==
  ASSUME NEW t \in Bytes
  PROVE  Spread(EscapedBy(0), t) = t
<1>1. \A i \in 1..Len(t) : t[i] \in Byte
  BY ElementOfSeq DEF Bytes
<1>2. \A b \in Byte : EscapedBy(0)[b] = <<b>>
  BY DEF EscapedBy
<1>3. 0 \in 0..33
  OBVIOUS
<1>4. EscapedBy(0) \in Pieces
  BY <1>3, EscapedByPieces
<1> QED
  BY <1>1, <1>2, <1>4, SpreadUnchanged

LEMMA EscapedByAll == EscapedBy(33) = EscapeEach
BY EscapeOrderEscapes DEF EscapedBy, EscapeEach

\* What a pass writes is not touched by the ones behind it.
LEMMA EscapedByNext ==
  ASSUME NEW n \in 0..32
  PROVE  Then(EscapedBy(n), Only(EscapeOrder[n + 1], Escape(EscapeOrder[n + 1])))
           = EscapedBy(n + 1)
<1> DEFINE c == EscapeOrder[n + 1]
           f == EscapedBy(n)
           g == Only(c, Escape(c))
<1>1. c \in Escaped /\ c \in Byte /\ Escape(c) \in Bytes
  <2>1. (32..255) \ {168} \subseteq Byte
    BY DEF Byte
  <2>2. n + 1 \in 1..33
    OBVIOUS
  <2>3. c \in Escaped /\ c \in Byte
    BY <2>2, EscapeOrderEscapes
  <2> QED
    BY <2>1, <2>3, EscapeIsSafe, SeqMonotonic DEF Bytes
<1>2. f \in Pieces /\ g \in Pieces
  <2>1. n \in 0..33
    OBVIOUS
  <2>2. f \in Pieces
    BY <2>1, EscapedByPieces
  <2> QED
    BY <1>1, <2>2, ReplaceAllIsSpread, EmptyText
<1>3. ASSUME NEW i \in 1..n
      PROVE  EscapeOrder[i] # Quote /\ EscapeOrder[i] # c /\ EscapeOrder[i] \in Escaped
  <2>1. i \in 1..31 \/ i = 32
    OBVIOUS
  <2>2. i \in 1..33
    OBVIOUS
  <2>3. n + 1 \in 1..31 \/ n + 1 = 32 \/ n + 1 = 33
    OBVIOUS
  <2> QED
    BY <2>1, <2>2, <2>3, EscapeOrderIs, EscapeOrderEscapes DEF Quote
<1>4. c \notin Safe
  BY <1>1 DEF Escaped, Safe
<1>5. ASSUME NEW b \in Byte
      PROVE  Spread(g, f[b]) = EscapedBy(n + 1)[b]
  <2>1. CASE \E i \in 1..n : EscapeOrder[i] = b
    <3>1. f[b] = Escape(b)
      BY <2>1 DEF EscapedBy
    <3>2. EscapedBy(n + 1)[b] = Escape(b)
      BY <2>1 DEF EscapedBy
    <3>3. b \in Escaped /\ b # Quote
      BY <2>1, <1>3
    <3>4. Escape(b) \in Seq(Safe) /\ Escape(b) \in Bytes
      <4>1. Safe \subseteq Byte
        BY DEF Safe, Byte
      <4> QED
        BY <3>3, <4>1, EscapeIsSafe, SeqMonotonic DEF Bytes
    <3>5. \A i \in 1..Len(Escape(b)) : Escape(b)[i] \in Safe
      BY <3>4, ElementOfSeq
    <3>6. \A a \in Safe : g[a] = <<a>>
      <4>1. Safe \subseteq Byte
        BY DEF Safe, Byte
      <4> QED
        BY <4>1, <1>4 DEF Only
    <3>7. Spread(g, Escape(b)) = Escape(b)
      BY <3>4, <3>5, <3>6, <1>2, SpreadUnchanged
    <3> QED
      BY <3>1, <3>2, <3>7
  <2>2. CASE ~ \E i \in 1..n : EscapeOrder[i] = b
    <3>1. f[b] = <<b>>
      BY <2>2 DEF EscapedBy
    <3>2. Spread(g, <<b>>) = g[b]
      BY <1>2, SpreadOne
    <3>3. (\E i \in 1..(n + 1) : EscapeOrder[i] = b) <=> b = c
      BY <2>2
    <3>4. EscapedBy(n + 1)[b] = IF b = c THEN Escape(b) ELSE <<b>>
      BY <3>3 DEF EscapedBy
    <3> QED
      BY <3>1, <3>2, <3>4 DEF Only
  <2> QED
    BY <2>1, <2>2
<1>6. Then(f, g) = [b \in Byte |-> EscapedBy(n + 1)[b]]
  <2> HIDE DEF f, g
  <2> QED
    BY <1>5 DEF Then
<1>7. EscapedBy(n + 1) = [b \in Byte |-> EscapedBy(n + 1)[b]]
  BY DEF EscapedBy
<1> QED
  BY <1>6, <1>7

\* All the passes over control characters and quotes are one.
LEMMA EscapeAllIsSpread ==
  ASSUME NEW t \in Bytes
  PROVE  EscapeEach \in Pieces /\ EscapeAll(t) = Spread(EscapeEach, t)
<1> DEFINE Pass(i, s) == ReplaceAll(s, EscapeOrder[i], Escape(EscapeOrder[i]))
           w == [i \in 0..33 |-> Spread(EscapedBy(i), t)]
           u == CHOOSE g : g = [i \in 0..33 |-> IF i = 0 THEN t ELSE Pass(i, g[i - 1])]
<1>1. ASSUME NEW n \in 0..32
      PROVE  Pass(n + 1, Spread(EscapedBy(n), t)) = Spread(EscapedBy(n + 1), t)
  <2> DEFINE c == EscapeOrder[n + 1]
  <2>1. n \in 0..33 /\ n + 1 \in 1..33
    OBVIOUS
  <2>2. EscapedBy(n) \in Pieces /\ Spread(EscapedBy(n), t) \in Bytes
    BY <2>1, EscapedByPieces, SpreadIsText
  <2>3. c \in Byte /\ Escape(c) \in Bytes
    <3>1. (32..255) \ {168} \subseteq Byte
      BY DEF Byte
    <3>2. c \in Escaped /\ c \in Byte
      BY <2>1, EscapeOrderEscapes
    <3> QED
      BY <3>1, <3>2, EscapeIsSafe, SeqMonotonic DEF Bytes
  <2>4. /\ Only(c, Escape(c)) \in Pieces
        /\ Pass(n + 1, Spread(EscapedBy(n), t)) = Spread(Only(c, Escape(c)), Spread(EscapedBy(n), t))
    BY <2>2, <2>3, ReplaceAllIsSpread
  <2>5. Spread(Only(c, Escape(c)), Spread(EscapedBy(n), t))
          = Spread(Then(EscapedBy(n), Only(c, Escape(c))), t)
    BY <2>2, <2>4, SpreadTwice
  <2> QED
    BY <2>4, <2>5, EscapedByNext
<1>2. Spread(EscapedBy(0), t) = t
  BY EscapedByNone
<1> HIDE DEF Pass
<1>3. \A i \in 0..33 : w[i] = IF i = 0 THEN t ELSE Pass(i, w[i - 1])
  <2> SUFFICES ASSUME NEW i \in 0..33, i # 0
               PROVE  w[i] = Pass(i, w[i - 1])
    BY <1>2
  <2>1. i - 1 \in 0..32 /\ (i - 1) + 1 = i /\ i - 1 \in 0..33
    OBVIOUS
  <2>2. w[i - 1] = Spread(EscapedBy(i - 1), t) /\ w[i] = Spread(EscapedBy(i), t)
    BY <2>1
  <2>3. Pass((i - 1) + 1, Spread(EscapedBy(i - 1), t)) = Spread(EscapedBy((i - 1) + 1), t)
    BY <2>1, <1>1
  <2> QED
    BY <2>1, <2>2, <2>3
<1>4. w = [i \in 0..33 |-> IF i = 0 THEN t ELSE Pass(i, w[i - 1])]
  BY <1>3
<1>5. u = [i \in 0..33 |-> IF i = 0 THEN t ELSE Pass(i, u[i - 1])]
  <2> HIDE DEF w
  <2> QED
    BY <1>4
<1>6. EscapeAll(t) = u[33]
  BY EscapeOrderIs DEF EscapeAll, Pass
<1> HIDE DEF u
<1> DEFINE Good == {n \in Nat : n \in 0..33 => u[n] = Spread(EscapedBy(n), t)}
<1>7. 0 \in Good
  BY <1>2, <1>5
<1>8. ASSUME NEW n \in Nat, n \in Good
      PROVE  n + 1 \in Good
  <2> SUFFICES ASSUME n + 1 \in 0..33
               PROVE  u[n + 1] = Spread(EscapedBy(n + 1), t)
    OBVIOUS
  <2>1. n \in 0..32 /\ n \in 0..33 /\ n + 1 # 0 /\ (n + 1) - 1 = n
    OBVIOUS
  <2>2. u[n + 1] = Pass(n + 1, u[n])
    BY <1>5, <2>1
  <2> QED
    BY <2>1, <2>2, <1>1, <1>8
<1>9. Nat \subseteq Good
  <2> HIDE DEF Good
  <2> QED
    BY <1>7, <1>8, SetInduction
<1>10. u[33] = Spread(EscapedBy(33), t)
  BY <1>9
<1>11. EscapedBy(33) \in Pieces
  BY EscapedByPieces
<1> QED
  BY <1>6, <1>10, <1>11, EscapedByAll

-----------------------------------------------------------------------------
(* Which strings are JSON.                                                 *)

\* A function that follows the recursion of EscapeAt is there.
LEMMA EscapeAtIs ==
  ASSUME NEW s \in Bytes
  PROVE  /\ ~EscapeAt(s)[0]
         /\ \A i \in 1..Len(s) : EscapeAt(s)[i] <=> s[i] = Backslash /\ ~EscapeAt(s)[i - 1]
<1> DEFINE n == Len(s)
<1>0. n \in Nat
  BY LenProperties DEF Bytes
<1> HIDE DEF n
<1> DEFINE Row(i, f) == i > 0 /\ s[i] = Backslash /\ ~f[i - 1]
           Upto(m, f) == f = [i \in 0..m |-> Row(i, f)]
           Good == {m \in Nat : \E f : Upto(m, f)}
<1>1. 0 \in Good
  <2> DEFINE f == [i \in 0..0 |-> FALSE]
  <2>1. \A i \in 0..0 : Row(i, f) = FALSE
    OBVIOUS
  <2>2. f = [i \in 0..0 |-> Row(i, f)]
    <3> HIDE DEF Row
    <3> QED
      BY <2>1
  <2>3. Upto(0, f)
    BY <2>2
  <2> QED
    BY <2>3
<1>2. ASSUME NEW m \in Nat, m \in Good
      PROVE  m + 1 \in Good
  <2>1. PICK f : Upto(m, f)
    BY <1>2
  <2> DEFINE g == [i \in 0..(m + 1) |-> IF i = m + 1 THEN Row(i, f) ELSE f[i]]
  <2>2. \A i \in 0..(m + 1) : g[i] = Row(i, g)
    <3> SUFFICES ASSUME NEW i \in 0..(m + 1)
                 PROVE  g[i] = Row(i, g)
      OBVIOUS
    <3>1. i # 0 => i - 1 \in 0..m /\ g[i - 1] = f[i - 1]
      OBVIOUS
    <3>2. Row(i, g) = Row(i, f)
      <4>1. CASE i = 0
        BY <4>1
      <4>2. CASE i # 0
        <5>1. g[i - 1] = f[i - 1]
          BY <4>2, <3>1
        <5> HIDE DEF g
        <5> QED
          BY <5>1
      <4> QED
        BY <4>1, <4>2
    <3>3. ASSUME i # m + 1
          PROVE  f[i] = Row(i, f)
      <4>1. i \in 0..m
        BY <3>3
      <4> HIDE DEF Row
      <4> QED
        BY <4>1, <2>1
    <3> HIDE DEF Row
    <3> QED
      BY <3>2, <3>3
  <2>3. g = [i \in 0..(m + 1) |-> Row(i, g)]
    <3> HIDE DEF Row
    <3> QED
      BY <2>2
  <2>4. Upto(m + 1, g)
    BY <2>3
  <2> HIDE DEF g, Row, Upto
  <2>5. \E u : Upto(m + 1, u)
    BY <2>4
  <2> QED
    BY <2>5
<1>3. n \in Good
  <2> HIDE DEF Good
  <2> QED
    BY <1>0, <1>1, <1>2, SetInduction
<1>4. PICK f : Upto(n, f)
  BY <1>3
<1> DEFINE h == CHOOSE g : g = [i \in 0..n |-> i > 0 /\ s[i] = Backslash /\ ~g[i - 1]]
<1>5. h = [i \in 0..n |-> i > 0 /\ s[i] = Backslash /\ ~h[i - 1]]
  <2>1. f = [i \in 0..n |-> i > 0 /\ s[i] = Backslash /\ ~f[i - 1]]
    BY <1>4
  <2> QED
    BY <2>1
<1>6. EscapeAt(s) = h
  BY DEF EscapeAt, n
<1> HIDE DEF h
<1>7. \A i \in 0..n : h[i] = (i > 0 /\ s[i] = Backslash /\ ~h[i - 1])
  BY <1>5
<1>8. \A i \in 0..n : h[i] <=> i > 0 /\ s[i] = Backslash /\ ~h[i - 1]
  BY <1>7, Zenon
<1>9. ~h[0]
  BY <1>0, <1>8
<1>10. \A i \in 1..n : h[i] <=> s[i] = Backslash /\ ~h[i - 1]
  BY <1>0, <1>8
<1> QED
  BY <1>6, <1>9, <1>10 DEF n

\* What stands behind a character does not change whether it begins an escape.
LEMMA EscapeAtBefore ==
  ASSUME NEW s \in Bytes, NEW t \in Bytes
  PROVE  \A i \in 0..Len(s) : EscapeAt(s \o t)[i] <=> EscapeAt(s)[i]
<1> DEFINE u == s \o t
           Good == {m \in Nat : m <= Len(s) => (EscapeAt(u)[m] <=> EscapeAt(s)[m])}
<1>0. /\ u \in Bytes /\ Len(u) = Len(s) + Len(t) /\ Len(s) \in Nat /\ Len(t) \in Nat
      /\ \A i \in 1..Len(s) : u[i] = s[i]
  BY Joined
<1> HIDE DEF u
<1>1. 0 \in Good
  BY <1>0, EscapeAtIs
<1>2. ASSUME NEW m \in Nat, m \in Good
      PROVE  m + 1 \in Good
  <2> SUFFICES ASSUME m + 1 <= Len(s)
               PROVE  EscapeAt(u)[m + 1] <=> EscapeAt(s)[m + 1]
    OBVIOUS
  <2>1. m + 1 \in 1..Len(s) /\ m + 1 \in 1..Len(u) /\ (m + 1) - 1 = m /\ m <= Len(s)
    BY <1>0
  <2>2. EscapeAt(u)[m + 1] <=> u[m + 1] = Backslash /\ ~EscapeAt(u)[m]
    BY <2>1, <1>0, EscapeAtIs
  <2>3. EscapeAt(s)[m + 1] <=> s[m + 1] = Backslash /\ ~EscapeAt(s)[m]
    BY <2>1, EscapeAtIs
  <2>4. EscapeAt(u)[m] <=> EscapeAt(s)[m]
    BY <1>2, <2>1
  <2>5. u[m + 1] = s[m + 1]
    BY <2>1, <1>0
  <2> QED
    BY <2>2, <2>3, <2>4, <2>5
<1>3. Nat \subseteq Good
  <2> HIDE DEF Good
  <2> QED
    BY <1>1, <1>2, SetInduction
<1> QED
  BY <1>3, <1>0 DEF u

\* Behind a text that ends in no escape everything begins anew.
LEMMA EscapeAtBehind ==
  ASSUME NEW s \in Bytes, NEW t \in Bytes, ~EscapeAt(s)[Len(s)]
  PROVE  \A i \in 0..Len(t) : EscapeAt(s \o t)[Len(s) + i] <=> EscapeAt(t)[i]
<1> DEFINE u == s \o t
           l == Len(s)
           Good == {m \in Nat : m <= Len(t) => (EscapeAt(u)[l + m] <=> EscapeAt(t)[m])}
<1>0. /\ u \in Bytes /\ Len(u) = l + Len(t) /\ l \in Nat /\ Len(t) \in Nat
      /\ \A i \in 1..Len(t) : u[l + i] = t[i]
  BY Joined
<1>1. 0 \in Good
  <2>1. EscapeAt(u)[l] <=> EscapeAt(s)[l]
    BY <1>0, EscapeAtBefore
  <2>2. l + 0 = l /\ ~EscapeAt(t)[0]
    BY <1>0, EscapeAtIs
  <2> QED
    BY <2>1, <2>2
<1> HIDE DEF u, l
<1>2. ASSUME NEW m \in Nat, m \in Good
      PROVE  m + 1 \in Good
  <2> SUFFICES ASSUME m + 1 <= Len(t)
               PROVE  EscapeAt(u)[l + (m + 1)] <=> EscapeAt(t)[m + 1]
    OBVIOUS
  <2> DEFINE k == l + (m + 1)
  <2>1. m + 1 \in 1..Len(t) /\ k \in 1..Len(u) /\ k - 1 = l + m /\ (m + 1) - 1 = m /\ m <= Len(t)
    BY <1>0
  <2>2. u[k] = t[m + 1]
    BY <2>1, <1>0
  <2> HIDE DEF k
  <2>3. EscapeAt(u)[k] <=> u[k] = Backslash /\ ~EscapeAt(u)[l + m]
    BY <2>1, <1>0, EscapeAtIs
  <2>4. EscapeAt(t)[m + 1] <=> t[m + 1] = Backslash /\ ~EscapeAt(t)[m]
    BY <2>1, EscapeAtIs
  <2>5. EscapeAt(u)[l + m] <=> EscapeAt(t)[m]
    BY <1>2, <2>1
  <2> QED
    BY <2>2, <2>3, <2>4, <2>5 DEF k
<1>3. Nat \subseteq Good
  <2> HIDE DEF Good
  <2> QED
    BY <1>1, <1>2, SetInduction
<1> QED
  BY <1>3, <1>0 DEF u, l

\* What IsJsonText asks of one character.
FitsAt(s, i) ==
  /\ s[i] >= 32
  /\ s[i] = Quote => EscapeAt(s)[i - 1]
  /\ EscapeAt(s)[i] => i < Len(s) /\ s[i + 1] \in DOMAIN Meaning

LEMMA JsonIsFit ==
  ASSUME NEW s \in Bytes
  PROVE  /\ IsJsonText(s) <=> \A i \in 1..Len(s) : FitsAt(s, i)
         /\ IsJsonText(s) => ~EscapeAt(s)[Len(s)]
<1>1. DOMAIN s = 1..Len(s) /\ Len(s) \in Nat
  BY LenProperties DEF Bytes
<1>2. IsJsonText(s) <=> \A i \in 1..Len(s) : FitsAt(s, i)
  BY <1>1 DEF IsJsonText, FitsAt
<1>3. ASSUME IsJsonText(s), EscapeAt(s)[Len(s)]
      PROVE  FALSE
  <2>1. Len(s) # 0
    BY <1>3, EscapeAtIs
  <2>2. FitsAt(s, Len(s))
    BY <1>1, <1>2, <1>3, <2>1
  <2> QED
    BY <2>2, <1>3, <1>1 DEF FitsAt
<1> QED
  BY <1>2, <1>3

\* Behind a text that is JSON, another one spoils nothing and is not spoilt.
LEMMA JsonJoined ==
  ASSUME NEW s \in Bytes, NEW t \in Bytes, IsJsonText(s)
  PROVE  IsJsonText(s \o t) <=> IsJsonText(t)
<1> DEFINE u == s \o t
           l == Len(s)
<1>0. /\ u \in Bytes /\ Len(u) = l + Len(t) /\ l \in Nat /\ Len(t) \in Nat
      /\ \A i \in 1..l : u[i] = s[i]
      /\ \A i \in 1..Len(t) : u[l + i] = t[i]
  BY Joined
<1>1. /\ \A i \in 1..l : FitsAt(s, i)
      /\ ~EscapeAt(s)[l]
  BY JsonIsFit
<1>2. /\ \A i \in 0..l : EscapeAt(u)[i] <=> EscapeAt(s)[i]
      /\ \A i \in 0..Len(t) : EscapeAt(u)[l + i] <=> EscapeAt(t)[i]
  BY <1>1, EscapeAtBefore, EscapeAtBehind
<1>a. IsJsonText(u) <=> \A i \in 1..Len(u) : FitsAt(u, i)
  BY <1>0, JsonIsFit
<1> HIDE DEF u, l
<1>3. ASSUME NEW i \in 1..l
      PROVE  FitsAt(u, i)
  <2>1. FitsAt(s, i) /\ u[i] = s[i]
    BY <1>0, <1>1
  <2>2. (EscapeAt(u)[i] <=> EscapeAt(s)[i]) /\ (EscapeAt(u)[i - 1] <=> EscapeAt(s)[i - 1])
    BY <1>0, <1>2
  <2>3. ASSUME EscapeAt(u)[i]
        PROVE  i < Len(u) /\ u[i + 1] \in DOMAIN Meaning
    <3>1. i < l /\ s[i + 1] \in DOMAIN Meaning
      BY <2>1, <2>2, <2>3 DEF FitsAt, l
    <3>2. i + 1 \in 1..l
      BY <3>1, <1>0
    <3>3. u[i + 1] = s[i + 1]
      BY <3>2, <1>0
    <3>4. i < Len(u)
      BY <3>1, <1>0
    <3> QED
      BY <3>1, <3>3, <3>4
  <2> QED
    BY <2>1, <2>2, <2>3 DEF FitsAt
<1>4. ASSUME NEW i \in 1..Len(t)
      PROVE  FitsAt(u, l + i) <=> FitsAt(t, i)
  <2> DEFINE k == l + i
  <2>0. u[k] = t[i] /\ k \in Int /\ i \in Int
    BY <1>0
  <2>1. (EscapeAt(u)[k] <=> EscapeAt(t)[i]) /\ (EscapeAt(u)[k - 1] <=> EscapeAt(t)[i - 1])
    <3>1. i \in 0..Len(t) /\ i - 1 \in 0..Len(t) /\ k - 1 = l + (i - 1)
      BY <1>0
    <3> QED
      BY <3>1, <1>2
  <2>2. k < Len(u) <=> i < Len(t)
    BY <1>0
  <2>3. ASSUME i < Len(t)
        PROVE  u[k + 1] = t[i + 1]
    <3>1. i + 1 \in 1..Len(t) /\ k + 1 = l + (i + 1)
      BY <2>3, <1>0
    <3> QED
      BY <3>1, <1>0
  <2> HIDE DEF k
  <2>4. FitsAt(u, k) <=> FitsAt(t, i)
    BY <2>0, <2>1, <2>2, <2>3 DEF FitsAt
  <2> QED
    BY <2>4 DEF k
<1>5. ASSUME IsJsonText(t)
      PROVE  IsJsonText(u)
  <2>1. \A i \in 1..Len(t) : FitsAt(t, i)
    BY <1>5, JsonIsFit
  <2>2. ASSUME NEW k \in 1..Len(u)
        PROVE  FitsAt(u, k)
    <3>1. CASE k <= l
      BY <3>1, <1>0, <1>3
    <3>2. CASE ~(k <= l)
      <4>1. k - l \in 1..Len(t) /\ k = l + (k - l)
        BY <3>2, <1>0
      <4>2. FitsAt(u, l + (k - l)) <=> FitsAt(t, k - l)
        BY <4>1, <1>4
      <4> QED
        BY <4>1, <4>2, <2>1
    <3> QED
      BY <3>1, <3>2
  <2> QED
    BY <2>2, <1>a
<1>6. ASSUME IsJsonText(u)
      PROVE  IsJsonText(t)
  <2>1. ASSUME NEW i \in 1..Len(t)
        PROVE  FitsAt(t, i)
    <3>1. l + i \in 1..Len(u)
      BY <1>0
    <3>2. FitsAt(u, l + i)
      BY <3>1, <1>6, <1>a
    <3> QED
      BY <3>2, <1>4
  <2> QED
    BY <2>1, JsonIsFit
<1> QED
  BY <1>5, <1>6 DEF u

-----------------------------------------------------------------------------
(* What a reader of the document finds.                                    *)

\* What the reader makes of the character at a position.
ReadAt(s, i) ==
  IF EscapeAt(s)[i] THEN <<>> ELSE IF EscapeAt(s)[i - 1] THEN <<Meaning[s[i]]>> ELSE <<s[i]>>

ReadEach(s) == [i \in DOMAIN s |-> ReadAt(s, i)]

LEMMA TextOfIs ==
  ASSUME NEW s
  PROVE  TextOf(s) = Seqs!FlattenSeq(ReadEach(s))
BY DEF TextOf, ReadEach, ReadAt

\* The characters of which only a name is written.
Named == (0..7) \cup {11} \cup (14..31) \cup {168}

LEMMA MeaningIs ==
  /\ DOMAIN Meaning = {Quote, 47, Backslash, 98, 102, 110, 114, 116}
  /\ \A c \in DOMAIN Meaning : Meaning[c] \in Byte \ Named
  /\ Meaning[Quote] = Quote /\ Meaning[Backslash] = Backslash
  /\ Meaning[98] = 8 /\ Meaning[102] = 12 /\ Meaning[110] = 10
  /\ Meaning[114] = 13 /\ Meaning[116] = 9
BY DEF Meaning, Quote, Backslash, Byte, Named

LEMMA ReadAtTyped ==
  ASSUME NEW C, Byte \ Named \subseteq C, NEW s \in Bytes, IsJsonText(s),
         NEW i \in 1..Len(s), s[i] \in C
  PROVE  ReadAt(s, i) \in Seq(C)
<1>0. Len(s) \in Nat
  BY LenProperties DEF Bytes
<1>1. CASE EscapeAt(s)[i]
  BY <1>1, EmptySeq DEF ReadAt
<1>2. CASE ~EscapeAt(s)[i] /\ EscapeAt(s)[i - 1]
  <2>1. i # 1
    BY <1>2, EscapeAtIs
  <2>2. i - 1 \in 1..Len(s) /\ (i - 1) + 1 = i
    BY <2>1, <1>0
  <2>3. FitsAt(s, i - 1)
    BY <2>2, JsonIsFit
  <2>4. s[i] \in DOMAIN Meaning
    BY <2>2, <2>3, <1>2 DEF FitsAt
  <2>5. Meaning[s[i]] \in C
    BY <2>4, MeaningIs
  <2>6. <<Meaning[s[i]]>> \in Seq(C)
    BY <2>5
  <2> QED
    BY <2>6, <1>2 DEF ReadAt
<1>3. CASE ~EscapeAt(s)[i] /\ ~EscapeAt(s)[i - 1]
  <2>1. <<s[i]>> \in Seq(C)
    OBVIOUS
  <2> QED
    BY <2>1, <1>3 DEF ReadAt
<1> QED
  BY <1>1, <1>2, <1>3

LEMMA ReadEachTyped ==
  ASSUME NEW C, Byte \ Named \subseteq C, NEW s \in Bytes, IsJsonText(s),
         \A i \in 1..Len(s) : s[i] \in C
  PROVE  ReadEach(s) \in Seq(Seq(C)) /\ Len(ReadEach(s)) = Len(s)
<1> DEFINE n == Len(s)
<1>1. n \in Nat /\ DOMAIN s = 1..n
  BY LenProperties DEF Bytes
<1>2. \A i \in 1..n : ReadAt(s, i) \in Seq(C)
  BY ReadAtTyped
<1> HIDE DEF n
<1>3. [i \in 1..n |-> ReadAt(s, i)] \in [1..n -> Seq(C)]
  BY <1>2
<1>4. [i \in 1..n |-> ReadAt(s, i)] \in Seq(Seq(C))
  BY <1>1, <1>3, SeqDef
<1>5. Len([i \in 1..n |-> ReadAt(s, i)]) = n
  BY <1>1
<1> QED
  BY <1>1, <1>4, <1>5 DEF ReadEach, n

LEMMA ReadEachIsTexts ==
  ASSUME NEW s \in Bytes, IsJsonText(s)
  PROVE  /\ ReadEach(s) \in Texts
         /\ Len(ReadEach(s)) = Len(s)
         /\ \A i \in 1..Len(s) : ReadEach(s)[i] = ReadAt(s, i)
         /\ TextOf(s) \in Bytes
<1>1. \A i \in 1..Len(s) : s[i] \in Byte
  BY ElementOfSeq DEF Bytes
<1>2. ReadEach(s) \in Seq(Seq(Byte)) /\ Len(ReadEach(s)) = Len(s)
  BY <1>1, ReadEachTyped
<1>3. ReadEach(s) \in Texts
  BY <1>2 DEF Texts, Bytes
<1>4. DOMAIN s = 1..Len(s)
  BY LenProperties DEF Bytes
<1> QED
  BY <1>2, <1>3, <1>4, FlattenedIsText, TextOfIs DEF ReadEach

\* Texts of characters of some kind, put one behind the other.
LEMMA FlattenedOfKind ==
  ASSUME NEW C, C \subseteq Byte, NEW ss \in Seq(Seq(C))
  PROVE  Seqs!FlattenSeq(ss) \in Seq(C)
<1>1. \A s \in Seq(C) : s \in Bytes
  BY SeqMonotonic DEF Bytes
<1>2. \A uu \in Seq(Seq(C)) : uu \in Texts
  <2> DEFINE K == Seq(C)
  <2>1. K \subseteq Bytes
    BY <1>1
  <2> HIDE DEF K
  <2>2. \A uu \in Seq(K) : uu \in Texts
    BY <2>1, SeqMonotonic DEF Texts
  <2> QED
    BY <2>2 DEF K
<1> DEFINE K == Seq(C)
           Good == {uu \in Seq(K) : Seqs!FlattenSeq(uu) \in Seq(C)}
<1>3. <<>> \in Good
  BY FlattenedNone, EmptySeq
<1>4. ASSUME NEW uu \in Seq(K), NEW t \in K, uu \in Good
      PROVE  Append(uu, t) \in Good
  <2>1. uu \in Texts /\ t \in Bytes
    BY <1>1, <1>2
  <2>2. Seqs!FlattenSeq(Append(uu, t)) = Seqs!FlattenSeq(uu) \o t
    BY <2>1, FlattenedOneMore
  <2>3. Seqs!FlattenSeq(uu) \in Seq(C) /\ t \in Seq(C)
    BY <1>4
  <2>4. Seqs!FlattenSeq(uu) \o t \in Seq(C)
    BY <2>3, ConcatProperties
  <2>5. Append(uu, t) \in Seq(K)
    BY AppendProperties
  <2> QED
    BY <2>2, <2>4, <2>5
<1>5. Seq(K) \subseteq Good
  <2> HIDE DEF Good, K
  <2> QED
    BY <1>3, <1>4, TextInduction
<1> QED
  BY <1>5

\* A reader never finds one of the characters of which only a name is written:
\* JSON has no escape for them here, and they do not stand for themselves.
LEMMA NoNamedIsRead ==
  ASSUME NEW s \in Bytes, IsJsonText(s), \A i \in 1..Len(s) : s[i] # 168
  PROVE  \A i \in 1..Len(TextOf(s)) : TextOf(s)[i] \notin Named
<1> DEFINE C == Byte \ Named
<1>1. ASSUME NEW i \in 1..Len(s)
      PROVE  s[i] \in C
  <2>1. s[i] \in Byte
    BY ElementOfSeq DEF Bytes
  <2>2. s[i] >= 32
    BY JsonIsFit DEF FitsAt
  <2> QED
    BY <2>1, <2>2 DEF Byte, Named
<1> HIDE DEF C
<1>2. Byte \ Named \subseteq C /\ C \subseteq Byte
  BY DEF C
<1>3. ReadEach(s) \in Seq(Seq(C))
  BY <1>1, <1>2, ReadEachTyped
<1>4. TextOf(s) \in Seq(C)
  BY <1>2, <1>3, FlattenedOfKind, TextOfIs
<1>5. \A i \in 1..Len(TextOf(s)) : TextOf(s)[i] \in C
  BY <1>4, ElementOfSeq
<1> QED
  BY <1>5 DEF C

\* A reader finds one text behind the other.
LEMMA TextOfJoined ==
  ASSUME NEW s \in Bytes, NEW t \in Bytes, IsJsonText(s), IsJsonText(t)
  PROVE  TextOf(s \o t) = TextOf(s) \o TextOf(t)
<1> DEFINE u  == s \o t
           l  == Len(s)
           ss == ReadEach(s)
           tt == ReadEach(t)
           uu == ReadEach(u)
<1>0. /\ u \in Bytes /\ Len(u) = l + Len(t) /\ l \in Nat /\ Len(t) \in Nat
      /\ \A i \in 1..l : u[i] = s[i]
      /\ \A i \in 1..Len(t) : u[l + i] = t[i]
  BY Joined
<1>1. IsJsonText(u)
  BY JsonJoined
<1>2. /\ \A i \in 0..l : EscapeAt(u)[i] <=> EscapeAt(s)[i]
      /\ \A i \in 0..Len(t) : EscapeAt(u)[l + i] <=> EscapeAt(t)[i]
  BY JsonIsFit, EscapeAtBefore, EscapeAtBehind
<1>3. /\ ss \in Texts /\ Len(ss) = l /\ \A i \in 1..l : ss[i] = ReadAt(s, i)
      /\ tt \in Texts /\ Len(tt) = Len(t) /\ \A i \in 1..Len(t) : tt[i] = ReadAt(t, i)
  BY ReadEachIsTexts
<1>4. uu \in Texts /\ Len(uu) = Len(u) /\ \A i \in 1..Len(u) : uu[i] = ReadAt(u, i)
  BY <1>0, <1>1, ReadEachIsTexts
<1>5. /\ ss \o tt \in Texts
      /\ Len(ss \o tt) = Len(ss) + Len(tt)
      /\ \A i \in 1..(Len(ss) + Len(tt)) :
           (ss \o tt)[i] = IF i <= Len(ss) THEN ss[i] ELSE tt[i - Len(ss)]
  <2>1. \A p, q \in Seq(Bytes) :
          /\ p \o q \in Seq(Bytes)
          /\ Len(p \o q) = Len(p) + Len(q)
          /\ \A i \in 1..(Len(p) + Len(q)) :
               (p \o q)[i] = IF i <= Len(p) THEN p[i] ELSE q[i - Len(p)]
    BY ConcatProperties
  <2> HIDE DEF ss, tt
  <2> QED
    BY <1>3, <2>1, Zenon DEF Texts
<1> HIDE DEF u, l, ss, tt, uu
<1>6. ASSUME NEW i \in 1..Len(u)
      PROVE  uu[i] = (ss \o tt)[i]
  <2>1. CASE i <= l
    <3>1. i \in 1..l /\ i \in 0..l /\ i - 1 \in 0..l
      BY <2>1, <1>0
    <3>2. ReadAt(u, i) = ReadAt(s, i)
      BY <3>1, <1>0, <1>2 DEF ReadAt
    <3>3. (ss \o tt)[i] = ss[i]
      BY <2>1, <1>0, <1>3, <1>5
    <3> QED
      BY <3>1, <3>2, <3>3, <1>3, <1>4
  <2>2. CASE ~(i <= l)
    <3> DEFINE k == i - l
    <3>1. k \in 1..Len(t) /\ k - 1 \in 0..Len(t) /\ k \in 0..Len(t) /\ l + k = i /\ l + (k - 1) = i - 1
      BY <2>2, <1>0
    <3>2. (ss \o tt)[i] = tt[k]
      BY <2>2, <1>0, <1>3, <1>5
    <3> HIDE DEF k
    <3>3. ReadAt(u, i) = ReadAt(t, k)
      <4>1. (EscapeAt(u)[i] <=> EscapeAt(t)[k]) /\ (EscapeAt(u)[i - 1] <=> EscapeAt(t)[k - 1])
        BY <3>1, <1>2
      <4>2. u[i] = t[k]
        BY <3>1, <1>0
      <4> QED
        BY <4>1, <4>2 DEF ReadAt
    <3> QED
      BY <3>1, <3>2, <3>3, <1>3, <1>4
  <2> QED
    BY <2>1, <2>2
<1>7. uu = ss \o tt
  <2>1. Len(uu) = Len(ss \o tt)
    BY <1>0, <1>3, <1>4, <1>5
  <2>2. \A i \in 1..Len(uu) : uu[i] = (ss \o tt)[i]
    BY <1>4, <1>6
  <2> DEFINE vv == ss \o tt
  <2> HIDE DEF vv
  <2>3. uu \in Seq(Bytes) /\ vv \in Seq(Bytes)
    BY <1>4, <1>5 DEF Texts, vv
  <2>4. uu = vv
    BY <2>1, <2>2, <2>3, SeqEqual DEF vv
  <2> QED
    BY <2>4 DEF vv
<1>8. Seqs!FlattenSeq(ss \o tt) = Seqs!FlattenSeq(ss) \o Seqs!FlattenSeq(tt)
  BY <1>3, FlattenedJoined
<1> QED
  BY <1>7, <1>8, TextOfIs DEF uu, ss, tt, u

-----------------------------------------------------------------------------
(* The pieces Sanitize writes are JSON.                                    *)

LEMMA NothingIsJson == IsJsonText(<<>>) /\ TextOf(<<>>) = <<>>
<1>1. IsJsonText(<<>>)
  BY DEF IsJsonText
<1>2. ReadEach(<<>>) = <<>>
  BY DEF ReadEach
<1> QED
  BY <1>1, <1>2, TextOfIs, FlattenedNone

LEMMA PlainCharacter ==
  ASSUME NEW c \in Byte, c >= 32, c # Quote, c # Backslash
  PROVE  IsJsonText(<<c>>) /\ TextOf(<<c>>) = <<c>>
<1> DEFINE s == <<c>>
<1>1. s \in Bytes /\ Len(s) = 1 /\ s[1] = c /\ DOMAIN s = 1..1
  BY DEF Bytes
<1> HIDE DEF s
<1>2. ~EscapeAt(s)[0] /\ ~EscapeAt(s)[1]
  <2>1. 1 \in 1..Len(s) /\ s[1] # Backslash
    BY <1>1
  <2> QED
    BY <1>1, <2>1, EscapeAtIs
<1>3. \A i \in 1..Len(s) : FitsAt(s, i)
  BY <1>1, <1>2 DEF FitsAt
<1>4. IsJsonText(s)
  BY <1>1, <1>3, JsonIsFit
<1>5. ReadEach(s) = <<s>>
  <2>1. ReadAt(s, 1) = s
    BY <1>1, <1>2 DEF ReadAt, s
  <2>2. ReadEach(s) = [i \in 1..1 |-> s]
    BY <1>1, <2>1 DEF ReadEach
  <2> QED
    BY <2>2
<1>6. TextOf(s) = s
  BY <1>1, <1>5, TextOfIs, FlattenedOne
<1> QED
  BY <1>4, <1>6 DEF s

LEMMA EscapedCharacter ==
  ASSUME NEW m \in DOMAIN Meaning
  PROVE  IsJsonText(<<Backslash, m>>) /\ TextOf(<<Backslash, m>>) = <<Meaning[m]>>
<1> DEFINE s == <<Backslash, m>>
<1>0. m \in Byte /\ m >= 32 /\ Meaning[m] \in Byte
  BY MeaningIs DEF Byte, Quote, Backslash
<1>1. s \in Bytes /\ Len(s) = 2 /\ s[1] = Backslash /\ s[2] = m /\ DOMAIN s = 1..2
  BY <1>0 DEF Bytes, Backslash, Byte
<1> HIDE DEF s
<1>2. ~EscapeAt(s)[0] /\ EscapeAt(s)[1] /\ ~EscapeAt(s)[2]
  <2>1. ~EscapeAt(s)[0] /\ (EscapeAt(s)[1] <=> s[1] = Backslash /\ ~EscapeAt(s)[1 - 1])
    BY <1>1, EscapeAtIs
  <2>2. EscapeAt(s)[1]
    BY <2>1, <1>1
  <2>3. EscapeAt(s)[2] <=> s[2] = Backslash /\ ~EscapeAt(s)[2 - 1]
    BY <1>1, EscapeAtIs
  <2> QED
    BY <2>1, <2>2, <2>3
<1>3. FitsAt(s, 1) /\ FitsAt(s, 2)
  BY <1>0, <1>1, <1>2 DEF FitsAt, Quote, Backslash
<1>4. IsJsonText(s)
  <2>1. \A i \in 1..Len(s) : i = 1 \/ i = 2
    BY <1>1
  <2> QED
    BY <1>1, <1>3, <2>1, JsonIsFit
<1>5. ReadAt(s, 1) = <<>> /\ ReadAt(s, 2) = <<Meaning[m]>>
  BY <1>1, <1>2 DEF ReadAt
<1> DEFINE ss == ReadEach(s)
<1>6. ss \in Texts /\ Len(ss) = 2 /\ ss[1] = <<>> /\ ss[2] = <<Meaning[m]>>
  <2>1. 1 \in 1..Len(s) /\ 2 \in 1..Len(s)
    BY <1>1
  <2> QED
    BY <1>1, <1>4, <1>5, <2>1, ReadEachIsTexts
<1> HIDE DEF ss
<1>7. PICK f \in [1..Len(ss) -> Bytes] :
        /\ f[1] = ss[1]
        /\ \A i \in 2..Len(ss) : f[i] = f[i - 1] \o ss[i]
        /\ Seqs!FlattenSeq(ss) = f[Len(ss)]
  <2>1. Len(ss) # 0
    BY <1>6
  <2> QED
    BY <1>6, <2>1, Flattened
<1>8. 2 \in 2..Len(ss) /\ 2 - 1 = 1
  BY <1>6
<1>9. f[2] = <<>> \o <<Meaning[m]>>
  BY <1>6, <1>7, <1>8
<1>10. <<Meaning[m]>> \in Bytes
  BY <1>0 DEF Bytes
<1>11. TextOf(s) = <<Meaning[m]>>
  BY <1>6, <1>7, <1>9, <1>10, TextOfIs, JoinedNothing DEF ss
<1> QED
  BY <1>4, <1>11 DEF s

LEMMA EscapedBackslash ==
  ASSUME NEW x \in Byte, x >= 32, x # Quote, x # Backslash
  PROVE  IsJsonText(<<Backslash, Backslash, x>>)
<1> DEFINE s == <<Backslash, Backslash, x>>
<1>1. /\ s \in Bytes /\ Len(s) = 3
      /\ s[1] = Backslash /\ s[2] = Backslash /\ s[3] = x
  BY DEF Bytes, Backslash, Byte
<1> HIDE DEF s
<1>2. /\ ~EscapeAt(s)[0]
      /\ EscapeAt(s)[1] <=> s[1] = Backslash /\ ~EscapeAt(s)[1 - 1]
      /\ EscapeAt(s)[2] <=> s[2] = Backslash /\ ~EscapeAt(s)[2 - 1]
      /\ EscapeAt(s)[3] <=> s[3] = Backslash /\ ~EscapeAt(s)[3 - 1]
  <2>1. 1 \in 1..Len(s) /\ 2 \in 1..Len(s) /\ 3 \in 1..Len(s)
    BY <1>1
  <2> QED
    BY <1>1, <2>1, EscapeAtIs
<1>3. EscapeAt(s)[1] /\ ~EscapeAt(s)[2] /\ ~EscapeAt(s)[3]
  BY <1>1, <1>2
<1>4. Backslash \in DOMAIN Meaning
  BY MeaningIs
<1>5. FitsAt(s, 1) /\ FitsAt(s, 2) /\ FitsAt(s, 3)
  BY <1>1, <1>2, <1>3, <1>4 DEF FitsAt, Quote, Backslash
<1>6. \A i \in 1..Len(s) : i = 1 \/ i = 2 \/ i = 3
  BY <1>1
<1>7. IsJsonText(s)
  BY <1>1, <1>5, <1>6, JsonIsFit
<1> QED
  BY <1>7 DEF s

LEMMA EscapedName ==
  ASSUME NEW x \in Byte, x >= 32, x # Quote, x # Backslash,
         NEW y \in Byte, y >= 32, y # Quote, y # Backslash,
         NEW z \in Byte, z >= 32, z # Quote, z # Backslash
  PROVE  IsJsonText(<<Backslash, Backslash, x, y, z>>)
<1> DEFINE s == <<Backslash, Backslash, x, y, z>>
<1>1. /\ s \in Bytes /\ Len(s) = 5
      /\ s[1] = Backslash /\ s[2] = Backslash /\ s[3] = x /\ s[4] = y /\ s[5] = z
  BY DEF Bytes, Backslash, Byte
<1> HIDE DEF s
<1>2. /\ ~EscapeAt(s)[0]
      /\ EscapeAt(s)[1] <=> s[1] = Backslash /\ ~EscapeAt(s)[1 - 1]
      /\ EscapeAt(s)[2] <=> s[2] = Backslash /\ ~EscapeAt(s)[2 - 1]
      /\ EscapeAt(s)[3] <=> s[3] = Backslash /\ ~EscapeAt(s)[3 - 1]
      /\ EscapeAt(s)[4] <=> s[4] = Backslash /\ ~EscapeAt(s)[4 - 1]
      /\ EscapeAt(s)[5] <=> s[5] = Backslash /\ ~EscapeAt(s)[5 - 1]
  <2>1. \A i \in 1..5 : i \in 1..Len(s)
    BY <1>1
  <2> QED
    BY <1>1, <2>1, EscapeAtIs
<1>3. EscapeAt(s)[1] /\ ~EscapeAt(s)[2] /\ ~EscapeAt(s)[3] /\ ~EscapeAt(s)[4] /\ ~EscapeAt(s)[5]
  BY <1>1, <1>2
<1>4. Backslash \in DOMAIN Meaning
  BY MeaningIs
<1>5. FitsAt(s, 1) /\ FitsAt(s, 2) /\ FitsAt(s, 3) /\ FitsAt(s, 4) /\ FitsAt(s, 5)
  BY <1>1, <1>2, <1>3, <1>4 DEF FitsAt, Quote, Backslash
<1>6. \A i \in 1..Len(s) : i = 1 \/ i = 2 \/ i = 3 \/ i = 4 \/ i = 5
  BY <1>1
<1>7. IsJsonText(s)
  BY <1>1, <1>5, <1>6, JsonIsFit
<1> QED
  BY <1>7 DEF s

\* Every escape is JSON, and those that JSON has are read as what they stand for.
LEMMA EscapeIsJson ==
  ASSUME NEW c \in Escaped
  PROVE  /\ IsJsonText(Escape(c))
         /\ c \notin Named => TextOf(Escape(c)) = <<c>>
<1>1. CASE c \in {8, 9, 10, 12, 13, Quote}
  <2>1. \E m \in DOMAIN Meaning : Escape(c) = <<Backslash, m>> /\ Meaning[m] = c
    BY <1>1, MeaningIs DEF Escape, Quote
  <2> QED
    BY <2>1, EscapedCharacter
<1>2. CASE c = 11
  <2>1. Escape(c) = <<Backslash, Backslash, 118>>
    BY <1>2 DEF Escape, Quote
  <2>2. 118 \in Byte /\ 118 >= 32 /\ 118 # Quote /\ 118 # Backslash
    BY DEF Byte, Quote, Backslash
  <2> QED
    BY <2>1, <2>2, <1>2, EscapedBackslash DEF Named
<1>3. CASE c \notin {8, 9, 10, 11, 12, 13, Quote}
  <2>1. Escape(c) = <<Backslash, Backslash, 120, HexDigit(c \div 16), HexDigit(c % 16)>>
    BY <1>3 DEF Escape
  <2>2. c \in 1..31 \/ c = 168
    BY <1>3 DEF Escaped
  <2>3. c \in Named
    BY <1>3, <2>2 DEF Named
  <2>4. c \div 16 \in 0..15 /\ c % 16 \in 0..15
    BY <2>2
  <2> DEFINE y == HexDigit(c \div 16)
             z == HexDigit(c % 16)
  <2>5. y \in (48..57) \cup (97..102) /\ z \in (48..57) \cup (97..102)
    BY <2>4, HexIsSafe
  <2> HIDE DEF y, z
  <2>6. /\ y \in Byte /\ y >= 32 /\ y # Quote /\ y # Backslash
        /\ z \in Byte /\ z >= 32 /\ z # Quote /\ z # Backslash
        /\ 120 \in Byte /\ 120 >= 32 /\ 120 # Quote /\ 120 # Backslash
    BY <2>5 DEF Byte, Quote, Backslash
  <2>7. IsJsonText(<<Backslash, Backslash, 120, y, z>>)
    BY <2>6, EscapedName
  <2> QED
    BY <2>1, <2>3, <2>7 DEF y, z
<1> QED
  BY <1>1, <1>2, <1>3

\* Pieces that are JSON make a text that is.
LEMMA SpreadJson ==
  ASSUME NEW f \in Pieces, NEW t \in Bytes, \A i \in 1..Len(t) : IsJsonText(f[t[i]])
  PROVE  IsJsonText(Spread(f, t))
<1> DEFINE Fine(u) == \A i \in 1..Len(u) : IsJsonText(f[u[i]])
           Good == {u \in Bytes : Fine(u) => IsJsonText(Spread(f, u))}
<1>1. <<>> \in Good
  BY EmptyText, SpreadNothing, NothingIsJson
<1>2. ASSUME NEW u \in Seq(Byte), NEW b \in Byte, u \in Good
      PROVE  Append(u, b) \in Good
  <2> DEFINE v == Append(u, b)
  <2>1. u \in Bytes /\ v \in Bytes
    BY AppendedIsJoined DEF Bytes
  <2>2. /\ Len(u) \in Nat /\ Len(v) = Len(u) + 1
        /\ \A i \in 1..Len(u) : v[i] = u[i]
        /\ v[Len(u) + 1] = b
    BY AppendProperties, LenProperties
  <2>3. ASSUME Fine(v)
        PROVE  IsJsonText(Spread(f, v))
    <3>1. Spread(f, v) = Spread(f, u) \o f[b]
      BY <2>1, SpreadOneMore
    <3> HIDE DEF v
    <3>2. \A i \in 1..Len(v) : IsJsonText(f[v[i]])
      BY <2>3
    <3>3. Fine(u)
      BY <3>2, <2>2
    <3>4. IsJsonText(f[b])
      BY <3>2, <2>2
    <3>5. IsJsonText(Spread(f, u))
      BY <3>3, <1>2
    <3>6. f[b] \in Bytes /\ Spread(f, u) \in Bytes
      BY <2>1, SpreadIsText DEF Pieces
    <3> QED
      BY <3>1, <3>4, <3>5, <3>6, JsonJoined
  <2> QED
    BY <2>1, <2>3
<1>3. Seq(Byte) \subseteq Good
  <2> HIDE DEF Good
  <2> QED
    BY <1>1, <1>2, TextInduction
<1> QED
  BY <1>3 DEF Bytes

\* If each piece is read as the character it stands for, so is the text.
LEMMA SpreadReadBack ==
  ASSUME NEW f \in Pieces, NEW t \in Bytes,
         \A i \in 1..Len(t) : IsJsonText(f[t[i]]) /\ TextOf(f[t[i]]) = <<t[i]>>
  PROVE  TextOf(Spread(f, t)) = t
<1> DEFINE Fine(u) == \A i \in 1..Len(u) : IsJsonText(f[u[i]]) /\ TextOf(f[u[i]]) = <<u[i]>>
           Good == {u \in Bytes : Fine(u) => TextOf(Spread(f, u)) = u}
<1>1. <<>> \in Good
  BY EmptyText, SpreadNothing, NothingIsJson
<1>2. ASSUME NEW u \in Seq(Byte), NEW b \in Byte, u \in Good
      PROVE  Append(u, b) \in Good
  <2> DEFINE v == Append(u, b)
  <2>1. u \in Bytes /\ v \in Bytes /\ v = u \o <<b>>
    BY AppendedIsJoined DEF Bytes
  <2>2. /\ Len(u) \in Nat /\ Len(v) = Len(u) + 1
        /\ \A i \in 1..Len(u) : v[i] = u[i]
        /\ v[Len(u) + 1] = b
    BY AppendProperties, LenProperties
  <2>3. ASSUME Fine(v)
        PROVE  TextOf(Spread(f, v)) = v
    <3>1. Spread(f, v) = Spread(f, u) \o f[b]
      BY <2>1, SpreadOneMore
    <3> HIDE DEF v
    <3>2. \A i \in 1..Len(v) : IsJsonText(f[v[i]]) /\ TextOf(f[v[i]]) = <<v[i]>>
      BY <2>3
    <3>3. Fine(u)
      BY <3>2, <2>2
    <3>4. IsJsonText(f[b]) /\ TextOf(f[b]) = <<b>>
      BY <3>2, <2>2
    <3>5. TextOf(Spread(f, u)) = u
      BY <3>3, <1>2
    <3>6. f[b] \in Bytes /\ Spread(f, u) \in Bytes
      BY <2>1, SpreadIsText DEF Pieces
    <3>7. IsJsonText(Spread(f, u))
      BY <2>1, <3>3, SpreadJson
    <3> QED
      BY <3>1, <3>4, <3>5, <3>6, <3>7, <2>1, TextOfJoined
  <2> QED
    BY <2>1, <2>3
<1>3. Seq(Byte) \subseteq Good
  <2> HIDE DEF Good
  <2> QED
    BY <1>1, <1>2, TextInduction
<1> QED
  BY <1>3 DEF Bytes

\* A text of letters stands for itself.
LEMMA PlainText ==
  ASSUME NEW t \in Bytes,
         \A i \in 1..Len(t) : t[i] >= 32 /\ t[i] # Quote /\ t[i] # Backslash
  PROVE  IsJsonText(t) /\ TextOf(t) = t
<1> DEFINE f == [b \in Byte |-> <<b>>]
<1>1. f \in Pieces
  BY AppendedIsJoined, EmptyText DEF Pieces
<1>2. \A i \in 1..Len(t) : t[i] \in Byte
  BY ElementOfSeq DEF Bytes
<1>3. \A i \in 1..Len(t) : f[t[i]] = <<t[i]>>
  BY <1>2
<1>4. \A i \in 1..Len(t) : IsJsonText(<<t[i]>>) /\ TextOf(<<t[i]>>) = <<t[i]>>
  BY <1>2, PlainCharacter
<1> HIDE DEF f
<1>5. Spread(f, t) = t
  BY <1>1, <1>3, SpreadUnchanged
<1>6. \A i \in 1..Len(t) : IsJsonText(f[t[i]]) /\ TextOf(f[t[i]]) = <<t[i]>>
  BY <1>3, <1>4
<1> QED
  BY <1>1, <1>5, <1>6, SpreadJson, SpreadReadBack

-----------------------------------------------------------------------------
(* A text with its backslashes doubled, and where its characters stand.    *)

Double == Only(Backslash, <<Backslash, Backslash>>)

Doubled(t) == Spread(Double, t)

LEMMA DoubleIs ==
  /\ Double \in Pieces
  /\ Double[Backslash] = <<Backslash, Backslash>>
  /\ \A b \in Byte : b # Backslash => Double[b] = <<b>>
<1>1. Backslash \in Byte /\ <<Backslash, Backslash>> \in Bytes
  BY DEF Backslash, Byte, Bytes
<1>2. Double \in Pieces
  BY <1>1, EmptyText, ReplaceAllIsSpread DEF Double
<1> QED
  BY <1>1, <1>2 DEF Double, Only

\* The first characters of a text.
First(t, k) == SubSeq(t, 1, k)

\* How long they are when their backslashes are doubled.
Size(t, k) == Len(Doubled(First(t, k)))

LEMMA FirstIs ==
  ASSUME NEW t \in Bytes, NEW k \in 0..Len(t)
  PROVE  /\ First(t, k) \in Bytes
         /\ Len(First(t, k)) = k
         /\ \A i \in 1..k : First(t, k)[i] = t[i]
         /\ First(t, 0) = <<>>
         /\ First(t, Len(t)) = t
         /\ Doubled(First(t, k)) \in Bytes
         /\ Size(t, k) \in Nat
<1>0. Len(t) \in Nat /\ \A i \in 1..Len(t) : t[i] \in Byte
  BY LenProperties, ElementOfSeq DEF Bytes
<1>1. /\ First(t, k) \in Bytes
      /\ Len(First(t, k)) = k
      /\ \A i \in 1..k : First(t, k)[i] = t[i]
  <2>1. \A i \in 1..k : t[i] \in Byte
    BY <1>0
  <2>2. /\ SubSeq(t, 1, k) \in Seq(Byte)
        /\ Len(SubSeq(t, 1, k)) = IF 1 <= k THEN k - 1 + 1 ELSE 0
        /\ \A i \in 1..(k - 1 + 1) : SubSeq(t, 1, k)[i] = t[1 + i - 1]
    BY <1>0, <2>1, SubSeqProperties
  <2>3. k - 1 + 1 = k /\ (~(1 <= k) => k = 0) /\ \A i \in 1..k : 1 + i - 1 = i
    BY <1>0
  <2> QED
    BY <2>2, <2>3 DEF First, Bytes
<1>2. First(t, 0) = <<>>
  BY SubSeqEmpty DEF First
<1>3. First(t, Len(t)) = t
  BY SubSeqFull DEF First, Bytes
<1>4. Doubled(First(t, k)) \in Bytes
  BY <1>1, DoubleIs, SpreadIsText DEF Doubled
<1>5. Size(t, k) \in Nat
  BY <1>4, LenProperties DEF Size, Bytes
<1> QED
  BY <1>1, <1>2, <1>3, <1>4, <1>5

\* One character more.
LEMMA FirstOneMore ==
  ASSUME NEW t \in Bytes, NEW k \in Nat, k + 1 <= Len(t)
  PROVE  /\ t[k + 1] \in Byte
         /\ First(t, k + 1) = Append(First(t, k), t[k + 1])
         /\ Doubled(First(t, k + 1)) = Doubled(First(t, k)) \o Double[t[k + 1]]
         /\ Size(t, k + 1) = Size(t, k) + (IF t[k + 1] = Backslash THEN 2 ELSE 1)
<1>0. Len(t) \in Nat /\ \A i \in 1..Len(t) : t[i] \in Byte
  BY LenProperties, ElementOfSeq DEF Bytes
<1> DEFINE c == t[k + 1]
           p == First(t, k)
           q == First(t, k + 1)
           r == Append(p, c)
<1>1. c \in Byte
  BY <1>0
<1>2. p \in Bytes /\ Len(p) = k /\ \A i \in 1..k : p[i] = t[i]
  <2>1. k \in 0..Len(t)
    BY <1>0
  <2> QED
    BY <2>1, FirstIs
<1>3. q \in Bytes /\ Len(q) = k + 1 /\ \A i \in 1..(k + 1) : q[i] = t[i]
  <2>1. k + 1 \in 0..Len(t)
    BY <1>0
  <2> QED
    BY <2>1, FirstIs
<1> HIDE DEF p, q
<1>4. q = r
  <2>1. /\ r \in Seq(Byte) /\ Len(r) = k + 1
        /\ \A i \in 1..k : r[i] = p[i]
        /\ r[k + 1] = c
    BY <1>1, <1>2, AppendProperties DEF Bytes
  <2>2. \A i \in 1..(k + 1) : q[i] = r[i]
    <3> HIDE DEF r
    <3>1. \A i \in 1..(k + 1) : i \in 1..k \/ i = k + 1
      OBVIOUS
    <3> QED
      BY <2>1, <3>1, <1>2, <1>3
  <2> HIDE DEF r
  <2> QED
    BY <2>1, <2>2, <1>3, SeqEqual DEF Bytes
<1>5. Doubled(q) = Doubled(p) \o Double[c]
  BY <1>1, <1>2, <1>4, DoubleIs, SpreadOneMore DEF Doubled
<1>6. Len(Doubled(q)) = Len(Doubled(p)) + (IF c = Backslash THEN 2 ELSE 1)
  <2>1. Doubled(p) \in Bytes /\ Double[c] \in Bytes
    BY <1>1, <1>2, DoubleIs, SpreadIsText DEF Doubled, Pieces
  <2>2. Len(Double[c]) = IF c = Backslash THEN 2 ELSE 1
    <3>1. Len(<<Backslash, Backslash>>) = 2 /\ Len(<<c>>) = 1
      OBVIOUS
    <3> QED
      BY <3>1, <1>1, DoubleIs
  <2>3. Len(Doubled(p) \o Double[c]) = Len(Doubled(p)) + Len(Double[c])
    BY <2>1, Joined
  <2> QED
    BY <2>2, <2>3, <1>5
<1> QED
  BY <1>1, <1>4, <1>5, <1>6 DEF p, q, Size

\* The first characters of a text come first when it is doubled.
LEMMA DoubledFirst ==
  ASSUME NEW t \in Bytes, NEW k \in 0..Len(t)
  PROVE  /\ Doubled(t) \in Bytes
         /\ Size(t, k) <= Len(Doubled(t))
         /\ \A p \in 1..Size(t, k) : Doubled(t)[p] = Doubled(First(t, k))[p]
<1> DEFINE a == First(t, k)
           b == SubSeq(t, k + 1, Len(t))
<1>0. Len(t) \in Nat /\ \A i \in 1..Len(t) : t[i] \in Byte
  BY LenProperties, ElementOfSeq DEF Bytes
<1>1. a \in Bytes
  BY FirstIs
<1>2. b \in Bytes
  <2>1. \A i \in (k + 1)..Len(t) : t[i] \in Byte
    BY <1>0
  <2>2. b \in Seq(Byte)
    BY <1>0, <2>1, SubSeqProperties
  <2> QED
    BY <2>2 DEF Bytes
<1>3. t = a \o b
  <2>1. SubSeq(t, 1, k) \o SubSeq(t, k + 1, Len(t)) = SubSeq(t, 1, Len(t))
    <3>1. 1 \in 1..(Len(t) + 1) /\ k \in (1 - 1)..Len(t) /\ Len(t) \in k..Len(t)
      BY <1>0
    <3>2. t \in Seq(Byte)
      BY DEF Bytes
    <3> QED
      BY <3>1, <3>2, ConcatAdjacentSubSeq
  <2>2. SubSeq(t, 1, Len(t)) = t
    BY SubSeqFull DEF Bytes
  <2> QED
    BY <2>1, <2>2 DEF First
<1> HIDE DEF a, b
<1>4. Doubled(t) = Doubled(a) \o Doubled(b)
  BY <1>1, <1>2, <1>3, DoubleIs, SpreadJoined DEF Doubled
<1>5. Doubled(a) \in Bytes /\ Doubled(b) \in Bytes
  BY <1>1, <1>2, DoubleIs, SpreadIsText DEF Doubled
<1>6. /\ Doubled(t) \in Bytes
      /\ Len(Doubled(a)) <= Len(Doubled(t))
      /\ \A p \in 1..Len(Doubled(a)) : Doubled(t)[p] = Doubled(a)[p]
  BY <1>4, <1>5, Joined
<1> QED
  BY <1>6 DEF a, Size

\* Where the characters come to stand.
LEMMA PlaceIs ==
  ASSUME NEW t \in Bytes
  PROVE  /\ \A k \in 0..Len(t) :
              /\ IsFiniteSet({j \in 1..k : t[j] = Backslash})
              /\ Size(t, k) = k + Cardinality({j \in 1..k : t[j] = Backslash})
         /\ \A i \in 1..Len(t) : Place(t, i) = Size(t, i - 1) + 1
<1> DEFINE Slashes(k) == {j \in 1..k : t[j] = Backslash}
           Good == {k \in Nat : k <= Len(t) =>
                      /\ IsFiniteSet(Slashes(k))
                      /\ Size(t, k) = k + Cardinality(Slashes(k))}
<1>0. Len(t) \in Nat
  BY LenProperties DEF Bytes
<1>1. 0 \in Good
  <2>1. Slashes(0) = {}
    OBVIOUS
  <2>2. IsFiniteSet(Slashes(0)) /\ Cardinality(Slashes(0)) = 0
    BY <2>1, FS_EmptySet
  <2>3. Size(t, 0) = 0
    <3>1. 0 \in 0..Len(t)
      BY <1>0
    <3>2. First(t, 0) = <<>>
      BY <3>1, FirstIs
    <3> QED
      BY <3>2, SpreadNothing, EmptyText DEF Size, Doubled
  <2> QED
    BY <2>2, <2>3
<1>2. ASSUME NEW k \in Nat, k \in Good
      PROVE  k + 1 \in Good
  <2> SUFFICES ASSUME k + 1 <= Len(t)
               PROVE  /\ IsFiniteSet(Slashes(k + 1))
                      /\ Size(t, k + 1) = k + 1 + Cardinality(Slashes(k + 1))
    OBVIOUS
  <2>1. IsFiniteSet(Slashes(k)) /\ Size(t, k) = k + Cardinality(Slashes(k))
    BY <1>0, <1>2
  <2>2. Size(t, k + 1) = Size(t, k) + (IF t[k + 1] = Backslash THEN 2 ELSE 1)
    BY FirstOneMore
  <2>3. Cardinality(Slashes(k)) \in Nat
    BY <2>1, FS_CardinalityType
  <2>4. CASE t[k + 1] = Backslash
    <3>1. Slashes(k + 1) = Slashes(k) \cup {k + 1} /\ k + 1 \notin Slashes(k)
      BY <2>4
    <3> HIDE DEF Slashes
    <3>2. /\ IsFiniteSet(Slashes(k + 1))
          /\ Cardinality(Slashes(k + 1)) = Cardinality(Slashes(k)) + 1
      BY <2>1, <3>1, FS_AddElement
    <3> QED
      BY <2>1, <2>2, <2>3, <2>4, <3>2
  <2>5. CASE t[k + 1] # Backslash
    <3>1. Slashes(k + 1) = Slashes(k)
      BY <2>5
    <3> HIDE DEF Slashes
    <3> QED
      BY <2>1, <2>2, <2>3, <2>5, <3>1
  <2> QED
    BY <2>4, <2>5
<1>3. Nat \subseteq Good
  <2> HIDE DEF Good
  <2> QED
    BY <1>1, <1>2, SetInduction
<1>4. \A k \in 0..Len(t) :
        IsFiniteSet(Slashes(k)) /\ Size(t, k) = k + Cardinality(Slashes(k))
  BY <1>0, <1>3
<1>5. ASSUME NEW i \in 1..Len(t)
      PROVE  Place(t, i) = Size(t, i - 1) + 1
  <2>1. i - 1 \in 0..Len(t)
    BY <1>0
  <2>2. Place(t, i) = i + Cardinality(Slashes(i - 1))
    BY DEF Place
  <2>3. Cardinality(Slashes(i - 1)) \in Nat
    BY <2>1, <1>4, FS_CardinalityType
  <2> HIDE DEF Slashes
  <2> QED
    BY <2>1, <2>2, <2>3, <1>4
<1> QED
  BY <1>4, <1>5

\* What stands in those places.
LEMMA CharactersInPlace ==
  ASSUME NEW t \in Bytes, NEW i \in 1..Len(t)
  PROVE  /\ Place(t, i) \in 1..Size(t, i) /\ Size(t, i) <= Len(Doubled(t))
         /\ Doubled(t)[Place(t, i)] = t[i]
         /\ t[i] # Backslash => Size(t, i) = Place(t, i)
         /\ t[i] = Backslash => Size(t, i) = Place(t, i) + 1 /\ Doubled(t)[Place(t, i) + 1] = Backslash
<1> DEFINE k == i - 1
           a == Doubled(First(t, k))
           c == t[k + 1]
<1>0. Len(t) \in Nat /\ k \in Nat /\ k + 1 = i /\ k + 1 <= Len(t) /\ k \in 0..Len(t) /\ i \in 0..Len(t)
  BY LenProperties DEF Bytes
<1> HIDE DEF k
<1>1. /\ c \in Byte
      /\ Doubled(First(t, k + 1)) = a \o Double[c]
      /\ Size(t, k + 1) = Size(t, k) + (IF c = Backslash THEN 2 ELSE 1)
  BY <1>0, FirstOneMore
<1>2. a \in Bytes /\ Double[c] \in Bytes /\ Size(t, k) = Len(a) /\ Size(t, k) \in Nat
  BY <1>0, <1>1, FirstIs, DoubleIs DEF Size, Pieces
<1>3. Place(t, i) = Len(a) + 1
  BY <1>0, <1>2, PlaceIs DEF k
<1>4. /\ Size(t, i) <= Len(Doubled(t))
      /\ \A p \in 1..Size(t, i) : Doubled(t)[p] = (a \o Double[c])[p]
  BY <1>0, <1>1, DoubledFirst
<1> HIDE DEF a, c
<1>5. CASE c = Backslash
  <2>1. Double[c] = <<Backslash, Backslash>>
    BY <1>5, DoubleIs
  <2>2. Len(Double[c]) = 2 /\ Double[c][1] = Backslash /\ Double[c][2] = Backslash
    BY <2>1
  <2>3. (a \o Double[c])[Len(a) + 1] = Double[c][1] /\ (a \o Double[c])[Len(a) + 2] = Double[c][2]
    BY <1>2, <2>2, JoinedPair
  <2>4. Size(t, i) = Len(a) + 2 /\ Len(a) + 1 \in 1..Size(t, i) /\ Len(a) + 2 \in 1..Size(t, i)
    BY <1>0, <1>1, <1>2, <1>5
  <2>5. Doubled(t)[Len(a) + 1] = Backslash /\ Doubled(t)[Len(a) + 2] = Backslash
    BY <1>4, <2>2, <2>3, <2>4
  <2>6. t[i] = Backslash
    BY <1>0, <1>5 DEF c
  <2>7. (Len(a) + 1) + 1 = Len(a) + 2
    BY <1>2
  <2> QED
    BY <1>2, <1>3, <1>4, <2>4, <2>5, <2>6, <2>7
<1>6. CASE c # Backslash
  <2>1. Double[c] = <<c>>
    BY <1>1, <1>6, DoubleIs
  <2>2. Len(Double[c]) = 1 /\ Double[c][1] = c
    BY <2>1
  <2>3. (a \o Double[c])[Len(a) + 1] = Double[c][1]
    <3>1. 1 \in 1..Len(Double[c])
      BY <2>2
    <3>2. \A j \in 1..Len(Double[c]) : (a \o Double[c])[Len(a) + j] = Double[c][j]
      BY <1>2, Joined
    <3> QED
      BY <3>1, <3>2
  <2>4. Size(t, i) = Len(a) + 1 /\ Len(a) + 1 \in 1..Size(t, i)
    BY <1>0, <1>1, <1>2, <1>6
  <2>5. Doubled(t)[Len(a) + 1] = c
    BY <1>4, <2>2, <2>3, <2>4
  <2>6. t[i] = c
    BY <1>0 DEF c
  <2> QED
    BY <1>3, <1>4, <1>6, <2>4, <2>5, <2>6
<1> QED
  BY <1>5, <1>6

\* Nothing else stands there.
LEMMA PlacesAreAll ==
  ASSUME NEW t \in Bytes, NEW p \in 1..Len(Doubled(t))
  PROVE  \E i \in 1..Len(t) : p = Place(t, i) \/ (t[i] = Backslash /\ p = Place(t, i) + 1)
<1> DEFINE In(i) == p = Place(t, i) \/ (t[i] = Backslash /\ p = Place(t, i) + 1)
           Good == {k \in Nat : k <= Len(t) /\ p <= Size(t, k) => \E i \in 1..Len(t) : In(i)}
<1>0. Len(t) \in Nat /\ Len(Doubled(t)) \in Nat
  <2>1. Doubled(t) \in Bytes
    BY DoubleIs, SpreadIsText DEF Doubled
  <2> QED
    BY <2>1, LenProperties DEF Bytes
<1>1. 0 \in Good
  <2>1. 0 \in 0..Len(t)
    BY <1>0
  <2>2. Size(t, 0) = 0
    BY <2>1, FirstIs, SpreadNothing, EmptyText DEF Size, Doubled
  <2> QED
    BY <2>2
<1>2. ASSUME NEW k \in Nat, k \in Good
      PROVE  k + 1 \in Good
  <2> SUFFICES ASSUME k + 1 <= Len(t), p <= Size(t, k + 1)
               PROVE  \E i \in 1..Len(t) : In(i)
    OBVIOUS
  <2>1. CASE p <= Size(t, k)
    BY <2>1, <1>0, <1>2
  <2>2. CASE ~(p <= Size(t, k))
    <3> DEFINE j == k + 1
    <3>1. j \in 1..Len(t) /\ j - 1 = k /\ k \in 0..Len(t)
      BY <1>0
    <3> HIDE DEF j
    <3>2. Size(t, j) = Size(t, k) + (IF t[j] = Backslash THEN 2 ELSE 1)
      BY FirstOneMore DEF j
    <3>3. Place(t, j) = Size(t, k) + 1 /\ Size(t, k) \in Nat
      BY <3>1, PlaceIs, FirstIs
    <3>4. p <= Size(t, j)
      BY DEF j
    <3>5. p \in Nat
      BY <1>0
    <3>6. CASE t[j] = Backslash
      <4>1. Size(t, j) = Size(t, k) + 2
        BY <3>2, <3>6
      <4>2. p = Size(t, k) + 1 \/ p = Size(t, k) + 1 + 1
        BY <2>2, <3>3, <3>4, <3>5, <4>1
      <4> QED
        BY <3>1, <3>3, <3>6, <4>2
    <3>7. CASE t[j] # Backslash
      <4>1. Size(t, j) = Size(t, k) + 1
        BY <3>2, <3>7
      <4>2. p = Size(t, k) + 1
        BY <2>2, <3>3, <3>4, <3>5, <4>1
      <4> QED
        BY <3>1, <3>3, <4>2
    <3> QED
      BY <3>6, <3>7
  <2> QED
    BY <2>1, <2>2
<1>3. Nat \subseteq Good
  <2> HIDE DEF Good
  <2> QED
    BY <1>1, <1>2, SetInduction
<1>4. Len(t) \in 0..Len(t) /\ First(t, Len(t)) = t
  <2>1. Len(t) \in 0..Len(t)
    BY <1>0
  <2> QED
    BY <2>1, FirstIs
<1>5. p <= Size(t, Len(t))
  BY <1>4 DEF Size
<1> QED
  BY <1>0, <1>3, <1>5

-----------------------------------------------------------------------------
(* What Sanitize makes of the characters of a text, one by one.            *)

\* Of a text of which no zero is replaced.
PlainPiece == Then(Double, EscapeEach)

\* Of one of which those that are left all are.
ZeroesOut == Only(Nul, <<Backslash, Backslash, Digit0>>)

ZeroedPiece == Then(Then(Double, ZeroesOut), EscapeEach)

LEMMA EscapeEachIs ==
  /\ EscapeEach \in Pieces
  /\ EscapeEach \in [Byte -> Seq(Byte \ {168})]
  /\ \A b \in Escaped : EscapeEach[b] = Escape(b)
  /\ \A b \in Byte \ Escaped : EscapeEach[b] = <<b>>
<1> DEFINE C == Byte \ {168}
<1>1. \A b \in Escaped : b \in Byte
  BY DEF Escaped, Byte, Quote
<1>2. ASSUME NEW b \in Escaped
      PROVE  Escape(b) \in Seq(C)
  <2> DEFINE K == (32..255) \ {168}
  <2>1. Escape(b) \in Seq(K)
    BY EscapeIsSafe
  <2>2. K \subseteq C
    BY DEF Byte
  <2> HIDE DEF K, C
  <2> QED
    BY <2>1, <2>2, SeqMonotonic
<1>3. ASSUME NEW b \in Byte \ Escaped
      PROVE  <<b>> \in Seq(C)
  <2>1. b \in C
    BY DEF Escaped
  <2> QED
    BY <2>1
<1>4. EscapeEach \in [Byte -> Seq(C)]
  BY <1>2, <1>3 DEF EscapeEach
<1>5. C \subseteq Byte /\ <<>> \in Bytes
  BY EmptyText
<1>6. EscapeEach \in Pieces
  BY <1>4, <1>5, SpreadOfKind
<1> QED
  BY <1>1, <1>4, <1>6 DEF EscapeEach

LEMMA ZeroesOutIs ==
  /\ ZeroesOut \in Pieces
  /\ ZeroesOut[Nul] = <<Backslash, Backslash, Digit0>>
  /\ \A b \in Byte \ {Nul} : ZeroesOut[b] = <<b>>
<1>1. Nul \in Byte /\ <<Backslash, Backslash, Digit0>> \in Bytes
  BY DEF Nul, Backslash, Digit0, Byte, Bytes
<1>2. ZeroesOut \in Pieces
  BY <1>1, EmptyText, ReplaceAllIsSpread DEF ZeroesOut
<1> QED
  BY <1>1, <1>2 DEF ZeroesOut, Only

\* The two backslashes and the name of zero are not replaced again.
LEMMA NotReplacedAgain ==
  /\ <<Backslash, Backslash>> \in Bytes /\ <<Backslash, Backslash, Digit0>> \in Bytes
  /\ <<Backslash>> \in Bytes
  /\ Spread(EscapeEach, <<Backslash, Backslash>>) = <<Backslash, Backslash>>
  /\ Spread(EscapeEach, <<Backslash, Backslash, Digit0>>) = <<Backslash, Backslash, Digit0>>
  /\ Spread(EscapeEach, <<Backslash>>) = <<Backslash>>
  /\ Spread(ZeroesOut, <<Backslash, Backslash>>) = <<Backslash, Backslash>>
  /\ Spread(ZeroesOut, <<Backslash>>) = <<Backslash>>
<1> DEFINE one   == <<Backslash>>
           two   == <<Backslash, Backslash>>
           three == <<Backslash, Backslash, Digit0>>
<1>1. /\ Backslash \in Byte \ Escaped /\ Digit0 \in Byte \ Escaped
      /\ Backslash \in Byte \ {Nul}
  BY DEF Backslash, Digit0, Byte, Escaped, Quote, Nul
<1>2. /\ one \in Bytes /\ Len(one) = 1 /\ one[1] = Backslash
      /\ two \in Bytes /\ Len(two) = 2 /\ two[1] = Backslash /\ two[2] = Backslash
      /\ three \in Bytes /\ Len(three) = 3
      /\ three[1] = Backslash /\ three[2] = Backslash /\ three[3] = Digit0
  BY <1>1 DEF Bytes
<1> HIDE DEF one, two, three
<1>3. /\ \A i \in 1..Len(one) : one[i] = Backslash
      /\ \A i \in 1..Len(two) : two[i] = Backslash
      /\ \A i \in 1..Len(three) : three[i] = Backslash \/ three[i] = Digit0
  <2>1. /\ \A i \in 1..Len(one) : i = 1
        /\ \A i \in 1..Len(two) : i = 1 \/ i = 2
        /\ \A i \in 1..Len(three) : i = 1 \/ i = 2 \/ i = 3
    BY <1>2
  <2> QED
    BY <2>1, <1>2
<1>4. /\ EscapeEach \in Pieces /\ ZeroesOut \in Pieces
      /\ EscapeEach[Backslash] = <<Backslash>> /\ EscapeEach[Digit0] = <<Digit0>>
      /\ ZeroesOut[Backslash] = <<Backslash>>
  BY <1>1, EscapeEachIs, ZeroesOutIs
<1>5. Spread(EscapeEach, one) = one
  BY <1>2, <1>3, <1>4, SpreadUnchanged
<1>6. Spread(EscapeEach, two) = two
  BY <1>2, <1>3, <1>4, SpreadUnchanged
<1>7. Spread(EscapeEach, three) = three
  <2>1. \A i \in 1..Len(three) : EscapeEach[three[i]] = <<three[i]>>
    BY <1>3, <1>4
  <2> QED
    BY <1>2, <1>4, <2>1, SpreadUnchanged
<1>8. Spread(ZeroesOut, one) = one
  BY <1>2, <1>3, <1>4, SpreadUnchanged
<1>9. Spread(ZeroesOut, two) = two
  BY <1>2, <1>3, <1>4, SpreadUnchanged
<1> QED
  BY <1>2, <1>5, <1>6, <1>7, <1>8, <1>9 DEF one, two, three

LEMMA PlainPieceIs ==
  /\ PlainPiece \in Pieces
  /\ PlainPiece[Backslash] = <<Backslash, Backslash>>
  /\ \A b \in Byte \ {Backslash} : PlainPiece[b] = EscapeEach[b]
<1>1. Double \in Pieces /\ EscapeEach \in Pieces
  BY DoubleIs, EscapeEachIs
<1>2. PlainPiece \in Pieces
  BY <1>1, ThenIsPieces DEF PlainPiece
<1>3. \A b \in Byte : PlainPiece[b] = Spread(EscapeEach, Double[b])
  BY DEF PlainPiece, Then
<1>4. PlainPiece[Backslash] = <<Backslash, Backslash>>
  <2>1. Backslash \in Byte
    BY DEF Backslash, Byte
  <2> QED
    BY <2>1, <1>3, DoubleIs, NotReplacedAgain
<1>5. ASSUME NEW b \in Byte \ {Backslash}
      PROVE  PlainPiece[b] = EscapeEach[b]
  <2>1. Double[b] = <<b>>
    BY DoubleIs
  <2> QED
    BY <2>1, <1>1, <1>3, SpreadOne
<1> QED
  BY <1>2, <1>4, <1>5

LEMMA ZeroedPieceIs ==
  /\ ZeroedPiece \in Pieces
  /\ ZeroedPiece[Nul] = <<Backslash, Backslash, Digit0>>
  /\ \A b \in Byte \ {Nul} : ZeroedPiece[b] = PlainPiece[b]
<1>1. Double \in Pieces /\ ZeroesOut \in Pieces /\ EscapeEach \in Pieces
  BY DoubleIs, ZeroesOutIs, EscapeEachIs
<1>2. Then(Double, ZeroesOut) \in Pieces
  BY <1>1, ThenIsPieces
<1>3. ZeroedPiece \in Pieces
  BY <1>1, <1>2, ThenIsPieces DEF ZeroedPiece
<1>4. \A b \in Byte : ZeroedPiece[b] = Spread(EscapeEach, Spread(ZeroesOut, Double[b]))
  BY DEF ZeroedPiece, Then
<1>5. ZeroedPiece[Nul] = <<Backslash, Backslash, Digit0>>
  <2>1. Nul \in Byte /\ Nul # Backslash
    BY DEF Nul, Backslash, Byte
  <2>2. Double[Nul] = <<Nul>>
    BY <2>1, DoubleIs
  <2>3. Spread(ZeroesOut, <<Nul>>) = <<Backslash, Backslash, Digit0>>
    BY <2>1, <1>1, ZeroesOutIs, SpreadOne
  <2> QED
    BY <2>1, <2>2, <2>3, <1>4, NotReplacedAgain
<1>6. ASSUME NEW b \in Byte \ {Nul}
      PROVE  ZeroedPiece[b] = PlainPiece[b]
  <2>1. PlainPiece[b] = Spread(EscapeEach, Double[b])
    BY DEF PlainPiece, Then
  <2>2. Spread(ZeroesOut, Double[b]) = Double[b]
    <3>1. CASE b = Backslash
      BY <3>1, DoubleIs, NotReplacedAgain
    <3>2. CASE b # Backslash
      <4>1. Double[b] = <<b>>
        BY <3>2, DoubleIs
      <4>2. Spread(ZeroesOut, <<b>>) = <<b>>
        BY <1>1, ZeroesOutIs, SpreadOne
      <4> QED
        BY <4>1, <4>2
    <3> QED
      BY <3>1, <3>2
  <2> QED
    BY <2>1, <2>2, <1>4
<1> QED
  BY <1>3, <1>5, <1>6

\* What is written for a character is JSON and, unless it is only a name,
\* stands for the character.  A zero that is not replaced is not JSON.
LEMMA PieceIsJson ==
  /\ \A b \in Byte \ {Nul} :
       /\ IsJsonText(PlainPiece[b])
       /\ b \notin Named => TextOf(PlainPiece[b]) = <<b>>
  /\ \A b \in Byte : IsJsonText(ZeroedPiece[b])
  /\ PlainPiece[Nul] = <<Nul>>
<1>1. ASSUME NEW b \in Byte \ {Nul}
      PROVE  /\ IsJsonText(PlainPiece[b])
             /\ b \notin Named => TextOf(PlainPiece[b]) = <<b>>
  <2>1. CASE b = Backslash
    <3>1. Backslash \in DOMAIN Meaning /\ Meaning[Backslash] = Backslash
      BY MeaningIs
    <3>2. /\ IsJsonText(<<Backslash, Backslash>>)
          /\ TextOf(<<Backslash, Backslash>>) = <<Backslash>>
      BY <3>1, EscapedCharacter
    <3> QED
      BY <2>1, <3>2, PlainPieceIs
  <2>2. CASE b \in Escaped
    <3>1. b # Backslash
      BY <2>2 DEF Escaped, Backslash, Quote
    <3>2. PlainPiece[b] = Escape(b)
      BY <2>2, <3>1, PlainPieceIs, EscapeEachIs
    <3> QED
      BY <2>2, <3>2, EscapeIsJson
  <2>3. CASE b # Backslash /\ b \notin Escaped
    <3>1. PlainPiece[b] = <<b>>
      BY <2>3, PlainPieceIs, EscapeEachIs
    <3>2. b >= 32 /\ b # Quote
      BY <2>3 DEF Escaped, Byte, Nul
    <3>3. IsJsonText(<<b>>) /\ TextOf(<<b>>) = <<b>>
      BY <2>3, <3>2, PlainCharacter
    <3> QED
      BY <3>1, <3>3
  <2> QED
    BY <2>1, <2>2, <2>3
<1>2. IsJsonText(ZeroedPiece[Nul])
  <2>1. /\ Digit0 \in Byte /\ Digit0 >= 32 /\ Digit0 # Quote /\ Digit0 # Backslash
    BY DEF Digit0, Byte, Quote, Backslash
  <2>2. IsJsonText(<<Backslash, Backslash, Digit0>>)
    BY <2>1, EscapedBackslash
  <2> QED
    BY <2>2, ZeroedPieceIs
<1>3. \A b \in Byte : IsJsonText(ZeroedPiece[b])
  BY <1>1, <1>2, ZeroedPieceIs
<1>4. PlainPiece[Nul] = <<Nul>>
  <2>1. Nul \in Byte /\ Nul # Backslash /\ Nul \notin Escaped
    BY DEF Nul, Backslash, Byte, Escaped, Quote
  <2> QED
    BY <2>1, PlainPieceIs, EscapeEachIs
<1> QED
  BY <1>1, <1>3, <1>4

\* What a piece holds, the text does.
LEMMA SpreadHolds ==
  ASSUME NEW f \in Pieces, NEW t \in Bytes, NEW c,
         \E i \in 1..Len(t) : f[t[i]] = <<c>>
  PROVE  \E p \in 1..Len(Spread(f, t)) : Spread(f, t)[p] = c
<1> DEFINE Has(u) == \E p \in 1..Len(u) : u[p] = c
           Some(u) == \E i \in 1..Len(u) : f[u[i]] = <<c>>
           Good == {u \in Bytes : Some(u) => Has(Spread(f, u))}
<1>1. <<>> \in Good
  BY EmptyText
<1>2. ASSUME NEW u \in Seq(Byte), NEW b \in Byte, u \in Good
      PROVE  Append(u, b) \in Good
  <2> DEFINE v == Append(u, b)
  <2>1. u \in Bytes /\ v \in Bytes
    BY AppendedIsJoined DEF Bytes
  <2>2. /\ Len(u) \in Nat /\ Len(v) = Len(u) + 1
        /\ \A i \in 1..Len(u) : v[i] = u[i]
        /\ v[Len(u) + 1] = b
    BY AppendProperties, LenProperties
  <2>3. ASSUME Some(v)
        PROVE  Has(Spread(f, v))
    <3> DEFINE a == Spread(f, u)
    <3>1. Spread(f, v) = a \o f[b] /\ a \in Bytes /\ f[b] \in Bytes
      BY <2>1, SpreadOneMore, SpreadIsText DEF Pieces
    <3>2. PICK i \in 1..Len(v) : f[v[i]] = <<c>>
      BY <2>3
    <3> HIDE DEF v, a
    <3>3. /\ Len(a \o f[b]) = Len(a) + Len(f[b])
          /\ Len(a) \in Nat /\ Len(f[b]) \in Nat
          /\ \A p \in 1..Len(a) : (a \o f[b])[p] = a[p]
          /\ \A p \in 1..Len(f[b]) : (a \o f[b])[Len(a) + p] = f[b][p]
      BY <3>1, Joined
    <3>4. CASE i \in 1..Len(u)
      <4>1. Some(u)
        BY <3>2, <3>4, <2>2
      <4>2. PICK p \in 1..Len(a) : a[p] = c
        BY <4>1, <1>2 DEF a
      <4>3. p \in 1..Len(a \o f[b]) /\ (a \o f[b])[p] = c
        BY <3>3, <4>2
      <4> QED
        BY <3>1, <4>3
    <3>5. CASE i = Len(u) + 1
      <4>1. f[b] = <<c>>
        BY <3>2, <3>5, <2>2
      <4>2. Len(f[b]) = 1 /\ f[b][1] = c
        BY <4>1
      <4>3. 1 \in 1..Len(f[b])
        BY <4>2
      <4>4. (a \o f[b])[Len(a) + 1] = c
        BY <3>3, <4>2, <4>3
      <4>5. Len(a) + 1 \in 1..Len(a \o f[b])
        BY <3>3, <4>2
      <4> QED
        BY <3>1, <4>4, <4>5
    <3> QED
      BY <3>4, <3>5, <2>2
  <2> QED
    BY <2>1, <2>3
<1>3. Seq(Byte) \subseteq Good
  <2> HIDE DEF Good
  <2> QED
    BY <1>1, <1>2, TextInduction
<1> QED
  BY <1>3 DEF Bytes

-----------------------------------------------------------------------------
(* Sanitize: the text with its pieces, whole or cut.                       *)

\* The second call of ReplaceChar goes by the zeroes that are still within
\* the length the text had.
LEMMA ZeroIsSeen ==
  ASSUME NEW t \in Bytes
  PROVE  /\ Doubled(t) \in Bytes /\ Len(t) <= Len(Doubled(t))
         /\ (\E p \in 1..Len(t) : Doubled(t)[p] = Nul) <=> ZeroesSeen(t) # {}
<1>0. Len(t) \in Nat /\ DOMAIN t = 1..Len(t)
  BY LenProperties DEF Bytes
<1>1. Doubled(t) \in Bytes
  BY DoubleIs, SpreadIsText DEF Doubled
<1>2. Len(t) <= Len(Doubled(t))
  <2> DEFINE n == Len(t)
             c == Cardinality({j \in 1..n : t[j] = Backslash})
  <2>1. n \in 0..Len(t) /\ First(t, n) = t
    <3>1. n \in 0..Len(t)
      BY <1>0
    <3> QED
      BY <3>1, FirstIs
  <2>2. IsFiniteSet({j \in 1..n : t[j] = Backslash}) /\ Size(t, n) = n + c
    BY <2>1, PlaceIs
  <2>3. c \in Nat
    BY <2>2, FS_CardinalityType
  <2>4. Size(t, n) = Len(Doubled(t))
    BY <2>1 DEF Size
  <2> HIDE DEF c
  <2> QED
    BY <2>2, <2>3, <2>4, <1>0
<1>3. ASSUME NEW p \in 1..Len(t), Doubled(t)[p] = Nul
      PROVE  ZeroesSeen(t) # {}
  <2>1. p \in 1..Len(Doubled(t))
    BY <1>0, <1>1, <1>2, LenProperties DEF Bytes
  <2>2. PICK i \in 1..Len(t) : p = Place(t, i) \/ (t[i] = Backslash /\ p = Place(t, i) + 1)
    BY <2>1, PlacesAreAll
  <2>3. /\ Doubled(t)[Place(t, i)] = t[i]
        /\ t[i] = Backslash => Doubled(t)[Place(t, i) + 1] = Backslash
    BY CharactersInPlace
  <2>4. p = Place(t, i) /\ t[i] = Nul
    BY <1>3, <2>2, <2>3 DEF Nul, Backslash
  <2>5. i \in ZeroesSeen(t)
    BY <1>0, <2>4 DEF ZeroesSeen
  <2> QED
    BY <2>5
<1>4. ASSUME ZeroesSeen(t) # {}
      PROVE  \E p \in 1..Len(t) : Doubled(t)[p] = Nul
  <2>1. PICK i \in 1..Len(t) : t[i] = Nul /\ Place(t, i) <= Len(t)
    BY <1>0, <1>4 DEF ZeroesSeen
  <2>2. Place(t, i) \in 1..Size(t, i) /\ Doubled(t)[Place(t, i)] = t[i]
    BY CharactersInPlace
  <2>3. Place(t, i) \in 1..Len(t)
    BY <1>0, <2>1, <2>2
  <2> QED
    BY <2>1, <2>2, <2>3
<1> QED
  BY <1>1, <1>2, <1>3, <1>4

LEMMA ReplaceCharIs ==
  ASSUME NEW t \in Bytes, NEW c \in Byte, NEW dest \in Bytes, NEW n \in 0..Len(t)
  PROVE  ReplaceChar(t, c, dest, n) =
           IF \E p \in 1..n : t[p] = c THEN Spread(Only(c, dest), First(t, n)) ELSE t
<1> DEFINE s == SubSeq(t, 1, n)
<1>1. s = First(t, n)
  BY DEF First
<1> HIDE DEF s
<1>2. s \in Bytes /\ Len(s) = n /\ \A i \in 1..n : s[i] = t[i]
  BY <1>1, FirstIs
<1>3. Seqs!ToSet(s) = {s[i] : i \in 1..n}
  BY <1>2, LenProperties DEF Seqs!ToSet, Bytes
<1>4. c \in Seqs!ToSet(s) <=> \E p \in 1..n : t[p] = c
  BY <1>2, <1>3
<1>5. ReplaceAll(s, c, dest) = Spread(Only(c, dest), s)
  BY <1>2, ReplaceAllIsSpread
<1> QED
  BY <1>1, <1>4, <1>5 DEF ReplaceChar, s

LEMMA SlashesAreDoubled ==
  ASSUME NEW t \in Bytes
  PROVE  ReplaceChar(t, Backslash, <<Backslash, Backslash>>, Len(t)) = Doubled(t)
<1>0. /\ Len(t) \in 0..Len(t) /\ \A i \in 1..Len(t) : t[i] \in Byte
  BY LenProperties, ElementOfSeq DEF Bytes
<1>1. Backslash \in Byte /\ <<Backslash, Backslash>> \in Bytes
  BY NotReplacedAgain DEF Backslash, Byte
<1>2. ReplaceChar(t, Backslash, <<Backslash, Backslash>>, Len(t)) =
        IF \E p \in 1..Len(t) : t[p] = Backslash THEN Spread(Double, First(t, Len(t))) ELSE t
  BY <1>0, <1>1, ReplaceCharIs DEF Double
<1>3. First(t, Len(t)) = t
  BY <1>0, FirstIs
<1>4. CASE \E p \in 1..Len(t) : t[p] = Backslash
  BY <1>2, <1>3, <1>4 DEF Doubled
<1>5. CASE ~ \E p \in 1..Len(t) : t[p] = Backslash
  <2>1. \A i \in 1..Len(t) : Double[t[i]] = <<t[i]>>
    BY <1>0, <1>5, DoubleIs
  <2>2. Spread(Double, t) = t
    BY <2>1, DoubleIs, SpreadUnchanged
  <2> QED
    BY <1>2, <1>5, <2>2 DEF Doubled
<1> QED
  BY <1>4, <1>5

\* What a text is cut to when it ends at the length it had: characters, and
\* perhaps the first of the two backslashes of the next.
LEMMA CutIs ==
  ASSUME NEW t \in Bytes, Len(t) # 0
  PROVE  \E k \in 0..Len(t) :
           First(Doubled(t), Len(t)) =
             IF \E i \in 1..Len(t) : t[i] = Backslash /\ Place(t, i) = Len(t)
             THEN Doubled(First(t, k)) \o <<Backslash>> ELSE Doubled(First(t, k))
<1> DEFINE n == Len(t)
           d == Doubled(t)
           Cut == \E i \in 1..n : t[i] = Backslash /\ Place(t, i) = n
<1>0. /\ n \in Nat /\ n # 0 /\ d \in Bytes /\ Len(d) \in Nat /\ n <= Len(d)
  BY ZeroIsSeen, LenProperties DEF Bytes
<1> HIDE DEF d
<1>1. /\ First(d, n) \in Bytes /\ Len(First(d, n)) = n
      /\ \A p \in 1..n : First(d, n)[p] = d[p]
  BY <1>0, FirstIs
<1>2. ASSUME NEW k \in 0..n, Size(t, k) = n
      PROVE  First(d, n) = Doubled(First(t, k))
  <2> DEFINE a == Doubled(First(t, k))
  <2>1. a \in Bytes /\ Len(a) = n
    BY <1>2, FirstIs DEF Size
  <2>2. \A p \in 1..n : d[p] = a[p]
    BY <1>2, DoubledFirst DEF d
  <2> HIDE DEF a
  <2>3. \A p \in 1..n : First(d, n)[p] = a[p]
    BY <1>1, <2>2
  <2>4. First(d, n) = a
    BY <1>1, <2>1, <2>3, SeqEqual DEF Bytes
  <2> QED
    BY <2>4 DEF a
<1>3. CASE Cut
  <2>1. PICK i \in 1..n : t[i] = Backslash /\ Place(t, i) = n
    BY <1>3
  <2> DEFINE k == i - 1
             a == Doubled(First(t, k))
             b == Append(a, Backslash)
  <2>2. k \in 0..n
    BY <1>0
  <2>3. Size(t, k) + 1 = n /\ Size(t, k) \in Nat
    BY <2>1, <2>2, PlaceIs, FirstIs
  <2> HIDE DEF k
  <2>4. a \in Bytes /\ Len(a) + 1 = n /\ Len(a) \in Nat
    BY <2>2, <2>3, FirstIs DEF Size
  <2>5. \A p \in 1..Len(a) : d[p] = a[p]
    BY <2>2, DoubledFirst DEF d, Size
  <2>6. d[n] = Backslash
    BY <2>1, CharactersInPlace DEF d
  <2> HIDE DEF a
  <2>7. Backslash \in Byte
    BY DEF Backslash, Byte
  <2>8. /\ b \in Bytes /\ Len(b) = Len(a) + 1
        /\ \A p \in 1..Len(a) : b[p] = a[p]
        /\ b[Len(a) + 1] = Backslash
    BY <2>4, <2>7, AppendProperties DEF Bytes
  <2>9. b = a \o <<Backslash>>
    BY <2>4, <2>7, AppendedIsJoined
  <2> HIDE DEF b
  <2>10. \A p \in 1..n : First(d, n)[p] = b[p]
    <3>1. \A p \in 1..n : p \in 1..Len(a) \/ p = Len(a) + 1
      BY <2>4
    <3>2. Len(a) + 1 = n /\ n \in 1..n
      BY <2>4, <1>0
    <3> QED
      BY <3>1, <3>2, <1>1, <2>5, <2>6, <2>8
  <2>11. Len(b) = n
    BY <2>4, <2>8
  <2>12. First(d, n) = b
    BY <1>1, <2>8, <2>10, <2>11, SeqEqual DEF Bytes
  <2> QED
    BY <1>3, <2>2, <2>9, <2>12 DEF a, d
<1>4. CASE ~Cut
  <2>1. n \in 1..Len(d)
    BY <1>0
  <2>2. PICK i \in 1..n : n = Place(t, i) \/ (t[i] = Backslash /\ n = Place(t, i) + 1)
    BY <2>1, PlacesAreAll DEF d
  <2>3. /\ t[i] # Backslash => Size(t, i) = Place(t, i)
        /\ t[i] = Backslash => Size(t, i) = Place(t, i) + 1
    BY CharactersInPlace
  <2>4. Size(t, i) = n
    BY <1>4, <2>2, <2>3
  <2>5. i \in 0..n
    BY <1>0
  <2>6. First(d, n) = Doubled(First(t, i))
    BY <1>2, <2>4, <2>5
  <2> QED
    BY <1>4, <2>5, <2>6 DEF d
<1> QED
  BY <1>3, <1>4

\* A text whose zeroes have all moved out of its length is written with them;
\* else all it has kept is written, and behind it a backslash that is alone if
\* it was cut between the two of a pair.
LEMMA SanitizeIs ==
  ASSUME NEW t \in Bytes
  PROVE  IF ZeroesSeen(t) = {} THEN Sanitize(t, Len(t)) = Spread(PlainPiece, t)
         ELSE \E k \in 0..Len(t) :
                Sanitize(t, Len(t)) =
                  IF CutInEscape(t) THEN Spread(ZeroedPiece, First(t, k)) \o <<Backslash>>
                  ELSE Spread(ZeroedPiece, First(t, k))
<1> DEFINE n == Len(t)
           d == Doubled(t)
           z == ReplaceChar(d, Nul, <<Backslash, Backslash, Digit0>>, n)
<1>0. /\ n \in Nat /\ DOMAIN t = 1..n /\ d \in Bytes /\ Len(d) \in Nat /\ n <= Len(d)
  BY ZeroIsSeen, LenProperties DEF Bytes
<1>1. Sanitize(t, n) = EscapeAll(z)
  BY SlashesAreDoubled DEF Sanitize
<1>2. z = IF ZeroesSeen(t) # {} THEN Spread(ZeroesOut, First(d, n)) ELSE d
  <2>1. n \in 0..Len(d) /\ Nul \in Byte /\ <<Backslash, Backslash, Digit0>> \in Bytes
    BY <1>0, NotReplacedAgain DEF Nul, Byte
  <2> HIDE DEF d
  <2>2. z = IF \E p \in 1..n : d[p] = Nul THEN Spread(ZeroesOut, First(d, n)) ELSE d
    BY <1>0, <2>1, ReplaceCharIs DEF ZeroesOut
  <2>3. (\E p \in 1..n : d[p] = Nul) <=> ZeroesSeen(t) # {}
    BY ZeroIsSeen DEF d
  <2> HIDE DEF z
  <2> QED
    BY <2>2, <2>3
<1> HIDE DEF z
<1>3. /\ Double \in Pieces /\ EscapeEach \in Pieces /\ ZeroesOut \in Pieces
      /\ Then(Double, ZeroesOut) \in Pieces
  BY DoubleIs, EscapeEachIs, ZeroesOutIs, ThenIsPieces
<1>4. CASE ZeroesSeen(t) = {}
  <2>1. EscapeAll(d) = Spread(EscapeEach, Spread(Double, t))
    BY <1>0, EscapeAllIsSpread DEF Doubled
  <2>2. Spread(EscapeEach, Spread(Double, t)) = Spread(PlainPiece, t)
    BY <1>3, SpreadTwice DEF PlainPiece
  <2> QED
    BY <1>1, <1>2, <1>4, <2>1, <2>2
<1>5. CASE ZeroesSeen(t) # {}
  <2>1. n # 0
    BY <1>0, <1>5 DEF ZeroesSeen
  <2>2. CutInEscape(t) <=> \E i \in 1..n : t[i] = Backslash /\ Place(t, i) = n
    BY <1>0, <1>5 DEF CutInEscape
  <2>3. PICK k \in 0..n :
          First(d, n) = IF \E i \in 1..n : t[i] = Backslash /\ Place(t, i) = n
                        THEN Doubled(First(t, k)) \o <<Backslash>> ELSE Doubled(First(t, k))
    BY <2>1, CutIs
  <2> DEFINE q == First(t, k)
             a == Doubled(q)
             b == Spread(ZeroesOut, a)
             one == <<Backslash>>
  <2>4. First(d, n) = IF CutInEscape(t) THEN a \o one ELSE a
    BY <2>2, <2>3
  <2>5. q \in Bytes
    BY FirstIs
  <2> HIDE DEF q, d
  <2>6. a \in Bytes /\ b \in Bytes /\ one \in Bytes
    BY <1>3, <2>5, SpreadIsText, NotReplacedAgain DEF Doubled
  <2>7. Spread(EscapeEach, b) = Spread(ZeroedPiece, q)
    <3>1. b = Spread(Then(Double, ZeroesOut), q)
      BY <1>3, <2>5, SpreadTwice DEF Doubled
    <3> HIDE DEF b
    <3> QED
      BY <3>1, <1>3, <2>5, SpreadTwice DEF ZeroedPiece
  <2> HIDE DEF a, one
  <2>8. Spread(ZeroesOut, a \o one) = b \o one
    <3>1. Spread(ZeroesOut, one) = one
      BY NotReplacedAgain DEF one
    <3>2. ZeroesOut \in Pieces /\ a \in Bytes /\ one \in Bytes
      BY <1>3, <2>6
    <3>3. Spread(ZeroesOut, a \o one) = Spread(ZeroesOut, a) \o Spread(ZeroesOut, one)
      BY <3>2, SpreadJoined
    <3> QED
      BY <3>1, <3>3
  <2> HIDE DEF b
  <2>9. Spread(EscapeEach, b \o one) = Spread(ZeroedPiece, q) \o one
    <3>1. Spread(EscapeEach, one) = one
      BY NotReplacedAgain DEF one
    <3>2. EscapeEach \in Pieces /\ b \in Bytes /\ one \in Bytes
      BY <1>3, <2>6
    <3>3. Spread(EscapeEach, b \o one) = Spread(EscapeEach, b) \o Spread(EscapeEach, one)
      BY <3>2, SpreadJoined
    <3> QED
      BY <3>1, <3>3, <2>7
  <2>10. z \in Bytes /\ z = IF CutInEscape(t) THEN b \o one ELSE b
    <3>1. z = Spread(ZeroesOut, First(d, n))
      BY <1>2, <1>5
    <3>2. b \o one \in Bytes
      BY <2>6, Joined
    <3> QED
      BY <3>1, <3>2, <2>4, <2>6, <2>8 DEF b
  <2>11. EscapeAll(z) = Spread(EscapeEach, z)
    BY <2>10, EscapeAllIsSpread
  <2>12. Sanitize(t, n) = IF CutInEscape(t) THEN Spread(ZeroedPiece, q) \o one
                          ELSE Spread(ZeroedPiece, q)
    BY <1>1, <2>7, <2>9, <2>10, <2>11
  <2> QED
    BY <1>5, <2>12 DEF q, one
<1> QED
  BY <1>4, <1>5

-----------------------------------------------------------------------------
(* Which texts stay between their quotes, and which are read back.         *)

LEMMA InvalidSizeIs ==
  /\ InvalidSize \in Bytes /\ InvalidSize # <<>>
  /\ \A i \in 1..Len(InvalidSize) : InvalidSize[i] # 168
  /\ IsJsonText(InvalidSize) /\ TextOf(InvalidSize) = InvalidSize
<1>1. /\ InvalidSize \in Bytes /\ InvalidSize # <<>> /\ Len(InvalidSize) = 12
  BY DEF InvalidSize, Bytes, Byte
<1>2. \A i \in 1..12 : InvalidSize[i] \in {73, 110, 118, 97, 108, 105, 100, 32, 115, 122, 101}
  <2>1. \A i \in 1..12 : i = 1 \/ i = 2 \/ i = 3 \/ i = 4 \/ i = 5 \/ i = 6 \/ i = 7 \/ i = 8
                            \/ i = 9 \/ i = 10 \/ i = 11 \/ i = 12
    OBVIOUS
  <2> QED
    BY <2>1 DEF InvalidSize
<1>3. \A i \in 1..Len(InvalidSize) :
        /\ InvalidSize[i] >= 32 /\ InvalidSize[i] # Quote /\ InvalidSize[i] # Backslash
        /\ InvalidSize[i] # 168
  <2>1. \A c \in {73, 110, 118, 97, 108, 105, 100, 32, 115, 122, 101} :
          c >= 32 /\ c # Quote /\ c # Backslash /\ c # 168
    BY DEF Quote, Backslash
  <2>2. \A i \in 1..12 : /\ InvalidSize[i] >= 32 /\ InvalidSize[i] # Quote
                         /\ InvalidSize[i] # Backslash /\ InvalidSize[i] # 168
    BY <1>2, <2>1
  <2> QED
    BY <1>1, <2>2
<1> QED
  BY <1>1, <1>3, PlainText

LEMMA LoneBackslash == ~IsJsonText(<<Backslash>>)
<1> DEFINE s == <<Backslash>>
<1>1. s \in Bytes /\ Len(s) = 1 /\ s[1] = Backslash
  BY NotReplacedAgain
<1> HIDE DEF s
<1>2. ~EscapeAt(s)[0] /\ (EscapeAt(s)[1] <=> s[1] = Backslash /\ ~EscapeAt(s)[1 - 1])
  <2>1. 1 \in 1..Len(s)
    BY <1>1
  <2> QED
    BY <1>1, <2>1, EscapeAtIs
<1>3. EscapeAt(s)[Len(s)]
  BY <1>1, <1>2
<1>4. ~IsJsonText(s)
  BY <1>1, <1>3, JsonIsFit
<1> QED
  BY <1>4 DEF s

\* Nothing that is written for a text has the byte a8.
LEMMA PiecesWithoutA8 ==
  /\ PlainPiece \in [Byte -> Seq(Byte \ {168})]
  /\ ZeroedPiece \in [Byte -> Seq(Byte \ {168})]
  /\ <<Backslash>> \in Seq(Byte \ {168})
<1> DEFINE C == Byte \ {168}
<1>1. Backslash \in C /\ Digit0 \in C /\ C \in SUBSET Byte
  BY DEF Backslash, Digit0, Byte
<1>2. /\ <<Backslash>> \in Seq(C) /\ <<Backslash, Backslash>> \in Seq(C)
      /\ <<Backslash, Backslash, Digit0>> \in Seq(C)
  <2> HIDE DEF C
  <2> QED
    BY <1>1, SafePiece
<1>3. \A b \in Byte : EscapeEach[b] \in Seq(C)
  BY EscapeEachIs
<1> HIDE DEF C
<1>4. \A b \in Byte : PlainPiece[b] \in Seq(C)
  BY <1>2, <1>3, PlainPieceIs
<1>5. \A b \in Byte : ZeroedPiece[b] \in Seq(C)
  BY <1>2, <1>4, ZeroedPieceIs
<1>6. PlainPiece \in [Byte -> Seq(C)] /\ ZeroedPiece \in [Byte -> Seq(C)]
  BY <1>4, <1>5, PlainPieceIs, ZeroedPieceIs DEF Pieces
<1> QED
  BY <1>2, <1>6 DEF C

LEMMA SanitizeWithoutA8 ==
  ASSUME NEW t \in Bytes
  PROVE  Sanitize(t, Len(t)) \in Seq(Byte \ {168})
<1> DEFINE C == Byte \ {168}
           one == <<Backslash>>
<1>1. C \subseteq Byte /\ one \in Seq(C)
  BY PiecesWithoutA8
<1>2. \A u \in Bytes : Spread(PlainPiece, u) \in Seq(C) /\ Spread(ZeroedPiece, u) \in Seq(C)
  <2>1. PlainPiece \in [Byte -> Seq(C)] /\ ZeroedPiece \in [Byte -> Seq(C)]
    BY PiecesWithoutA8
  <2> HIDE DEF C
  <2> QED
    BY <1>1, <2>1, SpreadOfKind
<1>3. \A k \in 0..Len(t) : First(t, k) \in Bytes
  BY FirstIs
<1> HIDE DEF C
<1>4. \A k \in 0..Len(t) : Spread(ZeroedPiece, First(t, k)) \o one \in Seq(C)
  <2>1. \A k \in 0..Len(t) : Spread(ZeroedPiece, First(t, k)) \in Seq(C)
    BY <1>2, <1>3
  <2> HIDE DEF one
  <2> QED
    BY <1>1, <2>1, ConcatProperties
<1>5. Sanitize(t, Len(t)) \in Seq(C)
  <2> HIDE DEF one
  <2>1. CASE ZeroesSeen(t) = {}
    BY <2>1, <1>2, SanitizeIs
  <2>2. CASE ZeroesSeen(t) # {}
    <3>1. PICK k \in 0..Len(t) :
            Sanitize(t, Len(t)) = IF CutInEscape(t) THEN Spread(ZeroedPiece, First(t, k)) \o one
                                  ELSE Spread(ZeroedPiece, First(t, k))
      BY <2>2, SanitizeIs DEF one
    <3> QED
      BY <3>1, <1>2, <1>3, <1>4
  <2> QED
    BY <2>1, <2>2
<1> QED
  BY <1>5 DEF C

\* The two cases in which a text does not stay between its quotes.
LEMMA SanitizeIsJson ==
  ASSUME NEW t \in Bytes
  PROVE  ~IsJsonText(Sanitize(t, Len(t))) <=> ZeroLeft(t) \/ CutInEscape(t)
<1>0. /\ Len(t) \in Nat /\ DOMAIN t = 1..Len(t) /\ \A i \in 1..Len(t) : t[i] \in Byte
  BY LenProperties, ElementOfSeq DEF Bytes
<1>1. CASE ZeroesSeen(t) = {}
  <2>1. Sanitize(t, Len(t)) = Spread(PlainPiece, t)
    BY <1>1, SanitizeIs
  <2>2. ASSUME NEW i \in 1..Len(t), t[i] = Nul
        PROVE  ~IsJsonText(Spread(PlainPiece, t))
    <3> DEFINE s == Spread(PlainPiece, t)
    <3>1. \E j \in 1..Len(t) : PlainPiece[t[j]] = <<Nul>>
      BY <2>2, PieceIsJson
    <3>2. PICK p \in 1..Len(s) : s[p] = Nul
      BY <3>1, PlainPieceIs, SpreadHolds
    <3>3. s \in Bytes
      BY PlainPieceIs, SpreadIsText
    <3> HIDE DEF s
    <3>4. ~FitsAt(s, p)
      BY <3>2 DEF FitsAt, Nul
    <3>5. ~IsJsonText(s)
      BY <3>3, <3>4, JsonIsFit
    <3> QED
      BY <3>5 DEF s
  <2>3. ASSUME \A i \in 1..Len(t) : t[i] # Nul
        PROVE  IsJsonText(Spread(PlainPiece, t))
    <3>1. \A i \in 1..Len(t) : IsJsonText(PlainPiece[t[i]])
      BY <1>0, <2>3, PieceIsJson
    <3> QED
      BY <3>1, PlainPieceIs, SpreadJson
  <2>4. ZeroLeft(t) <=> \E i \in 1..Len(t) : t[i] = Nul
    BY <1>0, <1>1 DEF ZeroLeft
  <2>5. ~CutInEscape(t)
    BY <1>1 DEF CutInEscape
  <2> QED
    BY <2>1, <2>2, <2>3, <2>4, <2>5
<1>2. CASE ZeroesSeen(t) # {}
  <2> DEFINE one == <<Backslash>>
  <2>1. PICK k \in 0..Len(t) :
          Sanitize(t, Len(t)) = IF CutInEscape(t) THEN Spread(ZeroedPiece, First(t, k)) \o one
                                ELSE Spread(ZeroedPiece, First(t, k))
    BY <1>2, SanitizeIs
  <2> DEFINE q == First(t, k)
             s == Spread(ZeroedPiece, q)
  <2>2. q \in Bytes /\ s \in Bytes /\ one \in Bytes
    BY FirstIs, ZeroedPieceIs, SpreadIsText, NotReplacedAgain
  <2> HIDE DEF q
  <2>3. IsJsonText(s)
    <3>1. \A i \in 1..Len(q) : q[i] \in Byte
      BY <2>2, ElementOfSeq DEF Bytes
    <3>2. \A i \in 1..Len(q) : IsJsonText(ZeroedPiece[q[i]])
      BY <3>1, PieceIsJson
    <3> QED
      BY <2>2, <3>2, ZeroedPieceIs, SpreadJson
  <2> HIDE DEF s, one
  <2>4. ~IsJsonText(s \o one)
    <3>1. ~IsJsonText(one)
      BY LoneBackslash DEF one
    <3> QED
      BY <2>2, <2>3, <3>1, JsonJoined
  <2>5. Sanitize(t, Len(t)) = IF CutInEscape(t) THEN s \o one ELSE s
    BY <2>1 DEF s, q
  <2>6. ~ZeroLeft(t)
    BY <1>2 DEF ZeroLeft
  <2> QED
    BY <2>3, <2>4, <2>5, <2>6
<1> QED
  BY <1>1, <1>2

\* Which texts of the database spoil the document.
LEMMA TextStays ==
  ASSUME NEW t, t.text \in Bytes
  PROVE  /\ TextJson(t) \in Bytes
         /\ ~IsJsonText(TextJson(t)) <=>
              /\ Len(t.text) = t.text_size
              /\ ZeroLeft(t.text) \/ CutInEscape(t.text)
<1> DEFINE u == t.text
<1>1. CASE Len(u) = t.text_size
  <2>1. TextJson(t) = Sanitize(u, Len(u))
    BY <1>1 DEF TextJson
  <2>2. Sanitize(u, Len(u)) \in Bytes
    <3> DEFINE C == Byte \ {168}
    <3>1. Sanitize(u, Len(u)) \in Seq(C) /\ C \subseteq Byte
      BY SanitizeWithoutA8
    <3> HIDE DEF C
    <3> QED
      BY <3>1, SeqMonotonic DEF Bytes
  <2>3. ~IsJsonText(Sanitize(u, Len(u))) <=> ZeroLeft(u) \/ CutInEscape(u)
    BY SanitizeIsJson
  <2> QED
    BY <1>1, <2>1, <2>2, <2>3
<1>2. CASE Len(u) # t.text_size
  <2>1. TextJson(t) = InvalidSize
    BY <1>2 DEF TextJson, Sanitize
  <2> QED
    BY <1>2, <2>1, InvalidSizeIs
<1> QED
  BY <1>1, <1>2

\* Which texts are read back.
LEMMA TextIsReadBack ==
  ASSUME NEW t, IsText(t)
  PROVE  TextReadsBack(t, TextJson(t)) <=>
           /\ Len(t.text) = t.text_size
           /\ \A k \in DOMAIN t.text : t.text[k] \notin Named
<1> DEFINE u == t.text
           s == TextJson(t)
<1>0. u \in Bytes /\ (u = <<>> \/ Len(u) = t.text_size)
  BY DEF IsText
<1>1. DOMAIN u = 1..Len(u) /\ Len(u) \in Nat /\ \A i \in 1..Len(u) : u[i] \in Byte
  BY <1>0, LenProperties, ElementOfSeq DEF Bytes
<1>2. CASE Len(u) # t.text_size
  <2>1. s = InvalidSize
    BY <1>2 DEF TextJson, Sanitize
  <2>2. u = <<>>
    BY <1>0, <1>2
  <2> HIDE DEF s
  <2>3. ~TextReadsBack(t, s)
    BY <2>1, <2>2, InvalidSizeIs DEF TextReadsBack
  <2> QED
    BY <1>2, <2>3 DEF s
<1>3. CASE Len(u) = t.text_size
  <2>1. s = Sanitize(u, Len(u))
    BY <1>3 DEF TextJson
  <2>2. ASSUME TextReadsBack(t, s)
        PROVE  \A k \in 1..Len(u) : u[k] \notin Named
    <3> DEFINE C == Byte \ {168}
    <3>1. s \in Seq(C) /\ C \subseteq Byte
      BY <1>0, <2>1, SanitizeWithoutA8
    <3>2. s \in Bytes /\ \A i \in 1..Len(s) : s[i] \in C
      <4> HIDE DEF C, s
      <4> QED
        BY <3>1, SeqMonotonic, ElementOfSeq DEF Bytes
    <3> HIDE DEF s
    <3>3. \A i \in 1..Len(s) : s[i] # 168
      BY <3>2
    <3>4. IsJsonText(s) /\ TextOf(s) = u
      BY <2>2 DEF TextReadsBack
    <3>5. \A i \in 1..Len(TextOf(s)) : TextOf(s)[i] \notin Named
      BY <3>2, <3>3, <3>4, NoNamedIsRead
    <3> QED
      BY <3>4, <3>5
  <2>3. ASSUME \A k \in 1..Len(u) : u[k] \notin Named
        PROVE  TextReadsBack(t, s)
    <3>1. \A k \in 1..Len(u) : u[k] # Nul
      BY <2>3 DEF Nul, Named
    <3>2. ZeroesSeen(u) = {}
      BY <1>1, <3>1 DEF ZeroesSeen
    <3>3. s = Spread(PlainPiece, u)
      BY <1>0, <2>1, <3>2, SanitizeIs
    <3>4. \A i \in 1..Len(u) : IsJsonText(PlainPiece[u[i]]) /\ TextOf(PlainPiece[u[i]]) = <<u[i]>>
      BY <1>1, <2>3, <3>1, PieceIsJson
    <3> HIDE DEF s, u
    <3>5. IsJsonText(Spread(PlainPiece, u)) /\ TextOf(Spread(PlainPiece, u)) = u
      BY <1>0, <3>4, PlainPieceIs, SpreadJson, SpreadReadBack
    <3> QED
      BY <3>3, <3>5 DEF TextReadsBack, u
  <2> QED
    BY <1>1, <1>3, <2>2, <2>3
<1> QED
  BY <1>2, <1>3

-----------------------------------------------------------------------------
(* Fonts and the numbers of sixteen bytes.                                 *)

LEMMA FontFamilyIsText ==
  ASSUME NEW v \in Bytes
  PROVE  FontFamily(v) \in Bytes
<1> DEFINE text == SubSeq(v, 29, Len(v))
           nulls == {i \in DOMAIN text : text[i] = Nul}
           first == CHOOSE i \in nulls : \A k \in nulls : i <= k
<1>1. text \in Bytes
  <2>1. Len(v) \in Nat /\ \A i \in 1..Len(v) : v[i] \in Byte
    BY LenProperties, ElementOfSeq DEF Bytes
  <2>2. \A i \in 29..Len(v) : v[i] \in Byte
    BY <2>1
  <2> QED
    BY <2>1, <2>2, SubSeqProperties DEF Bytes
<1> HIDE DEF text
<1>2. DOMAIN text = 1..Len(text) /\ Len(text) \in Nat /\ \A i \in 1..Len(text) : text[i] \in Byte
  BY <1>1, LenProperties, ElementOfSeq DEF Bytes
<1>3. CASE nulls = {}
  BY <1>1, <1>3 DEF FontFamily, text
<1>4. CASE nulls # {}
  <2>1. nulls \subseteq Nat
    BY <1>2
  <2>2. \E i \in nulls : \A k \in nulls : i <= k
    <3> HIDE DEF nulls
    <3> QED
      BY <2>1, <1>4, LeastElement
  <2>3. first \in 1..Len(text)
    <3>1. first \in nulls
      <4> HIDE DEF nulls
      <4> QED
        BY <2>2
    <3> HIDE DEF first
    <3> QED
      BY <3>1, <1>2
  <2>4. FontFamily(v) = SubSeq(text, 1, first - 1)
    BY <1>4 DEF FontFamily, text
  <2> HIDE DEF first
  <2>5. \A i \in 1..(first - 1) : text[i] \in Byte
    BY <1>2, <2>3
  <2>6. 1 \in Int /\ first - 1 \in Int
    BY <1>2, <2>3
  <2> QED
    BY <2>4, <2>5, <2>6, SubSeqProperties DEF Bytes
<1> QED
  BY <1>3, <1>4

LEMMA DigitsAre ==
  ASSUME NEW h \in [1..8 -> Byte]
  PROVE  /\ Digits(h) \in [1..16 -> 0..15]
         /\ Digits(h) \in Bytes /\ Len(Digits(h)) = 16
         /\ (\A d \in 1..8 : Digits(h)[d] = 0) <=> \A i \in 5..8 : h[i] = 0
<1> DEFINE g(d) == LET byte == h[8 - (d - 1) \div 2] IN IF d % 2 = 1 THEN byte \div 16 ELSE byte % 16
<1>1. ASSUME NEW b \in Byte
      PROVE  /\ b \div 16 \in 0..15 /\ b % 16 \in 0..15
             /\ b = 0 <=> b \div 16 = 0 /\ b % 16 = 0
  BY DEF Byte
<1>2. \A d \in 1..16 : 8 - (d - 1) \div 2 \in 1..8
  OBVIOUS
<1>3. \A d \in 1..16 : g(d) \in 0..15
  <2> SUFFICES ASSUME NEW d \in 1..16
               PROVE  g(d) \in 0..15
    OBVIOUS
  <2>1. h[8 - (d - 1) \div 2] \in Byte
    BY <1>2
  <2> QED
    BY <2>1, <1>1
<1>4. Digits(h) = [d \in 1..16 |-> g(d)]
  BY DEF Digits
<1>5. \A d \in 1..8 : Digits(h)[d] = g(d)
  BY <1>4
<1>6. /\ g(1) = h[8] \div 16 /\ g(2) = h[8] % 16 /\ g(3) = h[7] \div 16 /\ g(4) = h[7] % 16
      /\ g(5) = h[6] \div 16 /\ g(6) = h[6] % 16 /\ g(7) = h[5] \div 16 /\ g(8) = h[5] % 16
  <2>1. /\ 8 - (1 - 1) \div 2 = 8 /\ 1 % 2 = 1 /\ 8 - (2 - 1) \div 2 = 8 /\ 2 % 2 = 0
        /\ 8 - (3 - 1) \div 2 = 7 /\ 3 % 2 = 1 /\ 8 - (4 - 1) \div 2 = 7 /\ 4 % 2 = 0
        /\ 8 - (5 - 1) \div 2 = 6 /\ 5 % 2 = 1 /\ 8 - (6 - 1) \div 2 = 6 /\ 6 % 2 = 0
        /\ 8 - (7 - 1) \div 2 = 5 /\ 7 % 2 = 1 /\ 8 - (8 - 1) \div 2 = 5 /\ 8 % 2 = 0
    OBVIOUS
  <2> QED
    BY <2>1
<1>7. h[5] \in Byte /\ h[6] \in Byte /\ h[7] \in Byte /\ h[8] \in Byte
  OBVIOUS
<1> HIDE DEF g
<1>a. Digits(h) \in Bytes /\ Len(Digits(h)) = 16
  <2>1. [d \in 1..16 |-> g(d)] \in [1..16 -> Byte]
    BY <1>3 DEF Byte
  <2>2. [d \in 1..16 |-> g(d)] \in Seq(Byte)
    BY <2>1, SeqDef
  <2>3. Len([d \in 1..16 |-> g(d)]) = 16
    OBVIOUS
  <2> QED
    BY <1>4, <2>2, <2>3 DEF Bytes
<1>8. /\ \A i \in 5..8 : i = 5 \/ i = 6 \/ i = 7 \/ i = 8
      /\ \A d \in 1..8 : d = 1 \/ d = 2 \/ d = 3 \/ d = 4 \/ d = 5 \/ d = 6 \/ d = 7 \/ d = 8
  OBVIOUS
<1>9. (\A d \in 1..8 : g(d) = 0) <=> h[5] = 0 /\ h[6] = 0 /\ h[7] = 0 /\ h[8] = 0
  <2>1. /\ h[5] = 0 <=> h[5] \div 16 = 0 /\ h[5] % 16 = 0
        /\ h[6] = 0 <=> h[6] \div 16 = 0 /\ h[6] % 16 = 0
        /\ h[7] = 0 <=> h[7] \div 16 = 0 /\ h[7] % 16 = 0
        /\ h[8] = 0 <=> h[8] \div 16 = 0 /\ h[8] % 16 = 0
    BY <1>1, <1>7
  <2>2. (\A d \in 1..8 : g(d) = 0) <=> /\ g(1) = 0 /\ g(2) = 0 /\ g(3) = 0 /\ g(4) = 0
                                       /\ g(5) = 0 /\ g(6) = 0 /\ g(7) = 0 /\ g(8) = 0
    BY <1>8
  <2> QED
    BY <2>1, <2>2, <1>6
<1>10. (\A i \in 5..8 : h[i] = 0) <=> h[5] = 0 /\ h[6] = 0 /\ h[7] = 0 /\ h[8] = 0
  BY <1>8
<1> QED
  BY <1>3, <1>4, <1>5, <1>9, <1>10, <1>a

\* As many leading zeroes are left out as the width allows.
LEMMA TrimmedIs ==
  ASSUME NEW ds \in [1..16 -> 0..15], NEW width \in 1..16
  PROVE  \E m \in 0..(16 - width) :
           /\ Trimmed(ds, width) = SubSeq(ds, m + 1, 16)
           /\ \A d \in 1..m : ds[d] = 0
           /\ (\A d \in 1..(16 - width) : ds[d] = 0) => m = 16 - width
           /\ Trimmed(ds, width) \in Bytes /\ Len(Trimmed(ds, width)) = 16 - m
           /\ \A d \in 1..(16 - m) : Trimmed(ds, width)[d] = ds[m + d]
<1> DEFINE n == 16 - width
           zeroes == {z \in 0..n : \A d \in 1..z : ds[d] = 0}
           most == CHOOSE z \in zeroes : \A y \in zeroes : y <= z
           T == {16 - z : z \in zeroes}
<1>0. n \in 0..15
  OBVIOUS
<1>1. zeroes \subseteq 0..n /\ 0 \in zeroes
  BY <1>0
<1>2. T \subseteq Nat /\ T # {}
  BY <1>0, <1>1
<1>3. PICK x \in T : \A y \in T : x <= y
  <2> HIDE DEF T
  <2> QED
    BY <1>2, LeastElement
<1>4. PICK z \in zeroes : x = 16 - z
  BY <1>3
<1>5. \A y \in zeroes : 16 - y \in T /\ 16 - z <= 16 - y
  BY <1>3, <1>4
<1>6. \A y \in zeroes : y <= z
  <2> HIDE DEF zeroes, T
  <2> QED
    BY <1>0, <1>1, <1>5
<1>7. most \in zeroes /\ \A y \in zeroes : y <= most
  <2> HIDE DEF zeroes
  <2> QED
    BY <1>6
<1>8. Trimmed(ds, width) = SubSeq(ds, most + 1, 16)
  BY DEF Trimmed
<1> HIDE DEF most
<1>9. most \in 0..n /\ \A d \in 1..most : ds[d] = 0
  BY <1>7
<1>10. ASSUME \A d \in 1..n : ds[d] = 0
       PROVE  most = n
  <2>1. n \in zeroes
    BY <1>0, <1>10
  <2>2. n <= most
    BY <2>1, <1>7
  <2> QED
    BY <2>2, <1>0, <1>9
<1>11. /\ SubSeq(ds, most + 1, 16) \in Bytes
       /\ Len(SubSeq(ds, most + 1, 16)) = 16 - most
       /\ \A d \in 1..(16 - most) : SubSeq(ds, most + 1, 16)[d] = ds[most + d]
  <2>1. \A i \in (most + 1)..16 : ds[i] \in Byte
    BY <1>0, <1>9 DEF Byte
  <2>2. most + 1 \in Int /\ 16 \in Int
    BY <1>0, <1>9
  <2>3. /\ SubSeq(ds, most + 1, 16) \in Seq(Byte)
        /\ Len(SubSeq(ds, most + 1, 16)) = IF most + 1 <= 16 THEN 16 - (most + 1) + 1 ELSE 0
        /\ \A i \in 1..(16 - (most + 1) + 1) : SubSeq(ds, most + 1, 16)[i] = ds[most + 1 + i - 1]
    BY <2>1, <2>2, SubSeqProperties
  <2>4. /\ most + 1 <= 16 /\ 16 - (most + 1) + 1 = 16 - most
        /\ \A i \in 1..(16 - most) : most + 1 + i - 1 = most + i
    BY <1>0, <1>9
  <2> QED
    BY <2>3, <2>4 DEF Bytes
<1> QED
  BY <1>8, <1>9, <1>10, <1>11

\* What is written of a number tells both halves exactly if the second is of
\* four bytes.
LEMMA LongLongIsReadBack ==
  ASSUME NEW v \in [1..16 -> Byte]
  PROVE  ReadsBack("LongLong", v, LongLongJson(v)) <=> \A i \in 13..16 : v[i] = 0
<1> DEFINE a == SubSeq(v, 1, 8)
           b == SubSeq(v, 9, 16)
           da == Digits(a)
           db == Digits(b)
           high == Trimmed(da, 1)
           rest == Trimmed(db, 8)
           w == high \o rest
           low == Len(w) - 8
           none == [d \in 1..8 |-> 0]
           tail == SubSeq(w, low + 1, low + 8)
<1>1. ReadsBack("LongLong", v, LongLongJson(v)) <=>
        high = SubSeq(w, 1, low) /\ db = none \o tail
  BY DEF ReadsBack, LongLongJson
<1>2. a \in [1..8 -> Byte] /\ b \in [1..8 -> Byte] /\ \A i \in 5..8 : b[i] = v[8 + i]
  <2>1. /\ a \in Seq(Byte) /\ Len(a) = 8
    <3>1. \A i \in 1..8 : v[i] \in Byte
      OBVIOUS
    <3>2. a \in Seq(Byte) /\ Len(a) = IF 1 <= 8 THEN 8 - 1 + 1 ELSE 0
      BY <3>1, SubSeqProperties
    <3> QED
      BY <3>2
  <2>2. /\ b \in Seq(Byte) /\ Len(b) = 8 /\ \A i \in 1..8 : b[i] = v[8 + i]
    <3>1. \A i \in 9..16 : v[i] \in Byte
      OBVIOUS
    <3>2. /\ b \in Seq(Byte) /\ Len(b) = IF 9 <= 16 THEN 16 - 9 + 1 ELSE 0
          /\ \A i \in 1..(16 - 9 + 1) : b[i] = v[9 + i - 1]
      BY <3>1, SubSeqProperties
    <3>3. 16 - 9 + 1 = 8 /\ \A i \in 1..8 : 9 + i - 1 = 8 + i
      OBVIOUS
    <3> QED
      BY <3>2, <3>3
  <2> HIDE DEF a, b
  <2>3. a \in [1..Len(a) -> Byte] /\ b \in [1..Len(b) -> Byte]
    BY <2>1, <2>2, LenProperties
  <2> QED
    BY <2>1, <2>2, <2>3
<1> HIDE DEF a, b
<1>3. da \in [1..16 -> 0..15] /\ db \in [1..16 -> 0..15]
  BY <1>2, DigitsAre
<1>4. (\A d \in 1..8 : db[d] = 0) <=> \A i \in 13..16 : v[i] = 0
  <2>1. (\A d \in 1..8 : db[d] = 0) <=> \A i \in 5..8 : b[i] = 0
    BY <1>2, DigitsAre
  <2>2. (\A i \in 5..8 : b[i] = 0) <=> \A i \in 13..16 : v[i] = 0
    <3>1. \A i \in 13..16 : i - 8 \in 5..8 /\ 8 + (i - 8) = i
      OBVIOUS
    <3>2. \A i \in 5..8 : 8 + i \in 13..16
      OBVIOUS
    <3> QED
      BY <1>2, <3>1, <3>2
  <2> HIDE DEF db
  <2> QED
    BY <2>1, <2>2
<1> HIDE DEF da, db
<1>5. high \in Bytes /\ Len(high) \in 1..16
  <2>1. 1 \in 1..16
    OBVIOUS
  <2>2. PICK m \in 0..(16 - 1) : high \in Bytes /\ Len(high) = 16 - m
    BY <1>3, <2>1, TrimmedIs
  <2> HIDE DEF high
  <2> QED
    BY <2>2
<1>6. PICK m \in 0..8 :
        /\ (\A d \in 1..8 : db[d] = 0) => m = 8
        /\ rest \in Bytes /\ Len(rest) = 16 - m
        /\ \A d \in 1..(16 - m) : rest[d] = db[m + d]
  <2>1. 8 \in 1..16 /\ 16 - 8 = 8
    OBVIOUS
  <2> HIDE DEF rest
  <2>2. \E m \in 0..(16 - 8) :
           /\ (\A d \in 1..(16 - 8) : db[d] = 0) => m = 16 - 8
           /\ rest \in Bytes /\ Len(rest) = 16 - m
           /\ \A d \in 1..(16 - m) : rest[d] = db[m + d]
    BY <1>3, <2>1, TrimmedIs DEF rest
  <2> QED
    BY <2>1, <2>2
<1> HIDE DEF high, rest
<1>7. /\ w \in Bytes /\ Len(w) = Len(high) + Len(rest) /\ Len(high) \in Nat
      /\ \A i \in 1..Len(high) : w[i] = high[i]
      /\ \A i \in 1..Len(rest) : w[Len(high) + i] = rest[i]
  BY <1>5, <1>6, Joined
<1> HIDE DEF w
<1>8. \A i \in 1..Len(w) : w[i] \in Byte
  BY <1>7, ElementOfSeq DEF Bytes
<1>9. low = Len(high) + 8 - m /\ Len(w) \in Nat /\ low \in Nat
  <2>1. Len(w) = Len(high) + (16 - m) /\ Len(high) \in 1..16 /\ m \in 0..8
    BY <1>5, <1>6, <1>7
  <2>2. Len(high) + (16 - m) - 8 = Len(high) + 8 - m
    BY <2>1
  <2> QED
    BY <2>1, <2>2
<1>10. tail \in Bytes /\ Len(tail) = 8 /\ \A i \in 1..8 : tail[i] = w[low + i]
  <2> HIDE DEF low
  <2> HIDE DEF low
  <2> DEFINE from == low + 1
             to   == low + 8
  <2>1. to <= Len(w)
    <3>1. Len(w) = Len(high) + (16 - m) /\ m \in 0..8 /\ Len(high) \in Nat
      BY <1>6, <1>7
    <3> QED
      BY <3>1, <1>9
  <2>2. \A i \in from..to : i \in 1..Len(w)
    <3>1. low \in Nat /\ Len(w) \in Nat /\ low + 8 <= Len(w)
      BY <1>9, <2>1
    <3> QED
      BY <3>1
  <2>3. from \in Int /\ to \in Int
    BY <1>9
  <2>4. /\ from <= to /\ to - from + 1 = 8
        /\ \A i \in 1..8 : from + i - 1 = low + i
    BY <1>9
  <2>5. tail = SubSeq(w, from, to)
    OBVIOUS
  <2> HIDE DEF from, to, tail
  <2>6. \A i \in from..to : w[i] \in Byte
    BY <1>8, <2>2
  <2>7. /\ SubSeq(w, from, to) \in Seq(Byte)
        /\ Len(SubSeq(w, from, to)) = IF from <= to THEN to - from + 1 ELSE 0
        /\ \A i \in 1..(to - from + 1) : SubSeq(w, from, to)[i] = w[from + i - 1]
    BY <2>3, <2>6, SubSeqProperties
  <2> QED
    BY <2>4, <2>5, <2>7 DEF Bytes
<1>11. none \in Bytes /\ Len(none) = 8 /\ \A i \in 1..8 : none[i] = 0
  <2>1. none \in [1..8 -> Byte]
    BY DEF Byte
  <2> QED
    BY <2>1, SeqDef DEF Bytes
<1> HIDE DEF tail, none
<1>12. /\ none \o tail \in Bytes /\ Len(none \o tail) = Len(none) + Len(tail)
       /\ \A i \in 1..Len(none) : (none \o tail)[i] = none[i]
       /\ \A i \in 1..Len(tail) : (none \o tail)[Len(none) + i] = tail[i]
  BY <1>10, <1>11, Joined
<1>13. ASSUME db = none \o tail
       PROVE  \A d \in 1..8 : db[d] = 0
  BY <1>11, <1>12, <1>13
<1>14. ASSUME \A d \in 1..8 : db[d] = 0
       PROVE  high = SubSeq(w, 1, low) /\ db = none \o tail
  <2>1. m = 8 /\ low = Len(high) /\ Len(rest) = 8 /\ \A d \in 1..8 : rest[d] = db[8 + d]
    BY <1>6, <1>9, <1>14
  <2> HIDE DEF low
  <2>2. high = SubSeq(w, 1, low)
    <3>1. low \in 0..Len(w)
      BY <2>1, <1>7, <1>9
    <3>2. /\ First(w, low) \in Bytes /\ Len(First(w, low)) = low
          /\ \A i \in 1..low : First(w, low)[i] = w[i]
      BY <3>1, <1>7, FirstIs
    <3>3. \A i \in 1..Len(high) : high[i] = First(w, low)[i]
      BY <3>2, <2>1, <1>7
    <3>4. high = First(w, low)
      BY <3>2, <3>3, <2>1, <1>5, SeqEqual DEF Bytes
    <3> QED
      BY <3>4 DEF First
  <2>3. db \in Bytes /\ Len(db) = 16
    BY <1>2, DigitsAre DEF db
  <2>4. \A d \in 1..16 : db[d] = (none \o tail)[d]
    <3>1. \A d \in 1..8 : (none \o tail)[d] = 0
      BY <1>11, <1>12
    <3>2. \A d \in 1..8 : (none \o tail)[8 + d] = db[8 + d]
      <4>1. \A d \in 1..8 : tail[d] = rest[d]
        BY <2>1, <1>7, <1>10
      <4>2. \A d \in 1..8 : (none \o tail)[8 + d] = tail[d]
        BY <1>10, <1>11, <1>12
      <4> QED
        BY <4>1, <4>2, <2>1
    <3>3. \A d \in 1..16 : d \in 1..8 \/ (d - 8 \in 1..8 /\ d = 8 + (d - 8))
      OBVIOUS
    <3>4. ASSUME NEW d \in 1..8
          PROVE  db[d] = (none \o tail)[d]
      <4>1. db[d] = 0
        BY <1>14
      <4>2. (none \o tail)[d] = 0
        BY <3>1
      <4> QED
        BY <4>1, <4>2
    <3> QED
      BY <3>2, <3>3, <3>4
  <2>5. Len(none \o tail) = 16
    BY <1>10, <1>11, <1>12
  <2>6. db = none \o tail
    BY <2>3, <2>4, <2>5, <1>12, SeqEqual DEF Bytes
  <2> QED
    BY <2>2, <2>6
<1>15. ReadsBack("LongLong", v, LongLongJson(v)) <=> \A d \in 1..8 : db[d] = 0
  BY <1>1, <1>13, <1>14
<1> QED
  BY <1>4, <1>15

-----------------------------------------------------------------------------
(* The members of an object.                                               *)

LEMMA FormsAre ==
  ASSUME NEW form \in Forms
  PROVE  \/ form = "Text" \/ form = "StringArray" \/ form = "Font" \/ form = "LongLong"
         \/ form \in {"Bool", "Byte", "Int", "Time", "Long", "IntArray", "LongArray", "Mac"}
BY DEF Forms

\* The strings that are written for a member are its texts, cleaned up.
LEMMA StringsAreTexts ==
  ASSUME NEW form \in Forms, NEW v, Holds(form, v)
  PROVE  /\ DOMAIN StringsOf(form, MemberJson(form, v)) = DOMAIN TextsOf(form, v)
         /\ \A i \in DOMAIN TextsOf(form, v) :
              /\ IsText(TextsOf(form, v)[i])
              /\ StringsOf(form, MemberJson(form, v))[i] = TextJson(TextsOf(form, v)[i])
<1> DEFINE texts == TextsOf(form, v)
           strings == StringsOf(form, MemberJson(form, v))
           As == /\ DOMAIN strings = DOMAIN texts
                 /\ \A i \in DOMAIN texts : IsText(texts[i]) /\ strings[i] = TextJson(texts[i])
<1>0. ASSUME NEW t, IsText(t), texts = <<t>>, strings = <<TextJson(t)>>
      PROVE  As
  <2> HIDE DEF texts, strings
  <2>1. /\ DOMAIN texts = {1} /\ DOMAIN strings = {1}
        /\ texts[1] = t /\ strings[1] = TextJson(t)
    BY <1>0
  <2> QED
    BY <2>1, <1>0
<1>1. CASE form = "Text"
  <2>1. IsText(v)
    BY <1>1 DEF Holds
  <2>2. texts = <<v>>
    BY <1>1 DEF TextsOf
  <2>3. strings = <<TextJson(v)>>
    <3>1. MemberJson(form, v) = TextJson(v)
      BY <1>1 DEF MemberJson
    <3> QED
      BY <3>1, <1>1 DEF StringsOf
  <2> QED
    BY <1>0, <2>1, <2>2, <2>3
<1>2. CASE form = "StringArray"
  <2>1. \A i \in DOMAIN v : IsText(v[i])
    BY <1>2 DEF Holds
  <2>2. texts = v
    BY <1>2 DEF TextsOf
  <2>3. strings = [i \in DOMAIN v |-> TextJson(v[i])]
    <3>1. MemberJson(form, v) = [i \in DOMAIN v |-> TextJson(v[i])]
      BY <1>2 DEF MemberJson
    <3> QED
      BY <3>1, <1>2 DEF StringsOf
  <2>4. As
    <3> HIDE DEF texts, strings
    <3> QED
      BY <2>1, <2>2, <2>3
  <2> QED
    BY <2>4
<1>3. CASE form = "Font"
  <2> DEFINE family == FontFamily(v)
             t == [text_size |-> Len(family), text |-> family]
  <2>1. family \in Bytes
    BY <1>3, FontFamilyIsText DEF Holds
  <2> HIDE DEF family
  <2>2. IsText(t)
    BY <2>1 DEF IsText
  <2>3. texts = <<t>>
    BY <1>3 DEF TextsOf, family
  <2>4. TextJson(t) = Sanitize(family, Len(family))
    BY DEF TextJson
  <2>5. strings = <<TextJson(t)>>
    <3>1. MemberJson(form, v) = [size |-> FontSize(v), family |-> Sanitize(family, Len(family))]
      BY <1>3 DEF MemberJson, family
    <3> QED
      BY <3>1, <2>4, <1>3 DEF StringsOf
  <2> QED
    BY <1>0, <2>2, <2>3, <2>5
<1>4. CASE form \notin {"Text", "StringArray", "Font"}
  <2>1. texts = <<>>
    BY <1>4 DEF TextsOf
  <2>2. strings = <<>>
    BY <1>4 DEF StringsOf
  <2>3. As
    <3> HIDE DEF texts, strings
    <3> QED
      BY <2>1, <2>2
  <2> QED
    BY <2>3
<1> QED
  BY <1>1, <1>2, <1>3, <1>4

\* A member that is written is read back exactly if it is plain.
LEMMA MemberIsReadBack ==
  ASSUME NEW form \in Forms, NEW v, Holds(form, v)
  PROVE  ReadsBack(form, v, MemberJson(form, v)) <=> Plainly(form, v)
<1> DEFINE texts == TextsOf(form, v)
           w == MemberJson(form, v)
           strings == StringsOf(form, w)
           IsPlain(t) == /\ Len(t.text) = t.text_size
                            /\ \A k \in DOMAIN t.text : t.text[k] \notin Named
<1>1. \A i \in DOMAIN texts : TextReadsBack(texts[i], strings[i]) <=> IsPlain(texts[i])
  <2>1. \A i \in DOMAIN texts : IsText(texts[i]) /\ strings[i] = TextJson(texts[i])
    BY StringsAreTexts
  <2> HIDE DEF texts, strings
  <2> QED
    BY <2>1, TextIsReadBack
<1>2. form # "LongLong" => (Plainly(form, v) <=> \A i \in DOMAIN texts : IsPlain(texts[i]))
  BY DEF Plainly, Named
<1>3. CASE form \in {"Text", "StringArray"}
  <2>1. ReadsBack(form, v, w) <=> \A i \in DOMAIN texts : TextReadsBack(texts[i], strings[i])
    BY <1>3 DEF ReadsBack
  <2>2. form # "LongLong"
    BY <1>3
  <2>3. ReadsBack(form, v, w) <=> Plainly(form, v)
    <3> HIDE DEF texts, strings, w, IsPlain
    <3> QED
      BY <1>1, <1>2, <2>1, <2>2
  <2> QED
    BY <2>3
<1>4. CASE form = "Font"
  <2>1. w.size = IF Len(v) < 2 THEN 0 ELSE v[1] + 256 * v[2]
    <3>1. w.size = FontSize(v)
      BY <1>4 DEF MemberJson
    <3> QED
      BY <3>1 DEF FontSize, U16
  <2>2. DOMAIN texts = {1} /\ strings[1] = w.family
    BY <1>4 DEF TextsOf, StringsOf
  <2>3. ReadsBack(form, v, w) <=> TextReadsBack(texts[1], w.family)
    BY <1>4, <2>1 DEF ReadsBack
  <2>4. form # "LongLong"
    BY <1>4
  <2>5. ReadsBack(form, v, w) <=> Plainly(form, v)
    <3> HIDE DEF texts, strings, w, IsPlain
    <3> QED
      BY <1>1, <1>2, <2>2, <2>3, <2>4
  <2> QED
    BY <2>5
<1>5. CASE form = "LongLong"
  <2>1. v \in [1..16 -> Byte]
    BY <1>5 DEF Holds
  <2>2. w = LongLongJson(v)
    BY <1>5 DEF MemberJson
  <2>3. Plainly(form, v) <=> \A i \in 13..16 : v[i] = 0
    BY <1>5 DEF Plainly
  <2> QED
    BY <1>5, <2>1, <2>2, <2>3, LongLongIsReadBack
<1>6. CASE form \in {"Bool", "Byte", "Int", "Time", "Long", "IntArray", "LongArray", "Mac"}
  <2>1. w = v
    BY <1>6 DEF MemberJson
  <2>2. ReadsBack(form, v, w)
    <3> HIDE DEF w
    <3> QED
      BY <1>6, <2>1 DEF ReadsBack
  <2>3. texts = <<>>
    BY <1>6 DEF TextsOf
  <2>4. form # "LongLong"
    BY <1>6
  <2>5. ReadsBack(form, v, w) <=> Plainly(form, v)
    <3> HIDE DEF texts, w, IsPlain
    <3> QED
      BY <1>2, <2>2, <2>3, <2>4
  <2> QED
    BY <2>5
<1> QED
  BY <1>3, <1>4, <1>5, <1>6, FormsAre

-----------------------------------------------------------------------------
(* The loop.                                                               *)

\* The JSON of the first objects.
JsonOf(n) == [j \in 1..n |-> SerializeJson(S, data[j], has_credentials)]

\* What has been written is the JSON of the objects before the current one.
Written ==
  /\ structure \in DOMAIN Structures
  /\ has_credentials \in BOOLEAN
  /\ IsTable(S, data)
  /\ \E n \in 0..Len(data) : json = JsonOf(n)

LEMMA OneMore ==
  ASSUME NEW n \in Nat, NEW f
  PROVE  /\ Append([j \in 1..n |-> f[j]], f[n + 1]) = [j \in 1..(n + 1) |-> f[j]]
         /\ Len([j \in 1..n |-> f[j]]) = n
<1> DEFINE C == {f[j] : j \in 1..(n + 1)}
           s == [j \in 1..n |-> f[j]]
           t == [j \in 1..(n + 1) |-> f[j]]
           c == f[n + 1]
<1>1. s \in [1..n -> C] /\ t \in [1..(n + 1) -> C] /\ c \in C
  <2>1. \A j \in 1..(n + 1) : f[j] \in C
    OBVIOUS
  <2>2. \A j \in 1..n : j \in 1..(n + 1)
    OBVIOUS
  <2>3. n + 1 \in 1..(n + 1)
    OBVIOUS
  <2> HIDE DEF C
  <2> QED
    BY <2>1, <2>2, <2>3
<1>2. /\ Len(s) = n /\ \A j \in 1..n : s[j] = f[j]
      /\ Len(t) = n + 1 /\ \A j \in 1..n : t[j] = f[j]
      /\ t[n + 1] = c
  OBVIOUS
<1> HIDE DEF s, t, C, c
<1>3. s \in Seq(C) /\ t \in Seq(C)
  <2>1. n + 1 \in Nat
    OBVIOUS
  <2> QED
    BY <1>1, <2>1, SeqDef
<1>4. /\ Append(s, c) \in Seq(C) /\ Len(Append(s, c)) = n + 1
      /\ \A j \in 1..n : Append(s, c)[j] = s[j]
      /\ Append(s, c)[n + 1] = c
  BY <1>1, <1>2, <1>3, AppendProperties
<1>5. \A j \in 1..(n + 1) : Append(s, c)[j] = t[j]
  <2>1. \A j \in 1..(n + 1) : j \in 1..n \/ j = n + 1
    OBVIOUS
  <2> QED
    BY <2>1, <1>2, <1>4
<1>6. Append(s, c) = t
  BY <1>2, <1>3, <1>4, <1>5, SeqEqual
<1> QED
  BY <1>2, <1>6 DEF s, t, c

LEMMA WrittenFirst ==
  ASSUME Init
  PROVE  Written
<1>1. structure \in DOMAIN Structures /\ has_credentials \in BOOLEAN
  BY DEF Init
<1>2. IsTable(S, data)
  BY TablesAssumption DEF Init, S
<1>3. 0 \in 0..Len(data)
  BY <1>2 DEF IsTable
<1>4. json = JsonOf(0)
  BY DEF Init, JsonOf
<1> QED
  BY <1>1, <1>2, <1>3, <1>4 DEF Written

LEMMA WrittenStays ==
  ASSUME Written, [Next]_vars
  PROVE  Written'
<1>1. CASE SerializeData
  <2>1. PICK n \in 0..Len(data) : json = JsonOf(n)
    BY DEF Written
  <2>2. Len(data) \in Nat
    BY DEF Written, IsTable
  <2> DEFINE f == [j \in 1..Len(data) |-> SerializeJson(S, data[j], has_credentials)]
  <2>3. \A m \in 0..Len(data) : JsonOf(m) = [j \in 1..m |-> f[j]]
    <3>1. \A m \in 0..Len(data) : \A j \in 1..m : j \in 1..Len(data)
      BY <2>2
    <3> QED
      BY <3>1 DEF JsonOf
  <2>4. \A m \in Nat : /\ Append([j \in 1..m |-> f[j]], f[m + 1]) = [j \in 1..(m + 1) |-> f[j]]
                       /\ Len([j \in 1..m |-> f[j]]) = m
    <3> HIDE DEF f
    <3> QED
      BY OneMore
  <2>5. n \in Nat /\ Len(json) = n
    BY <2>1, <2>2, <2>3, <2>4
  <2>6. n + 1 \in 0..Len(data) /\ n + 1 \in 1..Len(data)
    BY <1>1, <2>2, <2>5 DEF SerializeData
  <2>7. f[n + 1] = SerializeJson(S, data[n + 1], has_credentials)
    BY <2>6
  <2>8. json' = Append(json, f[n + 1])
    BY <1>1, <2>5, <2>7 DEF SerializeData, S
  <2>9. json' = JsonOf(n + 1)
    <3> HIDE DEF f
    <3> QED
      BY <2>1, <2>3, <2>4, <2>5, <2>6, <2>8
  <2>10. /\ structure' = structure /\ data' = data /\ has_credentials' = has_credentials
         /\ JsonOf(n + 1)' = JsonOf(n + 1) /\ S' = S
    BY <1>1 DEF SerializeData, JsonOf, S
  <2> QED
    BY <2>6, <2>9, <2>10 DEF Written
<1>2. CASE UNCHANGED vars
  BY <1>2 DEF Written, vars, JsonOf, S
<1> QED
  BY <1>1, <1>2 DEF Next

LEMMA WrittenAlways == Spec => []Written
<1>1. Init => Written
  BY WrittenFirst
<1>2. Written /\ [Next]_vars => Written'
  BY WrittenStays
<1> QED
  BY <1>1, <1>2, PTL DEF Spec

\* What is written for a member of an object.
LEMMA WrittenIs ==
  ASSUME Written
  PROVE  /\ Len(json) <= Len(data)
         /\ \A j \in DOMAIN json :
              /\ j \in DOMAIN data /\ DOMAIN json[j] = S.written
              /\ S.written \subseteq DOMAIN data[j] /\ DOMAIN data[j] = DOMAIN S.fields
              /\ \A n \in DOMAIN S.fields :
                   Form(S, n) \in Forms /\ Holds(Form(S, n), data[j][n])
              /\ \A n \in S.written :
                   json[j][n] = IF Masked(S, n, has_credentials) THEN Stars
                                ELSE MemberJson(Form(S, n), data[j][n])
<1>1. PICK n \in 0..Len(data) : json = JsonOf(n)
  BY DEF Written
<1>2. /\ Len(data) \in Nat /\ DOMAIN data = 1..Len(data)
      /\ \A j \in DOMAIN data :
           /\ DOMAIN data[j] = DOMAIN S.fields
           /\ \A m \in DOMAIN S.fields : Holds(Form(S, m), data[j][m])
  BY DEF Written, IsTable
<1>3. S.written \subseteq DOMAIN S.fields /\ \A m \in DOMAIN S.fields : Form(S, m) \in Forms
  BY StructuresAssumption DEF Written, IsStructure, S
<1>4. /\ Len(json) = n /\ DOMAIN json = 1..n
      /\ \A j \in 1..n : json[j] = SerializeJson(S, data[j], has_credentials)
  <2>1. n \in Nat
    BY <1>2
  <2> QED
    BY <1>1, <2>1 DEF JsonOf
<1>5. \A j \in 1..n :
        /\ DOMAIN json[j] = S.written
        /\ \A m \in S.written : json[j][m] = IF Masked(S, m, has_credentials) THEN Stars
                                              ELSE MemberJson(Form(S, m), data[j][m])
  BY <1>4 DEF SerializeJson
<1>6. \A j \in 1..n : j \in DOMAIN data
  BY <1>2
<1>7. n <= Len(data)
  BY <1>2
<1> QED
  BY <1>2, <1>3, <1>4, <1>5, <1>6, <1>7

-----------------------------------------------------------------------------
(* The theorems.                                                           *)

\* What the SerializeJson of a structure may do with its members: mask all its
\* user names and passwords, mask nothing else, and forget the images alone.
MasksSecrets(s) ==
  \A n \in s.written : s.fields[n].id \in Credentials => s.fields[n].id \in s.masked

MasksNothingElse(s) ==
  \A n \in s.written : s.fields[n].id \in s.masked => s.fields[n].id \in Credentials

ForgetsImages(s) ==
  \A n \in DOMAIN s.fields : n \in s.written <=> s.fields[n].id \notin ImageIds

\* The loop of SerializeData never goes past the last object, and each object
\* it writes has no members but its own.
THEOREM TypeCorrect == Spec => []TypeOK
<1>1. Written => TypeOK
  <2> SUFFICES ASSUME Written
               PROVE  TypeOK
    OBVIOUS
  <2>1. structure \in DOMAIN Structures /\ has_credentials \in BOOLEAN
    BY DEF Written
  <2>2. /\ Len(json) <= Len(data)
        /\ \A j \in DOMAIN json : DOMAIN json[j] \subseteq DOMAIN data[j]
    BY WrittenIs
  <2> QED
    BY <2>1, <2>2 DEF TypeOK
<1> QED
  BY <1>1, WrittenAlways, PTL

\* Whatever bytes the texts of the database are made of, Sanitize keeps each
\* of them between its quotes, but exactly for the two cases in which it goes
\* by the length the text had before its backslashes were doubled.
THEOREM TextsStay == Spec => []TextsStayInQuotes
<1>1. ASSUME Written
      PROVE  TextsStayInQuotes
  <2> SUFFICES ASSUME NEW j \in DOMAIN json, NEW n \in DOMAIN json[j],
                      ~Masked(S, n, has_credentials)
               PROVE  LET texts   == TextsOf(Form(S, n), data[j][n])
                          strings == StringsOf(Form(S, n), json[j][n])
                      IN /\ DOMAIN strings = DOMAIN texts
                         /\ \A i \in DOMAIN texts :
                              ~IsJsonText(strings[i]) <=>
                                /\ Len(texts[i].text) = texts[i].text_size
                                /\ ZeroLeft(texts[i].text) \/ CutInEscape(texts[i].text)
    BY DEF TextsStayInQuotes
  <2> DEFINE form    == Form(S, n)
             v       == data[j][n]
             texts   == TextsOf(form, v)
             strings == StringsOf(form, MemberJson(form, v))
  <2>1. form \in Forms /\ Holds(form, v) /\ json[j][n] = MemberJson(form, v)
    BY <1>1, WrittenIs
  <2> HIDE DEF form, v
  <2>2. /\ DOMAIN strings = DOMAIN texts
        /\ \A i \in DOMAIN texts : IsText(texts[i]) /\ strings[i] = TextJson(texts[i])
    BY <2>1, StringsAreTexts
  <2> HIDE DEF texts, strings
  <2>3. ASSUME NEW i \in DOMAIN texts
        PROVE  ~IsJsonText(strings[i]) <=>
                 /\ Len(texts[i].text) = texts[i].text_size
                 /\ ZeroLeft(texts[i].text) \/ CutInEscape(texts[i].text)
    <3> DEFINE t == texts[i]
    <3>1. t.text \in Bytes /\ strings[i] = TextJson(t)
      BY <2>2 DEF IsText
    <3> HIDE DEF t
    <3>2. ~IsJsonText(TextJson(t)) <=>
            /\ Len(t.text) = t.text_size
            /\ ZeroLeft(t.text) \/ CutInEscape(t.text)
      BY <3>1, TextStays
    <3> QED
      BY <3>1, <3>2 DEF t
  <2> QED
    BY <2>1, <2>2, <2>3 DEF texts, strings, form, v
<1> QED
  BY <1>1, WrittenAlways, PTL

\* If every structure masks its user names and passwords, none of them is in
\* the document without -c, whatever the tables hold.
THEOREM SecretsStay ==
  ASSUME \A x \in DOMAIN Structures : MasksSecrets(Structures[x])
  PROVE  Spec => []CredentialsMasked
<1>1. ASSUME Written
      PROVE  CredentialsMasked
  <2>1. MasksSecrets(S)
    BY <1>1 DEF Written, S
  <2> SUFFICES ASSUME ~has_credentials, NEW j \in DOMAIN json, NEW n \in DOMAIN S.fields,
                      IdOf(n) \in Credentials, n \in DOMAIN json[j]
               PROVE  json[j][n] = Stars
    BY DEF CredentialsMasked
  <2>2. n \in S.written
    BY <1>1, WrittenIs
  <2>3. Masked(S, n, has_credentials)
    BY <2>1, <2>2 DEF MasksSecrets, Masked, IdOf
  <2> QED
    BY <1>1, <2>2, <2>3, WrittenIs
<1> QED
  BY <1>1, WrittenAlways, PTL

\* If, besides, the structures mask nothing else and forget the images alone,
\* a member can be read back from the document exactly if it is neither a
\* secret nor an image and holds what JSON can tell: whatever its bytes are.
THEOREM ReadBackExactly ==
  ASSUME \A x \in DOMAIN Structures : MasksSecrets(Structures[x]),
         \A x \in DOMAIN Structures : MasksNothingElse(Structures[x]),
         \A x \in DOMAIN Structures : ForgetsImages(Structures[x])
  PROVE  Spec => []MembersReadBack
<1>1. ASSUME Written
      PROVE  MembersReadBack
  <2>1. MasksSecrets(S) /\ MasksNothingElse(S) /\ ForgetsImages(S)
    BY <1>1 DEF Written, S
  <2> SUFFICES ASSUME NEW j \in DOMAIN json, NEW n \in DOMAIN data[j]
               PROVE  LET form == Form(S, n)
                      IN (n \in DOMAIN json[j] /\ ~Masked(S, n, has_credentials)
                            /\ ReadsBack(form, data[j][n], json[j][n]))
                         <=> (/\ has_credentials \/ IdOf(n) \notin Credentials
                              /\ IdOf(n) \notin ImageIds
                              /\ Plainly(form, data[j][n]))
    BY DEF MembersReadBack
  <2> DEFINE form == Form(S, n)
             v    == data[j][n]
             w    == json[j][n]
  <2>2. /\ n \in DOMAIN S.fields /\ form \in Forms /\ Holds(form, v)
        /\ n \in DOMAIN json[j] <=> n \in S.written
        /\ n \in S.written /\ ~Masked(S, n, has_credentials) => w = MemberJson(form, v)
    BY <1>1, WrittenIs
  <2>3. ReadsBack(form, v, MemberJson(form, v)) <=> Plainly(form, v)
    BY <2>2, MemberIsReadBack
  <2>4. n \in S.written <=> IdOf(n) \notin ImageIds
    BY <2>1, <2>2 DEF ForgetsImages, IdOf
  <2>5. n \in S.written =>
          (~Masked(S, n, has_credentials) <=> has_credentials \/ IdOf(n) \notin Credentials)
    BY <2>1 DEF MasksSecrets, MasksNothingElse, Masked, IdOf
  <2> HIDE DEF form, v, w
  <2>6. (n \in DOMAIN json[j] /\ ~Masked(S, n, has_credentials) /\ ReadsBack(form, v, w))
          <=> (/\ has_credentials \/ IdOf(n) \notin Credentials
               /\ IdOf(n) \notin ImageIds
               /\ Plainly(form, v))
    BY <2>2, <2>3, <2>4, <2>5
  <2> QED
    BY <2>6 DEF form, v, w
<1> QED
  BY <1>1, WrittenAlways, PTL
===============================================================================
