--------------------------- MODULE FieldReadsProofs --------------------------
(***************************************************************************)
(* What one call of the parser computes, for every blob: where the loop    *)
(* over the strings of an array ends, which offsets a call may leave the   *)
(* cursor at, and that a call succeeds just when the format says the field *)
(* is there.  The theorems about the parser and about the readers of the   *)
(* tables rest on these lemmas.                                            *)
(***************************************************************************)
EXTENDS FieldReads, BlobFormat, SequenceTheorems, WellFoundedInduction, TLAPS

-----------------------------------------------------------------------------
(* Induction over the natural numbers in the form of sets, for proofs      *)
(* about what a loop of the code computes after n turns.                   *)

\* A set of natural numbers that is not empty has a least element.
LEMMA LeastElement ==
  ASSUME NEW T, T \subseteq Nat, T # {}
  PROVE  \E x \in T : \A y \in T : x <= y
<1> DEFINE Less == {pair \in Nat \X Nat : pair[1] < pair[2]}
<1>1. OpToRel(<, Nat) = Less
  BY Zenon DEF OpToRel
<1>2. IsWellFoundedOn(Less, Nat)
  BY <1>1, NatLessThanWellFounded, Zenon
<1> HIDE DEF Less
<1>3. PICK x \in T : \A y \in T : ~ (<<y, x>> \in Less)
  BY <1>2, WFMin
<1> USE DEF Less
<1>4. ASSUME NEW y \in T, y < x
      PROVE  FALSE
  <2>1. <<y, x>> \in Nat \X Nat /\ <<y, x>>[1] < <<y, x>>[2]
    BY <1>4
  <2> QED
    BY <2>1, <1>3
<1> QED
  BY <1>4

\* A set that holds 0 and, with each of its naturals, the next one, holds all.
LEMMA SetInduction ==
  ASSUME NEW S, 0 \in S, \A n \in Nat : n \in S => n + 1 \in S
  PROVE  Nat \subseteq S
<1> SUFFICES ASSUME Nat \ S # {}
             PROVE  FALSE
  OBVIOUS
<1>1. PICK n \in Nat \ S : \A m \in Nat \ S : n <= m
  BY LeastElement
<1>2. n # 0 /\ n - 1 \in Nat /\ n - 1 \in S
  BY <1>1
<1> QED
  BY <1>1, <1>2

-----------------------------------------------------------------------------
(* Numbers in a blob.                                                      *)

\* A byte of the blob is a natural number.
LEMMA ByteIsNat ==
  ASSUME NEW b, NEW n \in Nat, \A i \in 1..n : b[i] \in Byte,
         NEW o \in Nat, NEW k \in 1..4, o + k <= n
  PROVE  b[o + k] \in Nat
<1>1. o + k \in 1..n
  OBVIOUS
<1>2. \A x \in Byte : x \in Nat
  BY DEF Byte
<1> QED
  BY <1>1, <1>2, Zenon

\* Two or three digits of base 256 make a natural number.
LEMMA TwoDigits ==
  ASSUME NEW b, NEW o, b[o + 1] \in Nat, b[o + 2] \in Nat
  PROVE  U16(b, o) \in Nat
BY DEF U16

LEMMA ThreeDigits ==
  ASSUME NEW b, NEW o, b[o + 1] \in Nat, b[o + 2] \in Nat, b[o + 3] \in Nat
  PROVE  IdAt(b, o) \in Nat
BY DEF U24, IdAt

\* The numbers at offsets inside a function from 1..n to bytes.
LEMMA NumbersInFunction ==
  ASSUME NEW b, NEW n \in Nat, \A i \in 1..n : b[i] \in Byte, NEW o \in Nat
  PROVE  /\ o + 1 <= n => U8(b, o) \in Byte
         /\ o + 2 <= n => U16(b, o) \in Nat
         /\ o + 4 <= n => IdAt(b, o) \in Nat /\ TypeAt(b, o) \in Byte
<1>1. o + 1 <= n => U8(b, o) \in Byte
  BY DEF U8
<1>2. ASSUME o + 2 <= n
      PROVE  U16(b, o) \in Nat
  <2>1. b[o + 1] \in Nat /\ b[o + 2] \in Nat
    BY <1>2, ByteIsNat
  <2> QED
    BY <2>1, TwoDigits, Zenon
<1>3. ASSUME o + 4 <= n
      PROVE  IdAt(b, o) \in Nat
  <2>1. b[o + 1] \in Nat /\ b[o + 2] \in Nat /\ b[o + 3] \in Nat
    BY <1>3, ByteIsNat
  <2> QED
    BY <2>1, ThreeDigits, Zenon
<1>4. o + 4 <= n => TypeAt(b, o) \in Byte
  BY DEF TypeAt
<1> QED
  BY <1>1, <1>2, <1>3, <1>4

LEMMA LengthIsNat ==
  ASSUME NEW b \in Bytes
  PROVE  Len(b) \in Nat
BY LenProperties DEF Bytes

\* The numbers at offsets inside a blob.
LEMMA NumbersInBlob ==
  ASSUME NEW b \in Bytes, NEW o \in Nat
  PROVE  /\ o + 1 <= Len(b) => U8(b, o) \in Byte
         /\ o + 2 <= Len(b) => U16(b, o) \in Nat
         /\ o + 4 <= Len(b) => IdAt(b, o) \in Nat /\ TypeAt(b, o) \in Byte
<1>1. \A i \in 1..Len(b) : b[i] \in Byte
  BY ElementOfSeq DEF Bytes
<1> QED
  BY <1>1, LengthIsNat, NumbersInFunction, Zenon

-----------------------------------------------------------------------------
(* The loop over the strings of an array.                                  *)

\* One turn of the loop moves forward and at most just behind the blob.
LEMMA EntryEndBounds ==
  ASSUME NEW b \in Bytes, NEW q \in Nat, q <= Len(b) + 1
  PROVE  EntryEnd(b, q) \in Nat /\ q <= EntryEnd(b, q) /\ EntryEnd(b, q) <= Len(b) + 1
<1>1. CASE Fits(b, q, 2) /\ Fits(b, q + 2, U16(b, q))
  BY <1>1, LengthIsNat, NumbersInBlob DEF EntryEnd, Fits
<1>2. CASE ~(Fits(b, q, 2) /\ Fits(b, q + 2, U16(b, q)))
  BY <1>2, LengthIsNat DEF EntryEnd
<1> QED
  BY <1>1, <1>2

\* A turn of the loop agrees with the format on every string that is there,
\* and both leave the blob with a string that is not.
LEMMA EntryEndIsStringEnd ==
  ASSUME NEW b \in Bytes, NEW q \in Nat, q <= Len(b) + 1
  PROVE  /\ StringEnd(b, q) \in Nat
         /\ \/ EntryEnd(b, q) = StringEnd(b, q)
            \/ EntryEnd(b, q) = Len(b) + 1 /\ StringEnd(b, q) > Len(b)
BY LengthIsNat, NumbersInBlob DEF EntryEnd, StringEnd, Fits

\* The loop of the code, unfolded: the cursor after each turn.
LEMMA EntriesUnfolded ==
  ASSUME NEW b \in Bytes, NEW p \in Nat, p <= Len(b) + 1, NEW n \in Nat
  PROVE  \E f \in [0..n -> Nat] :
           /\ f[0] = p
           /\ \A i \in 0..n : p <= f[i] /\ f[i] <= Len(b) + 1
           /\ \A i \in 1..n : f[i] = EntryEnd(b, f[i - 1])
           /\ EntriesEnd(b, p, n) = f[n]
<1> DEFINE Walk(m, f) == f = [i \in 0..m |-> IF i = 0 THEN p ELSE EntryEnd(b, f[i - 1])]
           Bounded(m, f) == \A i \in 0..m : f[i] \in Nat /\ p <= f[i] /\ f[i] <= Len(b) + 1
           Good == {m \in Nat : \E f : Walk(m, f) /\ Bounded(m, f)}
<1>1. 0 \in Good
  <2>1. Walk(0, [i \in 0..0 |-> p]) /\ Bounded(0, [i \in 0..0 |-> p])
    OBVIOUS
  <2> QED
    BY <2>1
<1>2. ASSUME NEW m \in Nat, m \in Good
      PROVE  m + 1 \in Good
  <2>1. PICK f : Walk(m, f) /\ Bounded(m, f)
    BY <1>2
  <2> DEFINE g == [i \in 0..(m + 1) |-> IF i = m + 1 THEN EntryEnd(b, f[m]) ELSE f[i]]
  <2>2. \A i \in 0..(m + 1) : g[i] = IF i = 0 THEN p ELSE EntryEnd(b, g[i - 1])
    BY <2>1
  <2>3. Bounded(m + 1, g)
    BY <2>1, EntryEndBounds, LengthIsNat
  <2>4. Walk(m + 1, g)
    BY <2>2
  <2> HIDE DEF g
  <2>5. \E h : Walk(m + 1, h) /\ Bounded(m + 1, h)
    BY <2>3, <2>4
  <2>6. m + 1 \in Nat
    OBVIOUS
  <2> HIDE DEF Walk, Bounded
  <2> QED
    BY <2>5, <2>6, Zenon
<1>3. n \in Good
  BY <1>1, <1>2, SetInduction
<1>4. PICK f : Walk(n, f) /\ Bounded(n, f)
  BY <1>3
<1> DEFINE e == CHOOSE h : Walk(n, h)
<1>5. Walk(n, e) /\ EntriesEnd(b, p, n) = e[n]
  BY <1>4 DEF EntriesEnd
<1>6. e = f
  <2> HIDE DEF e
  <2> DEFINE Same == {i \in Nat : i <= n => e[i] = f[i]}
  <2>1. 0 \in Same
    BY <1>4, <1>5
  <2>2. ASSUME NEW i \in Nat, i \in Same
        PROVE  i + 1 \in Same
    BY <1>4, <1>5, <2>2
  <2>3. Nat \subseteq Same
    <3> HIDE DEF Same
    <3> QED
      BY <2>1, <2>2, SetInduction
  <2>4. \A i \in 0..n : e[i] = f[i]
    BY <2>3
  <2> QED
    BY <1>4, <1>5, <2>4
<1>7. \A i \in 1..n : f[i] = EntryEnd(b, f[i - 1])
  BY <1>4
<1>8. f[0] = p /\ f \in [0..n -> Nat]
  BY <1>4
<1>9. EntriesEnd(b, p, n) = f[n]
  BY <1>5, <1>6
<1>10. \A i \in 0..n : p <= f[i] /\ f[i] <= Len(b) + 1
  BY <1>4
<1> QED
  BY <1>7, <1>8, <1>9, <1>10

LEMMA StringEndIsNat ==
  ASSUME NEW b \in Bytes, NEW q \in Nat
  PROVE  StringEnd(b, q) \in Nat
BY LengthIsNat, NumbersInBlob DEF StringEnd

\* The format's list of strings, unfolded in the same way.
LEMMA StringsUnfolded ==
  ASSUME NEW b \in Bytes, NEW p \in Nat, p <= Len(b) + 1, NEW n \in Nat
  PROVE  \E f \in [0..n -> Nat] :
           /\ f[0] = p
           /\ \A i \in 1..n : f[i] = StringEnd(b, f[i - 1])
           /\ StringsEnd(b, p, n) = f[n]
<1> DEFINE Walk(m, f) == f = [i \in 0..m |-> IF i = 0 THEN p ELSE StringEnd(b, f[i - 1])]
           Typed(m, f) == \A i \in 0..m : f[i] \in Nat
           Good == {m \in Nat : \E f : Walk(m, f) /\ Typed(m, f)}
<1>1. 0 \in Good
  <2>1. Walk(0, [i \in 0..0 |-> p]) /\ Typed(0, [i \in 0..0 |-> p])
    OBVIOUS
  <2> QED
    BY <2>1
<1>2. ASSUME NEW m \in Nat, m \in Good
      PROVE  m + 1 \in Good
  <2>1. PICK f : Walk(m, f) /\ Typed(m, f)
    BY <1>2
  <2> DEFINE g == [i \in 0..(m + 1) |-> IF i = m + 1 THEN StringEnd(b, f[m]) ELSE f[i]]
  <2>2. \A i \in 0..(m + 1) : g[i] = IF i = 0 THEN p ELSE StringEnd(b, g[i - 1])
    BY <2>1
  <2>3. StringEnd(b, f[m]) \in Nat
    <3>1. f[m] \in Nat
      BY <2>1
    <3> QED
      BY <3>1, StringEndIsNat, Zenon
  <2>4. Typed(m + 1, g)
    BY <2>1, <2>3
  <2>5. Walk(m + 1, g)
    BY <2>2
  <2> HIDE DEF g
  <2>6. \E h : Walk(m + 1, h) /\ Typed(m + 1, h)
    BY <2>4, <2>5
  <2>7. m + 1 \in Nat
    OBVIOUS
  <2> HIDE DEF Walk, Typed
  <2> QED
    BY <2>6, <2>7, Zenon
<1>3. n \in Good
  BY <1>1, <1>2, SetInduction
<1>4. PICK f : Walk(n, f) /\ Typed(n, f)
  BY <1>3
<1> DEFINE e == CHOOSE h : Walk(n, h)
<1>5. Walk(n, e) /\ StringsEnd(b, p, n) = e[n]
  BY <1>4 DEF StringsEnd
<1>6. \A i \in 0..n : e[i] \in Nat
  <2> HIDE DEF e
  <2> DEFINE Nats == {i \in Nat : i <= n => e[i] \in Nat}
  <2>1. 0 \in Nats
    BY <1>5
  <2>2. ASSUME NEW i \in Nat, i \in Nats
        PROVE  i + 1 \in Nats
    <3> SUFFICES ASSUME i + 1 <= n
                 PROVE  e[i + 1] \in Nat
      OBVIOUS
    <3>1. e[i + 1] = StringEnd(b, e[i])
      BY <1>5
    <3>2. e[i] \in Nat
      BY <2>2
    <3> QED
      BY <3>1, <3>2, StringEndIsNat, Zenon
  <2>3. Nat \subseteq Nats
    <3> HIDE DEF Nats
    <3> QED
      BY <2>1, <2>2, SetInduction
  <2> QED
    BY <2>3
<1> HIDE DEF e
<1>7. e \in [0..n -> Nat] /\ e[0] = p
  BY <1>5, <1>6
<1>8. \A i \in 1..n : e[i] = StringEnd(b, e[i - 1])
  BY <1>5
<1> QED
  BY <1>5, <1>7, <1>8

\* The loop ends where the format says the strings end, and behind the blob
\* exactly when they do.
LEMMA EntriesEndIsStringsEnd ==
  ASSUME NEW b \in Bytes, NEW p \in Nat, p <= Len(b) + 1, NEW n \in Nat
  PROVE  /\ EntriesEnd(b, p, n) \in Nat /\ StringsEnd(b, p, n) \in Nat
         /\ p <= EntriesEnd(b, p, n)
         /\ \/ EntriesEnd(b, p, n) <= Len(b) /\ EntriesEnd(b, p, n) = StringsEnd(b, p, n)
            \/ EntriesEnd(b, p, n) > Len(b) /\ StringsEnd(b, p, n) > Len(b)
<1>1. PICK e \in [0..n -> Nat] :
        /\ e[0] = p
        /\ \A i \in 0..n : p <= e[i] /\ e[i] <= Len(b) + 1
        /\ \A i \in 1..n : e[i] = EntryEnd(b, e[i - 1])
        /\ EntriesEnd(b, p, n) = e[n]
  BY EntriesUnfolded, Zenon
<1>2. PICK s \in [0..n -> Nat] :
        /\ s[0] = p
        /\ \A i \in 1..n : s[i] = StringEnd(b, s[i - 1])
        /\ StringsEnd(b, p, n) = s[n]
  BY StringsUnfolded, Zenon
<1> DEFINE Agree(x, y) == \/ x <= Len(b) /\ x = y
                          \/ x = Len(b) + 1 /\ y > Len(b)
           Same == {i \in Nat : i <= n => Agree(e[i], s[i])}
<1>3. 0 \in Same
  BY <1>1, <1>2, LengthIsNat
<1>4. ASSUME NEW x \in Nat, NEW y \in Nat, x <= Len(b) + 1, Agree(x, y)
      PROVE  Agree(EntryEnd(b, x), StringEnd(b, y))
  <2>1. CASE x <= Len(b) /\ x = y
    <3>1. /\ StringEnd(b, x) \in Nat /\ EntryEnd(b, x) \in Nat
          /\ EntryEnd(b, x) <= Len(b) + 1
          /\ \/ EntryEnd(b, x) = StringEnd(b, x)
             \/ EntryEnd(b, x) = Len(b) + 1 /\ StringEnd(b, x) > Len(b)
      BY <1>4, EntryEndIsStringEnd, EntryEndBounds, Zenon
    <3>2. Len(b) \in Nat
      BY LengthIsNat
    <3> QED
      BY <2>1, <3>1, <3>2
  <2>2. CASE x = Len(b) + 1 /\ y > Len(b)
    BY <2>2, LengthIsNat DEF EntryEnd, StringEnd, Fits
  <2>3. (x <= Len(b) /\ x = y) \/ (x = Len(b) + 1 /\ y > Len(b))
    BY <1>4, Zenon
  <2> HIDE DEF Agree
  <2> QED
    BY <2>1, <2>2, <2>3, Zenon
<1>5. ASSUME NEW i \in Nat, i \in Same
      PROVE  i + 1 \in Same
  <2> SUFFICES ASSUME i + 1 <= n
               PROVE  Agree(e[i + 1], s[i + 1])
    OBVIOUS
  <2>1. i \in 0..n /\ i + 1 \in 1..n /\ (i + 1) - 1 = i
    OBVIOUS
  <2>2. e[i + 1] = EntryEnd(b, e[i]) /\ s[i + 1] = StringEnd(b, s[i])
    BY <1>1, <1>2, <2>1
  <2>3. e[i] \in Nat /\ s[i] \in Nat /\ e[i] <= Len(b) + 1 /\ Agree(e[i], s[i])
    BY <1>1, <1>2, <1>5, <2>1
  <2> HIDE DEF Agree
  <2> QED
    BY <1>4, <2>2, <2>3
<1>6. n \in Same
  <2> HIDE DEF Same
  <2> QED
    BY <1>3, <1>5, SetInduction
<1>7. Agree(e[n], s[n]) /\ e[n] \in Nat /\ s[n] \in Nat /\ p <= e[n]
  BY <1>1, <1>6
<1> QED
  BY <1>1, <1>2, <1>7, LengthIsNat

-----------------------------------------------------------------------------
(* What one call computes.                                                 *)

\* The outcome of reading, at o, a payload that the format ends at "end" and
\* that the call may refuse for another reason unless "fine" holds.
Exact(out, b, o, end, fine) ==
  /\ end \in Nat
  /\ out.result \in ParserResult
  /\ out.filled \in {"header", "partly", "whole"}
  /\ out.offset \in Nat /\ o <= out.offset /\ out.offset <= Len(b)
  /\ (out.result = "Success") <=> (end <= Len(b) /\ fine)
  /\ out.result = "Success" => out.offset = end
  /\ (out.result = "Success") <=> (out.filled = "whole")
  /\ out.result # "Success" =>
       \/ out.offset = o
       \/ /\ out.offset = o + HeaderSize /\ out.filled = "header"
          /\ end > Len(b) /\ TypeAt(b, o) \in FixedTypes
  /\ out.filled = "partly" => end > Len(b) \/ ~fine

\* A call that takes the whole payload, one that finds it cut off, and one that
\* refuses it.
LEMMA ExactTaken ==
  ASSUME NEW b \in Bytes, NEW o \in Nat, NEW end \in Nat, o <= end, end <= Len(b),
         NEW fine \in BOOLEAN, fine
  PROVE  Exact(Outcome("Success", end, "whole"), b, o, end, fine)
BY LengthIsNat DEF Exact, Outcome, ParserResult

LEMMA ExactCut ==
  ASSUME NEW b \in Bytes, NEW o \in Nat, NEW end \in Nat, end > Len(b),
         NEW fine \in BOOLEAN, o <= Len(b), NEW filled \in {"header", "partly"}
  PROVE  Exact(Outcome("EndOfFile", o, filled), b, o, end, fine)
BY LengthIsNat DEF Exact, Outcome, ParserResult

LEMMA ExactRefused ==
  ASSUME NEW b \in Bytes, NEW o \in Nat, o <= Len(b), NEW end \in Nat,
         NEW fine \in BOOLEAN, ~fine
  PROVE  Exact(Outcome("InvalidFieldArguments", o, "partly"), b, o, end, fine)
BY LengthIsNat DEF Exact, Outcome, ParserResult

\* A payload of fixed size.
LEMMA ReadFixedExact ==
  ASSUME NEW b \in Bytes, NEW o \in Nat, o + HeaderSize <= Len(b),
         TypeAt(b, o) \in FixedTypes
  PROVE  Exact(ReadFixed(b, o), b, o, FieldEnd(b, o), TRUE)
<1> DEFINE n == FixedSize(TypeAt(b, o))
<1>1. n \in Nat /\ FieldEnd(b, o) = o + HeaderSize + n
  BY DEF FixedTypes, FixedSize, FieldEnd, PayloadEnd, FieldType, HeaderSize
<1>2. Len(b) \in Nat
  BY LengthIsNat
<1> HIDE DEF n
<1>3. CASE Fits(b, o + HeaderSize, n)
  <2>1. ReadFixed(b, o) = Outcome("Success", o + HeaderSize + n, "whole")
    BY <1>3 DEF ReadFixed, n
  <2> QED
    BY <1>1, <1>2, <1>3, <2>1 DEF Exact, Outcome, Fits, ParserResult, HeaderSize
<1>4. CASE ~Fits(b, o + HeaderSize, n)
  <2>1. ReadFixed(b, o) = Outcome("EndOfFile", o + HeaderSize, "header")
    BY <1>4 DEF ReadFixed, n
  <2> QED
    BY <1>1, <1>2, <1>4, <2>1 DEF Exact, Outcome, Fits, ParserResult, HeaderSize
<1> QED
  BY <1>3, <1>4

\* A payload with a count.
LEMMA ReadCountedExact ==
  ASSUME NEW b \in Bytes, NEW o \in Nat, o + HeaderSize <= Len(b),
         NEW kind, NEW c \in {1, 2}, NEW unit \in {1, 4},
         kind = "Mac" => c = 1 /\ unit = 1
  PROVE  Exact(ReadCounted(b, o, kind, c, unit), b, o,
               CountedEnd(b, o + HeaderSize, c, unit),
               kind = "Mac" => U8(b, o + HeaderSize) \notin 1..5)
<1> DEFINE p == o + HeaderSize
           n == unit * (IF c = 1 THEN U8(b, p) ELSE U16(b, p))
           fine == kind = "Mac" => U8(b, p) \notin 1..5
           out == ReadCounted(b, o, kind, c, unit)
           end == CountedEnd(b, p, c, unit)
<1> SUFFICES Exact(out, b, o, end, fine)
  OBVIOUS
<1>1. Len(b) \in Nat /\ p \in Nat /\ o <= p /\ p <= Len(b) /\ o <= Len(b)
  BY LengthIsNat DEF HeaderSize
<1>2. c \in Nat /\ fine \in BOOLEAN
  OBVIOUS
<1>3. CASE ~Fits(b, p, c)
  <2>1. out = Outcome("EndOfFile", o, "header")
    BY <1>3 DEF ReadCounted
  <2>2. p + c > Len(b)
    BY <1>1, <1>2, <1>3 DEF Fits
  <2>3. end = Len(b) + 1
    BY <2>2 DEF CountedEnd
  <2> HIDE DEF out, end, fine
  <2>4. end \in Nat /\ end > Len(b)
    BY <1>1, <2>3
  <2> QED
    BY <1>1, <1>2, <2>1, <2>4, ExactCut
<1>4. CASE Fits(b, p, c)
  <2>1. n \in Nat /\ (kind = "Mac" => n = U8(b, p))
    <3>1. CASE c = 1
      <4>1. U8(b, p) \in Nat
        <5>1. U8(b, p) \in Byte
          BY <1>1, <1>4, <3>1, NumbersInBlob DEF Fits
        <5>2. \A x \in Byte : x \in Nat
          BY DEF Byte
        <5> QED
          BY <5>1, <5>2, Zenon
      <4> QED
        BY <3>1, <4>1
    <3>2. CASE c = 2
      <4>1. U16(b, p) \in Nat
        BY <1>1, <1>4, <3>2, NumbersInBlob DEF Fits
      <4> QED
        BY <3>2, <4>1
    <3> QED
      BY <3>1, <3>2
  <2>2. ~(p + c > Len(b))
    BY <1>1, <1>2, <1>4 DEF Fits
  <2>3. end = p + c + n
    BY <2>2 DEF CountedEnd
  <2>4. ~fine <=> kind = "Mac" /\ n \in 1..5
    <3> HIDE DEF n
    <3> QED
      BY <2>1
  <2>5. out = IF kind = "Mac" /\ n \in 1..5 THEN Outcome("InvalidFieldArguments", o, "partly")
              ELSE IF ~Fits(b, p + c, n)    THEN Outcome("EndOfFile", o, "partly")
              ELSE Outcome("Success", p + c + n, "whole")
    BY <1>4 DEF ReadCounted
  <2> HIDE DEF out, end, fine, n, p
  <2>6. end \in Nat /\ o <= end /\ (Fits(b, p + c, n) <=> end <= Len(b))
    BY <1>1, <1>2, <2>1, <2>3 DEF Fits
  <2>7. CASE ~fine
    BY <1>1, <1>2, <2>4, <2>5, <2>6, <2>7, ExactRefused
  <2>8. CASE fine /\ ~Fits(b, p + c, n)
    <3>1. end > Len(b)
      BY <1>1, <2>6, <2>8
    <3>2. out = Outcome("EndOfFile", o, "partly")
      BY <2>4, <2>5, <2>8
    <3>3. Exact(Outcome("EndOfFile", o, "partly"), b, o, end, fine)
      BY <1>1, <1>2, <2>6, <3>1, ExactCut
    <3> QED
      BY <3>2, <3>3
  <2>9. CASE fine /\ Fits(b, p + c, n)
    <3>1. out = Outcome("Success", end, "whole")
      BY <2>3, <2>4, <2>5, <2>9
    <3>2. end \in Nat /\ o <= end /\ end <= Len(b) /\ fine
      BY <2>6, <2>9
    <3> QED
      <4>1. Exact(Outcome("Success", end, "whole"), b, o, end, fine)
        BY <1>2, <3>2, ExactTaken
      <4> QED
        BY <3>1, <4>1
  <2> QED
    BY <2>7, <2>8, <2>9
<1> QED
  BY <1>3, <1>4

\* An array of strings.
LEMMA ReadStringsExact ==
  ASSUME NEW b \in Bytes, NEW o \in Nat, o + HeaderSize <= Len(b),
         TypeAt(b, o) = FieldType.StringArray
  PROVE  Exact(ReadStrings(b, o), b, o, FieldEnd(b, o), TRUE)
<1> DEFINE p == o + HeaderSize
           e == EntriesEnd(b, p + 2, U16(b, p))
           end == FieldEnd(b, o)
           out == ReadStrings(b, o)
<1> SUFFICES Exact(out, b, o, end, TRUE)
  OBVIOUS
<1>1. Len(b) \in Nat /\ p \in Nat /\ o <= p /\ o <= Len(b)
  BY LengthIsNat DEF HeaderSize
<1>2. end = IF p + 2 > Len(b) THEN Len(b) + 1 ELSE StringsEnd(b, p + 2, U16(b, p))
  BY DEF FieldEnd, PayloadEnd, FieldType
<1>3. CASE ~Fits(b, p, 2)
  <2>1. out = Outcome("EndOfFile", o, "header")
    BY <1>3 DEF ReadStrings
  <2>2. end \in Nat /\ end > Len(b)
    BY <1>1, <1>2, <1>3 DEF Fits
  <2> HIDE DEF out, end
  <2>3. TRUE \in BOOLEAN /\ o <= o /\ "header" \in {"header", "partly"}
    BY <1>1
  <2> QED
    BY <1>1, <2>1, <2>2, <2>3, ExactCut, Zenon
<1>4. CASE Fits(b, p, 2)
  <2>1. U16(b, p) \in Nat /\ p + 2 \in Nat /\ p + 2 <= Len(b) + 1
    BY <1>1, <1>4, NumbersInBlob DEF Fits
  <2>2. /\ e \in Nat
        /\ p + 2 <= e
        /\ \/ e <= Len(b) /\ e = StringsEnd(b, p + 2, U16(b, p))
           \/ e > Len(b) /\ StringsEnd(b, p + 2, U16(b, p)) > Len(b)
    BY <2>1, EntriesEndIsStringsEnd, Zenon
  <2>3. StringsEnd(b, p + 2, U16(b, p)) \in Nat
    BY <2>1, EntriesEndIsStringsEnd, Zenon
  <2>4. end = StringsEnd(b, p + 2, U16(b, p))
    BY <1>1, <1>2, <1>4 DEF Fits
  <2>5. out = IF e > Len(b) THEN Outcome("EndOfFile", o, "partly")
              ELSE Outcome("Success", e, "whole")
    BY <1>4 DEF ReadStrings
  <2> HIDE DEF e, p, end, out
  <2>6. CASE e > Len(b)
    <3>1. end \in Nat /\ end > Len(b)
      BY <2>2, <2>3, <2>4, <2>6, <1>1
    <3>2. out = Outcome("EndOfFile", o, "partly")
      BY <2>5, <2>6
    <3>3. TRUE \in BOOLEAN /\ o <= o /\ "partly" \in {"header", "partly"}
      BY <1>1
    <3> QED
      BY <1>1, <3>1, <3>2, <3>3, ExactCut, Zenon
  <2>7. CASE ~(e > Len(b))
    <3>1. end = e /\ e \in Nat /\ e <= Len(b) /\ o <= e
      BY <1>1, <2>2, <2>4, <2>7
    <3>2. out = Outcome("Success", end, "whole")
      BY <2>5, <2>7, <3>1
    <3> QED
      BY <3>1, <3>2, ExactTaken
  <2> QED
    BY <2>6, <2>7
<1> QED
  BY <1>3, <1>4

\* The payload of every field an overload takes.
LEMMA ReadPayloadExact ==
  ASSUME NEW b \in Bytes, NEW o \in Nat, o + HeaderSize <= Len(b),
         NEW kind \in Kinds, TypeAt(b, o) \in Accepts[kind]
  PROVE  Exact(ReadPayload(b, o, kind), b, o, FieldEnd(b, o),
               kind = "Mac" => U8(b, o + HeaderSize) \notin 1..5)
<1> DEFINE t == TypeAt(b, o)
           fine == kind = "Mac" => U8(b, o + HeaderSize) \notin 1..5
<1>1. CASE kind \in {"Bool", "Byte", "Int", "Time", "Long", "LongLong"}
  <2>1. t \in FixedTypes
    BY <1>1 DEF Accepts, FixedTypes
  <2>2. ReadPayload(b, o, kind) = ReadFixed(b, o)
    BY <1>1 DEF ReadPayload
  <2>3. fine = TRUE
    BY <1>1
  <2> QED
    BY <2>1, <2>2, <2>3, ReadFixedExact
<1>2. CASE kind = "Text" /\ t = FieldType.ShortString
  <2>1. ReadPayload(b, o, kind) = ReadCounted(b, o, kind, 1, 1)
    BY <1>2 DEF ReadPayload
  <2>2. FieldEnd(b, o) = CountedEnd(b, o + HeaderSize, 1, 1)
    BY <1>2 DEF FieldEnd, PayloadEnd, FieldType
  <2> QED
    BY <1>2, <2>1, <2>2, ReadCountedExact
<1>3. CASE kind = "Text" /\ t = FieldType.LongString
  <2>1. ReadPayload(b, o, kind) = ReadCounted(b, o, kind, 2, 1)
    BY <1>3 DEF ReadPayload, FieldType
  <2>2. FieldEnd(b, o) = CountedEnd(b, o + HeaderSize, 2, 1)
    BY <1>3 DEF FieldEnd, PayloadEnd, FieldType
  <2> QED
    BY <1>3, <2>1, <2>2, ReadCountedExact
<1>4. CASE kind = "IntArray"
  <2>1. ReadPayload(b, o, kind) = ReadCounted(b, o, kind, 2, 4)
    BY <1>4 DEF ReadPayload
  <2>2. t = FieldType.IntArray
    BY <1>4 DEF Accepts
  <2>3. FieldEnd(b, o) = CountedEnd(b, o + HeaderSize, 2, 4)
    BY <2>2 DEF FieldEnd, PayloadEnd, FieldType
  <2> QED
    BY <1>4, <2>1, <2>3, ReadCountedExact
<1>5. CASE kind \in {"LongArray", "Mac"}
  <2>1. ReadPayload(b, o, kind) = ReadCounted(b, o, kind, 1, 1)
    BY <1>5 DEF ReadPayload
  <2>2. t = FieldType.LongArray
    BY <1>5 DEF Accepts
  <2>3. FieldEnd(b, o) = CountedEnd(b, o + HeaderSize, 1, 1)
    BY <2>2 DEF FieldEnd, PayloadEnd, FieldType
  <2> QED
    BY <1>5, <2>1, <2>3, ReadCountedExact
<1>6. CASE kind = "StringArray"
  <2>1. t = FieldType.StringArray
    BY <1>6 DEF Accepts
  <2>2. ReadPayload(b, o, kind) = ReadStrings(b, o)
    BY <1>6 DEF ReadPayload
  <2>3. fine = TRUE
    BY <1>6
  <2> QED
    BY <2>1, <2>2, <2>3, ReadStringsExact
<1>7. kind = "Text" => t \in {FieldType.ShortString, FieldType.LongString}
  BY DEF Accepts
<1> QED
  BY <1>1, <1>2, <1>3, <1>4, <1>5, <1>6, <1>7 DEF Kinds

\* What a call of ReadField may do, whatever the blob: stay inside it, never
\* go back, succeed just when the field at the cursor is readable and then
\* take it whole and stop at its end, and otherwise leave the cursor and the
\* value of the field alone, but for the exceptions FailedCallKeepsCursor and
\* FailureLeavesValue name.
GoodRead(out, b, o, kind, id) ==
  /\ out.result \in ParserResult
  /\ out.filled \in Filled
  /\ out.offset \in Nat /\ o <= out.offset /\ out.offset <= Len(b)
  /\ (out.result = "Success") <=> Readable(b, o, kind, id)
  /\ out.result = "Success" => out.offset = FieldEnd(b, o)
  /\ (out.result = "Success") <=> (out.filled = "whole")
  /\ out.result # "Success" =>
       \/ out.offset = o
       \/ out.offset = o + HeaderSize /\ out.filled = "header" /\ HeaderLost(b, o, kind, id)
  /\ (out.filled # "untouched") <=> (o + HeaderSize <= Len(b))
  /\ out.filled = "partly" => CutShort(b, o, kind, id)

LEMMA ReadFieldIsGood ==
  ASSUME NEW b \in Bytes, NEW o \in 0..Len(b), NEW kind \in Kinds, NEW id
  PROVE  GoodRead(ReadField(b, TRUE, o, kind, id), b, o, kind, id)
<1> DEFINE header == ReadFieldInfo(b, TRUE, o, id)
           out == ReadField(b, TRUE, o, kind, id)
<1> SUFFICES GoodRead(out, b, o, kind, id)
  OBVIOUS
<1>1. Len(b) \in Nat /\ o \in Nat /\ o <= Len(b)
  BY LengthIsNat
<1>2. header = "Success" <=> /\ HeaderThere(b, o)
                             /\ IdAt(b, o) \in {FieldId.None, id}
  BY DEF ReadFieldInfo, HeaderThere, Fits
<1>3. header \in ParserResult
  BY DEF ReadFieldInfo, ParserResult
<1>4. CASE header # "Success"
  <2>1. out = Outcome(header, o, InfoFilled(header))
    BY <1>4 DEF ReadField
  <2>2. ~Readable(b, o, kind, id)
    BY <1>2, <1>4 DEF Readable, FieldThere
  <2>3. header \notin {"Corrupted", "EndOfFile"} <=> o + HeaderSize <= Len(b)
    BY DEF ReadFieldInfo, Fits
  <2> HIDE DEF header, out
  <2> QED
    BY <1>1, <1>3, <1>4, <2>1, <2>2, <2>3 DEF GoodRead, Outcome, InfoFilled, Filled
<1>5. CASE header = "Success" /\ TypeAt(b, o) \notin Accepts[kind]
  <2>1. out = TypeMismatch(b, o, kind)
    BY <1>5 DEF ReadField
  <2>2. ~Readable(b, o, kind, id)
    BY <1>5 DEF Readable, HeldIn, Accepts
  <2>3. o + HeaderSize <= Len(b) /\ o + HeaderSize \in Nat /\ o <= o + HeaderSize
    <3>1. HeaderThere(b, o)
      BY <1>2, <1>5
    <3> HIDE DEF header, out
    <3> QED
      BY <1>1, <3>1 DEF HeaderThere, HeaderSize
  <2> HIDE DEF header, out
  <2>4. CASE kind = "Int" /\ TypeAt(b, o) = FieldType.Long
    <3>1. out = Outcome("FieldTypeMismatch", o + HeaderSize, "header")
      BY <2>1, <2>4 DEF TypeMismatch
    <3> QED
      <4>1. HeaderLost(b, o, kind, id)
        BY <1>2, <1>5, <2>4 DEF HeaderLost, header
      <4> QED
        BY <2>2, <2>3, <3>1, <4>1 DEF GoodRead, Outcome, ParserResult, Filled
  <2>5. CASE ~(kind = "Int" /\ TypeAt(b, o) = FieldType.Long)
    <3>1. out = Outcome("FieldTypeMismatch", o, "header")
      BY <2>1, <2>5 DEF TypeMismatch
    <3> QED
      BY <1>1, <2>2, <2>3, <3>1 DEF GoodRead, Outcome, ParserResult, Filled
  <2> QED
    BY <2>4, <2>5
<1>6. CASE header = "Success" /\ TypeAt(b, o) \in Accepts[kind]
  <2>1. out = ReadPayload(b, o, kind)
    BY <1>6 DEF ReadField
  <2>2. HeaderThere(b, o) /\ IdAt(b, o) \in {FieldId.None, id}
    BY <1>2, <1>6
  <2>3. o + HeaderSize <= Len(b)
    BY <2>2 DEF HeaderThere
  <2>4. Exact(out, b, o, FieldEnd(b, o), kind = "Mac" => U8(b, o + HeaderSize) \notin 1..5)
    BY <1>1, <1>6, <2>1, <2>3, ReadPayloadExact
  <2>5. Readable(b, o, kind, id) <=>
          /\ FieldEnd(b, o) <= Len(b)
          /\ kind = "Mac" => U8(b, o + HeaderSize) \notin 1..5
    BY <1>6, <2>2 DEF Readable, FieldThere, HeldIn, Accepts
  <2>6. FieldThere(b, o) <=> FieldEnd(b, o) <= Len(b)
    BY <2>2 DEF FieldThere
  <2>7. FieldEnd(b, o) > Len(b) => ~(FieldEnd(b, o) <= Len(b))
    BY <1>1, <2>4 DEF Exact
  <2>8. TypeAt(b, o) \in HeldIn[kind]
    BY <1>6 DEF HeldIn, Accepts
  <2>9. out.filled = "partly" => CutShort(b, o, kind, id)
    <3> HIDE DEF header, out
    <3> QED
      BY <2>2, <2>4, <2>8 DEF Exact, CutShort
  <2>10. out.result # "Success" =>
           \/ out.offset = o
           \/ out.offset = o + HeaderSize /\ out.filled = "header" /\ HeaderLost(b, o, kind, id)
    <3> HIDE DEF header, out
    <3> QED
      BY <2>2, <2>4, <2>6, <2>7, <2>8 DEF Exact, HeaderLost
  <2> HIDE DEF header, out
  <2> QED
    BY <1>1, <2>3, <2>4, <2>5, <2>6, <2>7, <2>9, <2>10 DEF GoodRead, Exact, Filled
<1> QED
  BY <1>4, <1>5, <1>6

\* What stands at o is not the field id: the blob ends there, goes on with no
\* field, or with one under another identifier.
Elsewhere(b, o, id) == HeaderThere(b, o) => IdAt(b, o) \notin {FieldId.None, id}

\* A call that asks for what is not at the cursor leaves the cursor and the
\* value of the field alone.
LEMMA ReadFieldMisses ==
  ASSUME NEW b, NEW o, NEW kind, NEW id, Elsewhere(b, o, id)
  PROVE  /\ ReadField(b, TRUE, o, kind, id).offset = o
         /\ ReadField(b, TRUE, o, kind, id).filled \in {"untouched", "header"}
<1> DEFINE header == ReadFieldInfo(b, TRUE, o, id)
           out == ReadField(b, TRUE, o, kind, id)
<1>1. header # "Success"
  BY DEF ReadFieldInfo, HeaderThere, Fits, Elsewhere
<1>2. out = Outcome(header, o, InfoFilled(header))
  BY <1>1 DEF ReadField
<1> HIDE DEF header, out
<1>3. out.offset = o /\ out.filled \in {"untouched", "header"}
  BY <1>2 DEF Outcome, InfoFilled
<1> QED
  BY <1>3 DEF out

\* What a call of SkipField may do: the same, with the overload it chooses.
GoodSkip(out, b, o) ==
  /\ out.result \in ParserResult
  /\ out.filled \in Filled
  /\ out.offset \in Nat /\ o <= out.offset /\ out.offset <= Len(b)
  /\ out.result = "Success" => FieldThere(b, o) /\ out.offset = FieldEnd(b, o)
  /\ out.result # "Success" => out.offset = o \/ ~FieldThere(b, o)

LEMMA SkipKindFits ==
  ASSUME NEW t \in FieldTypes
  PROVE  /\ SkipKind(t) \in Kinds
         /\ SkipKind(t) # "Mac"
         /\ SkipKind(t) = "Int" => t # FieldType.Long
<1>1. CASE t = 0
  BY <1>1 DEF SkipKind, FieldType, Kinds
<1>9. CASE t = 1
  BY <1>9 DEF SkipKind, FieldType, Kinds
<1>2. CASE t \in {8, 9}
  BY <1>2 DEF SkipKind, FieldType, Kinds
<1>3. CASE t = 16
  BY <1>3 DEF SkipKind, FieldType, Kinds
<1>4. CASE t = 24
  BY <1>4 DEF SkipKind, FieldType, Kinds
<1>5. CASE t \in {32, 33}
  BY <1>5 DEF SkipKind, FieldType, Kinds
<1>6. CASE t = 49
  BY <1>6 DEF SkipKind, FieldType, Kinds
<1>7. CASE t = 136
  BY <1>7 DEF SkipKind, FieldType, Kinds
<1>8. CASE t = 160
  BY <1>8 DEF SkipKind, FieldType, Kinds
<1> QED
  BY <1>1, <1>2, <1>3, <1>4, <1>5, <1>6, <1>7, <1>8, <1>9 DEF FieldTypes

LEMMA SkipFieldIsGood ==
  ASSUME NEW b \in Bytes, NEW o \in 0..Len(b)
  PROVE  GoodSkip(SkipField(b, TRUE, o), b, o)
<1> DEFINE header == ReadFieldInfo(b, TRUE, o, FieldId.None)
           kind == SkipKind(TypeAt(b, o))
           out == SkipField(b, TRUE, o)
<1> SUFFICES GoodSkip(out, b, o)
  OBVIOUS
<1>1. Len(b) \in Nat /\ o \in Nat /\ o <= Len(b)
  BY LengthIsNat
<1>2. header \in ParserResult
  BY DEF ReadFieldInfo, ParserResult
<1>3. CASE header # "Success"
  <2>1. out = Outcome(header, o, InfoFilled(header))
    BY <1>3 DEF SkipField
  <2> HIDE DEF header, out
  <2> QED
    BY <1>1, <1>2, <1>3, <2>1 DEF GoodSkip, Outcome, InfoFilled, Filled
<1>4. CASE header = "Success"
  <2>1. out = ReadField(b, TRUE, o, kind, FieldId.None)
    BY <1>4 DEF SkipField
  <2>2. TypeAt(b, o) \in FieldTypes
    BY <1>4 DEF ReadFieldInfo
  <2>3. /\ kind \in Kinds
        /\ kind # "Mac"
        /\ kind = "Int" => TypeAt(b, o) # FieldType.Long
    BY <2>2, SkipKindFits
  <2> HIDE DEF header, out, kind
  <2>4. GoodRead(out, b, o, kind, FieldId.None)
    BY <2>1, <2>3, ReadFieldIsGood
  <2> QED
    BY <2>3, <2>4 DEF GoodRead, GoodSkip, Readable, HeaderLost
<1> QED
  BY <1>3, <1>4

\* Nothing is read from a blob the constructor refused.
LEMMA RefusedBlob ==
  ASSUME NEW b, NEW o, NEW kind, NEW id
  PROVE  /\ ReadFieldInfo(b, FALSE, o, id) = "Corrupted"
         /\ ReadField(b, FALSE, o, kind, id) = Outcome("Corrupted", o, "untouched")
         /\ SkipField(b, FALSE, o) = Outcome("Corrupted", o, "untouched")
<1>1. \A i : ReadFieldInfo(b, FALSE, o, i) = "Corrupted"
  BY DEF ReadFieldInfo
<1> QED
  BY <1>1 DEF ReadField, SkipField, InfoFilled

\* The header alone: its result is one of the parser's.
LEMMA HeaderResult ==
  ASSUME NEW b, NEW valid \in BOOLEAN, NEW o, NEW id
  PROVE  ReadFieldInfo(b, valid, o, id) \in ParserResult
BY DEF ReadFieldInfo, ParserResult

\* Reset stops inside the blob, and at the end of the field with the formats
\* when the blob is valid.
LEMMA ResetIsGood ==
  ASSUME NEW b \in Bytes
  PROVE  /\ Reset(b).is_data_valid \in BOOLEAN
         /\ Reset(b).offset \in 0..Len(b)
         /\ Reset(b).is_data_valid =>
              /\ MagicSize <= Len(b)
              /\ FieldThere(b, MagicSize)
              /\ Reset(b).offset = FieldEnd(b, MagicSize)
<1> DEFINE format == ReadField(b, TRUE, MagicSize, "IntArray", FieldId.DataFormat)
<1>1. Len(b) \in Nat
  BY LengthIsNat
<1>2. CASE ~Fits(b, 0, MagicSize)
  BY <1>1, <1>2 DEF Reset
<1>3. CASE Fits(b, 0, MagicSize)
  <2>1. MagicSize \in 0..Len(b) /\ MagicSize <= Len(b)
    BY <1>1, <1>3 DEF Fits, MagicSize
  <2>2. GoodRead(format, b, MagicSize, "IntArray", FieldId.DataFormat)
    BY <2>1, ReadFieldIsGood DEF Kinds
  <2>3. Reset(b) = [is_data_valid |-> format.result = "Success"
                                      /\ U16(b, MagicSize + HeaderSize) > 0,
                    offset |-> format.offset]
    BY <1>3 DEF Reset
  <2> HIDE DEF format
  <2>4. Reset(b).offset = format.offset
    BY <2>3
  <2>5. Reset(b).is_data_valid = (format.result = "Success"
                                  /\ U16(b, MagicSize + HeaderSize) > 0)
    BY <2>3
  <2>6. format.offset \in 0..Len(b)
    BY <1>1, <2>2 DEF GoodRead
  <2>7. format.result = "Success" =>
          FieldThere(b, MagicSize) /\ format.offset = FieldEnd(b, MagicSize)
    BY <2>2 DEF GoodRead, Readable
  <2> QED
    BY <2>1, <2>4, <2>5, <2>6, <2>7
<1> QED
  BY <1>2, <1>3

=============================================================================
