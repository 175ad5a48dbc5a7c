-------------------------- MODULE DudeExportProofs ---------------------------
(***************************************************************************)
(* Proofs about the getters of DudeDatabase and about the saving of a      *)
(* database, which calls them one after the other.  The first part is      *)
(* about one blob: what the reader of a table takes from it, call after    *)
(* call.  The second lifts that to the loop over the rows of a getter, for *)
(* every contents of the file and every list of tables.  The third is      *)
(* about the save, for every sequence of contents the file may have        *)
(* between the getters: the types, that saving row by row implements the   *)
(* saving of whole tables, and that a row that stays is saved once, in its *)
(* table.                                                                  *)
(***************************************************************************)
EXTENDS DudeExport, FieldReadsProofs

-----------------------------------------------------------------------------
(* A reader walks over the blob.                                           *)

\* What the reader takes from its n-th call on when the cursor is at p, if
\* "rest" is what it takes from the next call on.
FromCall(b, fields, n, p, rest) ==
  LET out == ReadField(b, TRUE, p, fields[n].kind, fields[n].id)
  IN Taken(n, p, out) \cup rest[out.offset]

\* f[n][p] is what the reader takes from its n-th call on when the cursor is
\* at p by then.
Walks(f, b, fields) ==
  /\ \A p \in 0..Len(b) : f[Len(fields) + 1][p] = {}
  /\ \A n \in 1..Len(fields), p \in 0..Len(b) :
       f[n][p] = FromCall(b, fields, n, p, f[n + 1])

\* The calls of a reader, unfolded.
LEMMA ReadersWalk ==
  ASSUME NEW b, NEW fields, Len(fields) \in Nat, NEW o
  PROVE  \E f : Walks(f, b, fields) /\ ReadMembers(b, o, fields) = f[1][o]
<1> DEFINE L == Len(fields)
           Row(n, rest) == [p \in 0..Len(b) |->
                             IF n > L THEN {} ELSE FromCall(b, fields, n, p, rest)]
           Walk(m, f) == f = [n \in m..(L + 1) |-> Row(n, f[n + 1])]
           Reach == {m \in Nat : m <= L => \E f : Walk(L + 1 - m, f)}
<1>1. \A x, y : Row(L + 1, x) = Row(L + 1, y)
  OBVIOUS
<1>2. 0 \in Reach
  <2> DEFINE f == [n \in (L + 1)..(L + 1) |-> Row(L + 1, {})]
  <2>1. \A n \in (L + 1)..(L + 1) : f[n] = Row(n, f[n + 1])
    <3> HIDE DEF Row
    <3>1. \A n \in (L + 1)..(L + 1) : n = L + 1
      OBVIOUS
    <3> QED
      BY <1>1, <3>1
  <2> HIDE DEF Row
  <2>2. Walk(L + 1 - 0, f)
    BY <2>1
  <2> QED
    BY <2>2
<1>3. ASSUME NEW m \in Nat, m \in Reach
      PROVE  m + 1 \in Reach
  <2> SUFFICES ASSUME m + 1 <= L
               PROVE  \E g : Walk(L + 1 - (m + 1), g)
    OBVIOUS
  <2>1. PICK f : Walk(L + 1 - m, f)
    BY <1>3
  <2> DEFINE g == [n \in (L - m)..(L + 1) |->
                    IF n = L - m THEN Row(n, f[n + 1]) ELSE f[n]]
  <2>2. L \in Nat
    OBVIOUS
  <2> HIDE DEF Row, L
  <2>3. \A n \in (L + 1 - m)..(L + 1) : f[n] = Row(n, f[n + 1])
    BY <2>1
  <2>4. \A n \in (L + 1 - m)..(L + 1) : g[n] = f[n]
    BY <2>2
  <2>5. g[L - m] = Row(L - m, f[L - m + 1])
    BY <2>2
  <2> HIDE DEF g
  <2>6. \A n \in (L - m)..(L + 1) : g[n] = Row(n, g[n + 1])
    <3>1. g[L + 1] = Row(L + 1, g[L + 2])
      BY <1>1, <2>2, <2>3, <2>4
    <3>2. g[L - m] = Row(L - m, g[L - m + 1])
      BY <2>2, <2>4, <2>5
    <3>3. ASSUME NEW n \in (L + 1 - m)..L
          PROVE  g[n] = Row(n, g[n + 1])
      <4>1. n + 1 \in (L + 1 - m)..(L + 1) /\ n \in (L + 1 - m)..(L + 1)
        BY <2>2
      <4> QED
        BY <2>3, <2>4, <4>1
    <3>4. \A n \in (L - m)..(L + 1) : n = L - m \/ n = L + 1 \/ n \in (L + 1 - m)..L
      BY <2>2
    <3>5. L + 1 + 1 = L + 2
      BY <2>2
    <3> QED
      BY <3>1, <3>2, <3>3, <3>4, <3>5
  <2>7. Walk(L - m, g)
    BY <2>6 DEF g
  <2>8. L + 1 - (m + 1) = L - m
    BY <2>2
  <2> HIDE DEF Walk
  <2> QED
    BY <2>7, <2>8
<1>4. L \in Reach
  <2> HIDE DEF Reach
  <2> QED
    BY <1>2, <1>3, SetInduction
<1>5. \E f : Walk(1, f)
  <2>1. L + 1 - L = 1
    OBVIOUS
  <2> QED
    BY <1>4, <2>1
<1> DEFINE from == CHOOSE f : Walk(1, f)
<1>6. Walk(1, from)
  <2> HIDE DEF Walk
  <2> QED
    BY <1>5
<1>7. ReadMembers(b, o, fields) = from[1][o]
  BY DEF ReadMembers, FromCall
<1> HIDE DEF from
<1>8. \A n \in 1..(L + 1) : from[n] = Row(n, from[n + 1])
  <2> HIDE DEF Row
  <2> QED
    BY <1>6
<1>9. \A p \in 0..Len(b) : from[L + 1][p] = {}
  <2>1. from[L + 1] = Row(L + 1, from[L + 2])
    BY <1>8
  <2> QED
    BY <2>1
<1>10. ASSUME NEW n \in 1..L, NEW p \in 0..Len(b)
       PROVE  from[n][p] = FromCall(b, fields, n, p, from[n + 1])
  <2>1. n \in 1..(L + 1) /\ ~(n > L)
    OBVIOUS
  <2>2. from[n] = Row(n, from[n + 1])
    <3> HIDE DEF Row
    <3> QED
      BY <1>8, <2>1
  <2> QED
    BY <2>1, <2>2
<1> QED
  BY <1>7, <1>9, <1>10 DEF Walks

-----------------------------------------------------------------------------
(* The fields of a blob, one behind the other.                             *)

\* Where the field behind the one at s begins.
Behind(b, s) == [x \in 0..Len(b) |-> FieldEnd(b, x)][s]

\* Start, unfolded.
LEMMA StartSteps ==
  ASSUME NEW b
  PROVE  /\ Start(b, 0) = Behind(b, FirstField)
         /\ \A n \in Nat : Start(b, n + 1) = Behind(b, Start(b, n))
<1> DEFINE Walk(n, f) ==
             f = [i \in 0..n |-> Behind(b, IF i = 0 THEN FirstField ELSE f[i - 1])]
           Reach == {n \in Nat : \E f : Walk(n, f)}
<1>1. 0 \in Reach
  <2>1. Walk(0, [i \in 0..0 |-> Behind(b, FirstField)])
    OBVIOUS
  <2> QED
    BY <2>1
<1>2. ASSUME NEW n \in Nat, n \in Reach
      PROVE  n + 1 \in Reach
  <2>1. PICK f : Walk(n, f)
    BY <1>2
  <2> DEFINE g == [i \in 0..(n + 1) |-> IF i = n + 1 THEN Behind(b, f[n]) ELSE f[i]]
  <2>2. \A i \in 0..(n + 1) : g[i] = Behind(b, IF i = 0 THEN FirstField ELSE g[i - 1])
    BY <2>1
  <2>3. Walk(n + 1, g)
    BY <2>2
  <2> HIDE DEF g, Walk
  <2> QED
    BY <2>3
<1>3. \A n \in Nat : \E f : Walk(n, f)
  <2>1. Nat \subseteq Reach
    <3> HIDE DEF Reach
    <3> QED
      BY <1>1, <1>2, SetInduction
  <2> QED
    BY <2>1
<1>4. ASSUME NEW n \in Nat
      PROVE  \E f : Walk(n, f) /\ Start(b, n) = f[n]
  <2> DEFINE f == CHOOSE f : Walk(n, f)
  <2>1. Walk(n, f)
    <3> HIDE DEF Walk
    <3> QED
      BY <1>3
  <2>2. Start(b, n) = f[n]
    BY DEF Start, Behind
  <2> HIDE DEF f, Walk
  <2> QED
    BY <2>1, <2>2
<1>5. ASSUME NEW n \in Nat
      PROVE  Start(b, n + 1) = Behind(b, Start(b, n))
  <2>1. PICK f : Walk(n, f) /\ Start(b, n) = f[n]
    BY <1>4
  <2>2. PICK g : Walk(n + 1, g) /\ Start(b, n + 1) = g[n + 1]
    <3>1. n + 1 \in Nat
      OBVIOUS
    <3> HIDE DEF Walk
    <3> QED
      BY <1>4, <3>1
  <2> DEFINE Same == {i \in Nat : i <= n => f[i] = g[i]}
  <2>3. 0 \in Same
    BY <2>1, <2>2
  <2>4. ASSUME NEW i \in Nat, i \in Same
        PROVE  i + 1 \in Same
    BY <2>1, <2>2, <2>4
  <2>5. n \in Same
    <3> HIDE DEF Same
    <3> QED
      BY <2>3, <2>4, SetInduction
  <2>6. f[n] = g[n]
    BY <2>5
  <2>7. g[n + 1] = Behind(b, g[n])
    BY <2>2
  <2> QED
    BY <2>1, <2>2, <2>6, <2>7
<1>6. Start(b, 0) = Behind(b, FirstField)
  <2>1. PICK f : Walk(0, f) /\ Start(b, 0) = f[0]
    BY <1>4
  <2> QED
    BY <2>1
<1> QED
  BY <1>5, <1>6

\* A field that is there ends inside the blob.
LEMMA ReadableEnds ==
  ASSUME NEW b \in Bytes, NEW s \in 0..Len(b), NEW kind \in Kinds, NEW id,
         Readable(b, s, kind, id)
  PROVE  FieldEnd(b, s) \in 0..Len(b)
<1> DEFINE out == ReadField(b, TRUE, s, kind, id)
<1>1. GoodRead(out, b, s, kind, id)
  BY ReadFieldIsGood
<1> HIDE DEF out
<1> QED
  BY <1>1, LengthIsNat DEF GoodRead

\* The blob has a main format: what Reset and GetMainFormat compute is what
\* the format says.
LEMMA MainFormat ==
  ASSUME NEW b \in Bytes
  PROVE  /\ Reset(b).is_data_valid <=> FormatThere(b)
         /\ FormatThere(b) => /\ Reset(b).offset = FieldEnd(b, FirstField)
                              /\ Reset(b).offset \in 0..Len(b)
                              /\ FirstField \in 0..Len(b)
<1> DEFINE format == ReadField(b, TRUE, MagicSize, "IntArray", FieldId.DataFormat)
<1>1. Len(b) \in Nat /\ MagicSize = FirstField
  BY LengthIsNat DEF MagicSize, FirstField
<1>2. CASE ~Fits(b, 0, MagicSize)
  <2>1. ~Reset(b).is_data_valid
    BY <1>2 DEF Reset
  <2>2. ~FormatThere(b)
    BY <1>1, <1>2 DEF FormatThere, Fits, FirstField
  <2> QED
    BY <2>1, <2>2
<1>3. CASE Fits(b, 0, MagicSize)
  <2>1. MagicSize \in 0..Len(b) /\ MagicSize <= Len(b)
    BY <1>1, <1>3 DEF Fits, MagicSize
  <2>2. GoodRead(format, b, MagicSize, "IntArray", FieldId.DataFormat)
    BY <2>1, ReadFieldIsGood DEF Kinds
  <2>3. Reset(b) = [is_data_valid |-> format.result = "Success"
                                      /\ U16(b, MagicSize + HeaderSize) > 0,
                    offset |-> format.offset]
    BY <1>3 DEF Reset
  <2> HIDE DEF format
  <2>4. Reset(b).is_data_valid = (format.result = "Success"
                                  /\ U16(b, MagicSize + HeaderSize) > 0)
    BY <2>3
  <2>5. Reset(b).offset = format.offset
    BY <2>3
  <2>6. format.result = "Success" <=> Readable(b, MagicSize, "IntArray", FieldId.DataFormat)
    BY <2>2 DEF GoodRead
  <2>7. Reset(b).is_data_valid <=> FormatThere(b)
    BY <1>1, <2>1, <2>4, <2>6, Zenon DEF FormatThere
  <2>8. Reset(b).is_data_valid => format.result = "Success"
    BY <2>4, Zenon
  <2>9. Reset(b).is_data_valid =>
          Reset(b).offset = FieldEnd(b, MagicSize) /\ Reset(b).offset \in 0..Len(b)
    BY <1>1, <2>2, <2>8, <2>5 DEF GoodRead
  <2> QED
    BY <1>1, <2>1, <2>7, <2>9
<1> QED
  BY <1>2, <1>3
-----------------------------------------------------------------------------
(* Blobs a reader can tell apart.                                          *)

\* No identifier is asked for twice.
Distinct(fields) ==
  \A m, n \in DOMAIN fields : fields[m].id = fields[n].id => m = n

\* A reader's list of members.
LEMMA MemberTyped ==
  ASSUME NEW fields \in Seq(Member), NEW n \in 1..Len(fields)
  PROVE  fields[n].kind \in Kinds /\ fields[n].id \in Nat \ {FieldId.None}
<1>1. fields[n] \in Member
  BY ElementOfSeq
<1> QED
  BY <1>1 DEF Member

LEMMA FieldsLength ==
  ASSUME NEW fields \in Seq(Member)
  PROVE  Len(fields) \in Nat /\ DOMAIN fields = 1..Len(fields)
BY LenProperties

\* The field at s belongs to one member, and that can be read there.
LEMMA BelongsToOne ==
  ASSUME NEW b, NEW s, NEW fields, Distinct(fields), Belongs(b, s, fields)
  PROVE  /\ MemberAt(b, s, fields) \in DOMAIN fields
         /\ fields[MemberAt(b, s, fields)].id = IdAt(b, s)
         /\ Readable(b, s, fields[MemberAt(b, s, fields)].kind,
                     fields[MemberAt(b, s, fields)].id)
<1>1. PICK m \in DOMAIN fields : /\ fields[m].id = IdAt(b, s)
                                 /\ Readable(b, s, fields[m].kind, fields[m].id)
  BY Zenon DEF Belongs
<1> DEFINE n == CHOOSE n \in DOMAIN fields : fields[n].id = IdAt(b, s)
<1>2. n \in DOMAIN fields /\ fields[n].id = IdAt(b, s)
  BY <1>1
<1>3. MemberAt(b, s, fields) = n
  BY Zenon DEF MemberAt
<1> HIDE DEF n
<1>4. n = m
  BY <1>1, <1>2, Zenon DEF Distinct
<1> QED
  BY <1>1, <1>2, <1>3, <1>4, Zenon

\* The fields of a blob a reader can tell apart lie one behind the other inside
\* the blob, and belong to members further and further down the table.
LEMMA PlainFields ==
  ASSUME NEW b \in Bytes, NEW fields \in Seq(Member), Distinct(fields),
         NEW k \in Nat, FormatThere(b), InOrder(b, fields, k)
  PROVE  /\ Start(b, 0) = FieldEnd(b, FirstField)
         /\ \A i \in 0..k : Start(b, i) \in 0..Len(b)
         /\ \A i \in 0..(k - 1) :
              /\ MemberAt(b, Start(b, i), fields) \in 1..Len(fields)
              /\ fields[MemberAt(b, Start(b, i), fields)].id = IdAt(b, Start(b, i))
              /\ Readable(b, Start(b, i), fields[MemberAt(b, Start(b, i), fields)].kind,
                          fields[MemberAt(b, Start(b, i), fields)].id)
              /\ Start(b, i + 1) = FieldEnd(b, Start(b, i))
         /\ \A i, j \in 0..(k - 1) :
              i < j => MemberAt(b, Start(b, i), fields) < MemberAt(b, Start(b, j), fields)
<1> DEFINE S(i) == Start(b, i)
           M(i) == MemberAt(b, S(i), fields)
           N == Len(b)
           L == Len(fields)
<1>1. N \in Nat /\ L \in Nat /\ DOMAIN fields = 1..L
  BY LengthIsNat, FieldsLength
<1>2. FirstField \in 0..N /\ FieldEnd(b, FirstField) \in 0..N
  BY MainFormat
<1>3. \A s \in 0..N : Behind(b, s) = FieldEnd(b, s)
  BY DEF Behind
<1>4. S(0) = FieldEnd(b, FirstField)
  BY <1>2, <1>3, StartSteps
<1>5. \A i \in Nat : S(i + 1) = Behind(b, S(i))
  BY StartSteps
<1>6. \A i \in 0..(k - 1) : Belongs(b, S(i), fields)
  BY DEF InOrder
<1>7. \A i \in 0..(k - 1) :
        /\ M(i) \in 1..L
        /\ fields[M(i)].id = IdAt(b, S(i))
        /\ Readable(b, S(i), fields[M(i)].kind, fields[M(i)].id)
  BY <1>1, <1>6, BelongsToOne
<1>8. \A i \in 1..(k - 1) : M(i - 1) < M(i)
  BY DEF InOrder
<1> HIDE DEF S, M, N, L
<1>9. ASSUME NEW i \in 0..(k - 1), S(i) \in 0..N
      PROVE  S(i + 1) = FieldEnd(b, S(i)) /\ S(i + 1) \in 0..N
  <2>1. fields[M(i)].kind \in Kinds
    BY <1>7, MemberTyped DEF L
  <2>2. FieldEnd(b, S(i)) \in 0..N
    BY <1>7, <1>9, <2>1, ReadableEnds DEF N
  <2> QED
    BY <1>3, <1>5, <1>9, <2>2
<1>10. \A i \in 0..k : S(i) \in 0..N
  <2> DEFINE Inside == {i \in Nat : i <= k => S(i) \in 0..N}
  <2>1. 0 \in Inside
    BY <1>2, <1>4
  <2>2. ASSUME NEW i \in Nat, i \in Inside
        PROVE  i + 1 \in Inside
    BY <1>9, <2>2
  <2>3. Nat \subseteq Inside
    <3> HIDE DEF Inside
    <3> QED
      BY <2>1, <2>2, SetInduction
  <2> QED
    BY <2>3
<1>11. \A i \in 0..(k - 1) : S(i + 1) = FieldEnd(b, S(i))
  BY <1>9, <1>10
<1>12. ASSUME NEW i \in 0..(k - 1), NEW j \in 0..(k - 1), i < j
       PROVE  M(i) < M(j)
  <2> DEFINE Later == {d \in Nat : i + d + 1 <= k - 1 => M(i) < M(i + d + 1)}
  <2>1. 0 \in Later
    BY <1>8
  <2>2. ASSUME NEW d \in Nat, d \in Later
        PROVE  d + 1 \in Later
    <3> SUFFICES ASSUME i + (d + 1) + 1 <= k - 1
                 PROVE  M(i) < M(i + (d + 1) + 1)
      OBVIOUS
    <3>1. M(i) < M(i + d + 1)
      BY <2>2
    <3>2. /\ i + (d + 1) + 1 \in 1..(k - 1)
          /\ i + (d + 1) + 1 - 1 = i + d + 1
          /\ i + d + 1 \in 0..(k - 1)
      OBVIOUS
    <3>3. M(i + d + 1) < M(i + (d + 1) + 1)
      BY <1>8, <3>2
    <3>4. M(i) \in Nat /\ M(i + d + 1) \in Nat /\ M(i + (d + 1) + 1) \in Nat
      BY <1>7, <3>2
    <3> QED
      BY <3>1, <3>3, <3>4
  <2>3. j - i - 1 \in Later
    <3> HIDE DEF Later
    <3>1. j - i - 1 \in Nat
      BY <1>12
    <3> QED
      BY <2>1, <2>2, <3>1, SetInduction
  <2>4. i + (j - i - 1) + 1 = j
    OBVIOUS
  <2> QED
    BY <2>3, <2>4
<1> QED
  BY <1>4, <1>7, <1>10, <1>11, <1>12 DEF S, M, N, L
\* A call for the member the field at the cursor belongs to takes it.
LEMMA CallTakes ==
  ASSUME NEW b \in Bytes, NEW fields \in Seq(Member), NEW n \in 1..Len(fields),
         NEW p \in 0..Len(b), NEW rest,
         Readable(b, p, fields[n].kind, fields[n].id)
  PROVE  FromCall(b, fields, n, p, rest)
           = {[member |-> n, at |-> p, filled |-> "whole"]} \cup rest[FieldEnd(b, p)]
<1> DEFINE out == ReadField(b, TRUE, p, fields[n].kind, fields[n].id)
<1>1. GoodRead(out, b, p, fields[n].kind, fields[n].id)
  BY MemberTyped, ReadFieldIsGood
<1>2. FromCall(b, fields, n, p, rest) = Taken(n, p, out) \cup rest[out.offset]
  BY DEF FromCall
<1> HIDE DEF out
<1>3. out.filled = "whole" /\ out.offset = FieldEnd(b, p)
  BY <1>1 DEF GoodRead
<1>4. Taken(n, p, out) = {[member |-> n, at |-> p, filled |-> "whole"]}
  BY <1>3 DEF Taken
<1> QED
  BY <1>2, <1>3, <1>4

\* A call for a member that is not at the cursor takes nothing.
LEMMA CallMisses ==
  ASSUME NEW b, NEW fields, NEW n, NEW p, NEW rest, Elsewhere(b, p, fields[n].id)
  PROVE  FromCall(b, fields, n, p, rest) = rest[p]
<1> DEFINE out == ReadField(b, TRUE, p, fields[n].kind, fields[n].id)
<1>1. \A kind, id : Elsewhere(b, p, id) =>
        /\ ReadField(b, TRUE, p, kind, id).offset = p
        /\ ReadField(b, TRUE, p, kind, id).filled \in {"untouched", "header"}
  BY ReadFieldMisses
<1>2. out.filled \in {"untouched", "header"} /\ out.offset = p
  BY <1>1
<1>3. FromCall(b, fields, n, p, rest) = Taken(n, p, out) \cup rest[out.offset]
  BY DEF FromCall
<1> HIDE DEF out
<1>4. Taken(n, p, out) = {}
  BY <1>2 DEF Taken
<1> QED
  BY <1>2, <1>3, <1>4

\* From a blob it can tell apart the reader takes its members and nothing else.
LEMMA PlainMembers ==
  ASSUME NEW b \in Bytes, NEW fields \in Seq(Member), Distinct(fields),
         NEW k \in Nat, PlainUpTo(b, fields, k)
  PROVE  ReadMembers(b, Reset(b).offset, fields) = MembersOf(b, fields, k)
<1> DEFINE S(i) == Start(b, i)
           M(i) == MemberAt(b, S(i), fields)
           N == Len(b)
           L == Len(fields)
<1>1. FormatThere(b) /\ InOrder(b, fields, k) /\ NoneFollows(b, fields, k)
  BY Zenon DEF PlainUpTo
<1>2. N \in Nat /\ L \in Nat /\ DOMAIN fields = 1..L
  BY LengthIsNat, FieldsLength
<1>3. /\ S(0) = FieldEnd(b, FirstField)
      /\ \A i \in 0..k : S(i) \in 0..N
      /\ \A i \in 0..(k - 1) :
           /\ M(i) \in 1..L
           /\ fields[M(i)].id = IdAt(b, S(i))
           /\ Readable(b, S(i), fields[M(i)].kind, fields[M(i)].id)
           /\ S(i + 1) = FieldEnd(b, S(i))
      /\ \A i, j \in 0..(k - 1) : i < j => M(i) < M(j)
  BY <1>1, PlainFields
<1>4. Reset(b).offset = S(0)
  BY <1>1, <1>3, MainFormat
<1>5. HeaderThere(b, S(k)) =>
        /\ IdAt(b, S(k)) # FieldId.None
        /\ \A m \in 1..L : fields[m].id = IdAt(b, S(k)) => k > 0 /\ m <= M(k - 1)
  BY <1>1, <1>2 DEF NoneFollows
<1>6. MembersOf(b, fields, k)
        = {[member |-> M(i), at |-> S(i), filled |-> "whole"] : i \in 0..(k - 1)}
  BY DEF MembersOf
<1>7. PICK f : Walks(f, b, fields) /\ ReadMembers(b, S(0), fields) = f[1][S(0)]
  BY <1>2, ReadersWalk
<1>8. /\ \A p \in 0..N : f[L + 1][p] = {}
      /\ \A n \in 1..L, p \in 0..N : f[n][p] = FromCall(b, fields, n, p, f[n + 1])
  BY <1>7 DEF Walks
<1> DEFINE Piece(i) == [member |-> M(i), at |-> S(i), filled |-> "whole"]
           Rest(i) == {Piece(j) : j \in i..(k - 1)}
           Due(n, i) == (i < k => n <= M(i)) /\ (i > 0 => M(i - 1) < n)
           Reach == {d \in Nat : d <= L => \A i \in 0..k : Due(L + 1 - d, i) =>
                                             f[L + 1 - d][S(i)] = Rest(i)}
<1> HIDE DEF S, M, N, L
<1>9. 0 \in Reach
  <2> SUFFICES ASSUME NEW i \in 0..k, Due(L + 1, i)
               PROVE  f[L + 1][S(i)] = Rest(i)
    <3>1. L + 1 - 0 = L + 1
      BY <1>2
    <3> HIDE DEF Due, Rest
    <3> QED
      BY <3>1
  <2>1. i = k
    BY <1>2, <1>3
  <2>2. Rest(i) = {}
    BY <2>1
  <2> QED
    BY <1>3, <1>8, <2>2
<1>10. ASSUME NEW d \in Nat, d \in Reach
      PROVE  d + 1 \in Reach
  <2> DEFINE n == L - d
  <2> SUFFICES ASSUME d + 1 <= L, NEW i \in 0..k, Due(n, i)
               PROVE  f[n][S(i)] = Rest(i)
    <3>1. L + 1 - (d + 1) = L - d
      BY <1>2
    <3> HIDE DEF Due, Rest
    <3> QED
      BY <3>1
  <2>1. n \in 1..L /\ n + 1 = L + 1 - d /\ S(i) \in 0..N
    BY <1>2, <1>3
  <2>2. \A j \in 0..k : Due(n + 1, j) => f[n + 1][S(j)] = Rest(j)
    <3> HIDE DEF Due, Rest
    <3> QED
      BY <1>2, <1>10, <2>1
  <2>3. f[n][S(i)] = FromCall(b, fields, n, S(i), f[n + 1])
    BY <1>8, <2>1
  <2> HIDE DEF n
  <2>4. CASE i < k /\ M(i) = n
    <3>1. i \in 0..(k - 1) /\ i + 1 \in 0..k
      BY <2>4
    <3>2. Due(n + 1, i + 1)
      <4>1. i + 1 < k => n + 1 <= M(i + 1)
        BY <1>3, <2>1, <2>4, <3>1
      <4>2. i + 1 - 1 = i
        OBVIOUS
      <4> QED
        BY <2>1, <2>4, <4>1, <4>2
    <3>3. f[n + 1][FieldEnd(b, S(i))] = Rest(i + 1)
      <4> HIDE DEF Due, Rest
      <4> QED
        BY <1>3, <2>2, <3>1, <3>2
    <3>4. FromCall(b, fields, n, S(i), f[n + 1]) = {Piece(i)} \cup f[n + 1][FieldEnd(b, S(i))]
      <4>1. Piece(i) = [member |-> n, at |-> S(i), filled |-> "whole"]
        BY <2>4
      <4>2. Readable(b, S(i), fields[n].kind, fields[n].id)
        BY <1>3, <2>4, <3>1
      <4> HIDE DEF Piece
      <4> QED
        BY <2>1, <4>1, <4>2, CallTakes DEF L, N
    <3>5. Rest(i) = {Piece(i)} \cup Rest(i + 1)
      <4> HIDE DEF Piece
      <4>1. \A j : j \in i..(k - 1) <=> j = i \/ j \in (i + 1)..(k - 1)
        BY <3>1
      <4> QED
        BY <4>1
    <3> HIDE DEF Rest, Piece
    <3> QED
      BY <2>3, <3>3, <3>4, <3>5
  <2>5. CASE ~(i < k /\ M(i) = n)
    <3>1. Due(n + 1, i)
      <4>1. i < k => n + 1 <= M(i)
        <5> SUFFICES ASSUME i < k
                     PROVE  n + 1 <= M(i)
          OBVIOUS
        <5>1. M(i) \in 1..L
          BY <1>3
        <5> QED
          BY <1>2, <2>1, <2>5, <5>1
      <4>2. i > 0 => M(i - 1) < n + 1
        <5> SUFFICES ASSUME i > 0
                     PROVE  M(i - 1) < n + 1
          OBVIOUS
        <5>1. i - 1 \in 0..(k - 1)
          OBVIOUS
        <5>2. M(i - 1) \in 1..L
          BY <1>3, <5>1
        <5> QED
          BY <1>2, <2>1, <5>2
      <4> QED
        BY <4>1, <4>2
    <3>2. Elsewhere(b, S(i), fields[n].id)
      <4>1. CASE i < k
        <5>1. i \in 0..(k - 1) /\ M(i) # n /\ M(i) \in 1..L
          BY <1>3, <2>5, <4>1
        <5>2. fields[M(i)].id # FieldId.None /\ fields[M(i)].id # fields[n].id
          BY <1>2, <2>1, <5>1, MemberTyped DEF Distinct, L
        <5> QED
          BY <1>3, <5>1, <5>2 DEF Elsewhere
      <4>2. CASE i = k
        <5>1. k > 0 => ~(n <= M(k - 1))
          BY <1>3, <2>1, <4>2
        <5> QED
          BY <1>5, <2>1, <4>2, <5>1 DEF Elsewhere
      <4> QED
        BY <4>1, <4>2
    <3>3. FromCall(b, fields, n, S(i), f[n + 1]) = f[n + 1][S(i)]
      BY <3>2, CallMisses
    <3> HIDE DEF Due, Rest
    <3> QED
      BY <2>2, <2>3, <3>1, <3>3
  <2> QED
    BY <2>4, <2>5
<1>11. L \in Reach
  <2> HIDE DEF Reach
  <2> QED
    BY <1>2, <1>9, <1>10, SetInduction
<1>12. f[1][S(0)] = Rest(0)
  <2>1. Due(1, 0)
    BY <1>3
  <2>2. L + 1 - L = 1 /\ 0 \in 0..k
    BY <1>2
  <2> HIDE DEF Due, Rest
  <2> QED
    BY <1>2, <1>11, <2>1, <2>2
<1> QED
  BY <1>4, <1>6, <1>7, <1>12
\* The bytes of a number in four, and of one in one, as IdentifierOf takes them.
LEMMA FourBytes ==
  ASSUME NEW b \in Bytes, NEW at \in Nat, at + 4 <= Len(b)
  PROVE  SubSeq(b, at + 1, at + 4) = <<b[at + 1], b[at + 2], b[at + 3], b[at + 4]>>
<1> DEFINE s == SubSeq(b, at + 1, at + 4)
           q == <<b[at + 1], b[at + 2], b[at + 3], b[at + 4]>>
<1>1. Len(b) \in Nat /\ DOMAIN b = 1..Len(b)
  BY LenProperties DEF Bytes
<1>2. \A i \in (at + 1)..(at + 4) : b[i] \in Byte
  BY <1>1, ElementOfSeq DEF Bytes
<1>3. s = [i \in 1..4 |-> b[at + i]]
  <2>1. s \in Seq(Byte) /\ Len(s) = 4 /\ \A i \in 1..4 : s[i] = b[at + 1 + i - 1]
    BY <1>1, <1>2, SubSeqProperties
  <2>2. s = [i \in 1..4 |-> s[i]]
    BY <2>1, LenProperties
  <2> HIDE DEF s
  <2>3. \A i \in 1..4 : s[i] = b[at + i]
    BY <2>1
  <2> QED
    BY <2>2, <2>3
<1>4. q = [i \in 1..4 |-> b[at + i]]
  OBVIOUS
<1> QED
  BY <1>3, <1>4

\* The number the reader compares with the row is the one the blob gives.
LEMMA PlainIdentifier ==
  ASSUME NEW b \in Bytes, NEW fields \in Seq(Member), Distinct(fields),
         \A m \in DOMAIN fields : fields[m].id = FieldId.SysId => fields[m].kind = "Int",
         NEW k \in Nat, PlainUpTo(b, fields, k)
  PROVE  ObjectId(b, MembersOf(b, fields, k), fields) = IdentifierOf(b, k)
<1> DEFINE S(i) == Start(b, i)
           M(i) == MemberAt(b, S(i), fields)
           Piece(i) == [member |-> M(i), at |-> S(i), filled |-> "whole"]
           taken == MembersOf(b, fields, k)
           ids == {t \in taken : fields[t.member].id = FieldId.SysId}
           nth == {i \in 0..(k - 1) : IdAt(b, S(i)) = FieldId.SysId}
<1>1. FormatThere(b) /\ InOrder(b, fields, k)
  BY Zenon DEF PlainUpTo
<1>2. /\ \A i \in 0..k : S(i) \in 0..Len(b)
      /\ \A i \in 0..(k - 1) :
           /\ M(i) \in 1..Len(fields)
           /\ fields[M(i)].id = IdAt(b, S(i))
           /\ Readable(b, S(i), fields[M(i)].kind, fields[M(i)].id)
      /\ \A i, j \in 0..(k - 1) : i < j => M(i) < M(j)
  BY <1>1, PlainFields
<1>3. taken = {Piece(i) : i \in 0..(k - 1)}
  BY DEF MembersOf
<1>4. /\ Len(b) \in Nat
      /\ Len(fields) \in Nat /\ DOMAIN fields = 1..Len(fields)
  BY LengthIsNat, FieldsLength
<1> HIDE DEF S, M, taken
<1>5. \A i, j \in nth : i = j
  <2> SUFFICES ASSUME NEW i \in nth, NEW j \in nth, i < j
               PROVE  FALSE
    OBVIOUS
  <2>1. M(i) < M(j) /\ M(i) \in 1..Len(fields) /\ M(j) \in 1..Len(fields)
    BY <1>2
  <2>2. M(i) = M(j)
    BY <1>2, <1>4, <2>1 DEF Distinct
  <2> QED
    BY <1>4, <2>1, <2>2
<1>6. ids = {Piece(i) : i \in nth}
  BY <1>2, <1>3
<1>7. ObjectId(b, taken, fields) =
        LET at == (CHOOSE t \in ids : TRUE).at + HeaderSize
        IN IF ids = {} THEN <<0, 0, 0, 0>>
           ELSE IF TypeAt(b, at - HeaderSize) = FieldType.Byte THEN <<U8(b, at), 0, 0, 0>>
           ELSE SubSeq(b, at + 1, at + 4)
  BY DEF ObjectId
<1>8. IdentifierOf(b, k) =
        LET at == S(CHOOSE i \in nth : TRUE) + HeaderSize
        IN IF nth = {} THEN <<0, 0, 0, 0>>
           ELSE IF FieldEnd(b, at - HeaderSize) = at + 1 THEN <<b[at + 1], 0, 0, 0>>
           ELSE <<b[at + 1], b[at + 2], b[at + 3], b[at + 4]>>
  BY DEF IdentifierOf, S
<1>9. CASE nth = {}
  BY <1>6, <1>7, <1>8, <1>9 DEF taken
<1>10. CASE nth # {}
  <2>1. PICK i \in 0..(k - 1) : nth = {i}
    BY <1>5, <1>10
  <2>2. ids = {Piece(i)}
    BY <1>6, <2>1
  <2> DEFINE at == S(i) + HeaderSize
  <2>3. (CHOOSE t \in ids : TRUE).at = S(i)
    <3> HIDE DEF ids
    <3>1. (CHOOSE t \in ids : TRUE) = Piece(i)
      BY <2>2
    <3>2. Piece(i).at = S(i)
      OBVIOUS
    <3> HIDE DEF Piece
    <3> QED
      BY <3>1, <3>2
  <2>4. (CHOOSE j \in nth : TRUE) = i
    BY <2>1
  <2>5. S(i) \in Nat /\ at \in Nat /\ at - HeaderSize = S(i)
    BY <1>2, <1>4 DEF HeaderSize
  <2>6. IdAt(b, S(i)) = FieldId.SysId
    BY <2>1
  <2>7. Readable(b, S(i), "Int", FieldId.SysId)
    BY <1>2, <1>4, <2>6
  <2>8. /\ TypeAt(b, S(i)) \in {FieldType.Int, FieldType.Byte}
        /\ FieldEnd(b, S(i)) <= Len(b)
    BY <2>7 DEF Readable, HeldIn, FieldThere
  <2>9. CASE TypeAt(b, S(i)) = FieldType.Byte
    <3>1. FieldEnd(b, S(i)) = at + 1
      BY <2>9 DEF FieldEnd, PayloadEnd, FieldType
    <3>2. ObjectId(b, taken, fields) = <<U8(b, at), 0, 0, 0>>
      BY <1>7, <2>2, <2>3, <2>5, <2>9
    <3>3. IdentifierOf(b, k) = <<b[at + 1], 0, 0, 0>>
      BY <1>8, <1>10, <2>4, <2>5, <3>1
    <3> QED
      BY <3>2, <3>3 DEF U8, taken
  <2>10. CASE TypeAt(b, S(i)) = FieldType.Int
    <3>1. FieldEnd(b, S(i)) = at + 4 /\ TypeAt(b, S(i)) # FieldType.Byte
      BY <2>10 DEF FieldEnd, PayloadEnd, FieldType
    <3>2. ObjectId(b, taken, fields) = SubSeq(b, at + 1, at + 4)
      BY <1>7, <2>2, <2>3, <2>5, <3>1
    <3>3. IdentifierOf(b, k) = <<b[at + 1], b[at + 2], b[at + 3], b[at + 4]>>
      <4>1. at + 4 # at + 1
        BY <2>5
      <4> HIDE DEF nth
      <4> QED
        BY <1>8, <1>10, <2>4, <2>5, <3>1, <4>1
    <3>4. at + 4 <= Len(b)
      BY <2>8, <3>1
    <3> QED
      BY <2>5, <3>2, <3>3, <3>4, FourBytes DEF taken
  <2> QED
    BY <2>8, <2>9, <2>10
<1> QED
  BY <1>9, <1>10
-----------------------------------------------------------------------------
(* Any blob.                                                               *)

\* What a reader may take.
Piece(b, fields) ==
  [member : 1..Len(fields), at : 0..Len(b), filled : {"partly", "whole"}]

\* What is taken from the n-th call on, with the cursor at p by then, when the
\* last member taken whole ended at o: pieces of the members from n on, each in
\* its place and of its kind, and nothing from before p.
InTurn(b, o, fields, n, p, taken) ==
  /\ taken \subseteq Piece(b, fields)
  /\ \A t \in taken : n <= t.member /\ p <= t.at
  /\ \A t \in taken : InPlace(b, o, fields, taken, t) /\ OfItsKind(b, fields, t)

\* Headers lost before a call are lost before every later one.
LEMMA SlippedLater ==
  ASSUME NEW b, NEW fields, NEW from, NEW at, NEW m \in Nat, NEW n \in Nat, m <= n,
         Slipped(b, fields, from, at, m)
  PROVE  Slipped(b, fields, from, at, n)
<1>1. \A i \in 1..(m - 1) : i \in 1..(n - 1)
  OBVIOUS
<1> QED
  BY <1>1 DEF Slipped

\* The reader stands where it stood.
LEMMA NotSlipped ==
  ASSUME NEW b \in Bytes, NEW fields, NEW o \in Nat, NEW m
  PROVE  Slipped(b, fields, o, o, m)
<1>1. 0 \in 0..Len(b) /\ o = o + 0 * HeaderSize
  BY LengthIsNat DEF HeaderSize
<1>2. \A i \in 0..(0 - 1) : FALSE
  OBVIOUS
<1> QED
  BY <1>1, <1>2, Zenon DEF Slipped

\* The n-th call loses a header more.
LEMMA OneMoreSlip ==
  ASSUME NEW b \in Bytes, NEW fields, NEW o \in Nat, NEW p \in Nat, NEW n \in Nat \ {0},
         Slipped(b, fields, o, p, n), p + HeaderSize <= Len(b),
         HeaderLost(b, p, fields[n].kind, fields[n].id)
  PROVE  Slipped(b, fields, o, p + HeaderSize, n + 1)
<1> DEFINE Lost(i, m) == \E c \in 1..(m - 1) :
             HeaderLost(b, o + i * HeaderSize, fields[c].kind, fields[c].id)
<1>1. PICK k \in 0..Len(b) : p = o + k * HeaderSize /\ \A i \in 0..(k - 1) : Lost(i, n)
  BY DEF Slipped
<1>2. Len(b) \in Nat /\ k \in Nat
  BY LengthIsNat
<1>3. \A i : Lost(i, n) => Lost(i, n + 1)
  <2>1. \A c \in 1..(n - 1) : c \in 1..(n + 1 - 1)
    OBVIOUS
  <2> QED
    BY <2>1
<1>4. Lost(k, n + 1)
  <2>1. n \in 1..(n + 1 - 1)
    OBVIOUS
  <2> QED
    BY <1>1, <2>1
<1> HIDE DEF Lost
<1>5. k + 1 \in 0..Len(b) /\ p + HeaderSize = o + (k + 1) * HeaderSize
  BY <1>1, <1>2 DEF HeaderSize
<1>6. \A i \in 0..(k + 1 - 1) : i \in 0..(k - 1) \/ i = k
  BY <1>2
<1>7. \A i \in 0..(k + 1 - 1) : Lost(i, n + 1)
  BY <1>1, <1>3, <1>4, <1>6
<1> QED
  BY <1>5, <1>7 DEF Slipped, Lost

\* One call in front of the others.
LEMMA CallInTurn ==
  ASSUME NEW b \in Bytes, NEW fields \in Seq(Member), NEW n \in 1..Len(fields),
         NEW o \in 0..Len(b), NEW p \in 0..Len(b), o <= p, Slipped(b, fields, o, p, n),
         NEW rest,
         \A e, q \in 0..Len(b) :
           e <= q /\ Slipped(b, fields, e, q, n + 1) => InTurn(b, e, fields, n + 1, q, rest[q])
  PROVE  InTurn(b, o, fields, n, p, FromCall(b, fields, n, p, rest))
<1> DEFINE out == ReadField(b, TRUE, p, fields[n].kind, fields[n].id)
           first == [member |-> n, at |-> p, filled |-> out.filled]
           later == rest[out.offset]
           all == FromCall(b, fields, n, p, rest)
<1> SUFFICES InTurn(b, o, fields, n, p, all)
  OBVIOUS
<1>1. GoodRead(out, b, p, fields[n].kind, fields[n].id)
  BY MemberTyped, ReadFieldIsGood
<1>2. all = Taken(n, p, out) \cup later
  BY DEF FromCall
<1>3. Len(b) \in Nat /\ Len(fields) \in Nat /\ n \in Nat \ {0} /\ o \in Nat /\ p \in Nat
  BY LengthIsNat, FieldsLength
<1> HIDE DEF out, all
<1>4. /\ out.filled \in Filled
      /\ out.offset \in 0..Len(b) /\ p <= out.offset
      /\ out.filled = "whole" => /\ out.offset = FieldEnd(b, p)
                                 /\ Readable(b, p, fields[n].kind, fields[n].id)
      /\ out.filled = "partly" => CutShort(b, p, fields[n].kind, fields[n].id)
      /\ out.filled # "whole" =>
           \/ out.offset = p
           \/ /\ out.offset = p + HeaderSize /\ out.filled = "header"
              /\ HeaderLost(b, p, fields[n].kind, fields[n].id)
  BY <1>1, <1>3 DEF GoodRead
<1>5. Slipped(b, fields, o, p, n + 1)
  BY <1>3, SlippedLater
<1>6. CASE out.filled \in {"untouched", "header"}
  <2>1. all = later
    BY <1>2, <1>6 DEF Taken
  <2>2. Slipped(b, fields, o, out.offset, n + 1)
    <3>1. CASE out.offset = p
      BY <1>5, <3>1
    <3>2. CASE out.offset # p
      <4>1. /\ out.offset = p + HeaderSize
            /\ HeaderLost(b, p, fields[n].kind, fields[n].id)
            /\ p + HeaderSize <= Len(b)
        BY <1>3, <1>4, <1>6, <3>2
      <4> QED
        BY <1>3, <4>1, OneMoreSlip
    <3> QED
      BY <3>1, <3>2
  <2>3. InTurn(b, o, fields, n + 1, out.offset, later)
    BY <1>3, <1>4, <2>2
  <2> HIDE DEF later
  <2>4. \A t \in later : t.member \in Nat /\ t.at \in Nat
    BY <1>3, <2>3 DEF InTurn, Piece
  <2>5. \A t \in later : n <= t.member /\ p <= t.at
    BY <1>3, <1>4, <2>3, <2>4 DEF InTurn
  <2> QED
    BY <2>1, <2>3, <2>5 DEF InTurn
<1>7. CASE out.filled \in {"partly", "whole"}
  <2> DEFINE e == IF out.filled = "whole" THEN out.offset ELSE o
  <2>1. all = {first} \cup later
    BY <1>2, <1>7 DEF Taken
  <2>2. /\ e \in 0..Len(b) /\ o <= e /\ e <= out.offset /\ e \in Nat
        /\ Slipped(b, fields, e, out.offset, n + 1)
    <3>1. CASE out.filled = "whole"
      BY <1>3, <1>4, <3>1, NotSlipped
    <3>2. CASE out.filled = "partly"
      <4>1. out.offset = p /\ e = o
        BY <1>4, <3>2
      <4> QED
        BY <1>3, <1>5, <4>1
    <3> QED
      BY <1>7, <3>1, <3>2
  <2>3. InTurn(b, e, fields, n + 1, out.offset, later)
    <3> HIDE DEF e
    <3> QED
      BY <1>4, <2>2
  <2>4. e = IF first.filled = "whole" THEN FieldEnd(b, first.at) ELSE o
    BY <1>4
  <2>5. first.member = n /\ first.at = p /\ first.filled = out.filled
    OBVIOUS
  <2>6. first \in Piece(b, fields)
    BY <1>7 DEF Piece
  <2>7. OfItsKind(b, fields, first)
    BY <1>4, <1>7 DEF OfItsKind
  <2> HIDE DEF first, later, e
  <2>8. /\ later \subseteq Piece(b, fields)
        /\ \A t \in later : n + 1 <= t.member /\ out.offset <= t.at
        /\ \A t \in later : InPlace(b, e, fields, later, t) /\ OfItsKind(b, fields, t)
    BY <2>3 DEF InTurn
  <2>9. \A t \in later : t.member \in Nat /\ t.at \in Nat
    BY <1>3, <2>8 DEF Piece
  <2>10. \A t \in later : n < t.member /\ n <= t.member /\ p <= t.at
    BY <1>3, <1>4, <2>8, <2>9
  <2>11. InPlace(b, o, fields, all, first)
    <3>1. Ends(b, o, all, n) = {o}
      <4>1. \A t \in all : ~(t.member < n)
        BY <1>3, <2>1, <2>5, <2>9, <2>10
      <4> QED
        BY <4>1 DEF Ends
    <3>2. o <= o
      BY <1>3
    <3> QED
      BY <2>5, <3>1, <3>2 DEF InPlace
  <2>12. ASSUME NEW t \in later
         PROVE  InPlace(b, o, fields, all, t)
    <3>1. Ends(b, o, all, t.member) = {o} \cup Ends(b, e, later, t.member)
      <4> DEFINE before(x) == {s \in x : s.member < t.member /\ s.filled = "whole"}
      <4>1. before(all) = IF first.filled = "whole" THEN {first} \cup before(later)
                          ELSE before(later)
        BY <2>1, <2>5, <2>10
      <4>2. /\ Ends(b, o, all, t.member) = {o} \cup {FieldEnd(b, s.at) : s \in before(all)}
            /\ Ends(b, e, later, t.member) = {e} \cup {FieldEnd(b, s.at) : s \in before(later)}
        BY DEF Ends
      <4> HIDE DEF before
      <4> QED
        BY <2>4, <4>1, <4>2
    <3>2. PICK from \in Ends(b, e, later, t.member) :
            /\ \A x \in Ends(b, e, later, t.member) : x <= from
            /\ Slipped(b, fields, from, t.at, t.member)
      BY <2>8, Zenon DEF InPlace
    <3>3. e \in Ends(b, e, later, t.member)
      BY DEF Ends
    <3>4. e <= from
      BY <3>2, <3>3
    <3>5. o <= from
      <4>1. ASSUME NEW s \in later, s.filled = "whole"
            PROVE  FieldEnd(b, s.at) \in 0..Len(b)
        <5>1. s.at \in 0..Len(b) /\ s.member \in 1..Len(fields)
          BY <2>8 DEF Piece
        <5>2. Readable(b, s.at, fields[s.member].kind, fields[s.member].id)
          BY <2>8, <4>1 DEF OfItsKind
        <5> QED
          BY <5>1, <5>2, MemberTyped, ReadableEnds
      <4>2. from \in 0..Len(b)
        BY <2>2, <4>1 DEF Ends
      <4> QED
        BY <1>3, <2>2, <3>4, <4>2
    <3> QED
      BY <3>1, <3>2, <3>5, Zenon DEF InPlace
  <2>13. n <= first.member /\ p <= first.at
    BY <1>3, <2>5
  <2> QED
    BY <2>1, <2>6, <2>7, <2>8, <2>10, <2>11, <2>12, <2>13, Zenon DEF InTurn
<1> QED
  BY <1>4, <1>6, <1>7 DEF Filled

\* Whatever the blob, what a reader takes is in its place and of its kind.
LEMMA ReadersTakeInTurn ==
  ASSUME NEW b \in Bytes, NEW fields \in Seq(Member), NEW o \in 0..Len(b)
  PROVE  InTurn(b, o, fields, 1, o, ReadMembers(b, o, fields))
<1> DEFINE L == Len(fields)
           Turns(n, taken) == \A e, q \in 0..Len(b) :
             e <= q /\ Slipped(b, fields, e, q, n) => InTurn(b, e, fields, n, q, taken[q])
<1>1. PICK f : Walks(f, b, fields) /\ ReadMembers(b, o, fields) = f[1][o]
  BY FieldsLength, ReadersWalk
<1>2. /\ \A p \in 0..Len(b) : f[L + 1][p] = {}
      /\ \A n \in 1..L, p \in 0..Len(b) : f[n][p] = FromCall(b, fields, n, p, f[n + 1])
  BY <1>1 DEF Walks
<1>3. L \in Nat /\ Len(b) \in Nat
  BY FieldsLength, LengthIsNat
<1> DEFINE Reach == {d \in Nat : d <= L => Turns(L + 1 - d, f[L + 1 - d])}
<1>4. 0 \in Reach
  <2>1. Turns(L + 1, f[L + 1])
    BY <1>2 DEF InTurn
  <2>2. L + 1 - 0 = L + 1
    BY <1>3
  <2> HIDE DEF L, Turns
  <2> QED
    BY <2>1, <2>2
<1>5. ASSUME NEW d \in Nat, d \in Reach
      PROVE  d + 1 \in Reach
  <2> DEFINE n == L - d
  <2> SUFFICES ASSUME d + 1 <= L
               PROVE  Turns(n, f[n])
    <3>1. L + 1 - (d + 1) = L - d
      BY <1>3
    <3> HIDE DEF L, Turns
    <3> QED
      BY <3>1
  <2>1. n \in 1..L /\ n + 1 = L + 1 - d
    BY <1>3
  <2>2. Turns(n + 1, f[n + 1])
    <3>1. d <= L
      BY <1>3
    <3> HIDE DEF n, L, Turns
    <3> QED
      BY <1>5, <2>1, <3>1
  <2> HIDE DEF n
  <2>3. ASSUME NEW e \in 0..Len(b), NEW q \in 0..Len(b), e <= q, Slipped(b, fields, e, q, n)
        PROVE  InTurn(b, e, fields, n, q, f[n][q])
    <3>1. f[n][q] = FromCall(b, fields, n, q, f[n + 1])
      BY <1>2, <2>1
    <3> QED
      BY <2>1, <2>2, <2>3, <3>1, CallInTurn
  <2> QED
    BY <2>3
<1>6. L \in Reach
  <2> HIDE DEF Reach
  <2> QED
    BY <1>3, <1>4, <1>5, SetInduction
<1>7. L + 1 - L = 1
  BY <1>3
<1>8. Turns(1, f[1])
  <2> HIDE DEF L, Turns
  <2> QED
    BY <1>3, <1>6, <1>7
<1>9. o <= o /\ Slipped(b, fields, o, o, 1)
  BY <1>3, NotSlipped
<1> QED
  BY <1>1, <1>8, <1>9
-----------------------------------------------------------------------------
(* One row.                                                                *)

\* The types of a row and of a table, as the assumptions give them.
RowRecord   == [id : Bytes, blob : Bytes]
TableRecord == [format : Bytes, fields : Seq(Member)]

\* What the reader of a table takes from a row.
TakenFrom(row, table) == ReadMembers(row.blob, Reset(row.blob).offset, table.fields)

\* The row is one of the table.
IsOf(row, table) == FormatThere(row.blob) /\ FormatOf(row.blob) = table.format

\* The main format a blob without data formats seems to have is that of no
\* table.
LEMMA MainFormatOf ==
  ASSUME NEW row \in RowRecord, NEW table \in TableRecord, TableOK(table)
  PROVE  GetMainFormat(row.blob, Reset(row.blob).is_data_valid) = table.format
           <=> IsOf(row, table)
<1> DEFINE b == row.blob
           valid == Reset(b).is_data_valid
<1>1. b \in Bytes /\ table.format # <<0, 0, 0, 0>>
  BY DEF RowRecord, TableOK
<1>2. valid <=> FormatThere(b)
  BY <1>1, MainFormat
<1> HIDE DEF valid
<1>3. GetMainFormat(b, valid) = IF valid THEN FormatOf(b) ELSE <<0, 0, 0, 0>>
  BY DEF GetMainFormat, FormatOf, MagicSize, FirstField
<1>4. (GetMainFormat(b, valid) = table.format) <=> (valid /\ FormatOf(b) = table.format)
  BY <1>1, <1>3
<1> QED
  BY <1>2, <1>4, Zenon DEF IsOf, valid

\* A row gives no object, or one: if it is of the table and the blob and the
\* row agree on the identifier.
LEMMA ObjectsOfRow ==
  ASSUME NEW row \in RowRecord, NEW table \in TableRecord, TableOK(table), NEW i
  PROVE  Objects(row, table, i) =
           IF IsOf(row, table)
              /\ ObjectId(row.blob, TakenFrom(row, table), table.fields) = row.id
           THEN << [row |-> i, taken |-> TakenFrom(row, table)] >> ELSE <<>>
<1> DEFINE b == row.blob
           format == GetMainFormat(b, Reset(b).is_data_valid)
           taken == TakenFrom(row, table)
           agree == ObjectId(b, taken, table.fields) = row.id
<1>1. format = table.format <=> IsOf(row, table)
  BY MainFormatOf
<1>2. Objects(row, table, i) =
        IF format # table.format THEN <<>>
        ELSE IF ~agree THEN <<>> ELSE << [row |-> i, taken |-> taken] >>
  BY Zenon DEF Objects, TakenFrom
<1> HIDE DEF b, format, taken, agree
<1>3. Objects(row, table, i) =
        IF IsOf(row, table) /\ agree THEN << [row |-> i, taken |-> taken] >> ELSE <<>>
  BY <1>1, <1>2
<1> QED
  BY <1>3 DEF b, taken, agree

\* A row a reader of the table can tell apart gives the object the format says.
LEMMA ObjectsOfPlainRow ==
  ASSUME NEW row \in RowRecord, NEW table \in TableRecord, TableOK(table), NEW i,
         NEW k \in Nat, PlainUpTo(row.blob, table.fields, k)
  PROVE  Objects(row, table, i) =
           IF FormatOf(row.blob) = table.format /\ IdentifierOf(row.blob, k) = row.id
           THEN << [row |-> i, taken |-> MembersOf(row.blob, table.fields, k)] >>
           ELSE <<>>
<1>1. row.blob \in Bytes /\ table.fields \in Seq(Member)
  BY DEF RowRecord, TableRecord
<1>2. /\ Distinct(table.fields)
      /\ \A m \in DOMAIN table.fields :
           table.fields[m].id = FieldId.SysId => table.fields[m].kind = "Int"
  BY Zenon DEF TableOK, Distinct
<1>3. TakenFrom(row, table) = MembersOf(row.blob, table.fields, k)
  BY <1>1, <1>2, PlainMembers DEF TakenFrom
<1>4. ObjectId(row.blob, TakenFrom(row, table), table.fields) = IdentifierOf(row.blob, k)
  BY <1>1, <1>2, <1>3, PlainIdentifier
<1>5. IsOf(row, table) <=> FormatOf(row.blob) = table.format
  BY Zenon DEF IsOf, PlainUpTo
<1> QED
  BY <1>3, <1>4, <1>5, ObjectsOfRow

\* The members taken from a blob are in their places and of their kinds.
AllInPlace(b, fields, taken) ==
  \A t \in taken : /\ InPlace(b, FieldEnd(b, FirstField), fields, taken, t)
                   /\ OfItsKind(b, fields, t)

\* Whatever the row.
LEMMA TakenInPlace ==
  ASSUME NEW row \in RowRecord, NEW table \in TableRecord, IsOf(row, table)
  PROVE  AllInPlace(row.blob, table.fields, TakenFrom(row, table))
<1>1. row.blob \in Bytes /\ table.fields \in Seq(Member)
  BY DEF RowRecord, TableRecord
<1>2. /\ Reset(row.blob).offset \in 0..Len(row.blob)
      /\ Reset(row.blob).offset = FieldEnd(row.blob, FirstField)
  BY <1>1, MainFormat DEF IsOf
<1> QED
  BY <1>1, <1>2, ReadersTakeInTurn DEF TakenFrom, InTurn, AllInPlace
-----------------------------------------------------------------------------
(* One row after the other.                                                *)

\* The objects some rows could give a table, one of each row.
Candidates(rows, table) ==
  {[row |-> i, taken |-> TakenFrom(rows[i], table)] : i \in 1..Len(rows)}

\* The objects are those the first n rows give: each of a row that gives it,
\* in the order of the rows, and none is missing.
MadeOf(objects, rows, table, n) ==
  /\ objects \in Seq(Candidates(rows, table))
  /\ \A j \in 1..Len(objects) :
       /\ objects[j].row \in 1..n
       /\ Objects(rows[objects[j].row], table, objects[j].row) = << objects[j] >>
  /\ \A j, k \in 1..Len(objects) : j < k => objects[j].row < objects[k].row
  /\ \A i \in 1..n :
       Objects(rows[i], table, i) # <<>> => \E j \in 1..Len(objects) : objects[j].row = i

LEMMA NoRowsNoObjects ==
  ASSUME NEW rows, NEW table
  PROVE  MadeOf(<<>>, rows, table, 0)
<1>1. <<>> \in Seq(Candidates(rows, table))
  OBVIOUS
<1> QED
  BY <1>1 DEF MadeOf

\* One more turn of the loop.
LEMMA OneMoreRow ==
  ASSUME NEW rows \in Seq(RowRecord), NEW table \in TableRecord, TableOK(table),
         NEW n \in 0..(Len(rows) - 1), NEW objects, MadeOf(objects, rows, table, n)
  PROVE  MadeOf(objects \o Objects(rows[n + 1], table, n + 1), rows, table, n + 1)
<1> DEFINE all == Candidates(rows, table)
           new == [row |-> n + 1, taken |-> TakenFrom(rows[n + 1], table)]
           one == Objects(rows[n + 1], table, n + 1)
           made == objects \o one
<1>1. Len(rows) \in Nat /\ n + 1 \in 1..Len(rows) /\ n \in Nat
  BY LenProperties
<1>2. rows[n + 1] \in RowRecord
  BY <1>1, ElementOfSeq
<1>3. one = <<>> \/ one = << new >>
  BY <1>2, ObjectsOfRow
<1>4. new \in all /\ new.row = n + 1
  BY <1>1 DEF Candidates
<1> SUFFICES MadeOf(made, rows, table, n + 1)
  OBVIOUS
<1> HIDE DEF all, new, one
<1>5. /\ objects \in Seq(all)
      /\ \A j \in 1..Len(objects) :
           /\ objects[j].row \in 1..n
           /\ Objects(rows[objects[j].row], table, objects[j].row) = << objects[j] >>
      /\ \A j, k \in 1..Len(objects) : j < k => objects[j].row < objects[k].row
      /\ \A i \in 1..n :
           Objects(rows[i], table, i) # <<>> => \E j \in 1..Len(objects) : objects[j].row = i
  BY DEF MadeOf, all
<1>6. Len(objects) \in Nat
  BY <1>5, LenProperties
<1>7. CASE one = <<>>
  <2>1. made = objects
    BY <1>5, <1>7, ConcatEmptySeq
  <2>2. \A j \in 1..Len(objects) : objects[j].row \in 1..(n + 1)
    BY <1>1, <1>5
  <2>3. \A i \in 1..(n + 1) : i \in 1..n \/ i = n + 1
    BY <1>1
  <2>4. \A i \in 1..(n + 1) :
          Objects(rows[i], table, i) # <<>> => \E j \in 1..Len(objects) : objects[j].row = i
    BY <1>5, <1>7, <2>3 DEF one
  <2> HIDE DEF made
  <2> QED
    BY <1>5, <2>1, <2>2, <2>4 DEF MadeOf, all
<1>8. CASE one = << new >>
  <2>1. one \in Seq(all) /\ Len(one) = 1 /\ one[1] = new
    BY <1>4, <1>8
  <2>2. /\ made \in Seq(all) /\ Len(made) = Len(objects) + 1
        /\ \A j \in 1..Len(objects) : made[j] = objects[j]
        /\ made[Len(objects) + 1] = new
    <3>1. /\ made \in Seq(all) /\ Len(made) = Len(objects) + Len(one)
          /\ \A j \in 1..Len(made) : made[j] = IF j <= Len(objects) THEN objects[j]
                                              ELSE one[j - Len(objects)]
      <4>1. \A s, u \in Seq(all) :
              /\ s \o u \in Seq(all) /\ Len(s \o u) = Len(s) + Len(u)
              /\ \A j \in 1..(Len(s) + Len(u)) :
                   (s \o u)[j] = IF j <= Len(s) THEN s[j] ELSE u[j - Len(s)]
        BY ConcatProperties
      <4> QED
        BY <1>5, <2>1, <4>1
    <3> HIDE DEF made
    <3> QED
      BY <1>6, <2>1, <3>1
  <2> HIDE DEF made
  <2>3. \A j \in 1..Len(made) : j \in 1..Len(objects) \/ j = Len(objects) + 1
    BY <1>6, <2>2
  <2>4. \A j \in 1..Len(made) :
          /\ made[j].row \in 1..(n + 1)
          /\ Objects(rows[made[j].row], table, made[j].row) = << made[j] >>
    <3>1. Objects(rows[new.row], table, new.row) = << new >>
      BY <1>4, <1>8 DEF one
    <3>2. \A j \in 1..Len(objects) : objects[j].row \in 1..(n + 1)
      BY <1>1, <1>5
    <3>3. new.row \in 1..(n + 1)
      BY <1>1, <1>4
    <3> QED
      BY <1>5, <2>2, <2>3, <3>1, <3>2, <3>3
  <2>5. \A j, k \in 1..Len(made) : j < k => made[j].row < made[k].row
    <3> SUFFICES ASSUME NEW j \in 1..Len(made), NEW k \in 1..Len(made), j < k
                 PROVE  made[j].row < made[k].row
      OBVIOUS
    <3>1. j \in 1..Len(objects)
      BY <1>6, <2>2
    <3>2. CASE k \in 1..Len(objects)
      BY <1>5, <2>2, <3>1, <3>2
    <3>3. CASE k = Len(objects) + 1
      <4>1. made[j].row \in 1..n /\ made[k].row = n + 1
        BY <1>4, <1>5, <2>2, <3>1, <3>3
      <4> QED
        BY <1>1, <4>1
    <3> QED
      BY <2>3, <3>2, <3>3
  <2>6. ASSUME NEW i \in 1..(n + 1), Objects(rows[i], table, i) # <<>>
        PROVE  \E j \in 1..Len(made) : made[j].row = i
    <3>1. CASE i \in 1..n
      <4>1. PICK j \in 1..Len(objects) : objects[j].row = i
        BY <1>5, <2>6, <3>1
      <4>2. j \in 1..Len(made) /\ made[j] = objects[j]
        BY <1>6, <2>2, <4>1
      <4> QED
        BY <4>1, <4>2
    <3>2. CASE i = n + 1
      <4>1. Len(objects) + 1 \in 1..Len(made) /\ made[Len(objects) + 1].row = i
        BY <1>4, <1>6, <2>2, <3>2
      <4> QED
        BY <4>1
    <3> QED
      BY <1>1, <3>1, <3>2
  <2> QED
    BY <2>2, <2>4, <2>5, <2>6 DEF MadeOf, all
<1> QED
  BY <1>3, <1>7, <1>8

\* Of the first n rows, those a reader of the table can tell apart give the
\* objects the format says.
ExactFor(objects, rows, table, n) ==
  \A i \in 1..n, k \in Nat :
    PlainUpTo(rows[i].blob, table.fields, k) =>
      {objects[j].taken : j \in {j \in 1..Len(objects) : objects[j].row = i}} =
        IF FormatOf(rows[i].blob) = table.format
           /\ IdentifierOf(rows[i].blob, k) = rows[i].id
        THEN {MembersOf(rows[i].blob, table.fields, k)} ELSE {}

\* What the properties of the getters say about such objects.
LEMMA ExactlyTheObjects ==
  ASSUME NEW rows \in Seq(RowRecord), NEW table \in TableRecord, TableOK(table),
         NEW n \in 0..Len(rows), NEW objects, MadeOf(objects, rows, table, n)
  PROVE  /\ \A j \in 1..Len(objects) :
              /\ IsOf(rows[objects[j].row], table)
              /\ AllInPlace(rows[objects[j].row].blob, table.fields, objects[j].taken)
         /\ ExactFor(objects, rows, table, n)
<1>1. /\ \A j \in 1..Len(objects) :
           /\ objects[j].row \in 1..n
           /\ Objects(rows[objects[j].row], table, objects[j].row) = << objects[j] >>
      /\ \A i \in 1..n :
           Objects(rows[i], table, i) # <<>> => \E j \in 1..Len(objects) : objects[j].row = i
  BY DEF MadeOf
<1>2. \A i \in 1..n : rows[i] \in RowRecord
  <2>1. \A i \in 1..n : i \in 1..Len(rows)
    BY LenProperties
  <2> QED
    BY <2>1, ElementOfSeq
<1>3. ASSUME NEW j \in 1..Len(objects)
      PROVE  /\ IsOf(rows[objects[j].row], table)
             /\ AllInPlace(rows[objects[j].row].blob, table.fields, objects[j].taken)
  <2> DEFINE i == objects[j].row
  <2>1. i \in 1..n /\ rows[i] \in RowRecord /\ Objects(rows[i], table, i) = << objects[j] >>
    BY <1>1, <1>2
  <2>2. /\ IsOf(rows[i], table)
        /\ << objects[j] >> = << [row |-> i, taken |-> TakenFrom(rows[i], table)] >>
    <3> HIDE DEF i
    <3>1. << objects[j] >> # <<>>
      OBVIOUS
    <3> QED
      BY <2>1, <3>1, ObjectsOfRow
  <2>3. objects[j] = [row |-> i, taken |-> TakenFrom(rows[i], table)]
    BY <2>2
  <2>4. objects[j].taken = TakenFrom(rows[i], table)
    BY <2>3
  <2> QED
    BY <2>1, <2>2, <2>4, TakenInPlace
<1>4. ASSUME NEW i \in 1..n, NEW k \in Nat, PlainUpTo(rows[i].blob, table.fields, k)
      PROVE  {objects[j].taken : j \in {j \in 1..Len(objects) : objects[j].row = i}} =
               IF FormatOf(rows[i].blob) = table.format
                  /\ IdentifierOf(rows[i].blob, k) = rows[i].id
               THEN {MembersOf(rows[i].blob, table.fields, k)} ELSE {}
  <2> DEFINE members == MembersOf(rows[i].blob, table.fields, k)
             fits == /\ FormatOf(rows[i].blob) = table.format
                     /\ IdentifierOf(rows[i].blob, k) = rows[i].id
             mine == {j \in 1..Len(objects) : objects[j].row = i}
  <2>1. Objects(rows[i], table, i) =
          IF fits THEN << [row |-> i, taken |-> members] >> ELSE <<>>
    BY <1>2, <1>4, ObjectsOfPlainRow
  <2>2. \A j \in mine : Objects(rows[i], table, i) = << objects[j] >>
    BY <1>1
  <2> HIDE DEF members, fits
  <2>3. CASE fits
    <3>1. \A j \in mine : objects[j] = [row |-> i, taken |-> members]
      BY <2>1, <2>2, <2>3
    <3>2. \A j \in mine : objects[j].taken = members
      BY <3>1
    <3>3. Objects(rows[i], table, i) # <<>>
      BY <2>1, <2>3
    <3>4. mine # {}
      BY <1>1, <3>3
    <3> HIDE DEF mine
    <3>5. {objects[j].taken : j \in mine} = {members}
      BY <3>2, <3>4
    <3> QED
      BY <2>3, <3>5 DEF fits, members, mine
  <2>4. CASE ~fits
    <3>1. mine = {}
      BY <2>1, <2>2, <2>4
    <3> HIDE DEF mine
    <3>2. {objects[j].taken : j \in mine} = {}
      BY <3>1
    <3> QED
      BY <2>4, <3>2 DEF fits, members, mine
  <2> QED
    BY <2>3, <2>4
<1>5. ExactFor(objects, rows, table, n)
  BY <1>4 DEF ExactFor
<1> QED
  BY <1>3, <1>5

-----------------------------------------------------------------------------
(* Every getter, one after the other, over a file that changes.            *)

\* While a getter runs, the objects it has are those of the rows behind it.
LoopOK == Running => MadeOf(data, sql_data, Tables[getter], next - 1)

\* What a getter returned stays in order; the rest of the promises follow from
\* LoopOK.
IInv == TypeOK /\ OneObjectPerRow /\ LoopOK

LEMMA TableTyped ==
  ASSUME NEW t \in DOMAIN Tables
  PROVE  Tables[t] \in TableRecord /\ TableOK(Tables[t]) /\ t # 0
<1>1. Tables \in Seq(TableRecord) /\ TableOK(Tables[t])
  BY TablesAssumption DEF TableRecord
<1>2. DOMAIN Tables = 1..Len(Tables) /\ Len(Tables) \in Nat
  BY <1>1, LenProperties
<1> QED
  BY <1>1, <1>2, ElementOfSeq

LEMMA DatabaseTyped ==
  ASSUME NEW rows \in Databases
  PROVE  rows \in Seq(RowRecord) /\ Len(rows) \in Nat
<1>1. rows \in Seq(RowRecord)
  BY DatabasesAssumption DEF RowRecord
<1> QED
  BY <1>1, LenProperties

\* What a query gives: the first of the rows of some contents of the file.
LEMMA FirstRows ==
  ASSUME NEW rows \in Databases, NEW n \in 0..Len(rows)
  PROVE  /\ SubSeq(rows, 1, n) \in Seq(RowRecord)
         /\ Len(SubSeq(rows, 1, n)) = n
         /\ \A i \in 1..n : SubSeq(rows, 1, n)[i] = rows[i]
<1>1. rows \in Seq(RowRecord) /\ Len(rows) \in Nat
  BY DatabaseTyped
<1>2. \A i \in 1..n : rows[i] \in RowRecord
  BY <1>1, ElementOfSeq
<1> QED
  BY <1>1, <1>2, SubSeqProperties

LEMMA RowsTyped ==
  ASSUME TypeOK
  PROVE  sql_data \in Seq(RowRecord) /\ Len(sql_data) \in Nat
<1>1. PICK rows \in Databases : \E n \in 0..Len(rows) : sql_data = SubSeq(rows, 1, n)
  BY Zenon DEF TypeOK
<1>2. PICK n \in 0..Len(rows) : sql_data = SubSeq(rows, 1, n)
  BY <1>1
<1>3. sql_data \in Seq(RowRecord)
  BY <1>2, FirstRows
<1> QED
  BY <1>3, LenProperties

LEMMA InitInvariant == Init => IInv
<1> SUFFICES ASSUME Init
             PROVE  IInv
  OBVIOUS
<1>1. objs \in Databases /\ getter = 0 /\ sql_data = <<>> /\ next = 1 /\ data = <<>>
  BY DEF Init
<1>2. objs \in Seq(RowRecord) /\ Len(objs) \in Nat
  BY <1>1, DatabaseTyped
<1>3. 0 \in 0..Len(objs) /\ sql_data = SubSeq(objs, 1, 0)
  BY <1>1, <1>2
<1>4. TypeOK
  BY <1>1, <1>3 DEF TypeOK
<1> QED
  BY <1>1, <1>4 DEF IInv, OneObjectPerRow, LoopOK, Running

LEMMA GetObjsStep ==
  ASSUME IInv, NEW t \in DOMAIN Tables, GetObjs(t)
  PROVE  IInv'
<1>1. getter' = t /\ sql_data' \in Fetched /\ next' = 1 /\ data' = <<>> /\ objs' = objs
  BY DEF GetObjs
<1>2. objs \in Databases
  BY DEF IInv, TypeOK
<1>3. PICK n \in 0..Len(objs) : sql_data' = SubSeq(objs, 1, n)
  BY <1>1 DEF Fetched
<1>4. Len(sql_data') = n /\ n \in Nat
  BY <1>2, <1>3, FirstRows, DatabaseTyped
<1>5. TypeOK'
  BY <1>1, <1>2, <1>3, <1>4 DEF TypeOK
<1>6. MadeOf(<<>>, sql_data', Tables[t], 0)
  BY NoRowsNoObjects
<1>7. LoopOK'
  BY <1>1, <1>6 DEF LoopOK
<1> QED
  BY <1>1, <1>5, <1>7 DEF IInv, OneObjectPerRow

LEMMA ReadObjectStep ==
  ASSUME IInv, ReadObject
  PROVE  IInv'
<1>1. /\ getter # 0 /\ next <= Len(sql_data)
      /\ data' = data \o Objects(sql_data[next], Tables[getter], next)
      /\ next' = next + 1
      /\ objs' = objs /\ getter' = getter /\ sql_data' = sql_data
  BY DEF ReadObject
<1>2. TypeOK /\ Running /\ MadeOf(data, sql_data, Tables[getter], next - 1)
  BY <1>1 DEF IInv, LoopOK, Running
<1>3. sql_data \in Seq(RowRecord) /\ Len(sql_data) \in Nat
  BY <1>2, RowsTyped
<1>4. next \in 1..Len(sql_data) /\ getter \in DOMAIN Tables
  BY <1>1, <1>2, <1>3 DEF TypeOK
<1>5. Tables[getter] \in TableRecord /\ TableOK(Tables[getter])
  BY <1>4, TableTyped
<1>6. next - 1 \in 0..(Len(sql_data) - 1) /\ next - 1 + 1 = next /\ next' - 1 = next
  BY <1>1, <1>3, <1>4
<1>7. MadeOf(data', sql_data, Tables[getter], next)
  <2>1. MadeOf(data \o Objects(sql_data[next - 1 + 1], Tables[getter], next - 1 + 1),
               sql_data, Tables[getter], next - 1 + 1)
    BY <1>2, <1>3, <1>5, <1>6, OneMoreRow
  <2> QED
    BY <1>1, <1>6, <2>1
<1>8. LoopOK'
  BY <1>1, <1>6, <1>7 DEF LoopOK
<1>9. DOMAIN data' = 1..Len(data')
  <2>1. data' \in Seq(Candidates(sql_data, Tables[getter]))
    BY <1>7 DEF MadeOf
  <2> QED
    BY <2>1, LenProperties
<1>10. /\ \A j \in 1..Len(data') : data'[j].row \in 1..next
       /\ \A j, k \in 1..Len(data') : j < k => data'[j].row < data'[k].row
  BY <1>7 DEF MadeOf
<1>11. TypeOK'
  <2>1. next' \in 1..(Len(sql_data') + 1)
    BY <1>1, <1>3, <1>4
  <2>2. \A j \in DOMAIN data' : data'[j].row \in 1..(next' - 1)
    BY <1>6, <1>9, <1>10
  <2>3. /\ objs' \in Databases
        /\ getter' \in {0} \cup DOMAIN Tables
        /\ \E rows \in Databases : \E n \in 0..Len(rows) : sql_data' = SubSeq(rows, 1, n)
    BY <1>1, <1>2 DEF TypeOK
  <2> QED
    BY <2>1, <2>2, <2>3, Zenon DEF TypeOK
<1>12. OneObjectPerRow'
  BY <1>9, <1>10 DEF OneObjectPerRow
<1> QED
  BY <1>8, <1>11, <1>12 DEF IInv

LEMMA ReturnStep ==
  ASSUME IInv, Return
  PROVE  IInv'
<1>1. /\ getter' = 0
      /\ objs' = objs /\ sql_data' = sql_data /\ next' = next /\ data' = data
  BY DEF Return
<1>2. TypeOK'
  BY <1>1 DEF IInv, TypeOK
<1> QED
  BY <1>1, <1>2 DEF IInv, OneObjectPerRow, LoopOK, Running

LEMMA ChangeStep ==
  ASSUME IInv, Change
  PROVE  IInv'
<1>1. /\ objs' \in Databases
      /\ getter' = getter /\ sql_data' = sql_data /\ next' = next /\ data' = data
  BY DEF Change
<1>2. TypeOK'
  BY <1>1 DEF IInv, TypeOK
<1> QED
  BY <1>1, <1>2 DEF IInv, OneObjectPerRow, LoopOK, Running

LEMMA StutterStep ==
  ASSUME IInv, UNCHANGED vars
  PROVE  IInv'
BY DEF vars, IInv, TypeOK, OneObjectPerRow, LoopOK, Running

LEMMA NextInvariant == IInv /\ [Next]_vars => IInv'
BY GetObjsStep, ReadObjectStep, ReturnStep, ChangeStep, StutterStep DEF Next

-----------------------------------------------------------------------------
\* The inductive invariant of the getters.
THEOREM Inductive == Spec => []IInv
BY InitInvariant, NextInvariant, PTL DEF Spec

\* The types of the getters' variables: the rows a getter works on are always
\* the first rows of contents the file had, whatever the file is now, and no
\* object is of a row the loop has not reached.
THEOREM TypeCorrect == Spec => []TypeOK
<1>1. IInv => TypeOK
  BY DEF IInv
<1> QED
  BY <1>1, Inductive, PTL

\* A row gives at most one object, and objects stay in the order of the rows.
THEOREM RowsInOrder == Spec => []OneObjectPerRow
<1>1. IInv => OneObjectPerRow
  BY DEF IInv
<1> QED
  BY <1>1, Inductive, PTL

LEMMA WhileRunning ==
  ASSUME IInv, Running
  PROVE  /\ sql_data \in Seq(RowRecord) /\ Len(sql_data) \in Nat
         /\ Tables[getter] \in TableRecord /\ TableOK(Tables[getter])
         /\ next - 1 \in 0..Len(sql_data)
         /\ MadeOf(data, sql_data, Tables[getter], next - 1)
         /\ DOMAIN data = 1..Len(data)
<1>1. TypeOK /\ MadeOf(data, sql_data, Tables[getter], next - 1)
  BY DEF IInv, LoopOK
<1>2. sql_data \in Seq(RowRecord) /\ Len(sql_data) \in Nat
  BY <1>1, RowsTyped
<1>3. getter \in DOMAIN Tables
  BY <1>1 DEF TypeOK, Running
<1>4. next - 1 \in 0..Len(sql_data)
  BY <1>1, <1>2 DEF TypeOK
<1>5. data \in Seq(Candidates(sql_data, Tables[getter]))
  BY <1>1 DEF MadeOf
<1> QED
  BY <1>1, <1>2, <1>3, <1>4, <1>5, TableTyped, LenProperties

\* The rows of one table never turn up in another, and a blob without data
\* formats turns up nowhere.
THEOREM OnlyItsRows == Spec => []OnlyRowsOfTheTable
<1>1. IInv => OnlyRowsOfTheTable
  <2> SUFFICES ASSUME IInv, Running
               PROVE  \A j \in DOMAIN data : IsOf(sql_data[data[j].row], Tables[getter])
    BY DEF OnlyRowsOfTheTable, IsOf
  <2> QED
    BY WhileRunning, ExactlyTheObjects
<1> QED
  BY <1>1, Inductive, PTL

\* A row a reader of the table can tell apart gives exactly the object the
\* format says: for every table, every such blob and every file.
THEOREM PlainRowsExact == Spec => []PlainRowsAreExact
<1>1. IInv => PlainRowsAreExact
  <2> SUFFICES ASSUME IInv, Running
               PROVE  PlainRowsAreExact
    BY DEF PlainRowsAreExact
  <2>1. ExactFor(data, sql_data, Tables[getter], next - 1)
    BY WhileRunning, ExactlyTheObjects
  <2>2. \A k \in 0..Len(Tables[getter].fields) : k \in Nat
    OBVIOUS
  <2>3. DOMAIN data = 1..Len(data)
    BY WhileRunning
  <2> QED
    BY <2>1, <2>2, <2>3 DEF PlainRowsAreExact, ExactFor
<1> QED
  BY <1>1, Inductive, PTL

\* Every member is taken from a field of its kind and identifier, behind those
\* taken whole before it: for every table and every blob, damaged, disordered or
\* with payloads that look like fields, and with the exceptions the property
\* names and no other.
THEOREM MembersInTheirPlaces == Spec => []MembersInPlace
<1>1. IInv => MembersInPlace
  <2> SUFFICES ASSUME IInv, Running
               PROVE  \A j \in DOMAIN data :
                        AllInPlace(sql_data[data[j].row].blob, Tables[getter].fields, data[j].taken)
    BY DEF MembersInPlace, AllInPlace
  <2> QED
    BY WhileRunning, ExactlyTheObjects
<1> QED
  BY <1>1, Inductive, PTL

-----------------------------------------------------------------------------
(* The promise is stated with the format of the rows, of which it has a    *)
(* copy of its own.                                                        *)

LEMMA SameFormatThere ==
  ASSUME NEW b
  PROVE  /\ Promise!FormatThere(b) <=> FormatThere(b)
         /\ Promise!FormatOf(b) = FormatOf(b)
BY DEF Promise!Readable, Readable, Promise!FieldThere, FieldThere,
       Promise!IdAt, IdAt, Promise!TypeAt, TypeAt, Promise!HeldIn, HeldIn,
       Promise!U8, U8, Promise!HeaderThere, HeaderThere, Promise!FieldEnd,
       FieldEnd, Promise!PayloadEnd, PayloadEnd, Promise!CountedEnd,
       CountedEnd, Promise!StringsEnd, StringsEnd, Promise!StringEnd,
       StringEnd, Promise!U16, U16, Promise!U24, U24, Promise!FieldType,
       FieldType, Promise!FieldTypes, FieldTypes, Promise!FieldId, FieldId,
       Promise!HeaderSize, HeaderSize, Promise!FirstField, FirstField,
       Promise!FormatThere, FormatThere, Promise!FormatOf, FormatOf

LEMMA SameFieldEnd ==
  ASSUME NEW b
  PROVE  \A s : Promise!FieldEnd(b, s) = FieldEnd(b, s)
BY DEF Promise!IdAt, IdAt, Promise!TypeAt, TypeAt, Promise!U8, U8,
       Promise!FieldEnd, FieldEnd, Promise!PayloadEnd, PayloadEnd,
       Promise!CountedEnd, CountedEnd, Promise!StringsEnd, StringsEnd,
       Promise!StringEnd, StringEnd, Promise!U16, U16, Promise!U24, U24,
       Promise!FieldType, FieldType, Promise!HeaderSize, HeaderSize

LEMMA SameStart ==
  ASSUME NEW b
  PROVE  \A n : Promise!Start(b, n) = Start(b, n)
BY DEF Promise!IdAt, IdAt, Promise!TypeAt, TypeAt, Promise!U8, U8,
       Promise!FieldEnd, FieldEnd, Promise!PayloadEnd, PayloadEnd,
       Promise!CountedEnd, CountedEnd, Promise!StringsEnd, StringsEnd,
       Promise!StringEnd, StringEnd, Promise!U16, U16, Promise!U24, U24,
       Promise!FieldType, FieldType, Promise!HeaderSize, HeaderSize,
       Promise!Start, Start, Promise!FirstField, FirstField

LEMMA SameField ==
  ASSUME NEW b, NEW s, NEW fields
  PROVE  /\ Promise!HeaderThere(b, s) <=> HeaderThere(b, s)
         /\ Promise!IdAt(b, s) = IdAt(b, s)
         /\ Promise!FieldId.None = FieldId.None
         /\ Promise!Belongs(b, s, fields) <=> Belongs(b, s, fields)
         /\ Promise!MemberAt(b, s, fields) = MemberAt(b, s, fields)
BY DEF Promise!Readable, Readable, Promise!FieldThere, FieldThere,
       Promise!IdAt, IdAt, Promise!TypeAt, TypeAt, Promise!HeldIn, HeldIn,
       Promise!U8, U8, Promise!HeaderThere, HeaderThere, Promise!FieldEnd,
       FieldEnd, Promise!PayloadEnd, PayloadEnd, Promise!CountedEnd,
       CountedEnd, Promise!StringsEnd, StringsEnd, Promise!StringEnd,
       StringEnd, Promise!U16, U16, Promise!U24, U24, Promise!FieldType,
       FieldType, Promise!FieldTypes, FieldTypes, Promise!FieldId, FieldId,
       Promise!HeaderSize, HeaderSize, Promise!Belongs, Belongs,
       Promise!MemberAt, MemberAt

LEMMA SamePlain ==
  ASSUME NEW b, NEW fields, NEW k
  PROVE  Promise!PlainUpTo(b, fields, k) <=> PlainUpTo(b, fields, k)
<1>1. Promise!InOrder(b, fields, k) <=> InOrder(b, fields, k)
  BY SameStart, SameField DEF Promise!InOrder, InOrder
<1>2. Promise!NoneFollows(b, fields, k) <=> NoneFollows(b, fields, k)
  BY SameStart, SameField DEF Promise!NoneFollows, NoneFollows
<1> QED
  BY <1>1, <1>2, SameFormatThere DEF Promise!PlainUpTo, PlainUpTo

LEMMA SameMembers ==
  ASSUME NEW b, NEW fields, NEW k
  PROVE  Promise!MembersOf(b, fields, k) = MembersOf(b, fields, k)
BY DEF Promise!Readable, Readable, Promise!FieldThere, FieldThere,
       Promise!IdAt, IdAt, Promise!TypeAt, TypeAt, Promise!HeldIn, HeldIn,
       Promise!U8, U8, Promise!HeaderThere, HeaderThere, Promise!FieldEnd,
       FieldEnd, Promise!PayloadEnd, PayloadEnd, Promise!CountedEnd,
       CountedEnd, Promise!StringsEnd, StringsEnd, Promise!StringEnd,
       StringEnd, Promise!U16, U16, Promise!U24, U24, Promise!FieldType,
       FieldType, Promise!FieldTypes, FieldTypes, Promise!FieldId, FieldId,
       Promise!HeaderSize, HeaderSize, Promise!FirstField, FirstField,
       Promise!FormatThere, FormatThere, Promise!FormatOf, FormatOf,
       Promise!Start, Start, Promise!MembersOf, MembersOf, Promise!MemberAt,
       MemberAt

LEMMA SameIdentifier ==
  ASSUME NEW b, NEW k
  PROVE  Promise!IdentifierOf(b, k) = IdentifierOf(b, k)
<1> DEFINE theirs == {i \in 0..(k - 1) :
                       Promise!IdAt(b, Promise!Start(b, i)) = Promise!FieldId.SysId}
           ours == {i \in 0..(k - 1) : IdAt(b, Start(b, i)) = FieldId.SysId}
<1>1. theirs = ours
  BY SameStart DEF Promise!IdAt, IdAt, Promise!U24, U24, Promise!FieldId, FieldId
<1>2. Promise!HeaderSize = HeaderSize
  BY DEF Promise!HeaderSize, HeaderSize
<1>3. Promise!IdentifierOf(b, k) =
        LET at == Promise!Start(b, CHOOSE i \in theirs : TRUE) + Promise!HeaderSize
        IN IF theirs = {} THEN <<0, 0, 0, 0>>
           ELSE IF Promise!FieldEnd(b, at - Promise!HeaderSize) = at + 1
           THEN <<b[at + 1], 0, 0, 0>>
           ELSE <<b[at + 1], b[at + 2], b[at + 3], b[at + 4]>>
  BY DEF Promise!IdentifierOf
<1>4. IdentifierOf(b, k) =
        LET at == Start(b, CHOOSE i \in ours : TRUE) + HeaderSize
        IN IF ours = {} THEN <<0, 0, 0, 0>>
           ELSE IF FieldEnd(b, at - HeaderSize) = at + 1 THEN <<b[at + 1], 0, 0, 0>>
           ELSE <<b[at + 1], b[at + 2], b[at + 3], b[at + 4]>>
  BY DEF IdentifierOf
<1> HIDE DEF theirs, ours
<1> QED
  BY <1>1, <1>2, <1>3, <1>4, SameStart, SameFieldEnd

-----------------------------------------------------------------------------
(* The order of the getters.                                               *)

\* First the listed tables, then all of them.
LEMMA JobsInOrder ==
  /\ Len(Listed) \in Nat /\ Len(Tables) \in Nat /\ DOMAIN Tables = 1..Len(Tables)
  /\ Len(Jobs) = Len(Listed) + Len(Tables)
  /\ \A i \in 1..Len(Jobs) : Jobs[i] \in DOMAIN Tables
  /\ \A i \in 1..Len(Jobs) : i > Len(Listed) => Jobs[i] = i - Len(Listed)
<1> DEFINE all == [t \in 1..Len(Tables) |-> t]
<1>1. Len(Tables) \in Nat /\ DOMAIN Tables = 1..Len(Tables)
  <2>1. Tables \in Seq([format : Bytes, fields : Seq(Member)])
    BY TablesAssumption
  <2> QED
    BY <2>1, LenProperties
<1>2. Listed \in Seq(1..Len(Tables)) /\ Len(Listed) \in Nat
  BY <1>1, ListedAssumption, LenProperties
<1>3. all \in Seq(1..Len(Tables)) /\ Len(all) = Len(Tables)
  BY <1>1
<1>4. \A i \in 1..Len(Tables) : all[i] = i
  OBVIOUS
<1> HIDE DEF all
<1>5. \A s, u \in Seq(1..Len(Tables)) :
        /\ s \o u \in Seq(1..Len(Tables)) /\ Len(s \o u) = Len(s) + Len(u)
        /\ \A j \in 1..(Len(s) + Len(u)) :
             (s \o u)[j] = IF j <= Len(s) THEN s[j] ELSE u[j - Len(s)]
  BY ConcatProperties
<1>6. /\ Jobs \in Seq(1..Len(Tables)) /\ Len(Jobs) = Len(Listed) + Len(Tables)
      /\ \A j \in 1..(Len(Listed) + Len(Tables)) :
           Jobs[j] = IF j <= Len(Listed) THEN Listed[j] ELSE all[j - Len(Listed)]
  BY <1>2, <1>3, <1>5 DEF Jobs, all
<1>7. \A i \in 1..Len(Jobs) : Jobs[i] \in DOMAIN Tables
  BY <1>1, <1>6, ElementOfSeq
<1>8. ASSUME NEW i \in 1..Len(Jobs), i > Len(Listed)
      PROVE  Jobs[i] = i - Len(Listed)
  <2>1. i - Len(Listed) \in 1..Len(Tables) /\ ~(i <= Len(Listed))
    BY <1>1, <1>2, <1>6, <1>8
  <2> QED
    BY <1>4, <1>6, <2>1
<1> QED
  BY <1>1, <1>2, <1>6, <1>7, <1>8

-----------------------------------------------------------------------------
(* All the objects of some rows.                                           *)

\* The objects the first n rows make, one row after the other.
Made(rows, table, n) ==
  LET upTo[i \in 0..Len(rows)] ==
        IF i = 0 THEN <<>> ELSE upTo[i - 1] \o Objects(rows[i], table, i)
  IN upTo[n]

LEMMA MadeSteps ==
  ASSUME NEW rows, NEW table, Len(rows) \in Nat
  PROVE  /\ Made(rows, table, 0) = <<>>
         /\ \A n \in 0..(Len(rows) - 1) :
              Made(rows, table, n + 1)
                = Made(rows, table, n) \o Objects(rows[n + 1], table, n + 1)
<1> DEFINE L == Len(rows)
           Step(i, before) == IF i = 0 THEN <<>> ELSE before \o Objects(rows[i], table, i)
           Walk(m, f) == f = [i \in 0..m |-> Step(i, f[i - 1])]
           Reach == {m \in Nat : \E f : Walk(m, f)}
<1>1. 0 \in Reach
  <2>1. Walk(0, [i \in 0..0 |-> <<>>])
    OBVIOUS
  <2> QED
    BY <2>1
<1>2. ASSUME NEW m \in Nat, m \in Reach
      PROVE  m + 1 \in Reach
  <2>1. PICK f : Walk(m, f)
    BY <1>2
  <2> DEFINE g == [i \in 0..(m + 1) |-> IF i = m + 1 THEN Step(m + 1, f[m]) ELSE f[i]]
  <2>2. \A i \in 0..(m + 1) : g[i] = Step(i, g[i - 1])
    <3>1. \A x : Step(0, x) = <<>>
      OBVIOUS
    <3> HIDE DEF Step
    <3>2. \A i \in 0..m : f[i] = Step(i, f[i - 1]) /\ g[i] = f[i]
      BY <2>1
    <3>3. g[m + 1] = Step(m + 1, g[m])
      BY <3>2
    <3> HIDE DEF g
    <3>4. g[0] = Step(0, g[0 - 1])
      <4>1. 0 \in 0..m
        OBVIOUS
      <4> QED
        BY <3>1, <3>2, <4>1
    <3>5. ASSUME NEW i \in 1..m
          PROVE  g[i] = Step(i, g[i - 1])
      <4>1. i \in 0..m /\ i - 1 \in 0..m
        OBVIOUS
      <4> QED
        BY <3>2, <4>1
    <3>6. \A i \in 0..(m + 1) : i = 0 \/ i = m + 1 \/ i \in 1..m
      OBVIOUS
    <3>7. m + 1 - 1 = m
      OBVIOUS
    <3> QED
      BY <3>3, <3>4, <3>5, <3>6, <3>7
  <2>3. Walk(m + 1, g)
    BY <2>2
  <2> HIDE DEF g, Walk
  <2> QED
    BY <2>3
<1>3. \E f : Walk(L, f)
  <2>1. L \in Reach
    <3> HIDE DEF Reach
    <3> QED
      BY <1>1, <1>2, SetInduction
  <2> QED
    BY <2>1
<1> DEFINE upTo == CHOOSE f : Walk(L, f)
<1>4. Walk(L, upTo)
  <2> HIDE DEF Walk
  <2> QED
    BY <1>3
<1>5. \A n : Made(rows, table, n) = upTo[n]
  BY DEF Made
<1> HIDE DEF upTo
<1>6. \A i \in 0..L : upTo[i] = Step(i, upTo[i - 1])
  BY <1>4
<1>7. upTo[0] = <<>>
  BY <1>6
<1>8. ASSUME NEW n \in 0..(L - 1)
      PROVE  upTo[n + 1] = upTo[n] \o Objects(rows[n + 1], table, n + 1)
  <2>1. n + 1 \in 0..L /\ n + 1 # 0 /\ n + 1 - 1 = n
    OBVIOUS
  <2>2. upTo[n + 1] = Step(n + 1, upTo[n])
    <3> HIDE DEF Step
    <3> QED
      BY <1>6, <2>1
  <2> QED
    BY <2>1, <2>2
<1> QED
  BY <1>5, <1>7, <1>8

\* They are those the loop of a getter makes.
LEMMA MadeIsMade ==
  ASSUME NEW rows \in Seq(RowRecord), NEW table \in TableRecord, TableOK(table),
         NEW n \in 0..Len(rows)
  PROVE  MadeOf(Made(rows, table, n), rows, table, n)
<1>1. Len(rows) \in Nat
  BY LenProperties
<1> DEFINE Reach == {m \in Nat : m <= Len(rows) => MadeOf(Made(rows, table, m), rows, table, m)}
<1>2. 0 \in Reach
  <2>1. Made(rows, table, 0) = <<>>
    BY <1>1, MadeSteps
  <2> QED
    BY <2>1, NoRowsNoObjects
<1>3. ASSUME NEW m \in Nat, m \in Reach
      PROVE  m + 1 \in Reach
  <2> SUFFICES ASSUME m + 1 <= Len(rows)
               PROVE  MadeOf(Made(rows, table, m + 1), rows, table, m + 1)
    OBVIOUS
  <2>1. m \in 0..(Len(rows) - 1) /\ m <= Len(rows)
    BY <1>1
  <2>2. MadeOf(Made(rows, table, m), rows, table, m)
    BY <1>3, <2>1
  <2>3. Made(rows, table, m + 1)
          = Made(rows, table, m) \o Objects(rows[m + 1], table, m + 1)
    BY <1>1, <2>1, MadeSteps
  <2> QED
    BY <2>1, <2>2, <2>3, OneMoreRow
<1>4. n \in Reach
  <2>1. n \in Nat
    BY <1>1
  <2> HIDE DEF Reach
  <2> QED
    BY <1>2, <1>3, <2>1, SetInduction
<1> QED
  BY <1>1, <1>4

\* The rows a query may give, and the objects a table may have in the document.
Queried == UNION {{SubSeq(rows, 1, n) : n \in 0..Len(rows)} : rows \in Databases}

Written == {AllObjects(rows, Tables[t]) : rows \in Queried, t \in DOMAIN Tables}

\* No two rows have the same identifier.
UniqueIds(rows) ==
  \A i, j \in 1..Len(rows) : rows[i].id = rows[j].id => i = j

LEMMA QueriedRows ==
  ASSUME NEW rows \in Queried
  PROVE  rows \in Seq(RowRecord) /\ Len(rows) \in Nat /\ UniqueIds(rows)
<1>0. PICK full \in Databases : \E m \in 0..Len(full) : rows = SubSeq(full, 1, m)
  BY DEF Queried
<1>1. PICK n \in 0..Len(full) : rows = SubSeq(full, 1, n)
  BY <1>0
<1>2. full \in Seq(RowRecord) /\ Len(full) \in Nat
  BY DatabaseTyped
<1>3. rows \in Seq(RowRecord) /\ Len(rows) = n /\ \A i \in 1..n : rows[i] = full[i]
  BY <1>1, FirstRows
<1>4. \A i, j \in 1..Len(full) : full[i].id = full[j].id => i = j
  <2>1. DOMAIN full = 1..Len(full)
    BY <1>2, LenProperties
  <2> QED
    BY <2>1, DatabasesAssumption
<1>5. n \in Nat /\ \A i \in 1..n : i \in 1..Len(full)
  BY <1>2
<1>6. UniqueIds(rows)
  BY <1>3, <1>4, <1>5 DEF UniqueIds
<1> QED
  BY <1>3, <1>5, <1>6

\* The rows as they are in the document: objects by identifier instead of row.
LEMMA WrittenObjects ==
  ASSUME NEW rows \in Queried, NEW table \in TableRecord, TableOK(table)
  PROVE  LET made    == Made(rows, table, Len(rows))
             objects == AllObjects(rows, table)
         IN /\ MadeOf(made, rows, table, Len(rows))
            /\ DOMAIN objects = 1..Len(made) /\ Len(made) \in Nat
            /\ \A j \in 1..Len(made) :
                 /\ made[j].row \in 1..Len(rows)
                 /\ objects[j].id = rows[made[j].row].id
                 /\ objects[j].taken = made[j].taken
<1> DEFINE made == Made(rows, table, Len(rows))
           objects == AllObjects(rows, table)
<1>1. rows \in Seq(RowRecord) /\ Len(rows) \in Nat
  BY QueriedRows
<1>2. MadeOf(made, rows, table, Len(rows))
  BY <1>1, MadeIsMade
<1>3. made \in Seq(Candidates(rows, table)) /\ \A j \in 1..Len(made) : made[j].row \in 1..Len(rows)
  <2> HIDE DEF made
  <2> QED
    BY <1>2 DEF MadeOf
<1>4. objects = AsWritten(made, rows)
  BY DEF AllObjects, Made
<1> HIDE DEF made, objects
<1>5. DOMAIN made = 1..Len(made) /\ Len(made) \in Nat
  BY <1>3, LenProperties
<1>6. objects = [j \in 1..Len(made) |->
                  [id |-> rows[made[j].row].id, taken |-> made[j].taken]]
  BY <1>4, <1>5 DEF AsWritten
<1>7. /\ DOMAIN objects = 1..Len(made)
      /\ \A j \in 1..Len(made) :
           objects[j].id = rows[made[j].row].id /\ objects[j].taken = made[j].taken
  BY <1>6
<1> QED
  BY <1>2, <1>3, <1>5, <1>7 DEF made, objects

\* A table as it is written is one the promise allows.
LEMMA WrittenIsAnswer ==
  ASSUME NEW rows \in Queried, NEW table \in TableRecord, TableOK(table)
  PROVE  Promise!AnswerFor(AllObjects(rows, table), rows, table)
<1> DEFINE made == Made(rows, table, Len(rows))
           objects == AllObjects(rows, table)
           L == Len(made)
<1>1. /\ MadeOf(made, rows, table, Len(rows))
      /\ DOMAIN objects = 1..L /\ L \in Nat
      /\ \A j \in 1..L : /\ made[j].row \in 1..Len(rows)
                         /\ objects[j].id = rows[made[j].row].id
                         /\ objects[j].taken = made[j].taken
  BY WrittenObjects
<1>2. /\ rows \in Seq(RowRecord) /\ Len(rows) \in Nat /\ UniqueIds(rows)
      /\ DOMAIN rows = 1..Len(rows)
  BY QueriedRows, LenProperties
<1> HIDE DEF made, objects
<1>3. /\ \A j \in 1..L : IsOf(rows[made[j].row], table)
      /\ ExactFor(made, rows, table, Len(rows))
  <2>1. Len(rows) \in 0..Len(rows)
    BY <1>2
  <2> QED
    BY <1>1, <1>2, <2>1, ExactlyTheObjects
<1>4. \A j, k \in 1..L : j < k => made[j].row < made[k].row
  BY <1>1 DEF MadeOf
<1>5. \A j \in DOMAIN objects :
        \E i \in DOMAIN rows : /\ rows[i].id = objects[j].id
                               /\ Promise!FormatThere(rows[i].blob)
                               /\ Promise!FormatOf(rows[i].blob) = table.format
  BY <1>1, <1>2, <1>3, SameFormatThere DEF IsOf
<1>6. \A j \in 1..L : Promise!RowOf(rows, objects[j]) = made[j].row
  <2> SUFFICES ASSUME NEW j \in 1..L
               PROVE  (CHOOSE i \in DOMAIN rows : rows[i].id = objects[j].id) = made[j].row
    BY DEF Promise!RowOf
  <2> DEFINE i == CHOOSE i \in DOMAIN rows : rows[i].id = objects[j].id
  <2>1. i \in DOMAIN rows /\ rows[i].id = objects[j].id
    BY <1>1, <1>2
  <2> HIDE DEF i
  <2>2. i = made[j].row
    BY <1>1, <1>2, <2>1 DEF UniqueIds
  <2> QED
    BY <2>2 DEF i
<1>7. \A j, k \in DOMAIN objects :
        j < k => Promise!RowOf(rows, objects[j]) < Promise!RowOf(rows, objects[k])
  BY <1>1, <1>4, <1>6
<1>8. ASSUME NEW i \in DOMAIN rows, NEW k \in 0..Len(table.fields),
             Promise!PlainUpTo(rows[i].blob, table.fields, k)
      PROVE  {objects[j].taken : j \in {j \in DOMAIN objects : objects[j].id = rows[i].id}} =
               IF Promise!FormatOf(rows[i].blob) = table.format
                  /\ Promise!IdentifierOf(rows[i].blob, k) = rows[i].id
               THEN {Promise!MembersOf(rows[i].blob, table.fields, k)} ELSE {}
  <2>1. PlainUpTo(rows[i].blob, table.fields, k) /\ k \in Nat /\ i \in 1..Len(rows)
    BY <1>2, <1>8, SamePlain
  <2>2. {made[j].taken : j \in {j \in 1..L : made[j].row = i}} =
          IF FormatOf(rows[i].blob) = table.format
             /\ IdentifierOf(rows[i].blob, k) = rows[i].id
          THEN {MembersOf(rows[i].blob, table.fields, k)} ELSE {}
    BY <1>3, <2>1 DEF ExactFor
  <2>3. \A j \in 1..L : objects[j].id = rows[i].id <=> made[j].row = i
    BY <1>1, <1>2, <2>1 DEF UniqueIds
  <2>4. {j \in DOMAIN objects : objects[j].id = rows[i].id} = {j \in 1..L : made[j].row = i}
    BY <1>1, <2>3
  <2>5. {objects[j].taken : j \in {j \in 1..L : made[j].row = i}}
          = {made[j].taken : j \in {j \in 1..L : made[j].row = i}}
    BY <1>1
  <2> QED
    BY <2>2, <2>4, <2>5, SameFormatThere, SameIdentifier, SameMembers
<1> QED
  BY <1>5, <1>7, <1>8 DEF Promise!AnswerFor, objects

\* A row that is among those of a query is in its table, once, as the format
\* says, and in no other.
LEMMA WrittenOnce ==
  ASSUME NEW rows \in Queried, NEW u \in DOMAIN Tables, NEW t \in DOMAIN Tables,
         NEW row, row \in RowsOf(rows), NEW k \in Good(row, Tables[t])
  PROVE  LET objects == AllObjects(rows, Tables[u])
             mine == {j \in DOMAIN objects : objects[j].id = row.id}
         IN IF u = t
            THEN \E j \in mine :
                   mine = {j} /\ objects[j].taken = MembersOf(row.blob, Tables[t].fields, k)
            ELSE mine = {}
<1> DEFINE table == Tables[u]
           made == Made(rows, table, Len(rows))
           objects == AllObjects(rows, table)
           mine == {j \in DOMAIN objects : objects[j].id = row.id}
           L == Len(made)
<1>0. table \in TableRecord /\ TableOK(table)
  BY TableTyped
<1> HIDE DEF table
<1>1. /\ MadeOf(made, rows, table, Len(rows))
      /\ DOMAIN objects = 1..L /\ L \in Nat
      /\ \A j \in 1..L : /\ made[j].row \in 1..Len(rows)
                         /\ objects[j].id = rows[made[j].row].id
                         /\ objects[j].taken = made[j].taken
  BY <1>0, WrittenObjects
<1>2. /\ rows \in Seq(RowRecord) /\ Len(rows) \in Nat /\ UniqueIds(rows)
      /\ DOMAIN rows = 1..Len(rows)
  BY QueriedRows, LenProperties
<1> HIDE DEF made, objects
<1>3. /\ \A j \in 1..L : IsOf(rows[made[j].row], table)
      /\ ExactFor(made, rows, table, Len(rows))
  <2>1. Len(rows) \in 0..Len(rows)
    BY <1>2
  <2> QED
    BY <1>0, <1>1, <1>2, <2>1, ExactlyTheObjects
<1>4. PICK i \in 1..Len(rows) : row = rows[i]
  BY <1>2 DEF RowsOf
<1>5. mine = {j \in 1..L : made[j].row = i}
  <2>1. \A j \in 1..L : objects[j].id = row.id <=> made[j].row = i
    BY <1>1, <1>2, <1>4 DEF UniqueIds
  <2> QED
    BY <1>1, <2>1
<1>6. /\ PlainUpTo(row.blob, Tables[t].fields, k)
      /\ FormatOf(row.blob) = Tables[t].format
      /\ IdentifierOf(row.blob, k) = row.id
      /\ k \in Nat
  BY DEF Good
<1>7. CASE u = t
  <2> DEFINE members == MembersOf(row.blob, table.fields, k)
  <2>1. {made[j].taken : j \in mine} = {members}
    BY <1>3, <1>4, <1>5, <1>6, <1>7 DEF ExactFor, table
  <2> HIDE DEF members, mine
  <2>2. PICK j \in mine : made[j].taken = members
    BY <2>1
  <2>3. j \in 1..L
    BY <1>5
  <2>4. ASSUME NEW l \in mine
        PROVE  l = j
    <3>1. l \in 1..L /\ made[l].row = made[j].row
      BY <1>5
    <3>2. \A m, n \in 1..L : m < n => made[m].row < made[n].row
      BY <1>1 DEF MadeOf
    <3>3. ~(l < j) /\ ~(j < l)
      BY <1>1, <1>2, <2>3, <3>1, <3>2
    <3> QED
      BY <1>1, <2>3, <3>1, <3>3
  <2>5. mine = {j} /\ objects[j].taken = members
    BY <1>1, <2>2, <2>3, <2>4
  <2>6. \E l \in mine : mine = {l} /\ objects[l].taken = members
    BY <2>5
  <2> QED
    BY <1>7, <2>6 DEF members, mine, objects, table
<1>8. CASE u # t
  <2>1. ASSUME NEW j \in 1..L, made[j].row = i
        PROVE  FALSE
    <3>1. FormatOf(row.blob) = Tables[u].format
      BY <1>3, <1>4, <2>1 DEF IsOf, table
    <3> QED
      BY <1>6, <1>8, <3>1, TablesAssumption
  <2>2. mine = {}
    BY <1>5, <2>1
  <2> QED
    BY <1>8, <2>2 DEF mine, objects, table
<1> QED
  BY <1>7, <1>8

-----------------------------------------------------------------------------
(* The inductive invariant: the loop of a getter has the objects of the    *)
(* rows before the one it is at; every table in the document is that of    *)
(* the rows its query gave, among which are those that stayed, unless a    *)
(* query has failed.                                                       *)

LoopMakes == Running => data = Made(sql_data, Tables[getter], next - 1)

RowsStay == stable \subseteq RowsOf(objs)

QueryHasThem == (Running /\ Saving /\ complete) => stable \subseteq RowsOf(sql_data)

TableHasThem(u) ==
  \E rows \in Queried : /\ document[u] = AllObjects(rows, Tables[u])
                        /\ complete => stable \subseteq RowsOf(rows)

DocumentOK ==
  /\ document \in Seq(Written)
  /\ \A u \in 1..Len(document) : TableHasThem(u)

EndsLast == result = "0" => turn > Len(Jobs)

ExportInv ==
  /\ IInv
  /\ ExportTypeOK
  /\ LoopMakes
  /\ RowsStay
  /\ QueryHasThem
  /\ DocumentOK
  /\ EndsLast

LEMMA ExportTypes ==
  ASSUME ExportInv
  PROVE  /\ IInv /\ TypeOK
         /\ objs \in Databases /\ getter \in {0} \cup DOMAIN Tables
         /\ turn \in 1..(Len(Jobs) + 1) /\ Len(Jobs) \in Nat
         /\ getter \in {0, IF turn <= Len(Jobs) THEN Jobs[turn] ELSE 0}
         /\ stream \in {"none", "good", "bad", "closed"}
         /\ Len(document) = IF Saving THEN turn - 1 - Len(Listed) ELSE 0
         /\ Len(document) \in Nat /\ on_disk \in 0..Len(document)
         /\ result \in {"running", "0", "1", "unasked"}
<1>1. document \in Seq(Written)
  BY DEF ExportInv, DocumentOK
<1>2. Len(document) \in Nat
  BY <1>1, LenProperties
<1>3. Len(Jobs) \in Nat
  BY JobsInOrder
<1> QED
  BY <1>2, <1>3 DEF ExportInv, IInv, TypeOK, ExportTypeOK

\* The rows of the running getter are some a query gave.
LEMMA RowsAreQueried ==
  ASSUME TypeOK
  PROVE  sql_data \in Queried
<1>1. PICK rows \in Databases : \E n \in 0..Len(rows) : sql_data = SubSeq(rows, 1, n)
  BY Zenon DEF TypeOK
<1> QED
  BY <1>1 DEF Queried

LEMMA DocumentStays ==
  ASSUME DocumentOK, document' = document, stable' \subseteq stable, complete' => complete
  PROVE  DocumentOK'
<1>1. ASSUME NEW u \in 1..Len(document)
      PROVE  TableHasThem(u)'
  <2>1. TableHasThem(u)
    BY DEF DocumentOK
  <2>2. PICK rows \in Queried : /\ document[u] = AllObjects(rows, Tables[u])
                                /\ complete => stable \subseteq RowsOf(rows)
    BY <2>1 DEF TableHasThem
  <2>3. complete' => stable' \subseteq RowsOf(rows)
    BY <2>2
  <2> QED
    BY <2>2, <2>3, Zenon DEF TableHasThem
<1> QED
  BY <1>1 DEF DocumentOK

LEMMA ExportInitInvariant == ExportInit => ExportInv
<1> SUFFICES ASSUME ExportInit
             PROVE  ExportInv
  OBVIOUS
<1>1. /\ Init /\ turn = 1 /\ stream = "none" /\ document = <<>> /\ on_disk = 0
      /\ result = "running" /\ complete = TRUE /\ stable = RowsOf(objs)
  BY DEF ExportInit
<1>2. IInv /\ TypeOK /\ getter = 0
  BY <1>1, InitInvariant DEF IInv, Init
<1>3. document \in Seq(Written) /\ Len(document) = 0
  BY <1>1
<1>4. ExportTypeOK
  <2>1. turn \in 1..(Len(Jobs) + 1)
    BY <1>1, JobsInOrder
  <2>2. Len(document) = IF Saving THEN turn - 1 - Len(Listed) ELSE 0
    BY <1>1, <1>3, JobsInOrder DEF Saving
  <2> QED
    BY <1>1, <1>2, <1>3, <2>1, <2>2 DEF ExportTypeOK
<1>5. DocumentOK
  BY <1>3 DEF DocumentOK
<1> QED
  BY <1>1, <1>2, <1>4, <1>5
  DEF ExportInv, LoopMakes, RowsStay, QueryHasThem, EndsLast, Running

LEMMA CallGetterStep ==
  ASSUME ExportInv, CallGetter
  PROVE  ExportInv'
<1>1. /\ turn <= Len(Jobs) /\ GetObjs(Jobs[turn])
      /\ complete' = (complete /\ (Saving => sql_data' = objs))
      /\ turn' = turn /\ stream' = stream /\ document' = document /\ on_disk' = on_disk
      /\ result' = result /\ stable' = stable
  BY DEF CallGetter
<1>2. /\ getter' = Jobs[turn] /\ sql_data' \in Fetched /\ next' = 1 /\ data' = <<>>
      /\ objs' = objs
  BY <1>1 DEF GetObjs
<1>3. turn \in 1..Len(Jobs) /\ Jobs[turn] \in DOMAIN Tables
  BY <1>1, ExportTypes, JobsInOrder
<1>4. IInv' /\ TypeOK'
  BY <1>1, <1>3, ExportTypes, GetObjsStep DEF IInv
<1>5. ExportTypeOK'
  BY <1>1, <1>2, <1>3, <1>4, ExportTypes DEF ExportTypeOK, Saving
<1>6. LoopMakes'
  <2>1. PICK n \in 0..Len(objs) : sql_data' = SubSeq(objs, 1, n)
    BY <1>2 DEF Fetched
  <2>2. Len(sql_data') \in Nat
    BY <2>1, ExportTypes, FirstRows, DatabaseTyped
  <2>3. Made(sql_data', Tables[getter'], 0) = <<>>
    BY <2>2, MadeSteps
  <2> QED
    BY <1>2, <2>3 DEF LoopMakes
<1>7. RowsStay'
  BY <1>1, <1>2 DEF ExportInv, RowsStay
<1>8. QueryHasThem'
  <2> SUFFICES ASSUME Saving', complete'
               PROVE  stable' \subseteq RowsOf(sql_data')
    BY DEF QueryHasThem
  <2>1. sql_data' = objs
    BY <1>1 DEF Saving
  <2> QED
    BY <1>1, <2>1 DEF ExportInv, RowsStay
<1>9. DocumentOK'
  BY <1>1, DocumentStays DEF ExportInv
<1>10. EndsLast'
  BY <1>1 DEF ExportInv, EndsLast
<1> QED
  BY <1>4, <1>5, <1>6, <1>7, <1>8, <1>9, <1>10 DEF ExportInv

LEMMA ReadStep ==
  ASSUME ExportInv, Read
  PROVE  ExportInv'
<1>1. /\ ReadObject
      /\ turn' = turn /\ stream' = stream /\ document' = document /\ on_disk' = on_disk
      /\ result' = result /\ complete' = complete /\ stable' = stable
  BY DEF Read
<1>2. /\ getter # 0 /\ next <= Len(sql_data)
      /\ data' = data \o Objects(sql_data[next], Tables[getter], next)
      /\ next' = next + 1
      /\ objs' = objs /\ getter' = getter /\ sql_data' = sql_data
  BY <1>1 DEF ReadObject
<1>3. IInv' /\ TypeOK'
  BY <1>1, ExportTypes, ReadObjectStep DEF IInv
<1>4. ExportTypeOK'
  BY <1>1, <1>2, <1>3, ExportTypes DEF ExportTypeOK, Saving
<1>5. LoopMakes'
  <2>1. Len(sql_data) \in Nat /\ next \in 1..(Len(sql_data) + 1)
    BY ExportTypes, RowsTyped DEF TypeOK
  <2>2. next - 1 \in 0..(Len(sql_data) - 1) /\ next - 1 + 1 = next /\ next' - 1 = next
    BY <1>2, <2>1
  <2>3. Made(sql_data, Tables[getter], next)
          = Made(sql_data, Tables[getter], next - 1)
              \o Objects(sql_data[next], Tables[getter], next)
    <3>1. Made(sql_data, Tables[getter], next - 1 + 1)
            = Made(sql_data, Tables[getter], next - 1)
                \o Objects(sql_data[next - 1 + 1], Tables[getter], next - 1 + 1)
      BY <2>1, <2>2, MadeSteps
    <3> QED
      BY <2>2, <3>1
  <2>4. data = Made(sql_data, Tables[getter], next - 1)
    BY <1>2 DEF ExportInv, LoopMakes, Running
  <2> QED
    BY <1>2, <2>2, <2>3, <2>4 DEF LoopMakes
<1>6. RowsStay' /\ QueryHasThem' /\ EndsLast'
  BY <1>1, <1>2
  DEF ExportInv, RowsStay, QueryHasThem, EndsLast, Running, Saving
<1>7. DocumentOK'
  BY <1>1, DocumentStays DEF ExportInv
<1> QED
  BY <1>3, <1>4, <1>5, <1>6, <1>7 DEF ExportInv

LEMMA EndListingStep ==
  ASSUME ExportInv, EndListing
  PROVE  ExportInv'
<1>1. /\ ~Saving /\ Return /\ turn' = turn + 1
      /\ stream' = stream /\ document' = document /\ on_disk' = on_disk
      /\ result' = result /\ complete' = complete /\ stable' = stable
  BY DEF EndListing
<1>2. /\ getter # 0 /\ getter' = 0
      /\ objs' = objs /\ sql_data' = sql_data /\ next' = next /\ data' = data
  BY <1>1 DEF Return
<1>3. IInv' /\ TypeOK'
  BY <1>1, ExportTypes, ReturnStep DEF IInv
<1>4. turn <= Len(Listed) /\ turn \in Nat
  BY <1>1, ExportTypes, JobsInOrder DEF Saving
<1>5. ExportTypeOK'
  <2>1. turn' \in 1..(Len(Jobs) + 1)
    BY <1>1, <1>4, JobsInOrder
  <2>2. Len(document') = IF Saving' THEN turn' - 1 - Len(Listed) ELSE 0
    BY <1>1, <1>4, ExportTypes, JobsInOrder DEF Saving
  <2> QED
    BY <1>1, <1>2, <1>3, <2>1, <2>2, ExportTypes DEF ExportTypeOK
<1>6. LoopMakes' /\ RowsStay' /\ QueryHasThem'
  BY <1>1, <1>2 DEF ExportInv, LoopMakes, RowsStay, QueryHasThem, Running
<1>7. EndsLast'
  BY <1>1, <1>4, JobsInOrder DEF ExportInv, EndsLast
<1>8. DocumentOK'
  BY <1>1, DocumentStays DEF ExportInv
<1> QED
  BY <1>3, <1>5, <1>6, <1>7, <1>8 DEF ExportInv

LEMMA PutTableStep ==
  ASSUME ExportInv, PutTable
  PROVE  /\ ExportInv'
         /\ document' = Append(document, AllObjects(sql_data, Tables[getter]))
<1>1. /\ Saving /\ Return /\ turn' = turn + 1
      /\ document' = Append(document, AsWritten(data, sql_data)) /\ Flush
      /\ result' = result /\ complete' = complete /\ stable' = stable
  BY DEF PutTable
<1>2. /\ getter # 0 /\ next > Len(sql_data) /\ getter' = 0
      /\ objs' = objs /\ sql_data' = sql_data /\ next' = next /\ data' = data
  BY <1>1 DEF Return
<1>3. IInv' /\ TypeOK'
  BY <1>1, ExportTypes, ReturnStep DEF IInv
<1> DEFINE D == Len(document)
           written == AllObjects(sql_data, Tables[getter])
<1>4. /\ turn \in 1..Len(Jobs) /\ turn > Len(Listed) /\ getter = Jobs[turn]
      /\ D = turn - 1 - Len(Listed) /\ D \in Nat /\ getter = D + 1
      /\ getter \in DOMAIN Tables
  BY <1>1, <1>2, ExportTypes, JobsInOrder DEF Saving
<1>5. AsWritten(data, sql_data) = written
  <2>1. data = Made(sql_data, Tables[getter], next - 1)
    BY <1>2 DEF ExportInv, LoopMakes, Running
  <2>2. next - 1 = Len(sql_data)
    <3>1. Len(sql_data) \in Nat /\ next \in 1..(Len(sql_data) + 1)
      BY ExportTypes, RowsTyped DEF TypeOK
    <3> QED
      BY <1>2, <3>1
  <2>3. data = Made(sql_data, Tables[getter], Len(sql_data))
    BY <2>1, <2>2
  <2> QED
    BY <2>3 DEF AllObjects, Made
<1>6. sql_data \in Queried /\ document \in Seq(Written)
  BY ExportTypes, RowsAreQueried DEF ExportInv, DocumentOK
<1>7. written \in Written
  BY <1>4, <1>6 DEF Written
<1> HIDE DEF written
<1>8. /\ document' = Append(document, written)
      /\ document' \in Seq(Written) /\ Len(document') = D + 1
      /\ \A u \in 1..D : document'[u] = document[u]
      /\ document'[D + 1] = written
  BY <1>1, <1>5, <1>6, <1>7, AppendProperties
<1>9. ExportTypeOK'
  <2>1. turn' \in 1..(Len(Jobs) + 1)
    BY <1>1, <1>4
  <2>2. Len(document') = IF Saving' THEN turn' - 1 - Len(Listed) ELSE 0
    BY <1>1, <1>4, <1>8, JobsInOrder DEF Saving
  <2>3. stream' \in {"none", "good", "bad", "closed"}
    BY <1>1, ExportTypes DEF Flush
  <2>4. on_disk' \in 0..Len(document')
    BY <1>1, <1>4, <1>8, ExportTypes DEF Flush
  <2> QED
    BY <1>1, <1>2, <1>3, <2>1, <2>2, <2>3, <2>4, ExportTypes DEF ExportTypeOK
<1>10. LoopMakes' /\ RowsStay' /\ QueryHasThem'
  BY <1>1, <1>2 DEF ExportInv, LoopMakes, RowsStay, QueryHasThem, Running
<1>11. EndsLast'
  BY <1>1, <1>4, JobsInOrder DEF ExportInv, EndsLast
<1>12. DocumentOK'
  <2>1. ASSUME NEW u \in 1..D
        PROVE  TableHasThem(u)'
    <3>1. TableHasThem(u)
      BY DEF ExportInv, DocumentOK
    <3> QED
      BY <1>1, <1>8, <3>1 DEF TableHasThem
  <2>2. ASSUME NEW u, u = D + 1
        PROVE  TableHasThem(u)'
    <3>1. complete => stable \subseteq RowsOf(sql_data)
      BY <1>1, <1>2 DEF ExportInv, QueryHasThem, Running
    <3>2. document'[u] = AllObjects(sql_data, Tables[u])
      BY <1>4, <1>8, <2>2 DEF written
    <3> QED
      BY <1>1, <1>6, <3>1, <3>2 DEF TableHasThem
  <2>3. \A u \in 1..Len(document') : u \in 1..D \/ u = D + 1
    BY <1>4, <1>8
  <2> QED
    BY <1>8, <2>1, <2>2, <2>3 DEF DocumentOK
<1> QED
  BY <1>3, <1>8, <1>9, <1>10, <1>11, <1>12 DEF ExportInv, written

LEMMA OpenFileStep ==
  ASSUME ExportInv, OpenFile
  PROVE  ExportInv'
<1>1. /\ turn = Len(Listed) + 1 /\ getter = 0
      /\ UNCHANGED vars
      /\ turn' = turn /\ document' = document /\ on_disk' = on_disk
      /\ complete' = complete /\ stable' = stable
      /\ stream' \in {stream, "good"} /\ result' \in {result, "1", "unasked"}
  BY DEF OpenFile
<1>2. objs' = objs /\ getter' = getter /\ sql_data' = sql_data /\ next' = next /\ data' = data
  BY <1>1 DEF vars
<1>3. IInv' /\ TypeOK'
  BY <1>1, ExportTypes, StutterStep DEF IInv
<1>4. ExportTypeOK'
  BY <1>1, <1>2, <1>3, ExportTypes DEF ExportTypeOK, Saving
<1>5. /\ LoopMakes' /\ RowsStay' /\ QueryHasThem' /\ EndsLast'
  BY <1>1, <1>2
  DEF ExportInv, LoopMakes, RowsStay, QueryHasThem, EndsLast, Running, Saving
<1>6. DocumentOK'
  BY <1>1, DocumentStays DEF ExportInv
<1> QED
  BY <1>3, <1>4, <1>5, <1>6 DEF ExportInv

LEMMA CloseFileStep ==
  ASSUME ExportInv, CloseFile
  PROVE  ExportInv'
<1>1. /\ turn > Len(Jobs) /\ UNCHANGED vars
      /\ turn' = turn /\ document' = document
      /\ complete' = complete /\ stable' = stable
      /\ stream' = "closed" /\ result' = "0"
      /\ on_disk' \in IF stream = "bad" THEN {on_disk} ELSE on_disk..Len(document)
  BY DEF CloseFile
<1>2. objs' = objs /\ getter' = getter /\ sql_data' = sql_data /\ next' = next /\ data' = data
  BY <1>1 DEF vars
<1>3. IInv' /\ TypeOK'
  BY <1>1, ExportTypes, StutterStep DEF IInv
<1>4. ExportTypeOK'
  <2>1. on_disk' \in 0..Len(document')
    BY <1>1, ExportTypes
  <2> QED
    BY <1>1, <1>2, <1>3, <2>1, ExportTypes DEF ExportTypeOK, Saving
<1>5. /\ LoopMakes' /\ RowsStay' /\ QueryHasThem' /\ EndsLast'
  BY <1>1, <1>2
  DEF ExportInv, LoopMakes, RowsStay, QueryHasThem, EndsLast, Running, Saving
<1>6. DocumentOK'
  BY <1>1, DocumentStays DEF ExportInv
<1> QED
  BY <1>3, <1>4, <1>5, <1>6 DEF ExportInv

LEMMA ChangeFileStep ==
  ASSUME ExportInv, ChangeFile
  PROVE  ExportInv'
<1>1. /\ Change /\ stable' = stable \cap RowsOf(objs')
      /\ turn' = turn /\ stream' = stream /\ document' = document /\ on_disk' = on_disk
      /\ result' = result /\ complete' = complete
  BY DEF ChangeFile
<1>2. /\ getter' = getter /\ sql_data' = sql_data /\ next' = next /\ data' = data
  BY <1>1 DEF Change
<1>3. IInv' /\ TypeOK'
  BY <1>1, ExportTypes, ChangeStep DEF IInv
<1>4. ExportTypeOK'
  BY <1>1, <1>2, <1>3, ExportTypes DEF ExportTypeOK, Saving
<1>5. LoopMakes' /\ EndsLast'
  BY <1>1, <1>2 DEF ExportInv, LoopMakes, EndsLast, Running
<1>6. stable' \subseteq stable /\ RowsStay'
  BY <1>1 DEF RowsStay
<1>7. QueryHasThem'
  BY <1>1, <1>2, <1>6 DEF ExportInv, QueryHasThem, Running, Saving
<1>8. DocumentOK'
  BY <1>1, <1>6, DocumentStays DEF ExportInv
<1> QED
  BY <1>3, <1>4, <1>5, <1>6, <1>7, <1>8 DEF ExportInv

LEMMA ExportStutterStep ==
  ASSUME ExportInv, UNCHANGED exportVars
  PROVE  ExportInv'
<1>1. /\ UNCHANGED vars
      /\ turn' = turn /\ stream' = stream /\ document' = document /\ on_disk' = on_disk
      /\ result' = result /\ complete' = complete /\ stable' = stable
  BY DEF exportVars
<1>2. objs' = objs /\ getter' = getter /\ sql_data' = sql_data /\ next' = next /\ data' = data
  BY <1>1 DEF vars
<1>3. IInv' /\ TypeOK'
  BY <1>1, ExportTypes, StutterStep DEF IInv
<1>4. ExportTypeOK'
  BY <1>1, <1>2, <1>3, ExportTypes DEF ExportTypeOK, Saving
<1>5. /\ LoopMakes' /\ RowsStay' /\ QueryHasThem' /\ EndsLast'
  BY <1>1, <1>2
  DEF ExportInv, LoopMakes, RowsStay, QueryHasThem, EndsLast, Running, Saving
<1>6. DocumentOK'
  BY <1>1, DocumentStays DEF ExportInv
<1> QED
  BY <1>3, <1>4, <1>5, <1>6 DEF ExportInv

LEMMA ExportNextInvariant == ExportInv /\ [ExportNext]_exportVars => ExportInv'
BY CallGetterStep, ReadStep, EndListingStep, PutTableStep, OpenFileStep,
   CloseFileStep, ChangeFileStep, ExportStutterStep
DEF ExportNext, OwnWork

-----------------------------------------------------------------------------
\* The inductive invariant of a save.
THEOREM ExportInductive == ExportSpecification => []ExportInv
BY ExportInitInvariant, ExportNextInvariant, PTL DEF ExportSpecification

\* The types of a save: the getter that runs is the one whose turn it is, the
\* document has one table for each getter of the save that has returned, and
\* no more of it is in the file.
THEOREM ExportTypeCorrect == ExportSpecification => []ExportTypeOK
<1>1. ExportInv => ExportTypeOK
  BY DEF ExportInv
<1> QED
  BY <1>1, ExportInductive, PTL

\* However many tables there are and however the file changes between the
\* getters: a row that stays as it was is saved once, in its table, with all
\* its members, if no query failed.
THEOREM StableRowsAreSaved == ExportSpecification => []StableRowsSaved
<1>1. ExportInv => StableRowsSaved
  <2> SUFFICES ASSUME ExportInv, result = "0", complete,
                      NEW row \in stable, NEW t \in DOMAIN Tables,
                      NEW k \in Good(row, Tables[t])
               PROVE  SavedOnce(row, t, k)
    BY DEF StableRowsSaved
  <2>1. document \in Seq(Written) /\ \A u \in 1..Len(document) : TableHasThem(u)
    BY DEF ExportInv, DocumentOK
  <2>2. DOMAIN document = 1..Len(document)
    BY <2>1, LenProperties
  <2>3. 1..Len(document) = DOMAIN Tables
    <3>1. turn > Len(Jobs)
      BY DEF ExportInv, EndsLast
    <3> QED
      BY <3>1, ExportTypes, JobsInOrder DEF Saving
  <2>4. ASSUME NEW u \in DOMAIN document
        PROVE  LET mine == {j \in DOMAIN document[u] : document[u][j].id = row.id}
               IN IF u = t
                  THEN \E j \in mine :
                         mine = {j} /\ document[u][j].taken
                                         = MembersOf(row.blob, Tables[t].fields, k)
                  ELSE mine = {}
    <3>1. u \in DOMAIN Tables /\ TableHasThem(u)
      BY <2>1, <2>2, <2>3
    <3>2. PICK rows \in Queried : /\ document[u] = AllObjects(rows, Tables[u])
                                  /\ complete => stable \subseteq RowsOf(rows)
      BY <3>1 DEF TableHasThem
    <3>3. row \in RowsOf(rows)
      BY <3>2
    <3> QED
      BY <3>1, <3>2, <3>3, WrittenOnce
  <2> QED
    BY <2>4 DEF SavedOnce
<1> QED
  BY <1>1, ExportInductive, PTL

-----------------------------------------------------------------------------
(* Saving row by row implements the saving of whole tables.                *)

\* The document of the promise: a table is in it from its query on.
Shown ==
  IF Saving /\ getter # 0 THEN Append(document, AllObjects(sql_data, Tables[getter]))
  ELSE document

LEMMA QueryIsSaveTable ==
  ASSUME ExportInv, CallGetter, Saving
  PROVE  Promise!SaveTable
<1>1. /\ turn <= Len(Jobs) /\ GetObjs(Jobs[turn]) /\ getter = 0
      /\ getter' = Jobs[turn] /\ sql_data' \in Fetched /\ objs' = objs
      /\ turn' = turn /\ document' = document
  BY DEF CallGetter, GetObjs
<1> DEFINE D == Len(document)
           t == Jobs[turn]
           written == AllObjects(sql_data', Tables[t])
<1>2. /\ turn > Len(Listed) /\ turn \in 1..Len(Jobs) /\ D = turn - 1 - Len(Listed)
      /\ D \in Nat
  BY <1>1, ExportTypes, JobsInOrder DEF Saving
<1>3. t = D + 1 /\ t \in DOMAIN Tables /\ t # 0 /\ D < Len(Tables)
  BY <1>2, JobsInOrder
<1>4. PICK n \in 0..Len(objs) : sql_data' = SubSeq(objs, 1, n)
  BY <1>1 DEF Fetched
<1>5. sql_data' \in Queried
  BY <1>4, ExportTypes DEF Queried
<1>6. Promise!AnswerFor(written, SubSeq(objs, 1, n), Tables[t])
  <2>1. Tables[t] \in TableRecord /\ TableOK(Tables[t])
    BY <1>3, TableTyped
  <2> QED
    BY <1>4, <1>5, <2>1, WrittenIsAnswer
<1>7. document \in Seq(Written) /\ written \in Written
  BY <1>3, <1>5 DEF ExportInv, DocumentOK, Written
<1>8. Shown = document
  BY <1>1 DEF Shown
<1>9. Shown' = Append(document, written)
  BY <1>1, <1>3 DEF Shown, Saving
<1> HIDE DEF written
<1>10. /\ Shown' \in Seq(Written) /\ Len(Shown') = D + 1
       /\ Shown'[D + 1] = written
       /\ \A i \in 1..D : Shown'[i] = document[i]
  BY <1>7, <1>9, AppendProperties
<1>11. SubSeq(Shown', 1, D) = document
  BY <1>2, <1>7, <1>10
<1>12. /\ Len(Shown) < Len(Tables)
       /\ Len(Shown') = Len(Shown) + 1
       /\ SubSeq(Shown', 1, Len(Shown)) = Shown
       /\ \E m \in 0..Len(objs) :
            Promise!AnswerFor(Shown'[Len(Shown')], SubSeq(objs, 1, m), Tables[Len(Shown')])
       /\ objs' = objs
  BY <1>1, <1>3, <1>6, <1>8, <1>10, <1>11
<1> QED
  BY <1>12 DEF Promise!SaveTable, Shown

LEMMA RefinementStep ==
  ASSUME ExportInv, [ExportNext]_exportVars
  PROVE  [Promise!Next]_Promise!vars
<1> DEFINE Stays == objs' = objs /\ Shown' = Shown
<1>1. ASSUME Stays
      PROVE  UNCHANGED Promise!vars
  BY <1>1 DEF Promise!vars, Shown
<1>2. CASE CallGetter /\ Saving
  BY <1>2, QueryIsSaveTable DEF Promise!Next
<1>3. CASE CallGetter /\ ~Saving
  <2>1. Stays
    BY <1>3 DEF CallGetter, GetObjs, Shown, Saving
  <2> QED
    BY <1>1, <2>1
<1>4. CASE Read
  <2>1. Stays
    BY <1>4 DEF Read, ReadObject, Shown, Saving
  <2> QED
    BY <1>1, <2>1
<1>5. CASE EndListing
  <2>1. Stays
    BY <1>5 DEF EndListing, Return, Shown
  <2> QED
    BY <1>1, <2>1
<1>6. CASE PutTable
  <2>1. document' = Append(document, AllObjects(sql_data, Tables[getter]))
    BY <1>6, PutTableStep
  <2>2. Saving /\ getter # 0 /\ getter' = 0 /\ objs' = objs
    BY <1>6 DEF PutTable, Return
  <2>3. Stays
    BY <2>1, <2>2 DEF Shown
  <2> QED
    BY <1>1, <2>3
<1>7. CASE OpenFile \/ CloseFile
  <2>1. Stays
    BY <1>7 DEF OpenFile, CloseFile, vars, Shown, Saving
  <2> QED
    BY <1>1, <2>1
<1>8. CASE ChangeFile
  <2>1. objs' \in Databases /\ Shown' = Shown
    BY <1>8 DEF ChangeFile, Change, Shown, Saving
  <2> QED
    BY <2>1 DEF Promise!Next, Promise!Change, Shown
<1>9. CASE UNCHANGED exportVars
  <2>1. Stays
    BY <1>9 DEF exportVars, vars, Shown, Saving
  <2> QED
    BY <1>1, <2>1
<1> QED
  BY <1>2, <1>3, <1>4, <1>5, <1>6, <1>7, <1>8, <1>9 DEF ExportNext, OwnWork

\* Saving row by row implements the saving of whole tables: each table is
\* that of the moment its query ran, whatever happens to the file while the
\* rows are taken apart and written.
THEOREM ExportImplementsSave == ExportSpecification => TablesAreAtomic
<1>1. ExportInit => Promise!Init
  BY DEF ExportInit, Init, Promise!Init
<1> QED
  BY <1>1, ExportInductive, RefinementStep, PTL
  DEF ExportSpecification, TablesAreAtomic, Promise!Spec
=============================================================================
