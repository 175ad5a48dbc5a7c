----------------------------- MODULE GzipProofs ------------------------------
(***************************************************************************)
(* Proofs about Gzip, for any sizes of the header, the buffer and the      *)
(* files, and any number of runs: what is opened is the whole database.    *)
(***************************************************************************)
EXTENDS Gzip, SequenceTheorems, TLAPS

PcOK ==
  /\ pc \in {"off", "open", "unpack", "read", "finish", "copy", "ready", "failed"}
  /\ opened \in {"none", "source", "copy"}
  /\ opened # "none" => pc = "ready"
  /\ opened = "source" => ~IsGzipFile

FileOK ==
  /\ source \in Sources
  /\ position \in 0..source.readable
  /\ is_first_batch \in BOOLEAN
  /\ runs \in 0..MaxRuns
  /\ pc # "off" => runs >= 1

SeqsOK == buffer \in Seq(Units) /\ copy \in Seq(Units)

\* The units of the database, without the header, up to the given place.
Database(n) == SubSeq(Content(source.size), HeaderLen + 1, n)

\* The copy and the buffer behind it are the units read so far, but for the
\* header; the first batch has had all of that.
UnpackOK ==
  /\ pc \in {"open", "unpack"} => is_first_batch /\ buffer = <<>> /\ position = 0
  /\ pc \in {"read", "finish"} => copy \o buffer = Database(position)
  /\ pc \in {"read", "finish"} => IF is_first_batch THEN position = 0 ELSE position >= HeaderLen
  /\ pc = "finish" => source.fault # "damaged" /\ position = source.readable
  /\ pc = "copy" \/ opened = "copy" =>
       source.fault = "none" /\ copy = Database(source.size)

\* The inductive invariant.
IInv == PcOK /\ FileOK /\ SeqsOK /\ UnpackOK

-----------------------------------------------------------------------------
(* The units of a file.                                                    *)

LEMMA SourceProperties ==
  ASSUME source \in Sources
  PROVE  /\ source.size \in 0..MaxUnits
         /\ source.readable \in 0..source.size
         /\ source.fault = "none" => source.readable = source.size
         /\ source.fault \in {"none", "cut", "damaged"}
<1>1. /\ source \in Files
      /\ IF source.fault = "none" THEN source.readable = source.size ELSE source.readable < source.size
  BY DEF Sources
<1>2. /\ source.size \in 0..MaxUnits /\ source.readable \in 0..MaxUnits
      /\ source.fault \in {"none", "cut", "damaged"}
  BY <1>1 DEF Files
<1> QED
  BY <1>1, <1>2, SizesAssumption

LEMMA ContentProperties ==
  ASSUME runs \in 1..MaxRuns, NEW size \in 0..MaxUnits
  PROVE  /\ Content(size) \in Seq(Units)
         /\ Len(Content(size)) = size
         /\ \A i \in 1..size : Content(size)[i] \in Units
<1>1. size \in Nat /\ \A i \in 1..size : <<runs, i>> \in Units
  BY SizesAssumption DEF Units
<1>2. Content(size) \in [1..size -> Units]
  BY <1>1 DEF Content
<1> HIDE DEF Units
<1> QED
  BY <1>1, <1>2, LenProperties

\* A part of the file.
LEMMA PartProperties ==
  ASSUME runs \in 1..MaxRuns, source \in Sources,
         NEW m \in Nat, NEW n \in 0..source.size
  PROVE  /\ SubSeq(Content(source.size), m + 1, n) \in Seq(Units)
         /\ m <= n => Len(SubSeq(Content(source.size), m + 1, n)) = n - m
         /\ n <= m => SubSeq(Content(source.size), m + 1, n) = <<>>
         /\ \A i \in 1..(n - m) : SubSeq(Content(source.size), m + 1, n)[i] = Content(source.size)[m + i]
<1> DEFINE s == Content(source.size)
           t == SubSeq(s, m + 1, n)
<1>1. source.size \in Nat /\ n \in Int /\ m + 1 \in Int /\ n - (m + 1) + 1 = n - m
  BY SourceProperties, SizesAssumption
<1>2. \A i \in (m + 1)..n : s[i] \in Units
  BY <1>1, SourceProperties, ContentProperties
<1> HIDE DEF s
<1>3. /\ t \in Seq(Units)
      /\ Len(t) = IF m + 1 <= n THEN n - (m + 1) + 1 ELSE 0
      /\ \A i \in 1..(n - (m + 1) + 1) : t[i] = s[m + 1 + i - 1]
  BY <1>1, <1>2, SubSeqProperties
<1>4. n <= m => t = <<>>
  BY <1>1, SubSeqEmpty
<1> HIDE DEF t
<1>5. ASSUME NEW i \in 1..(n - m) PROVE t[i] = s[m + i]
  <2>1. i \in 1..(n - (m + 1) + 1) /\ m + 1 + i - 1 = m + i
    BY <1>1
  <2> QED
    BY <1>3, <2>1
<1>6. m <= n => Len(t) = n - m
  BY <1>1, <1>3
<1> QED
  BY <1>3, <1>4, <1>5, <1>6 DEF s, t

\* Nothing of the database is in what has no more than the header.
LEMMA DatabaseProperties ==
  ASSUME runs \in 1..MaxRuns, source \in Sources, NEW n \in 0..source.size
  PROVE  Database(n) \in Seq(Units) /\ (n <= HeaderLen => Database(n) = <<>>)
BY PartProperties, SizesAssumption DEF Database

\* What gzread returns when it returns something, and when the file ends.
LEMMA LengthsProperties ==
  ASSUME FileOK
  PROVE  /\ \A len \in Lengths : len > 0 => len \in Nat /\ position + len \in 0..source.readable
         /\ 0 \in Lengths => source.fault # "damaged" /\ position = source.readable
<1>1. position \in Nat /\ source.readable \in Nat /\ position <= source.readable
  BY SourceProperties, SizesAssumption DEF FileOK
<1>2. Left \in Nat /\ position + Left = source.readable
  BY <1>1 DEF Left
<1>3. BufLen \in Nat /\ BufLen # 0
  BY SizesAssumption
<1>4. CASE source.fault = "damaged" /\ Left < BufLen
  <2>1. Lengths = {-1} \cup ({Left} \ {0})
    BY <1>4 DEF Lengths
  <2> QED
    BY <1>1, <1>2, <2>1
<1>5. CASE ~(source.fault = "damaged" /\ Left < BufLen)
  <2>1. Lengths = {IF Left < BufLen THEN Left ELSE BufLen}
    BY <1>5 DEF Lengths
  <2> QED
    BY <1>1, <1>2, <1>3, <1>5, <2>1
<1> QED
  BY <1>4, <1>5

LEMMA BatchProperties ==
  ASSUME FileOK, runs >= 1, NEW len \in Lengths, len > 0
  PROVE  /\ Batch(len) \in Seq(Units)
         /\ is_first_batch /\ position = 0 /\ len >= HeaderLen =>
              /\ SubSeq(Batch(len), HeaderLen + 1, len) \in Seq(Units)
              /\ SubSeq(Batch(len), HeaderLen + 1, len) = Database(len)
         /\ position >= HeaderLen => Database(position) \o Batch(len) = Database(position + len)
<1> DEFINE s == Content(source.size)
<1>1. /\ position \in Nat /\ len \in Nat
      /\ position \in 0..source.size /\ position + len \in 0..source.size
      /\ source.size \in 0..MaxUnits /\ source.size \in Nat
      /\ source \in Sources /\ runs \in 1..MaxRuns
      /\ HeaderLen \in Nat
  BY LengthsProperties, SourceProperties, SizesAssumption DEF FileOK
<1>2. s \in Seq(Units) /\ Len(s) = source.size
  BY <1>1, ContentProperties
<1>3. Batch(len) \in Seq(Units)
  BY <1>1, PartProperties DEF Batch
<1>4. ASSUME position = 0, len >= HeaderLen
      PROVE  SubSeq(Batch(len), HeaderLen + 1, len) = Database(len)
  <2> DEFINE b == Batch(len)
             t == SubSeq(b, HeaderLen + 1, len)
             d == Database(len)
  <2>1. len \in 0..source.size
    BY <1>1, <1>4
  <2>2. /\ b \in Seq(Units) /\ Len(b) = len
        /\ \A i \in 1..len : b[i] = s[i]
    <3>1. b = SubSeq(s, 0 + 1, len) /\ 0 \in Nat /\ 0 <= len /\ len - 0 = len
      BY <1>1, <1>4 DEF Batch
    <3>2. /\ SubSeq(s, 0 + 1, len) \in Seq(Units)
          /\ Len(SubSeq(s, 0 + 1, len)) = len - 0
          /\ \A i \in 1..(len - 0) : SubSeq(s, 0 + 1, len)[i] = s[0 + i]
      BY <1>1, <2>1, <3>1, PartProperties
    <3> QED
      BY <1>1, <3>1, <3>2
  <2>3. /\ d \in Seq(Units) /\ Len(d) = len - HeaderLen
        /\ \A i \in 1..(len - HeaderLen) : d[i] = s[HeaderLen + i]
    BY <1>1, <1>4, <2>1, PartProperties DEF Database
  <2> HIDE DEF b, d, s
  <2>4. \A i \in 1..len : b[i] \in Units
    BY <2>2, ElementOfSeq
  <2>5. /\ HeaderLen + 1 \in Int /\ len \in Int /\ len - (HeaderLen + 1) + 1 = len - HeaderLen
        /\ \A i \in (HeaderLen + 1)..len : b[i] \in Units
    BY <1>1, <2>4
  <2>6. /\ t \in Seq(Units)
        /\ Len(t) = IF HeaderLen + 1 <= len THEN len - (HeaderLen + 1) + 1 ELSE 0
        /\ \A i \in 1..(len - (HeaderLen + 1) + 1) : t[i] = b[HeaderLen + 1 + i - 1]
    BY <2>5, SubSeqProperties
  <2> HIDE DEF t
  <2>7. Len(t) = len - HeaderLen
    BY <1>1, <1>4, <2>6
  <2>8. \A i \in 1..Len(t) : t[i] = d[i]
    <3>1. SUFFICES ASSUME NEW i \in 1..(len - HeaderLen) PROVE t[i] = d[i]
      BY <2>7
    <3>2. i \in 1..(len - (HeaderLen + 1) + 1) /\ HeaderLen + 1 + i - 1 = HeaderLen + i
          /\ HeaderLen + i \in 1..len
      BY <1>1
    <3>3. t[i] = b[HeaderLen + i]
      BY <2>6, <3>2
    <3> QED
      BY <2>2, <2>3, <3>2, <3>3
  <2>9. t = d
    BY <2>3, <2>6, <2>7, <2>8, SeqEqual
  <2> QED
    BY <2>9 DEF t, d, b
<1>5. ASSUME position >= HeaderLen
      PROVE  Database(position) \o Batch(len) = Database(position + len)
  <2> DEFINE from == HeaderLen + 1
             to   == position + len
  <2>1. from \in 1..(Len(s) + 1) /\ position \in (from - 1)..Len(s) /\ to \in position..Len(s)
    BY <1>1, <1>2, <1>5
  <2> HIDE DEF s, from, to
  <2>2. SubSeq(s, from, position) \o SubSeq(s, position + 1, to) = SubSeq(s, from, to)
    BY <1>2, <2>1, ConcatAdjacentSubSeq
  <2> QED
    BY <2>2 DEF s, from, to, Batch, Database
<1>6. ASSUME position = 0 PROVE Database(len) \in Seq(Units)
  BY <1>1, <1>6, DatabaseProperties
<1> QED
  BY <1>3, <1>4, <1>5, <1>6

\* How three pieces were put together does not show.
LEMMA UnitsInARow ==
  ASSUME NEW s \in Seq(Units), NEW t \in Seq(Units), NEW u \in Seq(Units)
  PROVE  (s \o t) \o u = s \o (t \o u)
<1> DEFINE left == (s \o t) \o u
           right == s \o (t \o u)
<1>1. \A v, w \in Seq(Units) :
        /\ v \o w \in Seq(Units) /\ Len(v \o w) = Len(v) + Len(w)
        /\ \A i \in 1..(Len(v) + Len(w)) :
             (v \o w)[i] = IF i <= Len(v) THEN v[i] ELSE w[i - Len(v)]
  BY ConcatProperties
<1>2. Len(s) \in Nat /\ Len(t) \in Nat /\ Len(u) \in Nat
  BY LenProperties
<1>3. s \o t \in Seq(Units) /\ t \o u \in Seq(Units)
  BY <1>1
<1>4. left \in Seq(Units) /\ right \in Seq(Units) /\ Len(left) = Len(right)
  BY <1>1, <1>2, <1>3
<1>5. ASSUME NEW i \in 1..Len(left)
      PROVE  left[i] = right[i]
  <2>1. i \in 1..(Len(s) + Len(t) + Len(u))
    BY <1>1, <1>3
  <2>2. CASE i <= Len(s)
    BY <1>1, <1>2, <1>3, <2>1, <2>2
  <2>3. CASE i > Len(s) /\ i <= Len(s) + Len(t)
    BY <1>1, <1>2, <1>3, <2>1, <2>3
  <2>4. CASE i > Len(s) + Len(t)
    BY <1>1, <1>2, <1>3, <2>1, <2>4
  <2> QED
    BY <1>2, <2>1, <2>2, <2>3, <2>4
<1> HIDE DEF left, right
<1>6. left = right
  BY <1>4, <1>5, SeqEqual
<1> QED
  BY <1>6 DEF left, right

\* fwrite keeps the order of the units, in the copy or in the buffer behind it.
LEMMA WriteProperties ==
  ASSUME SeqsOK, NEW units \in Seq(Units), Write(units)
  PROVE  /\ copy' \in Seq(Units) /\ buffer' \in Seq(Units)
         /\ copy' \o buffer' = (copy \o buffer) \o units
<1> DEFINE all == buffer \o units
<1>1. buffer \in Seq(Units) /\ copy \in Seq(Units)
  BY DEF SeqsOK
<1>2. all \in Seq(Units) /\ Len(all) \in Nat
  BY <1>1, ConcatProperties, LenProperties
<1>3. PICK n \in 0..Len(all) :
        copy' = copy \o SubSeq(all, 1, n) /\ buffer' = SubSeq(all, n + 1, Len(all))
  BY DEF Write
<1> HIDE DEF all
<1> DEFINE out  == SubSeq(all, 1, n)
           rest == SubSeq(all, n + 1, Len(all))
<1>4. out \in Seq(Units) /\ rest \in Seq(Units)
  <2>1. /\ n \in Int /\ 1 \in Int /\ n + 1 \in Int /\ Len(all) \in Int
        /\ (\A i \in 1..n : all[i] \in Units) /\ \A i \in (n + 1)..Len(all) : all[i] \in Units
    BY <1>2, ElementOfSeq
  <2> QED
    BY <2>1, SubSeqProperties
<1>5. out \o rest = all
  <2>1. 1 \in 1..(Len(all) + 1) /\ n \in (1 - 1)..Len(all) /\ Len(all) \in n..Len(all)
    BY <1>2
  <2>2. out \o rest = SubSeq(all, 1, Len(all))
    BY <1>2, <2>1, ConcatAdjacentSubSeq
  <2> QED
    BY <1>2, <2>2, SubSeqFull
<1>6. copy' = copy \o out /\ buffer' = rest
  BY <1>3
<1> HIDE DEF out, rest
<1>7. copy \o out \in Seq(Units)
  BY <1>1, <1>4, ConcatProperties
<1>8. \A s, t, u \in Seq(Units) : (s \o t) \o u = s \o (t \o u)
  BY UnitsInARow
<1>9. (copy \o out) \o rest = copy \o (out \o rest)
  BY <1>1, <1>4, <1>8, Zenon
<1>10. (copy \o buffer) \o units = copy \o (buffer \o units)
  BY <1>1, <1>8, Zenon
<1> QED
  BY <1>4, <1>5, <1>6, <1>7, <1>9, <1>10 DEF all

\* A prefix of the buffer.
LEMMA PrefixProperties ==
  ASSUME SeqsOK, NEW n \in 0..Len(buffer)
  PROVE  copy \o SubSeq(buffer, 1, n) \in Seq(Units)
<1>1. buffer \in Seq(Units) /\ copy \in Seq(Units)
  BY DEF SeqsOK
<1>2. n \in Int /\ 1 \in Int /\ \A i \in 1..n : buffer[i] \in Units
  BY <1>1, ElementOfSeq
<1>3. SubSeq(buffer, 1, n) \in Seq(Units)
  BY <1>2, SubSeqProperties
<1> QED
  BY <1>1, <1>3, ConcatProperties

LEMMA EmptyIsSeq == <<>> \in Seq(Units)
OBVIOUS

-----------------------------------------------------------------------------
(* The invariant.                                                          *)

LEMMA InitIInv == Init => IInv
<1> SUFFICES ASSUME Init PROVE IInv
  OBVIOUS
<1>1. PcOK
  BY DEF Init, PcOK
<1>2. FileOK
  BY SourceProperties, SizesAssumption DEF Init, FileOK
<1>3. SeqsOK
  BY EmptyIsSeq DEF Init, SeqsOK
<1>4. UnpackOK
  BY DEF Init, UnpackOK
<1> QED
  BY <1>1, <1>2, <1>3, <1>4 DEF IInv

LEMMA PcKept ==
  ASSUME IInv, [Next]_vars
  PROVE  PcOK'
<1> USE DEF PcOK, IsGzipFile, Fail
<1>0. PcOK
  BY DEF IInv
<1>1. CASE Start
  BY <1>0, <1>1 DEF Start
<1>2. CASE OpenDatabase
  BY <1>0, <1>2 DEF OpenDatabase
<1>3. CASE Decompress
  BY <1>0, <1>3 DEF Decompress
<1>4. CASE ReadBatch
  BY <1>0, <1>4 DEF ReadBatch
<1>5. CASE ReadShortBatch
  BY <1>0, <1>5 DEF ReadShortBatch
<1>6. CASE ReadFails
  BY <1>0, <1>6 DEF ReadFails
<1>7. CASE EndOfFile
  BY <1>0, <1>7 DEF EndOfFile
<1>8. CASE Finish
  BY <1>0, <1>8 DEF Finish
<1>9. CASE OpenCopy
  BY <1>0, <1>9 DEF OpenCopy
<1>10. CASE End
  BY <1>0, <1>10 DEF End
<1>11. CASE UNCHANGED vars
  BY <1>0, <1>11 DEF vars
<1> QED
  BY <1>1, <1>2, <1>3, <1>4, <1>5, <1>6, <1>7, <1>8, <1>9, <1>10, <1>11
  DEF Next, Opening

LEMMA FileKept ==
  ASSUME IInv, [Next]_vars
  PROVE  FileOK'
<1> USE DEF FileOK, Fail
<1>0. PcOK /\ FileOK
  BY DEF IInv
<1>1. CASE Start
  <2>1. source'.readable \in Nat
    BY <1>1, SourceProperties DEF Start, Sources, Files
  <2> QED
    BY <1>0, <1>1, <2>1, SizesAssumption DEF Start
<1>2. CASE OpenDatabase
  BY <1>0, <1>2 DEF OpenDatabase
<1>3. CASE Decompress
  BY <1>0, <1>3 DEF Decompress
<1>4. CASE ReadBatch
  <2>1. PICK len \in Lengths :
           /\ len > 0
           /\ \/ position' = position + len /\ is_first_batch' = FALSE
              \/ UNCHANGED <<position, is_first_batch>>
    BY <1>4 DEF ReadBatch
  <2>2. position + len \in 0..source.readable
    BY <1>0, <2>1, LengthsProperties
  <2>3. UNCHANGED <<source, runs>> /\ pc # "off"
    BY <1>4 DEF ReadBatch
  <2> QED
    BY <1>0, <2>1, <2>2, <2>3
<1>5. CASE ReadShortBatch
  BY <1>0, <1>5 DEF ReadShortBatch
<1>6. CASE ReadFails
  BY <1>0, <1>6 DEF ReadFails
<1>7. CASE EndOfFile
  BY <1>0, <1>7 DEF EndOfFile
<1>8. CASE Finish
  BY <1>0, <1>8 DEF Finish
<1>9. CASE OpenCopy
  BY <1>0, <1>9 DEF OpenCopy
<1>10. CASE End
  BY <1>0, <1>10 DEF End
<1>11. CASE UNCHANGED vars
  BY <1>0, <1>11 DEF vars
<1> QED
  BY <1>1, <1>2, <1>3, <1>4, <1>5, <1>6, <1>7, <1>8, <1>9, <1>10, <1>11
  DEF Next, Opening

LEMMA SeqsKept ==
  ASSUME IInv, [Next]_vars
  PROVE  SeqsOK'
<1>0. SeqsOK /\ FileOK /\ PcOK /\ UnpackOK
  BY DEF IInv
<1>1. CASE Start
  BY <1>0, <1>1, EmptyIsSeq DEF Start, SeqsOK
<1>2. CASE OpenDatabase
  BY <1>0, <1>2 DEF OpenDatabase, Fail, SeqsOK
<1>3. CASE Decompress
  BY <1>0, <1>3, EmptyIsSeq DEF Decompress, Fail, SeqsOK
<1>4. CASE ReadBatch
  <2>1. PICK len \in Lengths :
           /\ len > 0 /\ (is_first_batch => len >= HeaderLen)
           /\ \/ Write(IF is_first_batch THEN SubSeq(Batch(len), HeaderLen + 1, len) ELSE Batch(len))
              \/ UNCHANGED <<copy, buffer>>
    BY <1>4 DEF ReadBatch, Fail
  <2>2. CASE UNCHANGED <<copy, buffer>>
    BY <1>0, <2>2 DEF SeqsOK
  <2>3. runs >= 1 /\ pc = "read"
    BY <1>0, <1>4 DEF ReadBatch, FileOK
  <2>4. CASE is_first_batch /\ Write(SubSeq(Batch(len), HeaderLen + 1, len))
    <3>1. SubSeq(Batch(len), HeaderLen + 1, len) \in Seq(Units)
      BY <1>0, <2>1, <2>3, <2>4, BatchProperties DEF UnpackOK
    <3> QED
      BY <1>0, <2>4, <3>1, WriteProperties DEF SeqsOK
  <2>5. CASE Write(Batch(len))
    <3>1. Batch(len) \in Seq(Units)
      BY <1>0, <2>1, <2>3, BatchProperties
    <3> QED
      BY <1>0, <2>5, <3>1, WriteProperties DEF SeqsOK
  <2> QED
    BY <2>1, <2>2, <2>4, <2>5
<1>5. CASE ReadShortBatch
  <2>1. Garbage \in Units
    BY DEF Units
  <2> HIDE DEF Units
  <2>2. Append(copy, Garbage) \in Seq(Units)
    BY <1>0, <2>1, AppendProperties DEF SeqsOK
  <2> QED
    BY <1>0, <1>5, <2>2 DEF ReadShortBatch, SeqsOK
<1>6. CASE ReadFails
  BY <1>0, <1>6 DEF ReadFails, Fail, SeqsOK
<1>7. CASE EndOfFile
  BY <1>0, <1>7 DEF EndOfFile, SeqsOK
<1>8. CASE Finish
  <2>1. copy \o buffer \in Seq(Units)
    BY <1>0, ConcatProperties DEF SeqsOK
  <2>2. copy' = copy \o buffer \/ \E n \in 0..Len(buffer) : copy' = copy \o SubSeq(buffer, 1, n)
    BY <1>8 DEF Finish
  <2>3. copy' \in Seq(Units)
    BY <1>0, <2>1, <2>2, PrefixProperties
  <2> QED
    BY <1>8, <2>3, EmptyIsSeq DEF Finish, SeqsOK
<1>9. CASE OpenCopy
  BY <1>0, <1>9 DEF OpenCopy, Fail, SeqsOK
<1>10. CASE End
  BY <1>0, <1>10, EmptyIsSeq, WriteProperties DEF End, SeqsOK
<1>11. CASE UNCHANGED vars
  BY <1>0, <1>11 DEF vars, SeqsOK
<1> QED
  BY <1>1, <1>2, <1>3, <1>4, <1>5, <1>6, <1>7, <1>8, <1>9, <1>10, <1>11
  DEF Next, Opening

LEMMA UnpackKept ==
  ASSUME IInv, [Next]_vars
  PROVE  UnpackOK'
<1>0. SeqsOK /\ FileOK /\ PcOK /\ UnpackOK
  BY DEF IInv
<1>a. UNCHANGED <<source, runs>> => Database(0)' = Database(0)
  BY DEF Database, Content
<1>b. UNCHANGED <<source, runs, position>> => Database(position)' = Database(position)
  BY DEF Database, Content
<1>1. CASE Start
  BY <1>0, <1>1 DEF Start, PcOK, UnpackOK
<1>2. CASE OpenDatabase
  BY <1>0, <1>a, <1>2 DEF OpenDatabase, Fail, PcOK, UnpackOK
<1>3. CASE Decompress
  <2>1. CASE pc' = "failed"
    BY <1>0, <1>3, <2>1 DEF Decompress, Fail, PcOK, UnpackOK
  <2>2. CASE pc' = "read" /\ copy' = <<>> /\ UNCHANGED <<source, position, is_first_batch, buffer, opened, runs>>
    <3>1. pc = "unpack" /\ opened = "none" /\ position = 0 /\ buffer = <<>> /\ is_first_batch
      BY <1>0, <1>3 DEF Decompress, PcOK, UnpackOK
    <3>2. 0 \in 0..source.size /\ runs \in 1..MaxRuns /\ source \in Sources /\ 0 <= HeaderLen
      BY <1>0, <3>1, SourceProperties, SizesAssumption DEF FileOK
    <3>3. Database(0) = <<>>
      BY <3>2, DatabaseProperties
    <3>4. <<>> \o <<>> = <<>>
      BY EmptyIsSeq, ConcatEmptySeq
    <3>5. Database(0)' = Database(0)
      BY <1>a, <2>2
    <3> QED
      BY <2>2, <3>1, <3>3, <3>4, <3>5 DEF UnpackOK
  <2> QED
    BY <1>3, <2>1, <2>2 DEF Decompress, Fail
<1>4. CASE ReadBatch
  <2>1. pc = "read" /\ opened = "none" /\ UNCHANGED <<source, opened, runs>>
    BY <1>0, <1>4 DEF ReadBatch, Fail, PcOK
  <2>2. CASE pc' = "failed"
    BY <2>1, <2>2 DEF UnpackOK
  <2>3. CASE pc' = pc
    <3>1. PICK len \in Lengths :
            /\ len > 0 /\ (is_first_batch => len >= HeaderLen)
            /\ Write(IF is_first_batch THEN SubSeq(Batch(len), HeaderLen + 1, len) ELSE Batch(len))
            /\ position' = position + len /\ is_first_batch' = FALSE
      BY <1>4, <2>1, <2>3 DEF ReadBatch, Fail
    <3>2. runs >= 1 /\ position \in Nat /\ len \in Nat /\ position + len \in 0..source.readable
      BY <1>0, <2>1, <3>1, SourceProperties, LengthsProperties DEF FileOK
    <3>3. copy \in Seq(Units) /\ buffer \in Seq(Units) /\ copy \o buffer = Database(position)
      BY <1>0, <2>1 DEF SeqsOK, UnpackOK
    <3>4. copy' \o buffer' = Database(position + len)
      <4>1. CASE is_first_batch
        <5>1. position = 0
          BY <1>0, <2>1, <4>1 DEF UnpackOK
        <5>2. /\ SubSeq(Batch(len), HeaderLen + 1, len) \in Seq(Units)
              /\ SubSeq(Batch(len), HeaderLen + 1, len) = Database(len)
          BY <1>0, <3>1, <3>2, <4>1, <5>1, BatchProperties
        <5>3. Write(SubSeq(Batch(len), HeaderLen + 1, len))
          BY <3>1, <4>1
        <5>4. copy' \o buffer' = (copy \o buffer) \o Database(len)
          BY <1>0, <5>2, <5>3, WriteProperties
        <5>5. Database(0) = <<>>
          <6>1. 0 \in 0..source.size /\ runs \in 1..MaxRuns /\ source \in Sources /\ 0 <= HeaderLen
            BY <1>0, <3>2, SourceProperties, SizesAssumption DEF FileOK
          <6> QED
            BY <6>1, DatabaseProperties
        <5>6. <<>> \o Database(len) = Database(len)
          BY <5>2, ConcatEmptySeq
        <5>7. position + len = len
          BY <3>2, <5>1
        <5>8. copy \o buffer = <<>>
          BY <3>3, <5>1, <5>5, Zenon
        <5> QED
          BY <5>4, <5>6, <5>7, <5>8, Zenon
      <4>2. CASE ~is_first_batch
        <5>1. position >= HeaderLen
          BY <1>0, <2>1, <4>2 DEF UnpackOK
        <5>2. Batch(len) \in Seq(Units) /\ Database(position) \o Batch(len) = Database(position + len)
          BY <1>0, <3>1, <3>2, <5>1, BatchProperties
        <5>3. Write(Batch(len))
          BY <3>1, <4>2
        <5> QED
          BY <1>0, <3>3, <5>2, <5>3, WriteProperties
      <4> QED
        BY <4>1, <4>2
    <3>5. position + len >= HeaderLen
      <4>1. CASE is_first_batch
        BY <3>1, <3>2, <4>1, SizesAssumption
      <4>2. CASE ~is_first_batch
        BY <1>0, <2>1, <3>1, <3>2, <4>2, SizesAssumption DEF UnpackOK
      <4> QED
        BY <4>1, <4>2
    <3>6. Database(position)' = Database(position + len)
      BY <2>1, <3>1 DEF Database, Content
    <3> QED
      BY <2>1, <2>3, <3>1, <3>4, <3>5, <3>6 DEF UnpackOK
  <2> QED
    BY <1>4, <2>2, <2>3 DEF ReadBatch, Fail
<1>5. CASE ReadShortBatch
  BY <1>0, <1>5 DEF ReadShortBatch, PcOK, UnpackOK
<1>6. CASE ReadFails
  BY <1>0, <1>6 DEF ReadFails, Fail, PcOK, UnpackOK
<1>7. CASE EndOfFile
  <2>1. source.fault # "damaged" /\ position = source.readable
    BY <1>0, <1>7, LengthsProperties DEF EndOfFile
  <2> QED
    BY <1>0, <1>b, <1>7, <2>1 DEF EndOfFile, PcOK, UnpackOK
<1>8. CASE Finish
  <2>1. pc = "finish" /\ opened = "none" /\ UNCHANGED <<source, opened, runs>>
    BY <1>0, <1>8 DEF Finish, PcOK
  <2>2. CASE pc' = "failed"
    BY <2>1, <2>2 DEF UnpackOK
  <2>3. CASE pc' = "copy"
    <3>1. source.fault # "cut" /\ copy' = copy \o buffer
      BY <1>8, <2>3 DEF Finish
    <3>2. source.fault = "none" /\ position = source.size
      BY <1>0, <2>1, <3>1, SourceProperties DEF FileOK, UnpackOK
    <3>3. copy' = Database(source.size)
      BY <1>0, <2>1, <3>1, <3>2 DEF UnpackOK
    <3>4. Database(source.size)' = Database(source.size)
      BY <2>1 DEF Database, Content
    <3> QED
      BY <2>1, <2>3, <3>2, <3>3, <3>4 DEF UnpackOK
  <2> QED
    BY <1>8, <2>2, <2>3 DEF Finish
<1>9. CASE OpenCopy
  <2>1. UNCHANGED <<source, copy, runs>> /\ pc = "copy" /\ pc' \in {"ready", "failed"}
    BY <1>9 DEF OpenCopy, Fail
  <2>2. Database(source.size)' = Database(source.size)
    BY <2>1 DEF Database, Content
  <2> QED
    BY <1>0, <2>1, <2>2 DEF UnpackOK
<1>10. CASE End
  BY <1>0, <1>10 DEF End, PcOK, UnpackOK
<1>11. CASE UNCHANGED vars
  <2>1. Database(source.size)' = Database(source.size) /\ Database(position)' = Database(position)
    BY <1>11 DEF Database, Content, vars
  <2> QED
    BY <1>0, <1>11, <2>1 DEF vars, UnpackOK
<1> QED
  BY <1>1, <1>2, <1>3, <1>4, <1>5, <1>6, <1>7, <1>8, <1>9, <1>10, <1>11
  DEF Next, Opening

LEMMA StepIInv == IInv /\ [Next]_vars => IInv'
BY PcKept, FileKept, SeqsKept, UnpackKept DEF IInv

\* The invariant holds of every behaviour.
THEOREM Inductive == Spec => []IInv
BY InitIInv, StepIInv, PTL DEF Spec

-----------------------------------------------------------------------------
(* What the runs check.                                                    *)

\* The variables keep their types, the copy those of a file's units.
THEOREM TypeCorrect == Spec => []TypeOK
<1>1. IInv => TypeOK
  BY DEF IInv, PcOK, FileOK, SeqsOK, TypeOK
<1> QED
  BY <1>1, Inductive, PTL

\* Whatever an earlier run left and wherever the file was damaged, SQLite opens
\* the whole unpacked database of this run, or a file that needs no unpacking
\* or could not be looked at.
THEOREM WholeDatabaseIsOpened == Spec => []OpensTheDatabase
<1>1. IInv => OpensTheDatabase
  <2> SUFFICES ASSUME IInv PROVE OpensTheDatabase
    OBVIOUS
  <2>1. opened = "source" => ~source.compressed \/ ~source.writable
    BY DEF IInv, PcOK, IsGzipFile
  <2>2. opened = "copy" => source.fault = "none" /\ copy = Database(source.size)
    BY DEF IInv, UnpackOK
  <2> QED
    BY <2>1, <2>2 DEF OpensTheDatabase, Database
<1> QED
  BY <1>1, Inductive, PTL
=============================================================================
