------------------------ MODULE TheDudeToHumanProofs -------------------------
(***************************************************************************)
(* Proofs about main, for any lines, databases and device, and any number  *)
(* of runs: that getopt_long and main, who both move optind, stay within   *)
(* the arguments; that the terminal gets its echo back; and, for lines     *)
(* that main reads as they are meant (ReadAsGiven, which TLC checks), what *)
(* becomes of the files and what the document says.                        *)
(***************************************************************************)
EXTENDS TheDudeToHuman, SequenceTheorems, WellFoundedInduction, TLAPS

-----------------------------------------------------------------------------
(* Induction over the natural numbers, and loops.                          *)

\* A set of natural numbers that is not empty has a least element.
LEMMA LeastElement ==
  ASSUME NEW T, T \subseteq Nat, T # {}
  PROVE  \E x \in T : \A y \in T : x <= y
<1> DEFINE Less == {pair \in Nat \X Nat : pair[1] < pair[2]}
<1>1. OpToRel(<, Nat) = Less
  BY Zenon DEF OpToRel
<1>2. IsWellFoundedOn(Less, Nat)
  BY <1>1, NatLessThanWellFounded, Zenon
<1> HIDE DEF Less
<1>3. PICK x \in T : \A y \in T : ~ (<<y, x>> \in Less)
  BY <1>2, WFMin
<1> USE DEF Less
<1>4. ASSUME NEW y \in T, y < x
      PROVE  FALSE
  <2>1. <<y, x>> \in Nat \X Nat /\ <<y, x>>[1] < <<y, x>>[2]
    BY <1>4
  <2> QED
    BY <2>1, <1>3
<1> QED
  BY <1>4

\* One of natural numbers with a bound has a greatest.
LEMMA GreatestElement ==
  ASSUME NEW N \in Nat, NEW T, T \subseteq 0..N, T # {}
  PROVE  \E x \in T : \A y \in T : y <= x
<1> DEFINE U == {N - x : x \in T}
<1>1. U \subseteq Nat /\ U # {}
  <2>1. \A x \in T : N - x \in Nat
    OBVIOUS
  <2>2. PICK x \in T : TRUE
    OBVIOUS
  <2>3. N - x \in U
    BY <2>2
  <2> QED
    BY <2>1, <2>3
<1>2. PICK u \in U : \A v \in U : u <= v
  BY <1>1, LeastElement
<1>3. PICK x \in T : u = N - x
  OBVIOUS
<1>4. \A y \in T : N - y \in U
  OBVIOUS
<1> HIDE DEF U
<1> QED
  BY <1>2, <1>3, <1>4

\* A set that holds 0 and, with each of its naturals, the next one, holds all.
LEMMA SetInduction ==
  ASSUME NEW T, 0 \in T, \A n \in Nat : n \in T => n + 1 \in T
  PROVE  Nat \subseteq T
<1> SUFFICES ASSUME Nat \ T # {}
             PROVE  FALSE
  OBVIOUS
<1>1. PICK n \in Nat \ T : \A m \in Nat \ T : n <= m
  BY LeastElement
<1>2. n # 0 /\ n - 1 \in Nat /\ n - 1 \in T
  BY <1>1
<1> QED
  BY <1>1, <1>2

\* What a loop has after each of its turns.
Loop(S, s, f, N, g) ==
  g \in [0..N -> S] /\ g[0] = s /\ \A n \in 1..N : g[n] = f[<<n, g[n - 1]>>]

\* A loop has something after each of its turns.
LEMMA LoopExists ==
  ASSUME NEW S, NEW s \in S, NEW f \in [Nat \X S -> S], NEW N \in Nat
  PROVE  \E g : Loop(S, s, f, N, g)
<1> DEFINE Reach == {m \in Nat : \E g : Loop(S, s, f, m, g)}
<1>1. 0 \in Reach
  <2>1. Loop(S, s, f, 0, [n \in 0..0 |-> s])
    BY DEF Loop
  <2> QED
    BY <2>1
<1>2. ASSUME NEW m \in Nat, m \in Reach
      PROVE  m + 1 \in Reach
  <2>1. PICK g : Loop(S, s, f, m, g)
    BY <1>2
  <2> DEFINE h == [n \in 0..(m + 1) |-> IF n = m + 1 THEN f[<<n, g[m]>>] ELSE g[n]]
  <2>2. g[m] \in S /\ <<m + 1, g[m]>> \in Nat \X S
    BY <2>1 DEF Loop
  <2>3. h \in [0..(m + 1) -> S] /\ h[0] = s
    BY <2>1, <2>2 DEF Loop
  <2>4. ASSUME NEW n \in 1..(m + 1)
        PROVE  h[n] = f[<<n, h[n - 1]>>]
    <3>1. n - 1 \in 0..m /\ h[n - 1] = g[n - 1]
      OBVIOUS
    <3>2. CASE n = m + 1
      BY <3>1, <3>2
    <3>3. CASE n # m + 1
      <4>1. n \in 1..m /\ n \in 0..(m + 1)
        BY <3>3
      <4>2. h[n] = g[n]
        BY <3>3, <4>1
      <4> HIDE DEF h
      <4> QED
        BY <2>1, <3>1, <4>1, <4>2 DEF Loop
    <3> QED
      BY <3>2, <3>3
  <2>5. Loop(S, s, f, m + 1, h)
    BY <2>3, <2>4 DEF Loop
  <2> QED
    BY <2>5
<1>3. Nat \subseteq Reach
  <2> HIDE DEF Reach
  <2> QED
    BY <1>1, <1>2, SetInduction
<1> QED
  BY <1>3
-----------------------------------------------------------------------------
(* getopt_long stays within the arguments.                                 *)

Texts == Seq(STRING)
Answers == {"none", "f", "o", "c", "m", "h", "v", "?", "end"}
Data  == [argv : Seq(Texts), ordering : {"PERMUTE", "REQUIRE_ORDER"}, optind : Nat,
          nextchar : Texts, first_nonopt : Nat, last_nonopt : Nat, optarg : Texts,
          result : Answers]

\* The stretch of names lies within the arguments, and so does the option that
\* is looked at; within an argument there is one.
Within(d) ==
  /\ d \in Data
  /\ d.first_nonopt >= 1
  /\ d.first_nonopt <= d.last_nonopt
  /\ d.last_nonopt <= GetOpt!argc(d)
  /\ d.optind \in 1..GetOpt!argc(d)
  /\ d.nextchar # <<>> => d.optind < GetOpt!argc(d)

LEMMA TheOne ==
  ASSUME NEW x
  PROVE  GetOpt!The({x}) = x
BY DEF GetOpt!The

\* Two stretches that lie within the arguments change places.
LEMMA SwapKeeps ==
  ASSUME NEW argv \in Seq(Texts), NEW i \in Int, NEW j \in Int, NEW len \in Nat,
         i >= 1, j >= 1, i + len <= Len(argv) + 1, j + len <= Len(argv) + 1
  PROVE  /\ GetOpt!Swap(argv, i, j, len) \in Seq(Texts)
         /\ Len(GetOpt!Swap(argv, i, j, len)) = Len(argv)
<1> DEFINE t == GetOpt!Swap(argv, i, j, len)
           N == Len(argv)
<1>1. N \in Nat /\ DOMAIN argv = 1..N /\ \A k \in 1..N : argv[k] \in Texts
  BY LenProperties, ElementOfSeq
<1>2. t = [k \in 1..N |-> IF k \in i..(i + len - 1) THEN argv[k - i + j]
                          ELSE IF k \in j..(j + len - 1) THEN argv[k - j + i] ELSE argv[k]]
  BY <1>1 DEF GetOpt!Swap
<1> HIDE DEF N
<1>3. ASSUME NEW k \in 1..N
      PROVE  t[k] \in Texts
  <2>1. t[k] = IF k \in i..(i + len - 1) THEN argv[k - i + j]
               ELSE IF k \in j..(j + len - 1) THEN argv[k - j + i] ELSE argv[k]
    BY <1>2
  <2>2. k \in i..(i + len - 1) => k - i + j \in 1..N
    BY <1>1 DEF N
  <2>3. k \in j..(j + len - 1) => k - j + i \in 1..N
    BY <1>1 DEF N
  <2> HIDE DEF t
  <2> QED
    BY <1>1, <2>1, <2>2, <2>3
<1>4. t \in [1..N -> Texts]
  BY <1>2, <1>3
<1> HIDE DEF t
<1>5. t \in Seq(Texts) /\ Len(t) = N
  BY <1>1, <1>4, SeqDef, LenProperties
<1> QED
  BY <1>5 DEF t, N

\* The turns of exchange leave as many arguments as there were.
Turns(n) ==
  {s \in [argv : Seq(Texts), bottom : Nat, middle : Nat, top : Nat] :
     /\ Len(s.argv) = n
     /\ s.bottom >= 1 /\ s.bottom <= s.middle /\ s.middle <= s.top /\ s.top <= n + 1}

LEMMA TurnKeeps ==
  ASSUME NEW n \in Nat, NEW s \in Turns(n)
  PROVE  GetOpt!Turn(s) \in Turns(n)
<1>1. /\ s \in [argv : Seq(Texts), bottom : Nat, middle : Nat, top : Nat]
      /\ Len(s.argv) = n
      /\ s.bottom >= 1 /\ s.bottom <= s.middle /\ s.middle <= s.top /\ s.top <= n + 1
  BY DEF Turns
<1>2. CASE s.top <= s.middle \/ s.middle <= s.bottom
  BY <1>2 DEF GetOpt!Turn
<1>3. CASE s.middle < s.top /\ s.bottom < s.middle /\ s.top - s.middle > s.middle - s.bottom
  <2> DEFINE len == s.middle - s.bottom
             t == GetOpt!Swap(s.argv, s.bottom, s.top - len, len)
  <2>1. GetOpt!Turn(s) = [s EXCEPT !.argv = t, !.top = s.top - len]
    BY <1>1, <1>3 DEF GetOpt!Turn
  <2>2. len \in Nat /\ s.top - len \in Nat /\ s.top - len >= s.middle
    BY <1>1, <1>3
  <2>3. s.argv \in Seq(Texts) /\ Len(s.argv) = n /\ s.bottom \in Nat
    BY <1>1
  <2>4. s.bottom + len <= n + 1 /\ s.top - len >= 1 /\ (s.top - len) + len <= n + 1
    BY <1>1, <1>3
  <2> HIDE DEF len
  <2>5. t \in Seq(Texts) /\ Len(t) = n
    BY <1>1, <2>2, <2>3, <2>4, SwapKeeps
  <2> HIDE DEF t
  <2>6. GetOpt!Turn(s) = [argv |-> t, bottom |-> s.bottom, middle |-> s.middle, top |-> s.top - len]
    BY <1>1, <2>1
  <2>7. s.top - len <= n + 1
    BY <1>1, <1>3 DEF len
  <2> QED
    BY <1>1, <2>2, <2>5, <2>6, <2>7 DEF Turns
<1>4. CASE s.middle < s.top /\ s.bottom < s.middle /\ ~(s.top - s.middle > s.middle - s.bottom)
  <2> DEFINE len == s.top - s.middle
             t == GetOpt!Swap(s.argv, s.bottom, s.middle, len)
  <2>1. GetOpt!Turn(s) = [s EXCEPT !.argv = t, !.bottom = s.bottom + len]
    BY <1>1, <1>4 DEF GetOpt!Turn
  <2>2. len \in Nat /\ s.bottom + len \in Nat /\ s.bottom + len <= s.middle
    BY <1>1, <1>4
  <2>3. s.argv \in Seq(Texts) /\ Len(s.argv) = n /\ s.bottom \in Nat /\ s.middle \in Nat
    BY <1>1
  <2>4. s.bottom + len <= n + 1 /\ s.middle >= 1 /\ s.middle + len <= n + 1
    BY <1>1, <1>4
  <2> HIDE DEF len
  <2>5. t \in Seq(Texts) /\ Len(t) = n
    BY <1>1, <2>2, <2>3, <2>4, SwapKeeps
  <2> HIDE DEF t
  <2>6. GetOpt!Turn(s) = [argv |-> t, bottom |-> s.bottom + len, middle |-> s.middle, top |-> s.top]
    BY <1>1, <2>1
  <2>7. s.bottom + len >= 1
    BY <1>1, <2>2
  <2> QED
    BY <1>1, <2>2, <2>5, <2>6, <2>7 DEF Turns
<1> QED
  BY <1>1, <1>2, <1>3, <1>4

LEMMA SwappedKeeps ==
  ASSUME NEW argv \in Seq(Texts), NEW bottom \in Nat, NEW middle \in Nat, NEW top \in Nat,
         bottom >= 1, bottom <= middle, middle <= top, top <= Len(argv) + 1
  PROVE  /\ GetOpt!Swapped(argv, bottom, middle, top) \in Seq(Texts)
         /\ Len(GetOpt!Swapped(argv, bottom, middle, top)) = Len(argv)
<1> DEFINE n == Len(argv)
           N == top - bottom
           s == [argv |-> argv, bottom |-> bottom, middle |-> middle, top |-> top]
           Is(g) == g = [k \in 0..N |-> IF k = 0 THEN s ELSE GetOpt!Turn(g[k - 1])]
           after == CHOOSE g : Is(g)
           f == [x \in Nat \X Turns(n) |-> GetOpt!Turn(x[2])]
<1>1. n \in Nat /\ N \in Nat
  BY LenProperties
<1>2. s \in Turns(n)
  BY <1>1 DEF Turns
<1>3. f \in [Nat \X Turns(n) -> Turns(n)]
  BY <1>1, TurnKeeps
<1>4. GetOpt!Swapped(argv, bottom, middle, top) = after[N].argv
  BY DEF GetOpt!Swapped
<1> HIDE DEF s, N, n
<1>5. PICK g : Loop(Turns(n), s, f, N, g)
  <2> HIDE DEF f
  <2> QED
    BY <1>1, <1>2, <1>3, LoopExists
<1>6. \A k \in 1..N : f[<<k, g[k - 1]>>] = GetOpt!Turn(g[k - 1])
  <2> SUFFICES ASSUME NEW k \in 1..N
               PROVE  f[<<k, g[k - 1]>>] = GetOpt!Turn(g[k - 1])
    OBVIOUS
  <2>1. k - 1 \in 0..N /\ k \in Nat
    BY <1>1
  <2>2. g[k - 1] \in Turns(n)
    BY <1>5, <2>1 DEF Loop
  <2> QED
    BY <2>1, <2>2
<1> HIDE DEF f
<1>7. Is(g)
  <2>1. g = [k \in 0..N |-> g[k]]
    BY <1>5 DEF Loop
  <2>2. g[0] = s /\ \A k \in 1..N : g[k] = GetOpt!Turn(g[k - 1])
    BY <1>5, <1>6 DEF Loop
  <2>3. \A k \in 0..N : k = 0 \/ k \in 1..N
    BY <1>1
  <2>4. \A k \in 1..N : k # 0
    BY <1>1
  <2>5. \A k \in 0..N : g[k] = IF k = 0 THEN s ELSE GetOpt!Turn(g[k - 1])
    BY <2>2, <2>3, <2>4
  <2> QED
    BY <2>1, <2>5
<1>8. Is(after)
  <2> HIDE DEF Is
  <2> QED
    BY <1>7
<1> HIDE DEF after
<1> DEFINE Reach == {k \in Nat : k <= N => after[k] \in Turns(n)}
<1>9. 0 \in Reach
  <2>1. after[0] = s
    BY <1>1, <1>8
  <2> QED
    BY <1>2, <2>1
<1>10. ASSUME NEW k \in Nat, k \in Reach
       PROVE  k + 1 \in Reach
  <2> SUFFICES ASSUME k + 1 <= N
               PROVE  after[k + 1] \in Turns(n)
    OBVIOUS
  <2>1. k + 1 \in 0..N /\ k + 1 # 0 /\ k + 1 - 1 = k /\ k <= N
    BY <1>1
  <2>2. after[k + 1] = GetOpt!Turn(after[k])
    BY <1>8, <2>1
  <2>3. after[k] \in Turns(n)
    BY <1>10, <2>1
  <2> QED
    BY <1>1, <2>2, <2>3, TurnKeeps
<1>11. N \in Reach
  <2> HIDE DEF Reach
  <2> QED
    BY <1>1, <1>9, <1>10, SetInduction
<1>12. after[N] \in Turns(n)
  BY <1>1, <1>11
<1> QED
  BY <1>4, <1>12 DEF Turns, n

\* Between two options: no argument is being taken apart.
Ordered(d) ==
  /\ d \in Data
  /\ d.first_nonopt >= 1
  /\ d.first_nonopt <= d.last_nonopt
  /\ d.last_nonopt <= d.optind
  /\ d.optind <= GetOpt!argc(d)
  /\ d.nextchar = <<>>

LEMMA Count ==
  ASSUME NEW d \in Data
  PROVE  /\ Len(d.argv) \in Nat /\ GetOpt!argc(d) = Len(d.argv) + 1
         /\ \A i \in Nat : 1 <= i /\ i < GetOpt!argc(d) => d.argv[i] \in Texts
         /\ d.optind \in Nat /\ d.first_nonopt \in Nat /\ d.last_nonopt \in Nat
         /\ d.argv \in Seq(Texts) /\ d.nextchar \in Texts /\ d.optarg \in Texts
<1>1. /\ d.optind \in Nat /\ d.first_nonopt \in Nat /\ d.last_nonopt \in Nat
      /\ d.argv \in Seq(Texts) /\ d.nextchar \in Texts /\ d.optarg \in Texts
  BY DEF Data
<1>2. Len(d.argv) \in Nat /\ GetOpt!argc(d) = Len(d.argv) + 1
  BY <1>1, LenProperties DEF GetOpt!argc
<1>3. ASSUME NEW i \in Nat, 1 <= i, i < GetOpt!argc(d)
      PROVE  d.argv[i] \in Texts
  <2>1. i \in 1..Len(d.argv)
    BY <1>2, <1>3
  <2> QED
    BY <1>1, <2>1, ElementOfSeq
<1> QED
  BY <1>1, <1>2, <1>3

LEMMA ExchangeKeeps ==
  ASSUME NEW d, Ordered(d)
  PROVE  /\ Ordered(GetOpt!Exchange(d))
         /\ GetOpt!Exchange(d).optind = d.optind
         /\ GetOpt!argc(GetOpt!Exchange(d)) = GetOpt!argc(d)
<1> DEFINE t == GetOpt!Swapped(d.argv, d.first_nonopt, d.last_nonopt, d.optind)
           first == d.first_nonopt + (d.optind - d.last_nonopt)
<1>1. /\ d \in Data /\ d.first_nonopt >= 1 /\ d.first_nonopt <= d.last_nonopt
      /\ d.last_nonopt <= d.optind /\ d.optind <= Len(d.argv) + 1
      /\ d.optind \in Nat /\ d.first_nonopt \in Nat /\ d.last_nonopt \in Nat
      /\ d.argv \in Seq(Texts) /\ Len(d.argv) \in Nat
  BY Count DEF Ordered
<1>2. GetOpt!Exchange(d) = [d EXCEPT !.argv = t, !.first_nonopt = first, !.last_nonopt = d.optind]
  BY <1>1 DEF GetOpt!Exchange, Data
<1>3. t \in Seq(Texts) /\ Len(t) = Len(d.argv)
  BY <1>1, SwappedKeeps
<1>4. first \in Nat /\ first >= 1 /\ first <= d.optind
  BY <1>1
<1> DEFINE e == GetOpt!Exchange(d)
<1> HIDE DEF t, first
<1>5. /\ e \in Data /\ e.argv = t /\ e.optind = d.optind /\ e.nextchar = d.nextchar
      /\ e.first_nonopt = first /\ e.last_nonopt = d.optind
  BY <1>1, <1>2, <1>3, <1>4 DEF Data
<1> HIDE DEF e
<1>6. d.nextchar = <<>>
  BY DEF Ordered
<1>7. Ordered(e) /\ GetOpt!argc(e) = GetOpt!argc(d)
  BY <1>1, <1>3, <1>4, <1>5, <1>6 DEF Ordered, GetOpt!argc
<1> QED
  BY <1>5, <1>7 DEF e

LEMMA ClampKeeps ==
  ASSUME NEW d, Within(d), d.nextchar = <<>>
  PROVE  Ordered(GetOpt!Clamp(d))
<1>1. d \in Data /\ d.first_nonopt >= 1 /\ d.first_nonopt <= d.last_nonopt
      /\ d.optind >= 1 /\ d.optind <= GetOpt!argc(d)
  BY Count DEF Within
<1>2. d.optind \in Nat /\ d.first_nonopt \in Nat /\ d.last_nonopt \in Nat
  BY <1>1, Count
<1> DEFINE last == GetOpt!Min2(d.last_nonopt, d.optind)
           first == GetOpt!Min2(d.first_nonopt, d.optind)
<1>3. GetOpt!Clamp(d) = [d EXCEPT !.last_nonopt = last, !.first_nonopt = first]
  BY <1>1 DEF GetOpt!Clamp, Data
<1>4. last \in Nat /\ first \in Nat /\ first >= 1 /\ first <= last /\ last <= d.optind
  BY <1>1, <1>2 DEF GetOpt!Min2
<1> HIDE DEF last, first
<1> QED
  BY <1>1, <1>3, <1>4 DEF Ordered, Data, GetOpt!argc

\* The next option is found among the arguments, or else their end.
LEMMA NextOptionIs ==
  ASSUME NEW d \in Data, d.optind >= 1, d.optind <= GetOpt!argc(d)
  PROVE  /\ GetOpt!NextOption(d) \in Nat
         /\ GetOpt!NextOption(d) >= d.optind
         /\ GetOpt!NextOption(d) <= GetOpt!argc(d)
<1>1. d.optind \in Nat /\ GetOpt!argc(d) \in Nat
  BY Count
<1> DEFINE Stops == {i \in d.optind..GetOpt!argc(d) :
                      i = GetOpt!argc(d) \/ ~GetOpt!NonOption(d.argv[i])}
<1>2. GetOpt!argc(d) \in Stops /\ Stops \subseteq Nat
  BY <1>1
<1>3. PICK i \in Stops : \A j \in Stops : i <= j
  <2> HIDE DEF Stops
  <2> QED
    BY <1>2, LeastElement
<1>4. \A j \in d.optind..(i - 1) : GetOpt!NonOption(d.argv[j])
  BY <1>1, <1>3
<1>5. i \in d.optind..GetOpt!argc(d) /\ (i = GetOpt!argc(d) \/ ~GetOpt!NonOption(d.argv[i]))
  OBVIOUS
<1>6. GetOpt!NextOption(d) \in d.optind..GetOpt!argc(d)
  BY <1>4, <1>5, Zenon DEF GetOpt!NextOption
<1> QED
  BY <1>1, <1>6

LEMMA PermuteKeeps ==
  ASSUME NEW d, Ordered(d)
  PROVE  Ordered(GetOpt!Permute(d))
<1>1. CASE d.ordering # "PERMUTE"
  BY <1>1 DEF GetOpt!Permute
<1>2. CASE d.ordering = "PERMUTE"
  <2> DEFINE e == GetOpt!Gather(d)
             next == GetOpt!NextOption(e)
             p == [e EXCEPT !.optind = next, !.last_nonopt = next]
  <2>1. GetOpt!Permute(d) = p
    <3>1. {[x EXCEPT !.optind = GetOpt!NextOption(x), !.last_nonopt = GetOpt!NextOption(x)] : x \in {e}} = {p}
      OBVIOUS
    <3> HIDE DEF p
    <3> QED
      BY <1>2, <3>1, TheOne DEF GetOpt!Permute
  <2>2. /\ d \in Data /\ d.first_nonopt >= 1 /\ d.first_nonopt <= d.last_nonopt
        /\ d.last_nonopt <= d.optind /\ d.optind <= GetOpt!argc(d) /\ d.nextchar = <<>>
        /\ d.optind \in Nat /\ d.first_nonopt \in Nat /\ d.last_nonopt \in Nat
    BY Count DEF Ordered
  <2>3. /\ e \in Data /\ e.optind = d.optind /\ GetOpt!argc(e) = GetOpt!argc(d)
        /\ e.nextchar = <<>> /\ e.first_nonopt >= 1 /\ e.first_nonopt <= d.optind
    <3>1. CASE d.last_nonopt = d.optind
      BY <2>2, <3>1 DEF GetOpt!Gather
    <3>2. CASE d.last_nonopt # d.optind /\ d.first_nonopt # d.last_nonopt
      <4>1. e = GetOpt!Exchange(d)
        BY <3>2 DEF GetOpt!Gather
      <4>2. Ordered(e) /\ e.optind = d.optind /\ GetOpt!argc(e) = GetOpt!argc(d)
        BY <4>1, ExchangeKeeps
      <4> HIDE DEF e
      <4>3. e.first_nonopt \in Nat /\ e.last_nonopt \in Nat
        BY <4>2, Count DEF Ordered
      <4> QED
        BY <2>2, <4>2, <4>3 DEF Ordered
    <3>3. CASE d.last_nonopt # d.optind /\ d.first_nonopt = d.last_nonopt
      <4>1. e = [d EXCEPT !.first_nonopt = d.optind]
        BY <3>3 DEF GetOpt!Gather
      <4> HIDE DEF e
      <4> QED
        BY <2>2, <4>1 DEF Data, GetOpt!argc
    <3> QED
      BY <3>1, <3>2, <3>3
  <2> HIDE DEF e
  <2>4. next \in Nat /\ next >= e.optind /\ next <= GetOpt!argc(e)
    BY <2>2, <2>3, NextOptionIs
  <2> HIDE DEF next
  <2>5. /\ p \in Data /\ p.optind = next /\ p.last_nonopt = next /\ p.nextchar = e.nextchar
        /\ p.first_nonopt = e.first_nonopt /\ p.argv = e.argv
    BY <2>3, <2>4 DEF Data
  <2> HIDE DEF p
  <2>6. e.first_nonopt \in Nat
    BY <2>3 DEF Data
  <2>7. Ordered(p)
    BY <2>2, <2>3, <2>4, <2>5, <2>6 DEF Ordered, GetOpt!argc
  <2> QED
    BY <2>1, <2>7
<1> QED
  BY <1>1, <1>2

LEMMA SkipDashesKeeps ==
  ASSUME NEW d, Ordered(d)
  PROVE  Ordered(GetOpt!SkipDashes(d))
<1>1. /\ d \in Data /\ d.first_nonopt >= 1 /\ d.first_nonopt <= d.last_nonopt
      /\ d.last_nonopt <= d.optind /\ d.optind <= GetOpt!argc(d) /\ d.nextchar = <<>>
      /\ d.optind \in Nat /\ d.first_nonopt \in Nat /\ d.last_nonopt \in Nat
      /\ GetOpt!argc(d) \in Nat
  BY Count DEF Ordered
<1>2. CASE d.optind = GetOpt!argc(d) \/ ~GetOpt!Dashes(d.argv[d.optind])
  BY <1>2 DEF GetOpt!SkipDashes
<1>3. CASE d.optind < GetOpt!argc(d) /\ GetOpt!Dashes(d.argv[d.optind])
  <2> DEFINE e == [d EXCEPT !.optind = d.optind + 1]
             f == IF e.first_nonopt = e.last_nonopt
                  THEN [e EXCEPT !.first_nonopt = e.optind]
                  ELSE IF e.last_nonopt # e.optind THEN GetOpt!Exchange(e) ELSE e
             g == [f EXCEPT !.last_nonopt = GetOpt!argc(f), !.optind = GetOpt!argc(f)]
  <2>1. GetOpt!SkipDashes(d) = g
    BY <1>1, <1>3 DEF GetOpt!SkipDashes, Data
  <2>2. /\ e \in Data /\ e.optind = d.optind + 1 /\ e.first_nonopt = d.first_nonopt
        /\ e.last_nonopt = d.last_nonopt /\ e.nextchar = <<>> /\ e.argv = d.argv
    BY <1>1 DEF Data
  <2> HIDE DEF e
  <2>3. Ordered(e) /\ GetOpt!argc(e) = GetOpt!argc(d)
    BY <1>1, <1>3, <2>2 DEF Ordered, GetOpt!argc
  <2>4. /\ f \in Data /\ f.nextchar = <<>> /\ GetOpt!argc(f) = GetOpt!argc(d)
        /\ f.first_nonopt >= 1 /\ f.first_nonopt <= GetOpt!argc(d)
    <3>1. CASE e.first_nonopt = e.last_nonopt
      <4>1. f = [e EXCEPT !.first_nonopt = e.optind]
        BY <3>1
      <4> HIDE DEF f
      <4> QED
        BY <1>1, <1>3, <2>2, <4>1 DEF Data, GetOpt!argc
    <3>2. CASE e.first_nonopt # e.last_nonopt /\ e.last_nonopt # e.optind
      <4>1. f = GetOpt!Exchange(e)
        BY <3>2
      <4> HIDE DEF f
      <4>2. Ordered(f) /\ f.optind = e.optind /\ GetOpt!argc(f) = GetOpt!argc(e)
        BY <2>3, <4>1, ExchangeKeeps
      <4>3. f.first_nonopt \in Nat /\ f.last_nonopt \in Nat
        BY <4>2, Count DEF Ordered
      <4> QED
        BY <1>1, <1>3, <2>2, <2>3, <4>2, <4>3 DEF Ordered
    <3>3. CASE e.first_nonopt # e.last_nonopt /\ e.last_nonopt = e.optind
      <4>1. f = e
        BY <3>3
      <4> HIDE DEF f
      <4> QED
        BY <1>1, <2>2, <2>3, <4>1
    <3> QED
      BY <3>1, <3>2, <3>3
  <2> HIDE DEF f
  <2>5. /\ g \in Data /\ g.optind = GetOpt!argc(f) /\ g.last_nonopt = GetOpt!argc(f)
        /\ g.first_nonopt = f.first_nonopt /\ g.nextchar = f.nextchar /\ g.argv = f.argv
    BY <1>1, <2>4 DEF Data
  <2> HIDE DEF g
  <2>6. Ordered(g)
    BY <1>1, <2>4, <2>5 DEF Ordered, GetOpt!argc
  <2> QED
    BY <2>1, <2>6
<1> QED
  BY <1>1, <1>2, <1>3

\* Reading an option moves neither the arguments nor the stretch of names.
Moves(d, e) ==
  /\ e \in Data /\ e.argv = d.argv
  /\ e.first_nonopt = d.first_nonopt /\ e.last_nonopt = d.last_nonopt

LEMMA MovesWithin ==
  ASSUME NEW d, NEW e, Within(d), Moves(d, e), e.optind >= 1, e.optind <= GetOpt!argc(d),
         e.nextchar # <<>> => e.optind < GetOpt!argc(d)
  PROVE  Within(e)
<1>1. GetOpt!argc(e) = GetOpt!argc(d) /\ GetOpt!argc(d) \in Nat /\ e.optind \in Nat
  BY Count DEF Moves, Within, GetOpt!argc
<1> QED
  BY <1>1 DEF Moves, Within

LEMMA LongOptionsAreLetters ==
  ASSUME NEW n \in DOMAIN LongOptions
  PROVE  LongOptions[n] \in Answers \ {"end"}
<1>1. DOMAIN LongOptions = {"file", "out", "credentials", "mikrotik", "help", "version"}
  BY DEF LongOptions
<1>2. /\ LongOptions["file"] = "f" /\ LongOptions["out"] = "o"
      /\ LongOptions["credentials"] = "c" /\ LongOptions["mikrotik"] = "m"
      /\ LongOptions["help"] = "h" /\ LongOptions["version"] = "v"
  BY DEF LongOptions
<1>3. n \in {"file", "out", "credentials", "mikrotik", "help", "version"}
  BY <1>1, Zenon
<1> QED
  BY <1>2, <1>3 DEF Answers

LEMMA RestOfText ==
  ASSUME NEW arg \in Texts, NEW k \in Nat, k >= 1
  PROVE  SubSeq(arg, k, Len(arg)) \in Texts
<1>1. Len(arg) \in Nat /\ \A i \in 1..Len(arg) : arg[i] \in STRING
  BY LenProperties, ElementOfSeq DEF Texts
<1>2. \A i \in k..Len(arg) : arg[i] \in STRING
  BY <1>1
<1> QED
  BY <1>1, <1>2, SubSeqProperties DEF Texts

LEMMA LongKeeps ==
  ASSUME NEW d, Within(d), d.optind < GetOpt!argc(d)
  PROVE  Within(GetOpt!Long(d)) /\ GetOpt!Long(d).result # "end"
<1> DEFINE arg    == d.argv[d.optind]
           bare   == Len(arg) = 3 /\ arg[3] # "="
           name   == IF arg[3] = "=" THEN "" ELSE arg[3]
           value  == SubSeq(arg, IF name = "" THEN 4 ELSE 5, Len(arg))
           meant  == IF name \in DOMAIN LongOptions THEN {name}
                     ELSE {n \in DOMAIN LongOptions : name = "" \/ <<name, n>> \in Abbreviations}
           e      == [d EXCEPT !.optind = d.optind + 1, !.nextchar = <<>>]
           letter == LongOptions[CHOOSE n \in meant : TRUE]
           next   == [e EXCEPT !.optarg = e.argv[e.optind], !.optind = e.optind + 1]
<1>1. /\ d \in Data /\ d.optind \in Nat /\ d.optind >= 1 /\ GetOpt!argc(d) \in Nat
      /\ d.argv \in Seq(Texts)
  BY Count DEF Within
<1>2. value \in Texts
  <2>1. arg \in Texts
    BY <1>1, Count
  <2> HIDE DEF arg, name
  <2>2. SubSeq(arg, 4, Len(arg)) \in Texts /\ SubSeq(arg, 5, Len(arg)) \in Texts
    BY <2>1, RestOfText
  <2>3. CASE name = ""
    BY <2>2, <2>3
  <2>4. CASE name # ""
    BY <2>2, <2>4
  <2> QED
    BY <2>3, <2>4
<1>3. /\ Moves(d, e) /\ e.optind = d.optind + 1 /\ e.nextchar = <<>>
      /\ GetOpt!argc(e) = GetOpt!argc(d)
  <2> DEFINE nothing == <<>>
  <2>1. nothing \in Texts
    BY DEF Texts
  <2> DEFINE next1 == d.optind + 1
  <2>6. next1 \in Nat
    BY <1>1
  <2> HIDE DEF nothing, next1
  <2>2. /\ [d EXCEPT !.optind = next1, !.nextchar = nothing] \in Data
        /\ [d EXCEPT !.optind = next1, !.nextchar = nothing].nextchar = nothing
        /\ [d EXCEPT !.optind = next1, !.nextchar = nothing].optind = next1
    BY <1>1, <2>1, <2>6 DEF Data
  <2> USE DEF nothing, next1
  <2>3. /\ e.argv = d.argv /\ e.first_nonopt = d.first_nonopt
        /\ e.last_nonopt = d.last_nonopt
    BY <1>1 DEF Data
  <2>4. e \in Data /\ e.nextchar = <<>> /\ e.optind = d.optind + 1
    BY <2>2, Zenon
  <2> HIDE DEF e
  <2> QED
    BY <2>3, <2>4 DEF Moves, GetOpt!argc
<1>4. GetOpt!Long(d) =
        IF \A n \in meant : meant # {n} THEN GetOpt!Answer(e, "?")
        ELSE IF ~ShortOptions[letter]
        THEN GetOpt!Answer(e, IF bare THEN letter ELSE "?")
        ELSE IF ~bare THEN GetOpt!Answer([e EXCEPT !.optarg = value], letter)
        ELSE IF e.optind = GetOpt!argc(e) THEN GetOpt!Answer(e, "?")
        ELSE GetOpt!Answer(next, letter)
  BY <1>1, <1>3 DEF GetOpt!Long, Data, Moves
<1>5. meant \subseteq DOMAIN LongOptions /\ "?" \in Answers
  BY DEF Answers
<1> HIDE DEF e, value, bare, meant, next, arg, name, letter
<1>6. ASSUME NEW x, NEW r \in Answers, r # "end", Moves(d, x), x.nextchar = <<>>,
             x.optind >= 1, x.optind <= GetOpt!argc(d)
      PROVE  Within(GetOpt!Answer(x, r)) /\ GetOpt!Answer(x, r).result # "end"
  <2>1. /\ Moves(d, GetOpt!Answer(x, r)) /\ GetOpt!Answer(x, r).nextchar = x.nextchar
        /\ GetOpt!Answer(x, r).optind = x.optind /\ GetOpt!Answer(x, r).result = r
    BY <1>6 DEF Moves, Data, GetOpt!Answer
  <2>2. Within(GetOpt!Answer(x, r))
    BY <1>6, <2>1, MovesWithin
  <2> QED
    BY <1>6, <2>1, <2>2
<1>7. CASE \A n \in meant : meant # {n}
  BY <1>1, <1>3, <1>4, <1>5, <1>6, <1>7
<1>8. CASE ~(\A n \in meant : meant # {n})
  <2>1. letter \in Answers /\ letter # "end"
    <3>1. (CHOOSE n \in meant : TRUE) \in DOMAIN LongOptions
      BY <1>5, <1>8
    <3> QED
      BY <3>1, LongOptionsAreLetters DEF letter
  <2>2. CASE ~ShortOptions[letter]
    <3>1. GetOpt!Long(d) = GetOpt!Answer(e, IF bare THEN letter ELSE "?")
      BY <1>4, <1>8, <2>2
    <3> QED
      BY <1>1, <1>3, <1>5, <1>6, <2>1, <3>1
  <2>3. CASE ShortOptions[letter] /\ ~bare
    <3> DEFINE x == [e EXCEPT !.optarg = value]
    <3>1. GetOpt!Long(d) = GetOpt!Answer(x, letter)
      BY <1>4, <1>8, <2>3
    <3>2. Moves(d, x) /\ x.nextchar = <<>> /\ x.optind = d.optind + 1
      BY <1>2, <1>3 DEF Moves, Data
    <3> HIDE DEF x
    <3> QED
      BY <1>1, <1>6, <2>1, <3>1, <3>2
  <2>4. CASE ShortOptions[letter] /\ bare /\ e.optind = GetOpt!argc(e)
    <3>1. GetOpt!Long(d) = GetOpt!Answer(e, "?")
      BY <1>4, <1>8, <2>4
    <3> QED
      BY <1>1, <1>3, <1>5, <1>6, <3>1
  <2>5. CASE ShortOptions[letter] /\ bare /\ e.optind # GetOpt!argc(e)
    <3>1. GetOpt!Long(d) = GetOpt!Answer(next, letter)
      BY <1>4, <1>8, <2>5
    <3>2. e \in Data /\ e.optind \in Nat /\ e.optind < GetOpt!argc(e)
      BY <1>1, <1>3, <2>5 DEF Moves
    <3>3. e.argv[e.optind] \in Texts
      BY <1>1, <1>3, <3>2, Count
    <3>4. Moves(d, next) /\ next.nextchar = <<>> /\ next.optind = e.optind + 1
      <4> DEFINE a == e.argv[e.optind]
      <4> HIDE DEF a
      <4>1. next = [e EXCEPT !.optarg = a, !.optind = e.optind + 1]
        BY DEF next, a
      <4>2. a \in Texts
        BY <3>3 DEF a
      <4> DEFINE o == e.optind + 1
      <4>3. o \in Nat
        BY <3>2
      <4> HIDE DEF o
      <4>4. /\ next \in Data /\ next.argv = e.argv /\ next.optind = o
            /\ next.first_nonopt = e.first_nonopt /\ next.last_nonopt = e.last_nonopt
            /\ next.nextchar = e.nextchar
        <5>1. next = [e EXCEPT !.optarg = a, !.optind = o]
          BY <4>1 DEF o
        <5> QED
          BY <3>2, <4>2, <4>3, <5>1 DEF Data
      <4> QED
        BY <1>3, <4>4 DEF Moves, o
    <3> QED
      BY <1>1, <1>3, <1>6, <2>1, <3>1, <3>2, <3>4
  <2> QED
    BY <2>2, <2>3, <2>4, <2>5
<1> QED
  BY <1>7, <1>8

LEMMA ShortKeeps ==
  ASSUME NEW d, Within(d), d.optind < GetOpt!argc(d), d.nextchar # <<>>
  PROVE  Within(GetOpt!Short(d)) /\ GetOpt!Short(d).result # "end"
<1> DEFINE letter == Head(d.nextchar)
           rest   == Tail(d.nextchar)
           next   == IF rest = <<>> THEN d.optind + 1 ELSE d.optind
           e      == [d EXCEPT !.nextchar = rest, !.optind = next]
           f      == [e EXCEPT !.nextchar = <<>>]
           behind == [f EXCEPT !.optarg = rest, !.optind = f.optind + 1]
           apart  == [f EXCEPT !.optarg = f.argv[f.optind], !.optind = f.optind + 1]
<1>1. /\ d \in Data /\ d.optind \in Nat /\ d.optind >= 1 /\ GetOpt!argc(d) \in Nat
      /\ d.argv \in Seq(Texts) /\ d.nextchar \in Texts
  BY Count DEF Within
<1>2. rest \in Texts /\ next \in Nat /\ next >= 1 /\ next <= GetOpt!argc(d)
      /\ (rest # <<>> => next = d.optind)
  <2>1. rest \in Texts
    BY <1>1, HeadTailProperties DEF Texts
  <2> HIDE DEF rest
  <2> QED
    BY <1>1, <2>1
<1> HIDE DEF rest, next, letter
<1>3. Moves(d, e) /\ e.nextchar = rest /\ e.optind = next
  BY <1>1, <1>2 DEF Moves, Data
<1>4. GetOpt!Short(d) =
        IF letter \notin DOMAIN ShortOptions THEN GetOpt!Answer(e, "?")
        ELSE IF ~ShortOptions[letter] THEN GetOpt!Answer(e, letter)
        ELSE IF rest # <<>> THEN GetOpt!Answer(behind, letter)
        ELSE IF f.optind = GetOpt!argc(f) THEN GetOpt!Answer(f, "?")
        ELSE GetOpt!Answer(apart, letter)
  BY Zenon DEF GetOpt!Short, letter, rest, next
<1> HIDE DEF e
<1>5. Moves(d, f) /\ f.nextchar = <<>> /\ f.optind = next
  <2> DEFINE nothing == <<>>
  <2>1. nothing \in Texts
    BY DEF Texts
  <2> HIDE DEF nothing
  <2>2. Moves(d, [e EXCEPT !.nextchar = nothing])
    BY <1>3, <2>1 DEF Moves, Data
  <2> USE DEF nothing
  <2> QED
    BY <1>3, <2>2 DEF Moves, Data
<1> HIDE DEF f
<1>6. ASSUME NEW x, NEW r \in Answers, r # "end", Moves(d, x),
             x.optind >= 1, x.optind <= GetOpt!argc(d),
             x.nextchar # <<>> => x.optind < GetOpt!argc(d)
      PROVE  Within(GetOpt!Answer(x, r)) /\ GetOpt!Answer(x, r).result # "end"
  <2>1. /\ Moves(d, GetOpt!Answer(x, r)) /\ GetOpt!Answer(x, r).nextchar = x.nextchar
        /\ GetOpt!Answer(x, r).optind = x.optind /\ GetOpt!Answer(x, r).result = r
    BY <1>6 DEF Moves, Data, GetOpt!Answer
  <2>2. Within(GetOpt!Answer(x, r))
    BY <1>6, <2>1, MovesWithin
  <2> QED
    BY <1>6, <2>1, <2>2
<1>7. /\ "?" \in Answers /\ "?" # "end"
      /\ letter \in DOMAIN ShortOptions => letter \in Answers /\ letter # "end"
  BY DEF ShortOptions, Answers
<1>8. e.nextchar # <<>> => e.optind < GetOpt!argc(d)
  BY <1>2, <1>3
<1>9. CASE letter \notin DOMAIN ShortOptions
  BY <1>2, <1>3, <1>4, <1>6, <1>7, <1>8, <1>9
<1>10. CASE letter \in DOMAIN ShortOptions /\ ~ShortOptions[letter]
  BY <1>2, <1>3, <1>4, <1>6, <1>7, <1>8, <1>10
<1>11. CASE letter \in DOMAIN ShortOptions /\ ShortOptions[letter] /\ rest # <<>>
  <2> DEFINE o == f.optind + 1
  <2>1. o \in Nat /\ f \in Data /\ f.optind = d.optind
    BY <1>1, <1>2, <1>5, <1>11 DEF Moves
  <2> HIDE DEF o
  <2>2. behind = [f EXCEPT !.optarg = rest, !.optind = o]
    BY DEF o
  <2> HIDE DEF behind
  <2>3. Moves(d, behind) /\ behind.nextchar = <<>> /\ behind.optind = o
    BY <1>2, <1>5, <2>1, <2>2 DEF Moves, Data
  <2>4. o >= 1 /\ o <= GetOpt!argc(d)
    BY <1>1, <2>1 DEF o
  <2>5. GetOpt!Short(d) = GetOpt!Answer(behind, letter)
    BY <1>4, <1>11
  <2> QED
    BY <1>6, <1>7, <1>11, <2>3, <2>4, <2>5
<1>12. CASE letter \in DOMAIN ShortOptions /\ ShortOptions[letter] /\ rest = <<>>
            /\ f.optind = GetOpt!argc(f)
  <2>1. GetOpt!Short(d) = GetOpt!Answer(f, "?")
    BY <1>4, <1>12
  <2> QED
    BY <1>2, <1>5, <1>6, <1>7, <2>1
<1>13. CASE letter \in DOMAIN ShortOptions /\ ShortOptions[letter] /\ rest = <<>>
            /\ f.optind # GetOpt!argc(f)
  <2> DEFINE o == f.optind + 1
             a == f.argv[f.optind]
  <2>1. /\ f \in Data /\ f.optind = next /\ f.argv = d.argv /\ GetOpt!argc(f) = GetOpt!argc(d)
    BY <1>5 DEF Moves, GetOpt!argc
  <2>2. f.optind < GetOpt!argc(f)
    BY <1>1, <1>2, <1>13, <2>1
  <2>3. a \in Texts /\ o \in Nat /\ o >= 1 /\ o <= GetOpt!argc(d)
    BY <1>1, <1>2, <2>1, <2>2, Count
  <2>4. GetOpt!Short(d) = GetOpt!Answer(apart, letter)
    BY <1>4, <1>13
  <2>5. apart = [f EXCEPT !.optarg = a, !.optind = o]
    OBVIOUS
  <2> HIDE DEF a, o, apart
  <2>6. Moves(d, apart) /\ apart.nextchar = <<>> /\ apart.optind = o
    BY <1>5, <2>1, <2>3, <2>5 DEF Moves, Data
  <2> QED
    BY <1>6, <1>7, <1>13, <2>3, <2>4, <2>6
<1> QED
  BY <1>9, <1>10, <1>11, <1>12, <1>13

LEMMA ElementKeeps ==
  ASSUME NEW d, Within(d), d.optind < GetOpt!argc(d),
         d.nextchar = <<>> => ~GetOpt!NonOption(d.argv[d.optind])
  PROVE  Within(GetOpt!Element(d)) /\ GetOpt!Element(d).result # "end"
<1>1. CASE d.argv[d.optind][2] = "-"
  BY <1>1, LongKeeps DEF GetOpt!Element
<1>2. CASE d.argv[d.optind][2] # "-" /\ d.nextchar # <<>>
  BY <1>2, ShortKeeps DEF GetOpt!Element
<1>3. CASE d.argv[d.optind][2] # "-" /\ d.nextchar = <<>>
  <2> DEFINE arg == d.argv[d.optind]
             rest == Tail(arg)
             e == [d EXCEPT !.nextchar = rest]
  <2>1. /\ d \in Data /\ d.optind \in Nat /\ d.optind >= 1 /\ GetOpt!argc(d) \in Nat
        /\ arg \in Texts
    BY Count DEF Within
  <2>2. Len(arg) \in Nat /\ ~(Len(arg) < 2)
    BY <1>3, <2>1, LenProperties DEF GetOpt!NonOption, Texts
  <2> HIDE DEF arg
  <2>3. rest \in Texts /\ Len(rest) = Len(arg) - 1 /\ rest # <<>>
    <3>1. arg # <<>>
      BY <2>2
    <3>2. rest \in Texts /\ Len(rest) = Len(arg) - 1
      BY <2>1, <3>1, HeadTailProperties DEF Texts
    <3> HIDE DEF rest
    <3>3. Len(rest) # 0
      BY <2>2, <3>2
    <3> QED
      BY <3>2, <3>3
  <2> HIDE DEF rest
  <2>4. Moves(d, e) /\ e.nextchar = rest /\ e.optind = d.optind
    BY <2>1, <2>3 DEF Moves, Data
  <2>5. GetOpt!Element(d) = GetOpt!Short(e)
    BY <1>3 DEF GetOpt!Element, rest, arg
  <2> HIDE DEF e
  <2>6. Within(e) /\ GetOpt!argc(e) = GetOpt!argc(d)
    BY <2>1, <2>4, MovesWithin DEF Moves, GetOpt!argc
  <2> QED
    BY <2>3, <2>4, <2>5, <2>6, ShortKeeps
<1> QED
  BY <1>1, <1>2, <1>3

LEMMA FindKeeps ==
  ASSUME NEW d, Ordered(d)
  PROVE  /\ Within(GetOpt!Find(d))
         /\ GetOpt!Find(d).result = "end" => GetOpt!Find(d).nextchar = <<>>
<1>1. /\ d \in Data /\ d.first_nonopt >= 1 /\ d.first_nonopt <= d.last_nonopt
      /\ d.last_nonopt <= d.optind /\ d.optind <= GetOpt!argc(d) /\ d.nextchar = <<>>
      /\ d.optind \in Nat /\ d.first_nonopt \in Nat /\ d.last_nonopt \in Nat
      /\ GetOpt!argc(d) \in Nat
  BY Count DEF Ordered
<1>2. Within(d) /\ "end" \in Answers
  BY <1>1 DEF Within, Answers
<1>3. CASE d.optind = GetOpt!argc(d)
  <2> DEFINE o == IF d.first_nonopt # d.last_nonopt THEN d.first_nonopt ELSE d.optind
             e == [[d EXCEPT !.optind = o] EXCEPT !.result = "end"]
  <2>1. GetOpt!Find(d) = e
    BY <1>1, <1>3 DEF GetOpt!Find, GetOpt!Answer, Data
  <2>2. o \in Nat /\ o >= 1 /\ o <= GetOpt!argc(d)
    BY <1>1
  <2> HIDE DEF o
  <2>3. Moves(d, e) /\ e.optind = o /\ e.nextchar = <<>>
    BY <1>1, <1>2, <2>2 DEF Moves, Data
  <2> HIDE DEF e
  <2> QED
    BY <1>2, <2>1, <2>2, <2>3, MovesWithin
<1>4. CASE d.optind # GetOpt!argc(d) /\ GetOpt!NonOption(d.argv[d.optind])
  <2> DEFINE e == [d EXCEPT !.result = "end"]
  <2>1. GetOpt!Find(d) = e
    BY <1>4 DEF GetOpt!Find, GetOpt!Answer
  <2>2. Moves(d, e) /\ e.optind = d.optind /\ e.nextchar = <<>>
    BY <1>1, <1>2 DEF Moves, Data
  <2> HIDE DEF e
  <2> QED
    BY <1>1, <1>2, <2>1, <2>2, MovesWithin
<1>5. CASE d.optind # GetOpt!argc(d) /\ ~GetOpt!NonOption(d.argv[d.optind])
  <2>1. d.optind < GetOpt!argc(d)
    BY <1>1, <1>5
  <2>2. GetOpt!Find(d) = GetOpt!Element(d)
    BY <1>5 DEF GetOpt!Find
  <2> QED
    BY <1>2, <1>5, <2>1, <2>2, ElementKeeps
<1> QED
  BY <1>3, <1>4, <1>5

\* Whatever main has made of optind, a call stays within the arguments.
LEMMA GetOptLongKeeps ==
  ASSUME NEW data, Within(data)
  PROVE  /\ Within(GetOpt!GetOptLong(data))
         /\ GetOpt!GetOptLong(data).result = "end" => GetOpt!GetOptLong(data).nextchar = <<>>
<1> DEFINE d == [data EXCEPT !.optarg = <<>>]
<1>1. Moves(data, d) /\ d.optind = data.optind /\ d.nextchar = data.nextchar
  <2> DEFINE nothing == <<>>
  <2>1. nothing \in Texts /\ data \in Data
    BY DEF Texts, Within
  <2> HIDE DEF nothing
  <2>2. Moves(data, [data EXCEPT !.optarg = nothing])
    BY <2>1 DEF Moves, Data
  <2> USE DEF nothing
  <2> QED
    BY <2>1, <2>2 DEF Moves, Data
<1> HIDE DEF d
<1>2. Within(d)
  BY <1>1, MovesWithin DEF Within
<1>3. CASE data.nextchar # <<>>
  <2>1. GetOpt!GetOptLong(data) = GetOpt!Element(d)
    BY <1>3 DEF GetOpt!GetOptLong, d
  <2>2. d.optind < GetOpt!argc(d)
    BY <1>1, <1>2, <1>3 DEF Within
  <2> QED
    BY <1>1, <1>2, <1>3, <2>1, <2>2, ElementKeeps
<1>4. CASE data.nextchar = <<>>
  <2> DEFINE c == GetOpt!Clamp(d)
             p == GetOpt!Permute(c)
             s == GetOpt!SkipDashes(p)
  <2>1. {GetOpt!Permute(x) : x \in {c}} = {p}
    OBVIOUS
  <2>2. {GetOpt!SkipDashes(x) : x \in {p}} = {s}
    OBVIOUS
  <2>3. {GetOpt!Find(x) : x \in {s}} = {GetOpt!Find(s)}
    OBVIOUS
  <2>4. GetOpt!GetOptLong(data)
          = GetOpt!The({GetOpt!Find(e) : e \in {GetOpt!SkipDashes(x) :
                          x \in {GetOpt!Permute(y) : y \in {c}}}})
    BY <1>4 DEF GetOpt!GetOptLong, d
  <2>5. Ordered(c)
    BY <1>1, <1>2, <1>4, ClampKeeps
  <2> HIDE DEF c
  <2>6. Ordered(p)
    BY <2>5, PermuteKeeps
  <2> HIDE DEF p
  <2>7. Ordered(s)
    BY <2>6, SkipDashesKeeps
  <2> HIDE DEF s
  <2>8. GetOpt!GetOptLong(data) = GetOpt!Find(s)
    BY <2>1, <2>2, <2>3, <2>4, TheOne
  <2> QED
    BY <2>7, <2>8, FindKeeps
<1> QED
  BY <1>3, <1>4

-----------------------------------------------------------------------------
(* The address of -m.                                                      *)

\* Among the ways the regular expression can match there is a longest one.
LEMMA LongestWay ==
  ASSUME NEW text \in Texts, Ways(text) # {}
  PROVE  \E w \in Ways(text) : \A x \in Ways(text) : Longer(w, x)
<1> DEFINE L == Len(text)
           W == Ways(text)
<1>1. L \in Nat
  BY LenProperties DEF Texts
<1>2. W \subseteq (1..L) \X (0..L) \X (1..L)
  BY DEF Ways
<1> HIDE DEF L, W
<1> DEFINE A == {w[1] : w \in W}
<1>3. PICK a \in A : \A y \in A : y <= a
  <2>1. A \subseteq 0..L
    BY <1>1, <1>2
  <2>2. A # {}
    <3>1. PICK w \in W : TRUE
      BY DEF W
    <3>2. w[1] \in A
      OBVIOUS
    <3> QED
      BY <3>2
  <2> HIDE DEF A
  <2> QED
    BY <1>1, <2>1, <2>2, GreatestElement
<1> DEFINE B == {w[2] : w \in {v \in W : v[1] = a}}
<1>4. PICK b \in B : \A y \in B : y <= b
  <2>1. B \subseteq 0..L
    BY <1>1, <1>2
  <2>2. B # {}
    <3>1. PICK w \in W : w[1] = a
      OBVIOUS
    <3>2. w[2] \in B
      BY <3>1
    <3> QED
      BY <3>2
  <2> HIDE DEF B
  <2> QED
    BY <1>1, <2>1, <2>2, GreatestElement
<1> DEFINE C == {w[3] : w \in {v \in W : v[1] = a /\ v[2] = b}}
<1>5. PICK c \in C : \A y \in C : y <= c
  <2>1. C \subseteq 0..L
    BY <1>1, <1>2
  <2>2. C # {}
    <3>1. PICK w \in W : w[1] = a /\ w[2] = b
      OBVIOUS
    <3>2. w[3] \in C
      BY <3>1
    <3> QED
      BY <3>2
  <2> HIDE DEF C
  <2> QED
    BY <1>1, <2>1, <2>2, GreatestElement
<1>6. PICK w \in W : w[1] = a /\ w[2] = b /\ w[3] = c
  OBVIOUS
<1>7. ASSUME NEW x \in W
      PROVE  Longer(w, x)
  <2>1. /\ x[1] \in Nat /\ x[2] \in Nat /\ x[3] \in Nat
        /\ w[1] \in Nat /\ w[2] \in Nat /\ w[3] \in Nat
    BY <1>1, <1>2
  <2>2. x[1] <= a
    BY <1>3
  <2>3. x[1] = a => x[2] <= b
    BY <1>4
  <2>4. x[1] = a /\ x[2] = b => x[3] <= c
    BY <1>5
  <2> HIDE DEF A, B, C
  <2> QED
    BY <1>6, <2>1, <2>2, <2>3, <2>4 DEF Longer
<1> QED
  BY <1>6, <1>7 DEF W

\* What the expression takes for the port are digits.
LEMMA PortIsOfDigits ==
  ASSUME NEW text \in Texts, Ways(text) # {}
  PROVE  /\ Match(text).port \in Texts
         /\ \A i \in 1..Len(Match(text).port) : Match(text).port[i] \in DOMAIN Digit
<1> DEFINE L == Len(text)
           w == CHOOSE v \in Ways(text) : \A x \in Ways(text) : Longer(v, x)
           m == w[1] + w[2] + 1 + w[3] + 1
           port == SubSeq(text, m, L)
           digits == SubSeq(text, m + 1, L)
<1>1. L \in Nat /\ \A i \in 1..L : text[i] \in STRING
  BY LenProperties, ElementOfSeq DEF Texts
<1>2. w \in Ways(text)
  BY LongestWay
<1> HIDE DEF w
<1>3. Match(text).port = SubSeq(text, w[1] + w[2] + 1 + w[3] + 2, L)
  BY DEF Match, w
<1>4. w[1] \in 1..L /\ w[2] \in 0..L /\ w[3] \in 1..L
  BY <1>2 DEF Ways
<1>5. /\ w[1] + w[2] + 1 + w[3] <= L
      /\ port # <<>> => \A i \in 2..Len(port) : port[i] \in DOMAIN Digit
  BY <1>2 DEF Ways
<1> HIDE DEF L
<1>6. w[1] + w[2] + 1 + w[3] + 2 = m + 1 /\ m \in Nat /\ m >= 1
  <2>1. w[1] \in Nat /\ w[2] \in Nat /\ w[3] \in Nat
    BY <1>1, <1>4
  <2> QED
    BY <2>1
<1> HIDE DEF m
<1>7. digits \in Texts /\ digits = Match(text).port
  <2>1. m + 1 \in Nat /\ m + 1 >= 1
    BY <1>6
  <2>2. digits \in Texts
    BY <2>1, RestOfText DEF L
  <2> QED
    BY <1>3, <1>6, <2>2
<1>8. CASE m >= L
  <2>1. m + 1 \in Int /\ L \in Int /\ L < m + 1
    BY <1>1, <1>6, <1>8
  <2>2. digits = <<>>
    BY <2>1, SubSeqEmpty
  <2> HIDE DEF digits
  <2>3. Len(digits) = 0
    BY <2>2
  <2>4. \A i \in 1..Len(digits) : FALSE
    BY <2>3
  <2> QED
    BY <1>7, <2>4
<1>9. CASE m < L
  <2>1. \A i \in m..L : text[i] \in STRING
    BY <1>1, <1>6
  <2>2. Len(port) = L - m + 1 /\ \A i \in 1..(L - m + 1) : port[i] = text[m + i - 1]
    BY <1>1, <1>6, <1>9, <2>1, SubSeqProperties
  <2>3. Len(digits) = L - m /\ \A i \in 1..(L - m) : digits[i] = text[m + i]
    <3>1. m + 1 <= L /\ \A i \in (m + 1)..L : text[i] \in STRING
      BY <1>1, <1>6, <1>9
    <3>2. /\ Len(digits) = L - (m + 1) + 1
          /\ \A i \in 1..(L - (m + 1) + 1) : digits[i] = text[m + 1 + i - 1]
      BY <1>1, <1>6, <3>1, SubSeqProperties
    <3> HIDE DEF digits
    <3> QED
      BY <1>1, <1>6, <3>2
  <2> HIDE DEF port, digits
  <2>4. port # <<>>
    BY <1>1, <1>6, <1>9, <2>2
  <2>5. ASSUME NEW i \in 1..Len(digits)
        PROVE  digits[i] \in DOMAIN Digit
    <3>1. i + 1 \in 2..Len(port) /\ m + (i + 1) - 1 = m + i /\ i + 1 \in 1..(L - m + 1)
      BY <1>1, <1>6, <1>9, <2>2, <2>3
    <3> QED
      BY <1>5, <2>2, <2>3, <2>4, <3>1
  <2> QED
    BY <1>7, <2>5
<1> QED
  BY <1>1, <1>6, <1>8, <1>9

\* The number digits stand for is one, of whatever size.
LEMMA NumberIsNumber ==
  ASSUME NEW digits \in Texts, \A i \in 1..Len(digits) : digits[i] \in DOMAIN Digit,
         NEW base \in {8, 10}
  PROVE  Number(digits, base) \in Nat
<1> DEFINE L == Len(digits)
           D(i) == Digit[digits[i]]
<1>1. L \in Nat /\ \A i \in 1..L : D(i) \in Nat
  BY LenProperties, DigitsAssumption DEF Texts
<1>1a. \A v \in Nat, k \in Nat : v * base + k \in Nat
  <2>1. CASE base = 8
    BY <2>1
  <2>2. CASE base = 10
    BY <2>2
  <2> QED
    BY <2>1, <2>2
<1> HIDE DEF L
<1> DEFINE Reads(n) == /\ \A i \in 1..n : D(i) < base
                       /\ n < L => D(n + 1) >= base
           read == CHOOSE n \in 0..L : Reads(n)
           Is(g) == g = [n \in 0..L |-> IF n = 0 THEN 0 ELSE g[n - 1] * base + D(n)]
           value == CHOOSE g : Is(g)
<1>2. Number(digits, base) = value[read]
  BY DEF Number, L
<1>3. read \in 0..L
  <2> DEFINE T == {n \in 0..L : n < L => D(n + 1) >= base}
  <2>1. T \subseteq Nat /\ L \in T
    BY <1>1
  <2>2. PICK n \in T : \A k \in T : n <= k
    <3> HIDE DEF T
    <3> QED
      BY <2>1, LeastElement
  <2>3. ASSUME NEW i \in 1..n
        PROVE  D(i) < base
    <3>1. i - 1 \in 0..L /\ ~(n <= i - 1) /\ i - 1 < L /\ i - 1 + 1 = i /\ i \in 1..L
      BY <1>1
    <3>2. i - 1 \notin T
      <4> HIDE DEF T
      <4> QED
        BY <2>2, <3>1
    <3>3. ~(D(i) >= base)
      BY <3>1, <3>2
    <3> QED
      BY <1>1, <3>1, <3>3
  <2>4. n \in 0..L /\ Reads(n)
    BY <2>3
  <2> HIDE DEF Reads
  <2> QED
    BY <2>4
<1> HIDE DEF read
<1> DEFINE f == [x \in Nat \X Nat |-> x[2] * base + (IF x[1] \in 1..L THEN D(x[1]) ELSE 0)]
<1>4. f \in [Nat \X Nat -> Nat]
  <2>1. ASSUME NEW x \in Nat \X Nat
        PROVE  x[2] * base + (IF x[1] \in 1..L THEN D(x[1]) ELSE 0) \in Nat
    <3>1. x[2] \in Nat /\ (IF x[1] \in 1..L THEN D(x[1]) ELSE 0) \in Nat
      BY <1>1
    <3> HIDE DEF D
    <3> QED
      BY <1>1a, <3>1
  <2> QED
    BY <2>1
<1>5. PICK g : Loop(Nat, 0, f, L, g)
  <2> HIDE DEF f
  <2> QED
    BY <1>1, <1>4, LoopExists
<1>6. Is(g)
  <2>1. g = [n \in 0..L |-> g[n]]
    BY <1>5 DEF Loop
  <2>2. g[0] = 0
    BY <1>5 DEF Loop
  <2>3. ASSUME NEW n \in 1..L
        PROVE  g[n] = g[n - 1] * base + D(n)
    <3>1. n - 1 \in 0..L /\ n \in Nat
      BY <1>1
    <3>2. g[n - 1] \in Nat
      BY <1>5, <3>1 DEF Loop
    <3>3. f[<<n, g[n - 1]>>] = g[n - 1] * base + D(n)
      BY <3>1, <3>2
    <3> HIDE DEF f
    <3> QED
      BY <1>5, <3>3 DEF Loop
  <2>4. \A n \in 0..L : (n = 0 \/ n \in 1..L) /\ (n \in 1..L => n # 0)
    BY <1>1
  <2>5. \A n \in 0..L : g[n] = IF n = 0 THEN 0 ELSE g[n - 1] * base + D(n)
    BY <2>2, <2>3, <2>4
  <2> QED
    BY <2>1, <2>5
<1>7. Is(value)
  <2> HIDE DEF Is
  <2> QED
    BY <1>6
<1> HIDE DEF value
<1> DEFINE Reach == {n \in Nat : n <= L => value[n] \in Nat}
<1>8. 0 \in Reach
  BY <1>1, <1>7
<1>9. ASSUME NEW n \in Nat, n \in Reach
      PROVE  n + 1 \in Reach
  <2> SUFFICES ASSUME n + 1 <= L
               PROVE  value[n + 1] \in Nat
    OBVIOUS
  <2>1. n + 1 \in 0..L /\ n + 1 # 0 /\ n + 1 - 1 = n /\ n <= L /\ n + 1 \in 1..L
    BY <1>1
  <2>2. value[n + 1] = value[n] * base + D(n + 1)
    BY <1>7, <2>1
  <2>3. value[n] \in Nat /\ D(n + 1) \in Nat
    BY <1>1, <1>9, <2>1
  <2> HIDE DEF D
  <2> QED
    BY <1>1a, <2>2, <2>3
<1>10. Nat \subseteq Reach
  <2> HIDE DEF Reach
  <2> QED
    BY <1>8, <1>9, SetInduction
<1>11. read \in Nat /\ read <= L
  BY <1>1, <1>3
<1> QED
  BY <1>2, <1>10, <1>11

LEMMA Remainder ==
  ASSUME NEW n \in Nat, NEW k \in Nat, k > 0
  PROVE  n % k \in 0..(k - 1)
OBVIOUS

\* A port has sixteen bits.
LEMMA PortIsPort ==
  ASSUME NEW text \in Texts, Ways(text) # {}
  PROVE  Port(Match(text).port) \in 0..(Ports - 1)
<1> DEFINE digits == Match(text).port
           base == IF Digit[digits[1]] = 0 THEN 8 ELSE 10
<1>1. base \in {8, 10}
  OBVIOUS
<1> HIDE DEF base
<1>2. Number(digits, base) \in Nat
  <2> HIDE DEF digits
  <2>1. digits \in Texts /\ \A i \in 1..Len(digits) : digits[i] \in DOMAIN Digit
    BY PortIsOfDigits DEF digits
  <2> QED
    BY <1>1, <2>1, NumberIsNumber
<1>2a. Long(digits) = IF Number(digits, base) > LongMax THEN LongMax ELSE Number(digits, base)
  BY DEF Long, base
<1>2b. Long(digits) \in Nat
  BY <1>2, <1>2a, LongAssumption
<1>3. Port(digits) = Long(digits) % Ports
  BY DEF Port
<1> HIDE DEF digits
<1>4. Ports \in Nat /\ Ports > 0
  BY DEF Ports
<1>5. Port(digits) \in 0..(Ports - 1)
  BY <1>2b, <1>3, <1>4, Remainder
<1> QED
  BY <1>5 DEF digits

-----------------------------------------------------------------------------
(* The invariant.                                                          *)

PcOK ==
  pc \in {"off", "options", "case", "ask", "typing", "device", "download", "open", "save",
          "write", "exit", "leave", "crashed"}

\* An answer that ends the options leaves no argument half read, so that main
\* may move optind.
DataOK ==
  /\ Within(getopt_data)
  /\ pc = "case" /\ getopt_data.result = "end" => getopt_data.nextchar = <<>>

OptionsOK ==
  /\ DOMAIN options = {"has_filepath", "filepath", "has_out_filepath", "out_filepath",
                       "has_credentials", "has_mikrotik", "mikrotik_user", "mikrotik_password",
                       "mikrotik_address", "mikrotik_port"}
  /\ options.has_filepath \in BOOLEAN /\ options.has_out_filepath \in BOOLEAN
  /\ options.has_mikrotik \in BOOLEAN
  /\ options.mikrotik_port \in 0..(Ports - 1)

Name == options.filepath
Out  == options.out_filepath

\* Only a run with -m uses the device, and then its file is Local; only one
\* with -o saves.
RunOK ==
  /\ pc \in {"device", "download"} => options.has_mikrotik
  /\ pc \in {"download", "open", "save", "write", "exit"} /\ options.has_mikrotik => Name = Local
  /\ pc \in {"save", "write"} => options.has_out_filepath
  /\ starts \in Nat

\* takePassword goes back to an echo, unless a run was killed in it before.
TerminalOK ==
  /\ hushed \in BOOLEAN
  /\ mode \in {"on", "off"} /\ echo \in {"on", "off"}
  /\ pc = "typing" => mode = IF hushed THEN "off" ELSE "on"
  /\ echo = "off" <=> pc = "typing" \/ hushed

\* A document takes the place of what was in its file.
DocumentsOK == \A name \in DOMAIN documents : Content(name) = Device!File(<<>>)

PhaseOK ==
  /\ phase \in {"idle", "making", "copying", "removing", "answering", "ending"}
  /\ phase # "idle" => pc = "download"

\* What a run in which nothing has failed has fetched.
FetchOK ==
  /\ flawless \in BOOLEAN
  /\ phase \in {"making", "copying", "removing", "answering"} => returned = "none"
  /\ phase = "copying" => remote.there
  /\ phase = "copying" /\ flawless => Device!OfThisRun(remote)
  /\ phase \in {"removing", "answering"} /\ flawless =>
       Device!OfThisRun(local) /\ (remote.there => local = remote)
  /\ phase = "answering" /\ flawless => ~remote.there
  /\ returned = "true" /\ flawless => Device!OfThisRun(local) /\ ~remote.there

\* What SQLite has open: the file that is named, or the whole copy of a
\* compressed one.
SourceIsNamed ==
  IF IsCompressed(Name)
  THEN /\ source = Copy(Name) /\ source \notin DOMAIN documents
       /\ Content(source) = Content(Name)
  ELSE source = Name

\* What a run in which nothing has failed has written.
Written ==
  LET document == documents[Out] IN
  /\ Out \in DOMAIN documents
  /\ document.whole
  /\ document.credentials = options.has_credentials
  /\ Out \notin {Name, Copy(Name)} =>
       document.rows = IF Name \in DOMAIN documents THEN <<>> ELSE Content(Name).blocks

SavedOK ==
  flawless =>
    /\ pc = "save" => SourceIsNamed
    /\ pc = "write" => Out \in DOMAIN documents
    /\ pc = "write" /\ Out \notin {Name, Copy(Name)} => SourceIsNamed
    /\ pc = "exit" /\ options.has_out_filepath /\ options.has_filepath
         /\ (options.has_mikrotik => returned = "true") => Written

\* The inductive invariant.
IInv ==
  /\ PcOK /\ DataOK /\ OptionsOK /\ RunOK /\ TerminalOK
  /\ DocumentsOK /\ PhaseOK /\ FetchOK /\ SavedOK

LEMMA NewDataWithin ==
  ASSUME NEW line \in Seq(Texts), NEW ordering \in {"PERMUTE", "REQUIRE_ORDER"}
  PROVE  Within(GetOpt!NewData(line, ordering))
<1> DEFINE d == GetOpt!NewData(line, ordering)
<1>1. <<>> \in Texts /\ "none" \in Answers /\ Len(line) \in Nat
  BY LenProperties DEF Texts, Answers
<1>2. d \in Data
  BY <1>1 DEF GetOpt!NewData, Data
<1>3. /\ d.first_nonopt = 1 /\ d.last_nonopt = 1 /\ d.optind = 1 /\ d.nextchar = <<>>
      /\ d.argv = line
  BY DEF GetOpt!NewData
<1> HIDE DEF d
<1>4. GetOpt!argc(d) = Len(line) + 1
  BY <1>3 DEF GetOpt!argc
<1>5. 1 \in 1..GetOpt!argc(d) /\ 1 <= GetOpt!argc(d)
  BY <1>1, <1>4
<1>6. Within(d)
  BY <1>2, <1>3, <1>5 DEF Within
<1> QED
  BY <1>6 DEF d

LEMMA NoLineWithin == Within(GetOpt!NewData(<<>>, "PERMUTE"))
<1>1. <<>> \in Seq(Texts)
  OBVIOUS
<1>2. "PERMUTE" \in {"PERMUTE", "REQUIRE_ORDER"}
  OBVIOUS
<1> QED
  BY <1>1, <1>2, NewDataWithin

LEMMA LineIsLine ==
  ASSUME starts \in Nat, starts < Len(Lines), NEW line \in Lines[starts + 1]
  PROVE  line \in Seq(Texts)
<1>1. Len(Lines) \in Nat /\ \A i \in 1..Len(Lines) : Lines[i] \in SUBSET Seq(Seq(STRING))
  BY LinesAssumption, LenProperties, ElementOfSeq
<1>2. starts + 1 \in 1..Len(Lines)
  BY <1>1
<1> QED
  BY <1>1, <1>2 DEF Texts

LEMMA PcKept ==
  ASSUME PcOK, [Next]_vars
  PROVE  PcOK'
<1> USE DEF PcOK
<1>1. CASE Start
  BY <1>1 DEF Start
<1>2. CASE Scan
  BY <1>2 DEF Scan
<1>3. CASE TakeFile
  BY <1>3 DEF TakeFile, Set
<1>4. CASE TakeOut
  BY <1>4 DEF TakeOut, Set
<1>5. CASE TakeCredentials
  BY <1>5 DEF TakeCredentials, Set
<1>6. CASE PassOver
  BY <1>6 DEF PassOver, Set
<1>7. CASE TakeName
  BY <1>7 DEF TakeName
<1>8. CASE TakeMikrotik
  BY <1>8 DEF TakeMikrotik
<1>9. CASE PrintAndLeave
  BY <1>9 DEF PrintAndLeave
<1>10. CASE EndOptions
  BY <1>10 DEF EndOptions
<1>11. CASE Ask
  BY <1>11 DEF Ask
<1>12. CASE ConnectDevice
  BY <1>12 DEF ConnectDevice
<1>13. CASE EndDevice
  BY <1>13 DEF EndDevice
<1>14. CASE OpenDatabase
  BY <1>14 DEF OpenDatabase, Opened
<1>15. CASE CreateOut
  BY <1>15 DEF CreateOut
<1>16. CASE WriteDocument
  BY <1>16 DEF WriteDocument
<1>17. CASE Exit
  BY <1>17 DEF Exit, Forget
<1>18. CASE TypePassword
  BY <1>18 DEF TypePassword
<1>19. CASE UseDevice
  BY <1>19 DEF UseDevice
<1>20. CASE Kill
  BY <1>20 DEF Kill, Forget
<1>21. CASE UNCHANGED vars
  BY <1>21 DEF vars
<1> QED
  BY <1>1, <1>2, <1>3, <1>4, <1>5, <1>6, <1>7, <1>8, <1>9, <1>10, <1>11, <1>12, <1>13, <1>14,
     <1>15, <1>16, <1>17, <1>18, <1>19, <1>20, <1>21
  DEF Next, Main, Query

LEMMA DataKept ==
  ASSUME IInv, [Next]_vars
  PROVE  DataOK'
<1> USE DEF IInv, DataOK
<1>1. CASE Start
  <2>1. PICK line \in Lines[starts + 1], ordering \in {"PERMUTE", "REQUIRE_ORDER"} :
          getopt_data' = GetOpt!NewData(line, ordering)
    BY <1>1 DEF Start
  <2>2. line \in Seq(Texts)
    BY <1>1, LineIsLine DEF Start, RunOK
  <2>3. Within(getopt_data)'
    BY <2>1, <2>2, NewDataWithin DEF Within
  <2> QED
    BY <1>1, <2>3 DEF Start
<1>2. CASE Scan
  <2>1. getopt_data' = GetOpt!GetOptLong(getopt_data)
    BY <1>2 DEF Scan
  <2> QED
    BY <2>1, GetOptLongKeeps
<1>3. CASE TakeName
  <2>1. CASE getopt_data.optind < GetOpt!argc(getopt_data)
    <3> DEFINE d == getopt_data
               o == d.optind + 1
    <3>1. d \in Data /\ d.optind \in Nat /\ d.optind >= 1 /\ GetOpt!argc(d) \in Nat /\ d.nextchar = <<>>
      BY <1>3, Count DEF Within, TakeName, Case
    <3>2. getopt_data' = [d EXCEPT !.optind = o]
      BY <1>3, <2>1 DEF TakeName
    <3>3. o \in Nat /\ o >= 1 /\ o <= GetOpt!argc(d)
      BY <2>1, <3>1
    <3>4. Within(d)
      OBVIOUS
    <3>5. pc' = "options"
      BY <1>3, <2>1 DEF TakeName
    <3> HIDE DEF o, d
    <3>6. /\ Moves(d, [d EXCEPT !.optind = o]) /\ [d EXCEPT !.optind = o].optind = o
          /\ [d EXCEPT !.optind = o].nextchar = <<>>
      BY <3>1, <3>3 DEF Moves, Data
    <3>7. Within([d EXCEPT !.optind = o])
      BY <3>3, <3>4, <3>6, MovesWithin
    <3> QED
      BY <3>2, <3>5, <3>7
  <2>2. CASE ~(getopt_data.optind < GetOpt!argc(getopt_data))
    BY <1>3, <2>2 DEF TakeName
  <2> QED
    BY <2>1, <2>2
<1>4. CASE Forget
  BY <1>4, NoLineWithin DEF Forget
<1>5. CASE UNCHANGED getopt_data /\ pc' # "case"
  BY <1>5
<1>6. CASE UNCHANGED vars
  BY <1>6 DEF vars
<1> QED
  BY <1>1, <1>2, <1>3, <1>4, <1>5, <1>6
  DEF Next, Main, Query, TakeFile, TakeOut, TakeCredentials, PassOver, TakeMikrotik, PrintAndLeave,
      EndOptions, Ask, ConnectDevice, EndDevice, OpenDatabase, Opened, CreateOut, WriteDocument,
      Exit, TypePassword, UseDevice, Kill, Set

-----------------------------------------------------------------------------
(* The invariant is kept, part by part.                                    *)

LEMMA NoOptionsOK ==
  /\ DOMAIN NoOptions = {"has_filepath", "filepath", "has_out_filepath", "out_filepath",
                         "has_credentials", "has_mikrotik", "mikrotik_user",
                         "mikrotik_password", "mikrotik_address", "mikrotik_port"}
  /\ NoOptions.has_filepath = FALSE /\ NoOptions.has_out_filepath = FALSE
  /\ NoOptions.has_mikrotik = FALSE
  /\ NoOptions.mikrotik_port \in 0..(Ports - 1)
BY DEF NoOptions, Ports

LEMMA OptionsKept ==
  ASSUME IInv, [Next]_vars
  PROVE  OptionsOK'
<1> USE DEF IInv, OptionsOK
<1>1. CASE TakeFile
  BY <1>1 DEF TakeFile, Set
<1>2. CASE TakeOut
  BY <1>2 DEF TakeOut, Set
<1>3. CASE TakeCredentials
  BY <1>3 DEF TakeCredentials, Set
<1>4. CASE TakeName
  <2>1. CASE options' = options
    BY <2>1
  <2>2. CASE options' = [options EXCEPT !.has_filepath = TRUE,
                                        !.filepath = getopt_data.argv[getopt_data.optind]]
    BY <2>2
  <2> QED
    BY <1>4, <2>1, <2>2 DEF TakeName
<1>5. CASE TakeMikrotik
  <2> DEFINE text == getopt_data.optarg
             match == Match(text)
  <2>1. CASE Ways(text) = {}
    BY <1>5, <2>1 DEF TakeMikrotik
  <2>2. CASE Ways(text) # {}
    <3>1. text \in Texts
      BY DEF DataOK, Within, Data
    <3>2. Port(match.port) \in 0..(Ports - 1)
      BY <2>2, <3>1, PortIsPort
    <3>3. options' = WithMikrotik(match)
      BY <1>5, <2>2 DEF TakeMikrotik
    <3> HIDE DEF match
    <3> QED
      BY <3>2, <3>3 DEF WithMikrotik
  <2> QED
    BY <2>1, <2>2
<1>6. CASE TypePassword
  BY <1>6 DEF TypePassword
<1>7. CASE ConnectDevice
  BY <1>7 DEF ConnectDevice
<1>8. CASE options' = NoOptions
  BY <1>8, NoOptionsOK
<1>9. CASE UNCHANGED options
  BY <1>9
<1> QED
  BY <1>1, <1>2, <1>3, <1>4, <1>5, <1>6, <1>7, <1>8, <1>9
  DEF Next, Main, Query, Start, Scan, PassOver, PrintAndLeave, EndOptions, Ask, EndDevice,
      OpenDatabase, Opened, CreateOut, WriteDocument, Exit, UseDevice, Kill, Set, Forget, vars

LEMMA RunKept ==
  ASSUME IInv, [Next]_vars
  PROVE  RunOK'
<1> USE DEF IInv, RunOK, Name
<1>1. CASE Start
  <2>1. starts' = starts + 1 /\ pc' = "options"
    BY <1>1 DEF Start
  <2> QED
    BY <2>1
<1>2. CASE EndOptions
  BY <1>2 DEF EndOptions, auxVars
<1>3. CASE ConnectDevice
  BY <1>3 DEF ConnectDevice, OptionsOK, auxVars
<1>4. CASE UseDevice
  BY <1>4 DEF UseDevice, auxVars
<1>5. CASE OpenDatabase
  BY <1>5 DEF OpenDatabase, Opened, auxVars
<1>6. CASE CreateOut
  BY <1>6 DEF CreateOut, auxVars
<1>9. CASE EndDevice
  BY <1>9 DEF EndDevice, auxVars
<1>10. CASE WriteDocument
  BY <1>10 DEF WriteDocument, auxVars
<1>7. CASE pc' \notin {"device", "download", "open", "save", "write", "exit"}
            /\ UNCHANGED starts
  BY <1>7
<1>8. CASE UNCHANGED vars
  BY <1>8 DEF vars, auxVars
<1> QED
  BY <1>1, <1>2, <1>3, <1>4, <1>5, <1>6, <1>7, <1>8, <1>9, <1>10
  DEF Next, Main, Query, Scan, TakeFile, TakeOut, TakeCredentials, PassOver, TakeName, TakeMikrotik,
      PrintAndLeave, Ask, Exit, TypePassword, Kill, Set, Forget, auxVars

LEMMA TerminalKept ==
  ASSUME IInv, [Next]_vars
  PROVE  TerminalOK'
<1> USE DEF IInv, TerminalOK
<1>1. CASE Start
  BY <1>1 DEF Start
<1>2. CASE Ask
  BY <1>2 DEF Ask, auxVars
<1>3. CASE TypePassword
  BY <1>3 DEF TypePassword, auxVars
<1>4. CASE Kill
  BY <1>4 DEF Kill, Forget
<1>5. CASE Exit
  BY <1>5 DEF Exit, Forget
<1>6. CASE pc # "typing" /\ pc' # "typing" /\ UNCHANGED <<mode, echo, hushed>>
  BY <1>6
<1>7. CASE UNCHANGED vars
  BY <1>7 DEF vars, auxVars
<1> QED
  BY <1>1, <1>2, <1>3, <1>4, <1>5, <1>6, <1>7
  DEF Next, Main, Query, Scan, TakeFile, TakeOut, TakeCredentials, PassOver, TakeName, TakeMikrotik,
      PrintAndLeave, EndOptions, ConnectDevice, EndDevice, OpenDatabase, Opened, CreateOut,
      WriteDocument, UseDevice, Set, Case, auxVars

\* What is unpacked is not what it is unpacked into, which is not Local and
\* not taken for compressed itself.
LEMMA CopyOfCompressed ==
  ASSUME NEW name, IsCompressed(name)
  PROVE  Copy(name) # name /\ Copy(name) # Local /\ ~IsCompressed(Copy(name))
BY PackedAssumption DEF IsCompressed, Copy

LEMMA ReplaceDoes ==
  ASSUME NEW name, NEW content, Replace(name, content)
  PROVE  /\ Content(name)' = content
         /\ \A n : n # name => Content(n)' = Content(n)
         /\ DOMAIN documents' = DOMAIN documents \ {name}
         /\ \A n \in DOMAIN documents' : documents'[n] = documents[n]
         /\ name # Local => local' = local
<1>1. /\ DOMAIN documents' = DOMAIN documents \ {name}
      /\ \A n \in DOMAIN documents' : documents'[n] = documents[n]
  BY DEF Replace
<1>2. CASE name = Local
  BY <1>1, <1>2 DEF Replace, Content
<1>3. CASE name # Local
  <2>1. local' = local /\ files' = Put(files, name, content)
    BY <1>3 DEF Replace
  <2>2. /\ DOMAIN files' = DOMAIN files \cup {name} /\ files'[name] = content
        /\ \A n \in DOMAIN files : n # name => files'[n] = files[n]
    BY <2>1 DEF Put
  <2> QED
    BY <1>1, <1>3, <2>1, <2>2 DEF Content
<1> QED
  BY <1>2, <1>3

LEMMA OpenDatabaseDoes ==
  ASSUME OpenDatabase
  PROVE  /\ pc = "open" /\ pc' \in {"save", "exit"}
         /\ pc' = "save" <=> options.has_out_filepath
         /\ UNCHANGED <<options, remote, runs, returned, phase, starts, expected>>
         /\ \/ /\ UNCHANGED <<local, diskVars>> /\ source' = Name
               /\ \/ flawless' = FALSE
                  \/ flawless' = flawless /\ ~IsCompressed(Name)
            \/ /\ IsCompressed(Name) /\ Replace(Copy(Name), Content(Name))
               /\ source' = Copy(Name) /\ flawless' = flawless
            \/ /\ IsCompressed(Name) /\ flawless' = FALSE
               /\ \E n \in 0..Len(Content(Name).blocks) :
                    Replace(Copy(Name), Device!File(SubSeq(Content(Name).blocks, 1, n)))
BY DEF OpenDatabase, Opened, auxVars, Name

LEMMA CreateOutDoes ==
  ASSUME CreateOut
  PROVE  /\ pc = "save"
         /\ UNCHANGED <<options, source, remote, runs, returned, phase, starts, expected>>
         /\ \/ /\ pc' = "write" /\ flawless' = flawless
               /\ \A n : n = Out => Content(n)' = Device!File(<<>>)
               /\ \A n : n # Out => Content(n)' = Content(n)
               /\ DOMAIN documents' = DOMAIN documents \cup {Out}
               /\ \A n \in DOMAIN documents : n # Out => documents'[n] = documents[n]
               /\ local' = IF Out = Local THEN Device!File(<<>>) ELSE local
            \/ pc' = "exit" /\ flawless' = FALSE /\ UNCHANGED <<local, diskVars>>
<1>1. /\ pc = "save"
      /\ UNCHANGED <<options, source, remote, runs, returned, phase, starts, expected>>
  BY DEF CreateOut, auxVars
<1>2. CASE pc' = "exit" /\ flawless' = FALSE /\ UNCHANGED <<local, diskVars>>
  BY <1>1, <1>2
<1>3. CASE ~ (pc' = "exit" /\ flawless' = FALSE /\ UNCHANGED <<local, diskVars>>)
  <2> DEFINE empty == Device!File(<<>>)
             begun == [whole |-> FALSE]
  <2>1. /\ IF Out = Local THEN local' = empty /\ files' = files
           ELSE files' = Put(files, Out, empty) /\ local' = local
        /\ documents' = Put(documents, Out, begun)
        /\ flawless' = flawless /\ pc' = "write"
    BY <1>3 DEF CreateOut, Out
  <2> HIDE DEF empty, begun
  <2>2. /\ DOMAIN documents' = DOMAIN documents \cup {Out}
        /\ \A n \in DOMAIN documents : n # Out => documents'[n] = documents[n]
    BY <2>1 DEF Put
  <2>3. CASE Out = Local
    BY <1>1, <2>1, <2>2, <2>3 DEF Content, empty
  <2>4. CASE Out # Local
    <3>1. /\ DOMAIN files' = DOMAIN files \cup {Out} /\ files'[Out] = empty
          /\ \A n \in DOMAIN files : n # Out => files'[n] = files[n]
      BY <2>1, <2>4 DEF Put
    <3> QED
      BY <1>1, <2>1, <2>2, <2>4, <3>1 DEF Content, empty
  <2> QED
    BY <2>3, <2>4
<1> QED
  BY <1>2, <1>3

LEMMA DocumentsKept ==
  ASSUME IInv, [Next]_vars
  PROVE  DocumentsOK'
<1> USE DEF IInv, DocumentsOK
<1>1. CASE OpenDatabase
  <2>1. ASSUME NEW content, Replace(Copy(Name), content)
        PROVE  DocumentsOK'
    BY <2>1, ReplaceDoes
  <2>2. CASE UNCHANGED <<local, diskVars>>
    BY <2>2 DEF diskVars, Content
  <2> QED
    BY <1>1, <2>1, <2>2, OpenDatabaseDoes, Zenon
<1>2. CASE CreateOut
  <2>1. CASE UNCHANGED <<local, diskVars>>
    BY <2>1 DEF diskVars, Content
  <2>2. CASE /\ \A n : n = Out => Content(n)' = Device!File(<<>>)
             /\ \A n : n # Out => Content(n)' = Content(n)
             /\ DOMAIN documents' = DOMAIN documents \cup {Out}
    BY <2>2
  <2> QED
    BY <1>2, <2>1, <2>2, CreateOutDoes
<1>3. CASE WriteDocument
  <2>1. DOMAIN documents' = DOMAIN documents /\ local' = local /\ files' = files
    BY <1>3 DEF WriteDocument
  <2> QED
    BY <2>1 DEF Content
<1>4. CASE UseDevice
  <2>1. /\ DOMAIN documents' = {n \in DOMAIN documents : n = Local => local' = local}
        /\ files' = files
    BY <1>4 DEF UseDevice
  <2> QED
    BY <2>1 DEF Content
<1>5. CASE UNCHANGED <<local, files, documents>>
  BY <1>5 DEF Content
<1> QED
  BY <1>1, <1>2, <1>3, <1>4, <1>5
  DEF Next, Main, Query, Start, Scan, TakeFile, TakeOut, TakeCredentials, PassOver, TakeName,
      TakeMikrotik, PrintAndLeave, EndOptions, Ask, ConnectDevice, EndDevice, Exit,
      TypePassword, Kill, Set, Forget, Device!Begin, vars, deviceVars, diskVars

\* A step in which nothing or something fails.
LEMMA StillFlawless ==
  ASSUME flawless \in BOOLEAN, flawless' = flawless \/ flawless' = FALSE
  PROVE  flawless' \in BOOLEAN /\ (flawless' => flawless)
<1>1. CASE flawless' = flawless
  BY <1>1
<1>2. CASE flawless' = FALSE
  BY <1>2
<1> QED
  BY <1>1, <1>2

\* What a step of the device leaves of what FetchOK says.
LEMMA WorkKeeps ==
  ASSUME PhaseOK, FetchOK, Device!Work
  PROVE  /\ phase' \in {"idle", "making", "copying", "removing", "answering", "ending"}
         /\ FetchOK'
<1>1. runs' = runs
  BY DEF Device!Work, Device!Make, Device!Confirm, Device!GiveUp, Device!Copy, Device!EndCopy,
         Device!Remove, Device!Answer, Device!End, Device!Fail, Device!Step
<1>0. flawless \in BOOLEAN /\ flawless' \in BOOLEAN /\ (flawless' => flawless)
  <2>1. flawless' = flawless \/ flawless' = FALSE
    BY DEF Device!Work, Device!Make, Device!Confirm, Device!GiveUp, Device!Copy, Device!EndCopy,
           Device!Remove, Device!Answer, Device!End, Device!Fail, Device!Step
  <2>2. flawless \in BOOLEAN
    BY DEF FetchOK
  <2> QED
    BY <2>1, <2>2, StillFlawless
<1>2. remote' = remote => (Device!OfThisRun(remote)' <=> Device!OfThisRun(remote))
  BY <1>1 DEF Device!OfThisRun
<1>3. local' = local => (Device!OfThisRun(local)' <=> Device!OfThisRun(local))
  BY <1>1 DEF Device!OfThisRun
<1>4. remote = local => (Device!OfThisRun(remote) <=> Device!OfThisRun(local))
  BY DEF Device!OfThisRun
<1> USE DEF FetchOK, PhaseOK, Device!Step
<1>5. CASE Device!Make
  BY <1>5 DEF Device!Make
<1>6. CASE Device!Confirm
  BY <1>0, <1>2, <1>6 DEF Device!Confirm
<1>7. CASE Device!GiveUp
  BY <1>7 DEF Device!GiveUp
<1>8. CASE Device!Copy
  BY <1>0, <1>2, <1>8 DEF Device!Copy
<1>9. CASE Device!EndCopy
  BY <1>0, <1>3, <1>4, <1>9 DEF Device!EndCopy
<1>10. CASE Device!Remove
  <2>1. /\ phase = "removing" /\ phase' \in {"removing", "answering"}
        /\ local' = local /\ returned' = returned
        /\ phase' = "answering" /\ flawless' => ~remote'.there
    BY <1>10 DEF Device!Remove
  <2>2. flawless' => Device!OfThisRun(local)' /\ (remote.there => local = remote)
    BY <1>0, <1>3, <2>1
  <2>3. CASE remote' = remote
    BY <1>0, <2>1, <2>2, <2>3
  <2>4. CASE remote' = Device!NoFile
    <3>1. ~remote'.there
      BY <2>4 DEF Device!NoFile
    <3> QED
      BY <1>0, <2>1, <2>2, <3>1
  <2> QED
    BY <1>10, <2>3, <2>4 DEF Device!Remove
<1>11. CASE Device!Answer
  BY <1>0, <1>3, <1>11 DEF Device!Answer
<1>12. CASE Device!End
  BY <1>0, <1>3, <1>12 DEF Device!End
<1>13. CASE Device!Fail
  BY <1>0, <1>2, <1>3, <1>13 DEF Device!Fail
<1> QED
  BY <1>5, <1>6, <1>7, <1>8, <1>9, <1>10, <1>11, <1>12, <1>13 DEF Device!Work

LEMMA PhaseKept ==
  ASSUME IInv, [Next]_vars
  PROVE  PhaseOK'
<1> USE DEF IInv
<1>1. CASE UseDevice
  <2>1. CASE Device!Work
    BY <1>1, <2>1, WorkKeeps DEF UseDevice, PhaseOK
  <2>2. CASE ~Device!Work
    BY <1>1, <2>2 DEF UseDevice, PhaseOK, Device!GiveUp, Device!End, Device!Step
  <2> QED
    BY <2>1, <2>2
<1>2. CASE ConnectDevice
  BY <1>2 DEF ConnectDevice, Device!Begin, PhaseOK
<1>3. CASE EndDevice
  BY <1>3 DEF EndDevice, PhaseOK, deviceVars
<1>4. CASE Kill
  BY <1>4 DEF Kill, Forget, PhaseOK
<1>5. CASE pc # "download" /\ UNCHANGED phase
  BY <1>5 DEF PhaseOK
<1>6. CASE UNCHANGED vars
  BY <1>6 DEF vars, deviceVars, PhaseOK
<1> QED
  BY <1>1, <1>2, <1>3, <1>4, <1>5, <1>6
  DEF Next, Main, Query, Start, Scan, TakeFile, TakeOut, TakeCredentials, PassOver, TakeName,
      TakeMikrotik, PrintAndLeave, EndOptions, Ask, OpenDatabase, Opened, CreateOut,
      WriteDocument, Exit, TypePassword, Set, Case, Forget, deviceVars

\* FetchOK speaks of these variables only; a failure makes it say less.
LEMMA FetchStays ==
  ASSUME FetchOK, UNCHANGED <<phase, remote, local, runs, returned>>,
         flawless' = flawless \/ flawless' = FALSE
  PROVE  FetchOK'
<1>1. flawless \in BOOLEAN /\ flawless' \in BOOLEAN /\ (flawless' => flawless)
  <2>1. flawless \in BOOLEAN
    BY DEF FetchOK
  <2> QED
    BY <2>1, StillFlawless
<1>2. /\ Device!OfThisRun(remote)' <=> Device!OfThisRun(remote)
      /\ Device!OfThisRun(local)' <=> Device!OfThisRun(local)
  BY DEF Device!OfThisRun
<1> QED
  BY <1>1, <1>2 DEF FetchOK

LEMMA FetchKept ==
  ASSUME IInv, [Next]_vars
  PROVE  FetchOK'
<1> USE DEF IInv
<1>1. CASE UseDevice
  <2>1. CASE Device!Work
    BY <1>1, <2>1, WorkKeeps
  <2>2. CASE Device!GiveUp /\ returned' = "none" /\ flawless' = FALSE
    BY <2>2 DEF Device!GiveUp, Device!Step, FetchOK
  <2>3. CASE Device!End
    BY <2>3, WorkKeeps DEF Device!Work
  <2> QED
    BY <1>1, <2>1, <2>2, <2>3 DEF UseDevice
<1>2. CASE ConnectDevice
  BY <1>2 DEF ConnectDevice, Device!Begin, FetchOK
<1>3. CASE Start
  BY <1>3 DEF Start, FetchOK, PhaseOK, PcOK
<1>4. CASE Kill
  BY <1>4 DEF Kill, FetchOK
<1>5. CASE OpenDatabase
  <2>1. CASE local' = local
    BY <1>5, <2>1, OpenDatabaseDoes, FetchStays
  <2>2. ASSUME NEW content, IsCompressed(Name), Replace(Copy(Name), content)
        PROVE  local' = local
    BY <2>2, CopyOfCompressed, ReplaceDoes
  <2>3. local' = local
    BY <1>5, <2>2, OpenDatabaseDoes, Zenon
  <2> QED
    BY <2>1, <2>3
<1>6. CASE CreateOut
  <2>1. /\ UNCHANGED <<phase, remote, runs, returned>> /\ pc = "save" /\ phase = "idle"
        /\ flawless' = flawless \/ flawless' = FALSE
        /\ local' = local \/ local' = Device!File(<<>>)
    BY <1>6, CreateOutDoes DEF PhaseOK
  <2>2. CASE local' = local
    BY <2>1, <2>2, FetchStays
  <2>3. CASE local' = Device!File(<<>>)
    <3>1. Device!OfThisRun(local)'
      BY <2>3 DEF Device!OfThisRun, Device!File
    <3>2. flawless \in BOOLEAN /\ flawless' \in BOOLEAN /\ (flawless' => flawless)
      <4>1. flawless \in BOOLEAN
        BY DEF FetchOK
      <4> QED
        BY <2>1, <4>1, StillFlawless
    <3> QED
      BY <2>1, <3>1, <3>2 DEF FetchOK
  <2> QED
    BY <2>1, <2>2, <2>3
<1>7. CASE WriteDocument
  <2>1. /\ UNCHANGED <<phase, remote, local, runs, returned>>
        /\ flawless' = flawless \/ flawless' = FALSE
    BY <1>7 DEF WriteDocument
  <2> QED
    BY <2>1, FetchStays
<1>8. CASE UNCHANGED <<phase, remote, local, runs, returned, flawless>>
  BY <1>8, FetchStays
<1> QED
  BY <1>1, <1>2, <1>3, <1>4, <1>5, <1>6, <1>7, <1>8
  DEF Next, Main, Query, Scan, TakeFile, TakeOut, TakeCredentials, PassOver, TakeName,
      TakeMikrotik, PrintAndLeave, EndOptions, Ask, EndDevice, Exit, TypePassword, Set, Forget,
      vars, deviceVars

LEMMA SavedKept ==
  ASSUME IInv, [Next]_vars
  PROVE  SavedOK'
<1> USE DEF IInv
<1>1. CASE EndOptions
  <2>1. pc' \notin {"save", "write"} /\ (pc' = "exit" => ~options'.has_filepath)
    BY <1>1 DEF EndOptions, OptionsOK
  <2> QED
    BY <2>1 DEF SavedOK
<1>2. CASE EndDevice
  <2>1. /\ pc' \notin {"save", "write"}
        /\ pc' = "exit" => options'.has_mikrotik /\ returned' # "true"
    BY <1>2 DEF EndDevice, RunOK, deviceVars
  <2> QED
    BY <2>1 DEF SavedOK
<1>3. CASE OpenDatabase
  <2>1. /\ pc' \in {"save", "exit"} /\ (pc' = "save" <=> options'.has_out_filepath)
        /\ Name' = Name
    BY <1>3, OpenDatabaseDoes DEF Name
  <2>2. ASSUME UNCHANGED <<local, diskVars>>, source' = Name, ~IsCompressed(Name)
        PROVE  SourceIsNamed'
    <3>1. IsCompressed(Name)' <=> IsCompressed(Name)
      BY <2>1, <2>2 DEF IsCompressed, Content, diskVars
    <3> QED
      BY <2>1, <2>2, <3>1 DEF SourceIsNamed
  <2>3. ASSUME IsCompressed(Name), Replace(Copy(Name), Content(Name)), source' = Copy(Name)
        PROVE  SourceIsNamed'
    <3>1. Copy(Name) # Name /\ Copy(Name)' = Copy(Name)
      BY <2>1, <2>3, CopyOfCompressed DEF Copy
    <3>2. /\ \A n : n = Copy(Name) => Content(n)' = Content(Name)
          /\ \A n : n # Copy(Name) => Content(n)' = Content(n)
          /\ DOMAIN documents' = DOMAIN documents \ {Copy(Name)}
      BY <2>3, ReplaceDoes
    <3>3. /\ Content(Name)' = Content(Name) /\ Content(source)' = Content(Name)
          /\ Name' \notin DOMAIN documents' /\ source' \notin DOMAIN documents'
      BY <2>1, <2>3, <3>1, <3>2 DEF IsCompressed
    <3>4. IsCompressed(Name)'
      BY <2>1, <2>3, <3>3 DEF IsCompressed
    <3> QED
      BY <2>1, <2>3, <3>1, <3>3, <3>4 DEF SourceIsNamed
  <2>4. flawless' => SourceIsNamed'
    BY <1>3, <2>2, <2>3, OpenDatabaseDoes
  <2> QED
    BY <2>1, <2>4 DEF SavedOK
<1>4. CASE CreateOut
  <2>1. CASE flawless' = FALSE
    BY <2>1 DEF SavedOK
  <2>2. CASE flawless' # FALSE
    <3>1. /\ pc = "save" /\ pc' = "write" /\ flawless' = flawless
          /\ Name' = Name /\ Out' = Out /\ source' = source
          /\ \A n : n # Out => Content(n)' = Content(n)
          /\ DOMAIN documents' = DOMAIN documents \cup {Out}
      BY <1>4, <2>2, CreateOutDoes DEF Name, Out
    <3>2. ASSUME Out \notin {Name, Copy(Name)}, SourceIsNamed
          PROVE  SourceIsNamed'
      <4>1. Content(Name)' = Content(Name) /\ (Name' \in DOMAIN documents' <=> Name \in DOMAIN documents)
        BY <3>1, <3>2
      <4>2. IsCompressed(Name)' <=> IsCompressed(Name)
        BY <3>1, <4>1 DEF IsCompressed
      <4>3. CASE IsCompressed(Name)
        <5>1. /\ source' = Copy(Name)' /\ source' \notin DOMAIN documents'
              /\ Content(source)' = Content(source) /\ Content(source) = Content(Name)
          BY <3>1, <3>2, <4>3 DEF SourceIsNamed, Copy
        <5> QED
          BY <4>1, <4>2, <4>3, <5>1 DEF SourceIsNamed
      <4>4. CASE ~IsCompressed(Name)
        BY <3>1, <3>2, <4>2, <4>4 DEF SourceIsNamed
      <4> QED
        BY <4>3, <4>4
    <3>3. flawless' => SourceIsNamed
      BY <3>1 DEF SavedOK
    <3>4. Copy(Name)' = Copy(Name)
      BY <3>1 DEF Copy
    <3> QED
      BY <3>1, <3>2, <3>3, <3>4 DEF SavedOK
  <2> QED
    BY <2>1, <2>2
<1>5. CASE WriteDocument
  <2>1. CASE flawless' = FALSE
    BY <2>1 DEF SavedOK
  <2>2. CASE flawless' # FALSE
    <3> DEFINE document == [whole |-> TRUE, rows |-> Rows(source),
                            credentials |-> options.has_credentials]
    <3>1. /\ pc = "write" /\ pc' = "exit" /\ flawless' = flawless
          /\ options' = options /\ local' = local /\ files' = files
          /\ documents' = [documents EXCEPT ![Out] = document]
      BY <1>5, <2>2 DEF WriteDocument, Out
    <3>2. document.whole /\ document.rows = Rows(source)
          /\ document.credentials = options.has_credentials
      OBVIOUS
    <3> HIDE DEF document
    <3>3. Name' = Name /\ Out' = Out /\ Copy(Name)' = Copy(Name)
      BY <3>1 DEF Name, Out, Copy
    <3>4. DOMAIN documents' = DOMAIN documents /\ Content(Name)' = Content(Name)
      BY <3>1, <3>3 DEF Content
    <3>5. ASSUME Out \in DOMAIN documents
          PROVE  documents'[Out] = document
      BY <3>1, <3>5
    <3>6. ASSUME SourceIsNamed
          PROVE  Rows(source) = IF Name \in DOMAIN documents THEN <<>> ELSE Content(Name).blocks
      <4>1. CASE IsCompressed(Name)
        <5>1. /\ source = Copy(Name) /\ source \notin DOMAIN documents
              /\ Content(source) = Content(Name) /\ Name \notin DOMAIN documents
          BY <3>6, <4>1 DEF SourceIsNamed, IsCompressed
        <5>2. ~IsCompressed(source)
          BY <4>1, <5>1, CopyOfCompressed
        <5> QED
          BY <5>1, <5>2 DEF Rows
      <4>2. CASE ~IsCompressed(Name)
        BY <3>6, <4>2 DEF SourceIsNamed, Rows
      <4> QED
        BY <4>1, <4>2
    <3>7. ASSUME flawless
          PROVE  Written'
      <4>1. /\ Out \in DOMAIN documents
            /\ Out \notin {Name, Copy(Name)} => SourceIsNamed
        BY <3>1, <3>7 DEF SavedOK
      <4> QED
        BY <3>1, <3>2, <3>3, <3>4, <3>5, <3>6, <4>1 DEF Written
    <3> QED
      BY <3>1, <3>7 DEF SavedOK
  <2> QED
    BY <2>1, <2>2
<1>6. CASE pc' \notin {"save", "write", "exit"}
  BY <1>6 DEF SavedOK
<1>7. CASE UNCHANGED vars
  <2>1. /\ UNCHANGED <<pc, options, source, local, files, documents, returned, flawless>>
    BY <1>7 DEF vars, diskVars, deviceVars
  <2> QED
    BY <2>1 DEF SavedOK, SourceIsNamed, Written, IsCompressed, Content, Copy, Name, Out
<1> QED
  BY <1>1, <1>2, <1>3, <1>4, <1>5, <1>6, <1>7
  DEF Next, Main, Query, Start, Scan, TakeFile, TakeOut, TakeCredentials, PassOver, TakeName,
      TakeMikrotik, PrintAndLeave, Ask, ConnectDevice, UseDevice, Exit, TypePassword, Kill, Set,
      Forget, Case

-----------------------------------------------------------------------------
(* The theorems.                                                           *)

LEMMA InitIInv == Init => IInv
<1> SUFFICES ASSUME Init
             PROVE  IInv
  OBVIOUS
<1> USE DEF Init
<1>1. PcOK
  BY DEF PcOK
<1>2. DataOK
  BY NoLineWithin DEF DataOK
<1>3. OptionsOK
  BY NoOptionsOK DEF OptionsOK
<1>4. RunOK
  BY DEF RunOK
<1>5. TerminalOK
  BY DEF TerminalOK
<1>6. DocumentsOK
  <2>1. DOMAIN documents = {}
    OBVIOUS
  <2> QED
    BY <2>1 DEF DocumentsOK
<1>7. PhaseOK
  BY DEF PhaseOK, Device!Init
<1>8. FetchOK
  BY DEF FetchOK, Device!Init
<1>9. SavedOK
  BY DEF SavedOK
<1> QED
  BY <1>1, <1>2, <1>3, <1>4, <1>5, <1>6, <1>7, <1>8, <1>9 DEF IInv

LEMMA StepIInv == IInv /\ [Next]_vars => IInv'
<1> SUFFICES ASSUME IInv, [Next]_vars
             PROVE  IInv'
  OBVIOUS
<1>1. PcOK'
  BY PcKept DEF IInv
<1> QED
  BY <1>1, DataKept, OptionsKept, RunKept, TerminalKept, DocumentsKept, PhaseKept, FetchKept,
     SavedKept
  DEF IInv

LEMMA Inductive == Spec => []IInv
BY InitIInv, StepIInv, PTL DEF Spec

\* The variables have their types: whatever the lines, and although getopt_long
\* permutes the arguments and main moves optind under its hands, the stretch of
\* names and the next argument lie within the arguments, and a half-read
\* argument is one of them; a port has sixteen bits; a document takes the place
\* of the file it is in; the device is at work only while main waits for it.
THEOREM TypeCorrect == Spec => []TypeOK
<1>1. IInv => TypeOK
  BY DEF IInv, PcOK, DataOK, Within, OptionsOK, TerminalOK, DocumentsOK, PhaseOK, TypeOK
<1> QED
  BY <1>1, Inductive, PTL

\* After any number of runs, killed anywhere, the terminal echoes unless a
\* password is being typed or a run was killed while it was.
THEOREM EchoIsBack == Spec => []EchoComesBack
<1>1. IInv => EchoComesBack
  BY DEF IInv, TerminalOK, EchoComesBack
<1> QED
  BY <1>1, Inductive, PTL

\* While the lines are read as they are meant, what a run in which nothing has
\* failed leaves behind is what its line asks for: a whole document of the file
\* that is named, with the credentials only if asked, and after -m of what this
\* very run has fetched.
THEOREM DocumentOfTheFileNamed == Spec /\ []ReadAsGiven => []DocumentIsOfTheFileNamed
<1>1. IInv /\ ReadAsGiven => DocumentIsOfTheFileNamed
  <2> SUFFICES ASSUME IInv, ReadAsGiven,
                      pc = "exit", flawless, expected.kind = "read", expected.out.there,
                      options.has_mikrotik => returned = "true", options.has_filepath
               PROVE  LET named    == IF options.has_mikrotik THEN Local ELSE expected.file.value
                          document == documents[expected.out.value]
                      IN /\ document.whole
                         /\ document.credentials = expected.credentials
                         /\ expected.out.value \notin {named, Copy(named)} =>
                              /\ document.rows = IF named \in DOMAIN documents THEN <<>>
                                                 ELSE Content(named).blocks
                              /\ options.has_mikrotik =>
                                   Device!OfThisRun(Content(named)) /\ ~remote.there
    BY DEF DocumentIsOfTheFileNamed
  <2>1. /\ options.has_out_filepath = expected.out.there /\ Out = expected.out.value
        /\ options.has_credentials = expected.credentials
        /\ Name = IF options.has_mikrotik THEN Local ELSE expected.file.value
    BY DEF ReadAsGiven, AfterOptions, Name, Out
  <2>2. Written
    BY <2>1 DEF IInv, SavedOK
  <2>3. options.has_mikrotik => Device!OfThisRun(Content(Local)) /\ ~remote.there
    BY DEF IInv, FetchOK, Content
  <2> QED
    BY <2>1, <2>2, <2>3 DEF Written
<1> QED
  BY <1>1, Inductive, PTL

\* While the lines are read as they are meant, a file changes only where the
\* line of the run names it, where it is the copy of a compressed one, or where
\* it is being fetched: the databases there were outlive any number of runs.
THEOREM DatabasesOutlive == Spec /\ []ReadAsGiven => DatabasesKept
<1> DEFINE Kept == expected.kind = "read" =>
                     \A name \in DOMAIN Databases \cup {Local} :
                       Content(name)' # Content(name) => Overwritten(name)
<1>1. ASSUME IInv, ReadAsGiven, [Next]_vars
      PROVE  Kept
  <2> SUFFICES ASSUME expected.kind = "read", NEW name \in DOMAIN Databases \cup {Local}
               PROVE  Content(name)' # Content(name) => Overwritten(name)
    OBVIOUS
  <2>1. pc \in AfterOptions =>
          /\ options.has_out_filepath = expected.out.there
          /\ Out = expected.out.value
          /\ options.has_mikrotik = (expected.mikrotiks # <<>>)
          /\ pc # "device" =>
               Name = IF options.has_mikrotik THEN Local ELSE expected.file.value
    BY <1>1 DEF ReadAsGiven, Name, Out
  <2>2. CASE OpenDatabase
    <3>1. /\ pc = "open"
          /\ (expected.mikrotiks # <<>>) = options.has_mikrotik
          /\ Name = IF options.has_mikrotik THEN Local ELSE expected.file.value
      BY <2>1, <2>2, OpenDatabaseDoes DEF AfterOptions
    <3>2. ASSUME NEW content, Replace(Copy(Name), content), Content(name)' # Content(name)
          PROVE  name = Copy(Name)
      BY <3>2, ReplaceDoes
    <3>3. UNCHANGED <<local, diskVars>> => Content(name)' = Content(name)
      BY DEF diskVars, Content
    <3>4. Content(name)' # Content(name) => name = Copy(Name)
      BY <2>2, <3>2, <3>3, OpenDatabaseDoes, Zenon
    <3> QED
      BY <3>1, <3>4 DEF Overwritten, Copy
  <2>3. CASE CreateOut
    <3>1. pc = "save" /\ options.has_out_filepath /\ options.has_out_filepath = expected.out.there
          /\ Out = expected.out.value
      BY <1>1, <2>1, <2>3, CreateOutDoes DEF IInv, RunOK, AfterOptions
    <3>2. Content(name)' # Content(name) => name = Out
      <4>1. UNCHANGED <<local, diskVars>> => Content(name)' = Content(name)
        BY DEF diskVars, Content
      <4> QED
        BY <2>3, <4>1, CreateOutDoes, Zenon
    <3> QED
      BY <3>1, <3>2 DEF Overwritten
  <2>4. CASE UseDevice
    <3>1. files' = files
      BY <2>4 DEF UseDevice
    <3>2. local' # local => phase = "copying"
      BY <2>4
      DEF UseDevice, Device!Work, Device!Make, Device!Confirm, Device!GiveUp, Device!Copy,
          Device!EndCopy, Device!Remove, Device!Answer, Device!End, Device!Fail, Device!Step
    <3> QED
      BY <3>1, <3>2 DEF Content, Overwritten
  <2>5. CASE UNCHANGED <<local, files>>
    BY <2>5 DEF Content
  <2> QED
    BY <1>1, <2>2, <2>3, <2>4, <2>5
    DEF Next, Main, Query, Start, Scan, TakeFile, TakeOut, TakeCredentials, PassOver, TakeName,
        TakeMikrotik, PrintAndLeave, EndOptions, Ask, ConnectDevice, EndDevice, WriteDocument,
        Exit, TypePassword, Kill, Set, Forget, Device!Begin, vars, deviceVars, diskVars
<1>2. IInv /\ ReadAsGiven /\ [Next]_vars => [Kept]_vars
  BY <1>1
<1> QED
  BY <1>2, Inductive, PTL DEF Spec, DatabasesKept
=============================================================================
