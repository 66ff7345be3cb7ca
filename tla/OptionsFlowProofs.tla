--------------------------- MODULE OptionsFlowProofs ---------------------------
(***************************************************************************)
(* Proofs about the paged reads of the API client and the options dialog   *)
(* that needs one, for objects, names and inputs of any number, pages of   *)
(* any size and listings of any length.                                    *)
(*                                                                         *)
(* What a loop over a listing computes takes an induction on its length.   *)
(* It is had from the least number that is a counterexample (LeastNat),    *)
(* once, in AllUpTo; a lemma by induction then collects the numbers up to  *)
(* which its claim holds in a set T.                                       *)
(*                                                                         *)
(* The invariant of a read (ReadSoFar) says what has been collected up to  *)
(* the position the next page starts at.                                   *)
(***************************************************************************)
EXTENDS OptionsFlow, SequenceTheorems, FiniteSetTheorems, WellFoundedInduction, TLAPS

--------------------------------------------------------------------------------
\* Numbers.

\* A nonempty set of natural numbers has a least member.
LEMMA LeastNat ==
  ASSUME NEW S \in SUBSET Nat, S # {}
  PROVE  \E n \in S : \A m \in S : n <= m
<1> DEFINE less == {ss \in Nat \X Nat : ss[1] < ss[2]}
<1>1. IsWellFoundedOn(less, Nat)
  BY NatLessThanWellFounded DEF OpToRel
<1>2. PICK n \in S : \A m \in S : <<m, n>> \notin less
  <2> HIDE DEF less
  <2> QED BY <1>1, WFMin
<1>3. ASSUME NEW m \in S PROVE n <= m
  <2>1. m \in Nat /\ n \in Nat
    OBVIOUS
  <2>2. ~(m < n)
    BY <1>2, <2>1
  <2> QED BY <2>1, <2>2
<1> QED BY <1>3

\* Induction up to N: a set with 0, and with i + 1 if with i, has all of 0..N.
LEMMA AllUpTo ==
  ASSUME NEW N \in Nat, NEW T, 0 \in T, \A i \in 0..N : i < N /\ i \in T => i + 1 \in T
  PROVE  \A i \in 0..N : i \in T
<1> DEFINE out == {i \in 0..N : i \notin T}
<1> SUFFICES ASSUME out # {} PROVE FALSE
  OBVIOUS
<1>1. PICK n \in out : \A m \in out : n <= m
  <2>1. out \in SUBSET Nat
    OBVIOUS
  <2> HIDE DEF out
  <2> QED BY <2>1, LeastNat
<1>2. n \in 1..N /\ n \notin T
  OBVIOUS
<1>3. n - 1 \in 0..N /\ n - 1 < N /\ ~(n <= n - 1)
  BY <1>2
<1>4. n - 1 \in T
  BY <1>1, <1>3
<1>5. (n - 1) + 1 = n
  BY <1>2
<1> QED BY <1>2, <1>3, <1>4, <1>5

\* The operators of the community modules return what their names say.
LEMMA MinIsLeast ==
  ASSUME NEW S \in SUBSET Nat, S # {}
  PROVE  Min(S) \in S /\ \A m \in S : Min(S) <= m
BY LeastNat DEF Min

LEMMA MaxIsGreatest ==
  ASSUME NEW N \in Nat, NEW S \in SUBSET (0..N), S # {}
  PROVE  Max(S) \in S /\ \A m \in S : m <= Max(S)
<1> DEFINE below == {N - m : m \in S}
<1>1. below \in SUBSET Nat /\ below # {}
  <2>1. PICK m \in S : TRUE
    OBVIOUS
  <2>2. N - m \in below
    OBVIOUS
  <2>3. ASSUME NEW x \in S PROVE N - x \in Nat
    OBVIOUS
  <2> QED BY <2>2, <2>3
<1>2. PICK k \in below : \A m \in below : k <= m
  <2> HIDE DEF below
  <2> QED BY <1>1, LeastNat
<1>3. PICK n \in S : k = N - n
  OBVIOUS
<1>4. ASSUME NEW m \in S PROVE m <= n
  <2>1. N - n <= N - m
    BY <1>2, <1>3
  <2> QED BY <2>1
<1> QED BY <1>4 DEF Max

--------------------------------------------------------------------------------
\* Filters.

\* The filter of a sequence is well defined: there is a function that meets the
\* recursive equation, by induction on the number of rounds.
LEMMA OnlyDefined ==
  ASSUME NEW S, NEW seq \in Seq(S), NEW set
  PROVE  OnlyTo(seq, set) =
           [n \in 0..Len(seq) |->
             IF n = 0 THEN <<>> ELSE OnlyTo(seq, set)[n - 1] \o Taken(seq[n], set)]
<1> DEFINE Step(f, n) == IF n = 0 THEN <<>> ELSE f[n - 1] \o Taken(seq[n], set)
           Up(N) == \E f : f = [n \in 0..N |-> Step(f, n)]
           T == {N \in 0..Len(seq) : Up(N)}
<1>1. Up(0)
  <2> DEFINE f == [n \in 0..0 |-> <<>>]
  <2>1. f = [n \in 0..0 |-> Step(f, n)]
    OBVIOUS
  <2> QED BY <2>1
<1>2. ASSUME NEW N \in 0..Len(seq), N < Len(seq), Up(N) PROVE Up(N + 1)
  <2>1. PICK f : f = [n \in 0..N |-> Step(f, n)]
    BY <1>2
  <2> DEFINE g == [n \in 0..N + 1 |-> IF n = N + 1 THEN Step(f, n) ELSE f[n]]
  <2>2. ASSUME NEW n \in 0..N + 1 PROVE g[n] = Step(g, n)
    <3>1. CASE n = N + 1
      <4>1. g[N] = f[N] /\ n - 1 = N /\ n # 0
        BY <3>1
      <4>2. g[n] = Step(f, n)
        BY <3>1
      <4> QED BY <4>1, <4>2
    <3>2. CASE n \in 1..N
      <4>1. n - 1 \in 0..N /\ g[n - 1] = f[n - 1] /\ n # 0
        BY <3>2
      <4>2. f[n] = Step(f, n)
        <5> HIDE DEF Step
        <5> QED BY <3>2, <2>1
      <4>3. g[n] = f[n]
        BY <3>2
      <4> QED BY <4>1, <4>2, <4>3
    <3>3. CASE n = 0
      <4>1. g[n] = f[n] /\ f[n] = Step(f, n)
        BY <3>3, <2>1
      <4>2. Step(f, n) = Step(g, n)
        BY <3>3
      <4> QED BY <4>1, <4>2
    <3> QED BY <3>1, <3>2, <3>3
  <2>3. g = [n \in 0..N + 1 |-> Step(g, n)]
    BY <2>2
  <2> QED BY <2>3
<1>3. Len(seq) \in Nat
  BY LenProperties
<1>4. Len(seq) \in T
  <2> HIDE DEF Up
  <2>1. 0 \in T
    BY <1>1, <1>3
  <2>2. ASSUME NEW i \in 0..Len(seq), i < Len(seq), i \in T PROVE i + 1 \in T
    BY <1>2, <2>2, <1>3
  <2> HIDE DEF T
  <2>3. \A i \in 0..Len(seq) : i \in T
    BY <2>1, <2>2, <1>3, AllUpTo
  <2> QED BY <2>3, <1>3
<1>5. Up(Len(seq))
  BY <1>4
<1> QED BY <1>5 DEF OnlyTo

\* Each round adds what it takes.
LEMMA OnlyRound ==
  ASSUME NEW S, NEW seq \in Seq(S), NEW set
  PROVE  /\ OnlyTo(seq, set)[0] = <<>>
         /\ \A n \in 1..Len(seq) :
              OnlyTo(seq, set)[n] = OnlyTo(seq, set)[n - 1] \o Taken(seq[n], set)
<1> DEFINE only == OnlyTo(seq, set)
<1>1. Len(seq) \in Nat
  BY LenProperties
<1>2. only = [n \in 0..Len(seq) |-> IF n = 0 THEN <<>> ELSE only[n - 1] \o Taken(seq[n], set)]
  BY OnlyDefined
<1> HIDE DEF only
<1>3. only[0] = <<>>
  BY <1>1, <1>2
<1>4. ASSUME NEW n \in 1..Len(seq) PROVE only[n] = only[n - 1] \o Taken(seq[n], set)
  <2>1. n \in 0..Len(seq) /\ n # 0
    BY <1>1
  <2> QED BY <1>2, <2>1
<1> QED BY <1>3, <1>4 DEF only

LEMMA ToSetOfConcat ==
  ASSUME NEW S, NEW s \in Seq(S), NEW t \in Seq(S)
  PROVE  ToSet(s \o t) = ToSet(s) \cup ToSet(t)
<1>1. Range(s \o t) = Range(s) \cup Range(t)
  BY RangeConcatenation
<1> QED BY <1>1, Zenon DEF Range, ToSet

\* What one round takes.
LEMMA TakenTyped ==
  ASSUME NEW S, NEW x \in S, NEW set
  PROVE  Taken(x, set) \in Seq(S \cap set) /\ ToSet(Taken(x, set)) = {x} \cap set
<1>1. CASE x \in set
  <2>1. ToSet(<<x>>) = {x}
    BY DEF ToSet
  <2> QED BY <1>1, <2>1 DEF Taken
<1>2. CASE x \notin set
  <2>1. ToSet(<<>>) = {}
    BY DEF ToSet
  <2> QED BY <1>2, <2>1 DEF Taken
<1> QED BY <1>1, <1>2

\* After n rounds: a sequence of wanted elements,
LEMMA OnlyToTyped ==
  ASSUME NEW S, NEW seq \in Seq(S), NEW set
  PROVE  \A n \in 0..Len(seq) : OnlyTo(seq, set)[n] \in Seq(S \cap set)
<1> DEFINE only == OnlyTo(seq, set)
           T == {n \in 0..Len(seq) : only[n] \in Seq(S \cap set)}
<1>1. Len(seq) \in Nat
  BY LenProperties
<1>2. only[0] \in Seq(S \cap set)
  <2>1. only[0] = <<>>
    BY OnlyRound
  <2> HIDE DEF only
  <2> QED BY <2>1
<1>3. ASSUME NEW n \in 0..Len(seq), n < Len(seq), only[n] \in Seq(S \cap set)
      PROVE  only[n + 1] \in Seq(S \cap set)
  <2>1. n + 1 \in 1..Len(seq) /\ (n + 1) - 1 = n
    BY <1>3, <1>1
  <2>2. only[n + 1] = only[n] \o Taken(seq[n + 1], set)
    BY <2>1, OnlyRound
  <2>3. Taken(seq[n + 1], set) \in Seq(S \cap set)
    BY <2>1, ElementOfSeq, TakenTyped
  <2> HIDE DEF only
  <2> QED BY <1>3, <2>2, <2>3, ConcatProperties
<1>4. 0 \in T /\ \A n \in 0..Len(seq) : n < Len(seq) /\ n \in T => n + 1 \in T
  BY <1>1, <1>2, <1>3
<1>5. \A n \in 0..Len(seq) : n \in T
  <2> HIDE DEF T
  <2> QED BY <1>1, <1>4, AllUpTo
<1> QED BY <1>5

\* and exactly those that were met.
LEMMA OnlyToCollects ==
  ASSUME NEW S, NEW seq \in Seq(S), NEW set
  PROVE  \A n \in 0..Len(seq) :
           \A x : x \in ToSet(OnlyTo(seq, set)[n]) <=> x \in set /\ \E i \in 1..n : seq[i] = x
<1> DEFINE only == OnlyTo(seq, set)
           Is(n) == \A x : x \in ToSet(only[n]) <=> x \in set /\ \E i \in 1..n : seq[i] = x
           T == {n \in 0..Len(seq) : Is(n)}
<1>1. Len(seq) \in Nat
  BY LenProperties
<1>2. Is(0)
  <2>1. only[0] = <<>>
    BY OnlyRound
  <2>2. ToSet(<<>>) = {}
    BY DEF ToSet
  <2> HIDE DEF only
  <2> QED BY <2>1, <2>2
<1>3. ASSUME NEW n \in 0..Len(seq), n < Len(seq), Is(n) PROVE Is(n + 1)
  <2> DEFINE new == Taken(seq[n + 1], set)
  <2>1. n + 1 \in 1..Len(seq) /\ (n + 1) - 1 = n
    BY <1>3, <1>1
  <2>2. only[n + 1] = only[n] \o new
    BY <2>1, OnlyRound
  <2>3. new \in Seq(S \cap set) /\ ToSet(new) = {seq[n + 1]} \cap set
    BY <2>1, ElementOfSeq, TakenTyped
  <2>4. only[n] \in Seq(S \cap set)
    BY OnlyToTyped
  <2> HIDE DEF new, only
  <2>5. ToSet(only[n + 1]) = ToSet(only[n]) \cup ToSet(new)
    BY <2>2, <2>3, <2>4, ToSetOfConcat
  <2>6. ASSUME NEW x
        PROVE  x \in ToSet(only[n + 1]) <=> x \in set /\ \E i \in 1..n + 1 : seq[i] = x
    <3>1. x \in ToSet(only[n + 1]) <=> x \in set /\ ((\E i \in 1..n : seq[i] = x) \/ x = seq[n + 1])
      BY <1>3, <2>3, <2>5
    <3>2. \A i : i \in 1..n + 1 <=> i \in 1..n \/ i = n + 1
      BY <2>1
    <3> QED BY <3>1, <3>2
  <2> QED BY <2>6
<1>4. \A n \in 0..Len(seq) : n \in T
  <2> HIDE DEF Is
  <2>1. 0 \in T /\ \A n \in 0..Len(seq) : n < Len(seq) /\ n \in T => n + 1 \in T
    BY <1>1, <1>2, <1>3
  <2> HIDE DEF T
  <2> QED BY <1>1, <2>1, AllUpTo
<1> QED BY <1>4

\* In the end, the wanted elements of the sequence.
LEMMA OnlyCollects ==
  ASSUME NEW S, NEW seq \in Seq(S), NEW set
  PROVE  Only(seq, set) \in Seq(S \cap set) /\ ToSet(Only(seq, set)) = ToSet(seq) \cap set
<1>1. Len(seq) \in 0..Len(seq) /\ DOMAIN seq = 1..Len(seq)
  BY LenProperties
<1>2. Only(seq, set) \in Seq(S \cap set)
  BY <1>1, OnlyToTyped DEF Only
<1>3. \A x : x \in ToSet(Only(seq, set)) <=> x \in set /\ \E i \in 1..Len(seq) : seq[i] = x
  <2>1. \A n \in 0..Len(seq) :
          \A x : x \in ToSet(OnlyTo(seq, set)[n]) <=> x \in set /\ \E i \in 1..n : seq[i] = x
    BY OnlyToCollects
  <2> QED BY <1>1, <2>1 DEF Only
<1>4. \A x : x \in ToSet(seq) <=> \E i \in 1..Len(seq) : seq[i] = x
  BY <1>1 DEF ToSet
<1> QED BY <1>2, <1>3, <1>4

\* Filtering page by page is filtering the whole.
LEMMA OnlyOfConcat ==
  ASSUME NEW S, NEW s \in Seq(S), NEW t \in Seq(S), NEW set
  PROVE  Only(s \o t, set) = Only(s, set) \o Only(t, set)
<1> DEFINE both == OnlyTo(s \o t, set)
           A == {n \in 0..Len(s) : both[n] = OnlyTo(s, set)[n]}
           B == {n \in 0..Len(t) : both[Len(s) + n] = Only(s, set) \o OnlyTo(t, set)[n]}
           New(x) == Taken(x, set)
<1>1. Len(s) \in Nat /\ Len(t) \in Nat
  BY LenProperties
<1>2. /\ s \o t \in Seq(S) /\ Len(s \o t) = Len(s) + Len(t)
      /\ \A i \in 1..Len(s) : (s \o t)[i] = s[i]
      /\ \A i \in 1..Len(t) : (s \o t)[Len(s) + i] = t[i]
  BY <1>1, ConcatProperties
<1>3. /\ \A n \in 1..Len(s) + Len(t) : both[n] = both[n - 1] \o New((s \o t)[n])
      /\ \A n \in 1..Len(s) : OnlyTo(s, set)[n] = OnlyTo(s, set)[n - 1] \o New(s[n])
      /\ \A n \in 1..Len(t) : OnlyTo(t, set)[n] = OnlyTo(t, set)[n - 1] \o New(t[n])
      /\ both[0] = <<>> /\ OnlyTo(s, set)[0] = <<>> /\ OnlyTo(t, set)[0] = <<>>
  BY <1>2, OnlyRound
<1>4. \A n \in 0..Len(s) : n \in A
  <2>1. 0 \in A
    BY <1>1, <1>3
  <2>2. ASSUME NEW n \in 0..Len(s), n < Len(s), n \in A PROVE n + 1 \in A
    <3>1. /\ n + 1 \in 1..Len(s) /\ n + 1 \in 1..Len(s) + Len(t) /\ (n + 1) - 1 = n
          /\ both[n] = OnlyTo(s, set)[n]
      BY <1>1, <2>2
    <3> HIDE DEF both, New
    <3>2. both[n + 1] = both[n] \o New(s[n + 1])
      BY <1>2, <1>3, <3>1
    <3>3. OnlyTo(s, set)[n + 1] = OnlyTo(s, set)[n] \o New(s[n + 1])
      BY <1>3, <3>1
    <3>4. n + 1 \in 0..Len(s)
      BY <1>1, <3>1
    <3> QED BY <3>1, <3>2, <3>3, <3>4
  <2> HIDE DEF A
  <2> QED BY <1>1, <2>1, <2>2, AllUpTo
<1>5. both[Len(s)] = Only(s, set)
  BY <1>1, <1>4 DEF Only
<1>6. \A n \in 0..Len(t) : n \in B
  <2>0. Only(s, set) \in Seq(S)
    <3>1. Only(s, set) \in Seq(S \cap set)
      BY OnlyCollects
    <3> QED BY <3>1, SeqMonotonic
  <2>1. 0 \in B
    <3>1. Len(s) + 0 = Len(s)
      BY <1>1
    <3>2. Only(s, set) \o <<>> = Only(s, set)
      BY <2>0, ConcatEmptySeq
    <3> HIDE DEF both
    <3>3. 0 \in 0..Len(t)
      BY <1>1
    <3>4. both[Len(s) + 0] = Only(s, set) \o OnlyTo(t, set)[0]
      BY <1>3, <1>5, <3>1, <3>2
    <3> QED BY <3>3, <3>4
  <2>2. ASSUME NEW n \in 0..Len(t), n < Len(t), n \in B PROVE n + 1 \in B
    <3>1. /\ n + 1 \in 1..Len(t) /\ (n + 1) - 1 = n
          /\ Len(s) + (n + 1) \in 1..Len(s) + Len(t)
          /\ (Len(s) + (n + 1)) - 1 = Len(s) + n
          /\ both[Len(s) + n] = Only(s, set) \o OnlyTo(t, set)[n]
      BY <1>1, <2>2
    <3>2. OnlyTo(t, set)[n] \in Seq(S)
      <4>1. OnlyTo(t, set)[n] \in Seq(S \cap set)
        BY OnlyToTyped
      <4> QED BY <4>1, SeqMonotonic
    <3>3. New(t[n + 1]) \in Seq(S)
      <4>1. t[n + 1] \in S
        BY <3>1, ElementOfSeq
      <4> QED BY <4>1 DEF Taken
    <3> HIDE DEF both, New
    <3>4. both[Len(s) + (n + 1)] = (Only(s, set) \o OnlyTo(t, set)[n]) \o New(t[n + 1])
      <4>1. (s \o t)[Len(s) + (n + 1)] = t[n + 1]
        BY <1>2, <3>1
      <4>2. both[Len(s) + (n + 1)] = both[Len(s) + n] \o New((s \o t)[Len(s) + (n + 1)])
        <5> DEFINE k == Len(s) + (n + 1)
        <5>1. k \in 1..Len(s) + Len(t) /\ k - 1 = Len(s) + n
          BY <3>1
        <5>2. both[k] = both[k - 1] \o New((s \o t)[k])
          <6> HIDE DEF k
          <6> QED BY <5>1, <1>3
        <5> QED BY <5>1, <5>2
      <4> QED BY <3>1, <4>1, <4>2
    <3>5. OnlyTo(t, set)[n + 1] = OnlyTo(t, set)[n] \o New(t[n + 1])
      BY <1>3, <3>1
    <3>6. both[Len(s) + (n + 1)] = Only(s, set) \o OnlyTo(t, set)[n + 1]
      <4>1. (Only(s, set) \o OnlyTo(t, set)[n]) \o New(t[n + 1])
              = Only(s, set) \o (OnlyTo(t, set)[n] \o New(t[n + 1]))
        <5> DEFINE a == Only(s, set)
                   b == OnlyTo(t, set)[n]
                   c == New(t[n + 1])
        <5>1. a \in Seq(S) /\ b \in Seq(S) /\ c \in Seq(S)
          BY <2>0, <3>2, <3>3
        <5> HIDE DEF a, b, c
        <5>2. (a \o b) \o c = a \o (b \o c)
          BY <5>1, ConcatAssociative
        <5> QED BY <5>2 DEF a, b, c
      <4> QED BY <3>4, <3>5, <4>1
    <3> QED BY <1>1, <3>1, <3>6
  <2> HIDE DEF B
  <2> QED BY <1>1, <2>1, <2>2, AllUpTo
<1>7. both[Len(s) + Len(t)] = Only(s, set) \o OnlyTo(t, set)[Len(t)]
  BY <1>1, <1>6
<1> QED BY <1>2, <1>7 DEF Only
--------------------------------------------------------------------------------
\* Sequences and zones.

\* An insertion shifts what is behind it by one, a removal loses one element.
LEMMA Inserted ==
  ASSUME NEW S, NEW s \in Seq(S), NEW i \in 1..Len(s) + 1, NEW x \in S
  PROVE  /\ InsertAt(s, i, x) \in Seq(S)
         /\ Len(InsertAt(s, i, x)) = Len(s) + 1
         /\ InsertAt(s, i, x)[i] = x
         /\ \A j \in 1..i - 1 : InsertAt(s, i, x)[j] = s[j]
         /\ \A j \in i..Len(s) : InsertAt(s, i, x)[j + 1] = s[j]
<1> DEFINE left == SubSeq(s, 1, i - 1)
           right == SubSeq(s, i, Len(s))
<1>1. Len(s) \in Nat /\ \A j \in 1..Len(s) : s[j] \in S
  BY LenProperties, ElementOfSeq
<1>2. left \in Seq(S) /\ Len(left) = i - 1 /\ \A j \in 1..i - 1 : left[j] = s[j]
  BY <1>1, SubSeqProperties
<1>3. /\ right \in Seq(S) /\ Len(right) = Len(s) - i + 1
      /\ \A j \in 1..Len(s) - i + 1 : right[j] = s[i + j - 1]
  BY <1>1, SubSeqProperties
<1>4. <<x>> \in Seq(S) /\ Len(<<x>>) = 1 /\ <<x>>[1] = x
  OBVIOUS
<1> DEFINE both == left \o <<x>>
<1>5. /\ both \in Seq(S) /\ Len(both) = i
      /\ both[i] = x /\ \A j \in 1..i - 1 : both[j] = s[j]
  <2> HIDE DEF left
  <2> QED BY <1>2, <1>4, ConcatProperties
<1>6. InsertAt(s, i, x) = both \o right
  BY DEF InsertAt
<1> DEFINE all == both \o right
<1> HIDE DEF both, right
<1>7. /\ all \in Seq(S) /\ Len(all) = Len(s) + 1
      /\ \A j \in 1..Len(s) + 1 : all[j] = IF j <= i THEN both[j] ELSE right[j - i]
  <2>1. /\ all \in Seq(S) /\ Len(all) = Len(both) + Len(right)
        /\ \A j \in 1..Len(both) + Len(right) :
             all[j] = IF j <= Len(both) THEN both[j] ELSE right[j - Len(both)]
    BY <1>3, <1>5, ConcatProperties
  <2>2. Len(both) = i /\ Len(right) = Len(s) - i + 1 /\ i \in Nat /\ Len(s) \in Nat
    BY <1>1, <1>3, <1>5
  <2>3. Len(both) + Len(right) = Len(s) + 1
    BY <2>2
  <2> QED BY <2>1, <2>2, <2>3
<1> HIDE DEF all
<1>8. all[i] = x /\ \A j \in 1..i - 1 : all[j] = s[j]
  BY <1>1, <1>5, <1>7
<1>9. ASSUME NEW j \in i..Len(s) PROVE all[j + 1] = s[j]
  <2>1. /\ j + 1 - i \in 1..Len(s) - i + 1 /\ i + (j + 1 - i) - 1 = j
        /\ j + 1 \in 1..Len(s) + 1 /\ ~(j + 1 <= i)
    BY <1>1
  <2> QED BY <2>1, <1>3, <1>7
<1> QED BY <1>6, <1>7, <1>8, <1>9 DEF all

LEMMA Removed ==
  ASSUME NEW S, NEW s \in Seq(S), NEW i \in 1..Len(s)
  PROVE  /\ RemoveAt(s, i) \in Seq(S)
         /\ \A j \in 1..Len(s) : j # i => s[j] \in ToSet(RemoveAt(s, i))
<1> DEFINE left == SubSeq(s, 1, i - 1)
           right == SubSeq(s, i + 1, Len(s))
<1>1. Len(s) \in Nat /\ \A j \in 1..Len(s) : s[j] \in S
  BY LenProperties, ElementOfSeq
<1>2. left \in Seq(S) /\ Len(left) = i - 1 /\ \A j \in 1..i - 1 : left[j] = s[j]
  BY <1>1, SubSeqProperties
<1>3. /\ right \in Seq(S) /\ Len(right) = Len(s) - i
      /\ \A j \in 1..Len(s) - i : right[j] = s[i + j]
  BY <1>1, SubSeqProperties
<1>4. RemoveAt(s, i) = left \o right
  BY DEF RemoveAt
<1> HIDE DEF left, right
<1>5. left \o right \in Seq(S) /\ ToSet(left \o right) = ToSet(left) \cup ToSet(right)
  BY <1>2, <1>3, ConcatProperties, ToSetOfConcat
<1>6. ASSUME NEW j \in 1..Len(s), j # i PROVE s[j] \in ToSet(left) \cup ToSet(right)
  <2>1. CASE j < i
    <3>1. j \in 1..i - 1
      BY <2>1
    <3> QED BY <3>1, <1>2, LenProperties DEF ToSet
  <2>2. CASE j > i
    <3>1. j - i \in 1..Len(s) - i /\ i + (j - i) = j
      BY <1>1, <2>2
    <3>2. DOMAIN right = 1..Len(right) /\ right[j - i] = s[j]
      BY <1>3, <3>1, LenProperties
    <3> QED BY <3>1, <3>2, <1>3 DEF ToSet
  <2> QED BY <1>6, <2>1, <2>2
<1> QED BY <1>4, <1>5, <1>6

\* max(zones, key=...) of zones that are some: the first of the longest exists.
LEMMA LongestExists ==
  ASSUME NEW zones \in Seq(Objects), zones # <<>>
  PROVE  /\ LongestOf(zones) \in ToSet(zones)
         /\ \A z \in ToSet(zones) : Len(ZoneName[z]) <= Len(ZoneName[LongestOf(zones)])
<1> DEFINE len(i) == Len(ZoneName[zones[i]])
           Top(n) == \E i \in 1..n : \A j \in 1..n : len(j) <= len(i)
           T == {n \in 0..Len(zones) : n = 0 \/ Top(n)}
           best == {i \in DOMAIN zones : \A j \in DOMAIN zones : len(j) <= len(i)}
<1>1. Len(zones) \in Nat /\ Len(zones) # 0 /\ DOMAIN zones = 1..Len(zones)
  BY LenProperties, EmptySeq
<1>2. ASSUME NEW i \in 1..Len(zones) PROVE len(i) \in Nat
  <2>1. zones[i] \in Objects
    BY ElementOfSeq
  <2>2. ZoneName[zones[i]] \in Seq(Labels)
    BY <2>1, NamesAssumption
  <2> QED BY <2>2, LenProperties
<1> HIDE DEF len
<1>3. ASSUME NEW n \in 0..Len(zones), n < Len(zones), n = 0 \/ Top(n) PROVE Top(n + 1)
  <2>1. n + 1 \in 1..Len(zones) /\ \A j : j \in 1..n + 1 <=> j \in 1..n \/ j = n + 1
    BY <1>1, <1>3
  <2>2. \A j \in 1..n + 1 : len(j) \in Nat
    BY <1>1, <1>2, <1>3
  <2>3. CASE n = 0
    BY <2>1, <2>2, <2>3
  <2>4. CASE Top(n)
    <3>1. PICK i \in 1..n : \A j \in 1..n : len(j) <= len(i)
      BY <2>4
    <3>2. CASE len(n + 1) <= len(i)
      BY <2>1, <3>1, <3>2
    <3>3. CASE len(i) < len(n + 1)
      <4>1. \A j \in 1..n + 1 : len(j) <= len(n + 1)
        BY <2>1, <2>2, <3>1, <3>3
      <4> QED BY <2>1, <4>1
    <3> QED BY <2>1, <2>2, <3>1, <3>2, <3>3
  <2> QED BY <1>3, <2>3, <2>4
<1>4. Top(Len(zones))
  <2> HIDE DEF Top
  <2>1. 0 \in T /\ \A n \in 0..Len(zones) : n < Len(zones) /\ n \in T => n + 1 \in T
    BY <1>1, <1>3
  <2>2. \A n \in 0..Len(zones) : n \in T
    <3> HIDE DEF T
    <3> QED BY <1>1, <2>1, AllUpTo
  <2> QED BY <1>1, <2>2
<1>5. best \in SUBSET Nat /\ best # {}
  BY <1>1, <1>4
<1>6. Min(best) \in best
  <2> HIDE DEF best
  <2> QED BY <1>5, MinIsLeast
<1>7. LongestOf(zones) = zones[Min(best)]
  BY DEF LongestOf, len
<1> DEFINE i == Min(best)
<1>8. i \in DOMAIN zones /\ \A j \in DOMAIN zones : len(j) <= len(i)
  BY <1>6
<1> HIDE DEF i
<1> QED BY <1>7, <1>8 DEF ToSet, len, i
--------------------------------------------------------------------------------
\* The invariant of the client, and its pages.

\* What a read returns: objects that are not blank.
Collected == Seq(Objects \ Blank)

\* Types, and how the locals of a call fit its kind.
CTyped ==
  /\ objects \in Seq(Objects) /\ kept \subseteq ToSet(objects)
  /\ edits \in {"none", "added", "removed"} /\ told \in BOOLEAN
  /\ call \in [kind : {"none", "items", "zones"}, next : Nat, got : Collected]
  /\ result \in [class : {"none", "ok"} \cup ErrorClasses, got : Collected]
  /\ call.kind # "none" => result = NoResult
  /\ call.kind = "zones" => call.next # 0

\* How many of the listed objects lie before the next page.
Position == IF call.kind = "items" THEN call.next ELSE (call.next - 1) * PageSize

\* The invariant of the loops, once for a list at rest and once for one that grows.
ReadSoFar ==
  call.kind # "none" =>
    /\ edits = "none" =>
         Position <= Len(objects) /\ call.got = Named(SubSeq(objects, 1, Position))
    /\ edits # "removed" =>
         \A i \in 1..Len(objects) :
           i <= Position /\ objects[i] \in kept \ Blank => objects[i] \in ToSet(call.got)

\* Inductive for the client.
CInv == CTyped /\ ReadSoFar /\ ReadIsWhole /\ KeptAreSeen

\* The objects with an id or ip among those of a page or listing.
LEMMA NamedTyped ==
  ASSUME NEW seq \in Seq(Objects)
  PROVE  Named(seq) \in Collected /\ ToSet(Named(seq)) = ToSet(seq) \ Blank
<1>1. ToSet(seq) \subseteq Objects
  BY ElementOfSeq, LenProperties DEF ToSet
<1>2. /\ Named(seq) \in Seq(Objects \cap (Objects \ Blank))
      /\ ToSet(Named(seq)) = ToSet(seq) \cap (Objects \ Blank)
  BY OnlyCollects DEF Named
<1>3. Objects \cap (Objects \ Blank) = Objects \ Blank
  OBVIOUS
<1> QED BY <1>1, <1>2, <1>3 DEF Collected

LEMMA NamedOfNothing == Named(<<>>) = <<>>
<1>1. <<>> \in Seq(Objects) /\ Len(<<>>) = 0
  OBVIOUS
<1>2. OnlyTo(<<>>, Objects \ Blank)[0] = <<>>
  BY <1>1, OnlyRound
<1> QED BY <1>1, <1>2 DEF Named, Only

\* A page, of any listing and position, collects all that the position and the page
\* size promise,
LEMMA PageRead ==
  ASSUME objects \in Seq(Objects), NEW p \in Nat
  PROVE  /\ Named(PageAfter(p)) \in Collected
         /\ \A i \in 1..Len(objects) :
              p < i /\ i <= p + PageSize /\ objects[i] \notin Blank =>
                objects[i] \in ToSet(Named(PageAfter(p)))
<1> DEFINE last == IF p + PageSize < Len(objects) THEN p + PageSize ELSE Len(objects)
           page == PageAfter(p)
<1>1. /\ Len(objects) \in Nat /\ PageSize \in Nat /\ PageSize # 0
      /\ \A i \in 1..Len(objects) : objects[i] \in Objects
  BY LenProperties, ElementOfSeq, PagesAssumption
<1>2. page = SubSeq(objects, p + 1, last)
  BY DEF PageAfter
<1>3. last \in Nat /\ \A i \in p + 1..last : objects[i] \in Objects
  BY <1>1
<1>4. \A i \in 1..Len(objects) : p < i /\ i <= p + PageSize => i \in p + 1..last
  BY <1>1
<1> HIDE DEF last
<1>5. /\ page \in Seq(Objects)
      /\ Len(page) = IF p + 1 <= last THEN last - (p + 1) + 1 ELSE 0
      /\ \A i \in 1..last - (p + 1) + 1 : page[i] = objects[p + 1 + i - 1]
  <2>1. p + 1 \in Int /\ last \in Int
    BY <1>3
  <2> QED BY <1>2, <1>3, <2>1, SubSeqProperties
<1>6. Named(page) \in Collected /\ ToSet(Named(page)) = ToSet(page) \ Blank
  BY <1>5, NamedTyped
<1>7. ASSUME NEW i \in p + 1..last PROVE objects[i] \in ToSet(page)
  <2>1. i - p \in 1..last - (p + 1) + 1 /\ p + 1 + (i - p) - 1 = i /\ i - p \in 1..Len(page)
    BY <1>3, <1>5
  <2>2. page[i - p] = objects[i]
    BY <1>5, <2>1
  <2>3. DOMAIN page = 1..Len(page)
    BY <1>5, LenProperties
  <2> HIDE DEF page
  <2> QED BY <2>1, <2>2, <2>3 DEF ToSet
<1> QED BY <1>4, <1>6, <1>7

\* and continues what was read before without gap or repetition.
LEMMA PageAppended ==
  ASSUME objects \in Seq(Objects), NEW p \in Nat, p <= Len(objects)
  PROVE  Named(SubSeq(objects, 1, p)) \o Named(PageAfter(p)) =
           Named(SubSeq(objects, 1, IF MoreAfter(p) THEN p + PageSize ELSE Len(objects)))
<1> DEFINE last == IF MoreAfter(p) THEN p + PageSize ELSE Len(objects)
           start == SubSeq(objects, 1, p)
           page == SubSeq(objects, p + 1, last)
<1>1. /\ Len(objects) \in Nat /\ PageSize \in Nat
      /\ \A i \in 1..Len(objects) : objects[i] \in Objects
  BY LenProperties, ElementOfSeq, PagesAssumption
<1>2. last \in p..Len(objects)
  BY <1>1 DEF MoreAfter
<1>3. PageAfter(p) = page
  BY DEF PageAfter, MoreAfter
<1> HIDE DEF last
<1>4. start \in Seq(Objects) /\ page \in Seq(Objects)
  <2>1. start \in Seq(Objects)
    BY <1>1, SubSeqProperties
  <2>2. /\ p + 1 \in Int /\ last \in Int
        /\ \A i \in p + 1..last : objects[i] \in Objects
    BY <1>1, <1>2
  <2>3. page \in Seq(Objects)
    BY <2>2, SubSeqProperties
  <2> QED BY <2>1, <2>3
<1>5. start \o page = SubSeq(objects, 1, last)
  <2>1. 1 \in 1..Len(objects) + 1 /\ p \in 1 - 1..Len(objects)
    BY <1>1
  <2> QED BY <1>2, <2>1, ConcatAdjacentSubSeq
<1> HIDE DEF start, page
<1>6. Named(start \o page) = Named(start) \o Named(page)
  BY <1>4, OnlyOfConcat DEF Named
<1> QED BY <1>3, <1>5, <1>6 DEF start, page, last

\* There is a next page by number exactly if there is one by position.
LEMMA PagesCover ==
  ASSUME NEW count \in Nat, NEW n \in Nat \ {0}
  PROVE  n < PagesOf(count) <=> n * PageSize < count
<1> USE PagesAssumption
<1>1. CASE count = 0
  <2>1. n * PageSize >= 0
    OBVIOUS
  <2> QED BY <1>1, <2>1 DEF PagesOf
<1>2. CASE count # 0
  <2> DEFINE q == (count + PageSize - 1) \div PageSize
  <2>1. /\ q \in Int /\ PageSize * q <= count + PageSize - 1
        /\ count + PageSize - 1 < PageSize * q + PageSize
    OBVIOUS
  <2> HIDE DEF q
  <2>2. CASE n < q
    <3>1. PageSize * (n + 1) <= PageSize * q
      BY <2>1, <2>2
    <3>2. PageSize * (n + 1) = n * PageSize + PageSize
      OBVIOUS
    <3>3. n * PageSize \in Int /\ PageSize * q \in Int
      BY <2>1
    <3>4. n * PageSize < count
      BY <2>1, <3>1, <3>2, <3>3
    <3> QED BY <1>2, <2>2, <3>4 DEF PagesOf, q
  <2>3. CASE q <= n
    <3>1. PageSize * q <= PageSize * n
      BY <2>1, <2>3
    <3>2. PageSize * n = n * PageSize /\ n * PageSize \in Int /\ PageSize * q \in Int
      BY <2>1
    <3>3. ~(n * PageSize < count)
      BY <2>1, <3>1, <3>2
    <3>4. ~(n < q)
      BY <2>1, <2>3
    <3> QED BY <1>2, <3>3, <3>4 DEF PagesOf, q
  <2> QED BY <2>1, <2>2, <2>3
<1> QED BY <1>1, <1>2
--------------------------------------------------------------------------------
\* The steps of the client.

\* An answer is of class "ok" or one of the errors.
LEMMA ClassesTyped == {ClassOf(a) : a \in HttpAnswer} \subseteq {"ok"} \cup ErrorClasses
<1>1. ASSUME NEW a \in HttpAnswer PROVE ClassOf(a) \in {"ok"} \cup ErrorClasses
  BY DEF ClassOf, HttpAnswer, Statuses, Bodies, NoAnswer, ErrorClasses
<1> QED BY <1>1

LEMMA PositionTyped == CTyped /\ call.kind # "none" => Position \in Nat
<1> SUFFICES ASSUME CTyped, call.kind # "none" PROVE Position \in Nat
  OBVIOUS
<1>1. call.next \in Nat /\ PageSize \in Nat
  BY PagesAssumption DEF CTyped
<1>2. CASE call.kind = "items"
  BY <1>1, <1>2 DEF Position
<1>3. CASE call.kind = "zones"
  <2>1. call.next - 1 \in Nat
    BY <1>1, <1>3 DEF CTyped
  <2>2. (call.next - 1) * PageSize \in Nat
    BY <1>1, <2>1
  <2> QED BY <1>3, <2>2 DEF Position
<1> QED BY <1>2, <1>3 DEF CTyped

\* A page that is not the last, and the last one, whichever of the two calls made it.
LEMMA PageGoesOn ==
  ASSUME CInv, call.kind # "none", NEW next \in Nat \ {0}, MoreAfter(Position),
         GoesOn(next, call.got \o Named(PageAfter(Position))),
         Position' = Position + PageSize, told' \in BOOLEAN, UNCHANGED <<objects, kept, edits>>
  PROVE  CInv'
<1> DEFINE page == Named(PageAfter(Position))
           got == call.got \o page
<1>1. /\ CTyped /\ objects \in Seq(Objects) /\ Len(objects) \in Nat
      /\ Position \in Nat /\ PageSize \in Nat /\ call.got \in Collected
  BY PositionTyped, PagesAssumption, LenProperties DEF CInv, CTyped
<1>2. /\ page \in Collected
      /\ \A i \in 1..Len(objects) :
           Position < i /\ i <= Position + PageSize /\ objects[i] \notin Blank =>
             objects[i] \in ToSet(page)
  BY <1>1, PageRead
<1>3. call' = [call EXCEPT !.next = next, !.got = got] /\ UNCHANGED <<result, objects, kept, edits>>
  BY DEF GoesOn
<1>4. Position + PageSize < Len(objects)
  BY DEF MoreAfter
<1>5. edits = "none" => got = Named(SubSeq(objects, 1, Position + PageSize))
  BY <1>1, <1>4, PageAppended DEF CInv, ReadSoFar
<1> HIDE DEF page
<1>6. got \in Collected /\ ToSet(got) = ToSet(call.got) \cup ToSet(page)
  BY <1>1, <1>2, ConcatProperties, ToSetOfConcat DEF Collected
<1> HIDE DEF got
<1>7. /\ call' \in [kind : {"none", "items", "zones"}, next : Nat, got : Collected]
      /\ call'.kind = call.kind /\ call'.next = next /\ call'.got = got
  BY <1>1, <1>3, <1>6 DEF CTyped
<1>8. CTyped'
  BY <1>1, <1>3, <1>7 DEF CTyped
<1>9. ReadSoFar'
  <2>1. edits' = "none" =>
          Position' <= Len(objects') /\ call'.got = Named(SubSeq(objects', 1, Position'))
    BY <1>1, <1>3, <1>4, <1>5, <1>7 DEF Named
  <2>2. ASSUME edits' # "removed", NEW i \in 1..Len(objects'), i <= Position',
               objects'[i] \in kept' \ Blank
        PROVE  objects'[i] \in ToSet(call'.got)
    <3>1. CASE i <= Position
      BY <1>3, <1>6, <1>7, <2>2, <3>1 DEF CInv, ReadSoFar
    <3>2. CASE Position < i
      BY <1>2, <1>3, <1>6, <1>7, <2>2, <3>2
    <3> QED BY <1>1, <1>3, <3>1, <3>2
  <2> QED BY <2>1, <2>2 DEF ReadSoFar
<1>10. ReadIsWhole' /\ KeptAreSeen'
  BY <1>7 DEF ReadIsWhole, KeptAreSeen, Done
<1> QED BY <1>8, <1>9, <1>10 DEF CInv

LEMMA PageReturns ==
  ASSUME CInv, call.kind # "none", told' => ~MoreAfter(Position), told' \in BOOLEAN,
         Returns(call.got \o Named(PageAfter(Position))), UNCHANGED <<objects, kept, edits>>
  PROVE  CInv'
<1> DEFINE page == Named(PageAfter(Position))
           got == call.got \o page
<1>1. /\ CTyped /\ objects \in Seq(Objects) /\ Len(objects) \in Nat
      /\ Position \in Nat /\ PageSize \in Nat /\ call.got \in Collected
  BY PositionTyped, PagesAssumption, LenProperties DEF CInv, CTyped
<1>2. /\ page \in Collected
      /\ \A i \in 1..Len(objects) :
           Position < i /\ i <= Position + PageSize /\ objects[i] \notin Blank =>
             objects[i] \in ToSet(page)
  BY <1>1, PageRead
<1>3. /\ call' = NoCall /\ result' = [class |-> "ok", got |-> got]
      /\ UNCHANGED <<objects, kept, edits>>
  BY DEF Returns
<1>4. told' => Len(objects) <= Position + PageSize
  BY <1>1 DEF MoreAfter
<1> DEFINE last == IF MoreAfter(Position) THEN Position + PageSize ELSE Len(objects)
<1>5. edits = "none" => got = Named(SubSeq(objects, 1, last))
  BY <1>1, PageAppended DEF CInv, ReadSoFar
<1>11. last \in 0..Len(objects) /\ (told' => last = Len(objects))
  BY <1>1 DEF MoreAfter
<1> HIDE DEF page, last
<1>6. got \in Collected /\ ToSet(got) = ToSet(call.got) \cup ToSet(page)
  BY <1>1, <1>2, ConcatProperties, ToSetOfConcat DEF Collected
<1> HIDE DEF got
<1>7. CTyped'
  BY <1>1, <1>3, <1>6 DEF CTyped, NoCall, Collected
<1>8. ReadSoFar'
  BY <1>3 DEF ReadSoFar, NoCall
<1>9. ReadIsWhole'
  BY <1>3, <1>5, <1>11 DEF ReadIsWhole, Named
<1>10. KeptAreSeen'
  <2> SUFFICES ASSUME told', edits # "removed", NEW x \in kept \ Blank PROVE x \in ToSet(got)
    BY <1>3 DEF KeptAreSeen
  <2>1. PICK i \in 1..Len(objects) : objects[i] = x
    BY <1>1, LenProperties DEF CTyped, ToSet
  <2>2. CASE i <= Position
    BY <1>6, <2>1, <2>2 DEF CInv, ReadSoFar
  <2>3. CASE Position < i
    BY <1>1, <1>2, <1>4, <1>6, <2>1, <2>3
  <2> QED BY <1>1, <2>2, <2>3
<1> QED BY <1>7, <1>8, <1>9, <1>10 DEF CInv

\* Either, with the answer that says what follows or does not.
LEMMA PageKeeps ==
  ASSUME CInv, call.kind # "none", NEW next \in Nat \ {0},
         Reads(call.got \o Named(PageAfter(Position)), MoreAfter(Position), next),
         GoesOn(next, call.got \o Named(PageAfter(Position))) => Position' = Position + PageSize
  PROVE  CInv'
<1> DEFINE got == call.got \o Named(PageAfter(Position))
<1>1. /\ told' \in BOOLEAN /\ UNCHANGED <<objects, kept, edits>>
      /\ IF told' /\ MoreAfter(Position) THEN GoesOn(next, got) ELSE Returns(got)
  BY DEF Reads
<1>2. CASE told' /\ MoreAfter(Position)
  BY <1>1, <1>2, PageGoesOn
<1>3. CASE ~(told' /\ MoreAfter(Position))
  BY <1>1, <1>3, PageReturns
<1> QED BY <1>2, <1>3

\* One lemma per step of the client and of those who edit the list.
LEMMA ItemsPageKeeps == CInv /\ ItemsPage => CInv'
<1> SUFFICES ASSUME CInv, ItemsPage PROVE CInv'
  OBVIOUS
<1>1. /\ call.kind = "items" /\ Position = call.next /\ call.next \in Nat
      /\ PageSize \in Nat \ {0}
  BY PagesAssumption DEF ItemsPage, Position, CInv, CTyped
<1>2. Reads(call.got \o Named(PageAfter(Position)), MoreAfter(Position), call.next + PageSize)
  BY <1>1 DEF ItemsPage
<1>3. call.next + PageSize \in Nat \ {0}
  BY <1>1
<1>4. ASSUME GoesOn(call.next + PageSize, call.got \o Named(PageAfter(Position)))
      PROVE  Position' = Position + PageSize
  <2>1. call'.kind = "items" /\ call'.next = call.next + PageSize
    BY <1>1, <1>4 DEF GoesOn, CInv, CTyped
  <2> QED BY <1>1, <2>1 DEF Position
<1> QED BY <1>1, <1>2, <1>3, <1>4, PageKeeps

LEMMA ZonesPageKeeps == CInv /\ ZonesPage => CInv'
<1> SUFFICES ASSUME CInv, ZonesPage PROVE CInv'
  OBVIOUS
<1>1. /\ call.kind = "zones" /\ Position = (call.next - 1) * PageSize /\ call.next \in Nat \ {0}
      /\ PageSize \in Nat \ {0} /\ Len(objects) \in Nat
  BY PagesAssumption, LenProperties DEF ZonesPage, Position, CInv, CTyped
<1>2. Position + PageSize = call.next * PageSize
  BY <1>1
<1>3. MoreAfter(Position) <=> call.next < TotalPages
  BY <1>1, <1>2, PagesCover DEF MoreAfter, TotalPages
<1>4. Reads(call.got \o Named(PageAfter(Position)), MoreAfter(Position), call.next + 1)
  <2>1. Reads(call.got \o Named(PageAfter(Position)), call.next < TotalPages, call.next + 1)
    BY <1>1 DEF ZonesPage
  <2> QED BY <1>3, <2>1 DEF Reads
<1>5. call.next + 1 \in Nat \ {0}
  BY <1>1
<1>6. ASSUME GoesOn(call.next + 1, call.got \o Named(PageAfter(Position)))
      PROVE  Position' = Position + PageSize
  <2>1. call'.kind = "zones" /\ call'.next = call.next + 1
    BY <1>1, <1>6 DEF GoesOn, CInv, CTyped
  <2>2. (call.next + 1) - 1 = call.next
    BY <1>1
  <2> QED BY <1>2, <2>1, <2>2 DEF Position
<1> QED BY <1>1, <1>4, <1>5, <1>6, PageKeeps

LEMMA PageFailsKeeps == CInv /\ PageFails => CInv'
<1> SUFFICES ASSUME CInv, PageFails PROVE CInv'
  OBVIOUS
<1>1. PICK class \in {ClassOf(a) : a \in HttpAnswer} \ {"ok"} :
        result' = [class |-> class, got |-> <<>>]
  BY DEF PageFails
<1>2. class \in ErrorClasses
  BY ClassesTyped
<1>3. call' = NoCall /\ UNCHANGED <<objects, kept, edits, told>>
  BY DEF PageFails
<1>4. CTyped'
  BY <1>1, <1>2, <1>3 DEF CInv, CTyped, NoCall, Collected
<1>5. ReadSoFar' /\ ReadIsWhole' /\ KeptAreSeen'
  BY <1>1, <1>3 DEF ReadSoFar, ReadIsWhole, KeptAreSeen, Done, NoCall
<1> QED BY <1>4, <1>5 DEF CInv

LEMMA ObjectAddedKeeps == CInv /\ ObjectAdded => CInv'
<1> SUFFICES ASSUME CInv, ObjectAdded PROVE CInv'
  OBVIOUS
<1>1. PICK o \in Objects \ ToSet(objects), k \in 1..Len(objects) + 1 :
        objects' = InsertAt(objects, k, o)
  BY DEF ObjectAdded
<1>2. /\ CTyped /\ call.kind # "none" /\ UNCHANGED <<call, result, kept, told>>
      /\ edits' = IF edits = "removed" THEN edits ELSE "added"
  BY DEF ObjectAdded, CInv
<1>3. objects \in Seq(Objects) /\ Len(objects) \in Nat /\ DOMAIN objects = 1..Len(objects)
  BY <1>2, LenProperties DEF CTyped
<1>4. /\ objects' \in Seq(Objects) /\ Len(objects') = Len(objects) + 1
      /\ objects'[k] = o
      /\ \A j \in 1..k - 1 : objects'[j] = objects[j]
      /\ \A j \in k..Len(objects) : objects'[j + 1] = objects[j]
  <2> DEFINE new == InsertAt(objects, k, o)
  <2>1. o \in Objects /\ objects' = new
    BY <1>1
  <2>2. new \in Seq(Objects) /\ Len(new) = Len(objects) + 1 /\ new[k] = o
    <3>1. new \in Seq(Objects)
      BY <1>3, <2>1, Inserted
    <3>2. Len(new) = Len(objects) + 1
      BY <1>3, <2>1, Inserted
    <3>3. new[k] = o
      BY <1>3, <2>1, Inserted
    <3> QED BY <3>1, <3>2, <3>3
  <2>3. \A j \in 1..k - 1 : new[j] = objects[j]
    BY <1>3, <2>1, Inserted
  <2>4. \A j \in k..Len(objects) : new[j + 1] = objects[j]
    BY <1>3, <2>1, Inserted
  <2> HIDE DEF new
  <2> QED BY <2>1, <2>2, <2>3, <2>4
<1>5. kept' \subseteq ToSet(objects')
  <2> SUFFICES ASSUME NEW x \in kept PROVE x \in ToSet(objects')
    BY <1>2
  <2>1. PICK j \in 1..Len(objects) : objects[j] = x
    BY <1>2, <1>3 DEF CTyped, ToSet
  <2>2. PICK i \in 1..Len(objects') : objects'[i] = x
    <3>1. CASE j \in 1..k - 1
      BY <1>3, <1>4, <2>1, <3>1
    <3>2. CASE j \in k..Len(objects)
      <4>1. j + 1 \in 1..Len(objects')
        BY <1>3, <1>4
      <4> QED BY <1>4, <2>1, <3>2, <4>1
    <3> QED BY <1>3, <3>1, <3>2
  <2> QED BY <1>4, <2>2, LenProperties DEF ToSet
<1>6. CTyped'
  BY <1>2, <1>4, <1>5 DEF CTyped
<1>7. ReadSoFar'
  <2> SUFFICES ASSUME edits # "removed", NEW i \in 1..Len(objects'), i <= Position,
                      objects'[i] \in kept \ Blank
               PROVE  objects'[i] \in ToSet(call.got)
    <3>1. Position' = Position
      BY <1>2 DEF Position
    <3> QED BY <1>2, <3>1 DEF ReadSoFar
  <2>1. \A j \in 1..Len(objects) :
          j <= Position /\ objects[j] \in kept \ Blank => objects[j] \in ToSet(call.got)
    BY <1>2 DEF CInv, ReadSoFar
  <2>2. Position \in Nat
    BY <1>2, PositionTyped
  <2>3. CASE i < k
    <3>1. i \in 1..k - 1 /\ i \in 1..Len(objects)
      BY <1>3, <1>4, <2>3
    <3> QED BY <1>4, <2>1, <3>1
  <2>4. CASE i = k
    BY <1>1, <1>2, <1>4, <2>4 DEF CTyped
  <2>5. CASE k < i
    <3>1. /\ i - 1 \in k..Len(objects) /\ i - 1 \in 1..Len(objects)
          /\ (i - 1) + 1 = i /\ i - 1 <= Position
      BY <1>3, <1>4, <2>2, <2>5
    <3>2. objects'[i] = objects[i - 1]
      BY <1>4, <3>1
    <3> QED BY <2>1, <3>1, <3>2
  <2> QED BY <1>4, <2>3, <2>4, <2>5
<1>8. ReadIsWhole' /\ KeptAreSeen'
  BY <1>2 DEF ReadIsWhole, KeptAreSeen, Done
<1> QED BY <1>6, <1>7, <1>8 DEF CInv

LEMMA ObjectRemovedKeeps == CInv /\ ObjectRemoved => CInv'
<1> SUFFICES ASSUME CInv, ObjectRemoved PROVE CInv'
  OBVIOUS
<1>1. PICK k \in DOMAIN objects : objects' = RemoveAt(objects, k) /\ kept' = kept \ {objects[k]}
  BY DEF ObjectRemoved
<1>2. CTyped /\ call.kind # "none" /\ UNCHANGED <<call, result, told>> /\ edits' = "removed"
  BY DEF ObjectRemoved, CInv
<1>3. objects \in Seq(Objects) /\ DOMAIN objects = 1..Len(objects)
  BY <1>2, LenProperties DEF CTyped
<1>4. /\ objects' \in Seq(Objects)
      /\ \A j \in 1..Len(objects) : j # k => objects[j] \in ToSet(objects')
  BY <1>1, <1>3, Removed
<1>5. kept' \subseteq ToSet(objects')
  BY <1>1, <1>2, <1>3, <1>4 DEF CTyped, ToSet
<1>6. CTyped'
  BY <1>2, <1>4, <1>5 DEF CTyped
<1>7. ReadSoFar' /\ ReadIsWhole' /\ KeptAreSeen'
  BY <1>2 DEF ReadSoFar, ReadIsWhole, KeptAreSeen
<1> QED BY <1>6, <1>7 DEF CInv

LEMMA CallBeginsKeeps ==
  ASSUME CInv, NEW kind \in {"items", "zones"}, CallBegins(kind)
  PROVE  CInv'
<1>1. /\ call' = [kind |-> kind, next |-> IF kind = "items" THEN 0 ELSE 1, got |-> <<>>]
      /\ result' = NoResult /\ objects' \in Listings /\ kept' = ToSet(objects') /\ edits' = "none"
      /\ told' = TRUE
  BY DEF CallBegins
<1>2. objects' \in Seq(Objects)
  <2>1. PICK n \in 0..Cardinality(Objects) : objects' \in [1..n -> Objects]
    BY <1>1 DEF Listings, BoundedSeq, SeqOf
  <2>2. n \in Nat
    BY PagesAssumption, FS_CardinalityType
  <2> QED BY <2>1, <2>2
<1>3. CTyped'
  BY <1>1, <1>2 DEF CTyped, Collected, NoResult
<1>4. Position' = 0 /\ 0 <= Len(objects')
  <2>1. (1 - 1) * PageSize = 0
    BY PagesAssumption
  <2> QED BY <1>1, <1>2, <2>1, LenProperties DEF Position
<1>5. ReadSoFar'
  <2>1. SubSeq(objects', 1, 0) = <<>>
    BY SubSeqEmpty
  <2>2. call'.got = Named(SubSeq(objects', 1, Position'))
    BY <1>1, <1>4, <2>1, NamedOfNothing
  <2>3. \A i \in 1..Len(objects') : ~(i <= Position')
    BY <1>2, <1>4, LenProperties
  <2> QED BY <1>1, <1>4, <2>2, <2>3 DEF ReadSoFar, Named
<1>6. ReadIsWhole' /\ KeptAreSeen'
  BY <1>1 DEF ReadIsWhole, KeptAreSeen, Done
<1> QED BY <1>3, <1>5, <1>6 DEF CInv

LEMMA ForgetsKeeps == CInv /\ Forgets => CInv'
<1> SUFFICES ASSUME CInv, Forgets PROVE CInv'
  OBVIOUS
<1>1. objects' = <<>> /\ kept' = {} /\ edits' = "none" /\ told' = TRUE /\ call' = NoCall /\ result' = NoResult
  BY DEF Forgets
<1>2. CTyped'
  BY <1>1 DEF CTyped, NoCall, NoResult, Collected
<1>3. ReadSoFar' /\ ReadIsWhole' /\ KeptAreSeen'
  BY <1>1 DEF ReadSoFar, ReadIsWhole, KeptAreSeen, Done, NoCall, NoResult
<1> QED BY <1>2, <1>3 DEF CInv

LEMMA ClientRests == CInv /\ UNCHANGED cvars => CInv'
<1> SUFFICES ASSUME CInv, UNCHANGED cvars PROVE CInv'
  OBVIOUS
<1>1. UNCHANGED <<objects, call, result, kept, edits, told>>
  BY DEF cvars
<1>2. CTyped' /\ KeptAreSeen'
  BY <1>1 DEF CInv, CTyped, KeptAreSeen, Done
<1>3. ReadSoFar'
  BY <1>1 DEF CInv, ReadSoFar, Position, Named
<1>4. ReadIsWhole'
  BY <1>1 DEF CInv, ReadIsWhole, Done, Named
<1> QED BY <1>2, <1>3, <1>4 DEF CInv

LEMMA CInitHolds == CInit => CInv
<1> SUFFICES ASSUME CInit PROVE CInv
  OBVIOUS
<1>1. /\ objects = <<>> /\ kept = {} /\ edits = "none" /\ told = TRUE
      /\ call = NoCall /\ result = NoResult
  BY DEF CInit
<1>2. CTyped
  BY <1>1 DEF CTyped, NoCall, NoResult, Collected
<1>3. ReadSoFar /\ ReadIsWhole /\ KeptAreSeen
  BY <1>1 DEF ReadSoFar, ReadIsWhole, KeptAreSeen, Done, NoCall, NoResult
<1> QED BY <1>2, <1>3 DEF CInv
--------------------------------------------------------------------------------
\* The dialog.

\* What a name is that zones are read for.
Names == {name \in Seq(Labels) : IsName(name)}

\* The dialog and the stored options.
DTyped ==
  /\ dialog \in [at : {"closed", "form", "finding"}, name : Seq(Labels),
                 error : Keys \cup {"dns_zone_not_found"}]
  /\ dialog.at = "finding" => dialog.name \in Names
  /\ call.kind = "zones" => dialog.at = "finding"
  /\ dns = NoDns \/ dns \in [name : Names, zone : Objects \ Blank]

\* Inductive for the dialog with its client.
OInv == CInv /\ DTyped

LEMMA KeysTyped == "none" \in Keys /\ \A class : ErrorKey(class) \in Keys
<1>1. /\ ErrorKey("auth") \in Keys /\ ErrorKey("rate") \in Keys /\ ErrorKey("connection") \in Keys
      /\ ErrorKey("api") \in Keys
  BY DEF Keys, ErrorClasses
<1>2. /\ ErrorKey("auth") = "invalid_auth" /\ ErrorKey("rate") = "rate_limit"
      /\ ErrorKey("connection") = "cannot_connect" /\ ErrorKey("api") = "unknown"
  BY DEF ErrorKey
<1>3. ASSUME NEW class
      PROVE  ErrorKey(class) \in {"invalid_auth", "rate_limit", "cannot_connect", "unknown"}
  BY DEF ErrorKey
<1> QED BY <1>1, <1>2, <1>3 DEF Keys

LEMMA IntervalEnds ==
  ASSUME NEW n \in Nat \ {0}
  PROVE  /\ 1 \in 1..n /\ n \in 1..n /\ n # 0
         /\ \A k \in Nat : 1..k = 1..n => k = n
<1> SUFFICES ASSUME NEW k \in Nat, 1..k = 1..n PROVE k = n
  OBVIOUS
<1>1. n \in 1..k
  OBVIOUS
<1>2. CASE k = 0
  BY <1>1, <1>2
<1>3. CASE k # 0
  <2>1. k \in 1..k
    BY <1>3
  <2> QED BY <1>1, <2>1
<1> QED BY <1>2, <1>3

\* A name in lower case has the labels of the name, and stays as it is.
LEMMA LowerIsName ==
  ASSUME NEW name \in Seq(Labels), NEW n \in Nat \ {0}, Len(name) = n,
         name[1] # "", name[n] # ""
  PROVE  Lower(name) \in Names
<1> DEFINE low == [i \in 1..n |-> LowerCase[name[i]]]
<1>1. DOMAIN name = 1..n /\ \A i \in 1..n : name[i] \in Labels
  BY LenProperties, ElementOfSeq
<1>2. Lower(name) = low
  BY <1>1 DEF Lower
<1>3. \A i \in 1..n : low[i] = LowerCase[name[i]] /\ low[i] \in Labels
  BY <1>1, NamesAssumption
<1>4. low \in [1..n -> Labels]
  BY <1>3
<1>5. \A i \in 1..n : LowerCase[low[i]] = low[i] /\ (low[i] = "" <=> name[i] = "")
  BY <1>1, <1>3, NamesAssumption
<1>6. DOMAIN low = 1..n
  OBVIOUS
<1> HIDE DEF low
<1>7. low \in Seq(Labels)
  BY <1>4, SeqDef
<1>8. Len(low) = n
  <2>1. Len(low) \in Nat /\ 1..Len(low) = 1..n
    BY <1>6, <1>7, LenProperties
  <2> QED BY <2>1, IntervalEnds
<1>9. [i \in 1..n |-> LowerCase[low[i]]] = low
  BY <1>4, <1>5
<1>10. Lower(low) = low
  BY <1>6, <1>9 DEF Lower
<1>11. 1 \in 1..n /\ n \in 1..n /\ n # 0
  BY IntervalEnds
<1>12. low # <<>>
  BY <1>8, <1>11
<1>13. low[1] # "" /\ low[Len(low)] # ""
  BY <1>5, <1>8, <1>11
<1> QED BY <1>2, <1>7, <1>10, <1>12, <1>13 DEF Names, IsName

\* strip(". ").lower() returns nothing, or a name in lower case that begins and ends with
\* a label.
LEMMA CleanedTyped ==
  ASSUME NEW input \in Inputs
  PROVE  Cleaned(input) = <<>> \/ Cleaned(input) \in Names
<1> DEFINE text == {i \in DOMAIN input : input[i] # ""}
<1>1. input \in Seq(Labels) /\ Len(input) \in Nat /\ DOMAIN input = 1..Len(input)
  BY NamesAssumption, LenProperties
<1>2. CASE text = {}
  BY <1>2 DEF Cleaned
<1>3. CASE text # {}
  <2>1. Min(text) \in text /\ Max(text) \in text /\ Min(text) <= Max(text)
    <3>1. text \in SUBSET Nat /\ text \in SUBSET (0..Len(input))
      <4>1. text \subseteq 1..Len(input)
        BY <1>1, Zenon
      <4> HIDE DEF text
      <4> QED BY <1>1, <4>1
    <3> HIDE DEF text
    <3> QED BY <1>1, <1>3, <3>1, MinIsLeast, MaxIsGreatest
  <2> DEFINE first == Min(text)
             last == Max(text)
  <2>2. Cleaned(input) = Lower(SubSeq(input, first, last))
    BY <1>3 DEF Cleaned
  <2>3. first \in 1..Len(input) /\ last \in 1..Len(input) /\ first <= last
    BY <1>1, <2>1
  <2>8. input[first] # "" /\ input[last] # ""
    BY <2>1
  <2> HIDE DEF first, last, text
  <2> DEFINE name == SubSeq(input, first, last)
  <2>4. /\ name \in Seq(Labels) /\ Len(name) = last - first + 1
        /\ \A i \in 1..last - first + 1 : name[i] = input[first + i - 1]
    <3>1. \A i \in first..last : input[i] \in Labels
      <4>1. \A i \in 1..Len(input) : input[i] \in Labels
        BY <1>1, ElementOfSeq
      <4> QED BY <1>1, <2>3, <4>1
    <3>2. first \in Int /\ last \in Int
      BY <1>1, <2>3
    <3> QED BY <2>3, <3>1, <3>2, SubSeqProperties
  <2>5. Len(name) \in 1..last - first + 1 /\ first + Len(name) - 1 = last
    BY <1>1, <2>3, <2>4
  <2>6. name[1] = input[first] /\ name[Len(name)] = input[last]
    BY <2>3, <2>4, <2>5
  <2>7. Len(name) \in Nat \ {0}
    BY <1>1, <2>3, <2>4
  <2> HIDE DEF name
  <2>9. Lower(name) \in Names
    BY <2>4, <2>6, <2>7, <2>8, LowerIsName
  <2> QED BY <2>2, <2>9 DEF name
<1> QED BY <1>2, <1>3

\* The zone that is about to be stored.
LEMMA StoredZone ==
  ASSUME OInv, Done, NEW owners, owners # <<>>,
         owners = Only(result.got, {z \in Objects : Owns(z, dialog.name)})
  PROVE  /\ LongestOf(owners) \in Objects \ Blank
         /\ Owns(LongestOf(owners), dialog.name)
         /\ told /\ edits # "removed" =>
              \A z \in kept \ Blank :
                Owns(z, dialog.name) => Len(ZoneName[z]) <= Len(ZoneName[LongestOf(owners)])
<1> DEFINE own == {z \in Objects : Owns(z, dialog.name)}
<1>1. result.got \in Seq(Objects \ Blank) /\ objects \in Seq(Objects)
  BY DEF OInv, CInv, CTyped, Collected
<1>2. ToSet(owners) = ToSet(result.got) \cap own /\ owners \in Seq((Objects \ Blank) \cap own)
  <2> HIDE DEF own
  <2> QED BY <1>1, OnlyCollects DEF own
<1>3. owners \in Seq(Objects)
  <2>1. (Objects \ Blank) \cap own \subseteq Objects
    OBVIOUS
  <2> QED BY <1>2, <2>1, SeqMonotonic
<1>4. /\ LongestOf(owners) \in ToSet(owners)
      /\ \A z \in ToSet(owners) : Len(ZoneName[z]) <= Len(ZoneName[LongestOf(owners)])
  BY <1>3, LongestExists
<1>5. ToSet(result.got) \subseteq Objects \ Blank
  BY <1>1, ElementOfSeq, LenProperties DEF ToSet
<1>6. told /\ edits # "removed" => kept \ Blank \subseteq ToSet(result.got)
  BY DEF OInv, CInv, KeptAreSeen
<1> QED BY <1>2, <1>4, <1>5, <1>6

LEMMA OInitHolds == OInit => OInv
<1> SUFFICES ASSUME OInit PROVE OInv
  OBVIOUS
<1>1. CInv /\ call = NoCall /\ dialog = NoDialog /\ dns = NoDns
  BY CInitHolds DEF OInit, CInit
<1> QED BY <1>1, KeysTyped DEF OInv, DTyped, NoDialog, NoCall

LEMMA CallKindKept ==
  ASSUME CInv, CallGoesOn \/ ObjectAdded \/ ObjectRemoved
  PROVE  call'.kind = "zones" => call.kind = "zones"
<1>1. call \in [kind : {"none", "items", "zones"}, next : Nat, got : Collected]
  BY DEF CInv, CTyped
<1>2. ASSUME NEW next, NEW got, GoesOn(next, got) PROVE call'.kind = call.kind
  BY <1>1, <1>2 DEF GoesOn
<1>3. ASSUME NEW got, Returns(got) PROVE call'.kind = "none"
  BY <1>3 DEF Returns, NoCall
<1>4. CASE ItemsPage
  BY <1>2, <1>3, <1>4 DEF ItemsPage, Reads
<1>5. CASE ZonesPage
  BY <1>2, <1>3, <1>5 DEF ZonesPage, Reads
<1>6. CASE PageFails
  BY <1>6 DEF PageFails, NoCall
<1>7. CASE ObjectAdded \/ ObjectRemoved
  BY <1>7 DEF ObjectAdded, ObjectRemoved
<1> QED BY <1>4, <1>5, <1>6, <1>7 DEF CallGoesOn

LEMMA ZonesFoundKeeps ==
  ASSUME OInv, ZonesFound
  PROVE  /\ OInv'
         /\ dns' # dns /\ dns' # NoDns =>
              /\ Owns(dns'.zone, dns'.name)
              /\ told /\ edits # "removed" =>
                   \A z \in kept \ Blank :
                     Owns(z, dns'.name) => Len(ZoneName[z]) <= Len(ZoneName[dns'.zone])
<1> DEFINE owners == Only(result.got, {z \in Objects : Owns(z, dialog.name)})
<1>1. /\ CInv' /\ call.kind = "none" /\ call' = NoCall
      /\ dialog.at = "finding" /\ dialog.name \in Names
  BY ForgetsKeeps DEF OInv, DTyped, ZonesFound, Forgets
<1>2. ErrorKey(result.class) \in Keys /\ "none" \in Keys
  BY KeysTyped
<1>3. CASE result.class # "ok"
  <2>1. dialog' = [NoDialog EXCEPT !.at = "form", !.error = ErrorKey(result.class)] /\ dns' = dns
    BY <1>3 DEF ZonesFound
  <2>2. DTyped'
    <3>1. dialog' = [at |-> "form", name |-> <<>>, error |-> ErrorKey(result.class)]
      BY <2>1 DEF NoDialog
    <3>2. /\ dialog' \in [at : {"closed", "form", "finding"}, name : Seq(Labels),
                          error : Keys \cup {"dns_zone_not_found"}]
          /\ dialog'.at = "form"
      BY <1>2, <3>1
    <3>3. call'.kind = "none"
      BY <1>1 DEF NoCall
    <3> QED BY <2>1, <3>2, <3>3 DEF OInv, DTyped
  <2> QED BY <1>1, <2>1, <2>2 DEF OInv
<1>4. CASE result.class = "ok" /\ owners = <<>>
  <2>1. dialog' = [NoDialog EXCEPT !.at = "form", !.error = "dns_zone_not_found"] /\ dns' = dns
    BY <1>4 DEF ZonesFound
  <2>2. DTyped'
    <3>1. dialog' = [at |-> "form", name |-> <<>>, error |-> "dns_zone_not_found"]
      BY <2>1 DEF NoDialog
    <3>2. /\ dialog' \in [at : {"closed", "form", "finding"}, name : Seq(Labels),
                          error : Keys \cup {"dns_zone_not_found"}]
          /\ dialog'.at = "form"
      BY <1>2, <3>1
    <3>3. call'.kind = "none"
      BY <1>1 DEF NoCall
    <3> QED BY <2>1, <3>2, <3>3 DEF OInv, DTyped
  <2> QED BY <1>1, <2>1, <2>2 DEF OInv
<1>5. CASE result.class = "ok" /\ owners # <<>>
  <2>1. dialog' = NoDialog /\ dns' = [name |-> dialog.name, zone |-> LongestOf(owners)]
    BY <1>5 DEF ZonesFound
  <2>2. Done
    BY <1>1, <1>5 DEF Done
  <2> HIDE DEF owners
  <2>3. /\ LongestOf(owners) \in Objects \ Blank
        /\ Owns(LongestOf(owners), dialog.name)
        /\ told /\ edits # "removed" =>
             \A z \in kept \ Blank :
               Owns(z, dialog.name) => Len(ZoneName[z]) <= Len(ZoneName[LongestOf(owners)])
    BY <1>5, <2>2, StoredZone DEF owners
  <2>4. /\ dns'.name = dialog.name /\ dns'.zone = LongestOf(owners)
        /\ dns' \in [name : Names, zone : Objects \ Blank]
    BY <1>1, <2>1, <2>3
  <2>5. DTyped'
    BY <1>1, <1>2, <2>1, <2>4 DEF DTyped, NoDialog, NoCall
  <2> QED BY <1>1, <2>3, <2>4, <2>5 DEF OInv
<1> QED BY <1>3, <1>4, <1>5

LEMMA ONextKeeps ==
  ASSUME OInv, [ONext]_ovars
  PROVE  /\ OInv'
         /\ dns' # dns /\ dns' # NoDns =>
              /\ Owns(dns'.zone, dns'.name)
              /\ told /\ edits # "removed" =>
                   \A z \in kept \ Blank :
                     Owns(z, dns'.name) => Len(ZoneName[z]) <= Len(ZoneName[dns'.zone])
<1>1. CASE OptionsOpen
  <2>1. CInv'
    BY <1>1, ClientRests DEF OptionsOpen, OInv
  <2>2. DTyped' /\ dns' = dns
    BY <1>1, KeysTyped DEF OptionsOpen, cvars, OInv, DTyped, NoDialog, NoCall
  <2> QED BY <2>1, <2>2 DEF OInv
<1>2. CASE OptionsSubmitted
  <2>1. PICK input \in Inputs :
          IF Cleaned(input) = <<>>
          THEN dns' = NoDns /\ dialog' = NoDialog /\ UNCHANGED cvars
          ELSE /\ dialog' = [at |-> "finding", name |-> Cleaned(input), error |-> "none"]
               /\ CallBegins("zones") /\ UNCHANGED dns
    BY <1>2 DEF OptionsSubmitted
  <2>2. CASE Cleaned(input) = <<>>
    <3>1. CInv'
      BY <2>1, <2>2, ClientRests DEF OInv
    <3>2. DTyped'
      <4>1. dns' = NoDns /\ dialog' = NoDialog /\ call' = call /\ dialog.at = "form"
        BY <1>2, <2>1, <2>2 DEF OptionsSubmitted, cvars
      <4> QED BY <4>1, KeysTyped DEF OInv, DTyped, NoDialog
    <3> QED BY <2>1, <2>2, <3>1, <3>2 DEF OInv
  <2>3. CASE Cleaned(input) # <<>>
    <3>1. CInv'
      BY <2>1, <2>3, CallBeginsKeeps DEF OInv
    <3>2. DTyped' /\ dns' = dns
      <4>1. /\ dialog' = [at |-> "finding", name |-> Cleaned(input), error |-> "none"]
            /\ dns' = dns
        BY <2>1, <2>3
      <4>2. Cleaned(input) \in Names /\ Cleaned(input) \in Seq(Labels)
        BY <2>3, CleanedTyped DEF Names
      <4> QED BY <4>1, <4>2, KeysTyped DEF OInv, DTyped
    <3> QED BY <3>1, <3>2 DEF OInv
  <2> QED BY <2>2, <2>3
<1>3. CASE ZonesFound
  BY <1>3, ZonesFoundKeeps
<1>4. CASE OptionsAbandoned
  <2>1. CInv'
    BY <1>4, ClientRests DEF OptionsAbandoned, OInv
  <2>2. DTyped' /\ dns' = dns
    BY <1>4, KeysTyped DEF OptionsAbandoned, cvars, OInv, DTyped, NoDialog
  <2> QED BY <2>1, <2>2 DEF OInv
<1>5. CASE ItemsCall
  <2>1. CInv'
    BY <1>5, CallBeginsKeeps, ForgetsKeeps DEF ItemsCall, OInv
  <2>2. call'.kind # "zones"
    BY <1>5 DEF ItemsCall, CallBegins, Forgets, NoCall
  <2>3. DTyped' /\ dns' = dns
    BY <1>5, <2>2 DEF ItemsCall, OInv, DTyped
  <2> QED BY <2>1, <2>3 DEF OInv
<1>6. CASE Pages
  <2>1. CInv'
    BY <1>6, ItemsPageKeeps, ZonesPageKeeps, PageFailsKeeps, ObjectAddedKeeps, ObjectRemovedKeeps
       DEF Pages, CallGoesOn, OInv
  <2>2. DTyped' /\ dns' = dns
    BY <1>6, CallKindKept DEF Pages, OInv, DTyped
  <2> QED BY <2>1, <2>2 DEF OInv
<1>7. CASE UNCHANGED ovars
  <2>1. CInv'
    <3>1. UNCHANGED cvars
      BY <1>7 DEF ovars
    <3> QED BY <3>1, ClientRests DEF OInv
  <2>2. DTyped' /\ dns' = dns
    BY <1>7 DEF ovars, cvars, OInv, DTyped
  <2> QED BY <2>1, <2>2 DEF OInv
<1> QED BY <1>1, <1>2, <1>3, <1>4, <1>5, <1>6, <1>7 DEF ONext

\* A paged read that returns has read the list from its beginning, without gap or
\* repetition, if nobody edited it meanwhile, and to its end if every page said what
\* follows it (the loops of async_get_list_items and async_get_zones).
THEOREM ReadsWhole == OSpec => []ReadIsWhole
<1>1. OInv => ReadIsWhole
  BY DEF OInv, CInv
<1> QED BY OInitHolds, ONextKeeps, <1>1, PTL DEF OSpec

\* With objects added between the pages, what was there all the time is not missed by a
\* read whose pages all said what follows.
THEOREM KeptSeen == OSpec => []KeptAreSeen
<1>1. OInv => KeptAreSeen
  BY DEF OInv, CInv
<1> QED BY OInitHolds, ONextKeeps, <1>1, PTL DEF OSpec

\* Types of the client and the dialog; zones are read only for a name that is one, and
\* a zone that is stored has an id.
THEOREM OptionsTypeCorrect == OSpec => []OTypeOK
<1>1. OInv => OTypeOK
  <2> SUFFICES ASSUME OInv PROVE OTypeOK
    OBVIOUS
  <2>1. ToSet(call.got) \subseteq Objects \ Blank /\ ToSet(result.got) \subseteq Objects \ Blank
    BY ElementOfSeq, LenProperties DEF OInv, CInv, CTyped, Collected, ToSet
  <2> QED BY <2>1 DEF OTypeOK, OInv, CInv, CTyped, DTyped, Names
<1> QED BY OInitHolds, ONextKeeps, <1>1, PTL DEF OSpec

\* The zone stored with a record name owns it, and no zone that was there all the time
\* is closer, if every page said what follows it (_async_find_zone).
THEOREM ZoneClosest == OSpec => ZoneIsClosest
<1>1. OInv /\ [ONext]_ovars =>
        [dns' # dns /\ dns' # NoDns =>
           /\ Owns(dns'.zone, dns'.name)
           /\ told /\ edits # "removed" =>
                \A z \in kept \ Blank :
                  Owns(z, dns'.name) => Len(ZoneName[z]) <= Len(ZoneName[dns'.zone])]_ovars
  BY ONextKeeps
<1> QED BY OInitHolds, ONextKeeps, <1>1, PTL DEF OSpec, ZoneIsClosest
================================================================================
