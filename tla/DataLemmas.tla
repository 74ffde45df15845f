------------------------------ MODULE DataLemmas ------------------------------
(***************************************************************************)
(* Facts that the proofs use, about sets of naturals, functions defined by  *)
(* recursion, sequences, their concatenation, and sums.                     *)
(***************************************************************************)
EXTENDS Integers, Sequences, FiniteSets, SequencesExt, FiniteSetsExt,
        TLAPS, SequenceTheorems, FiniteSetTheorems

\* A set of naturals that is not empty has a least element.
LEMMA MinOfNaturals ==
  ASSUME NEW S \in SUBSET Nat, S # {}
  PROVE  Min(S) \in S /\ \A x \in S : Min(S) <= x
<1> DEFINE T == {0..m : m \in S}
<1>1. IsWellFoundedOn(StrictSubsetOrdering(Nat), FiniteSubsetsOf(Nat))
  BY FS_StrictSubsetOrderingWellFounded
<1>2. T \subseteq FiniteSubsetsOf(Nat) /\ T # {}
  <2>1. ASSUME NEW m \in S PROVE 0..m \in FiniteSubsetsOf(Nat)
    <3>1. IsFiniteSet(0..m)
      BY FS_Interval
    <3>2. 0..m \subseteq Nat
      OBVIOUS
    <3>. QED
      BY <3>1, <3>2 DEF FiniteSubsetsOf
  <2>. QED
    BY <2>1
<1>3. \E x \in T : \A y \in T : ~ (<<y, x>> \in StrictSubsetOrdering(Nat))
  BY <1>1, <1>2, WFMin
<1>4. PICK m \in S : \A k \in S : ~ (<<0..k, 0..m>> \in StrictSubsetOrdering(Nat))
  BY <1>3
<1>5. \A k \in S : m <= k
  <2> SUFFICES ASSUME NEW k \in S, k < m PROVE FALSE
    OBVIOUS
  <2>1. 0..k \subseteq 0..m /\ m \in 0..m /\ m \notin 0..k
    OBVIOUS
  <2>2. 0..k \subseteq Nat /\ 0..m \subseteq Nat
    OBVIOUS
  <2>. QED
    BY <1>4, <2>1, <2>2 DEF StrictSubsetOrdering
<1>. QED
  BY <1>5 DEF Min

(***************************************************************************)
(* Sequences of anything                                                    *)
(***************************************************************************)
IsSeq(s) == \E S : s \in Seq(S)

LEMMA SeqFacts ==
  ASSUME NEW s, IsSeq(s)
  PROVE  Len(s) \in Nat /\ DOMAIN s = 1..Len(s) /\ (s = <<>> <=> Len(s) = 0)
BY DEF IsSeq

LEMMA SeqNew ==
  ASSUME NEW s, NEW n \in Nat, DOMAIN s = 1..n, s = [i \in 1..n |-> s[i]]
  PROVE  IsSeq(s) /\ Len(s) = n
<1> DEFINE S == {s[i] : i \in 1..n}
<1>1. s \in Seq(S)
  <2>1. s \in [1..n -> S]
    OBVIOUS
  <2>. QED
    BY <2>1
<1>2. Len(s) = n
  BY <1>1
<1>. QED
  BY <1>1, <1>2 DEF IsSeq

LEMMA SeqEmpty == IsSeq(<<>>)
<1>1. <<>> \in Seq({})
  OBVIOUS
<1>. QED
  BY <1>1 DEF IsSeq

LEMMA SeqOne == ASSUME NEW x PROVE IsSeq(<<x>>)
<1>1. <<x>> \in Seq({x})
  OBVIOUS
<1>. QED
  BY <1>1 DEF IsSeq

LEMMA SeqTwo == ASSUME NEW x, NEW y PROVE IsSeq(<<x, y>>) /\ Len(<<x, y>>) = 2 /\ <<x, y>>[1] = x /\ <<x, y>>[2] = y
<1>1. <<x, y>> \in Seq({x, y})
  OBVIOUS
<1>. QED
  BY <1>1 DEF IsSeq

LEMMA SeqTogether ==
  ASSUME NEW s, NEW t, IsSeq(s), IsSeq(t)
  PROVE  \E S : s \in Seq(S) /\ t \in Seq(S)
<1>1. PICK S : s \in Seq(S)
  BY DEF IsSeq
<1>2. PICK T : t \in Seq(T)
  BY DEF IsSeq
<1>3. s \in Seq(S \cup T) /\ t \in Seq(S \cup T)
  BY <1>1, <1>2, SeqMonotonic
<1>. QED
  BY <1>3

LEMMA SeqConcat ==
  ASSUME NEW s, NEW t, IsSeq(s), IsSeq(t)
  PROVE  /\ IsSeq(s \o t) /\ Len(s \o t) = Len(s) + Len(t)
         /\ \A i \in 1..Len(s) : (s \o t)[i] = s[i]
         /\ \A i \in 1..Len(t) : (s \o t)[Len(s) + i] = t[i]
         /\ \A i \in DOMAIN (s \o t) : (s \o t)[i] = IF i <= Len(s) THEN s[i] ELSE t[i - Len(s)]
<1>1. PICK S : s \in Seq(S) /\ t \in Seq(S)
  BY SeqTogether
<1>2. /\ s \o t \in Seq(S) /\ Len(s \o t) = Len(s) + Len(t)
      /\ \A i \in 1 .. Len(s) + Len(t) : (s \o t)[i] = IF i <= Len(s) THEN s[i] ELSE t[i - Len(s)]
  BY <1>1, ConcatProperties
<1>3. Len(s) \in Nat /\ Len(t) \in Nat /\ DOMAIN (s \o t) = 1..(Len(s) + Len(t))
  BY <1>1, <1>2
<1>. QED
  BY <1>2, <1>3 DEF IsSeq

LEMMA SeqAppend ==
  ASSUME NEW s, NEW x, IsSeq(s)
  PROVE  /\ IsSeq(Append(s, x)) /\ Len(Append(s, x)) = Len(s) + 1
         /\ \A i \in 1..Len(s) : Append(s, x)[i] = s[i]
         /\ Append(s, x)[Len(s) + 1] = x
<1>1. PICK S : s \in Seq(S)
  BY DEF IsSeq
<1>2. s \in Seq(S \cup {x})
  BY <1>1, SeqMonotonic
<1>3. Append(s, x) \in Seq(S \cup {x})
  BY <1>2
<1>. QED
  BY <1>2, <1>3 DEF IsSeq

LEMMA SeqTail ==
  ASSUME NEW s, IsSeq(s), s # <<>>
  PROVE  IsSeq(Tail(s)) /\ Len(Tail(s)) = Len(s) - 1 /\ \A i \in 1..(Len(s) - 1) : Tail(s)[i] = s[i + 1]
<1>1. PICK S : s \in Seq(S)
  BY DEF IsSeq
<1>. QED
  BY <1>1 DEF IsSeq

LEMMA SeqPart ==
  ASSUME NEW s, NEW m \in Nat, NEW n \in Nat, IsSeq(s), m \in 1..(n + 1), n <= Len(s)
  PROVE  /\ IsSeq(SubSeq(s, m, n)) /\ Len(SubSeq(s, m, n)) = n + 1 - m
         /\ \A i \in 1..(n + 1 - m) : SubSeq(s, m, n)[i] = s[m + i - 1]
<1>1. PICK S : s \in Seq(S)
  BY DEF IsSeq
<1>2. \A i \in m..n : s[i] \in S
  BY <1>1
<1>3. /\ SubSeq(s, m, n) \in Seq(S)
      /\ Len(SubSeq(s, m, n)) = IF m <= n THEN n - m + 1 ELSE 0
      /\ \A i \in 1 .. n-m+1 : SubSeq(s, m, n)[i] = s[m+i-1]
  BY <1>2, SubSeqProperties
<1>4. n - m + 1 = n + 1 - m /\ (IF m <= n THEN n - m + 1 ELSE 0) = n + 1 - m
  OBVIOUS
<1>5. IsSeq(SubSeq(s, m, n))
  BY <1>3 DEF IsSeq
<1>6. Len(SubSeq(s, m, n)) = n + 1 - m
  BY <1>3, <1>4
<1>7. \A i \in 1..(n + 1 - m) : SubSeq(s, m, n)[i] = s[m + i - 1]
  BY <1>3, <1>4
<1>. QED
  BY <1>5, <1>6, <1>7

LEMMA SeqSame ==
  ASSUME NEW s, NEW t, IsSeq(s), IsSeq(t), Len(s) = Len(t), \A i \in 1..Len(s) : s[i] = t[i]
  PROVE  s = t
<1>1. PICK S : s \in Seq(S) /\ t \in Seq(S)
  BY SeqTogether
<1>. QED
  BY <1>1, SeqEqual

LEMMA FrontFacts ==
  ASSUME NEW s, IsSeq(s), s # <<>>
  PROVE  /\ IsSeq(Front(s)) /\ Len(Front(s)) = Len(s) - 1 /\ Len(s) \in Nat \ {0}
         /\ \A i \in 1..(Len(s) - 1) : Front(s)[i] = s[i]
<1>1. Len(s) \in Nat \ {0}
  BY SeqFacts
<1>2. 1 \in Nat /\ Len(s) - 1 \in Nat /\ 1 \in 1..((Len(s) - 1) + 1) /\ Len(s) - 1 <= Len(s)
  BY <1>1
<1>3. /\ IsSeq(SubSeq(s, 1, Len(s) - 1)) /\ Len(SubSeq(s, 1, Len(s) - 1)) = (Len(s) - 1) + 1 - 1
      /\ \A i \in 1..((Len(s) - 1) + 1 - 1) : SubSeq(s, 1, Len(s) - 1)[i] = s[1 + i - 1]
  BY <1>2, SeqPart
<1>. QED
  BY <1>1, <1>3 DEF Front
\* What a longer sequence begins with.
LEMMA Beginnings ==
  ASSUME NEW s, NEW x, IsSeq(s)
  PROVE  \A n \in 0..Len(Append(s, x)) : SubSeq(Append(s, x), 1, n) = IF n <= Len(s) THEN SubSeq(s, 1, n) ELSE Append(s, x)
<1> DEFINE t == Append(s, x)
<1>1. IsSeq(t) /\ Len(t) = Len(s) + 1 /\ Len(s) \in Nat /\ \A i \in 1..Len(s) : t[i] = s[i]
  BY SeqAppend, SeqFacts
<1> HIDE DEF t
<1> SUFFICES ASSUME NEW n \in 0..Len(t) PROVE SubSeq(t, 1, n) = IF n <= Len(s) THEN SubSeq(s, 1, n) ELSE t
  BY DEF t
<1>2. n \in Nat /\ 1 \in 1..(n + 1) /\ n <= Len(t) /\ n + 1 - 1 = n
  BY <1>1
<1>3. IsSeq(SubSeq(t, 1, n)) /\ Len(SubSeq(t, 1, n)) = n /\ \A i \in 1..n : SubSeq(t, 1, n)[i] = t[1 + i - 1]
  <2>1. /\ IsSeq(SubSeq(t, 1, n)) /\ Len(SubSeq(t, 1, n)) = n + 1 - 1
        /\ \A i \in 1..(n + 1 - 1) : SubSeq(t, 1, n)[i] = t[1 + i - 1]
    BY <1>1, <1>2, SeqPart
  <2>. QED
    BY <1>2, <2>1
<1>4. \A i \in 1..n : i \in Nat /\ 1 + i - 1 = i
  BY <1>2
<1>5. CASE n <= Len(s)
  <2>1. /\ IsSeq(SubSeq(s, 1, n)) /\ Len(SubSeq(s, 1, n)) = n + 1 - 1
        /\ \A i \in 1..(n + 1 - 1) : SubSeq(s, 1, n)[i] = s[1 + i - 1]
    BY <1>2, <1>5, SeqPart
  <2>2. \A i \in 1..n : SubSeq(t, 1, n)[i] = SubSeq(s, 1, n)[i]
    BY <1>1, <1>2, <1>3, <1>4, <1>5, <2>1
  <2>. QED
    BY <1>2, <1>3, <1>5, <2>1, <2>2, SeqSame
<1>6. CASE ~(n <= Len(s))
  <2>1. n = Len(t)
    BY <1>1, <1>2, <1>6
  <2>2. \A i \in 1..n : SubSeq(t, 1, n)[i] = t[i]
    BY <1>3, <1>4
  <2>. QED
    BY <1>1, <1>3, <1>6, <2>1, <2>2, SeqSame
<1>. QED
  BY <1>5, <1>6

\* What is inserted after the first n + 1 is inserted after n of the rest.
LEMMA TailPart ==
  ASSUME NEW s, IsSeq(s), s # <<>>, NEW m \in Nat, NEW n \in Nat, m \in 1..(n + 1), n + 1 <= Len(s)
  PROVE  SubSeq(s, m + 1, n + 1) = SubSeq(Tail(s), m, n)
<1> DEFINE t == Tail(s)
<1>1. Len(s) \in Nat /\ IsSeq(t) /\ Len(t) = Len(s) - 1 /\ \A i \in 1..(Len(s) - 1) : t[i] = s[i + 1]
  BY SeqFacts, SeqTail
<1> HIDE DEF t
<1>2. m + 1 \in Nat /\ n + 1 \in Nat /\ m + 1 \in 1..((n + 1) + 1) /\ n <= Len(t)
  BY <1>1
<1>3. /\ IsSeq(SubSeq(s, m + 1, n + 1)) /\ Len(SubSeq(s, m + 1, n + 1)) = (n + 1) + 1 - (m + 1)
      /\ \A i \in 1..((n + 1) + 1 - (m + 1)) : SubSeq(s, m + 1, n + 1)[i] = s[(m + 1) + i - 1]
  BY <1>2, SeqPart
<1>4. /\ IsSeq(SubSeq(t, m, n)) /\ Len(SubSeq(t, m, n)) = n + 1 - m
      /\ \A i \in 1..(n + 1 - m) : SubSeq(t, m, n)[i] = t[m + i - 1]
  BY <1>1, <1>2, SeqPart
<1>5. \A i \in 1..(n + 1 - m) : m + i - 1 \in 1..(Len(s) - 1) /\ (m + i - 1) + 1 = (m + 1) + i - 1
  BY <1>1
<1>6. (n + 1) + 1 - (m + 1) = n + 1 - m
  OBVIOUS
<1> DEFINE a == SubSeq(s, m + 1, n + 1)
           b == SubSeq(t, m, n)
<1>7. IsSeq(a) /\ IsSeq(b) /\ Len(a) = Len(b) /\ Len(a) = n + 1 - m
  BY <1>3, <1>4, <1>6
<1>8. \A i \in 1..Len(a) : a[i] = b[i]
  BY <1>1, <1>3, <1>4, <1>5, <1>6, <1>7
<1> HIDE DEF a, b
<1>9. a = b
  BY <1>7, <1>8, SeqSame
<1>. QED
  BY <1>9 DEF a, b, t

LEMMA TailConcat ==
  ASSUME NEW s, NEW t, IsSeq(s), IsSeq(t), s # <<>>
  PROVE  Tail(s \o t) = Tail(s) \o t /\ s \o t # <<>>
<1>1. PICK S : s \in Seq(S) /\ t \in Seq(S)
  BY SeqTogether
<1>. QED
  BY <1>1

LEMMA TailInserted ==
  ASSUME NEW s, NEW t, IsSeq(s), IsSeq(t), NEW n \in Nat, n + 1 <= Len(s)
  PROVE  Tail(SubSeq(s, 1, n + 1) \o t \o SubSeq(s, n + 2, Len(s))) =
           SubSeq(Tail(s), 1, n) \o t \o SubSeq(Tail(s), n + 1, Len(Tail(s)))
<1> DEFINE L == Len(s)
           a == SubSeq(s, 1, n + 1)
           b == SubSeq(s, n + 2, L)
<1>1. L \in Nat /\ s # <<>> /\ Len(Tail(s)) = L - 1 /\ L - 1 \in Nat
  BY SeqFacts, SeqTail
<1>2. /\ n + 1 \in Nat /\ 1 \in 1..((n + 1) + 1) /\ n + 2 \in Nat /\ n + 2 \in 1..(L + 1) /\ L <= Len(s)
      /\ n + 1 \in 1..((L - 1) + 1) /\ (L - 1) + 1 = L /\ (n + 1) + 1 = n + 2 /\ 1 \in 1..(n + 1)
  BY <1>1
<1>3. IsSeq(a) /\ Len(a) = n + 1
  <2>1. IsSeq(SubSeq(s, 1, n + 1)) /\ Len(SubSeq(s, 1, n + 1)) = (n + 1) + 1 - 1
    BY <1>2, SeqPart
  <2>. QED
    BY <2>1
<1>4. IsSeq(b)
  BY <1>1, <1>2, SeqPart
<1>6. SubSeq(s, (n + 1) + 1, (L - 1) + 1) = SubSeq(Tail(s), n + 1, L - 1)
  BY <1>1, <1>2, TailPart
<1>7. b = SubSeq(Tail(s), n + 1, Len(Tail(s)))
  BY <1>1, <1>2, <1>6
<1>8. Tail(a) = SubSeq(Tail(s), 1, n)
  <2>1. \A i \in 1..(n + 1) : a[i] = s[i]
    <3>1. \A i \in 1..((n + 1) + 1 - 1) : SubSeq(s, 1, n + 1)[i] = s[1 + i - 1]
      BY <1>2, SeqPart
    <3>2. \A i \in 1..(n + 1) : i \in 1..((n + 1) + 1 - 1) /\ 1 + i - 1 = i
      OBVIOUS
    <3>. QED
      BY <3>1, <3>2
  <2>2. a # <<>>
    BY <1>3, SeqFacts
  <2>3. IsSeq(Tail(a)) /\ Len(Tail(a)) = n /\ \A i \in 1..n : Tail(a)[i] = s[i + 1]
    <3> HIDE DEF a
    <3>1. IsSeq(Tail(a)) /\ Len(Tail(a)) = Len(a) - 1 /\ \A i \in 1..(Len(a) - 1) : Tail(a)[i] = a[i + 1]
      BY <1>3, <2>2, SeqTail
    <3>2. Len(a) - 1 = n /\ \A i \in 1..n : i + 1 \in 1..(n + 1)
      BY <1>3
    <3>. QED
      BY <2>1, <3>1, <3>2
  <2> DEFINE c == SubSeq(Tail(s), 1, n)
  <2>4. IsSeq(c) /\ Len(c) = n /\ \A i \in 1..n : c[i] = s[i + 1]
    <3> DEFINE t1 == Tail(s)
    <3>1. IsSeq(t1) /\ n <= Len(t1) /\ \A i \in 1..n : t1[i] = s[i + 1]
      <4>1. \A i \in 1..n : i \in 1..(L - 1)
        BY <1>1
      <4>. QED
        BY <1>1, <4>1, SeqTail
    <3> HIDE DEF t1
    <3>2. /\ IsSeq(SubSeq(t1, 1, n)) /\ Len(SubSeq(t1, 1, n)) = n + 1 - 1
          /\ \A i \in 1..(n + 1 - 1) : SubSeq(t1, 1, n)[i] = t1[1 + i - 1]
      BY <1>2, <3>1, SeqPart
    <3>3. n + 1 - 1 = n /\ \A i \in 1..n : 1 + i - 1 = i
      OBVIOUS
    <3>. QED
      BY <3>1, <3>2, <3>3 DEF t1
  <2> HIDE DEF c, a
  <2> DEFINE d == Tail(a)
  <2>5. IsSeq(d) /\ Len(d) = n /\ \A i \in 1..n : d[i] = s[i + 1]
    BY <2>3
  <2> HIDE DEF d
  <2>6. \A i \in 1..Len(d) : d[i] = c[i]
    BY <2>4, <2>5
  <2>7. d = c
    BY <2>4, <2>5, <2>6, SeqSame
  <2>. QED
    BY <2>7 DEF c, d
<1> HIDE DEF a, b
<1>9. a # <<>>
  BY <1>3, SeqFacts
<1>10. IsSeq(a \o t) /\ a \o t # <<>> /\ Tail(a \o t) = Tail(a) \o t
  BY <1>3, <1>9, TailConcat, SeqConcat
<1>11. Tail((a \o t) \o b) = Tail(a \o t) \o b
  BY <1>4, <1>10, TailConcat
<1>. QED
  BY <1>1, <1>7, <1>8, <1>10, <1>11 DEF a, b

LEMMA PastInserted ==
  ASSUME NEW i \in Nat, NEW n \in Nat, NEW m \in Nat, NEW L \in Nat, n + m < i, i <= L + m
  PROVE  i - n - m \in 1..(L - n) /\ n + m + (i - n - m) = i /\ n + (i - n - m) = i - m /\ i - m \in 1..L
<1>1. i - n - m \in Int /\ i - m \in Int /\ i - n - m >= 1 /\ i - m >= 1 /\ i - m <= L
  OBVIOUS
<1>2. i - n - m <= L - n
  OBVIOUS
<1>. QED
  BY <1>1, <1>2

\* A sequence with another one put in after its first n elements.
Inserted(s, t, n) == SubSeq(s, 1, n) \o t \o SubSeq(s, n + 1, Len(s))

LEMMA InsertedFacts ==
  ASSUME NEW rest, NEW subs, NEW n \in Nat, IsSeq(rest), IsSeq(subs), n <= Len(rest)
  PROVE  /\ IsSeq(Inserted(rest, subs, n)) /\ Len(Inserted(rest, subs, n)) = Len(rest) + Len(subs)
         /\ DOMAIN Inserted(rest, subs, n) = 1..(Len(rest) + Len(subs))
         /\ \A i \in DOMAIN Inserted(rest, subs, n) :
              \/ i <= n /\ i \in DOMAIN rest /\ Inserted(rest, subs, n)[i] = rest[i]
              \/ i > n /\ i <= n + Len(subs) /\ i - n \in DOMAIN subs /\ Inserted(rest, subs, n)[i] = subs[i - n]
              \/ i > n + Len(subs) /\ i - Len(subs) \in DOMAIN rest /\ Inserted(rest, subs, n)[i] = rest[i - Len(subs)]
<1> DEFINE L == Len(rest)
           m == Len(subs)
           a == SubSeq(rest, 1, n)
           b == SubSeq(rest, n + 1, L)
           all == Inserted(rest, subs, n)
<1>1. L \in Nat /\ m \in Nat /\ n <= L
  BY SeqFacts
<1>0. DOMAIN rest = 1..L /\ DOMAIN subs = 1..m /\ IsSeq(rest) /\ L <= Len(rest)
  BY <1>1, SeqFacts
<1>a. all = a \o subs \o b
  BY DEF Inserted
<1> HIDE DEF L, m, all
<1>2. /\ IsSeq(a) /\ Len(a) = n + 1 - 1 /\ \A i \in 1..(n + 1 - 1) : a[i] = rest[1 + i - 1]
  <2>1. 1 \in Nat /\ 1 \in 1..(n + 1)
    BY <1>1
  <2>. QED
    BY <1>0, <1>1, <2>1, SeqPart
<1>3. /\ IsSeq(b) /\ Len(b) = L + 1 - (n + 1) /\ \A i \in 1..(L + 1 - (n + 1)) : b[i] = rest[(n + 1) + i - 1]
  <2>1. n + 1 \in Nat /\ n + 1 \in 1..(L + 1)
    BY <1>1
  <2>. QED
    BY <1>0, <1>1, <2>1, SeqPart
<1> HIDE DEF a, b
<1>4. /\ IsSeq(a \o subs) /\ Len(a \o subs) = n + m
      /\ \A i \in 1..n : (a \o subs)[i] = rest[i]
      /\ \A i \in 1..m : (a \o subs)[n + i] = subs[i]
  <2>1. Len(a) = n /\ \A i \in 1..n : a[i] = rest[i]
    BY <1>1, <1>2
  <2>. QED
    BY <1>2, <2>1, SeqConcat DEF m
<1>5. /\ IsSeq(all) /\ Len(all) = L + m
      /\ \A i \in 1..n : all[i] = rest[i]
      /\ \A i \in 1..m : all[n + i] = subs[i]
      /\ \A i \in 1..(L - n) : all[n + m + i] = rest[n + i]
  <2>1. Len(b) = L - n /\ \A i \in 1..(L - n) : b[i] = rest[n + i]
    BY <1>1, <1>3
  <2>2. /\ IsSeq(all) /\ Len(all) = n + m + (L - n)
        /\ \A i \in 1..(n + m) : all[i] = (a \o subs)[i]
        /\ \A i \in 1..(L - n) : all[n + m + i] = b[i]
    <3> DEFINE c == a \o subs
    <3>1. IsSeq(c) /\ Len(c) = n + m /\ IsSeq(b) /\ Len(b) = L - n
      BY <1>3, <1>4, <2>1
    <3> HIDE DEF c
    <3>2. /\ IsSeq(c \o b) /\ Len(c \o b) = n + m + (L - n)
          /\ \A i \in 1..(n + m) : (c \o b)[i] = c[i]
          /\ \A i \in 1..(L - n) : (c \o b)[n + m + i] = b[i]
      BY <1>1, <3>1, SeqConcat
    <3>. QED
      BY <1>a, <3>2 DEF c
  <2>3. n + m + (L - n) = L + m /\ (\A i \in 1..n : i \in 1..(n + m)) /\ (\A i \in 1..m : n + i \in 1..(n + m))
    BY <1>1
  <2>. QED
    BY <1>4, <2>1, <2>2, <2>3
<1>6. DOMAIN all = 1..(L + m)
  BY <1>5, SeqFacts
<1>7. ASSUME NEW i \in DOMAIN all
      PROVE  \/ i <= n /\ i \in DOMAIN rest /\ all[i] = rest[i]
             \/ i > n /\ i <= n + m /\ i - n \in DOMAIN subs /\ all[i] = subs[i - n]
             \/ i > n + m /\ i - m \in DOMAIN rest /\ all[i] = rest[i - m]
  <2>0. i \in 1..(L + m)
    BY <1>6
  <2>1. CASE i <= n
    BY <1>0, <1>1, <1>5, <2>0, <2>1
  <2>2. CASE i > n /\ i <= n + m
    <3>1. i - n \in 1..m /\ n + (i - n) = i
      BY <1>1, <2>0, <2>2
    <3>. QED
      BY <1>0, <1>1, <1>5, <2>2, <3>1
  <2>3. CASE i > n + m
    <3>1. i - n - m \in 1..(L - n) /\ n + m + (i - n - m) = i /\ n + (i - n - m) = i - m /\ i - m \in 1..L
      <4>1. i \in Nat /\ n \in Nat /\ m \in Nat /\ L \in Nat /\ n + m < i /\ i <= L + m
        BY <1>0, <1>1, <2>0, <2>3
      <4>. QED
        BY <4>1, PastInserted
    <3>. QED
      BY <1>0, <1>1, <1>5, <2>3, <3>1
  <2>. QED
    BY <1>1, <2>0, <2>1, <2>2, <2>3
<1>. QED
  BY <1>5, <1>6, <1>7 DEF all, L, m

LEMMA WholeSeq == ASSUME NEW s, IsSeq(s) PROVE SubSeq(s, 1, Len(s)) = s
<1>1. PICK S : s \in Seq(S)
  BY DEF IsSeq
<1>. QED
  BY <1>1

\* Induction over the naturals, for a set of them.
LEMMA NaturalSets ==
  ASSUME NEW S, 0 \in S, \A n \in Nat : n \in S => n + 1 \in S
  PROVE  \A n \in Nat : n \in S
<1> SUFFICES ASSUME NEW n \in Nat, n \notin S PROVE FALSE
  OBVIOUS
<1> DEFINE T == {m \in Nat : m \notin S}
<1>1. T \in SUBSET Nat /\ T # {}
  OBVIOUS
<1>2. Min(T) \in T /\ \A x \in T : Min(T) <= x
  BY <1>1, MinOfNaturals
<1> DEFINE m == Min(T)
<1> HIDE DEF m
<1>3. m \in Nat /\ m \notin S /\ \A x \in Nat : x < m => x \in S
  BY <1>2 DEF m
<1>4. m # 0 /\ m - 1 \in Nat /\ m - 1 \in S
  BY <1>3
<1>. QED
  BY <1>3, <1>4

\* A function f whose value at x is step[<<x, f>>] where that depends on its values
\* at elements of lower rank alone.
Follows(f, step, D, V) == f \in [D -> V] /\ \A x \in D : f[x] = step[<<x, f>>]

LEMMA Recursion ==
  ASSUME NEW D, NEW V, V # {}, NEW rank \in [D -> Nat], NEW step \in [D \X [D -> V] -> V],
         \A x \in D : \A f, g \in [D -> V] :
           (\A y \in D : rank[y] < rank[x] => f[y] = g[y]) => step[<<x, f>>] = step[<<x, g>>]
  PROVE  \E f : Follows(f, step, D, V)
<1> DEFINE Upto(n, f) == f \in [D -> V] /\ \A x \in D : rank[x] < n => f[x] = step[<<x, f>>]
           S == {n \in Nat : \E f : Upto(n, f)}
<1>1. 0 \in S
  <2>1. PICK v : v \in V
    OBVIOUS
  <2>2. Upto(0, [x \in D |-> v])
    BY <2>1
  <2>. QED
    BY <2>2
<1>2. ASSUME NEW n \in Nat, n \in S PROVE n + 1 \in S
  <2>1. PICK f : Upto(n, f)
    BY <1>2
  <2> DEFINE g == [x \in D |-> step[<<x, f>>]]
  <2>2. f \in [D -> V] /\ g \in [D -> V]
    BY <2>1
  <2>3. \A x \in D : rank[x] < n => g[x] = f[x]
    BY <2>1
  <2>4. ASSUME NEW x \in D, rank[x] < n + 1 PROVE g[x] = step[<<x, g>>]
    <3>0. \A y \in D : rank[y] \in Nat
      OBVIOUS
    <3>1. \A y \in D : rank[y] < rank[x] => f[y] = g[y]
      <4> HIDE DEF g
      <4>. QED
        BY <2>3, <2>4, <3>0
    <3>2. step[<<x, f>>] = step[<<x, g>>]
      BY <2>2, <3>1
    <3>3. g[x] = step[<<x, f>>]
      OBVIOUS
    <3>. QED
      BY <3>2, <3>3
  <2> HIDE DEF g
  <2>5. Upto(n + 1, g)
    BY <2>2, <2>4
  <2>. QED
    BY <2>5
<1> HIDE DEF S
<1>3. \A n \in Nat : n \in S
  BY <1>1, <1>2, NaturalSets
<1>4. \A n \in Nat : \E f : Upto(n, f)
  BY <1>3 DEF S
<1>5. ASSUME NEW m \in Nat, NEW n \in Nat, NEW f, NEW g, Upto(m, f), Upto(n, g), m <= n
      PROVE  \A x \in D : rank[x] < m => f[x] = g[x]
  <2> DEFINE T == {k \in Nat : \A x \in D : rank[x] < m /\ rank[x] <= k => f[x] = g[x]}
  <2>1. ASSUME NEW k \in Nat, NEW x \in D, rank[x] < m, \A y \in D : rank[y] < m /\ rank[y] < rank[x] => f[y] = g[y]
        PROVE  f[x] = g[x]
    <3>1. \A y \in D : rank[y] < rank[x] => f[y] = g[y]
      BY <2>1
    <3>2. step[<<x, f>>] = step[<<x, g>>]
      BY <1>5, <3>1
    <3>3. rank[x] < n
      BY <1>5, <2>1
    <3>. QED
      BY <1>5, <2>1, <3>2, <3>3
  <2>2. 0 \in T
    BY <2>1
  <2>3. ASSUME NEW k \in Nat, k \in T PROVE k + 1 \in T
    BY <2>1, <2>3
  <2> HIDE DEF T
  <2>4. \A k \in Nat : k \in T
    BY <2>2, <2>3, NaturalSets
  <2>. QED
    BY <2>4 DEF T
<1> DEFINE best(n) == CHOOSE f : Upto(n, f)
           f == [x \in D |-> best(rank[x] + 1)[x]]
<1>6. \A n \in Nat : Upto(n, best(n))
  BY <1>4
<1> HIDE DEF best
<1>7. f \in [D -> V]
  <2>1. ASSUME NEW x \in D PROVE f[x] \in V
    <3>1. rank[x] + 1 \in Nat
      OBVIOUS
    <3>2. best(rank[x] + 1) \in [D -> V]
      BY <1>6, <3>1
    <3>. QED
      BY <3>2
  <2>. QED
    BY <2>1
<1>8. ASSUME NEW x \in D PROVE f[x] = step[<<x, f>>]
  <2> DEFINE n == rank[x] + 1
             g == best(n)
  <2>1. n \in Nat /\ Upto(n, g)
    <3>1. rank[x] + 1 \in Nat
      OBVIOUS
    <3>. QED
      BY <1>6, <3>1
  <2>2. ASSUME NEW y \in D, rank[y] < rank[x] PROVE f[y] = g[y]
    <3>1. rank[y] + 1 \in Nat /\ rank[y] + 1 <= n /\ rank[y] < rank[y] + 1
      BY <2>2
    <3>2. Upto(rank[y] + 1, best(rank[y] + 1))
      BY <1>6, <3>1
    <3> HIDE DEF g, n, Upto
    <3>3. \A z \in D : rank[z] < rank[y] + 1 => best(rank[y] + 1)[z] = g[z]
      BY <1>5, <2>1, <3>1, <3>2
    <3>4. best(rank[y] + 1)[y] = g[y]
      BY <3>1, <3>3
    <3>. QED
      BY <3>4
  <2>3. f[x] = g[x] /\ rank[x] < n
    OBVIOUS
  <2> HIDE DEF f, g
  <2>4. step[<<x, f>>] = step[<<x, g>>]
    BY <1>7, <2>1, <2>2
  <2>. QED
    BY <2>1, <2>3, <2>4
<1> HIDE DEF f
<1>. QED
  BY <1>7, <1>8 DEF Follows


(***************************************************************************)
(* Concatenation                                                            *)
(***************************************************************************)
\* What the first of some sequences are together.
IsFlat(F, s, S) ==
  /\ F \in [0..Len(s) -> Seq(S)] /\ F[0] = <<>>
  /\ \A i \in 1..Len(s) : F[i] = F[i - 1] \o s[i]

LEMMA FlatExists ==
  ASSUME NEW S, NEW s \in Seq(Seq(S))
  PROVE  \E F : IsFlat(F, s, S)
<1> DEFINE Upto(k, F) == F \in [0..k -> Seq(S)] /\ F[0] = <<>> /\ \A i \in 1..k : F[i] = F[i - 1] \o s[i]
           T == {k \in Nat : k <= Len(s) => \E F : Upto(k, F)}
<1>1. 0 \in T
  <2>1. Upto(0, [i \in 0..0 |-> <<>>])
    OBVIOUS
  <2>. QED
    BY <2>1
<1>0. Len(s) \in Nat
  OBVIOUS
<1>2. ASSUME NEW k \in Nat, k \in T PROVE k + 1 \in T
  <2>0. ASSUME k + 1 <= Len(s) PROVE \E F : Upto(k, F)
    <3>1. k <= Len(s)
      BY <1>0, <2>0
    <3> HIDE DEF Upto
    <3>2. k <= Len(s) => \E F : Upto(k, F)
      BY <1>2
    <3>. QED
      BY <3>1, <3>2
  <2> SUFFICES ASSUME k + 1 <= Len(s) PROVE \E F : Upto(k + 1, F)
    <3> HIDE DEF Upto
    <3>. QED
      OBVIOUS
  <2>1. PICK F : Upto(k, F)
    <3> HIDE DEF Upto, T
    <3>. QED
      BY <2>0
  <2> DEFINE G == [i \in 0..(k + 1) |-> IF i <= k THEN F[i] ELSE F[k] \o s[k + 1]]
  <2>2. s[k + 1] \in Seq(S) /\ F[k] \in Seq(S)
    BY <2>1
  <2>3. F[k] \o s[k + 1] \in Seq(S)
    BY <2>2
  <2>4. G \in [0..(k + 1) -> Seq(S)]
    BY <2>1, <2>3
  <2>5. G[0] = <<>>
    BY <2>1
  <2>6. ASSUME NEW i \in 1..(k + 1) PROVE G[i] = G[i - 1] \o s[i]
    <3>0. \A m \in 0..(k + 1) : G[m] = IF m <= k THEN F[m] ELSE F[k] \o s[k + 1]
      OBVIOUS
    <3>3. i \in 0..(k + 1) /\ i - 1 \in 0..(k + 1) /\ i - 1 <= k
      OBVIOUS
    <3>4. G[i - 1] = F[i - 1] /\ G[i] = IF i <= k THEN F[i] ELSE F[k] \o s[k + 1]
      <4> HIDE DEF G
      <4>. QED
        BY <3>0, <3>3
    <3> HIDE DEF G
    <3>1. CASE i <= k
      <4>1. i \in 1..k
        BY <3>1
      <4>. QED
        BY <2>1, <3>1, <3>4, <4>1
    <3>2. CASE i = k + 1
      <4>1. i - 1 = k /\ ~(i <= k)
        BY <3>2
      <4>. QED
        BY <3>2, <3>4, <4>1
    <3>5. i <= k \/ i = k + 1
      OBVIOUS
    <3>. QED
      BY <3>1, <3>2, <3>5
  <2> HIDE DEF G
  <2>7. Upto(k + 1, G)
    BY <2>4, <2>5, <2>6
  <2>. QED
    BY <2>7
<1> HIDE DEF T
<1>3. Len(s) \in T
  BY <1>0, <1>1, <1>2, NaturalSets
<1>4. \E F : Upto(Len(s), F)
  <2> HIDE DEF Upto
  <2>. QED
    BY <1>0, <1>3 DEF T
<1>. QED
  BY <1>4 DEF IsFlat

LEMMA FlatIs ==
  ASSUME NEW S, NEW s \in Seq(Seq(S)), NEW F, IsFlat(F, s, S)
  PROVE  FlattenSeq(s) = F[Len(s)]
<1>1. CASE Len(s) = 0
  BY <1>1 DEF FlattenSeq, IsFlat
<1>2. CASE Len(s) # 0
  <2> DEFINE Step(f) == [i \in 1..Len(s) |-> IF i = 1 THEN s[i] ELSE f[i - 1] \o s[i]]
             f == CHOOSE f : f = Step(f)
             g == [i \in 1..Len(s) |-> F[i]]
  <2>1. FlattenSeq(s) = f[Len(s)]
    BY <1>2 DEF FlattenSeq
  <2>2. g = Step(g)
    <3>1. ASSUME NEW i \in 1..Len(s) PROVE F[i] = IF i = 1 THEN s[i] ELSE g[i - 1] \o s[i]
      <4>1. CASE i = 1
        <5>1. s[1] \in Seq(S) /\ 1 \in 1..Len(s)
          BY <4>1
        <5>2. F[1] = F[1 - 1] \o s[1] /\ F[0] = <<>>
          BY ONLY <5>1, IsFlat(F, s, S) DEF IsFlat
        <5>4. 1 - 1 = 0
          OBVIOUS
        <5>3. <<>> \o s[1] = s[1]
          BY ONLY <5>1, ConcatEmptySeq
        <5>. QED
          BY <4>1, <5>2, <5>3, <5>4
      <4>2. CASE i # 1
        <5>1. i - 1 \in 1..Len(s)
          BY <4>2
        <5>2. F[i] = F[i - 1] \o s[i]
          BY DEF IsFlat
        <5>3. g[i - 1] = F[i - 1]
          BY <5>1
        <5>. QED
          BY <4>2, <5>2, <5>3
      <4>. QED
        BY <4>1, <4>2
    <3>. QED
      BY <3>1
  <2> HIDE DEF g
  <2>3. f = Step(f)
    BY <2>2
  <2> HIDE DEF f
  <2> DEFINE T == {k \in Nat : k \in 1..Len(s) => f[k] = F[k]}
  <2>4. 0 \in T
    OBVIOUS
  <2>5. ASSUME NEW k \in Nat, k \in T PROVE k + 1 \in T
    <3> SUFFICES ASSUME k + 1 \in 1..Len(s) PROVE f[k + 1] = F[k + 1]
      OBVIOUS
    <3>1. f[k + 1] = IF k + 1 = 1 THEN s[k + 1] ELSE f[k] \o s[k + 1]
      <4>1. f[k + 1] = Step(f)[k + 1] /\ (k + 1) - 1 = k
        <5> HIDE DEF Step
        <5>1. f[k + 1] = Step(f)[k + 1]
          BY <2>3
        <5>. QED
          BY <5>1
      <4>2. Step(f)[k + 1] = IF k + 1 = 1 THEN s[k + 1] ELSE f[(k + 1) - 1] \o s[k + 1]
        OBVIOUS
      <4>. QED
        BY <4>1, <4>2
    <3>2. F[k + 1] = F[k] \o s[k + 1]
      <4>1. F[k + 1] = F[(k + 1) - 1] \o s[k + 1] /\ (k + 1) - 1 = k
        <5>1. F[k + 1] = F[(k + 1) - 1] \o s[k + 1]
          BY DEF IsFlat
        <5>. QED
          BY <5>1
      <4>. QED
        BY <4>1
    <3>3. CASE k = 0
      <4>1. s[1] \in Seq(S)
        BY <3>3
      <4>2. F[0] = <<>>
        BY DEF IsFlat
      <4>3. <<>> \o s[1] = s[1] /\ 0 + 1 = 1
        BY <4>1, ConcatEmptySeq
      <4> HIDE DEF f, T
      <4>. QED
        BY <3>1, <3>2, <3>3, <4>2, <4>3
    <3>4. CASE k # 0
      <4>1. f[k] = F[k]
        BY <2>5, <3>4
      <4>2. k + 1 # 1
        BY <3>4
      <4> HIDE DEF T
      <4>. QED
        BY <3>1, <3>2, <4>1, <4>2
    <3>. QED
      BY <3>3, <3>4
  <2> HIDE DEF T
  <2>6. Len(s) \in T
    BY <2>4, <2>5, NaturalSets
  <2>7. f[Len(s)] = F[Len(s)]
    BY <1>2, <2>6 DEF T
  <2>. QED
    BY <2>1, <2>7
<1>. QED
  BY <1>1, <1>2

\* One more sequence comes after what the others are together.
LEMMA FlatAppend ==
  ASSUME NEW S, NEW s \in Seq(Seq(S)), NEW x \in Seq(S)
  PROVE  FlattenSeq(s) \in Seq(S) /\ FlattenSeq(Append(s, x)) = FlattenSeq(s) \o x
<1>1. PICK F : IsFlat(F, s, S)
  BY FlatExists
<1> DEFINE n == Len(s)
           t == Append(s, x)
           G == [i \in 0..(n + 1) |-> IF i <= n THEN F[i] ELSE F[n] \o x]
<1>2. n \in Nat /\ t \in Seq(Seq(S)) /\ Len(t) = n + 1 /\ t[n + 1] = x /\ \A i \in 1..n : t[i] = s[i]
  OBVIOUS
<1>3. F[n] \in Seq(S) /\ F[n] \o x \in Seq(S)
  BY <1>1 DEF IsFlat
<1>4. G \in [0..(n + 1) -> Seq(S)] /\ G[0] = <<>>
  BY <1>1, <1>3 DEF IsFlat
<1>5. ASSUME NEW i \in 1..(n + 1) PROVE G[i] = G[i - 1] \o t[i]
  <2>3. i \in 0..(n + 1) /\ i - 1 \in 0..(n + 1) /\ i - 1 <= n
    BY <1>2
  <2>4. G[i - 1] = F[i - 1] /\ G[i] = IF i <= n THEN F[i] ELSE F[n] \o x
    BY <2>3
  <2> HIDE DEF t, G
  <2>1. CASE i <= n
    <3>1. i \in 1..n
      BY <1>2, <2>1
    <3>2. F[i] = F[i - 1] \o s[i]
      BY <1>1, <3>1 DEF IsFlat
    <3>3. t[i] = s[i]
      BY <1>2, <3>1
    <3>. QED
      BY <2>1, <2>4, <3>2, <3>3
  <2>2. CASE i = n + 1
    <3>1. i - 1 = n /\ ~(i <= n)
      BY <1>2, <2>2
    <3>. QED
      BY <1>2, <2>2, <2>4, <3>1
  <2>. QED
    BY <1>2, <2>1, <2>2
<1>6. G[n + 1] = F[n] \o x
  OBVIOUS
<1> HIDE DEF G, t
<1>7. IsFlat(G, t, S)
  BY <1>2, <1>4, <1>5 DEF IsFlat
<1>8. FlattenSeq(t) = G[n + 1] /\ FlattenSeq(s) = F[n]
  BY <1>1, <1>2, <1>7, FlatIs
<1>. QED
  BY <1>3, <1>6, <1>8 DEF t

\* What the sequences numbered 1 to n are together.
Together(g, n) == FlattenSeq([i \in 1..n |-> g[i]])

\* Each of them is a sequence of elements of S.
Parts(g, n, S) == \A i \in 1..n : g[i] \in Seq(S)

LEMMA TogetherNone == \A g : Together(g, 0) = <<>>
<1>1. ASSUME NEW g PROVE [i \in 1..0 |-> g[i]] = <<>>
  OBVIOUS
<1>2. FlattenSeq(<<>>) = <<>>
  BY DEF FlattenSeq
<1>. QED
  BY <1>1, <1>2 DEF Together

LEMMA TogetherNext ==
  ASSUME NEW S, NEW n \in Nat, NEW g, \A i \in 1..(n + 1) : g[i] \in Seq(S)
  PROVE  Together(g, n) \in Seq(S) /\ Together(g, n + 1) = Together(g, n) \o g[n + 1]
<1> DEFINE s == [i \in 1..n |-> g[i]]
<1>1. s \in Seq(Seq(S)) /\ Len(s) = n
  OBVIOUS
<1>2. [i \in 1..(n + 1) |-> g[i]] = Append(s, g[n + 1])
  <2>1. Append(s, g[n + 1]) = [i \in 1..(n + 1) |-> IF i <= n THEN s[i] ELSE g[n + 1]]
    BY <1>1
  <2>2. \A i \in 1..(n + 1) : g[i] = IF i <= n THEN s[i] ELSE g[n + 1]
    OBVIOUS
  <2>. QED
    BY <2>1, <2>2
<1> HIDE DEF s
<1>3. g[n + 1] \in Seq(S)
  OBVIOUS
<1>4. FlattenSeq(s) \in Seq(S) /\ FlattenSeq(Append(s, g[n + 1])) = FlattenSeq(s) \o g[n + 1]
  BY <1>1, <1>3, FlatAppend
<1>. QED
  BY <1>2, <1>4 DEF s, Together

LEMMA TogetherType ==
  ASSUME NEW S, NEW n \in Nat, NEW g, \A i \in 1..n : g[i] \in Seq(S)
  PROVE  Together(g, n) \in Seq(S)
<1> DEFINE s == [i \in 1..n |-> g[i]]
<1>1. s \in Seq(Seq(S))
  OBVIOUS
<1> HIDE DEF s
<1>2. <<>> \in Seq(S)
  OBVIOUS
<1>3. FlattenSeq(s) \in Seq(S)
  BY <1>1, <1>2, FlatAppend
<1>. QED
  BY <1>3 DEF s, Together

LEMMA TogetherSame ==
  ASSUME NEW n \in Nat, NEW g, NEW h, \A i \in 1..n : g[i] = h[i]
  PROVE  Together(g, n) = Together(h, n)
<1>1. [i \in 1..n |-> g[i]] = [i \in 1..n |-> h[i]]
  OBVIOUS
<1>. QED
  BY <1>1 DEF Together

\* Nothing is added by sequences that are empty.
LEMMA TogetherRest ==
  ASSUME NEW S, NEW m \in Nat, NEW n \in Nat, m <= n, NEW g, Parts(g, n, S),
         \A i \in 1..n : m < i => g[i] = <<>>
  PROVE  Together(g, n) = Together(g, m)
<1> USE DEF Parts
<1> DEFINE T == {k \in Nat : m + k <= n => Together(g, m + k) = Together(g, m)}
<1>1. 0 \in T
  OBVIOUS
<1>2. ASSUME NEW k \in Nat, k \in T PROVE k + 1 \in T
  <2> SUFFICES ASSUME m + (k + 1) <= n PROVE Together(g, m + (k + 1)) = Together(g, m)
    OBVIOUS
  <2>1. m + k \in Nat /\ (\A i \in 1..((m + k) + 1) : g[i] \in Seq(S)) /\ g[(m + k) + 1] = <<>> /\ m + (k + 1) = (m + k) + 1
    OBVIOUS
  <2>2. Together(g, m + k) \in Seq(S) /\ Together(g, (m + k) + 1) = Together(g, m + k) \o g[(m + k) + 1]
    BY ONLY <2>1, TogetherNext
  <2>3. Together(g, m + k) = Together(g, m)
    BY <1>2
  <2>4. Together(g, m + k) \o <<>> = Together(g, m + k)
    BY ONLY <2>2, ConcatEmptySeq
  <2>. QED
    BY <2>1, <2>2, <2>3, <2>4
<1> HIDE DEF T
<1>3. n - m \in Nat /\ m + (n - m) = n
  OBVIOUS
<1>4. n - m \in T
  BY <1>1, <1>2, <1>3, NaturalSets
<1>. QED
  BY <1>3, <1>4 DEF T

\* A sequence put where there was an empty one comes last if those after it are empty.
Puts(g, h, j, x, n) ==
  /\ g[j] = <<>> /\ h[j] = x /\ \A i \in 1..n : i < j => h[i] = g[i]
  /\ \A i \in 1..n : j < i => g[i] = <<>> /\ h[i] = <<>>

\* What h has is what g has, and x after it.
Longer(g, h, x, n) == Together(h, n) = Together(g, n) \o x

LEMMA TogetherPut ==
  ASSUME NEW S, NEW n \in Nat, NEW j \in 1..n, NEW g, NEW h, NEW x,
         Parts(g, n, S), Parts(h, n, S), Puts(g, h, j, x, n)
  PROVE  Longer(g, h, x, n)
<1> USE DEF Puts
<1>0. j - 1 \in Nat /\ j \in Nat /\ (j - 1) + 1 = j /\ j <= n /\ j - 1 <= n
  OBVIOUS
<1>1. Together(h, n) = Together(h, j)
  BY <1>0, TogetherRest
<1>2. Together(g, n) = Together(g, j - 1)
  <2>1. \A i \in 1..n : j - 1 < i => g[i] = <<>>
    <3> SUFFICES ASSUME NEW i \in 1..n, j - 1 < i PROVE g[i] = <<>>
      OBVIOUS
    <3>1. i = j \/ j < i
      BY <1>0
    <3>. QED
      BY <3>1
  <2>. QED
    BY <1>0, <2>1, TogetherRest
<1>3. Together(h, j) = Together(h, j - 1) \o h[j]
  <2>1. \A i \in 1..((j - 1) + 1) : h[i] \in Seq(S)
    BY DEF Parts
  <2>2. Together(h, (j - 1) + 1) = Together(h, j - 1) \o h[(j - 1) + 1]
    BY ONLY <1>0, <2>1, TogetherNext
  <2>. QED
    BY <1>0, <2>2
<1>4. Together(h, j - 1) = Together(g, j - 1)
  <2>1. \A i \in 1..(j - 1) : h[i] = g[i]
    OBVIOUS
  <2>. QED
    BY <1>0, <2>1, TogetherSame
<1>. QED
  BY <1>1, <1>2, <1>3, <1>4 DEF Longer

\* Empty sequences together are empty.
LEMMA TogetherEmpty ==
  ASSUME NEW n \in Nat, NEW g, \A i \in 1..n : g[i] = <<>>
  PROVE  Together(g, n) = <<>>
<1>0. <<>> \in Seq(Nat)
  OBVIOUS
<1>1. Parts(g, n, Nat)
  BY <1>0 DEF Parts
<1>2. 0 \in Nat /\ 0 <= n /\ \A i \in 1..n : 0 < i => g[i] = <<>>
  OBVIOUS
<1>3. Together(g, n) = Together(g, 0)
  BY ONLY n \in Nat, <1>1, <1>2, TogetherRest
<1>. QED
  BY <1>3, TogetherNone

\* The only sequence that is not empty is what all are together.
LEMMA TogetherOne ==
  ASSUME NEW S, NEW n \in Nat, NEW j \in 1..n, NEW g, Parts(g, n, S),
         \A i \in 1..n : i # j => g[i] = <<>>
  PROVE  Together(g, n) = g[j]
<1>0. j - 1 \in Nat /\ j \in Nat /\ (j - 1) + 1 = j /\ j <= n
  OBVIOUS
<1>1. Together(g, n) = Together(g, j)
  <2>1. \A i \in 1..n : j < i => g[i] = <<>>
    OBVIOUS
  <2>. QED
    BY <1>0, <2>1, TogetherRest
<1>2. Together(g, j) = Together(g, j - 1) \o g[j]
  <2>1. \A i \in 1..((j - 1) + 1) : g[i] \in Seq(S)
    BY DEF Parts
  <2>2. Together(g, (j - 1) + 1) = Together(g, j - 1) \o g[(j - 1) + 1]
    BY ONLY <1>0, <2>1, TogetherNext
  <2>. QED
    BY <1>0, <2>2
<1>3. Together(g, j - 1) = <<>>
  <2>1. \A i \in 1..(j - 1) : g[i] = <<>>
    OBVIOUS
  <2>. QED
    BY <1>0, <2>1, TogetherEmpty
<1>4. g[j] \in Seq(S)
  BY DEF Parts
<1>. QED
  BY <1>1, <1>2, <1>3, <1>4, ConcatEmptySeq

\* Concatenation under a name of its own, so that the law applies to any operands.
Cat(s, t) == s \o t

LEMMA CatAssociative ==
  ASSUME NEW S, NEW s, NEW t, NEW u, s \in Seq(S), t \in Seq(S), u \in Seq(S)
  PROVE  Cat(Cat(s, t), u) = Cat(s, Cat(t, u))
<1>1. (s \o t) \o u = s \o (t \o u)
  BY ConcatAssociative
<1>. QED
  BY <1>1 DEF Cat


(***************************************************************************)
(* Sums                                                                     *)
(***************************************************************************)
\* The sum over a finite set of what a function gives.
Summed(g, S) == MapThenSumSet(LAMBDA x : g[x], S)

\* The sums over the subsets, an element at a time.
Sums(F, g, S) ==
  /\ F \in [SUBSET S -> Nat]
  /\ \A s \in SUBSET S :
       F[s] = IF s = {} THEN 0 ELSE g[CHOOSE x \in s : TRUE] + F[s \ {CHOOSE x \in s : TRUE}]

LEMMA SumsExist ==
  ASSUME NEW S, IsFiniteSet(S), NEW g \in [S -> Nat]
  PROVE  \E F : Sums(F, g, S)
<1> DEFINE D == SUBSET S
           rank == [s \in D |-> Cardinality(s)]
           one(s) == CHOOSE x \in s : TRUE
           step == [p \in D \X [D -> Nat] |->
                      IF p[1] = {} THEN 0 ELSE g[one(p[1])] + p[2][p[1] \ {one(p[1])}]]
<1>1. \A s \in D : IsFiniteSet(s) /\ Cardinality(s) \in Nat
  BY FS_Subset, FS_CardinalityType
<1>2. rank \in [D -> Nat]
  BY <1>1
<1>3. \A s \in D : s # {} => one(s) \in s /\ one(s) \in S /\ s \ {one(s)} \in D
  OBVIOUS
<1> HIDE DEF one
<1>4. step \in [D \X [D -> Nat] -> Nat]
  <2>1. ASSUME NEW s \in D, NEW f \in [D -> Nat], s # {} PROVE g[one(s)] + f[s \ {one(s)}] \in Nat
    <3>1. g[one(s)] \in Nat /\ f[s \ {one(s)}] \in Nat
      BY <1>3, <2>1
    <3>. QED
      BY <3>1
  <2>. QED
    BY <2>1
<1>5. \A s \in D : \A f \in [D -> Nat] :
        step[<<s, f>>] = IF s = {} THEN 0 ELSE g[one(s)] + f[s \ {one(s)}]
  OBVIOUS
<1>6. \A s \in D : s # {} => rank[s \ {one(s)}] < rank[s]
  <2> SUFFICES ASSUME NEW s \in D, s # {} PROVE rank[s \ {one(s)}] < rank[s]
    OBVIOUS
  <2>1. IsFiniteSet(s) /\ one(s) \in s /\ s \ {one(s)} \in D
    BY <1>1, <1>3
  <2>2. Cardinality(s \ {one(s)}) = Cardinality(s) - 1
    BY <2>1, FS_RemoveElement
  <2>. QED
    BY <1>1, <2>1, <2>2
<1> HIDE DEF rank, step
<1>7. \A s \in D : \A f, h \in [D -> Nat] :
        (\A t \in D : rank[t] < rank[s] => f[t] = h[t]) => step[<<s, f>>] = step[<<s, h>>]
  <2> SUFFICES ASSUME NEW s \in D, NEW f \in [D -> Nat], NEW h \in [D -> Nat],
                      \A t \in D : rank[t] < rank[s] => f[t] = h[t]
               PROVE  step[<<s, f>>] = step[<<s, h>>]
    OBVIOUS
  <2>1. CASE s = {}
    BY <1>5, <2>1
  <2>2. CASE s # {}
    <3>1. f[s \ {one(s)}] = h[s \ {one(s)}]
      BY <1>3, <1>6, <2>2
    <3>. QED
      BY <1>5, <2>2, <3>1
  <2>. QED
    BY <2>1, <2>2
<1>8. PICK F : Follows(F, step, D, Nat)
  <2>1. Nat # {}
    OBVIOUS
  <2> HIDE DEF D
  <2>. QED
    BY <1>2, <1>4, <1>7, <2>1, Recursion
<1>9. Sums(F, g, S)
  <2>1. F \in [D -> Nat] /\ \A s \in D : F[s] = step[<<s, F>>]
    BY <1>8 DEF Follows
  <2>2. \A s \in D : F[s] = IF s = {} THEN 0 ELSE g[one(s)] + F[s \ {one(s)}]
    BY <1>5, <2>1
  <2>. QED
    BY <2>1, <2>2 DEF Sums, one
<1>. QED
  BY <1>9

LEMMA SumsAre ==
  ASSUME NEW S, IsFiniteSet(S), NEW g \in [S -> Nat], NEW F, Sums(F, g, S)
  PROVE  Summed(g, S) = F[S]
<1> DEFINE one(s) == CHOOSE x \in s : TRUE
           Body(f) == [s \in SUBSET S |-> IF s = {} THEN 0 ELSE g[one(s)] + f[s \ {one(s)}]]
           iter == CHOOSE f : f = Body(f)
<1>1. Summed(g, S) = iter[S]
  BY DEF Summed, MapThenSumSet, MapThenFoldSet
<1>2. F = Body(F)
  BY DEF Sums
<1>3. iter = Body(iter)
  <2> HIDE DEF Body
  <2>. QED
    BY <1>2
<1> HIDE DEF iter
<1>4. \A s \in SUBSET S : iter[s] = IF s = {} THEN 0 ELSE g[one(s)] + iter[s \ {one(s)}]
  <2>1. \A s \in SUBSET S : Body(iter)[s] = IF s = {} THEN 0 ELSE g[one(s)] + iter[s \ {one(s)}]
    OBVIOUS
  <2> HIDE DEF Body
  <2>. QED
    BY <1>3, <2>1
<1>5. \A s \in SUBSET S : F[s] = IF s = {} THEN 0 ELSE g[one(s)] + F[s \ {one(s)}]
  BY DEF Sums
<1> DEFINE T == {n \in Nat : \A s \in SUBSET S : Cardinality(s) = n => iter[s] = F[s]}
<1>6. \A s \in SUBSET S : s # {} => one(s) \in s /\ s \ {one(s)} \in SUBSET S
  OBVIOUS
<1> HIDE DEF one
<1>0. \A s \in SUBSET S : IsFiniteSet(s) /\ Cardinality(s) \in Nat /\ (Cardinality(s) = 0 => s = {})
  BY FS_Subset, FS_CardinalityType, FS_EmptySet
<1>7. 0 \in T
  BY <1>0, <1>4, <1>5
<1>8. ASSUME NEW n \in Nat, n \in T PROVE n + 1 \in T
  <2> SUFFICES ASSUME NEW s \in SUBSET S, Cardinality(s) = n + 1 PROVE iter[s] = F[s]
    OBVIOUS
  <2>1. s # {}
    BY FS_EmptySet
  <2>2. Cardinality(s \ {one(s)}) = Cardinality(s) - 1
    BY <1>0, <1>6, <2>1, FS_RemoveElement
  <2>3. Cardinality(s \ {one(s)}) = n
    BY <2>2
  <2>4. iter[s \ {one(s)}] = F[s \ {one(s)}]
    BY <1>6, <1>8, <2>1, <2>3
  <2>. QED
    BY <1>4, <1>5, <2>1, <2>4
<1> HIDE DEF T
<1>9. Cardinality(S) \in T
  BY <1>0, <1>7, <1>8, NaturalSets
<1>. QED
  BY <1>1, <1>9 DEF T

\* Any element can be the one that is added last.
LEMMA SumsTake ==
  ASSUME NEW S, IsFiniteSet(S), NEW g \in [S -> Nat], NEW F, Sums(F, g, S)
  PROVE  \A s \in SUBSET S : \A x \in s : F[s] = g[x] + F[s \ {x}]
<1> DEFINE one(s) == CHOOSE x \in s : TRUE
           T == {n \in Nat : \A s \in SUBSET S : Cardinality(s) <= n => \A x \in s : F[s] = g[x] + F[s \ {x}]}
<1>1. \A s \in SUBSET S : F[s] \in Nat /\ F[s] = IF s = {} THEN 0 ELSE g[one(s)] + F[s \ {one(s)}]
  BY DEF Sums
<1>2. \A s \in SUBSET S : s # {} => one(s) \in s
  OBVIOUS
<1> HIDE DEF one
<1>0. \A s \in SUBSET S : IsFiniteSet(s) /\ Cardinality(s) \in Nat /\ (Cardinality(s) = 0 => s = {})
  BY FS_Subset, FS_CardinalityType, FS_EmptySet
<1>3. 0 \in T
  BY <1>0
<1>4. ASSUME NEW n \in Nat, n \in T PROVE n + 1 \in T
  <2> SUFFICES ASSUME NEW s \in SUBSET S, Cardinality(s) <= n + 1, NEW x \in s PROVE F[s] = g[x] + F[s \ {x}]
    OBVIOUS
  <2> DEFINE c == one(s)
  <2>1. c \in s /\ F[s] = g[c] + F[s \ {c}]
    BY <1>1, <1>2
  <2> HIDE DEF c
  <2>2. CASE c = x
    BY <2>1, <2>2
  <2>3. CASE c # x
    <3>1. s \ {c} \in SUBSET S /\ s \ {x} \in SUBSET S /\ x \in s \ {c} /\ c \in s \ {x}
      BY <2>1, <2>3
    <3>2. Cardinality(s \ {c}) = Cardinality(s) - 1 /\ Cardinality(s \ {x}) = Cardinality(s) - 1
      BY <1>0, <2>1, FS_RemoveElement
    <3>3. Cardinality(s \ {c}) <= n /\ Cardinality(s \ {x}) <= n
      BY <1>0, <3>2
    <3>4. F[s \ {c}] = g[x] + F[(s \ {c}) \ {x}] /\ F[s \ {x}] = g[c] + F[(s \ {x}) \ {c}]
      BY <1>4, <3>1, <3>3
    <3>5. (s \ {c}) \ {x} = (s \ {x}) \ {c} /\ (s \ {c}) \ {x} \in SUBSET S
      OBVIOUS
    <3>6. g[c] \in Nat /\ g[x] \in Nat /\ F[(s \ {c}) \ {x}] \in Nat
      BY <1>1, <2>1, <3>5
    <3>7. F[s \ {x}] = g[c] + F[(s \ {c}) \ {x}]
      BY <3>4, <3>5
    <3>. QED
      BY ONLY <2>1, <3>4, <3>6, <3>7
  <2>. QED
    BY <2>2, <2>3
<1> HIDE DEF T
<1>5. \A n \in Nat : n \in T
  BY <1>3, <1>4, NaturalSets
<1>6. ASSUME NEW s \in SUBSET S PROVE \A x \in s : F[s] = g[x] + F[s \ {x}]
  <2>1. Cardinality(s) \in T /\ Cardinality(s) <= Cardinality(s)
    BY <1>0, <1>5
  <2>. QED
    BY <2>1 DEF T
<1>. QED
  BY <1>6

LEMMA SumsPart ==
  ASSUME NEW S, IsFiniteSet(S), NEW g \in [S -> Nat], NEW F, Sums(F, g, S), NEW U \in SUBSET S
  PROVE  Summed(g, U) = F[U]
<1> DEFINE h == [x \in U |-> g[x]]
           E == [s \in SUBSET U |-> F[s]]
           one(s) == CHOOSE x \in s : TRUE
<1>0. IsFiniteSet(U)
  BY FS_Subset
<1>1. h \in [U -> Nat] /\ E \in [SUBSET U -> Nat]
  BY DEF Sums
<1>2. ASSUME NEW s \in SUBSET U PROVE E[s] = IF s = {} THEN 0 ELSE h[one(s)] + E[s \ {one(s)}]
  <2>1. s \in SUBSET S
    OBVIOUS
  <2>2. F[s] = IF s = {} THEN 0 ELSE g[one(s)] + F[s \ {one(s)}]
    BY <2>1 DEF Sums
  <2>3. E[s] = F[s] /\ E[s \ {one(s)}] = F[s \ {one(s)}]
    OBVIOUS
  <2>4. s # {} => one(s) \in U /\ h[one(s)] = g[one(s)]
    OBVIOUS
  <2>. QED
    BY <2>2, <2>3, <2>4
<1>3. Sums(E, h, U)
  <2> HIDE DEF E, h
  <2>. QED
    BY <1>1, <1>2 DEF Sums
<1>4. Summed(h, U) = E[U]
  <2> HIDE DEF E, h
  <2>. QED
    BY <1>0, <1>1, <1>3, SumsAre
<1>5. Summed(g, U) = Summed(h, U)
  <2>1. \A s \in SUBSET U : s # {} => h[CHOOSE x \in s : TRUE] = g[CHOOSE x \in s : TRUE]
    OBVIOUS
  <2> DEFINE a(f) == [s \in SUBSET U |-> IF s = {} THEN 0 ELSE g[CHOOSE x \in s : TRUE] + f[s \ {CHOOSE x \in s : TRUE}]]
             b(f) == [s \in SUBSET U |-> IF s = {} THEN 0 ELSE h[CHOOSE x \in s : TRUE] + f[s \ {CHOOSE x \in s : TRUE}]]
  <2>2. Summed(g, U) = (CHOOSE f : f = a(f))[U]
    BY DEF Summed, MapThenSumSet, MapThenFoldSet
  <2>3. Summed(h, U) = (CHOOSE f : f = b(f))[U]
    BY DEF Summed, MapThenSumSet, MapThenFoldSet
  <2>4. \A f : a(f) = b(f)
    <3> HIDE DEF h
    <3>. QED
      BY <2>1
  <2> HIDE DEF a, b
  <2>5. (CHOOSE f : f = a(f)) = (CHOOSE f : f = b(f))
    BY <2>4
  <2>. QED
    BY <2>2, <2>3, <2>5
<1>. QED
  BY <1>4, <1>5

LEMMA SummedNext ==
  ASSUME NEW S, IsFiniteSet(S), NEW g \in [S -> Nat]
  PROVE  /\ Summed(g, {}) = 0
         /\ \A s \in SUBSET S : Summed(g, s) \in Nat
         /\ \A s \in SUBSET S : \A x \in S : x \notin s => Summed(g, s \cup {x}) = g[x] + Summed(g, s)
<1>1. PICK F : Sums(F, g, S)
  BY SumsExist
<1>2. \A s \in SUBSET S : Summed(g, s) = F[s]
  BY <1>1, SumsPart
<1>3. Summed(g, {}) = 0
  BY <1>1, <1>2 DEF Sums
<1>4. \A s \in SUBSET S : Summed(g, s) \in Nat
  BY <1>1, <1>2 DEF Sums
<1>5. ASSUME NEW s \in SUBSET S, NEW x \in S, x \notin s PROVE Summed(g, s \cup {x}) = g[x] + Summed(g, s)
  <2>1. s \cup {x} \in SUBSET S /\ x \in s \cup {x} /\ (s \cup {x}) \ {x} = s
    BY <1>5
  <2>2. F[s \cup {x}] = g[x] + F[(s \cup {x}) \ {x}]
    BY <1>1, <2>1, SumsTake
  <2>. QED
    BY <1>2, <2>1, <2>2
<1>. QED
  BY <1>3, <1>4, <1>5

LEMMA SummedLargest ==
  ASSUME NEW S, IsFiniteSet(S), NEW g \in [S -> Nat]
  PROVE  \A s \in SUBSET S : Summed(g, s) <= Summed(g, S)
<1> DEFINE T == {n \in Nat : \A s \in SUBSET S : Cardinality(S \ s) <= n => Summed(g, s) <= Summed(g, S)}
<1>0. \A s \in SUBSET S : Summed(g, s) \in Nat /\ IsFiniteSet(S \ s) /\ Cardinality(S \ s) \in Nat
  BY SummedNext, FS_Subset, FS_CardinalityType
<1>1. 0 \in T
  <2> SUFFICES ASSUME NEW s \in SUBSET S, Cardinality(S \ s) <= 0 PROVE Summed(g, s) <= Summed(g, S)
    OBVIOUS
  <2>1. Cardinality(S \ s) = 0
    BY <1>0
  <2>2. S \ s = {}
    BY <1>0, <2>1, FS_EmptySet
  <2>3. s = S
    BY <2>2
  <2>. QED
    BY <1>0, <2>3
<1>2. ASSUME NEW n \in Nat, n \in T PROVE n + 1 \in T
  <2> SUFFICES ASSUME NEW s \in SUBSET S, Cardinality(S \ s) <= n + 1 PROVE Summed(g, s) <= Summed(g, S)
    OBVIOUS
  <2>1. CASE s = S
    BY <1>0, <2>1
  <2>2. CASE s # S
    <3>1. PICK x \in S : x \notin s
      BY <2>2
    <3>2. S \ (s \cup {x}) = (S \ s) \ {x} /\ x \in S \ s /\ s \cup {x} \in SUBSET S
      BY <3>1
    <3>3. Cardinality(S \ (s \cup {x})) = Cardinality(S \ s) - 1
      <4>1. IsFiniteSet(S \ s)
        BY <1>0
      <4>2. Cardinality((S \ s) \ {x}) = Cardinality(S \ s) - 1
        BY ONLY <3>2, <4>1, FS_RemoveElement
      <4>. QED
        BY <3>2, <4>2
    <3>4. Cardinality(S \ (s \cup {x})) <= n
      BY <1>0, <3>3
    <3>5. Summed(g, s \cup {x}) <= Summed(g, S)
      BY <1>2, <3>2, <3>4
    <3>6. Summed(g, s \cup {x}) = g[x] + Summed(g, s)
      BY <3>1, SummedNext
    <3>7. g[x] \in Nat /\ Summed(g, s) \in Nat /\ Summed(g, S) \in Nat
      BY <1>0
    <3>. QED
      BY ONLY <3>5, <3>6, <3>7
  <2>. QED
    BY <2>1, <2>2
<1> HIDE DEF T
<1>3. \A n \in Nat : n \in T
  BY <1>1, <1>2, NaturalSets
<1>4. ASSUME NEW s \in SUBSET S PROVE Summed(g, s) <= Summed(g, S)
  <2>1. Cardinality(S \ s) \in T /\ Cardinality(S \ s) <= Cardinality(S \ s)
    BY <1>0, <1>3
  <2>. QED
    BY <2>1 DEF T
<1>. QED
  BY <1>4
===============================================================================
