----------------------------- MODULE ListLemmas -----------------------------
(***************************************************************************)
(* What the operations of the kernel's intrusive lists do to the contents  *)
(* of a list.  A list is a sequence without repetitions, as List::insert   *)
(* refuses a node that is linked already (include/wmc/__list.h); every     *)
(* lemma says that an operation keeps it so and which elements it holds    *)
(* afterwards.                                                             *)
(***************************************************************************)
EXTENDS Integers, SequencesExt, SequenceTheorems, NaturalsInduction,
        WellFoundedInduction, FiniteSetTheorems, TLAPS

\* push_back of an element that is not in the list
LEMMA AppendList ==
  ASSUME NEW S, NEW s \in Seq(S), IsInjective(s), NEW e \in S, ~Contains(s, e)
  PROVE  /\ Append(s, e) \in Seq(S)
         /\ IsInjective(Append(s, e))
         /\ \A x : Contains(Append(s, e), x) <=> Contains(s, x) \/ x = e
  BY AppendProperties DEF IsInjective, Contains

\* erase of the element at a position
LEMMA RemoveAtList ==
  ASSUME NEW S, NEW s \in Seq(S), IsInjective(s), NEW i \in 1..Len(s)
  PROVE  /\ RemoveAt(s, i) \in Seq(S)
         /\ IsInjective(RemoveAt(s, i))
         /\ \A x : Contains(RemoveAt(s, i), x) <=> Contains(s, x) /\ x # s[i]
PROOF
  <1> DEFINE a == SubSeq(s, 1, i - 1)
             b == SubSeq(s, i + 1, Len(s))
             r == RemoveAt(s, i)
  <1>1. /\ a \in Seq(S) /\ Len(a) = i - 1
        /\ \A j \in 1..(i - 1) : a[j] = s[j]
    BY SubSeqProperties
  <1>2. /\ b \in Seq(S) /\ Len(b) = Len(s) - i
        /\ \A j \in 1..(Len(s) - i) : b[j] = s[i + j]
    BY SubSeqProperties
  <1>3. /\ r \in Seq(S) /\ Len(r) = Len(s) - 1
        /\ \A j \in 1..(Len(s) - 1) : r[j] = IF j < i THEN s[j] ELSE s[j + 1]
    <2>1. r = a \o b
      BY DEF RemoveAt
    <2> HIDE DEF r, a, b
    <2>2. /\ a \o b \in Seq(S) /\ Len(a \o b) = Len(a) + Len(b)
          /\ \A j \in 1..(Len(a) + Len(b)) :
               (a \o b)[j] = IF j <= Len(a) THEN a[j] ELSE b[j - Len(a)]
      BY <1>1, <1>2, ConcatProperties
    <2>3. Len(a) + Len(b) = Len(s) - 1
      BY <1>1, <1>2
    <2>4. ASSUME NEW j \in 1..(Len(s) - 1)
          PROVE  (a \o b)[j] = IF j < i THEN s[j] ELSE s[j + 1]
      <3>1. CASE j < i
        BY <3>1, <2>2, <2>3, <1>1, <1>2
      <3>2. CASE ~(j < i)
        <4>1. j - Len(a) \in 1..(Len(s) - i) /\ ~(j <= Len(a))
          BY <3>2, <1>1, <2>4
        <4>2. b[j - Len(a)] = s[i + (j - Len(a))] /\ i + (j - Len(a)) = j + 1
          BY <4>1, <1>1, <1>2
        <4> QED
          BY <3>2, <4>1, <4>2, <2>2, <2>3
      <3> QED
        BY <3>1, <3>2
    <2> QED
      BY <2>1, <2>2, <2>3, <2>4
  <1> HIDE DEF r, a, b
  <1>4. IsInjective(r)
    <2>1. DOMAIN r = 1..(Len(s) - 1) /\ DOMAIN s = 1..Len(s)
      BY <1>3
    <2>2. ASSUME NEW j \in 1..(Len(s) - 1), NEW k \in 1..(Len(s) - 1), r[j] = r[k]
          PROVE  j = k
      <3> DEFINE J == IF j < i THEN j ELSE j + 1
                 K == IF k < i THEN k ELSE k + 1
      <3>1. J \in 1..Len(s) /\ K \in 1..Len(s) /\ (J = K => j = k)
        BY <2>2
      <3>2. r[j] = s[J] /\ r[k] = s[K]
        BY <1>3
      <3> QED
        BY <3>1, <3>2, <2>1, <2>2 DEF IsInjective
    <2> QED
      BY <2>1, <2>2 DEF IsInjective
  <1>5. ASSUME NEW x PROVE Contains(r, x) <=> Contains(s, x) /\ x # s[i]
    <2>1. ASSUME Contains(r, x) PROVE Contains(s, x) /\ x # s[i]
      BY <2>1, <1>3, SMTT(30) DEF Contains, IsInjective
    <2>2. ASSUME Contains(s, x), x # s[i] PROVE Contains(r, x)
      <3>1. PICK j \in 1..Len(s) : s[j] = x
        BY <2>2 DEF Contains
      <3>2. CASE j < i
        BY <3>1, <3>2, <1>3 DEF Contains
      <3>3. CASE j > i
        <4>1. j - 1 \in 1..Len(r) /\ r[j - 1] = x
          BY <3>1, <3>3, <1>3
        <4> QED
          BY <4>1 DEF Contains
      <3> QED
        BY <3>1, <3>2, <3>3, <2>2
    <2> QED
      BY <2>1, <2>2
  <1> QED
    BY <1>3, <1>4, <1>5 DEF r

\* erase of a node: the element is gone and every other one is kept
LEMMA RemoveFirstList ==
  ASSUME NEW S, NEW s \in Seq(S), IsInjective(s), NEW e
  PROVE  /\ RemoveFirst(s, e) \in Seq(S)
         /\ IsInjective(RemoveFirst(s, e))
         /\ \A x : Contains(RemoveFirst(s, e), x) <=> Contains(s, x) /\ x # e
PROOF
  <1>1. CASE ~Contains(s, e)
    BY <1>1 DEF Contains, RemoveFirst
  <1>2. CASE Contains(s, e)
    <2>1. PICK i \in 1..Len(s) : s[i] = e
      BY <1>2 DEF Contains
    <2> DEFINE I == {j \in 1..Len(s) : s[j] = e}
    <2>2. I = {i}
      BY <2>1 DEF IsInjective
    <2>3. Min({i}) = i
      BY DEF Min
    <2>4. SelectInSeq(s, LAMBDA v : v = e) = i
      BY <2>2, <2>3 DEF SelectInSeq
    <2>5. RemoveFirst(s, e) = RemoveAt(s, i)
      BY <2>1, <2>4 DEF RemoveFirst
    <2> QED
      BY <2>1, <2>5, RemoveAtList
  <1> QED
    BY <1>1, <1>2

\* insert of an element that is not in the list before a position
LEMMA InsertAtList ==
  ASSUME NEW S, NEW s \in Seq(S), IsInjective(s), NEW e \in S, ~Contains(s, e),
         NEW i \in 1..(Len(s) + 1)
  PROVE  /\ InsertAt(s, i, e) \in Seq(S)
         /\ IsInjective(InsertAt(s, i, e))
         /\ \A x : Contains(InsertAt(s, i, e), x) <=> Contains(s, x) \/ x = e
PROOF
  <1> DEFINE a == SubSeq(s, 1, i - 1)
             b == SubSeq(s, i, Len(s))
             r == InsertAt(s, i, e)
  <1>1. /\ a \in Seq(S) /\ Len(a) = i - 1
        /\ \A j \in 1..(i - 1) : a[j] = s[j]
    BY SubSeqProperties
  <1>2. /\ b \in Seq(S) /\ Len(b) = Len(s) - i + 1
        /\ \A j \in 1..(Len(s) - i + 1) : b[j] = s[i + j - 1]
    BY SubSeqProperties
  <1>3. /\ r \in Seq(S) /\ Len(r) = Len(s) + 1
        /\ \A j \in 1..(Len(s) + 1) :
             r[j] = IF j < i THEN s[j] ELSE IF j = i THEN e ELSE s[j - 1]
    <2> DEFINE c == a \o <<e>>
    <2>0. <<e>> \in Seq(S) /\ Len(<<e>>) = 1 /\ <<e>>[1] = e
      OBVIOUS
    <2>1. /\ c \in Seq(S) /\ Len(c) = Len(a) + 1
          /\ \A j \in 1..(Len(a) + 1) : c[j] = IF j <= Len(a) THEN a[j] ELSE e
      BY <2>0, <1>1, ConcatProperties
    <2>2. r = c \o b
      BY DEF InsertAt
    <2> HIDE DEF c, a, b
    <2>3. /\ c \o b \in Seq(S) /\ Len(c \o b) = Len(c) + Len(b)
          /\ \A j \in 1..(Len(c) + Len(b)) :
               (c \o b)[j] = IF j <= Len(c) THEN c[j] ELSE b[j - Len(c)]
      BY <2>1, <1>2, ConcatProperties
    <2> QED
      BY <2>1, <2>2, <2>3, <1>1, <1>2
  <1> HIDE DEF r, a, b
  <1>4. IsInjective(r)
    <2>1. DOMAIN r = 1..(Len(s) + 1) /\ DOMAIN s = 1..Len(s)
      BY <1>3
    <2>2. ASSUME NEW j \in 1..(Len(s) + 1), NEW k \in 1..(Len(s) + 1),
                 r[j] = r[k], j < k
          PROVE  FALSE
      <3> DEFINE J == IF j < i THEN j ELSE j - 1
                 K == IF k < i THEN k ELSE k - 1
      <3>1. CASE j # i /\ k # i
        <4>1. J \in 1..Len(s) /\ K \in 1..Len(s) /\ J # K
          BY <2>2, <3>1
        <4>2. r[j] = s[J] /\ r[k] = s[K]
          BY <1>3, <3>1
        <4> QED
          BY <4>1, <4>2, <2>1, <2>2 DEF IsInjective
      <3>2. CASE j = i
        <4>1. k - 1 \in 1..Len(s) /\ r[k] = s[k - 1] /\ r[j] = e
          BY <2>2, <3>2, <1>3
        <4> QED
          BY <4>1, <2>2 DEF Contains
      <3>3. CASE k = i
        <4>1. j \in 1..Len(s) /\ r[j] = s[j] /\ r[k] = e
          BY <2>2, <3>3, <1>3
        <4> QED
          BY <4>1, <2>2 DEF Contains
      <3> QED
        BY <3>1, <3>2, <3>3
    <2>3. ASSUME NEW j \in 1..(Len(s) + 1), NEW k \in 1..(Len(s) + 1), r[j] = r[k]
          PROVE  j = k
      BY <2>2, <2>3
    <2> QED
      BY <2>1, <2>3 DEF IsInjective
  <1>5. ASSUME NEW x PROVE Contains(r, x) <=> Contains(s, x) \/ x = e
    <2>1. ASSUME Contains(r, x) PROVE Contains(s, x) \/ x = e
      BY <2>1, <1>3 DEF Contains
    <2>2. ASSUME Contains(s, x) PROVE Contains(r, x)
      <3>1. PICK j \in 1..Len(s) : s[j] = x
        BY <2>2 DEF Contains
      <3>2. CASE j < i
        BY <3>1, <3>2, <1>3 DEF Contains
      <3>3. CASE j >= i
        <4>1. j + 1 \in 1..Len(r) /\ r[j + 1] = x
          BY <3>1, <3>3, <1>3
        <4> QED
          BY <4>1 DEF Contains
      <3> QED
        BY <3>1, <3>2, <3>3
    <2>3. Contains(r, e)
      BY <1>3 DEF Contains
    <2> QED
      BY <2>1, <2>2, <2>3
  <1> QED
    BY <1>3, <1>4, <1>5 DEF r

\* moving the front element to the back
LEMMA RotateList ==
  ASSUME NEW S, NEW s \in Seq(S), IsInjective(s), s # <<>>
  PROVE  /\ Append(Tail(s), Head(s)) \in Seq(S)
         /\ IsInjective(Append(Tail(s), Head(s)))
         /\ \A x : Contains(Append(Tail(s), Head(s)), x) <=> Contains(s, x)
PROOF
  <1>1. /\ Tail(s) \in Seq(S) /\ Head(s) \in S /\ Head(s) = s[1]
        /\ Len(Tail(s)) = Len(s) - 1 /\ Len(s) >= 1
        /\ \A i \in 1..(Len(s) - 1) : Tail(s)[i] = s[i + 1]
    BY HeadTailProperties
  <1>2. IsInjective(Tail(s)) /\ ~Contains(Tail(s), Head(s))
    BY <1>1 DEF IsInjective, Contains
  <1>3. ASSUME NEW x PROVE Contains(s, x) <=> Contains(Tail(s), x) \/ x = Head(s)
    <2>1. ASSUME NEW i \in 1..Len(s), s[i] = x
          PROVE  Contains(Tail(s), x) \/ x = Head(s)
      <3>1. CASE i = 1
        BY <2>1, <3>1, <1>1
      <3>2. CASE i > 1
        <4>1. i - 1 \in 1..Len(Tail(s)) /\ Tail(s)[i - 1] = x
          BY <2>1, <3>2, <1>1
        <4> QED
          BY <4>1 DEF Contains
      <3> QED
        BY <3>1, <3>2
    <2>2. ASSUME Contains(Tail(s), x) \/ x = Head(s) PROVE Contains(s, x)
      BY <2>2, <1>1 DEF Contains
    <2> QED
      BY <2>1, <2>2 DEF Contains
  <1> QED
    BY <1>1, <1>2, <1>3, AppendList

\* pop_front
LEMMA TailList ==
  ASSUME NEW S, NEW s \in Seq(S), IsInjective(s), s # <<>>
  PROVE  /\ Head(s) \in S /\ Contains(s, Head(s))
         /\ Tail(s) \in Seq(S) /\ IsInjective(Tail(s))
PROOF
  <1>1. /\ Tail(s) \in Seq(S) /\ Head(s) \in S /\ Head(s) = s[1]
        /\ Len(Tail(s)) = Len(s) - 1 /\ Len(s) >= 1
        /\ \A i \in 1..(Len(s) - 1) : Tail(s)[i] = s[i + 1]
    BY HeadTailProperties
  <1> QED
    BY <1>1 DEF IsInjective, Contains

\* pop_front takes away the first element and no other
LEMMA TailContains ==
  ASSUME NEW S, NEW s \in Seq(S), IsInjective(s), s # <<>>
  PROVE  \A x : Contains(Tail(s), x) <=> Contains(s, x) /\ x # Head(s)
PROOF
  <1>1. /\ Tail(s) \in Seq(S) /\ Head(s) \in S /\ Head(s) = s[1]
        /\ Len(Tail(s)) = Len(s) - 1 /\ Len(s) >= 1
        /\ \A i \in 1..(Len(s) - 1) : Tail(s)[i] = s[i + 1]
    BY HeadTailProperties
  <1>2. ASSUME NEW x, Contains(Tail(s), x) PROVE Contains(s, x) /\ x # Head(s)
    BY <1>1, <1>2 DEF Contains, IsInjective
  <1>3. ASSUME NEW x, Contains(s, x), x # Head(s) PROVE Contains(Tail(s), x)
    <2>1. PICK i \in 1..Len(s) : s[i] = x
      BY <1>3 DEF Contains
    <2>2. i - 1 \in 1..Len(Tail(s)) /\ Tail(s)[i - 1] = x
      BY <1>1, <1>3, <2>1
    <2> QED
      BY <2>2 DEF Contains
  <1> QED
    BY <1>2, <1>3

\* a non-empty set of naturals has a least element
LEMMA LeastNatural ==
  ASSUME NEW I \in SUBSET Nat, I # {}
  PROVE  \E x \in I : \A y \in I : x <= y
PROOF
  <1>1. PICK x \in I : \A y \in I : ~ (<<y, x>> \in OpToRel(<, Nat))
    BY NatLessThanWellFounded, WFMin
  <1>2. ASSUME NEW y \in I PROVE x <= y
    <2>1. x \in Nat /\ y \in Nat
      OBVIOUS
    <2>2. y < x => <<y, x>> \in OpToRel(<, Nat)
      BY <2>1 DEF OpToRel
    <2>3. ~(y < x)
      BY <1>1, <2>2, Zenon
    <2> QED
      BY <2>1, <2>3
  <1> QED
    BY <1>2

\* so Min is one of them
LEMMA MinInSet ==
  ASSUME NEW I \in SUBSET Nat, I # {}
  PROVE  Min(I) \in I
PROOF
  <1> QED
    BY LeastNatural DEF Min

\* and a set that holds 0 and the successor of each of its elements holds
\* every natural number: induction, for a predicate given as a set
LEMMA InductionSet ==
  ASSUME NEW S, 0 \in S, \A n \in Nat : n \in S => n + 1 \in S
  PROVE  Nat \subseteq S
PROOF
  <1> DEFINE I == Nat \ S
  <1>1. SUFFICES ASSUME I # {} PROVE FALSE
    OBVIOUS
  <1>2. PICK x \in I : \A y \in I : x <= y
    BY <1>1, LeastNatural
  <1>3. x # 0 /\ x - 1 \in Nat /\ x - 1 \notin I
    BY <1>2
  <1>4. x - 1 \in S /\ (x - 1) + 1 = x
    BY <1>3
  <1> QED
    BY <1>3, <1>4

\* sequences that agree on their first d elements have the same prefix
LEMMA SamePrefix ==
  ASSUME NEW S, NEW a \in Seq(S), NEW c \in Seq(S), NEW d \in Nat,
         d <= Len(a), d <= Len(c), \A j \in 1 .. d : a[j] = c[j]
  PROVE  SubSeq(a, 1, d) = SubSeq(c, 1, d)
PROOF
  <1>1. /\ SubSeq(a, 1, d) \in Seq(S) /\ Len(SubSeq(a, 1, d)) = d
        /\ \A j \in 1 .. d : SubSeq(a, 1, d)[j] = a[j]
    BY SubSeqProperties
  <1>2. /\ SubSeq(c, 1, d) \in Seq(S) /\ Len(SubSeq(c, 1, d)) = d
        /\ \A j \in 1 .. d : SubSeq(c, 1, d)[j] = c[j]
    BY SubSeqProperties
  <1> QED
    BY <1>1, <1>2, SeqEqual

\* the indices of a sequence, counted
LEMMA IndexCount ==
  ASSUME NEW n \in Nat
  PROVE  IsFiniteSet(1 .. n) /\ Cardinality(1 .. n) = n
PROOF
  <1>1. 1 \in Int /\ n \in Int
    OBVIOUS
  <1>2. IsFiniteSet(1 .. n) /\ Cardinality(1 .. n) = IF 1 > n THEN 0 ELSE n - 1 + 1
    BY <1>1, FS_Interval
  <1> QED
    BY <1>2

=============================================================================
