--------------------------- MODULE KmallocProofs ---------------------------
(***************************************************************************)
(* Proofs about Kmalloc and Physical, for any number of frames, temporary  *)
(* pages, sizes and callers: frames, free blocks and counters are exact,   *)
(* free memory is joined, the allocator's assertions hold, kmalloc fails   *)
(* only when it must, and the heap keeps its promise to its callers.       *)
(***************************************************************************)
EXTENDS Kmalloc, ListLemmas

-----------------------------------------------------------------------------
(* Powers of two.                                                          *)

IsPow2(g, m) == g = [i \in 0 .. m |-> IF i = 0 THEN 1 ELSE 2 * g[i - 1]]

LEMMA Pow2Exists ==
  ASSUME NEW m \in Nat
  PROVE  \E g : IsPow2(g, m)
PROOF
  <1> DEFINE S == {k \in Nat : \E g : IsPow2(g, k)}
  <1>1. 0 \in S
    <2>1. IsPow2([i \in 0 .. 0 |-> 1], 0)
      BY DEF IsPow2
    <2> QED
      BY <2>1
  <1>2. ASSUME NEW k \in Nat, k \in S PROVE k + 1 \in S
    <2>1. PICK g : IsPow2(g, k)
      BY <1>2
    <2>2. PICK h : h = [i \in 0 .. k + 1 |-> IF i = k + 1 THEN 2 * g[k] ELSE g[i]]
      OBVIOUS
    <2>3. h[k + 1] = 2 * g[k] /\ \A i \in 0 .. k : h[i] = g[i]
      BY <2>2
    <2>4. \A i \in 0 .. k : g[i] = IF i = 0 THEN 1 ELSE 2 * g[i - 1]
      BY <2>1 DEF IsPow2
    <2>5. ASSUME NEW i \in 0 .. k + 1 PROVE h[i] = IF i = 0 THEN 1 ELSE 2 * h[i - 1]
      <3>1. CASE i = k + 1
        <4>1. i - 1 = k /\ i # 0 /\ h[i - 1] = g[k]
          BY <2>3, <3>1
        <4> QED
          BY <2>3, <3>1, <4>1
      <3>2. CASE i = 0
        BY <2>3, <2>4, <3>2
      <3>3. CASE i # 0 /\ i # k + 1
        <4>1. i \in 0 .. k /\ i - 1 \in 0 .. k
          BY <3>3
        <4>2. h[i] = g[i] /\ h[i - 1] = g[i - 1]
          BY <2>3, <4>1
        <4> QED
          BY <2>4, <3>3, <4>1, <4>2
      <3> QED
        BY <3>1, <3>2, <3>3
    <2>6. IsPow2(h, k + 1)
      <3>1. h = [i \in 0 .. k + 1 |-> h[i]]
        BY <2>2
      <3> QED
        BY <2>5, <3>1 DEF IsPow2
    <2> QED
      BY <2>6
  <1>3. Nat \subseteq S
    <2> HIDE DEF S
    <2> QED
      BY <1>1, <1>2, InductionSet
  <1> QED
    BY <1>3

LEMMA Pow2Def ==
  /\ PAGE \in Nat \ {0}
  /\ pow2[0] = 1
  /\ \A i \in 0 .. PAGE : i # 0 => pow2[i] = 2 * pow2[i - 1]
PROOF
  <1>1. PAGE \in Nat \ {0}
    BY KmallocAssumption DEF PAGE
  <1>2. PICK g : IsPow2(g, PAGE)
    BY <1>1, Pow2Exists
  <1>3. IsPow2(pow2, PAGE)
    BY <1>2 DEF pow2, IsPow2
  <1> QED
    BY <1>1, <1>3 DEF IsPow2

LEMMA Pow2 ==
  /\ \A i \in 0 .. PAGE : pow2[i] \in Nat \ {0}
  /\ \A i \in 0 .. PAGE - 1 : pow2[i + 1] = 2 * pow2[i]
PROOF
  <1> DEFINE S == {k \in Nat : k <= PAGE => pow2[k] \in Nat \ {0}}
  <1>1. 0 \in S
    BY Pow2Def
  <1>2. ASSUME NEW k \in Nat, k \in S PROVE k + 1 \in S
    <2>1. CASE k + 1 <= PAGE
      <3>1. k + 1 \in 0 .. PAGE /\ k + 1 # 0 /\ (k + 1) - 1 = k
        BY <2>1, Pow2Def
      <3>2. pow2[k + 1] = 2 * pow2[k] /\ pow2[k] \in Nat \ {0}
        BY <1>2, <2>1, <3>1, Pow2Def
      <3> QED
        BY <3>2
    <2> QED
      BY <2>1
  <1>3. Nat \subseteq S
    <2> HIDE DEF S
    <2> QED
      BY <1>1, <1>2, InductionSet
  <1>4. \A i \in 0 .. PAGE - 1 : i + 1 \in 0 .. PAGE /\ i + 1 # 0 /\ (i + 1) - 1 = i
    BY Pow2Def
  <1> QED
    BY <1>3, <1>4, Pow2Def

-----------------------------------------------------------------------------
(* Division.                                                               *)

LEMMA DivBounds ==
  ASSUME NEW n \in Nat, NEW d \in Nat \ {0}
  PROVE  n \div d \in Nat /\ (n \div d) * d <= n /\ n < (n \div d) * d + d
  OBVIOUS

LEMMA DivUnique ==
  ASSUME NEW n \in Nat, NEW d \in Nat \ {0}, NEW k \in Nat, k * d <= n, n < k * d + d
  PROVE  n \div d = k
  OBVIOUS

LEMMA DivTwice ==
  ASSUME NEW n \in Nat, NEW d \in Nat \ {0}
  PROVE  n \div (2 * d) = (n \div d) \div 2
  OBVIOUS

LEMMA MulCancel ==
  ASSUME NEW k \in Nat, NEW l \in Nat, NEW d \in Nat \ {0}
  PROVE  /\ k * d \in Nat
         /\ k * d = l * d => k = l
         /\ k < l => k * d + d <= l * d
         /\ (k * d) \div d = k
         /\ (k + 1) * d = k * d + d
  OBVIOUS

-----------------------------------------------------------------------------
(* The cells of size 2^i: Base(x, i) is the start of the one that holds x. *)

Quot(x, i) == x \div pow2[i]
Level == 0 .. PAGE

LEMMA QuotType ==
  ASSUME NEW x \in Nat, NEW i \in Level
  PROVE  /\ Quot(x, i) \in Nat /\ Base(x, i) \in Nat
         /\ Base(x, i) = Quot(x, i) * pow2[i]
         /\ Base(x, i) <= x /\ x < Base(x, i) + pow2[i]
  BY Pow2, DivBounds, MulCancel DEF Quot, Base, Level

LEMMA QuotUp ==
  ASSUME NEW x \in Nat, NEW i \in Level, i < PAGE
  PROVE  i + 1 \in Level /\ Quot(x, i + 1) = Quot(x, i) \div 2
PROOF
  <1>1. i \in 0 .. PAGE - 1 /\ i + 1 \in Level
    BY Pow2Def DEF Level
  <1>2. pow2[i + 1] = 2 * pow2[i] /\ pow2[i] \in Nat \ {0}
    BY <1>1, Pow2 DEF Level
  <1> QED
    BY <1>1, <1>2, DivTwice DEF Quot

LEMMA SameCell ==
  ASSUME NEW x \in Nat, NEW y \in Nat, NEW i \in Level
  PROVE  Base(x, i) = Base(y, i) <=> Quot(x, i) = Quot(y, i)
PROOF
  <1>1. PICK d \in Nat \ {0} : d = pow2[i]
    BY Pow2 DEF Level
  <1>2. PICK k \in Nat : k = Quot(x, i) /\ Base(x, i) = k * d
    BY <1>1, QuotType
  <1>3. PICK l \in Nat : l = Quot(y, i) /\ Base(y, i) = l * d
    BY <1>1, QuotType
  <1>4. k * d = l * d <=> k = l
    BY MulCancel
  <1> QED
    BY <1>2, <1>3, <1>4

\* A number in the cell of another one
LEMMA InCell ==
  ASSUME NEW x \in Nat, NEW y \in Nat, NEW i \in Level,
         Base(x, i) <= y, y < Base(x, i) + pow2[i]
  PROVE  Base(y, i) = Base(x, i)
PROOF
  <1>1. PICK d \in Nat \ {0} : d = pow2[i]
    BY Pow2 DEF Level
  <1>2. PICK k \in Nat : k = Quot(x, i) /\ Base(x, i) = k * d
    BY <1>1, QuotType
  <1>3. y \div d = k
    BY <1>1, <1>2, DivUnique
  <1>4. Quot(y, i) = Quot(x, i)
    BY <1>1, <1>2, <1>3 DEF Quot
  <1> QED
    BY <1>4, SameCell

\* Numbers in one cell are in one cell of every larger size.
LEMMA SameUp ==
  ASSUME NEW x \in Nat, NEW y \in Nat, NEW i \in Level, NEW j \in Level, i <= j,
         Base(x, i) = Base(y, i)
  PROVE  Base(x, j) = Base(y, j)
PROOF
  <1> DEFINE S == {k \in Nat : i + k <= PAGE => Quot(x, i + k) = Quot(y, i + k)}
  <1>0. i \in Nat /\ j \in Nat /\ PAGE \in Nat /\ j <= PAGE
    BY Pow2Def DEF Level
  <1>1. 0 \in S
    BY <1>0, SameCell
  <1>2. ASSUME NEW k \in Nat, k \in S PROVE k + 1 \in S
    <2>1. CASE i + (k + 1) <= PAGE
      <3>1. i + k \in Level /\ i + k < PAGE /\ i + (k + 1) = (i + k) + 1
        BY <1>0, <2>1 DEF Level
      <3>2. Quot(x, i + k) = Quot(y, i + k)
        <4>1. i + k <= PAGE
          BY <1>0, <3>1
        <4> QED
          BY <1>2, <4>1
      <3> QED
        BY <3>1, <3>2, QuotUp
    <2> QED
      BY <2>1
  <1>3. Nat \subseteq S
    <2> HIDE DEF S
    <2> QED
      BY <1>1, <1>2, InductionSet
  <1>4. PICK k \in Nat : j = i + k
    <2>1. j - i \in Nat /\ j = i + (j - i)
      BY <1>0
    <2> QED
      BY <2>1
  <1>5. Quot(x, j) = Quot(y, j)
    BY <1>0, <1>3, <1>4
  <1> QED
    BY <1>5, SameCell

\* The cells of one number are nested.
LEMMA BaseNest ==
  ASSUME NEW x \in Nat, NEW i \in Level, NEW j \in Level, i <= j
  PROVE  Base(Base(x, i), j) = Base(x, j) /\ Base(x, j) <= Base(x, i)
PROOF
  <1>1. PICK d \in Nat \ {0} : d = pow2[i]
    BY Pow2 DEF Level
  <1>0. PICK b \in Nat : b = Base(x, i)
    BY QuotType
  <1>2. Base(x, i) \in Nat /\ Base(x, i) <= Base(x, i) /\ Base(x, i) < Base(x, i) + pow2[i]
    BY <1>0, <1>1
  <1>3. Base(Base(x, i), i) = Base(x, i)
    BY <1>2, InCell
  <1>4. Base(Base(x, i), j) = Base(x, j)
    BY <1>2, <1>3, SameUp
  <1>5. Base(Base(x, i), j) <= Base(x, i)
    BY <1>2, QuotType
  <1> QED
    BY <1>4, <1>5

Aligned(b, i) == b \in Nat /\ Base(b, i) = b

LEMMA BaseAligned ==
  ASSUME NEW x \in Nat, NEW i \in Level
  PROVE  Aligned(Base(x, i), i)
  BY BaseNest, QuotType DEF Aligned, Level

LEMMA AlignedDown ==
  ASSUME NEW b, NEW i \in Level, NEW j \in Level, j <= i, Aligned(b, i)
  PROVE  Aligned(b, j)
PROOF
  <1>1. b \in Nat /\ Base(b, i) = b
    BY DEF Aligned
  <1>2. Base(b, i) <= Base(b, j) /\ Base(b, j) <= b /\ Base(b, j) \in Nat
    BY <1>1, BaseNest, QuotType
  <1> QED
    BY <1>1, <1>2 DEF Aligned

\* A cell is made of two halves.
LEMMA Halves ==
  ASSUME NEW x \in Nat, NEW i \in Level, i < PAGE
  PROVE  /\ i + 1 \in Level
         /\ Base(x, i) = Base(x, i + 1) \/ Base(x, i) = Base(x, i + 1) + pow2[i]
         /\ Base(x, i) = Base(x, i + 1) <=> Quot(x, i) % 2 = 0
PROOF
  <1>1. i \in 0 .. PAGE - 1 /\ i + 1 \in Level
    BY Pow2Def DEF Level
  <1>2. pow2[i + 1] = 2 * pow2[i] /\ pow2[i] \in Nat \ {0}
    BY <1>1, Pow2 DEF Level
  <1>3. PICK q \in Nat : q = Quot(x, i) /\ Base(x, i) = q * pow2[i]
    BY QuotType
  <1>4. PICK h \in Nat : h = q \div 2 /\ Base(x, i + 1) = h * (2 * pow2[i])
    <2>1. Quot(x, i + 1) = Quot(x, i) \div 2
      BY QuotUp
    <2>2. Base(x, i + 1) = Quot(x, i + 1) * pow2[i + 1]
      BY <1>1, QuotType
    <2> QED
      BY <1>2, <1>3, <2>1, <2>2
  <1>5. PICK d \in Nat \ {0} : d = pow2[i]
    BY <1>2
  <1>6. CASE q % 2 = 0
    <2>1. q = 2 * h
      BY <1>4, <1>6
    <2>2. (2 * h) * d = h * (2 * d)
      OBVIOUS
    <2> QED
      BY <1>1, <1>3, <1>4, <1>5, <1>6, <2>1, <2>2
  <1>7. CASE q % 2 # 0
    <2>1. q = 2 * h + 1
      BY <1>4, <1>7
    <2>2. (2 * h + 1) * d = h * (2 * d) + d /\ h * (2 * d) \in Nat
      OBVIOUS
    <2>3. Base(x, i) = Base(x, i + 1) + pow2[i] /\ Base(x, i) # Base(x, i + 1)
      BY <1>3, <1>4, <1>5, <2>1, <2>2
    <2> QED
      BY <1>1, <1>3, <1>7, <2>3
  <1> QED
    BY <1>6, <1>7

LEMMA RightHalf ==
  ASSUME NEW c, NEW i \in Level, i < PAGE, Aligned(c, i + 1)
  PROVE  /\ Aligned(c, i) /\ Aligned(c + pow2[i], i)
         /\ Base(c + pow2[i], i + 1) = c /\ c + pow2[i] # c
PROOF
  <1>1. i \in 0 .. PAGE - 1 /\ i + 1 \in Level /\ i <= i + 1
    BY Pow2Def DEF Level
  <1>2. PICK d \in Nat \ {0} : d = pow2[i] /\ pow2[i + 1] = 2 * d
    BY <1>1, Pow2 DEF Level
  <1>3. c \in Nat /\ Base(c, i + 1) = c
    BY DEF Aligned
  <1>4. PICK y \in Nat : y = c + d
    BY <1>3
  <1>5. Base(y, i + 1) = c
    <2>1. Base(c, i + 1) <= y /\ y < Base(c, i + 1) + pow2[i + 1]
      BY <1>2, <1>3, <1>4
    <2> QED
      BY <1>1, <1>3, <2>1, InCell
  <1>6. Base(y, i) = y
    <2>1. Base(y, i) = c \/ Base(y, i) = c + d
      BY <1>2, <1>5, Halves
    <2>2. y < Base(y, i) + d
      BY <1>2, QuotType
    <2> QED
      BY <1>3, <1>4, <2>1, <2>2
  <1>7. Aligned(c, i)
    BY <1>1, AlignedDown
  <1> QED
    BY <1>2, <1>3, <1>4, <1>5, <1>6, <1>7 DEF Aligned

\* The other half of the cell above an aligned one
LEMMA PairFacts ==
  ASSUME NEW b, NEW i \in Level, i < PAGE, Aligned(b, i)
  PROVE  /\ pair(b, i) \in Nat /\ pair(b, i) # b /\ Aligned(pair(b, i), i)
         /\ Base(pair(b, i), i + 1) = Base(b, i + 1)
         /\ pair(pair(b, i), i) = b
         /\ \A x \in Nat : Base(x, i + 1) = Base(b, i + 1) => Base(x, i) \in {b, pair(b, i)}
PROOF
  <1>1. b \in Nat /\ Base(b, i) = b
    BY DEF Aligned
  <1>2. PICK c : c = Base(b, i + 1)
    OBVIOUS
  <1>3. i + 1 \in Level
    BY <1>1, Halves
  <1>4. Aligned(c, i + 1) /\ c \in Nat
    BY <1>1, <1>2, <1>3, BaseAligned DEF Aligned
  <1>5. PICK d \in Nat \ {0} : d = pow2[i]
    BY Pow2 DEF Level
  <1>6. PICK e \in Nat : e = c + d
    BY <1>4
  <1>7. Aligned(c, i) /\ Aligned(e, i) /\ Base(e, i + 1) = c /\ e # c /\ Base(c, i + 1) = c
    BY <1>4, <1>5, <1>6, RightHalf DEF Aligned
  <1>8. pair(c, i) = e
    <2>1. Quot(c, i) % 2 = 0
      BY <1>4, <1>7, Halves DEF Aligned
    <2> QED
      BY <1>5, <1>6, <2>1 DEF pair, Quot
  <1>9. pair(e, i) = c
    <2>1. Quot(e, i) % 2 # 0
      BY <1>6, <1>7, Halves DEF Aligned
    <2>2. pair(e, i) = e - d
      BY <1>5, <2>1 DEF pair, Quot
    <2> QED
      BY <1>4, <1>6, <2>2
  <1>10. b = c \/ b = e
    BY <1>1, <1>2, <1>5, <1>6, Halves
  <1>11. \A x \in Nat : Base(x, i + 1) = c => Base(x, i) \in {c, e}
    BY <1>5, <1>6, Halves
  <1>12. CASE b = c
    BY <1>2, <1>4, <1>6, <1>7, <1>8, <1>9, <1>11, <1>12
  <1>13. CASE b = e
    BY <1>2, <1>4, <1>6, <1>7, <1>8, <1>9, <1>11, <1>13
  <1> QED
    BY <1>10, <1>12, <1>13

LEMMA PageLevel == PAGE \in Level /\ 0 \in Level
  BY Pow2Def DEF Level

\* Units are the units of the slots' pages.
LEMMA UnitPage ==
  ASSUME NEW x \in Nat
  PROVE  x \in Unit <=> page(x) \in Slot
PROOF
  <1>1. PICK D \in Nat \ {0} : D = pow2[PAGE]
    BY Pow2, PageLevel DEF Level
  <1>2. PICK T \in Nat \ {0} : T = TmpPageCount
    BY PhysicalAssumption
  <1>3. PICK q \in Nat : q = page(x) /\ q * D <= x /\ x < q * D + D
    BY <1>1, DivBounds DEF page
  <1>4. q < T => q * D + D <= T * D
    BY MulCancel
  <1>5. T <= q => T * D <= q * D
    <2>1. T < q => T * D + D <= q * D
      BY MulCancel
    <2>2. T = q => T * D <= q * D
      BY MulCancel
    <2>3. T * D \in Nat /\ q * D \in Nat
      BY MulCancel
    <2> QED
      BY <2>1, <2>2, <2>3
  <1>6. T * D \in Nat /\ q * D \in Nat
    BY MulCancel
  <1>7. x < T * D <=> q < T
    BY <1>3, <1>4, <1>5, <1>6
  <1>8. x \in Unit <=> x < T * D
    BY <1>1, <1>2, <1>6 DEF Unit
  <1>9. page(x) \in Slot <=> q < T
    BY <1>2, <1>3 DEF Slot
  <1> QED
    BY <1>7, <1>8, <1>9

LEMMA UnitNat == Unit \subseteq Nat
PROOF
  <1>1. PICK D \in Nat \ {0} : D = pow2[PAGE]
    BY Pow2, PageLevel DEF Level
  <1>2. TmpPageCount * D \in Nat
    BY PhysicalAssumption, MulCancel
  <1> QED
    BY <1>1, <1>2 DEF Unit

LEMMA SamePage ==
  ASSUME NEW x \in Nat, NEW y \in Nat
  PROVE  page(x) = page(y) <=> Base(x, PAGE) = Base(y, PAGE)
PROOF
  <1>1. page(x) = Quot(x, PAGE) /\ page(y) = Quot(y, PAGE)
    BY DEF page, Quot
  <1> QED
    BY <1>1, SameCell, PageLevel

\* The numbers of a cell of units are units of the same page.
LEMMA CellInPage ==
  ASSUME NEW x \in Unit, NEW y \in Nat, NEW i \in Level, Base(y, i) = Base(x, i)
  PROVE  y \in Unit /\ page(y) = page(x)
PROOF
  <1>1. x \in Nat
    BY UnitNat
  <1>2. i <= PAGE
    BY Pow2Def DEF Level
  <1>3. page(y) = page(x)
    BY <1>1, <1>2, SameUp, SamePage, PageLevel
  <1> QED
    BY <1>1, <1>3, UnitPage

LEMMA BaseInPage ==
  ASSUME NEW x \in Unit, NEW i \in Level
  PROVE  Base(x, i) \in Unit /\ page(Base(x, i)) = page(x) /\ Aligned(Base(x, i), i)
PROOF
  <1>1. x \in Nat
    BY UnitNat
  <1>2. Aligned(Base(x, i), i)
    BY <1>1, BaseAligned
  <1> QED
    BY <1>2, CellInPage DEF Aligned

\* The first unit of a slot's page
LEMMA SlotUnit ==
  ASSUME NEW p \in Slot
  PROVE  /\ p * pow2[PAGE] \in Unit /\ page(p * pow2[PAGE]) = p
         /\ Aligned(p * pow2[PAGE], PAGE)
PROOF
  <1>1. PICK D \in Nat \ {0} : D = pow2[PAGE]
    BY Pow2, PageLevel DEF Level
  <1>2. p \in Nat
    BY PhysicalAssumption DEF Slot
  <1>3. PICK a \in Nat : a = p * D
    BY <1>2, MulCancel
  <1>4. a \div D = p
    BY <1>2, <1>3, MulCancel
  <1>5. page(a) = p /\ Base(a, PAGE) = a
    BY <1>1, <1>3, <1>4 DEF page, Base
  <1>6. a \in Unit
    BY <1>5, UnitPage
  <1> QED
    BY <1>1, <1>3, <1>5, <1>6 DEF Aligned

\* A pair is in the same page.
LEMMA PairInPage ==
  ASSUME NEW b \in Unit, NEW i \in Level, i < PAGE, Aligned(b, i)
  PROVE  pair(b, i) \in Unit /\ page(pair(b, i)) = page(b)
PROOF
  <1>1. pair(b, i) \in Nat /\ Base(pair(b, i), i + 1) = Base(b, i + 1)
    BY PairFacts
  <1>2. i + 1 \in Level
    BY Pow2Def DEF Level
  <1> QED
    BY <1>1, <1>2, CellInPage

\* A cell as an interval, and alignment as a remainder
LEMMA CellInterval ==
  ASSUME NEW b, NEW i \in Level, Aligned(b, i)
  PROVE  /\ \A x \in Nat : x \in b .. b + pow2[i] - 1 <=> Base(x, i) = b
         /\ b .. b + pow2[i] - 1 \subseteq Nat
         /\ b % pow2[i] = 0
PROOF
  <1>1. PICK d \in Nat \ {0} : d = pow2[i]
    BY Pow2 DEF Level
  <1>2. b \in Nat /\ Base(b, i) = b
    BY DEF Aligned
  <1>3. ASSUME NEW x \in Nat PROVE x \in b .. b + d - 1 <=> Base(x, i) = b
    <2>1. Base(x, i) \in Nat /\ Base(x, i) <= x /\ x < Base(x, i) + d
      BY <1>1, QuotType
    <2>2. b <= x /\ x < b + d => Base(x, i) = b
      BY <1>1, <1>2, InCell
    <2>3. x \in b .. b + d - 1 <=> b <= x /\ x < b + d
      BY <1>2
    <2> QED
      BY <2>1, <2>2, <2>3
  <1>4. PICK k \in Nat : b = k * d
    BY <1>1, <1>2, QuotType
  <1>5. b % d = 0
    BY <1>4
  <1>6. b .. b + d - 1 \subseteq Nat
    BY <1>2
  <1> QED
    BY <1>1, <1>3, <1>5, <1>6

LEMMA AlignedRemainder ==
  ASSUME NEW b \in Nat, NEW i \in Level, b % pow2[i] = 0
  PROVE  Aligned(b, i)
PROOF
  <1>1. PICK d \in Nat \ {0} : d = pow2[i]
    BY Pow2 DEF Level
  <1>2. b % d = 0
    BY <1>1
  <1>3. (b \div d) * d = b
    BY <1>2
  <1> QED
    BY <1>1, <1>3 DEF Base, Aligned

-----------------------------------------------------------------------------
(* Tilings: headers h whose blocks tile the pages G.                       *)

Hdr == {NoHeader} \cup [used : BOOLEAN, sizeno : Sizeno]
Heads(h) == {x \in Unit : h[x] # NoHeader}

\* The block that starts at s holds x.
Covers(h, s, x) == s \in Heads(h) /\ Base(x, h[s].sizeno) = s

Tiled(h, G) ==
  /\ h \in [Unit -> Hdr]
  /\ \A s \in Heads(h) : Aligned(s, h[s].sizeno) /\ page(s) \in G
  /\ \A x \in Unit : \A s, r : Covers(h, s, x) /\ Covers(h, r, x) => s = r
  /\ \A x \in Unit : page(x) \in G => \E s : Covers(h, s, x)

\* No two free halves of one cell
NoBuddies(h) ==
  \A x \in Heads(h) : ~h[x].used => h[pair(x, h[x].sizeno)] # h[x]

LEMMA HeaderTypes ==
  /\ Sizeno \subseteq Level /\ \A i \in Sizeno : i < PAGE /\ i \in Nat
  /\ \A i \in Level : i \in Nat /\ i <= PAGE /\ (i < PAGE => i \in Sizeno)
  /\ \A b \in BOOLEAN, i \in Sizeno :
       /\ Header(b, i) \in Hdr /\ Header(b, i) # NoHeader
       /\ Header(b, i).used = b /\ Header(b, i).sizeno = i
  /\ NoHeader \in Hdr
PROOF
  <1>1. LAST_SIZENO \in Nat
    BY KmallocAssumption
  <1>2. Sizeno \subseteq Level /\ \A i \in Sizeno : i < PAGE /\ i \in Nat
    BY <1>1 DEF Sizeno, Level, PAGE
  <1>3. \A i \in Level : i \in Nat /\ i <= PAGE /\ (i < PAGE => i \in Sizeno)
    BY <1>1 DEF Sizeno, Level, PAGE
  <1>4. ASSUME NEW b \in BOOLEAN, NEW i \in Sizeno
        PROVE  /\ Header(b, i) \in Hdr /\ Header(b, i) # NoHeader
               /\ Header(b, i).used = b /\ Header(b, i).sizeno = i
    <2>1. Header(b, i).used = b /\ Header(b, i).sizeno = i
      BY DEF Header
    <2>2. NoHeader.sizeno = -1
      BY DEF NoHeader
    <2>3. i # -1
      BY <1>2
    <2>4. Header(b, i) \in [used : BOOLEAN, sizeno : Sizeno]
      BY DEF Header
    <2> QED
      BY <2>1, <2>2, <2>3, <2>4 DEF Hdr
  <1> QED
    BY <1>2, <1>3, <1>4 DEF Hdr

LEMMA LevelOrder ==
  ASSUME NEW k \in Level, NEW l \in Level
  PROVE  /\ k \in Nat /\ k <= k
         /\ k < l => k + 1 \in Level /\ k + 1 <= l /\ k <= l
         /\ k < l \/ l <= k
         /\ ~(k < l /\ l <= k)
         /\ k + 1 <= l => k < l
         /\ k <= l => k < l \/ k = l
         /\ \A m \in Level : k <= l /\ l < m => k < m
         /\ \A m \in Level : k <= l /\ l <= m => k <= m
PROOF
  <1>1. PAGE \in Nat
    BY Pow2Def
  <1> QED
    BY <1>1 DEF Level

LEMMA HeadType ==
  ASSUME NEW h \in [Unit -> Hdr], NEW s \in Heads(h)
  PROVE  /\ s \in Unit /\ s \in Nat /\ h[s].used \in BOOLEAN
         /\ h[s].sizeno \in Sizeno /\ h[s].sizeno \in Level /\ h[s].sizeno < PAGE
         /\ h[s] = Header(h[s].used, h[s].sizeno)
PROOF
  <1>1. s \in Unit /\ h[s] \in [used : BOOLEAN, sizeno : Sizeno]
    BY DEF Heads, Hdr
  <1>2. h[s] = Header(h[s].used, h[s].sizeno)
    BY <1>1 DEF Header
  <1> QED
    BY <1>1, <1>2, HeaderTypes, UnitNat

LEMMA CoversSelf ==
  ASSUME NEW h, NEW G, Tiled(h, G), NEW s \in Heads(h)
  PROVE  Covers(h, s, s) /\ Aligned(s, h[s].sizeno)
  BY DEF Tiled, Covers, Aligned

\* A block holds the whole of each cell that is no larger and that it meets.
LEMMA CoversCell ==
  ASSUME NEW h \in [Unit -> Hdr], NEW s, NEW x \in Unit, NEW y \in Unit, NEW i \in Level,
         Covers(h, s, x), i <= h[s].sizeno, Base(y, i) = Base(x, i)
  PROVE  Covers(h, s, y)
PROOF
  <1>1. s \in Heads(h) /\ Base(x, h[s].sizeno) = s
    BY DEF Covers
  <1>2. h[s].sizeno \in Level /\ x \in Nat /\ y \in Nat
    BY <1>1, HeadType, UnitNat
  <1>3. Base(y, h[s].sizeno) = Base(x, h[s].sizeno)
    BY <1>2, SameUp
  <1> QED
    BY <1>1, <1>3 DEF Covers

\* A block that meets a cell that is no smaller is inside it.
LEMMA CoveredInside ==
  ASSUME NEW h \in [Unit -> Hdr], NEW s, NEW x \in Unit, NEW i \in Level,
         Covers(h, s, x), h[s].sizeno <= i
  PROVE  Base(s, i) = Base(x, i)
PROOF
  <1>1. s \in Heads(h) /\ Base(x, h[s].sizeno) = s
    BY DEF Covers
  <1>2. h[s].sizeno \in Level /\ x \in Nat
    BY <1>1, HeadType, UnitNat
  <1> QED
    BY <1>1, <1>2, BaseNest

\* A cell of the heap in which nothing is used lies in one free block.
LEMMA FreeCell ==
  ASSUME NEW h, NEW G, Tiled(h, G), NoBuddies(h),
         NEW x \in Unit, NEW i \in Level, Aligned(x, i), page(x) \in G,
         \A s \in Heads(h) : Base(s, i) = x => ~h[s].used
  PROVE  \E s : Covers(h, s, x) /\ i <= h[s].sizeno
PROOF
  <1>1. SUFFICES ASSUME \A s : Covers(h, s, x) => ~(i <= h[s].sizeno)
                 PROVE  FALSE
    OBVIOUS
  <1>2. h \in [Unit -> Hdr] /\ x \in Nat /\ Base(x, i) = x /\ i \in Nat /\ i <= PAGE
    BY HeaderTypes DEF Tiled, Aligned
  <1> DEFINE Inside == {s \in Heads(h) : Base(s, i) = x /\ h[s].sizeno < i}
             Z == {h[s].sizeno : s \in Inside}
  <1>3. Z \in SUBSET Nat /\ Z # {}
    <2>1. PICK s : Covers(h, s, x)
      BY DEF Tiled
    <2>2. s \in Heads(h)
      BY <2>1 DEF Covers
    <2>3. h[s].sizeno \in Nat /\ h[s].sizeno < i
      <3>1. h[s].sizeno \in Level
        BY <1>2, <2>2, HeadType
      <3>2. ~(i <= h[s].sizeno)
        BY <1>1, <2>1
      <3> QED
        BY <3>1, <3>2, LevelOrder
    <2>4. Base(s, i) = x
      <3>1. h[s].sizeno \in Level /\ h[s].sizeno <= i
        BY <1>2, <2>2, <2>3, HeadType, LevelOrder
      <3> QED
        BY <1>2, <2>1, <3>1, CoveredInside
    <2>5. s \in Inside
      BY <2>2, <2>3, <2>4
    <2>6. \A r \in Inside : h[r].sizeno \in Nat
      BY <1>2, HeadType, HeaderTypes
    <2> QED
      BY <2>5, <2>6
  <1>4. PICK k \in Z : \A l \in Z : k <= l
    BY <1>3, LeastNatural
  <1>5. PICK z \in Inside : h[z].sizeno = k
    BY <1>4
  <1>6. /\ z \in Heads(h) /\ Base(z, i) = x /\ k < i /\ z \in Unit /\ z \in Nat
        /\ k \in Level /\ k \in Nat /\ k < PAGE /\ k \in Sizeno
        /\ Aligned(z, k) /\ ~h[z].used /\ h[z] = Header(FALSE, k) /\ page(z) \in G
    <2>1. z \in Heads(h) /\ Base(z, i) = x /\ k < i
      BY <1>5
    <2>2. /\ z \in Unit /\ z \in Nat /\ h[z].used \in BOOLEAN
          /\ k \in Level /\ k < PAGE /\ k \in Sizeno /\ h[z] = Header(h[z].used, k)
      BY <1>2, <1>5, <2>1, HeadType
    <2>3. ~h[z].used
      BY <2>1
    <2>4. h[z] = Header(FALSE, k)
      BY <2>2, <2>3
    <2>5. Aligned(z, k) /\ page(z) \in G
      BY <1>5, <2>1 DEF Tiled
    <2>6. k \in Nat
      BY <2>2, HeaderTypes
    <2> QED
      BY <2>1, <2>2, <2>3, <2>4, <2>5, <2>6
  <1>7. PICK b : b = pair(z, k)
    OBVIOUS
  <1>8. b \in Unit /\ page(b) \in G /\ b \in Nat /\ Base(b, k + 1) = Base(z, k + 1) /\ Aligned(b, k)
    BY <1>6, <1>7, PairFacts, PairInPage
  <1>9. k + 1 \in Level /\ k + 1 <= i
    BY <1>6, LevelOrder
  <1>10. Base(b, i) = x
    BY <1>6, <1>8, <1>9, SameUp
  <1>11. PICK r : Covers(h, r, b)
    BY <1>8 DEF Tiled
  <1>12. r \in Heads(h) /\ h[r].sizeno \in Level /\ h[r].sizeno \in Nat /\ h[r].sizeno \in Sizeno
    BY <1>2, <1>11, HeadType, HeaderTypes DEF Covers
  <1>13. h[r].sizeno <= k
    <2>1. SUFFICES ASSUME k < h[r].sizeno PROVE FALSE
      BY <1>6, <1>12, LevelOrder
    <2>2. Covers(h, r, z)
      <3>1. k + 1 <= h[r].sizeno
        BY <1>6, <1>12, <2>1, LevelOrder
      <3> QED
        BY <1>2, <1>6, <1>8, <1>9, <1>11, <3>1, CoversCell
    <2>3. r = z
      BY <1>6, <2>2, CoversSelf DEF Tiled
    <2>4. ~(k < k)
      BY <1>6
    <2> QED
      BY <1>5, <2>1, <2>3, <2>4
  <1>14. Base(r, i) = x
    <2>1. h[r].sizeno <= i
      BY <1>6, <1>12, <1>13, LevelOrder
    <2> QED
      BY <1>2, <1>8, <1>10, <1>11, <2>1, CoveredInside
  <1>15. h[r].sizeno = k
    <2>1. h[r].sizeno < i
      BY <1>6, <1>12, <1>13, LevelOrder
    <2>2. h[r].sizeno \in Z
      BY <1>12, <1>14, <2>1
    <2>3. k <= h[r].sizeno
      BY <1>4, <2>2
    <2> QED
      BY <1>6, <1>12, <1>13, <2>3, LevelOrder
  <1>16. r = b
    BY <1>8, <1>11, <1>15 DEF Covers, Aligned
  <1>17. h[b] = Header(FALSE, k)
    BY <1>2, <1>12, <1>14, <1>15, <1>16, HeadType
  <1> QED
    BY <1>5, <1>6, <1>7, <1>17 DEF NoBuddies

-----------------------------------------------------------------------------
(* FreeBlock::split, from a block of sizeno i down to u.                   *)

\* The levels that a split from i down to u, or a merge from u up to i, passes
Steps(u, i) == u .. i - 1

LEMMA StepLevels ==
  ASSUME NEW u \in Level, NEW i \in Level
  PROVE  /\ \A j \in Steps(u, i) : j \in Level /\ j \in Nat /\ j < i /\ u <= j /\ j <= i /\ j < PAGE
         /\ \A j \in Level : u <= j /\ j < i => j \in Steps(u, i)
PROOF
  <1>1. u \in Nat /\ i \in Nat /\ i <= PAGE /\ PAGE \in Nat
    BY Pow2Def DEF Level
  <1> QED
    BY <1>1 DEF Level, Steps

\* The right halves that the splits of the cell at a leave free
Right(a, j) == a + pow2[j]

LEMMA RightFacts ==
  ASSUME NEW a, NEW i \in Level, Aligned(a, i), NEW j \in Level, j < i
  PROVE  /\ Right(a, j) \in Nat /\ Right(a, j) # a /\ Aligned(Right(a, j), j)
         /\ \A k \in Level : j < k /\ k <= i => Base(Right(a, j), k) = a
PROOF
  <1>1. j + 1 \in Level /\ j + 1 <= i /\ j < PAGE
    BY LevelOrder, PageLevel, HeaderTypes
  <1>2. Aligned(a, j + 1)
    BY <1>1, AlignedDown
  <1>3. Aligned(Right(a, j), j) /\ Base(Right(a, j), j + 1) = a /\ Right(a, j) # a
    BY <1>1, <1>2, RightHalf DEF Right
  <1>4. ASSUME NEW k \in Level, j < k, k <= i PROVE Base(Right(a, j), k) = a
    <2>1. j + 1 <= k
      BY <1>4, LevelOrder
    <2>2. Base(a, j + 1) = a /\ Base(a, k) = a /\ a \in Nat
      BY <1>2, <1>4, AlignedDown DEF Aligned
    <2> QED
      BY <1>1, <1>3, <2>1, <2>2, SameUp DEF Aligned
  <1> QED
    BY <1>3, <1>4 DEF Aligned

\* The cell at a is made of the cell of sizeno u at a and of right halves.
LEMMA Pieces ==
  ASSUME NEW a, NEW i \in Level, NEW u \in Level, u <= i, Aligned(a, i), NEW x \in Nat
  PROVE  /\ Base(x, i) = a => \/ Base(x, u) = a
                              \/ \E j \in Steps(u, i) : Base(x, j) = Right(a, j)
         /\ Base(x, u) = a => Base(x, i) = a
         /\ \A j \in Steps(u, i) : Base(x, j) = Right(a, j) => Base(x, i) = a /\ Base(x, u) # a
         /\ \A j, k \in Steps(u, i) :
              Base(x, j) = Right(a, j) /\ Base(x, k) = Right(a, k) => j = k
PROOF
  <1>0. i \in Nat /\ u \in Nat
    BY LevelOrder
  <1>1. \A j \in Steps(u, i) : j \in Level /\ j \in Nat /\ j < i /\ u <= j /\ j <= i
    BY StepLevels
  <1>2. \A k \in Level : k <= i => Base(a, k) = a /\ a \in Nat
    BY AlignedDown DEF Aligned
  <1>3. ASSUME Base(x, u) = a PROVE \A k \in Level : u <= k /\ k <= i => Base(x, k) = a
    <2>1. Base(x, u) = Base(a, u) /\ a \in Nat
      BY <1>2, <1>3
    <2> QED
      BY <1>2, <2>1, SameUp
  <1>4. ASSUME NEW j \in Steps(u, i), Base(x, j) = Right(a, j)
        PROVE  /\ \A k \in Level : j < k /\ k <= i => Base(x, k) = a
               /\ Base(x, u) # a
    <2>1. Right(a, j) \in Nat /\ Aligned(Right(a, j), j) /\ Right(a, j) # a
      BY <1>1, RightFacts
    <2>2. Base(x, j) = Base(Right(a, j), j)
      BY <1>4, <2>1 DEF Aligned
    <2>3. ASSUME NEW k \in Level, j < k, k <= i PROVE Base(x, k) = a
      <3>1. j <= k
        BY <1>1, <2>3, LevelOrder
      <3>2. Base(x, k) = Base(Right(a, j), k)
        BY <1>1, <2>1, <2>2, <3>1, SameUp
      <3> QED
        BY <1>1, <2>3, <3>2, RightFacts
    <2>4. Base(x, u) # a
      BY <1>1, <1>3, <1>4, <2>1
    <2> QED
      BY <2>3, <2>4
  <1>5. ASSUME NEW j \in Steps(u, i), NEW k \in Steps(u, i),
               Base(x, j) = Right(a, j), Base(x, k) = Right(a, k)
        PROVE  j = k
    <2>1. Right(a, j) # a /\ Right(a, k) # a
      BY <1>1, RightFacts
    <2>2. ~(j < k)
      BY <1>1, <1>4, <1>5, <2>1
    <2>3. ~(k < j)
      BY <1>1, <1>4, <1>5, <2>1
    <2> QED
      BY <1>1, <2>2, <2>3
  <1>6. ASSUME Base(x, i) = a, Base(x, u) # a
        PROVE  \E j \in Steps(u, i) : Base(x, j) = Right(a, j)
    <2> DEFINE K == {k \in Level : u <= k /\ k <= i /\ Base(x, k) = a}
    <2>1. i \in K
      BY <1>0, <1>6
    <2>2. K \in SUBSET Nat
      BY LevelOrder
    <2>3. PICK k \in K : \A l \in K : k <= l
      BY <2>1, <2>2, LeastNatural
    <2>4. /\ k \in Level /\ k \in Nat /\ u <= k /\ k <= i /\ Base(x, k) = a /\ k # u
      BY <1>6, <2>2, <2>3
    <2> HIDE DEF K
    <2>5. PICK j \in Nat : k = j + 1
      <3>1. k - 1 \in Nat /\ k = (k - 1) + 1
        BY <1>0, <2>4
      <3> QED
        BY <3>1
    <2>6. j \in Level /\ j < PAGE /\ u <= j /\ j \in Steps(u, i) /\ ~(k <= j) /\ j <= i
      <3>1. k <= PAGE /\ PAGE \in Nat
        BY <2>4, Pow2Def DEF Level
      <3> QED
        BY <1>0, <2>4, <2>5, <3>1 DEF Level, Steps
    <2>7. Base(x, j) # a
      BY <2>3, <2>6 DEF K
    <2>8. Base(x, j) = Right(a, j)
      BY <2>4, <2>5, <2>6, <2>7, Halves DEF Right
    <2> QED
      BY <2>6, <2>8
  <1> QED
    <2>1. \A j \in Steps(u, i) : Base(x, j) = Right(a, j) => Base(x, i) = a /\ Base(x, u) # a
      BY <1>0, <1>1, <1>4
    <2>2. Base(x, u) = a => Base(x, i) = a
      BY <1>0, <1>3
    <2> QED
      BY <1>5, <1>6, <2>1, <2>2

\* Right halves of different sizes are different.
LEMMA RightDiffer ==
  ASSUME NEW a, NEW i \in Level, NEW u \in Level, u <= i, Aligned(a, i)
  PROVE  /\ \A j \in Steps(u, i) : /\ j \in Level /\ j < i /\ u <= j
                                  /\ Right(a, j) \in Nat /\ Right(a, j) # a
                                  /\ Base(Right(a, j), i) = a /\ Aligned(Right(a, j), j)
         /\ \A j, k \in Steps(u, i) : Right(a, j) = Right(a, k) => j = k
PROOF
  <1>0. i \in Nat /\ u \in Nat
    BY LevelOrder
  <1>1. \A j \in Steps(u, i) : j \in Level /\ j \in Nat /\ j < i /\ u <= j /\ j <= i
    BY StepLevels
  <1>2. ASSUME NEW j \in Steps(u, i)
        PROVE  /\ Right(a, j) \in Nat /\ Right(a, j) # a /\ Aligned(Right(a, j), j)
               /\ Base(Right(a, j), i) = a /\ Base(Right(a, j), j) = Right(a, j)
    BY <1>0, <1>1, RightFacts DEF Aligned
  <1>3. ASSUME NEW j \in Steps(u, i), NEW k \in Steps(u, i), Right(a, j) = Right(a, k)
        PROVE  j = k
    BY <1>2, <1>3, Pieces
  <1> QED
    BY <1>1, <1>2, <1>3


LEMMA HeaderFields ==
  ASSUME NEW b \in BOOLEAN, NEW k \in Sizeno
  PROVE  /\ Header(b, k) \in Hdr /\ Header(b, k) # NoHeader
         /\ Header(b, k).used = b /\ Header(b, k).sizeno = k
  BY HeaderTypes

\* g are the headers h after the block or new page at a, of sizeno i, is split
\* down to sizeno u and used.
SplitOf(g, h, a, i, u) ==
  /\ g \in [Unit -> Hdr]
  /\ g[a] = Header(TRUE, u)
  /\ \A j \in Steps(u, i) : g[Right(a, j)] = Header(FALSE, j)
  /\ \A x \in Unit : x # a /\ (\A j \in Steps(u, i) : x # Right(a, j)) => g[x] = h[x]

\* Nothing but a block of sizeno i meets the cell at a.
Alone(h, a, i) ==
  /\ \A s \in Heads(h) : Base(s, i) = a => s = a
  /\ \A x \in Unit : \A s : Covers(h, s, x) /\ Base(x, i) = a => s = a
  /\ a \in Heads(h) => h[a].sizeno = i /\ ~h[a].used

LEMMA SplitHdr ==
  ASSUME NEW h \in [Unit -> Hdr], NEW a \in Unit, NEW i \in Level, NEW u \in Sizeno, u <= i,
         Aligned(a, i)
  PROVE  SplitOf(split_hdr(h, a, i, u), h, a, i, u)
PROOF
  <1>1. u \in Level
    BY HeaderTypes
  <1>2. /\ \A j \in Steps(u, i) : j \in Level /\ j < i /\ Right(a, j) \in Nat /\ Right(a, j) # a
                                 /\ Base(Right(a, j), i) = a
        /\ \A j, k \in Steps(u, i) : Right(a, j) = Right(a, k) => j = k
    BY <1>1, RightDiffer
  <1>3. \A j \in Steps(u, i) : j \in Sizeno /\ Right(a, j) \in Unit
    <2> SUFFICES ASSUME NEW j \in Steps(u, i) PROVE j \in Sizeno /\ Right(a, j) \in Unit
      OBVIOUS
    <2>1. j \in Level /\ j < i /\ i <= PAGE /\ Right(a, j) \in Nat
      BY <1>2, HeaderTypes
    <2>2. j < PAGE
      BY <2>1, LevelOrder, PageLevel
    <2>3. Base(a, i) = a
      BY DEF Aligned
    <2> QED
      BY <1>2, <2>1, <2>2, <2>3, HeaderTypes, CellInPage
  <1> DEFINE g == split_hdr(h, a, i, u)
  <1>4. ASSUME NEW x \in Unit
        PROVE  /\ x = a => g[x] = Header(TRUE, u)
               /\ \A j \in Steps(u, i) : x = Right(a, j) => g[x] = Header(FALSE, j)
               /\ x # a /\ (\A j \in Steps(u, i) : x # Right(a, j)) => g[x] = h[x]
    <2>1. g[x] = IF x = a THEN Header(TRUE, u)
                 ELSE IF \E j \in Steps(u, i) : x = Right(a, j)
                 THEN Header(FALSE, CHOOSE j \in Steps(u, i) : x = Right(a, j))
                 ELSE h[x]
      BY DEF split_hdr, Right, Steps
    <2>2. ASSUME NEW j \in Steps(u, i), x = Right(a, j) PROVE g[x] = Header(FALSE, j)
      <3>1. x # a
        BY <1>2, <2>2
      <3>2. PICK k \in Steps(u, i) : /\ k = (CHOOSE m \in Steps(u, i) : x = Right(a, m))
                                    /\ x = Right(a, k)
        BY <2>2
      <3>3. k = j
        BY <1>2, <2>2, <3>2
      <3> QED
        BY <2>1, <2>2, <3>1, <3>2, <3>3
    <2> QED
      BY <2>1, <2>2
  <1>5. g = [x \in Unit |-> g[x]]
    BY DEF split_hdr
  <1> HIDE DEF g
  <1>6. ASSUME NEW x \in Unit PROVE g[x] \in Hdr
    <2>1. CASE x = a
      BY <1>4, <2>1, HeaderTypes
    <2>2. CASE \E j \in Steps(u, i) : x = Right(a, j)
      <3>1. PICK j \in Steps(u, i) : x = Right(a, j)
        BY <2>2
      <3>2. g[x] = Header(FALSE, j) /\ j \in Sizeno
        BY <1>3, <1>4, <3>1
      <3> QED
        BY <3>2, HeaderTypes
    <2>3. CASE x # a /\ \A j \in Steps(u, i) : x # Right(a, j)
      BY <1>4, <2>3
    <2> QED
      BY <2>1, <2>2, <2>3
  <1>7. g \in [Unit -> Hdr]
    BY <1>5, <1>6
  <1>8. SplitOf(g, h, a, i, u)
    BY <1>3, <1>4, <1>7 DEF SplitOf
  <1> QED
    BY <1>8 DEF g

\* Which block holds a unit after the splits
LEMMA SplitCovers ==
  ASSUME NEW h \in [Unit -> Hdr], NEW g, NEW a \in Unit, NEW i \in Level, NEW u \in Sizeno, u <= i,
         Aligned(a, i), Alone(h, a, i), SplitOf(g, h, a, i, u), NEW x \in Unit, NEW s
  PROVE  /\ Base(x, i) # a => (Covers(g, s, x) <=> Covers(h, s, x))
         /\ Base(x, i) = a =>
              (Covers(g, s, x) <=> \/ s = a /\ Base(x, u) = a
                                   \/ \E j \in Steps(u, i) : s = Right(a, j) /\ Base(x, j) = s)
PROOF
  <1>1. u \in Level /\ x \in Nat
    BY HeaderTypes, UnitNat
  <1>2. \A j \in Steps(u, i) : /\ j \in Level /\ j \in Sizeno /\ Right(a, j) \in Unit /\ Right(a, j) # a
                              /\ Base(Right(a, j), i) = a
    <2> SUFFICES ASSUME NEW j \in Steps(u, i)
                 PROVE  /\ j \in Level /\ j \in Sizeno /\ Right(a, j) \in Unit /\ Right(a, j) # a
                        /\ Base(Right(a, j), i) = a
      OBVIOUS
    <2>1. /\ j \in Level /\ j < i /\ Right(a, j) \in Nat /\ Right(a, j) # a
          /\ Base(Right(a, j), i) = a
      BY <1>1, RightDiffer
    <2>2. j \in Sizeno
      BY <2>1, LevelOrder, PageLevel, HeaderTypes
    <2>3. Right(a, j) \in Unit
      BY <2>1, CellInPage DEF Aligned
    <2> QED
      BY <2>1, <2>2, <2>3
  <1>3. /\ Base(x, u) = a => Base(x, i) = a
        /\ \A j \in Steps(u, i) : Base(x, j) = Right(a, j) => Base(x, i) = a
    BY <1>1, Pieces
  <1>4. Covers(g, a, x) <=> Base(x, u) = a
    BY HeaderTypes DEF Covers, SplitOf, Heads
  <1>5. ASSUME NEW j \in Steps(u, i)
        PROVE  Covers(g, Right(a, j), x) <=> Base(x, j) = Right(a, j)
    <2>1. g[Right(a, j)] = Header(FALSE, j) /\ Right(a, j) \in Unit /\ j \in Sizeno
      BY <1>2 DEF SplitOf
    <2>2. g[Right(a, j)] # NoHeader /\ g[Right(a, j)].sizeno = j
      BY <2>1, HeaderTypes
    <2> QED
      BY <2>1, <2>2 DEF Covers, Heads
  <1>6. ASSUME s # a, \A j \in Steps(u, i) : s # Right(a, j)
        PROVE  Covers(g, s, x) <=> Covers(h, s, x)
    BY <1>6 DEF Covers, SplitOf, Heads
  <1>7. ASSUME Base(x, i) # a PROVE Covers(g, s, x) <=> Covers(h, s, x)
    <2>1. CASE s = a
      <3>1. ~Covers(g, s, x)
        BY <1>3, <1>4, <1>7, <2>1
      <3>2. ~Covers(h, s, x)
        BY <1>7, <2>1 DEF Alone, Covers
      <3> QED
        BY <3>1, <3>2
    <2>2. CASE \E j \in Steps(u, i) : s = Right(a, j)
      <3>1. ~Covers(g, s, x)
        BY <1>3, <1>5, <1>7, <2>2
      <3>2. ~Covers(h, s, x)
        BY <1>2, <2>2 DEF Alone, Covers
      <3> QED
        BY <3>1, <3>2
    <2> QED
      BY <1>6, <2>1, <2>2
  <1>8. ASSUME Base(x, i) = a
        PROVE  Covers(g, s, x) <=> \/ s = a /\ Base(x, u) = a
                                   \/ \E j \in Steps(u, i) : s = Right(a, j) /\ Base(x, j) = s
    <2>1. CASE s = a
      BY <1>2, <1>4, <2>1
    <2>2. CASE \E j \in Steps(u, i) : s = Right(a, j)
      <3>1. s # a
        BY <1>2, <2>2
      <3> QED
        BY <1>5, <2>2, <3>1
    <2>3. CASE s # a /\ \A j \in Steps(u, i) : s # Right(a, j)
      <3>1. ~Covers(h, s, x)
        BY <1>8, <2>3 DEF Alone
      <3> QED
        BY <1>6, <2>3, <3>1
    <2> QED
      BY <2>1, <2>2, <2>3
  <1> QED
    BY <1>7, <1>8

LEMMA SplitTiled ==
  ASSUME NEW h, NEW G, NEW g, NEW a \in Unit, NEW i \in Level, NEW u \in Sizeno, u <= i,
         Tiled(h, G), Aligned(a, i), Alone(h, a, i), SplitOf(g, h, a, i, u),
         page(a) \in G \/ i = PAGE
  PROVE  Tiled(g, G \cup {page(a)})
PROOF
  <1>1. h \in [Unit -> Hdr] /\ u \in Level /\ g \in [Unit -> Hdr]
    BY HeaderTypes DEF Tiled, SplitOf
  <1>2. \A x \in Unit : \A s :
          /\ Base(x, i) # a => (Covers(g, s, x) <=> Covers(h, s, x))
          /\ Base(x, i) = a =>
               (Covers(g, s, x) <=> \/ s = a /\ Base(x, u) = a
                                    \/ \E j \in Steps(u, i) : s = Right(a, j) /\ Base(x, j) = s)
    BY <1>1, SplitCovers
  <1>3. \A x \in Unit :
          /\ Base(x, i) = a => \/ Base(x, u) = a
                               \/ \E j \in Steps(u, i) : Base(x, j) = Right(a, j)
          /\ \A j \in Steps(u, i) : Base(x, j) = Right(a, j) => Base(x, u) # a
          /\ \A j, k \in Steps(u, i) :
               Base(x, j) = Right(a, j) /\ Base(x, k) = Right(a, k) => j = k
    BY <1>1, Pieces, UnitNat
  <1>4. ASSUME NEW s \in Heads(g)
        PROVE  Aligned(s, g[s].sizeno) /\ page(s) \in G \cup {page(a)}
    <2>1. s \in Unit
      BY DEF Heads
    <2>2. CASE s = a
      <3>1. g[s].sizeno = u
        BY <2>2, HeaderFields DEF SplitOf
      <3> QED
        BY <1>1, <2>2, <3>1, AlignedDown
    <2>3. CASE \E j \in Steps(u, i) : s = Right(a, j)
      <3>1. PICK j \in Steps(u, i) : s = Right(a, j)
        BY <2>3
      <3>2. /\ j \in Level /\ j < i /\ s \in Nat /\ Base(s, i) = a /\ Aligned(s, j)
        BY <1>1, <3>1, RightDiffer
      <3>3. j \in Sizeno
        BY <3>2, LevelOrder, PageLevel, HeaderTypes
      <3>4. g[s].sizeno = j
        BY <3>1, <3>3, HeaderTypes DEF SplitOf
      <3>5. page(s) = page(a)
        BY <3>2, CellInPage DEF Aligned
      <3> QED
        BY <3>2, <3>4, <3>5
    <2>4. CASE s # a /\ \A j \in Steps(u, i) : s # Right(a, j)
      <3>1. g[s] = h[s]
        BY <2>1, <2>4 DEF SplitOf
      <3>2. s \in Heads(h)
        BY <2>1, <3>1 DEF Heads
      <3> QED
        BY <3>1, <3>2 DEF Tiled
    <2> QED
      BY <2>2, <2>3, <2>4
  <1>5. ASSUME NEW x \in Unit, NEW s, NEW r, Covers(g, s, x), Covers(g, r, x) PROVE s = r
    <2>1. CASE Base(x, i) # a
      BY <1>2, <1>5, <2>1 DEF Tiled
    <2>2. CASE Base(x, i) = a
      <3>1. /\ \/ s = a /\ Base(x, u) = a
               \/ \E j \in Steps(u, i) : s = Right(a, j) /\ Base(x, j) = s
            /\ \/ r = a /\ Base(x, u) = a
               \/ \E j \in Steps(u, i) : r = Right(a, j) /\ Base(x, j) = r
        BY <1>2, <1>5, <2>2
      <3> QED
        BY <1>3, <3>1
    <2> QED
      BY <2>1, <2>2
  <1>6. ASSUME NEW x \in Unit, page(x) \in G \cup {page(a)} PROVE \E s : Covers(g, s, x)
    <2>1. CASE Base(x, i) = a
      BY <1>2, <1>3, <2>1
    <2>2. CASE Base(x, i) # a
      <3>1. page(x) \in G
        <4>1. ASSUME page(x) = page(a), i = PAGE PROVE FALSE
          <5>1. Base(x, PAGE) = Base(a, PAGE)
            BY <4>1, SamePage, UnitNat
          <5> QED
            BY <2>2, <4>1, <5>1 DEF Aligned
        <4> QED
          BY <1>6, <4>1
      <3> QED
        BY <1>2, <2>2, <3>1 DEF Tiled
    <2> QED
      BY <2>1, <2>2
  <1> QED
    BY <1>1, <1>4, <1>5, <1>6 DEF Tiled

LEMMA RightIsPair ==
  ASSUME NEW a, NEW i \in Level, Aligned(a, i), NEW j \in Level, j < i
  PROVE  pair(a, j) = Right(a, j) /\ pair(Right(a, j), j) = a /\ Aligned(a, j)
PROOF
  <1>1. j + 1 \in Level /\ j + 1 <= i /\ j < PAGE /\ j <= i
    BY LevelOrder, PageLevel, HeaderTypes
  <1>2. Aligned(a, j + 1) /\ Aligned(a, j)
    BY <1>1, AlignedDown
  <1>3. Quot(a, j) % 2 = 0
    BY <1>1, <1>2, Halves DEF Aligned
  <1>4. pair(a, j) = Right(a, j)
    BY <1>3 DEF pair, Right, Quot
  <1> QED
    BY <1>1, <1>2, <1>4, PairFacts

LEMMA SplitNoBuddies ==
  ASSUME NEW h, NEW G, NEW g, NEW a \in Unit, NEW i \in Level, NEW u \in Sizeno, u <= i,
         Tiled(h, G), NoBuddies(h), Aligned(a, i), SplitOf(g, h, a, i, u)
  PROVE  NoBuddies(g)
PROOF
  <1>1. h \in [Unit -> Hdr] /\ u \in Level /\ g \in [Unit -> Hdr]
    BY HeaderTypes DEF Tiled, SplitOf
  <1>2. \A j \in Steps(u, i) : j \in Level /\ j < i /\ j \in Sizeno /\ g[Right(a, j)] = Header(FALSE, j)
    <2> SUFFICES ASSUME NEW j \in Steps(u, i)
                 PROVE  j \in Level /\ j < i /\ j \in Sizeno /\ g[Right(a, j)] = Header(FALSE, j)
      OBVIOUS
    <2>1. j \in Level /\ j < i
      BY <1>1, RightDiffer
    <2> QED
      BY <2>1, LevelOrder, PageLevel, HeaderTypes DEF SplitOf
  <1>3. \A j \in Steps(u, i) : pair(Right(a, j), j) = a
    BY <1>2, RightIsPair
  <1>4. g[a] = Header(TRUE, u) /\ g[a].used
    BY HeaderTypes DEF SplitOf
  <1> SUFFICES ASSUME NEW x \in Heads(g), ~g[x].used, NEW k, k = g[x].sizeno,
                      g[pair(x, k)] = g[x]
               PROVE  FALSE
    BY DEF NoBuddies
  <1>5. x \in Unit /\ x # a /\ k \in Sizeno /\ k \in Level /\ k < PAGE
    BY <1>1, <1>4, HeadType
  <1>6. CASE \E j \in Steps(u, i) : x = Right(a, j)
    <2>1. PICK j \in Steps(u, i) : x = Right(a, j)
      BY <1>6
    <2>2. k = j
      BY <1>2, <2>1, HeaderTypes
    <2>3. g[a] = g[x]
      BY <1>3, <2>1, <2>2
    <2> QED
      BY <1>4, <2>3
  <1>7. CASE \A j \in Steps(u, i) : x # Right(a, j)
    <2>1. g[x] = h[x] /\ x \in Heads(h)
      BY <1>5, <1>7 DEF SplitOf, Heads
    <2>2. Aligned(x, k)
      BY <2>1 DEF Tiled
    <2>3. PICK y : y = pair(x, k)
      OBVIOUS
    <2>4. y \in Unit /\ y # a /\ g[y] = g[x] /\ g[y].sizeno = k /\ pair(y, k) = x
      BY <1>4, <1>5, <2>2, <2>3, PairFacts, PairInPage
    <2>5. ASSUME NEW j \in Steps(u, i), y = Right(a, j) PROVE FALSE
      <3>1. j = k
        BY <1>2, <2>4, <2>5, HeaderTypes
      <3> QED
        BY <1>3, <1>5, <2>4, <2>5, <3>1
    <2>6. h[y] = h[x]
      BY <2>1, <2>4, <2>5 DEF SplitOf
    <2> QED
      BY <2>1, <2>3, <2>6 DEF NoBuddies
  <1> QED
    BY <1>6, <1>7

\* A free or used block of sizeno j starts at x.
FreeAt(h, x, j) == h[x] = Header(FALSE, j)
UsedAt(h, x, j) == h[x] = Header(TRUE, j)

\* The free and the used blocks of a size after the splits
LEMMA SplitHeaders ==
  ASSUME NEW h \in [Unit -> Hdr], NEW g, NEW a \in Unit, NEW i \in Level, NEW u \in Sizeno, u <= i,
         Aligned(a, i), Alone(h, a, i), SplitOf(g, h, a, i, u), NEW x \in Unit, NEW j \in Sizeno
  PROVE  /\ FreeAt(g, x, j) <=> \/ j \in Steps(u, i) /\ x = Right(a, j)
                                \/ x # a /\ FreeAt(h, x, j)
         /\ UsedAt(g, x, j) <=> (x = a /\ j = u) \/ UsedAt(h, x, j)
PROOF
  <1> SUFFICES /\ g[x] = Header(FALSE, j) <=> \/ j \in Steps(u, i) /\ x = Right(a, j)
                                              \/ x # a /\ h[x] = Header(FALSE, j)
               /\ g[x] = Header(TRUE, j) <=> \/ x = a /\ j = u
                                             \/ h[x] = Header(TRUE, j)
    BY DEF FreeAt, UsedAt
  <1>1. u \in Level
    BY HeaderTypes
  <1>2. \A k \in Steps(u, i) : k \in Sizeno /\ Right(a, k) # a /\ Base(Right(a, k), i) = a
    <2> SUFFICES ASSUME NEW k \in Steps(u, i)
                 PROVE  k \in Sizeno /\ Right(a, k) # a /\ Base(Right(a, k), i) = a
      OBVIOUS
    <2>1. k \in Level /\ k < i /\ Right(a, k) # a /\ Base(Right(a, k), i) = a
      BY <1>1, RightDiffer
    <2> QED
      BY <2>1, LevelOrder, PageLevel, HeaderTypes
  <1>22. \A k, l \in Steps(u, i) : Right(a, k) = Right(a, l) => k = l
    BY <1>1, RightDiffer
  <1>3. Header(TRUE, j) # NoHeader /\ Header(FALSE, j) # NoHeader
        /\ Header(TRUE, j).used = TRUE /\ Header(FALSE, j).used = FALSE
        /\ Header(TRUE, j).sizeno = j /\ Header(FALSE, j).sizeno = j
    BY HeaderTypes
  <1>4. CASE x = a
    <2>1. g[x].used = TRUE /\ g[x].sizeno = u /\ g[x] = Header(TRUE, u)
      BY <1>4, HeaderTypes DEF SplitOf
    <2>2. h[x] # Header(TRUE, j)
      BY <1>3, <1>4 DEF Alone, Heads
    <2> QED
      BY <1>2, <1>3, <1>4, <2>1, <2>2
  <1>5. CASE \E k \in Steps(u, i) : x = Right(a, k)
    <2>1. PICK k \in Steps(u, i) : x = Right(a, k)
      BY <1>5
    <2>2. g[x] = Header(FALSE, k) /\ g[x].used = FALSE /\ g[x].sizeno = k
      <3>1. g[x] = Header(FALSE, k)
        BY <2>1 DEF SplitOf
      <3>2. k \in Sizeno
        BY <1>2
      <3> QED
        BY <3>1, <3>2, HeaderFields
    <2>3. h[x] = NoHeader
      BY <1>2, <2>1 DEF Alone, Heads
    <2>4. x # a
      BY <1>2, <2>1
    <2> QED
      BY <1>22, <1>3, <2>1, <2>2, <2>3, <2>4
  <1>6. CASE x # a /\ \A k \in Steps(u, i) : x # Right(a, k)
    <2>1. g[x] = h[x]
      BY <1>6 DEF SplitOf
    <2> QED
      BY <1>6, <2>1
  <1> QED
    BY <1>4, <1>5, <1>6

\* A free block is alone in its cell, and so is a page that is not the heap's.
LEMMA AloneBlock ==
  ASSUME NEW h, NEW G, Tiled(h, G), NEW a \in Unit, NEW i \in Sizeno, h[a] = Header(FALSE, i)
  PROVE  a \in Heads(h) /\ Aligned(a, i) /\ page(a) \in G /\ Alone(h, a, i)
PROOF
  <1>1. a \in Heads(h) /\ h[a].sizeno = i /\ h[a].used = FALSE
    BY HeaderFields DEF Heads
  <1>2. Aligned(a, i) /\ page(a) \in G
    BY <1>1 DEF Tiled
  <1>3. \A x \in Unit : Base(x, i) = a => Covers(h, a, x)
    BY <1>1 DEF Covers
  <1>4. \A x \in Unit : \A s : Covers(h, s, x) /\ Base(x, i) = a => s = a
    BY <1>3 DEF Tiled
  <1>5. \A s \in Heads(h) : Base(s, i) = a => s = a
    BY <1>4, CoversSelf DEF Heads
  <1> QED
    BY <1>1, <1>2, <1>4, <1>5 DEF Alone

LEMMA AloneNew ==
  ASSUME NEW h, NEW G, Tiled(h, G), NEW a \in Unit, Aligned(a, PAGE), page(a) \notin G
  PROVE  Alone(h, a, PAGE) /\ \A x \in Unit : page(x) = page(a) => h[x] = NoHeader
PROOF
  <1>1. ASSUME NEW x \in Unit, page(x) = page(a) PROVE x \notin Heads(h)
    BY <1>1 DEF Tiled
  <1>2. ASSUME NEW x \in Unit, Base(x, PAGE) = a PROVE page(x) = page(a)
    BY <1>2, SamePage, UnitNat DEF Aligned
  <1>3. ASSUME NEW x \in Unit, NEW s, Covers(h, s, x), Base(x, PAGE) = a PROVE FALSE
    <2>1. s \in Heads(h) /\ h \in [Unit -> Hdr]
      BY <1>3 DEF Covers, Tiled
    <2>2. h[s].sizeno \in Level /\ h[s].sizeno <= PAGE /\ s \in Unit /\ PAGE \in Level
      BY <2>1, HeadType, HeaderTypes, PageLevel
    <2>3. Base(s, PAGE) = Base(x, PAGE)
      BY <1>3, <2>1, <2>2, CoveredInside
    <2> QED
      BY <1>1, <1>2, <1>3, <2>1, <2>2, <2>3
  <1>4. \A s \in Heads(h) : s \in Unit
    BY DEF Heads
  <1>5. \A x \in Unit : page(x) = page(a) => h[x] = NoHeader
    BY <1>1 DEF Heads
  <1> QED
    BY <1>1, <1>2, <1>3, <1>4, <1>5 DEF Alone

-----------------------------------------------------------------------------
(* kfree's loop over merge(), from a used block at a up to sizeno t.       *)

\* The buddy of the block that a has become when its sizeno is j
Buddy(a, j) == pair(Base(a, j), j)

LEMMA BuddyFacts ==
  ASSUME NEW a \in Unit, NEW j \in Level, NEW t \in Level, j < t
  PROVE  /\ Buddy(a, j) \in Unit /\ Buddy(a, j) # Base(a, j) /\ Aligned(Buddy(a, j), j)
         /\ page(Buddy(a, j)) = page(a)
         /\ Base(Buddy(a, j), t) = Base(a, t)
         /\ \A x \in Nat : Base(x, j + 1) = Base(a, j + 1) => Base(x, j) \in {Base(a, j), Buddy(a, j)}
PROOF
  <1>1. j < PAGE /\ j + 1 \in Level /\ j + 1 <= t /\ j <= j + 1 /\ a \in Nat
    BY LevelOrder, PageLevel, HeaderTypes, UnitNat
  <1>2. PICK b : b = Base(a, j)
    OBVIOUS
  <1>3. b \in Unit /\ page(b) = page(a) /\ Aligned(b, j) /\ Base(b, j + 1) = Base(a, j + 1)
    BY <1>1, <1>2, BaseInPage, BaseNest
  <1>4. /\ Buddy(a, j) \in Nat /\ Buddy(a, j) # b /\ Aligned(Buddy(a, j), j)
        /\ Base(Buddy(a, j), j + 1) = Base(b, j + 1)
        /\ \A x \in Nat : Base(x, j + 1) = Base(b, j + 1) => Base(x, j) \in {b, Buddy(a, j)}
    BY <1>1, <1>2, <1>3, PairFacts DEF Buddy
  <1>5. Buddy(a, j) \in Unit /\ page(Buddy(a, j)) = page(b)
    BY <1>1, <1>2, <1>3, PairInPage DEF Buddy
  <1>6. Base(Buddy(a, j), t) = Base(a, t)
    BY <1>1, <1>3, <1>4, SameUp
  <1> QED
    BY <1>2, <1>3, <1>4, <1>5, <1>6

\* The cell of sizeno t around a is made of the block at a and its buddies.
LEMMA MergePieces ==
  ASSUME NEW a \in Unit, NEW s0 \in Level, NEW t \in Level, s0 <= t, Aligned(a, s0),
         NEW x \in Nat, Base(x, t) = Base(a, t)
  PROVE  Base(x, s0) = a \/ \E j \in Steps(s0, t) : Base(x, j) = Buddy(a, j)
PROOF
  <1>1. SUFFICES ASSUME Base(x, s0) # a PROVE \E j \in Steps(s0, t) : Base(x, j) = Buddy(a, j)
    OBVIOUS
  <1>2. Base(a, s0) = a /\ s0 \in Nat /\ t \in Nat
    BY LevelOrder DEF Aligned
  <1> DEFINE K == {k \in Level : s0 <= k /\ k <= t /\ Base(x, k) = Base(a, k)}
  <1>3. t \in K
    BY <1>2
  <1>4. K \in SUBSET Nat
    BY LevelOrder
  <1>5. PICK k \in K : \A l \in K : k <= l
    BY <1>3, <1>4, LeastNatural
  <1>6. k \in Level /\ k \in Nat /\ s0 <= k /\ k <= t /\ Base(x, k) = Base(a, k) /\ k # s0
    BY <1>1, <1>2, <1>4, <1>5
  <1> HIDE DEF K
  <1>7. PICK j \in Nat : k = j + 1
    <2>1. k - 1 \in Nat /\ k = (k - 1) + 1
      BY <1>2, <1>6
    <2> QED
      BY <2>1
  <1>8. j \in Level /\ j < k /\ s0 <= j /\ j \in Steps(s0, t) /\ ~(k <= j) /\ j <= t
    <2>1. k <= PAGE /\ PAGE \in Nat
      BY <1>6, Pow2Def DEF Level
    <2> QED
      BY <1>2, <1>6, <1>7, <2>1 DEF Level, Steps
  <1>9. Base(x, j) # Base(a, j)
    BY <1>5, <1>8 DEF K
  <1>10. Base(x, j) = Buddy(a, j)
    BY <1>6, <1>7, <1>8, <1>9, BuddyFacts
  <1> QED
    BY <1>8, <1>10

\* g are the headers h after the loop has made one block of sizeno t, or an
\* empty page, of the cell at b.
MergeOf(g, h, b, t) ==
  /\ g \in [Unit -> Hdr]
  /\ t < PAGE => g[b] = Header(FALSE, t)
  /\ \A x \in Unit : Base(x, t) = b /\ ~(x = b /\ t < PAGE) => g[x] = NoHeader
  /\ \A x \in Unit : Base(x, t) # b => g[x] = h[x]

\* t is where the loop ends that starts with the used block at a, of sizeno s0.
Joined(h, a, s0, t) ==
  /\ h[a] = Header(TRUE, s0) /\ s0 <= t
  /\ \A j \in Steps(s0, t) : h[Buddy(a, j)] = Header(FALSE, j)
  /\ t < PAGE => h[Buddy(a, t)] # Header(FALSE, t)

LEMMA LevelsBelow ==
  ASSUME NEW s0 \in Sizeno, NEW t \in Level, NEW j \in Steps(s0, t)
  PROVE  j \in Level /\ j < t /\ j \in Sizeno /\ s0 <= j /\ j \in Nat /\ j < PAGE
PROOF
  <1>1. t \in Nat /\ t <= PAGE /\ PAGE \in Nat /\ s0 \in Nat
    BY HeaderTypes, Pow2Def
  <1>2. j \in Level /\ j < t /\ j < PAGE /\ s0 <= j /\ j \in Nat
    BY <1>1 DEF Level, Steps
  <1> QED
    BY <1>2, HeaderTypes

LEMMA JoinedBuddy ==
  ASSUME NEW h, NEW a \in Unit, NEW s0 \in Sizeno, NEW t \in Level,
         Joined(h, a, s0, t), NEW j \in Steps(s0, t)
  PROVE  Buddy(a, j) \in Heads(h) /\ h[Buddy(a, j)] = Header(FALSE, j)
PROOF
  <1>1. j \in Level /\ j < t /\ j \in Sizeno
    BY LevelsBelow
  <1>2. h[Buddy(a, j)] = Header(FALSE, j)
    BY DEF Joined
  <1>3. Buddy(a, j) \in Unit
    BY <1>1, BuddyFacts
  <1> QED
    BY <1>1, <1>2, <1>3, HeaderFields DEF Heads

LEMMA JoinedSelf ==
  ASSUME NEW h, NEW G, Tiled(h, G), NEW a \in Unit, NEW s0 \in Sizeno, NEW t \in Level,
         Joined(h, a, s0, t)
  PROVE  /\ a \in Heads(h) /\ h[a].sizeno = s0 /\ h[a].used = TRUE /\ Aligned(a, s0)
         /\ page(a) \in G /\ s0 \in Level /\ s0 <= t
PROOF
  <1>1. a \in Heads(h) /\ h[a].sizeno = s0 /\ h[a].used = TRUE /\ s0 <= t
    BY HeaderFields DEF Joined, Heads
  <1> QED
    BY <1>1, HeaderTypes DEF Tiled

\* The blocks of the cell before the loop: the one at a and its buddies
LEMMA MergedBlocks ==
  ASSUME NEW h, NEW G, Tiled(h, G), NEW a \in Unit, NEW s0 \in Sizeno, NEW t \in Level,
         Joined(h, a, s0, t), NEW s, NEW x \in Unit, Covers(h, s, x), Base(x, t) = Base(a, t)
  PROVE  /\ s = a \/ \E j \in Steps(s0, t) : s = Buddy(a, j)
         /\ h[s].sizeno <= t /\ Base(s, t) = Base(a, t)
PROOF
  <1>1. h \in [Unit -> Hdr] /\ x \in Nat
    BY UnitNat DEF Tiled
  <1>2. a \in Heads(h) /\ h[a].sizeno = s0 /\ Aligned(a, s0) /\ s0 \in Level /\ s0 <= t
    BY JoinedSelf
  <1>3. \A j \in Steps(s0, t) : Buddy(a, j) \in Heads(h) /\ h[Buddy(a, j)].sizeno = j
    <2> SUFFICES ASSUME NEW j \in Steps(s0, t)
                 PROVE  Buddy(a, j) \in Heads(h) /\ h[Buddy(a, j)].sizeno = j
      OBVIOUS
    <2>1. Buddy(a, j) \in Heads(h) /\ h[Buddy(a, j)] = Header(FALSE, j)
      BY JoinedBuddy
    <2>2. j \in Sizeno
      BY LevelsBelow
    <2> QED
      BY <2>1, <2>2, HeaderFields
  <1>5. s = a \/ \E j \in Steps(s0, t) : s = Buddy(a, j)
    <2>1. CASE Base(x, s0) = a
      <3>1. Covers(h, a, x)
        BY <1>2, <2>1 DEF Covers
      <3> QED
        BY <3>1 DEF Tiled
    <2>2. CASE \E j \in Steps(s0, t) : Base(x, j) = Buddy(a, j)
      <3>1. PICK j \in Steps(s0, t) : Base(x, j) = Buddy(a, j)
        BY <2>2
      <3>2. Covers(h, Buddy(a, j), x)
        BY <1>3, <3>1 DEF Covers
      <3>3. s = Buddy(a, j)
        BY <3>2 DEF Tiled
      <3> QED
        BY <3>3
    <2> QED
      BY <1>1, <1>2, <2>1, <2>2, MergePieces
  <1>6. h[s].sizeno <= t
    <2>1. CASE s = a
      BY <1>2, <2>1
    <2>2. CASE \E j \in Steps(s0, t) : s = Buddy(a, j)
      <3>1. PICK j \in Steps(s0, t) : s = Buddy(a, j)
        BY <2>2
      <3>2. h[s].sizeno = j /\ j \in Level /\ j < t
        BY <1>3, <3>1, LevelsBelow
      <3> QED
        BY <3>2, LevelOrder
    <2> QED
      BY <1>5, <2>1, <2>2
  <1>7. Base(s, t) = Base(a, t)
    BY <1>1, <1>6, CoveredInside
  <1> QED
    BY <1>5, <1>6, <1>7

LEMMA SameHeader ==
  ASSUME NEW b \in BOOLEAN, NEW c \in BOOLEAN, NEW k \in Sizeno, NEW l \in Sizeno,
         Header(b, k) = Header(c, l)
  PROVE  b = c /\ k = l
PROOF
  <1>1. Header(b, k).used = b /\ Header(b, k).sizeno = k
    BY HeaderFields
  <1>2. Header(c, l).used = c /\ Header(c, l).sizeno = l
    BY HeaderFields
  <1> QED
    BY <1>1, <1>2

\* Which block holds a unit after the loop
LEMMA MergeCovers ==
  ASSUME NEW h, NEW G, Tiled(h, G), NEW a \in Unit, NEW s0 \in Sizeno, NEW t \in Level,
         Joined(h, a, s0, t), NEW g, NEW b, b = Base(a, t), MergeOf(g, h, b, t),
         NEW x \in Unit, NEW s
  PROVE  /\ Base(x, t) # b => (Covers(g, s, x) <=> Covers(h, s, x))
         /\ Base(x, t) = b => (Covers(g, s, x) <=> s = b /\ t < PAGE)
PROOF
  <1>1. b \in Unit /\ Base(b, t) = b
    BY BaseInPage DEF Aligned
  <1>2. ASSUME t < PAGE PROVE b \in Heads(g) /\ g[b].sizeno = t
    <2>1. t \in Sizeno /\ g[b] = Header(FALSE, t)
      BY <1>2, HeaderTypes DEF MergeOf
    <2> QED
      BY <1>1, <2>1, HeaderFields DEF Heads
  <1>3. ASSUME ~(t < PAGE) PROVE b \notin Heads(g)
    BY <1>1, <1>3 DEF MergeOf, Heads
  <1>4. ASSUME s # b, s \in Heads(g)
        PROVE  s \in Unit /\ Base(s, t) # b /\ g[s] = h[s] /\ s \in Heads(h)
    BY <1>4 DEF MergeOf, Heads
  <1>5. ASSUME s \in Heads(h), Base(s, t) # b
        PROVE  s \in Heads(g) /\ g[s] = h[s]
    BY <1>5 DEF MergeOf, Heads
  <1>6. ASSUME Base(x, t) # b PROVE Covers(g, s, x) <=> Covers(h, s, x)
    <2>1. ASSUME Covers(g, s, x) PROVE Covers(h, s, x)
      <3>1. s # b
        BY <1>2, <1>3, <1>6, <2>1 DEF Covers
      <3> QED
        BY <1>4, <2>1, <3>1 DEF Covers
    <2>2. ASSUME Covers(h, s, x) PROVE Covers(g, s, x)
      <3>1. s \in Heads(h) /\ s \in Unit /\ h \in [Unit -> Hdr]
        BY <2>2 DEF Covers, Heads, Tiled
      <3>2. Base(s, t) # b
        <4>1. SUFFICES ASSUME Base(s, t) = b PROVE FALSE
          OBVIOUS
        <4>2. Covers(h, s, s)
          BY <3>1, CoversSelf
        <4>3. h[s].sizeno <= t
          BY <3>1, <4>1, <4>2, MergedBlocks
        <4>4. Base(s, t) = Base(x, t)
          BY <2>2, <3>1, <4>3, CoveredInside
        <4> QED
          BY <1>6, <4>1, <4>4
      <3> QED
        BY <1>5, <2>2, <3>1, <3>2 DEF Covers
    <2> QED
      BY <2>1, <2>2
  <1>7. ASSUME Base(x, t) = b PROVE Covers(g, s, x) <=> s = b /\ t < PAGE
    <2>1. ASSUME Covers(g, s, x), s # b PROVE FALSE
      <3>1. Covers(h, s, x) /\ Base(s, t) # b
        BY <1>4, <2>1 DEF Covers
      <3> QED
        BY <1>7, <3>1, MergedBlocks
    <2>2. ASSUME Covers(g, b, x) PROVE t < PAGE
      BY <1>3, <2>2 DEF Covers
    <2>3. ASSUME t < PAGE PROVE Covers(g, b, x)
      BY <1>2, <1>7, <2>3 DEF Covers
    <2> QED
      BY <2>1, <2>2, <2>3
  <1> QED
    BY <1>6, <1>7

LEMMA MergeTiled ==
  ASSUME NEW h, NEW G, Tiled(h, G), NEW a \in Unit, NEW s0 \in Sizeno, NEW t \in Level,
         Joined(h, a, s0, t), NEW g, NEW b, b = Base(a, t), MergeOf(g, h, b, t),
         NEW K, K = IF t = PAGE THEN G \ {page(a)} ELSE G
  PROVE  Tiled(g, K)
PROOF
  <1>1. /\ b \in Unit /\ Base(b, t) = b /\ page(b) = page(a) /\ Aligned(b, t)
        /\ h \in [Unit -> Hdr] /\ g \in [Unit -> Hdr] /\ page(a) \in G
        /\ (t < PAGE <=> t # PAGE)
    <2>1. t < PAGE <=> t # PAGE
      <3>1. t \in Nat /\ t <= PAGE /\ PAGE \in Nat
        BY HeaderTypes, Pow2Def
      <3> QED
        BY <3>1
    <2> QED
      BY <2>1, BaseInPage, JoinedSelf DEF Aligned, MergeOf, Tiled
  <1>2. \A x \in Unit : \A s :
          /\ Base(x, t) # b => (Covers(g, s, x) <=> Covers(h, s, x))
          /\ Base(x, t) = b => (Covers(g, s, x) <=> s = b /\ t < PAGE)
    BY MergeCovers
  <1>3. ASSUME NEW s \in Heads(g) PROVE Aligned(s, g[s].sizeno) /\ page(s) \in K
    <2>1. s \in Unit /\ s \in Nat
      BY UnitNat DEF Heads
    <2>2. CASE s = b
      <3>1. t < PAGE
        BY <1>1, <2>2 DEF MergeOf, Heads
      <3>2. t \in Sizeno /\ g[b] = Header(FALSE, t)
        BY <3>1, HeaderTypes DEF MergeOf
      <3>3. g[b].sizeno = t
        BY <3>2, HeaderFields
      <3> QED
        BY <1>1, <2>2, <3>1, <3>3
    <2>3. CASE s # b
      <3>1. Base(s, t) # b /\ g[s] = h[s] /\ s \in Heads(h)
        BY <2>1, <2>3 DEF MergeOf, Heads
      <3>2. Aligned(s, g[s].sizeno) /\ page(s) \in G
        BY <3>1 DEF Tiled
      <3>3. ASSUME t = PAGE PROVE page(s) # page(a)
        BY <2>1, <3>1, <3>3, SamePage, UnitNat
      <3> QED
        BY <3>2, <3>3
    <2> QED
      BY <2>2, <2>3
  <1>4. ASSUME NEW x \in Unit, NEW s, NEW r, Covers(g, s, x), Covers(g, r, x) PROVE s = r
    <2>1. CASE Base(x, t) = b
      BY <1>2, <1>4, <2>1
    <2>2. CASE Base(x, t) # b
      BY <1>2, <1>4, <2>2 DEF Tiled
    <2> QED
      BY <2>1, <2>2
  <1>5. ASSUME NEW x \in Unit, page(x) \in K PROVE \E s : Covers(g, s, x)
    <2>1. CASE Base(x, t) = b
      <3>1. t # PAGE
        <4>1. ASSUME t = PAGE PROVE page(x) = page(a)
          BY <2>1, <4>1, SamePage, UnitNat
        <4> QED
          BY <1>5, <4>1
      <3> QED
        BY <1>1, <1>2, <2>1, <3>1
    <2>2. CASE Base(x, t) # b
      <3>1. \E s : Covers(h, s, x)
        BY <1>5 DEF Tiled
      <3> QED
        BY <1>2, <2>2, <3>1
    <2> QED
      BY <2>1, <2>2
  <1> QED
    BY <1>1, <1>3, <1>4, <1>5 DEF Tiled

LEMMA MergeNoBuddies ==
  ASSUME NEW h, NEW G, Tiled(h, G), NoBuddies(h), NEW a \in Unit, NEW s0 \in Sizeno,
         NEW t \in Level, Joined(h, a, s0, t), NEW g, NEW b, b = Base(a, t), MergeOf(g, h, b, t)
  PROVE  NoBuddies(g)
PROOF
  <1> SUFFICES ASSUME NEW x \in Heads(g), ~g[x].used, NEW k, k = g[x].sizeno,
                      g[pair(x, k)] = g[x]
               PROVE  FALSE
    BY DEF NoBuddies
  <1>1. h \in [Unit -> Hdr] /\ g \in [Unit -> Hdr] /\ Aligned(b, t) /\ Base(b, t) = b /\ b \in Unit
    BY BaseInPage DEF MergeOf, Tiled, Aligned
  <1>2. /\ x \in Unit /\ k \in Sizeno /\ k \in Level /\ k < PAGE /\ g[x] = Header(g[x].used, k)
        /\ g[x].used \in BOOLEAN
    BY <1>1, HeadType
  <1>3. g[x] = Header(FALSE, k) /\ g[x] # NoHeader
    <2>1. g[x].used = FALSE
      BY <1>2
    <2> QED
      BY <1>2, <2>1, HeaderFields
  <1>4. PICK y : y = pair(x, k)
    OBVIOUS
  <1>5. \A z \in Unit : z # b /\ g[z] # NoHeader => Base(z, t) # b /\ g[z] = h[z]
    BY DEF MergeOf
  <1>6. t < PAGE => h[pair(b, t)] # Header(FALSE, t)
    BY DEF Joined, Buddy
  <1>7. CASE x = b
    <2>1. t < PAGE
      BY <1>1, <1>3, <1>7 DEF MergeOf
    <2>2. g[b] = Header(FALSE, t) /\ t \in Sizeno
      BY <2>1, HeaderTypes DEF MergeOf
    <2>3. k = t
      BY <1>7, <2>2, HeaderFields
    <2>4. y # b /\ y \in Unit
      BY <1>1, <1>4, <1>7, <2>1, <2>3, PairFacts, PairInPage
    <2>5. g[y] = h[y]
      BY <1>3, <1>4, <1>5, <2>4
    <2> QED
      BY <1>4, <1>6, <1>7, <2>1, <2>2, <2>3, <2>5
  <1>8. CASE x # b
    <2>1. g[x] = h[x] /\ x \in Heads(h)
      BY <1>2, <1>3, <1>5, <1>8 DEF Heads
    <2>2. Aligned(x, k)
      BY <2>1 DEF Tiled
    <2>3. y \in Unit /\ pair(y, k) = x
      BY <1>2, <1>4, <2>2, PairFacts, PairInPage
    <2>4. CASE y = b
      <3>1. t < PAGE
        BY <1>1, <1>3, <1>4, <2>4 DEF MergeOf
      <3>2. g[b] = Header(FALSE, t) /\ t \in Sizeno
        BY <3>1, HeaderTypes DEF MergeOf
      <3>3. k = t
        <4>1. Header(FALSE, t) = Header(FALSE, k)
          BY <1>3, <1>4, <2>4, <3>2
        <4>2. Header(FALSE, t).sizeno = t /\ Header(FALSE, k).sizeno = k
          BY <1>2, <3>2, HeaderFields
        <4> QED
          BY <4>1, <4>2
      <3> QED
        BY <1>3, <1>6, <2>1, <2>3, <2>4, <3>1, <3>3
    <2>5. CASE y # b
      <3>1. g[y] = h[y]
        BY <1>3, <1>4, <1>5, <2>3, <2>5
      <3> QED
        BY <1>4, <2>1, <3>1 DEF NoBuddies
    <2> QED
      BY <2>4, <2>5
  <1> QED
    BY <1>7, <1>8

\* The free and the used blocks of a size after the loop
LEMMA MergeHeaders ==
  ASSUME NEW h, NEW G, Tiled(h, G), NEW a \in Unit, NEW s0 \in Sizeno, NEW t \in Level,
         Joined(h, a, s0, t), NEW g, NEW b, b = Base(a, t), MergeOf(g, h, b, t),
         NEW x \in Unit, NEW j \in Sizeno
  PROVE  /\ FreeAt(g, x, j) <=>
              \/ x = b /\ j = t
              \/ FreeAt(h, x, j) /\ ~(j \in Steps(s0, t) /\ x = Buddy(a, j))
         /\ UsedAt(g, x, j) <=> x # a /\ UsedAt(h, x, j)
PROOF
  <1> SUFFICES
        /\ g[x] = Header(FALSE, j) <=>
              \/ x = b /\ j = t
              \/ h[x] = Header(FALSE, j) /\ ~(j \in Steps(s0, t) /\ x = Buddy(a, j))
        /\ g[x] = Header(TRUE, j) <=> x # a /\ h[x] = Header(TRUE, j)
    BY DEF FreeAt, UsedAt
  <1>1. b \in Unit /\ Base(b, t) = b
    BY BaseInPage DEF Aligned
  <1>2. h[a] = Header(TRUE, s0) /\ s0 <= t /\ a \in Heads(h) /\ s0 \in Level
    <2>1. h[a] = Header(TRUE, s0)
      BY DEF Joined
    <2> QED
      BY <2>1, JoinedSelf
  <1>3. Header(TRUE, j) # NoHeader /\ Header(FALSE, j) # NoHeader
        /\ Header(TRUE, j).used = TRUE /\ Header(FALSE, j).used = FALSE
        /\ Header(TRUE, j).sizeno = j /\ Header(FALSE, j).sizeno = j
        /\ Header(TRUE, s0).used = TRUE
    BY HeaderFields
  <1>4. ASSUME Base(x, t) = b, h[x] # NoHeader
        PROVE  x = a \/ \E k \in Steps(s0, t) : x = Buddy(a, k)
    <2>1. Covers(h, x, x)
      BY <1>4, CoversSelf DEF Heads
    <2> QED
      BY <1>4, <2>1, MergedBlocks
  <1>5. ASSUME NEW k \in Steps(s0, t)
        PROVE  /\ k \in Sizeno /\ h[Buddy(a, k)] = Header(FALSE, k)
               /\ Header(FALSE, k).sizeno = k /\ Header(FALSE, k).used = FALSE
               /\ Base(Buddy(a, k), t) = b
    <2>1. k \in Sizeno /\ k \in Level /\ k < t
      BY LevelsBelow
    <2>2. h[Buddy(a, k)] = Header(FALSE, k)
      BY JoinedBuddy
    <2>3. Base(Buddy(a, k), t) = b
      BY <2>1, BuddyFacts
    <2> QED
      BY <2>1, <2>2, <2>3, HeaderFields
  <1>6. CASE x = b /\ t < PAGE
    <2>1. g[x] = Header(FALSE, t) /\ t \in Sizeno
      BY <1>6, HeaderTypes DEF MergeOf
    <2>2. Header(FALSE, t).sizeno = t /\ Header(FALSE, t).used = FALSE
      BY <2>1, HeaderFields
    <2>3. ASSUME h[x] = Header(TRUE, j) PROVE x = a
      BY <1>1, <1>3, <1>4, <1>5, <1>6, <2>3, ZenonT(30)
    <2>4. ASSUME h[x] = Header(FALSE, j) PROVE j \in Steps(s0, t) /\ x = Buddy(a, j)
      <3>1. x # a
        BY <1>2, <1>3, <2>4
      <3>2. PICK k \in Steps(s0, t) : x = Buddy(a, k)
        BY <1>1, <1>3, <1>4, <1>6, <2>4, <3>1
      <3>3. k = j
        <4>1. k \in Sizeno /\ h[Buddy(a, k)] = Header(FALSE, k)
          BY <1>5
        <4>2. Header(FALSE, k) = Header(FALSE, j)
          BY <2>4, <3>2, <4>1
        <4> QED
          BY <4>1, <4>2, SameHeader
      <3> QED
        BY <3>2, <3>3
    <2> QED
      BY <1>3, <1>6, <2>1, <2>2, <2>3, <2>4
  <1>7. CASE Base(x, t) = b /\ ~(x = b /\ t < PAGE)
    <2>1. g[x] = NoHeader
      BY <1>7 DEF MergeOf
    <2>2. ASSUME h[x] = Header(TRUE, j) PROVE x = a
      BY <1>3, <1>4, <1>5, <1>7, <2>2, ZenonT(30)
    <2>3. ASSUME h[x] = Header(FALSE, j) PROVE j \in Steps(s0, t) /\ x = Buddy(a, j)
      <3>1. x # a
        BY <1>2, <1>3, <2>3
      <3>2. PICK k \in Steps(s0, t) : x = Buddy(a, k)
        BY <1>3, <1>4, <1>7, <2>3, <3>1
      <3>3. k = j
        <4>1. k \in Sizeno /\ h[Buddy(a, k)] = Header(FALSE, k)
          BY <1>5
        <4>2. Header(FALSE, k) = Header(FALSE, j)
          BY <2>3, <3>2, <4>1
        <4> QED
          BY <4>1, <4>2, SameHeader
      <3> QED
        BY <3>2, <3>3
    <2>4. ~(x = b /\ j = t)
      BY <1>7, HeaderTypes
    <2> QED
      BY <1>3, <2>1, <2>2, <2>3, <2>4
  <1>8. CASE Base(x, t) # b
    <2>1. g[x] = h[x] /\ x # b /\ x # a
      BY <1>1, <1>8 DEF MergeOf
    <2>2. ASSUME NEW k \in Steps(s0, t), x = Buddy(a, k) PROVE FALSE
      <3>1. Base(Buddy(a, k), t) = b
        BY <1>5
      <3> QED
        BY <1>8, <2>2, <3>1
    <2> QED
      BY <2>1, <2>2
  <1> QED
    BY <1>1, <1>6, <1>7, <1>8

-----------------------------------------------------------------------------
(* The lists of free blocks.                                               *)

\* push_front of an element that is not in the list
LEMMA PrefixList ==
  ASSUME NEW S, NEW s \in Seq(S), IsInjective(s), NEW e \in S, ~Contains(s, e)
  PROVE  /\ <<e>> \o s \in Seq(S)
         /\ IsInjective(<<e>> \o s)
         /\ \A x : Contains(<<e>> \o s, x) <=> Contains(s, x) \/ x = e
PROOF
  <1>1. PICK r : r = <<e>> \o s
    OBVIOUS
  <1>2. /\ r \in Seq(S) /\ Len(r) = Len(s) + 1 /\ Len(s) \in Nat /\ r[1] = e
        /\ \A k \in 1 .. Len(s) : r[k + 1] = s[k]
    BY <1>1
  <1>3. DOMAIN r = 1 .. Len(s) + 1 /\ DOMAIN s = 1 .. Len(s)
    BY <1>2
  <1>4. ASSUME NEW k \in DOMAIN r PROVE k = 1 \/ \E l \in DOMAIN s : k = l + 1 /\ r[k] = s[l]
    <2>1. CASE k # 1
      <3>1. k - 1 \in DOMAIN s /\ k = (k - 1) + 1
        BY <1>2, <1>3, <2>1
      <3> QED
        BY <1>2, <1>3, <3>1
    <2> QED
      BY <2>1
  <1>5. \A l \in DOMAIN s : s[l] # e
    BY <1>3 DEF Contains
  <1>6. ASSUME NEW x PROVE Contains(r, x) <=> Contains(s, x) \/ x = e
    <2>1. ASSUME Contains(r, x) PROVE Contains(s, x) \/ x = e
      <3>1. PICK k \in DOMAIN r : r[k] = x
        BY <1>2, <1>3, <2>1 DEF Contains
      <3> QED
        BY <1>2, <1>3, <1>4, <3>1 DEF Contains
    <2>2. ASSUME Contains(s, x) PROVE Contains(r, x)
      <3>1. PICK l \in 1 .. Len(s) : s[l] = x
        BY <2>2 DEF Contains
      <3>2. l + 1 \in 1 .. Len(r) /\ r[l + 1] = x
        BY <1>2, <3>1
      <3> QED
        BY <3>2 DEF Contains
    <2>3. Contains(r, e)
      BY <1>2 DEF Contains
    <2> QED
      BY <2>1, <2>2, <2>3
  <1>7. IsInjective(r)
    <2>1. ASSUME NEW k \in DOMAIN r, NEW l \in DOMAIN r, r[k] = r[l] PROVE k = l
      <3>1. CASE k = 1 \/ l = 1
        BY <1>2, <1>4, <1>5, <2>1, <3>1
      <3>2. CASE k # 1 /\ l # 1
        <4>1. PICK m \in DOMAIN s : k = m + 1 /\ r[k] = s[m]
          BY <1>4, <3>2
        <4>2. PICK n \in DOMAIN s : l = n + 1 /\ r[l] = s[n]
          BY <1>4, <3>2
        <4>3. m = n
          BY <2>1, <4>1, <4>2 DEF IsInjective
        <4> QED
          BY <4>1, <4>2, <4>3
      <3> QED
        BY <3>1, <3>2
    <2> QED
      BY <2>1 DEF IsInjective
  <1> QED
    BY <1>1, <1>2, <1>6, <1>7

\* The list l has the free blocks of sizeno i, once.
ListOf(h, l, i) ==
  /\ l \in Seq(Unit) /\ IsInjective(l)
  /\ \A x : Contains(l, x) <=> x \in Unit /\ FreeAt(h, x, i)

Listed(h, ls) == ls = [i \in Sizeno |-> ls[i]] /\ \A i \in Sizeno : ListOf(h, ls[i], i)

LEMMA SplitList ==
  ASSUME NEW h \in [Unit -> Hdr], NEW g, NEW a \in Unit, NEW i \in Level, NEW u \in Sizeno, u <= i,
         Aligned(a, i), Alone(h, a, i), SplitOf(g, h, a, i, u),
         NEW j \in Sizeno, NEW l, ListOf(h, l, j),
         j = i => l # <<>> /\ a = Head(l)
  PROVE  ListOf(g, IF j \in Steps(u, i) THEN Append(l, Right(a, j))
                   ELSE IF j = i THEN Tail(l) ELSE l, j)
PROOF
  <1>1. \A x \in Unit : FreeAt(g, x, j) <=> \/ j \in Steps(u, i) /\ x = Right(a, j)
                                            \/ x # a /\ FreeAt(h, x, j)
    <2> SUFFICES ASSUME NEW x \in Unit
                 PROVE  FreeAt(g, x, j) <=> \/ j \in Steps(u, i) /\ x = Right(a, j)
                                            \/ x # a /\ FreeAt(h, x, j)
      OBVIOUS
    <2> QED
      BY SplitHeaders
  <1>2. l \in Seq(Unit) /\ IsInjective(l) /\ \A x : Contains(l, x) <=> x \in Unit /\ FreeAt(h, x, j)
    BY DEF ListOf
  <1>3. j # i => ~FreeAt(h, a, j)
    BY HeaderFields DEF Alone, Heads, FreeAt
  <1>4. i \in Nat /\ j \in Nat /\ u \in Level
    BY HeaderTypes
  <1>5. CASE j \in Steps(u, i)
    <2>1. j \in Level /\ j < i /\ Right(a, j) \in Nat /\ Right(a, j) # a /\ Base(Right(a, j), i) = a
      BY <1>4, <1>5, RightDiffer
    <2>2. Right(a, j) \in Unit
      BY <2>1, CellInPage DEF Aligned
    <2>3. h[Right(a, j)] = NoHeader
      BY <2>1, <2>2 DEF Alone, Heads
    <2>4. ~Contains(l, Right(a, j))
      BY <1>2, <2>3, HeaderFields DEF FreeAt
    <2>5. /\ Append(l, Right(a, j)) \in Seq(Unit) /\ IsInjective(Append(l, Right(a, j)))
          /\ \A x : Contains(Append(l, Right(a, j)), x) <=> Contains(l, x) \/ x = Right(a, j)
      BY <1>2, <2>2, <2>4, AppendList
    <2>6. j # i
      BY <1>4, <1>5 DEF Steps
    <2>7. \A x : Contains(Append(l, Right(a, j)), x) <=> x \in Unit /\ FreeAt(g, x, j)
      <3>1. \A x : x \in Unit /\ FreeAt(g, x, j) <=>
                     x = Right(a, j) \/ (x \in Unit /\ FreeAt(h, x, j))
        BY <1>1, <1>3, <1>5, <2>2, <2>6, Zenon
      <3> QED
        BY <1>2, <2>5, <3>1, Zenon
    <2> QED
      BY <1>5, <2>5, <2>7 DEF ListOf
  <1>6. CASE j = i
    <2>1. j \notin Steps(u, i)
      BY <1>4, <1>6 DEF Steps
    <2>2. /\ Tail(l) \in Seq(Unit) /\ IsInjective(Tail(l))
          /\ \A x : Contains(Tail(l), x) <=> Contains(l, x) /\ x # a
      BY <1>2, <1>6, TailList, TailContains
    <2>3. \A x : Contains(Tail(l), x) <=> x \in Unit /\ FreeAt(g, x, j)
      BY <1>1, <1>2, <2>1, <2>2
    <2> QED
      BY <1>6, <2>1, <2>2, <2>3 DEF ListOf
  <1>7. CASE j \notin Steps(u, i) /\ j # i
    <2>1. \A x : Contains(l, x) <=> x \in Unit /\ FreeAt(g, x, j)
      BY <1>1, <1>2, <1>3, <1>7
    <2> QED
      BY <1>2, <1>7, <2>1 DEF ListOf
  <1> QED
    BY <1>5, <1>6, <1>7

LEMMA MergeList ==
  ASSUME NEW h, NEW G, Tiled(h, G), NEW a \in Unit, NEW s0 \in Sizeno, NEW t \in Level,
         Joined(h, a, s0, t), NEW g, NEW b, b = Base(a, t), MergeOf(g, h, b, t),
         NEW j \in Sizeno, NEW l, ListOf(h, l, j)
  PROVE  /\ ListOf(g, IF j \in Steps(s0, t) THEN RemoveFirst(l, Buddy(a, j))
                      ELSE IF j = t THEN <<b>> \o l ELSE l, j)
         /\ j \in Steps(s0, t) => Contains(l, Buddy(a, j))
PROOF
  <1>1. \A x \in Unit : FreeAt(g, x, j) <=>
              \/ x = b /\ j = t
              \/ FreeAt(h, x, j) /\ ~(j \in Steps(s0, t) /\ x = Buddy(a, j))
    BY MergeHeaders
  <1>2. l \in Seq(Unit) /\ IsInjective(l) /\ \A x : Contains(l, x) <=> x \in Unit /\ FreeAt(h, x, j)
    BY DEF ListOf
  <1>3. t \in Nat /\ j \in Nat /\ s0 \in Nat /\ b \in Unit
    BY HeaderTypes, BaseInPage
  <1>4. CASE j \in Steps(s0, t)
    <2>1. Buddy(a, j) \in Heads(h) /\ h[Buddy(a, j)] = Header(FALSE, j)
      BY <1>4, JoinedBuddy
    <2>2. Contains(l, Buddy(a, j)) /\ j # t
      <3>1. Buddy(a, j) \in Unit /\ FreeAt(h, Buddy(a, j), j)
        BY <2>1 DEF Heads, FreeAt
      <3>2. j # t
        BY <1>3, <1>4 DEF Steps
      <3> QED
        BY <1>2, <3>1, <3>2
    <2>3. PICK r : r = RemoveFirst(l, Buddy(a, j))
      OBVIOUS
    <2>4. r \in Seq(Unit) /\ IsInjective(r) /\ \A x : Contains(r, x) <=> Contains(l, x) /\ x # Buddy(a, j)
      BY <1>2, <2>3, RemoveFirstList
    <2>5. \A x : Contains(r, x) <=> x \in Unit /\ FreeAt(g, x, j)
      BY <1>1, <1>2, <1>4, <2>2, <2>4
    <2> QED
      BY <1>4, <2>2, <2>3, <2>4, <2>5 DEF ListOf
  <1>5. CASE j = t
    <2>1. j \notin Steps(s0, t)
      BY <1>3, <1>5 DEF Steps
    <2>2. h[b] # Header(FALSE, j)
      <3>1. ASSUME h[b] = Header(FALSE, j) PROVE FALSE
        <4>1. b \in Heads(h) /\ Base(b, t) = b
          BY <1>3, <3>1, HeaderFields, BaseInPage DEF Heads, Aligned
        <4>2. Covers(h, b, b)
          BY <4>1, CoversSelf
        <4>3. b = a \/ \E k \in Steps(s0, t) : b = Buddy(a, k)
          BY <1>3, <4>1, <4>2, MergedBlocks
        <4>4. b # a
          <5>1. h[a] = Header(TRUE, s0)
            BY DEF Joined
          <5> QED
            BY <3>1, <5>1, SameHeader
        <4>5. PICK k \in Steps(s0, t) : b = Buddy(a, k)
          BY <4>3, <4>4
        <4>6. h[b] = Header(FALSE, k) /\ k \in Sizeno /\ k < t
          <5>1. h[Buddy(a, k)] = Header(FALSE, k)
            BY JoinedBuddy
          <5>2. k \in Sizeno /\ k < t
            BY LevelsBelow
          <5> QED
            BY <4>5, <5>1, <5>2
        <4>7. k = j
          BY <3>1, <4>6, SameHeader
        <4> QED
          BY <1>3, <1>5, <4>6, <4>7
      <3> QED
        BY <3>1
    <2>3. ~Contains(l, b)
      BY <1>2, <2>2 DEF FreeAt
    <2>4. PICK r : r = <<b>> \o l
      OBVIOUS
    <2>5. r \in Seq(Unit) /\ IsInjective(r) /\ \A x : Contains(r, x) <=> Contains(l, x) \/ x = b
      BY <1>2, <1>3, <2>3, <2>4, PrefixList
    <2>6. \A x : Contains(r, x) <=> x \in Unit /\ FreeAt(g, x, j)
      BY <1>1, <1>2, <1>3, <1>5, <2>1, <2>5
    <2> QED
      BY <1>5, <2>1, <2>4, <2>5, <2>6 DEF ListOf
  <1>6. CASE j \notin Steps(s0, t) /\ j # t
    <2>1. \A x : Contains(l, x) <=> x \in Unit /\ FreeAt(g, x, j)
      BY <1>1, <1>2, <1>6
    <2> QED
      BY <1>2, <1>6, <2>1 DEF ListOf
  <1> QED
    BY <1>4, <1>5, <1>6

-----------------------------------------------------------------------------
(* The counts of a page header.                                            *)

BlocksAt(h, p, j) == {x \in Heads(h) : page(x) = p /\ h[x].sizeno = j}
UsedIn(h, p, j) == {x \in BlocksAt(h, p, j) : h[x].used}

\* The cells of level i of a page
Cells(p, i) == {x \in Unit : Aligned(x, i) /\ page(x) = p}

\* A set with one element more or less than a finite set
LEMMA OneMore ==
  ASSUME NEW A, IsFiniteSet(A), NEW T, NEW x, x \notin A, \A y : y \in T <=> y \in A \/ y = x
  PROVE  IsFiniteSet(T) /\ Cardinality(A) \in Nat /\ Cardinality(T) = Cardinality(A) + 1
PROOF
  <1>1. T = A \cup {x}
    OBVIOUS
  <1> QED
    BY <1>1, FS_AddElement, FS_CardinalityType

LEMMA OneLess ==
  ASSUME NEW A, IsFiniteSet(A), NEW T, NEW x, x \in A, \A y : y \in T <=> y \in A /\ y # x
  PROVE  IsFiniteSet(T) /\ Cardinality(A) \in Nat /\ Cardinality(T) = Cardinality(A) - 1
PROOF
  <1>1. T = A \ {x}
    OBVIOUS
  <1> QED
    BY <1>1, FS_RemoveElement, FS_CardinalityType

\* A page has at most two cells of a level for each one of the level above.
LEMMA CellsHalved ==
  ASSUME NEW p, NEW i \in Level, i < PAGE, NEW n \in Nat,
         IsFiniteSet(Cells(p, i + 1)), Cardinality(Cells(p, i + 1)) <= n
  PROVE  IsFiniteSet(Cells(p, i)) /\ Cardinality(Cells(p, i)) <= 2 * n
PROOF
  <1> DEFINE A == Cells(p, i + 1)
             f == [x \in A |-> x + pow2[i]]
             T == {f[x] : x \in A}
  <1>1. f \in Surjection(A, T)
    BY DEF Surjection
  <1>2. \A x \in A : f[x] = x + pow2[i]
    OBVIOUS
  <1> HIDE DEF f
  <1>3. IsFiniteSet(T) /\ Cardinality(T) <= Cardinality(A)
    BY <1>1, FS_Surjection
  <1>4. Cells(p, i) \subseteq A \cup T
    <2> SUFFICES ASSUME NEW x \in Cells(p, i) PROVE x \in A \cup T
      OBVIOUS
    <2>1. x \in Unit /\ x \in Nat /\ Base(x, i) = x /\ page(x) = p
      BY UnitNat DEF Cells, Aligned
    <2>2. i + 1 \in Level /\ (x = Base(x, i + 1) \/ x = Base(x, i + 1) + pow2[i])
      BY <2>1, Halves
    <2>3. Base(x, i + 1) \in A
      BY <2>1, <2>2, BaseInPage DEF Cells
    <2> HIDE DEF A
    <2> QED
      BY <1>2, <2>2, <2>3
  <1> HIDE DEF A, T
  <1>5. IsFiniteSet(A \cup T) /\ Cardinality(A \cup T) <= 2 * n
    <2>1. IsFiniteSet(A) /\ Cardinality(A) <= n
      BY DEF A
    <2>2. IsFiniteSet(A \cap T)
      BY <2>1, FS_Subset
    <2>3. Cardinality(A) \in Nat /\ Cardinality(T) \in Nat /\ Cardinality(A \cap T) \in Nat
      BY <1>3, <2>1, <2>2, FS_CardinalityType
    <2>4. IsFiniteSet(A \cup T) /\
          Cardinality(A \cup T) = Cardinality(A) + Cardinality(T) - Cardinality(A \cap T)
      BY <1>3, <2>1, FS_Union
    <2> QED
      BY <1>3, <2>1, <2>3, <2>4
  <1>6. /\ IsFiniteSet(Cells(p, i)) /\ Cardinality(Cells(p, i)) <= Cardinality(A \cup T)
    BY <1>4, <1>5, FS_Subset
  <1>7. Cardinality(Cells(p, i)) \in Nat /\ Cardinality(A \cup T) \in Nat
    BY <1>5, <1>6, FS_CardinalityType
  <1> QED
    BY <1>5, <1>6, <1>7

LEMMA CellsBound ==
  ASSUME NEW p, NEW k \in Level
  PROVE  /\ PAGE - k \in Level
         /\ IsFiniteSet(Cells(p, PAGE - k)) /\ Cardinality(Cells(p, PAGE - k)) <= pow2[k]
PROOF
  <1> DEFINE P(n) == /\ IsFiniteSet(Cells(p, PAGE - n))
                     /\ Cardinality(Cells(p, PAGE - n)) <= pow2[n]
             S == {n \in Nat : n <= PAGE => P(n)}
  <1>0. PAGE \in Nat /\ PAGE \in Level
    BY Pow2Def, PageLevel
  <1>1. 0 \in S
    <2>1. PAGE - 0 = PAGE /\ pow2[0] = 1
      BY <1>0, Pow2Def
    <2>2. \A x, y \in Cells(p, PAGE) : x = y
      <3> SUFFICES ASSUME NEW x \in Cells(p, PAGE), NEW y \in Cells(p, PAGE) PROVE x = y
        OBVIOUS
      <3>1. x \in Nat /\ y \in Nat /\ Base(x, PAGE) = x /\ Base(y, PAGE) = y /\ page(x) = page(y)
        BY UnitNat DEF Cells, Aligned
      <3> QED
        BY <3>1, SamePage
    <2>3. Cells(p, PAGE) = {} \/ \E x : Cells(p, PAGE) = {x}
      BY <2>2
    <2>4. IsFiniteSet(Cells(p, PAGE)) /\ Cardinality(Cells(p, PAGE)) <= 1
      <3>1. CASE Cells(p, PAGE) = {}
        BY <3>1, FS_EmptySet
      <3>2. CASE \E x : Cells(p, PAGE) = {x}
        <4>1. PICK x : Cells(p, PAGE) = {x}
          BY <3>2
        <4>2. IsFiniteSet({x}) /\ Cardinality({x}) = 1
          BY FS_Singleton
        <4> QED
          BY <4>1, <4>2
      <3> QED
        BY <2>3, <3>1, <3>2
    <2> QED
      BY <2>1, <2>4
  <1>2. ASSUME NEW n \in Nat, n \in S PROVE n + 1 \in S
    <2> SUFFICES ASSUME n + 1 <= PAGE PROVE P(n + 1)
      OBVIOUS
    <2>1. P(n)
      BY <1>0, <1>2
    <2>2. PICK i \in Level : i = PAGE - (n + 1) /\ i < PAGE /\ i + 1 = PAGE - n
      BY <1>0 DEF Level
    <2>3. n \in 0 .. PAGE - 1
      BY <1>0
    <2>4. pow2[n + 1] = 2 * pow2[n] /\ pow2[n] \in Nat
      BY <1>0, <2>3, Pow2
    <2>5. IsFiniteSet(Cells(p, i)) /\ Cardinality(Cells(p, i)) <= 2 * pow2[n]
      BY <2>1, <2>2, <2>4, CellsHalved
    <2> QED
      BY <2>2, <2>4, <2>5
  <1> HIDE DEF S
  <1>3. Nat \subseteq S
    BY <1>1, <1>2, InductionSet
  <1>4. k \in Nat /\ k <= PAGE
    BY <1>0 DEF Level
  <1>5. P(k)
    BY <1>3, <1>4 DEF S
  <1>6. PAGE - k \in Level
    BY <1>0, <1>4 DEF Level
  <1> QED
    BY <1>5, <1>6

\* The fields of PH_count are wide enough.
LEMMA SmallPowers ==
  ASSUME NEW k \in Level
  PROVE  pow2[k] <= 128 /\ (k <= 3 => pow2[k] <= 8)
PROOF
  <1>1. PAGE \in 1 .. 7
    BY KmallocAssumption DEF PAGE
  <1>2. /\ pow2[0] = 1
        /\ \A i \in 0 .. PAGE : i # 0 => pow2[i] = 2 * pow2[i - 1]
    BY Pow2Def
  <1>3. k \in 0 .. PAGE
    BY DEF Level
  <1>4. \A i \in 0 .. PAGE - 1 : pow2[i + 1] = 2 * pow2[i]
    BY Pow2
  <1>5. 1 \in 0 .. PAGE /\ pow2[1] = 2
    BY <1>1, <1>2
  <1>6. PAGE >= 2 => pow2[2] = 4
    BY <1>1, <1>2, <1>5
  <1>7. PAGE >= 3 => pow2[3] = 8
    BY <1>1, <1>2, <1>6
  <1>8. PAGE >= 4 => pow2[4] = 16
    BY <1>1, <1>2, <1>7
  <1>9. PAGE >= 5 => pow2[5] = 32
    BY <1>1, <1>2, <1>8
  <1>10. PAGE >= 6 => pow2[6] = 64
    BY <1>1, <1>2, <1>9
  <1>11. PAGE >= 7 => pow2[7] = 128
    BY <1>1, <1>2, <1>10
  <1>12. k = 0 \/ k = 1 \/ k = 2 \/ k = 3 \/ k = 4 \/ k = 5 \/ k = 6 \/ k = 7
    BY <1>1, <1>3
  <1> QED
    BY <1>1, <1>2, <1>3, <1>5, <1>6, <1>7, <1>8, <1>9, <1>10, <1>11, <1>12

LEMMA CountBound ==
  ASSUME NEW h, NEW G, Tiled(h, G), NEW p, NEW j \in Sizeno
  PROVE  /\ IsFiniteSet(BlocksAt(h, p, j)) /\ IsFiniteSet(UsedIn(h, p, j))
         /\ Cardinality(BlocksAt(h, p, j)) \in Nat /\ Cardinality(UsedIn(h, p, j)) \in Nat
         /\ Cardinality(UsedIn(h, p, j)) <= Cardinality(BlocksAt(h, p, j))
         /\ Cardinality(BlocksAt(h, p, j)) < 2^Width(j)
PROOF
  <1>0. PAGE \in 1 .. 7 /\ j \in Nat /\ j < PAGE /\ j \in Level
    BY KmallocAssumption, HeaderTypes DEF PAGE
  <1>1. PICK k \in Level : j = PAGE - k /\ (k <= 3 \/ j <= 3)
    <2>1. PAGE - j \in Level /\ j = PAGE - (PAGE - j) /\ (PAGE - j <= 3 \/ j <= 3)
      BY <1>0 DEF Level
    <2> QED
      BY <2>1
  <1>2. IsFiniteSet(Cells(p, j)) /\ Cardinality(Cells(p, j)) <= pow2[k]
    BY <1>1, CellsBound
  <1>3. BlocksAt(h, p, j) \subseteq Cells(p, j)
    BY DEF BlocksAt, Cells, Tiled, Heads
  <1>4. /\ IsFiniteSet(BlocksAt(h, p, j)) /\ Cardinality(BlocksAt(h, p, j)) <= Cardinality(Cells(p, j))
    BY <1>2, <1>3, FS_Subset
  <1>5. UsedIn(h, p, j) \subseteq BlocksAt(h, p, j)
    BY DEF UsedIn
  <1>6. /\ IsFiniteSet(UsedIn(h, p, j))
        /\ Cardinality(UsedIn(h, p, j)) <= Cardinality(BlocksAt(h, p, j))
    BY <1>4, <1>5, FS_Subset
  <1>7. /\ Cardinality(BlocksAt(h, p, j)) \in Nat /\ Cardinality(UsedIn(h, p, j)) \in Nat
        /\ Cardinality(Cells(p, j)) \in Nat
    BY <1>2, <1>4, <1>6, FS_CardinalityType
  <1>8. pow2[k] \in Nat /\ pow2[k] <= 128 /\ (k <= 3 => pow2[k] <= 8)
    BY Pow2, SmallPowers DEF Level
  <1>9. pow2[k] < 2^Width(j)
    <2>1. CASE j <= 3
      <3>1. 2^Width(j) = 256
        BY <2>1 DEF Width
      <3> QED
        BY <1>8, <3>1
    <2>2. CASE ~(j <= 3)
      <3>1. 2^Width(j) = 16
        BY <2>2 DEF Width
      <3>2. k <= 3
        BY <1>1, <2>2
      <3> QED
        BY <1>8, <3>1, <3>2
    <2> QED
      BY <2>1, <2>2
  <1>10. 2^Width(j) \in Nat
    BY DEF Width
  <1>11. Cardinality(BlocksAt(h, p, j)) < 2^Width(j)
    BY <1>2, <1>4, <1>7, <1>8, <1>9, <1>10
  <1> QED
    BY <1>4, <1>6, <1>7, <1>11

\* A field of a sum, when it fits in its width
LEMMA FieldSum ==
  ASSUME NEW c, NEW d, NEW j \in Sizeno, NEW m \in Nat, NEW e \in Int, NEW n \in Nat,
         c[j] = m, d[j] = e, m + e = n, n < 2^Width(j)
  PROVE  PH_add(c, d)[j] = n
PROOF
  <1>1. PH_add(c, d)[j] = (m + e) % 2^Width(j)
    BY DEF PH_add
  <1>2. 2^Width(j) = 256 \/ 2^Width(j) = 16
    BY DEF Width
  <1> QED
    BY <1>1, <1>2

\* The blocks of a page, by their headers
LEMMA BlockMembers ==
  ASSUME NEW h \in [Unit -> Hdr], NEW p, NEW j \in Sizeno, NEW x
  PROVE  /\ x \in BlocksAt(h, p, j) <=> /\ x \in Unit /\ page(x) = p
                                        /\ FreeAt(h, x, j) \/ UsedAt(h, x, j)
         /\ x \in UsedIn(h, p, j) <=> x \in Unit /\ page(x) = p /\ UsedAt(h, x, j)
PROOF
  <1>1. ASSUME x \in Heads(h), h[x].sizeno = j
        PROVE  /\ h[x].used => UsedAt(h, x, j)
               /\ ~h[x].used => FreeAt(h, x, j)
    <2>1. h[x].used \in BOOLEAN /\ h[x] = Header(h[x].used, j)
      BY <1>1, HeadType
    <2>2. CASE h[x].used = TRUE
      BY <2>1, <2>2 DEF UsedAt
    <2>3. CASE h[x].used = FALSE
      BY <2>1, <2>3 DEF FreeAt
    <2> QED
      BY <2>1, <2>2, <2>3
  <1>2. ASSUME x \in Unit, UsedAt(h, x, j) PROVE x \in Heads(h) /\ h[x].sizeno = j /\ h[x].used
    BY <1>2, HeaderFields DEF Heads, UsedAt
  <1>3. ASSUME x \in Unit, FreeAt(h, x, j) PROVE x \in Heads(h) /\ h[x].sizeno = j /\ ~h[x].used
    BY <1>3, HeaderFields DEF Heads, FreeAt
  <1>4. x \in Heads(h) => x \in Unit
    BY DEF Heads
  <1> QED
    BY <1>1, <1>2, <1>3, <1>4 DEF BlocksAt, UsedIn

\* FreeBlock::split counts the blocks it makes, in the page of a and no other.
LEMMA SplitCounts ==
  ASSUME NEW h, NEW G, Tiled(h, G), NEW g, NEW a \in Unit, NEW i \in Level, NEW u \in Sizeno,
         u <= i, Aligned(a, i), Alone(h, a, i), SplitOf(g, h, a, i, u),
         i # PAGE => a \in Heads(h), i = PAGE => a \notin Heads(h),
         NEW j \in Sizeno
  PROVE  /\ split_count(i, u)[j] \in Int /\ One(u)[j] \in Int
         /\ Cardinality(BlocksAt(g, page(a), j)) =
              Cardinality(BlocksAt(h, page(a), j)) + split_count(i, u)[j]
         /\ Cardinality(UsedIn(g, page(a), j)) = Cardinality(UsedIn(h, page(a), j)) + One(u)[j]
         /\ \A p : p # page(a) => BlocksAt(g, p, j) = BlocksAt(h, p, j)
                                  /\ UsedIn(g, p, j) = UsedIn(h, p, j)
PROOF
  <1>1. h \in [Unit -> Hdr] /\ g \in [Unit -> Hdr] /\ u \in Level
    BY HeaderTypes DEF Tiled, SplitOf
  <1>2. i \in Nat /\ j \in Nat /\ u \in Nat /\ j # PAGE /\ u # PAGE
    <2>1. j < PAGE /\ u < PAGE /\ PAGE \in Nat
      BY HeaderTypes, Pow2Def
    <2> QED
      BY <2>1, HeaderTypes
  <1>3. j \in Steps(u, i) <=> u <= j /\ j < i
    BY <1>2 DEF Steps
  <1>4. ASSUME j \in Steps(u, i)
        PROVE  /\ Right(a, j) \in Unit /\ page(Right(a, j)) = page(a) /\ Right(a, j) # a
               /\ ~FreeAt(h, Right(a, j), j) /\ ~UsedAt(h, Right(a, j), j)
    <2>1. Right(a, j) \in Nat /\ Right(a, j) # a /\ Base(Right(a, j), i) = a
      BY <1>1, <1>4, RightDiffer
    <2>2. Right(a, j) \in Unit /\ page(Right(a, j)) = page(a)
      BY <2>1, CellInPage DEF Aligned
    <2>3. h[Right(a, j)] = NoHeader
      BY <2>1, <2>2 DEF Alone, Heads
    <2> QED
      BY <2>1, <2>2, <2>3, HeaderFields DEF FreeAt, UsedAt
  <1>5. ~UsedAt(h, a, j) /\ (FreeAt(h, a, j) <=> j = i)
    <2>1. CASE a \notin Heads(h)
      <3>1. h[a] = NoHeader /\ i = PAGE
        BY <2>1 DEF Heads
      <3> QED
        BY <1>2, <3>1, HeaderFields DEF FreeAt, UsedAt
    <2>2. CASE a \in Heads(h)
      <3>1. i \in Sizeno /\ h[a].sizeno = i /\ ~h[a].used
        BY <1>1, <2>2, HeadType DEF Alone
      <3>2. h[a] = Header(FALSE, i)
        <4>1. h[a].used \in BOOLEAN /\ h[a] = Header(h[a].used, i)
          BY <1>1, <2>2, <3>1, HeadType
        <4>2. h[a].used = FALSE
          BY <3>1, <4>1
        <4> QED
          BY <4>1, <4>2
      <3> QED
        BY <3>1, <3>2, SameHeader DEF FreeAt, UsedAt
    <2> QED
      BY <2>1, <2>2
  <1>6. ASSUME NEW x \in Unit
        PROVE  /\ FreeAt(g, x, j) <=> \/ j \in Steps(u, i) /\ x = Right(a, j)
                                      \/ x # a /\ FreeAt(h, x, j)
               /\ UsedAt(g, x, j) <=> (x = a /\ j = u) \/ UsedAt(h, x, j)
    BY <1>1, SplitHeaders
  <1> DEFINE p0 == page(a)
             A == BlocksAt(h, p0, j)
             T == BlocksAt(g, p0, j)
             V == UsedIn(h, p0, j)
             W == UsedIn(g, p0, j)
  <1>7. /\ \A x : x \in A <=> x \in Unit /\ page(x) = p0 /\ (FreeAt(h, x, j) \/ UsedAt(h, x, j))
        /\ \A x : x \in T <=> x \in Unit /\ page(x) = p0 /\ (FreeAt(g, x, j) \/ UsedAt(g, x, j))
        /\ \A x : x \in V <=> x \in Unit /\ page(x) = p0 /\ UsedAt(h, x, j)
        /\ \A x : x \in W <=> x \in Unit /\ page(x) = p0 /\ UsedAt(g, x, j)
    BY <1>1, BlockMembers
  <1>8. /\ IsFiniteSet(A) /\ IsFiniteSet(V) /\ Cardinality(A) \in Nat /\ Cardinality(V) \in Nat
    BY CountBound
  <1>9. \A p : p # p0 => BlocksAt(g, p, j) = BlocksAt(h, p, j) /\ UsedIn(g, p, j) = UsedIn(h, p, j)
    <2> SUFFICES ASSUME NEW p, p # p0
                 PROVE  BlocksAt(g, p, j) = BlocksAt(h, p, j) /\ UsedIn(g, p, j) = UsedIn(h, p, j)
      OBVIOUS
    <2>1. /\ \A x : x \in BlocksAt(h, p, j) <=> x \in Unit /\ page(x) = p /\ (FreeAt(h, x, j) \/ UsedAt(h, x, j))
          /\ \A x : x \in BlocksAt(g, p, j) <=> x \in Unit /\ page(x) = p /\ (FreeAt(g, x, j) \/ UsedAt(g, x, j))
          /\ \A x : x \in UsedIn(h, p, j) <=> x \in Unit /\ page(x) = p /\ UsedAt(h, x, j)
          /\ \A x : x \in UsedIn(g, p, j) <=> x \in Unit /\ page(x) = p /\ UsedAt(g, x, j)
      BY <1>1, BlockMembers
    <2>2. ASSUME NEW x \in Unit, page(x) = p
          PROVE  (FreeAt(g, x, j) <=> FreeAt(h, x, j)) /\ (UsedAt(g, x, j) <=> UsedAt(h, x, j))
      BY <1>4, <1>6, <2>2
    <2> QED
      BY <2>1, <2>2
  <1> HIDE DEF A, T, V, W
  <1>10. One(u)[j] = (IF j = u THEN 1 ELSE 0)
    BY DEF One
  <1>11. Cardinality(W) = Cardinality(V) + One(u)[j]
    <2>1. CASE j = u
      <3>1. a \notin V /\ \A x : x \in W <=> x \in V \/ x = a
        BY <1>5, <1>6, <1>7, <2>1
      <3>2. Cardinality(W) = Cardinality(V) + 1
        BY <1>8, <3>1, OneMore
      <3> QED
        BY <1>10, <2>1, <3>2
    <2>2. CASE j # u
      <3>1. \A x : x \in W <=> x \in V
        BY <1>6, <1>7, <2>2
      <3>2. W = V
        BY <3>1
      <3> QED
        BY <1>8, <1>10, <2>2, <3>2
    <2> QED
      BY <2>1, <2>2
  <1>12. split_count(i, u)[j] = (IF j = i THEN (IF i = u THEN 0 ELSE -1)
                                 ELSE IF j \in Steps(u, i) THEN (IF j = u THEN 2 ELSE 1) ELSE 0)
    BY <1>2 DEF split_count, Steps
  <1>13. Cardinality(T) = Cardinality(A) + split_count(i, u)[j]
    <2>1. CASE j = i /\ i = u
      <3>1. \A x : x \in T <=> x \in A
        <4>1. j \notin Steps(u, i)
          BY <1>2, <1>3, <2>1
        <4>2. \A x \in Unit : FreeAt(g, x, j) \/ UsedAt(g, x, j) <=> FreeAt(h, x, j) \/ UsedAt(h, x, j)
          BY <1>5, <1>6, <2>1, <4>1
        <4> QED
          BY <1>7, <4>2
      <3>2. T = A
        BY <3>1
      <3> QED
        BY <1>8, <1>12, <2>1, <3>2
    <2>2. CASE j = i /\ i # u
      <3>1. a \in A /\ \A x : x \in T <=> x \in A /\ x # a
        <4>1. j \notin Steps(u, i) /\ j # u
          BY <1>2, <1>3, <2>2
        <4>2. \A x \in Unit : FreeAt(g, x, j) \/ UsedAt(g, x, j) <=>
                               x # a /\ (FreeAt(h, x, j) \/ UsedAt(h, x, j))
          BY <1>5, <1>6, <4>1
        <4> QED
          BY <1>5, <1>7, <2>2, <4>2
      <3>2. Cardinality(T) = Cardinality(A) - 1
        BY <1>8, <3>1, OneLess
      <3> QED
        BY <1>8, <1>12, <2>2, <3>2
    <2>3. CASE j # i /\ j \in Steps(u, i) /\ j = u
      <3> DEFINE M == A \cup {a}
      <3>1. a \notin A /\ \A x : x \in M <=> x \in A \/ x = a
        BY <1>5, <1>7, <2>3
      <3>2. Right(a, j) \notin M /\ \A x : x \in T <=> x \in M \/ x = Right(a, j)
        BY <1>4, <1>5, <1>6, <1>7, <2>3
      <3> HIDE DEF M
      <3>3. IsFiniteSet(M) /\ Cardinality(M) = Cardinality(A) + 1
        BY <1>8, <3>1, OneMore
      <3>4. Cardinality(T) = Cardinality(M) + 1
        BY <3>2, <3>3, OneMore
      <3> QED
        BY <1>8, <1>12, <2>3, <3>3, <3>4
    <2>4. CASE j # i /\ j \in Steps(u, i) /\ j # u
      <3>1. Right(a, j) \notin A /\ \A x : x \in T <=> x \in A \/ x = Right(a, j)
        BY <1>4, <1>5, <1>6, <1>7, <2>4
      <3>2. Cardinality(T) = Cardinality(A) + 1
        BY <1>8, <3>1, OneMore
      <3> QED
        BY <1>8, <1>12, <2>4, <3>2
    <2>5. CASE j # i /\ j \notin Steps(u, i)
      <3>1. j # u
        <4>1. u < i \/ u = i
          BY <1>2
        <4> QED
          BY <1>2, <1>3, <2>5, <4>1
      <3>2. \A x : x \in T <=> x \in A
        BY <1>5, <1>6, <1>7, <2>5, <3>1
      <3>3. T = A
        BY <3>2
      <3> QED
        BY <1>8, <1>12, <2>5, <3>3
    <2> QED
      BY <2>1, <2>2, <2>3, <2>4, <2>5
  <1>14. split_count(i, u)[j] \in Int /\ One(u)[j] \in Int
    BY <1>10, <1>12
  <1> QED
    BY <1>9, <1>11, <1>13, <1>14 DEF A, T, V, W

\* kfree's merges count the blocks they join, in the page of a and no other.
LEMMA MergeCounts ==
  ASSUME NEW h, NEW G, Tiled(h, G), NEW a \in Unit, NEW s0 \in Sizeno, NEW t \in Level,
         Joined(h, a, s0, t), NEW g, NEW b, b = Base(a, t), MergeOf(g, h, b, t), NEW j \in Sizeno
  PROVE  /\ merge_count(s0, t)[j] \in Int /\ Minus(One(s0))[j] \in Int
         /\ Cardinality(BlocksAt(g, page(a), j)) =
              Cardinality(BlocksAt(h, page(a), j)) + merge_count(s0, t)[j]
         /\ Cardinality(UsedIn(g, page(a), j)) =
              Cardinality(UsedIn(h, page(a), j)) + Minus(One(s0))[j]
         /\ \A p : p # page(a) => BlocksAt(g, p, j) = BlocksAt(h, p, j)
                                  /\ UsedIn(g, p, j) = UsedIn(h, p, j)
PROOF
  <1>1. h \in [Unit -> Hdr] /\ g \in [Unit -> Hdr] /\ s0 \in Level /\ s0 <= t
    BY JoinedSelf DEF Tiled, MergeOf
  <1>2. t \in Nat /\ j \in Nat /\ s0 \in Nat
    BY HeaderTypes
  <1>3. j \in Steps(s0, t) <=> s0 <= j /\ j < t
    BY <1>2 DEF Steps
  <1>4. b \in Unit /\ page(b) = page(a) /\ Base(b, t) = b
    BY BaseInPage DEF Aligned
  <1>5. ASSUME j \in Steps(s0, t)
        PROVE  /\ Buddy(a, j) \in Unit /\ page(Buddy(a, j)) = page(a)
               /\ FreeAt(h, Buddy(a, j), j)
    <2>1. j \in Level /\ j < t
      BY <1>5, LevelsBelow
    <2>2. h[Buddy(a, j)] = Header(FALSE, j)
      BY <1>5, JoinedBuddy
    <2> QED
      BY <2>1, <2>2, BuddyFacts DEF FreeAt
  <1>6. ~FreeAt(h, a, j) /\ (UsedAt(h, a, j) <=> j = s0)
    <2>1. h[a] = Header(TRUE, s0)
      BY DEF Joined
    <2> QED
      BY <2>1, SameHeader DEF FreeAt, UsedAt
  <1>7. \A x \in Unit : ~(FreeAt(h, x, j) /\ UsedAt(h, x, j))
    BY HeaderFields DEF FreeAt, UsedAt
  <1>8. ASSUME s0 < t, j = t PROVE ~FreeAt(h, b, j) /\ ~UsedAt(h, b, j)
    <2> SUFFICES ASSUME FreeAt(h, b, j) \/ UsedAt(h, b, j) PROVE FALSE
      OBVIOUS
    <2>1. b \in Heads(h) /\ h[b].sizeno = j
      BY <1>4, HeaderFields DEF FreeAt, UsedAt, Heads
    <2>2. Covers(h, b, b)
      BY <2>1, CoversSelf
    <2>3. b = a \/ \E k \in Steps(s0, t) : b = Buddy(a, k)
      BY <1>4, <2>2, MergedBlocks
    <2>4. b # a
      <3>1. h[a].sizeno = s0
        BY JoinedSelf
      <3> QED
        BY <1>2, <1>8, <2>1, <3>1
    <2>5. PICK k \in Steps(s0, t) : b = Buddy(a, k)
      BY <2>3, <2>4
    <2>6. k \in Sizeno /\ k < t /\ k \in Nat
      BY LevelsBelow
    <2>7. h[Buddy(a, k)] = Header(FALSE, k)
      BY JoinedBuddy
    <2>8. h[b].sizeno = k
      BY <2>5, <2>6, <2>7, HeaderFields
    <2> QED
      BY <1>2, <1>8, <2>1, <2>6, <2>8
  <1>9. ASSUME s0 = t PROVE b = a
    BY <1>9, JoinedSelf DEF Aligned
  <1>10. ASSUME NEW x \in Unit
         PROVE  /\ FreeAt(g, x, j) <=>
                     \/ x = b /\ j = t
                     \/ FreeAt(h, x, j) /\ ~(j \in Steps(s0, t) /\ x = Buddy(a, j))
                /\ UsedAt(g, x, j) <=> x # a /\ UsedAt(h, x, j)
    BY MergeHeaders
  <1> DEFINE p0 == page(a)
             A == BlocksAt(h, p0, j)
             T == BlocksAt(g, p0, j)
             V == UsedIn(h, p0, j)
             W == UsedIn(g, p0, j)
  <1>11. /\ \A x : x \in A <=> x \in Unit /\ page(x) = p0 /\ (FreeAt(h, x, j) \/ UsedAt(h, x, j))
         /\ \A x : x \in T <=> x \in Unit /\ page(x) = p0 /\ (FreeAt(g, x, j) \/ UsedAt(g, x, j))
         /\ \A x : x \in V <=> x \in Unit /\ page(x) = p0 /\ UsedAt(h, x, j)
         /\ \A x : x \in W <=> x \in Unit /\ page(x) = p0 /\ UsedAt(g, x, j)
    BY <1>1, BlockMembers
  <1>12. /\ IsFiniteSet(A) /\ IsFiniteSet(V) /\ Cardinality(A) \in Nat /\ Cardinality(V) \in Nat
    BY CountBound
  <1>13. \A p : p # p0 => BlocksAt(g, p, j) = BlocksAt(h, p, j) /\ UsedIn(g, p, j) = UsedIn(h, p, j)
    <2> SUFFICES ASSUME NEW p, p # p0
                 PROVE  BlocksAt(g, p, j) = BlocksAt(h, p, j) /\ UsedIn(g, p, j) = UsedIn(h, p, j)
      OBVIOUS
    <2>1. /\ \A x : x \in BlocksAt(h, p, j) <=> x \in Unit /\ page(x) = p /\ (FreeAt(h, x, j) \/ UsedAt(h, x, j))
          /\ \A x : x \in BlocksAt(g, p, j) <=> x \in Unit /\ page(x) = p /\ (FreeAt(g, x, j) \/ UsedAt(g, x, j))
          /\ \A x : x \in UsedIn(h, p, j) <=> x \in Unit /\ page(x) = p /\ UsedAt(h, x, j)
          /\ \A x : x \in UsedIn(g, p, j) <=> x \in Unit /\ page(x) = p /\ UsedAt(g, x, j)
      BY <1>1, BlockMembers
    <2>2. ASSUME NEW x \in Unit, page(x) = p
          PROVE  (FreeAt(g, x, j) <=> FreeAt(h, x, j)) /\ (UsedAt(g, x, j) <=> UsedAt(h, x, j))
      BY <1>4, <1>5, <1>10, <2>2
    <2> QED
      BY <2>1, <2>2
  <1> HIDE DEF A, T, V, W
  <1>14. Minus(One(s0))[j] = (IF j = s0 THEN -1 ELSE 0)
    BY DEF One, Minus
  <1>15. Cardinality(W) = Cardinality(V) + Minus(One(s0))[j]
    <2>1. CASE j = s0
      <3>1. a \in V /\ \A x : x \in W <=> x \in V /\ x # a
        BY <1>6, <1>10, <1>11, <2>1
      <3>2. Cardinality(W) = Cardinality(V) - 1
        BY <1>12, <3>1, OneLess
      <3> QED
        BY <1>12, <1>14, <2>1, <3>2
    <2>2. CASE j # s0
      <3>1. \A x : x \in W <=> x \in V
        BY <1>6, <1>10, <1>11, <2>2
      <3>2. W = V
        BY <3>1
      <3> QED
        BY <1>12, <1>14, <2>2, <3>2
    <2> QED
      BY <2>1, <2>2
  <1>16. merge_count(s0, t)[j] = (IF s0 = t THEN 0
                                  ELSE IF j \in Steps(s0, t) THEN (IF j = s0 THEN -2 ELSE -1)
                                  ELSE IF j = t THEN 1 ELSE 0)
    <2>1. merge_count(s0, t)[j] =
            CASE s0 = t -> 0
              [] s0 < t /\ j = s0 -> -2
              [] j \in s0 + 1 .. t - 1 -> -1
              [] s0 < t /\ j = t -> 1
              [] OTHER -> 0
      BY DEF merge_count
    <2>2. CASE s0 = t
      <3>1. ~(s0 < t) /\ ~(j \in s0 + 1 .. t - 1)
        BY <1>2, <2>2
      <3> QED
        BY <2>1, <2>2, <3>1
    <2>3. CASE s0 # t
      <3>1. s0 < t
        BY <1>1, <1>2, <2>3
      <3> QED
        BY <1>2, <1>3, <2>1, <2>3, <3>1
    <2> QED
      BY <2>2, <2>3
  <1>17. Cardinality(T) = Cardinality(A) + merge_count(s0, t)[j]
    <2>1. CASE s0 = t
      <3>1. j \notin Steps(s0, t) /\ b = a
        BY <1>2, <1>3, <1>9, <2>1
      <3>2. \A x \in Unit : FreeAt(g, x, j) \/ UsedAt(g, x, j) <=> FreeAt(h, x, j) \/ UsedAt(h, x, j)
        BY <1>6, <1>10, <2>1, <3>1
      <3>3. T = A
        BY <1>11, <3>2
      <3> QED
        BY <1>12, <1>16, <2>1, <3>3
    <2>2. CASE s0 # t /\ j \in Steps(s0, t) /\ j = s0
      <3> DEFINE M == A \ {a}
      <3>0. j # t
        BY <2>2
      <3>1. a \in A /\ \A x : x \in M <=> x \in A /\ x # a
        BY <1>6, <1>11, <2>2
      <3>2. Buddy(a, j) \in M
        BY <1>5, <1>6, <1>11, <2>2
      <3>3. \A x \in Unit : FreeAt(g, x, j) \/ UsedAt(g, x, j) <=>
              /\ FreeAt(h, x, j) \/ UsedAt(h, x, j)
              /\ x # a /\ x # Buddy(a, j)
        BY <1>5, <1>6, <1>7, <1>10, <2>2, <3>0
      <3>4. \A x : x \in T <=> x \in M /\ x # Buddy(a, j)
        BY <1>11, <3>1, <3>3
      <3> HIDE DEF M
      <3>5. IsFiniteSet(M) /\ Cardinality(M) = Cardinality(A) - 1
        BY <1>12, <3>1, OneLess
      <3>6. Cardinality(T) = Cardinality(M) - 1
        BY <3>2, <3>4, <3>5, OneLess
      <3> QED
        BY <1>12, <1>16, <2>2, <3>5, <3>6
    <2>3. CASE s0 # t /\ j \in Steps(s0, t) /\ j # s0
      <3>0. j # t
        BY <1>2, <1>3, <2>3
      <3>1. Buddy(a, j) \in A
        BY <1>5, <1>11, <2>3
      <3>2. \A x \in Unit : FreeAt(g, x, j) \/ UsedAt(g, x, j) <=>
              (FreeAt(h, x, j) \/ UsedAt(h, x, j)) /\ x # Buddy(a, j)
        BY <1>5, <1>6, <1>7, <1>10, <2>3, <3>0
      <3>3. \A x : x \in T <=> x \in A /\ x # Buddy(a, j)
        BY <1>11, <3>2
      <3>4. Cardinality(T) = Cardinality(A) - 1
        BY <1>12, <3>1, <3>3, OneLess
      <3> QED
        BY <1>12, <1>16, <2>3, <3>4
    <2>4. CASE s0 # t /\ j \notin Steps(s0, t) /\ j = t
      <3>0. s0 < t /\ j # s0
        BY <1>1, <1>2, <2>4
      <3>1. b \notin A
        BY <1>8, <1>11, <2>4, <3>0
      <3>2. \A x : x \in T <=> x \in A \/ x = b
        BY <1>4, <1>6, <1>10, <1>11, <2>4, <3>0
      <3>3. Cardinality(T) = Cardinality(A) + 1
        BY <1>12, <3>1, <3>2, OneMore
      <3> QED
        BY <1>12, <1>16, <2>4, <3>3
    <2>5. CASE s0 # t /\ j \notin Steps(s0, t) /\ j # t
      <3>0. j # s0
        <4>1. s0 < t
          BY <1>1, <1>2, <2>5
        <4> QED
          BY <1>2, <1>3, <2>5, <4>1
      <3>1. \A x : x \in T <=> x \in A
        BY <1>6, <1>10, <1>11, <2>5, <3>0
      <3>2. T = A
        BY <3>1
      <3> QED
        BY <1>12, <1>16, <2>5, <3>2
    <2> QED
      BY <2>1, <2>2, <2>3, <2>4, <2>5
  <1>18. merge_count(s0, t)[j] \in Int /\ Minus(One(s0))[j] \in Int
    BY <1>14, <1>16
  <1> QED
    BY <1>13, <1>15, <1>17, <1>18 DEF A, T, V, W

-----------------------------------------------------------------------------
(* Frames: the free list is threaded through the field that also counts    *)
(* references.                                                             *)

PmType ==
  [n : [Frame -> Int], free : [Frame -> BOOLEAN], begin : Int, end : Int, count : Int,
   bits : SUBSET Slot, pte : [Slot -> Frame \cup {NoFrame}], ok : BOOLEAN]

\* q is the list of free frames as the code would walk it.
FreeQueue(m, q) ==
  /\ q \in Seq(Frame) /\ IsInjective(q)
  /\ \A f : Contains(q, f) <=> f \in Frame /\ m.free[f]
  /\ m.count = Len(q)
  /\ q = <<>> => m.begin = NoFrame
  /\ q # <<>> => m.begin = q[1] /\ m.end = q[Len(q)]
  /\ \A k \in 1 .. Len(q) - 1 : m.n[q[k]] = q[k + 1]

\* The counts of frames that users map w[f] times or that a slot maps
Referred(m, w) ==
  /\ \A f \in Frame : m.free[f] <=> w[f] = 0 /\ \A s \in Slot : m.pte[s] # f
  /\ \A f \in Frame : w[f] # 0 => m.n[f] = w[f] /\ \A s \in Slot : m.pte[s] # f
  /\ \A s \in Slot : m.pte[s] # NoFrame => m.n[m.pte[s]] = 1
  /\ \A s, r \in Slot : m.pte[s] # NoFrame /\ m.pte[s] = m.pte[r] => s = r

FrameInv(m, w) ==
  /\ m \in PmType /\ w \in [Frame -> 0 .. MaxMaps] /\ m.ok
  /\ \E q : FreeQueue(m, q)
  /\ Referred(m, w)
  /\ \A s \in Slot : s \in m.bits <=> m.pte[s] # NoFrame

LEMMA FrameNat == Frame \subseteq Nat /\ NoFrame \notin Frame /\ NoFrame = 0 /\ Slot \subseteq Nat
  BY DEF Frame, NoFrame, Slot

LEMMA QueueDomain ==
  ASSUME NEW q \in Seq(Frame)
  PROVE  /\ Len(q) \in Nat /\ DOMAIN q = 1 .. Len(q) /\ (q = <<>> <=> Len(q) = 0)
         /\ \A k \in 1 .. Len(q) : q[k] \in Frame
         /\ \A f : Contains(q, f) <=> \E k \in 1 .. Len(q) : q[k] = f
  BY DEF Contains

\* The fields after page_alloc and refcount_inc of the frame it returns
Taken(r, m, f) ==
  /\ r \in PmType
  /\ r.n[f] = 1 /\ r.free[f] = FALSE
  /\ \A e \in Frame : e # f => r.n[e] = m.n[e] /\ r.free[e] = m.free[e]
  /\ r.begin = IF m.end = f THEN NoFrame ELSE m.n[f]
  /\ r.end = IF m.end = f THEN NoFrame ELSE m.end
  /\ r.count = m.count - 1 /\ r.bits = m.bits /\ r.pte = m.pte
  /\ r.ok = (m.ok /\ m.free[f])

\* and after refcount_dec of the last reference
Put(r, m, f) ==
  /\ r \in PmType /\ r.free[f] = TRUE
  /\ \A e \in Frame : e # f => r.free[e] = m.free[e]
  /\ \A e \in Frame : e # f /\ (m.begin = NoFrame \/ e # m.end) => r.n[e] = m.n[e]
  /\ m.begin # NoFrame => r.n[m.end] = f /\ r.begin = m.begin
  /\ m.begin = NoFrame => r.begin = f
  /\ r.end = f /\ r.count = m.count + 1 /\ r.bits = m.bits /\ r.pte = m.pte /\ r.ok = m.ok

\* and after a change of the count of f to k
Counted(r, m, f, k) ==
  /\ r \in PmType /\ r.n[f] = k
  /\ \A e \in Frame : e # f => r.n[e] = m.n[e]
  /\ r.free = m.free /\ r.begin = m.begin /\ r.end = m.end /\ r.count = m.count
  /\ r.bits = m.bits /\ r.pte = m.pte /\ r.ok = m.ok

LEMMA TakeFields ==
  ASSUME NEW m \in PmType, NEW f \in Frame, m.begin = f
  PROVE  Taken(refcount_inc(page_alloc(m), f), m, f)
PROOF
  <1>0. PICK r : r = refcount_inc(page_alloc(m), f)
    OBVIOUS
  <1>1. PICK c : c = getFirst(m)
    OBVIOUS
  <1>2. /\ c \in PmType
        /\ c.n[f] = 0 /\ \A e \in Frame : e # f => c.n[e] = m.n[e]
        /\ c.free = m.free
        /\ c.begin = IF m.end = f THEN NoFrame ELSE m.n[f]
        /\ c.end = IF m.end = f THEN NoFrame ELSE m.end
        /\ c.count = m.count - 1 /\ c.bits = m.bits /\ c.pte = m.pte /\ c.ok = m.ok
    <2>1. PICK bb \in Int : bb = IF m.end = f THEN NoFrame ELSE m.n[f]
      BY DEF PmType, NoFrame
    <2>2. PICK ee \in Int : ee = IF m.end = f THEN NoFrame ELSE m.end
      BY DEF PmType, NoFrame
    <2>3. c = [m EXCEPT !.begin = bb, !.end = ee, !.n[f] = 0, !.count = @ - 1]
      BY <1>1, <2>1, <2>2 DEF getFirst
    <2>4. c = [n |-> [m.n EXCEPT ![f] = 0], free |-> m.free, begin |-> bb, end |-> ee,
               count |-> m.count - 1, bits |-> m.bits, pte |-> m.pte, ok |-> m.ok]
      BY <2>3 DEF PmType
    <2>5. m.n \in [Frame -> Int] /\ [m.n EXCEPT ![f] = 0] \in [Frame -> Int]
      BY DEF PmType
    <2>6. c \in PmType
      BY <2>4, <2>5 DEF PmType
    <2> QED
      BY <2>1, <2>2, <2>4, <2>5, <2>6
  <1>3. PICK d : d = page_alloc(m)
    OBVIOUS
  <1>4. d = [c EXCEPT !.free[f] = FALSE, !.ok = @ /\ m.free[f]]
    BY <1>1, <1>3 DEF page_alloc
  <1>5. /\ d \in PmType /\ d.n = c.n /\ d.free = [c.free EXCEPT ![f] = FALSE]
        /\ d.begin = c.begin /\ d.end = c.end /\ d.count = c.count /\ d.bits = c.bits
        /\ d.pte = c.pte /\ d.ok = (m.ok /\ m.free[f])
    BY <1>2, <1>4 DEF PmType
  <1>6. /\ r = [d EXCEPT !.n[f] = (@ + 1) % 2^20, !.ok = @ /\ ~d.free[f]]
    BY <1>0, <1>3 DEF refcount_inc
  <1>7. (d.n[f] + 1) % 2^20 = 1 /\ d.free[f] = FALSE
    BY <1>2, <1>5 DEF PmType
  <1>8. /\ r \in PmType /\ r.n = [d.n EXCEPT ![f] = 1] /\ r.free = d.free
        /\ r.begin = d.begin /\ r.end = d.end /\ r.count = d.count /\ r.bits = d.bits
        /\ r.pte = d.pte /\ r.ok = d.ok
    <2>1. r = [n |-> [d.n EXCEPT ![f] = 1], free |-> d.free, begin |-> d.begin, end |-> d.end,
               count |-> d.count, bits |-> d.bits, pte |-> d.pte, ok |-> d.ok]
      <3>1. d \in PmType
        BY <1>5
      <3>2. d.ok \in BOOLEAN /\ (d.ok /\ ~d.free[f]) = d.ok
        BY <1>7, <3>1 DEF PmType
      <3>3. r = [d EXCEPT !.n[f] = 1, !.ok = d.ok]
        BY <1>6, <1>7, <3>2
      <3> QED
        BY <3>1, <3>3 DEF PmType
    <2>2. /\ [d.n EXCEPT ![f] = 1] \in [Frame -> Int] /\ d.free \in [Frame -> BOOLEAN]
          /\ d.begin \in Int /\ d.end \in Int /\ d.count \in Int /\ d.bits \in SUBSET Slot
          /\ d.pte \in [Slot -> Frame \cup {NoFrame}] /\ d.ok \in BOOLEAN
      <3>1. d \in PmType
        BY <1>5
      <3> QED
        BY <3>1 DEF PmType
    <2>3. r \in PmType
      BY <2>1, <2>2 DEF PmType
    <2> QED
      BY <2>1, <2>3
  <1>9. c.n \in [Frame -> Int] /\ c.free \in [Frame -> BOOLEAN]
    BY <1>2 DEF PmType
  <1>10. Taken(r, m, f)
    BY <1>2, <1>5, <1>8, <1>9 DEF Taken
  <1> QED
    BY <1>0, <1>10

\* refcount_dec of a frame with other references, and of the last one
LEMMA DropFields ==
  ASSUME NEW m \in PmType, NEW f \in Frame, m.n[f] \in 2 .. 2^20 - 1, ~m.free[f]
  PROVE  Counted(refcount_dec(m, f), m, f, m.n[f] - 1)
PROOF
  <1>0. PICK r : r = refcount_dec(m, f)
    OBVIOUS
  <1>1. (m.n[f] - 1) % 2^20 = m.n[f] - 1 /\ m.n[f] - 1 # 0 /\ m.n[f] - 1 \in Int
    OBVIOUS
  <1>2. PICK c : c = [m EXCEPT !.n[f] = (@ - 1) % 2^20, !.ok = @ /\ ~m.free[f]]
    OBVIOUS
  <1>3. c = [m EXCEPT !.n[f] = m.n[f] - 1] /\ c \in PmType /\ c.n[f] = m.n[f] - 1
    BY <1>1, <1>2 DEF PmType
  <1>4. r = IF c.n[f] = 0 THEN page_free(c, f) ELSE c
    BY <1>0, <1>2 DEF refcount_dec
  <1>5. r = c
    BY <1>1, <1>3, <1>4
  <1>6. Counted(c, m, f, m.n[f] - 1)
    BY <1>3 DEF Counted, PmType
  <1> QED
    BY <1>0, <1>5, <1>6

LEMMA AddFields ==
  ASSUME NEW m \in PmType, NEW f \in Frame, m.n[f] \in 1 .. 2^20 - 2, ~m.free[f]
  PROVE  Counted(refcount_inc(m, f), m, f, m.n[f] + 1)
PROOF
  <1>1. (m.n[f] + 1) % 2^20 = m.n[f] + 1 /\ m.n[f] + 1 \in Int
    OBVIOUS
  <1>2. PICK c : c = refcount_inc(m, f)
    OBVIOUS
  <1>3. c = [m EXCEPT !.n[f] = m.n[f] + 1] /\ c \in PmType
    BY <1>1, <1>2 DEF PmType, refcount_inc
  <1>4. Counted(c, m, f, m.n[f] + 1)
    BY <1>3 DEF Counted, PmType
  <1> QED
    BY <1>2, <1>4

LEMMA LastFields ==
  ASSUME NEW m \in PmType, NEW f \in Frame, m.n[f] = 1, ~m.free[f],
         m.begin # NoFrame => m.end \in Frame /\ m.end # f
  PROVE  Put(refcount_dec(m, f), m, f)
PROOF
  <1>0. PICK r : r = refcount_dec(m, f)
    OBVIOUS
  <1>1. (m.n[f] - 1) % 2^20 = 0 /\ m.ok \in BOOLEAN
    BY DEF PmType
  <1>2. PICK c : c = [m EXCEPT !.n[f] = (@ - 1) % 2^20, !.ok = @ /\ ~m.free[f]]
    OBVIOUS
  <1>3. /\ c \in PmType /\ c.n[f] = 0 /\ c.free = m.free /\ c.begin = m.begin /\ c.end = m.end
        /\ c.count = m.count /\ c.bits = m.bits /\ c.pte = m.pte /\ c.ok = m.ok
        /\ \A e \in Frame : e # f => c.n[e] = m.n[e]
    <2>1. c = [n |-> [m.n EXCEPT ![f] = 0], free |-> m.free, begin |-> m.begin, end |-> m.end,
               count |-> m.count, bits |-> m.bits, pte |-> m.pte, ok |-> m.ok]
      BY <1>1, <1>2 DEF PmType
    <2>2. m.n \in [Frame -> Int] /\ [m.n EXCEPT ![f] = 0] \in [Frame -> Int]
      BY DEF PmType
    <2>3. c \in PmType
      BY <2>1, <2>2 DEF PmType
    <2> QED
      BY <2>1, <2>2, <2>3
  <1>4. r = page_free(c, f)
    BY <1>0, <1>2, <1>3 DEF refcount_dec
  <1>5. PICK d : d = [c EXCEPT !.free[f] = TRUE, !.ok = @ /\ ~c.free[f] /\ c.n[f] = 0]
    OBVIOUS
  <1>6. /\ d \in PmType /\ d.free = [m.free EXCEPT ![f] = TRUE] /\ d.n = c.n /\ d.begin = m.begin
        /\ d.end = m.end /\ d.count = m.count /\ d.bits = m.bits /\ d.pte = m.pte /\ d.ok = m.ok
    BY <1>1, <1>3, <1>5 DEF PmType
  <1>7. r = insert(d, f)
    BY <1>4, <1>5 DEF page_free
  <1>8. PICK i : i = [d EXCEPT !.n[f] = 0, !.count = @ + 1, !.end = f]
    OBVIOUS
  <1>9. f \in Int
    BY FrameNat
  <1>10. /\ i \in PmType /\ i.n = [d.n EXCEPT ![f] = 0] /\ i.free = d.free /\ i.begin = d.begin
         /\ i.end = f /\ i.count = d.count + 1 /\ i.bits = d.bits /\ i.pte = d.pte /\ i.ok = d.ok
    <2>1. i = [n |-> [d.n EXCEPT ![f] = 0], free |-> d.free, begin |-> d.begin, end |-> f,
               count |-> d.count + 1, bits |-> d.bits, pte |-> d.pte, ok |-> d.ok]
      BY <1>6, <1>8 DEF PmType
    <2>2. [d.n EXCEPT ![f] = 0] \in [Frame -> Int]
      BY <1>6 DEF PmType
    <2>3. i \in PmType
      BY <1>6, <1>9, <2>1, <2>2 DEF PmType
    <2> QED
      BY <2>1, <2>3
  <1>11. r = IF d.begin # NoFrame THEN [i EXCEPT !.n[d.end] = f] ELSE [i EXCEPT !.begin = f]
    BY <1>7, <1>8 DEF insert
  <1>12. ASSUME m.begin # NoFrame PROVE Put(r, m, f)
    <2>1. r = [i EXCEPT !.n[m.end] = f]
      BY <1>6, <1>11, <1>12
    <2>2. /\ r \in PmType /\ r.n = [i.n EXCEPT ![m.end] = f] /\ r.free = i.free /\ r.begin = i.begin
          /\ r.end = f /\ r.count = i.count /\ r.bits = i.bits /\ r.pte = i.pte /\ r.ok = i.ok
      BY <1>9, <1>10, <1>12, <2>1 DEF PmType
    <2>3. d.n \in [Frame -> Int] /\ m.free \in [Frame -> BOOLEAN]
      BY <1>6 DEF PmType
    <2>4. /\ r \in PmType /\ r.free[f] = TRUE
          /\ \A e \in Frame : e # f => r.free[e] = m.free[e]
          /\ \A e \in Frame : e # f /\ (m.begin = NoFrame \/ e # m.end) => r.n[e] = m.n[e]
          /\ m.begin # NoFrame => r.n[m.end] = f /\ r.begin = m.begin
          /\ m.begin = NoFrame => r.begin = f
          /\ r.end = f /\ r.count = m.count + 1 /\ r.bits = m.bits /\ r.pte = m.pte /\ r.ok = m.ok
      BY <1>3, <1>6, <1>10, <1>12, <2>2, <2>3
    <2> QED
      BY <2>4 DEF Put
  <1>13. ASSUME m.begin = NoFrame PROVE Put(r, m, f)
    <2>1. r = [i EXCEPT !.begin = f]
      BY <1>6, <1>11, <1>13
    <2>2. /\ r \in PmType /\ r.n = i.n /\ r.free = i.free /\ r.begin = f
          /\ r.end = f /\ r.count = i.count /\ r.bits = i.bits /\ r.pte = i.pte /\ r.ok = i.ok
      BY <1>9, <1>10, <2>1 DEF PmType
    <2>3. d.n \in [Frame -> Int] /\ m.free \in [Frame -> BOOLEAN]
      BY <1>6 DEF PmType
    <2>4. /\ r \in PmType /\ r.free[f] = TRUE
          /\ \A e \in Frame : e # f => r.free[e] = m.free[e]
          /\ \A e \in Frame : e # f /\ (m.begin = NoFrame \/ e # m.end) => r.n[e] = m.n[e]
          /\ m.begin # NoFrame => r.n[m.end] = f /\ r.begin = m.begin
          /\ m.begin = NoFrame => r.begin = f
          /\ r.end = f /\ r.count = m.count + 1 /\ r.bits = m.bits /\ r.pte = m.pte /\ r.ok = m.ok
      BY <1>3, <1>6, <1>10, <1>13, <2>2, <2>3
    <2> QED
      BY <2>4 DEF Put
  <1> QED
    BY <1>0, <1>12, <1>13

\* page_alloc takes the first frame of the list.
LEMMA TakeQueue ==
  ASSUME NEW m \in PmType, NEW q, FreeQueue(m, q), m.begin # NoFrame,
         NEW f, f = m.begin, NEW r, f \in Frame => Taken(r, m, f)
  PROVE  f \in Frame /\ m.free[f] /\ FreeQueue(r, Tail(q))
PROOF
  <1>1. q \in Seq(Frame) /\ IsInjective(q) /\ q # <<>>
    BY DEF FreeQueue
  <1>2. /\ Len(q) \in Nat /\ DOMAIN q = 1 .. Len(q) /\ Len(q) # 0
        /\ \A k \in 1 .. Len(q) : q[k] \in Frame /\ Contains(q, q[k])
    BY <1>1, QueueDomain
  <1>3. f = q[1] /\ m.end = q[Len(q)] /\ f = Head(q) /\ f \in Frame /\ m.free[f]
    <2>1. f = q[1] /\ m.end = q[Len(q)]
      BY <1>1 DEF FreeQueue
    <2>2. 1 \in 1 .. Len(q)
      BY <1>2
    <2>3. f \in Frame /\ Contains(q, f)
      BY <1>2, <2>1, <2>2
    <2>4. f = Head(q)
      BY <1>1, <2>1
    <2> QED
      BY <2>1, <2>3, <2>4 DEF FreeQueue
  <1>4. PICK t : t = Tail(q)
    OBVIOUS
  <1>5. /\ t \in Seq(Frame) /\ IsInjective(t) /\ Len(t) = Len(q) - 1
        /\ \A k \in 1 .. Len(q) - 1 : t[k] = q[k + 1]
        /\ \A e : Contains(t, e) <=> Contains(q, e) /\ e # f
    <2>1. Len(Tail(q)) = Len(q) - 1 /\ \A k \in 1 .. Len(q) - 1 : Tail(q)[k] = q[k + 1]
      BY <1>1, HeadTailProperties
    <2> QED
      BY <1>1, <1>3, <1>4, <2>1, TailList, TailContains
  <1>6. \A k, l \in 1 .. Len(q) : q[k] = q[l] => k = l
    BY <1>1, <1>2 DEF IsInjective
  <1>7. /\ \A e \in Frame : e # f => r.n[e] = m.n[e] /\ r.free[e] = m.free[e]
        /\ r.free[f] = FALSE
        /\ r.begin = IF m.end = f THEN NoFrame ELSE m.n[f]
        /\ r.end = IF m.end = f THEN NoFrame ELSE m.end
        /\ r.count = m.count - 1
    BY <1>3 DEF Taken
  <1>8. \A e : Contains(t, e) <=> e \in Frame /\ r.free[e]
    <2>1. \A e : Contains(q, e) <=> e \in Frame /\ m.free[e]
      BY DEF FreeQueue
    <2> QED
      BY <1>5, <1>7, <2>1
  <1>9. r.count = Len(t)
    BY <1>5, <1>7 DEF FreeQueue
  <1>10. t = <<>> => r.begin = NoFrame
    <2>1. ASSUME t = <<>> PROVE Len(q) = 1
      <3>1. Len(t) = 0
        BY <2>1
      <3>2. Len(t) = Len(q) - 1 /\ Len(q) \in Nat
        BY <1>2, <1>5
      <3> QED
        BY <3>1, <3>2
    <2> QED
      BY <1>3, <1>7, <2>1
  <1>11. ASSUME t # <<>> PROVE r.begin = t[1] /\ r.end = t[Len(t)]
    <2>1. Len(q) >= 2
      <3>1. Len(t) # 0
        BY <1>5, <1>11
      <3> QED
        BY <1>2, <1>5, <3>1
    <2>2. m.end # f
      BY <1>2, <1>3, <1>6, <2>1
    <2>3. m.n[q[1]] = q[1 + 1]
      <3>1. 1 \in 1 .. Len(q) - 1
        BY <1>2, <2>1
      <3> QED
        BY <3>1 DEF FreeQueue
    <2>4. t[1] = q[1 + 1] /\ t[Len(t)] = q[Len(q)]
      <3>1. 1 \in 1 .. Len(q) - 1 /\ Len(q) - 1 \in 1 .. Len(q) - 1 /\ (Len(q) - 1) + 1 = Len(q)
        BY <1>2, <2>1
      <3> QED
        BY <1>5, <3>1
    <2> QED
      BY <1>3, <1>7, <2>2, <2>3, <2>4
  <1>12. ASSUME NEW k \in 1 .. Len(t) - 1 PROVE r.n[t[k]] = t[k + 1]
    <2>1. /\ k \in 1 .. Len(q) - 1 /\ k + 1 \in 1 .. Len(q) - 1 /\ k + 1 \in 1 .. Len(q)
          /\ 1 \in 1 .. Len(q) /\ k + 1 # 1
      BY <1>2, <1>5
    <2>2. t[k] = q[k + 1] /\ t[k + 1] = q[(k + 1) + 1]
      BY <1>5, <2>1
    <2>3. q[k + 1] # f /\ q[k + 1] \in Frame
      BY <1>2, <1>3, <1>6, <2>1
    <2>4. m.n[q[k + 1]] = q[(k + 1) + 1]
      BY <2>1 DEF FreeQueue
    <2> QED
      BY <1>7, <2>2, <2>3, <2>4
  <1> QED
    BY <1>3, <1>4, <1>5, <1>8, <1>9, <1>10, <1>11, <1>12 DEF FreeQueue

\* page_free adds a frame to the end.
LEMMA PutQueue ==
  ASSUME NEW m \in PmType, NEW q, FreeQueue(m, q), NEW f \in Frame, m.n[f] = 1, ~m.free[f],
         NEW r, Put(r, m, f)
  PROVE  FreeQueue(r, Append(q, f))
PROOF
  <1>1. q \in Seq(Frame) /\ IsInjective(q) /\ \A e : Contains(q, e) <=> e \in Frame /\ m.free[e]
    BY DEF FreeQueue
  <1>2. /\ Len(q) \in Nat /\ DOMAIN q = 1 .. Len(q) /\ (q = <<>> <=> Len(q) = 0)
        /\ \A k \in 1 .. Len(q) : q[k] \in Frame /\ Contains(q, q[k])
    BY <1>1, QueueDomain
  <1>3. q # <<>> <=> m.begin # NoFrame
    <2>1. ASSUME q # <<>> PROVE m.begin # NoFrame
      <3>1. m.begin = q[1] /\ 1 \in 1 .. Len(q)
        BY <1>2, <2>1 DEF FreeQueue
      <3> QED
        BY <1>2, <3>1, FrameNat
    <2> QED
      BY <2>1 DEF FreeQueue
  <1>4. ASSUME m.begin # NoFrame
        PROVE  m.end = q[Len(q)] /\ m.begin = q[1] /\ m.end \in Frame /\ m.end # f /\ Len(q) \in 1 .. Len(q)
    <2>1. m.end = q[Len(q)] /\ m.begin = q[1]
      BY <1>3, <1>4 DEF FreeQueue
    <2>2. Len(q) \in 1 .. Len(q)
      BY <1>2, <1>3, <1>4
    <2>3. q[Len(q)] \in Frame /\ Contains(q, q[Len(q)])
      BY <1>2, <2>2
    <2>4. m.free[q[Len(q)]]
      BY <1>1, <2>3
    <2> QED
      BY <2>1, <2>2, <2>3, <2>4
  <1>5. /\ r.free[f] = TRUE
        /\ \A e \in Frame : e # f => r.free[e] = m.free[e]
        /\ \A e \in Frame : e # f /\ (m.begin = NoFrame \/ e # m.end) => r.n[e] = m.n[e]
        /\ m.begin # NoFrame => r.n[m.end] = f /\ r.begin = m.begin
        /\ m.begin = NoFrame => r.begin = f
        /\ r.end = f /\ r.count = m.count + 1
    BY DEF Put
  <1>6. PICK t : t = Append(q, f)
    OBVIOUS
  <1>7. /\ t \in Seq(Frame) /\ IsInjective(t) /\ \A e : Contains(t, e) <=> Contains(q, e) \/ e = f
        /\ Len(t) = Len(q) + 1 /\ t[Len(q) + 1] = f /\ \A k \in 1 .. Len(q) : t[k] = q[k]
    <2>1. ~Contains(q, f)
      BY <1>1
    <2>2. Len(t) = Len(q) + 1 /\ t[Len(q) + 1] = f /\ \A k \in 1 .. Len(q) : t[k] = q[k]
      BY <1>1, <1>6, AppendProperties
    <2> QED
      BY <1>1, <1>6, <2>1, <2>2, AppendList
  <1>8. \A e : Contains(t, e) <=> e \in Frame /\ r.free[e]
    BY <1>1, <1>5, <1>7
  <1>9. r.count = Len(t)
    BY <1>5, <1>7 DEF FreeQueue
  <1>10. r.begin = t[1] /\ r.end = t[Len(t)] /\ t # <<>>
    <2>1. CASE m.begin = NoFrame
      <3>1. Len(q) = 0
        BY <1>2, <1>3, <2>1
      <3>2. t[1] = f /\ Len(t) = 1 /\ t # <<>>
        <4>1. Len(t) = Len(q) + 1 /\ t[Len(q) + 1] = f
          BY <1>7
        <4>2. Len(t) = 1 /\ t[1] = f
          BY <3>1, <4>1
        <4>3. t = <<>> <=> Len(t) = 0
          BY <1>7, QueueDomain
        <4> QED
          BY <4>2, <4>3
      <3> QED
        BY <1>5, <2>1, <3>2
    <2>2. CASE m.begin # NoFrame
      <3>1. t[1] = q[1]
        <4>1. 1 \in 1 .. Len(q)
          BY <1>2, <1>3, <2>2
        <4> QED
          BY <1>7, <4>1
      <3>2. t # <<>>
        BY <1>2, <1>7
      <3> QED
        BY <1>4, <1>5, <1>7, <2>2, <3>1, <3>2
    <2> QED
      BY <2>1, <2>2
  <1>11. ASSUME NEW k \in 1 .. Len(t) - 1 PROVE r.n[t[k]] = t[k + 1]
    <2>1. k \in 1 .. Len(q) /\ t[k] = q[k] /\ q[k] \in Frame /\ q[k] # f /\ m.begin # NoFrame
      <3>1. k \in 1 .. Len(q)
        BY <1>2, <1>7
      <3>2. t[k] = q[k] /\ q[k] \in Frame /\ m.free[q[k]]
        BY <1>1, <1>2, <1>7, <3>1
      <3>3. q # <<>>
        BY <1>2, <3>1
      <3> QED
        BY <1>3, <3>1, <3>2, <3>3
    <2>2. CASE k = Len(q)
      BY <1>4, <1>5, <1>7, <2>1, <2>2
    <2>3. CASE k # Len(q)
      <3>1. k \in 1 .. Len(q) - 1 /\ k + 1 \in 1 .. Len(q)
        BY <1>2, <2>1, <2>3
      <3>2. m.n[q[k]] = q[k + 1]
        BY <3>1, SMTT(30) DEF FreeQueue
      <3>3. q[k] # m.end
        BY <1>1, <1>2, <1>4, <2>1, <2>3 DEF IsInjective
      <3> QED
        BY <1>5, <1>7, <2>1, <3>1, <3>2, <3>3
    <2> QED
      BY <2>2, <2>3
  <1>12. FreeQueue(r, t)
    BY <1>7, <1>8, <1>9, <1>10, <1>11 DEF FreeQueue
  <1> QED
    BY <1>6, <1>12

\* The end of the list is a free frame.
LEMMA QueueEnd ==
  ASSUME NEW m, NEW q, FreeQueue(m, q), m.begin # NoFrame
  PROVE  m.end \in Frame /\ m.free[m.end]
PROOF
  <1>1. q \in Seq(Frame) /\ q # <<>> /\ m.end = q[Len(q)]
        /\ \A e : Contains(q, e) <=> e \in Frame /\ m.free[e]
    BY DEF FreeQueue
  <1>2. Len(q) \in 1 .. Len(q) /\ \A k \in 1 .. Len(q) : q[k] \in Frame /\ Contains(q, q[k])
    BY <1>1, QueueDomain
  <1> QED
    BY <1>1, <1>2

\* A count of a frame that is not free may change.
LEMMA SameQueue ==
  ASSUME NEW m, NEW q, FreeQueue(m, q), NEW f \in Frame, ~m.free[f], NEW r,
         r.free = m.free, r.begin = m.begin, r.end = m.end, r.count = m.count,
         \A e \in Frame : e # f => r.n[e] = m.n[e]
  PROVE  FreeQueue(r, q)
PROOF
  <1>1. q \in Seq(Frame) /\ \A e : Contains(q, e) <=> e \in Frame /\ m.free[e]
    BY DEF FreeQueue
  <1>2. \A k \in 1 .. Len(q) : q[k] \in Frame /\ Contains(q, q[k])
    BY <1>1, QueueDomain
  <1>3. Len(q) \in Nat
    BY <1>1
  <1>4. ASSUME NEW k \in 1 .. Len(q) - 1 PROVE r.n[q[k]] = q[k + 1]
    <2>1. k \in 1 .. Len(q)
      BY <1>3
    <2>2. q[k] \in Frame /\ q[k] # f
      BY <1>1, <1>2, <2>1
    <2>3. m.n[q[k]] = q[k + 1]
      BY DEF FreeQueue
    <2> QED
      BY <2>2, <2>3
  <1> QED
    BY <1>4 DEF FreeQueue

\* What FrameInv says of a slot and of a frame
LEMMA SlotFrame ==
  ASSUME NEW m, NEW w, FrameInv(m, w), NEW s \in Slot, m.pte[s] # NoFrame
  PROVE  m.pte[s] \in Frame /\ m.n[m.pte[s]] = 1 /\ ~m.free[m.pte[s]] /\ w[m.pte[s]] = 0
PROOF
  <1>1. m.pte \in [Slot -> Frame \cup {NoFrame}] /\ w \in [Frame -> 0 .. MaxMaps]
    BY DEF FrameInv, PmType
  <1>2. m.pte[s] \in Frame
    BY <1>1
  <1>3. PICK f \in Frame : f = m.pte[s]
    BY <1>2
  <1>4. m.n[f] = 1 /\ ~m.free[f] /\ w[f] = 0
    BY <1>3 DEF FrameInv, Referred
  <1> QED
    BY <1>3, <1>4

\* page_alloc and refcount_inc of the first free frame
LEMMA TakeInv ==
  ASSUME NEW m, NEW w, FrameInv(m, w), m.begin # NoFrame
  PROVE  /\ m.begin \in Frame /\ w[m.begin] = 0 /\ \A s \in Slot : m.pte[s] # m.begin
         /\ m.free[m.begin] /\ m.ok
         /\ Taken(refcount_inc(page_alloc(m), m.begin), m, m.begin)
         /\ \E q : FreeQueue(refcount_inc(page_alloc(m), m.begin), q)
PROOF
  <1>1. m \in PmType /\ m.ok
    BY DEF FrameInv
  <1>2. PICK q : FreeQueue(m, q)
    BY DEF FrameInv
  <1>3. PICK f : f = m.begin
    OBVIOUS
  <1>4. PICK r : r = refcount_inc(page_alloc(m), f)
    OBVIOUS
  <1>5. f \in Frame => Taken(r, m, f)
    BY <1>1, <1>3, <1>4, TakeFields
  <1>6. f \in Frame /\ m.free[f] /\ FreeQueue(r, Tail(q))
    BY <1>1, <1>2, <1>3, <1>5, TakeQueue
  <1>7. w[f] = 0 /\ \A s \in Slot : m.pte[s] # f
    BY <1>6 DEF FrameInv, Referred
  <1> QED
    BY <1>1, <1>3, <1>4, <1>5, <1>6, <1>7

\* page_alloc_insert
LEMMA InsertInv ==
  ASSUME NEW m, NEW w, FrameInv(m, w), m.begin # NoFrame
  PROVE  FrameInv(refcount_inc(page_alloc(m), m.begin), [w EXCEPT ![m.begin] = 1])
PROOF
  <1>1. PICK f : f = m.begin
    OBVIOUS
  <1>2. PICK r : r = refcount_inc(page_alloc(m), f)
    OBVIOUS
  <1>3. /\ f \in Frame /\ w[f] = 0 /\ \A s \in Slot : m.pte[s] # f
        /\ m.free[f] /\ m.ok /\ Taken(r, m, f) /\ \E q : FreeQueue(r, q)
    BY <1>1, <1>2, TakeInv
  <1>4. PICK v : v = [w EXCEPT ![f] = 1]
    OBVIOUS
  <1>5. w \in [Frame -> 0 .. MaxMaps] /\ 1 \in 0 .. MaxMaps
    BY KmallocAssumption DEF FrameInv
  <1>6. v \in [Frame -> 0 .. MaxMaps] /\ v[f] = 1 /\ \A e \in Frame : e # f => v[e] = w[e]
    BY <1>3, <1>4, <1>5
  <1>7. /\ r \in PmType /\ r.free[f] = FALSE /\ r.n[f] = 1 /\ r.pte = m.pte /\ r.bits = m.bits
        /\ \A e \in Frame : e # f => r.n[e] = m.n[e] /\ r.free[e] = m.free[e]
        /\ r.ok = (m.ok /\ m.free[f])
    BY <1>3 DEF Taken
  <1>8. Referred(r, v)
    <2>1. ASSUME NEW e \in Frame
          PROVE  /\ r.free[e] <=> v[e] = 0 /\ \A s \in Slot : r.pte[s] # e
                 /\ v[e] # 0 => r.n[e] = v[e] /\ \A s \in Slot : r.pte[s] # e
      <3>1. CASE e = f
        BY <1>3, <1>6, <1>7, <3>1
      <3>2. CASE e # f
        <4>1. /\ m.free[e] <=> w[e] = 0 /\ \A s \in Slot : m.pte[s] # e
              /\ w[e] # 0 => m.n[e] = w[e] /\ \A s \in Slot : m.pte[s] # e
          BY DEF FrameInv, Referred
        <4>2. r.n[e] = m.n[e] /\ r.free[e] = m.free[e] /\ v[e] = w[e]
          BY <1>6, <1>7, <3>2
        <4> QED
          BY <1>7, <4>1, <4>2
      <3> QED
        BY <3>1, <3>2
    <2>2. ASSUME NEW s \in Slot, r.pte[s] # NoFrame PROVE r.n[r.pte[s]] = 1
      <3>1. m.pte[s] \in Frame /\ m.n[m.pte[s]] = 1 /\ m.pte[s] # f
        BY <1>3, <1>7, <2>2, SlotFrame
      <3> QED
        BY <1>7, <3>1
    <2>3. \A s, z \in Slot : r.pte[s] # NoFrame /\ r.pte[s] = r.pte[z] => s = z
      BY <1>7 DEF FrameInv, Referred
    <2> QED
      BY <2>1, <2>2, <2>3 DEF Referred
  <1>9. \A s \in Slot : s \in r.bits <=> r.pte[s] # NoFrame
    BY <1>7 DEF FrameInv
  <1>10. FrameInv(r, v)
    BY <1>3, <1>6, <1>7, <1>8, <1>9 DEF FrameInv
  <1> QED
    BY <1>1, <1>2, <1>4, <1>10

\* A change of the count of a frame that users map
LEMMA CountedInv ==
  ASSUME NEW m, NEW w, FrameInv(m, w), NEW f \in Frame, w[f] # 0, NEW k \in 1 .. MaxMaps,
         NEW r, Counted(r, m, f, k)
  PROVE  FrameInv(r, [w EXCEPT ![f] = k])
PROOF
  <1>1. PICK v : v = [w EXCEPT ![f] = k]
    OBVIOUS
  <1>2. w \in [Frame -> 0 .. MaxMaps] /\ k \in 0 .. MaxMaps /\ k # 0
    BY KmallocAssumption DEF FrameInv
  <1>3. v \in [Frame -> 0 .. MaxMaps] /\ v[f] = k /\ \A e \in Frame : e # f => v[e] = w[e]
    BY <1>1, <1>2
  <1>4. /\ r \in PmType /\ r.free = m.free /\ r.n[f] = k /\ r.pte = m.pte /\ r.bits = m.bits
        /\ \A e \in Frame : e # f => r.n[e] = m.n[e]
        /\ r.ok = m.ok /\ r.begin = m.begin /\ r.end = m.end /\ r.count = m.count
    BY DEF Counted
  <1>5. ~m.free[f] /\ \A s \in Slot : m.pte[s] # f
    BY DEF FrameInv, Referred
  <1>6. PICK q : FreeQueue(m, q)
    BY DEF FrameInv
  <1>7. FreeQueue(r, q)
    BY <1>4, <1>5, <1>6, SameQueue
  <1>8. Referred(r, v)
    <2>1. ASSUME NEW e \in Frame
          PROVE  /\ r.free[e] <=> v[e] = 0 /\ \A s \in Slot : r.pte[s] # e
                 /\ v[e] # 0 => r.n[e] = v[e] /\ \A s \in Slot : r.pte[s] # e
      <3>1. CASE e = f
        BY <1>2, <1>3, <1>4, <1>5, <3>1
      <3>2. CASE e # f
        <4>1. /\ m.free[e] <=> w[e] = 0 /\ \A s \in Slot : m.pte[s] # e
              /\ w[e] # 0 => m.n[e] = w[e] /\ \A s \in Slot : m.pte[s] # e
          BY DEF FrameInv, Referred
        <4>2. r.n[e] = m.n[e] /\ v[e] = w[e]
          BY <1>3, <1>4, <3>2
        <4> QED
          BY <1>4, <4>1, <4>2
      <3> QED
        BY <3>1, <3>2
    <2>2. ASSUME NEW s \in Slot, r.pte[s] # NoFrame PROVE r.n[r.pte[s]] = 1
      <3>1. m.pte[s] \in Frame /\ m.n[m.pte[s]] = 1 /\ m.pte[s] # f
        BY <1>4, <1>5, <2>2, SlotFrame
      <3> QED
        BY <1>4, <3>1
    <2>3. \A s, z \in Slot : r.pte[s] # NoFrame /\ r.pte[s] = r.pte[z] => s = z
      BY <1>4 DEF FrameInv, Referred
    <2> QED
      BY <2>1, <2>2, <2>3 DEF Referred
  <1>9. \A s \in Slot : s \in r.bits <=> r.pte[s] # NoFrame
    BY <1>4 DEF FrameInv
  <1>10. m.ok
    BY DEF FrameInv
  <1>11. FrameInv(r, v)
    BY <1>3, <1>4, <1>7, <1>8, <1>9, <1>10 DEF FrameInv
  <1> QED
    BY <1>1, <1>11

\* link_pages
LEMMA LinkInv ==
  ASSUME NEW m, NEW w, FrameInv(m, w), NEW f \in Frame, w[f] \in 1 .. MaxMaps - 1
  PROVE  FrameInv(refcount_inc(m, f), [w EXCEPT ![f] = w[f] + 1])
PROOF
  <1>1. PICK k : k = w[f]
    OBVIOUS
  <1>2. k \in 1 .. MaxMaps - 1 /\ w[f] # 0 /\ k + 1 \in 1 .. MaxMaps /\ k \in 1 .. 2^20 - 2
    BY <1>1, KmallocAssumption
  <1>3. m \in PmType /\ m.n[f] = k /\ ~m.free[f]
    BY <1>1, <1>2 DEF FrameInv, Referred
  <1>4. Counted(refcount_inc(m, f), m, f, k + 1)
    BY <1>2, <1>3, AddFields
  <1>5. FrameInv(refcount_inc(m, f), [w EXCEPT ![f] = k + 1])
    BY <1>2, <1>4, CountedInv
  <1> QED
    BY <1>1, <1>5

\* refcount_dec of the last reference
LEMMA LastInv ==
  ASSUME NEW m, NEW w, FrameInv(m, w), NEW f \in Frame, ~m.free[f], m.n[f] = 1
  PROVE  Put(refcount_dec(m, f), m, f) /\ \E q : FreeQueue(refcount_dec(m, f), q)
PROOF
  <1>1. PICK q : FreeQueue(m, q)
    BY DEF FrameInv
  <1>2. m.begin # NoFrame => m.end \in Frame /\ m.end # f
    BY <1>1, QueueEnd
  <1>3. m \in PmType
    BY DEF FrameInv
  <1>4. PICK r : r = refcount_dec(m, f)
    OBVIOUS
  <1>5. Put(r, m, f)
    BY <1>2, <1>3, <1>4, LastFields
  <1>6. FreeQueue(r, Append(q, f))
    BY <1>1, <1>3, <1>5, PutQueue
  <1> QED
    BY <1>4, <1>5, <1>6

\* The counts of frames that are not free
LEMMA PutCount ==
  ASSUME NEW m, NEW w, FrameInv(m, w), NEW f \in Frame, NEW r, Put(r, m, f),
         NEW e \in Frame, ~m.free[e], e # f
  PROVE  r.n[e] = m.n[e] /\ r.free[e] = m.free[e]
PROOF
  <1>1. PICK q : FreeQueue(m, q)
    BY DEF FrameInv
  <1>2. m.begin = NoFrame \/ e # m.end
    BY <1>1, QueueEnd
  <1> QED
    BY <1>2 DEF Put

\* page_remove of a user page
LEMMA RemoveInv ==
  ASSUME NEW m, NEW w, FrameInv(m, w), NEW f \in Frame, w[f] > 0
  PROVE  FrameInv(refcount_dec(m, f), [w EXCEPT ![f] = w[f] - 1])
PROOF
  <1>1. PICK k : k = w[f]
    OBVIOUS
  <1>2. w \in [Frame -> 0 .. MaxMaps] /\ k \in 1 .. MaxMaps /\ k # 0
    BY <1>1, KmallocAssumption DEF FrameInv
  <1>3. m \in PmType /\ m.ok /\ m.n[f] = k /\ ~m.free[f] /\ \A s \in Slot : m.pte[s] # f
    BY <1>1, <1>2 DEF FrameInv, Referred
  <1>4. CASE k # 1
    <2>1. k \in 2 .. 2^20 - 1 /\ k - 1 \in 1 .. MaxMaps
      BY <1>2, <1>4, KmallocAssumption
    <2>2. Counted(refcount_dec(m, f), m, f, k - 1)
      BY <1>3, <2>1, DropFields
    <2>3. FrameInv(refcount_dec(m, f), [w EXCEPT ![f] = k - 1])
      BY <1>1, <1>2, <2>1, <2>2, CountedInv
    <2> QED
      BY <1>1, <2>3
  <1>5. CASE k = 1
    <2>1. PICK r : r = refcount_dec(m, f)
      OBVIOUS
    <2>2. Put(r, m, f) /\ \E q : FreeQueue(r, q)
      BY <1>3, <1>5, <2>1, LastInv
    <2>3. PICK v : v = [w EXCEPT ![f] = 0]
      OBVIOUS
    <2>4. v \in [Frame -> 0 .. MaxMaps] /\ v[f] = 0 /\ \A e \in Frame : e # f => v[e] = w[e]
      BY <1>2, <2>3, KmallocAssumption
    <2>5. /\ r \in PmType /\ r.free[f] = TRUE /\ r.pte = m.pte /\ r.bits = m.bits /\ r.ok = m.ok
          /\ \A e \in Frame : e # f => r.free[e] = m.free[e]
      BY <2>2 DEF Put
    <2>6. Referred(r, v)
      <3>1. ASSUME NEW e \in Frame
            PROVE  /\ r.free[e] <=> v[e] = 0 /\ \A s \in Slot : r.pte[s] # e
                   /\ v[e] # 0 => r.n[e] = v[e] /\ \A s \in Slot : r.pte[s] # e
        <4>1. CASE e = f
          BY <1>3, <2>4, <2>5, <4>1
        <4>2. CASE e # f
          <5>1. /\ m.free[e] <=> w[e] = 0 /\ \A s \in Slot : m.pte[s] # e
                /\ w[e] # 0 => m.n[e] = w[e] /\ \A s \in Slot : m.pte[s] # e
            BY DEF FrameInv, Referred
          <5>2. r.free[e] = m.free[e] /\ v[e] = w[e]
            BY <2>4, <2>5, <4>2
          <5>3. ~m.free[e] => r.n[e] = m.n[e]
            BY <2>2, <4>2, PutCount
          <5> QED
            BY <2>5, <5>1, <5>2, <5>3
        <4> QED
          BY <4>1, <4>2
      <3>2. ASSUME NEW s \in Slot, r.pte[s] # NoFrame PROVE r.n[r.pte[s]] = 1
        <4>1. m.pte[s] \in Frame /\ m.n[m.pte[s]] = 1 /\ m.pte[s] # f /\ ~m.free[m.pte[s]]
          BY <1>3, <2>5, <3>2, SlotFrame
        <4>2. r.n[m.pte[s]] = m.n[m.pte[s]]
          BY <2>2, <4>1, PutCount
        <4> QED
          BY <2>5, <4>1, <4>2
      <3>3. \A s, z \in Slot : r.pte[s] # NoFrame /\ r.pte[s] = r.pte[z] => s = z
        BY <2>5 DEF FrameInv, Referred
      <3> QED
        BY <3>1, <3>2, <3>3 DEF Referred
    <2>7. \A s \in Slot : s \in r.bits <=> r.pte[s] # NoFrame
      BY <2>5 DEF FrameInv
    <2>8. FrameInv(r, v)
      BY <1>3, <2>2, <2>4, <2>5, <2>6, <2>7 DEF FrameInv
    <2>9. w[f] - 1 = 0
      BY <1>1, <1>5
    <2> QED
      BY <2>1, <2>3, <2>8, <2>9
  <1> QED
    BY <1>4, <1>5

LEMMA FirstSlot ==
  ASSUME NEW m, m.bits \in SUBSET Slot, tmp_page_get(m) # NoSlot
  PROVE  tmp_page_get(m) \in Slot /\ tmp_page_get(m) \notin m.bits
PROOF
  <1>1. PICK I : I = Slot \ m.bits
    OBVIOUS
  <1>2. m.bits # Slot
    BY DEF tmp_page_get, bitmap_find_first_zero
  <1>3. I \in SUBSET Nat /\ I # {}
    BY <1>1, <1>2, FrameNat
  <1>4. \E s \in I : \A u \in I : s <= u
    BY <1>3, LeastNatural
  <1>5. tmp_page_get(m) = CHOOSE s \in I : \A u \in I : s <= u
    BY <1>1, <1>2 DEF tmp_page_get, bitmap_find_first_zero
  <1>6. tmp_page_get(m) \in I
    BY <1>4, <1>5
  <1> QED
    BY <1>1, <1>6

\* tmp_page_alloc_map
LEMMA TmpAllocInv ==
  ASSUME NEW m, NEW w, FrameInv(m, w), TmpAvailable(m)
  PROVE  /\ FrameInv(tmp_page_alloc_map(m), w)
         /\ tmp_page_get(m) \in Slot /\ tmp_page_get(m) \notin m.bits
         /\ tmp_page_alloc_map(m).bits = m.bits \cup {tmp_page_get(m)}
PROOF
  <1>1. PICK f : f = m.begin
    OBVIOUS
  <1>2. PICK r : r = refcount_inc(page_alloc(m), f)
    OBVIOUS
  <1>3. PICK z : z = tmp_page_get(m)
    OBVIOUS
  <1>4. m.begin # NoFrame /\ z # NoSlot
    BY <1>3 DEF TmpAvailable
  <1>5. m \in PmType /\ m.bits \in SUBSET Slot /\ w \in [Frame -> 0 .. MaxMaps]
    BY DEF FrameInv, PmType
  <1>6. z \in Slot /\ z \notin m.bits
    BY <1>3, <1>4, <1>5, FirstSlot
  <1>7. m.pte[z] = NoFrame
    BY <1>6 DEF FrameInv
  <1>8. /\ f \in Frame /\ w[f] = 0 /\ (\A s \in Slot : m.pte[s] # f)
        /\ m.free[f] /\ m.ok /\ Taken(r, m, f) /\ \E q : FreeQueue(r, q)
    BY <1>1, <1>2, <1>4, TakeInv
  <1>9. /\ r \in PmType /\ r.free[f] = FALSE /\ r.n[f] = 1 /\ r.pte = m.pte /\ r.bits = m.bits
        /\ \A e \in Frame : e # f => r.n[e] = m.n[e] /\ r.free[e] = m.free[e]
        /\ r.ok = (m.ok /\ m.free[f])
    BY <1>8 DEF Taken
  <1>10. PICK d : d = tmp_page_alloc_map(m)
    OBVIOUS
  <1>11. d = [r EXCEPT !.bits = @ \cup {z}, !.pte[z] = f]
    BY <1>1, <1>2, <1>3, <1>10 DEF tmp_page_alloc_map
  <1>12. /\ d \in PmType /\ d.n = r.n /\ d.free = r.free /\ d.begin = r.begin /\ d.end = r.end
         /\ d.count = r.count /\ d.ok = r.ok
         /\ d.bits = m.bits \cup {z} /\ d.pte = [m.pte EXCEPT ![z] = f]
    <2>1. d = [n |-> r.n, free |-> r.free, begin |-> r.begin, end |-> r.end, count |-> r.count,
               bits |-> r.bits \cup {z}, pte |-> [r.pte EXCEPT ![z] = f], ok |-> r.ok]
      BY <1>9, <1>11 DEF PmType
    <2>2. m.pte \in [Slot -> Frame \cup {NoFrame}]
      BY <1>5 DEF PmType
    <2>3. [r.pte EXCEPT ![z] = f] \in [Slot -> Frame \cup {NoFrame}] /\ r.bits \cup {z} \in SUBSET Slot
      BY <1>5, <1>6, <1>8, <1>9, <2>2
    <2>4. d \in PmType
      BY <1>9, <2>1, <2>3 DEF PmType
    <2> QED
      BY <1>9, <2>1, <2>4
  <1>13. d.pte[z] = f /\ \A s \in Slot : s # z => d.pte[s] = m.pte[s]
    BY <1>5, <1>6, <1>12 DEF PmType
  <1>14. PICK q : FreeQueue(r, q)
    BY <1>8
  <1>15. FreeQueue(d, q)
    BY <1>12, <1>14 DEF FreeQueue
  <1>16. Referred(d, w)
    <2>1. ASSUME NEW e \in Frame
          PROVE  /\ d.free[e] <=> w[e] = 0 /\ \A s \in Slot : d.pte[s] # e
                 /\ w[e] # 0 => d.n[e] = w[e] /\ \A s \in Slot : d.pte[s] # e
      <3>1. CASE e = f
        BY <1>6, <1>8, <1>9, <1>12, <1>13, <3>1
      <3>2. CASE e # f
        <4>1. /\ m.free[e] <=> w[e] = 0 /\ \A s \in Slot : m.pte[s] # e
              /\ w[e] # 0 => m.n[e] = w[e] /\ \A s \in Slot : m.pte[s] # e
          BY DEF FrameInv, Referred
        <4>2. d.n[e] = m.n[e] /\ d.free[e] = m.free[e]
          BY <1>9, <1>12, <3>2
        <4>3. e # NoFrame
          BY FrameNat
        <4>4. \A s \in Slot : d.pte[s] # e <=> m.pte[s] # e
          BY <1>7, <1>13, <3>2, <4>3
        <4> QED
          BY <4>1, <4>2, <4>4
      <3> QED
        BY <3>1, <3>2
    <2>2. ASSUME NEW s \in Slot, d.pte[s] # NoFrame PROVE d.n[d.pte[s]] = 1
      <3>1. CASE s = z
        BY <1>9, <1>12, <1>13, <3>1
      <3>2. CASE s # z
        <4>1. d.pte[s] = m.pte[s]
          BY <1>13, <3>2
        <4>2. m.pte[s] \in Frame /\ m.n[m.pte[s]] = 1 /\ m.pte[s] # f
          BY <1>8, <2>2, <4>1, SlotFrame
        <4> QED
          BY <1>9, <1>12, <4>1, <4>2
      <3> QED
        BY <3>1, <3>2
    <2>3. ASSUME NEW s \in Slot, NEW y \in Slot, d.pte[s] # NoFrame, d.pte[s] = d.pte[y]
          PROVE  s = y
      <3>1. \A i, j \in Slot : m.pte[i] # NoFrame /\ m.pte[i] = m.pte[j] => i = j
        BY DEF FrameInv, Referred
      <3> QED
        BY <1>8, <1>13, <2>3, <3>1
    <2> QED
      BY <2>1, <2>2, <2>3 DEF Referred
  <1>17. ASSUME NEW s \in Slot PROVE s \in d.bits <=> d.pte[s] # NoFrame
    <2>1. s \in m.bits <=> m.pte[s] # NoFrame
      BY DEF FrameInv
    <2> QED
      BY <1>8, <1>12, <1>13, <2>1, FrameNat
  <1>18. d.ok
    BY <1>8, <1>9, <1>12
  <1>19. FrameInv(d, w)
    BY <1>5, <1>12, <1>15, <1>16, <1>17, <1>18 DEF FrameInv
  <1> QED
    BY <1>3, <1>6, <1>10, <1>12, <1>19

\* tmp_page_free
LEMMA TmpFreeInv ==
  ASSUME NEW m, NEW w, FrameInv(m, w), NEW z \in m.bits
  PROVE  /\ FrameInv(tmp_page_free(m, z), w)
         /\ tmp_page_free(m, z).bits = m.bits \ {z}
PROOF
  <1>1. m \in PmType /\ m.bits \in SUBSET Slot /\ w \in [Frame -> 0 .. MaxMaps] /\ m.ok
    BY DEF FrameInv, PmType
  <1>2. z \in Slot /\ m.pte[z] # NoFrame
    BY <1>1 DEF FrameInv
  <1>3. PICK f : f = m.pte[z]
    OBVIOUS
  <1>4. f \in Frame /\ m.n[f] = 1 /\ ~m.free[f] /\ w[f] = 0
    BY <1>2, <1>3, SlotFrame
  <1>5. PICK r : r = refcount_dec(m, f)
    OBVIOUS
  <1>6. Put(r, m, f) /\ \E q : FreeQueue(r, q)
    BY <1>4, <1>5, LastInv
  <1>7. /\ r \in PmType /\ r.free[f] = TRUE /\ r.pte = m.pte /\ r.bits = m.bits /\ r.ok = m.ok
        /\ \A e \in Frame : e # f => r.free[e] = m.free[e]
    BY <1>6 DEF Put
  <1>8. PICK d : d = tmp_page_free(m, z)
    OBVIOUS
  <1>9. d = [r EXCEPT !.pte[z] = NoFrame, !.bits = @ \ {z}, !.ok = @ /\ z \in m.bits]
    BY <1>3, <1>5, <1>8 DEF tmp_page_free
  <1>10. /\ d \in PmType /\ d.n = r.n /\ d.free = r.free /\ d.begin = r.begin /\ d.end = r.end
         /\ d.count = r.count /\ d.ok = TRUE
         /\ d.bits = m.bits \ {z} /\ d.pte = [m.pte EXCEPT ![z] = NoFrame]
    <2>1. (r.ok /\ z \in m.bits) = TRUE
      BY <1>1, <1>7
    <2>2. d = [r EXCEPT !.pte[z] = NoFrame, !.bits = @ \ {z}, !.ok = TRUE]
      BY <1>9, <2>1
    <2>3. d = [n |-> r.n, free |-> r.free, begin |-> r.begin, end |-> r.end, count |-> r.count,
               bits |-> r.bits \ {z}, pte |-> [r.pte EXCEPT ![z] = NoFrame], ok |-> TRUE]
      BY <1>7, <2>2 DEF PmType
    <2>4. m.pte \in [Slot -> Frame \cup {NoFrame}]
      BY <1>1 DEF PmType
    <2>5. [r.pte EXCEPT ![z] = NoFrame] \in [Slot -> Frame \cup {NoFrame}] /\ r.bits \ {z} \in SUBSET Slot
      BY <1>1, <1>2, <1>7, <2>4
    <2>6. d \in PmType
      BY <1>7, <2>3, <2>5 DEF PmType
    <2> QED
      BY <1>7, <2>3, <2>6
  <1>11. d.pte[z] = NoFrame /\ \A s \in Slot : s # z => d.pte[s] = m.pte[s]
    BY <1>1, <1>2, <1>10 DEF PmType
  <1>12. \A i, j \in Slot : m.pte[i] # NoFrame /\ m.pte[i] = m.pte[j] => i = j
    BY DEF FrameInv, Referred
  <1>13. \A s \in Slot : d.pte[s] # f
    BY <1>2, <1>3, <1>11, <1>12
  <1>14. PICK q : FreeQueue(r, q)
    BY <1>6
  <1>15. FreeQueue(d, q)
    BY <1>10, <1>14 DEF FreeQueue
  <1>16. Referred(d, w)
    <2>1. ASSUME NEW e \in Frame
          PROVE  /\ d.free[e] <=> w[e] = 0 /\ \A s \in Slot : d.pte[s] # e
                 /\ w[e] # 0 => d.n[e] = w[e] /\ \A s \in Slot : d.pte[s] # e
      <3>1. CASE e = f
        BY <1>4, <1>7, <1>10, <1>13, <3>1
      <3>2. CASE e # f
        <4>1. /\ m.free[e] <=> w[e] = 0 /\ \A s \in Slot : m.pte[s] # e
              /\ w[e] # 0 => m.n[e] = w[e] /\ \A s \in Slot : m.pte[s] # e
          BY DEF FrameInv, Referred
        <4>2. d.free[e] = m.free[e] /\ (~m.free[e] => d.n[e] = m.n[e])
          BY <1>4, <1>6, <1>7, <1>10, <3>2, PutCount
        <4>3. e # NoFrame
          BY FrameNat
        <4>4. \A s \in Slot : d.pte[s] # e <=> m.pte[s] # e
          BY <1>3, <1>11, <3>2, <4>3
        <4> QED
          BY <4>1, <4>2, <4>4
      <3> QED
        BY <3>1, <3>2
    <2>2. ASSUME NEW s \in Slot, d.pte[s] # NoFrame PROVE d.n[d.pte[s]] = 1
      <3>1. d.pte[s] = m.pte[s] /\ m.pte[s] # NoFrame
        BY <1>11, <2>2
      <3>2. m.pte[s] \in Frame /\ m.n[m.pte[s]] = 1 /\ m.pte[s] # f /\ ~m.free[m.pte[s]]
        BY <1>13, <3>1, SlotFrame
      <3>3. r.n[m.pte[s]] = m.n[m.pte[s]]
        BY <1>4, <1>6, <3>2, PutCount
      <3> QED
        BY <1>10, <3>1, <3>2, <3>3
    <2>3. ASSUME NEW s \in Slot, NEW y \in Slot, d.pte[s] # NoFrame, d.pte[s] = d.pte[y]
          PROVE  s = y
      BY <1>11, <1>12, <2>3
    <2> QED
      BY <2>1, <2>2, <2>3 DEF Referred
  <1>17. ASSUME NEW s \in Slot PROVE s \in d.bits <=> d.pte[s] # NoFrame
    <2>1. s \in m.bits <=> m.pte[s] # NoFrame
      BY DEF FrameInv
    <2> QED
      BY <1>10, <1>11, <2>1
  <1>18. FrameInv(d, w)
    BY <1>1, <1>10, <1>15, <1>16, <1>17 DEF FrameInv
  <1> QED
    BY <1>8, <1>10, <1>18

\* pm_init
LEMMA InitFrames ==
  FrameInv(pm_init, [f \in Frame |-> 0]) /\ pm_init.bits = {}
PROOF
  <1>1. PICK m : m = pm_init
    OBVIOUS
  <1>2. NPages \in Nat \ {0}
    BY PhysicalAssumption
  <1>3. /\ m.n = [f \in Frame |-> IF f = NPages THEN 0 ELSE f + 1]
        /\ m.free = [f \in Frame |-> TRUE] /\ m.begin = 1 /\ m.end = NPages /\ m.count = NPages
        /\ m.bits = {} /\ m.pte = [s \in Slot |-> NoFrame] /\ m.ok = TRUE
    BY <1>1 DEF pm_init
  <1>4. m \in PmType
    <2>1. m.n \in [Frame -> Int]
      BY <1>3, FrameNat
    <2>2. /\ m.free \in [Frame -> BOOLEAN] /\ m.begin \in Int /\ m.end \in Int /\ m.count \in Int
          /\ m.bits \in SUBSET Slot /\ m.pte \in [Slot -> Frame \cup {NoFrame}] /\ m.ok \in BOOLEAN
      <3>1. m.free \in [Frame -> BOOLEAN]
        BY <1>3
      <3>2. m.pte \in [Slot -> Frame \cup {NoFrame}]
        BY <1>3
      <3>3. m.begin \in Int /\ m.end \in Int /\ m.count \in Int
        BY <1>2, <1>3
      <3>4. m.bits \in SUBSET Slot /\ m.ok \in BOOLEAN
        BY <1>3
      <3> QED
        BY <3>1, <3>2, <3>3, <3>4
    <2>3. m = [n |-> m.n, free |-> m.free, begin |-> m.begin, end |-> m.end, count |-> m.count,
               bits |-> m.bits, pte |-> m.pte, ok |-> m.ok]
      BY <1>1 DEF pm_init
    <2> QED
      BY <2>1, <2>2, <2>3 DEF PmType
  <1>5. PICK q : q = [k \in 1 .. NPages |-> k]
    OBVIOUS
  <1>6. /\ q \in Seq(Frame) /\ Len(q) = NPages /\ DOMAIN q = 1 .. NPages
        /\ \A k \in 1 .. NPages : q[k] = k
    BY <1>2, <1>5 DEF Frame
  <1>7. FreeQueue(m, q)
    <2>1. IsInjective(q)
      BY <1>6 DEF IsInjective
    <2>2. ASSUME NEW f PROVE Contains(q, f) <=> f \in Frame /\ m.free[f]
      <3>1. Contains(q, f) <=> \E k \in 1 .. NPages : q[k] = f
        BY <1>6, QueueDomain
      <3>2. f \in Frame => m.free[f]
        BY <1>3
      <3> QED
        BY <1>6, <3>1, <3>2 DEF Frame
    <2>3. q # <<>> /\ m.begin = q[1] /\ m.end = q[Len(q)]
      <3>1. 1 \in 1 .. NPages /\ NPages \in 1 .. NPages
        BY <1>2
      <3>2. q = <<>> <=> Len(q) = 0
        BY <1>6, QueueDomain
      <3> QED
        BY <1>2, <1>3, <1>6, <3>1, <3>2
    <2>4. ASSUME NEW k \in 1 .. Len(q) - 1 PROVE m.n[q[k]] = q[k + 1]
      <3>1. k \in 1 .. NPages /\ k + 1 \in 1 .. NPages /\ k # NPages /\ k \in Frame
        BY <1>2, <1>6 DEF Frame
      <3>2. m.n[k] = k + 1
        BY <1>3, <3>1
      <3> QED
        BY <1>6, <3>1, <3>2
    <2> QED
      BY <1>3, <1>6, <2>1, <2>2, <2>3, <2>4 DEF FreeQueue
  <1>8. PICK w : w = [f \in Frame |-> 0]
    OBVIOUS
  <1>9. w \in [Frame -> 0 .. MaxMaps] /\ \A f \in Frame : w[f] = 0
    <2>1. 0 \in 0 .. MaxMaps
      BY KmallocAssumption
    <2> QED
      BY <1>8, <2>1
  <1>10. Referred(m, w)
    <2>1. \A s \in Slot : m.pte[s] = NoFrame
      BY <1>3
    <2>2. \A f \in Frame : m.free[f] /\ f # NoFrame
      BY <1>3, FrameNat
    <2> QED
      BY <1>9, <2>1, <2>2 DEF Referred
  <1>11. FrameInv(m, w)
    BY <1>3, <1>4, <1>7, <1>9, <1>10 DEF FrameInv
  <1> QED
    BY <1>1, <1>3, <1>8, <1>11

-----------------------------------------------------------------------------
(* The heap before and after kmalloc.                                      *)

\* The headers of the pages G count their blocks.
CountsOf(h, G, c, d) ==
  /\ c = [p \in Slot |-> c[p]] /\ d = [p \in Slot |-> d[p]]
  /\ \A p \in G : \A j \in Sizeno : /\ c[p][j] = Cardinality(BlocksAt(h, p, j))
                                    /\ d[p][j] = Cardinality(UsedIn(h, p, j))

\* Each used block has an owner who asked for what it holds.
Owners(h, z) ==
  /\ z \in [Unit -> Sizes \cup {-1}]
  /\ \A x \in Unit : z[x] # -1 <=> \E j \in Sizeno : UsedAt(h, x, j)
  /\ \A x \in Unit : \A j \in Sizeno : UsedAt(h, x, j) => Fits(j, z[x])

HeapOk(h, G, ls, c, d, z) ==
  /\ G \subseteq Slot
  /\ Tiled(h, G) /\ NoBuddies(h) /\ Listed(h, ls) /\ CountsOf(h, G, c, d) /\ Owners(h, z)

\* Where kmalloc takes a block of sizeno i, or a new page when i = PAGE
TakenFrom(h, G, ls, a, i) ==
  \/ i # PAGE /\ ls[i] # <<>> /\ a = Head(ls[i])
  \/ i = PAGE /\ Aligned(a, PAGE) /\ page(a) \notin G

\* The lists without that block, and the counts of its page
Rest(ls, i) == IF i = PAGE THEN ls ELSE [ls EXCEPT ![i] = Tail(@)]
Before(c, a, i) == IF i = PAGE THEN Zero ELSE c[page(a)]

LEMMA LevelSizeno ==
  ASSUME NEW i \in Level
  PROVE  /\ i # PAGE => i \in Sizeno /\ i < PAGE
         /\ i = PAGE => i \notin Sizeno /\ ~(i < PAGE)
  BY HeaderTypes, Pow2Def

LEMMA TakenBlock ==
  ASSUME NEW h, NEW G, NEW ls, G \subseteq Slot, Tiled(h, G), Listed(h, ls),
         NEW a \in Unit, NEW i \in Level, TakenFrom(h, G, ls, a, i)
  PROVE  /\ Aligned(a, i) /\ Alone(h, a, i) /\ page(a) \in Slot
         /\ page(a) \in G \/ i = PAGE
         /\ i # PAGE => a \in Heads(h) /\ page(a) \in G /\ h[a] = Header(FALSE, i)
         /\ i = PAGE => a \notin Heads(h) /\ \A x \in Unit : page(x) = page(a) => h[x] = NoHeader
PROOF
  <1>0. page(a) \in Slot
    BY UnitPage, UnitNat
  <1>1. CASE i # PAGE
    <2>1. i \in Sizeno
      BY <1>1, LevelSizeno
    <2>2. ListOf(h, ls[i], i) /\ ls[i] # <<>> /\ a = Head(ls[i])
      BY <1>1, <2>1 DEF Listed, TakenFrom
    <2>3. Contains(ls[i], a)
      BY <2>2, TailList DEF ListOf
    <2>4. h[a] = Header(FALSE, i)
      BY <2>2, <2>3 DEF ListOf, FreeAt
    <2>5. a \in Heads(h) /\ Aligned(a, i) /\ page(a) \in G /\ Alone(h, a, i)
      BY <2>1, <2>4, AloneBlock
    <2> QED
      BY <1>0, <1>1, <2>4, <2>5
  <1>2. CASE i = PAGE
    <2>1. Aligned(a, PAGE) /\ page(a) \notin G
      BY <1>2 DEF TakenFrom
    <2>2. Alone(h, a, PAGE) /\ \A x \in Unit : page(x) = page(a) => h[x] = NoHeader
      BY <2>1, AloneNew
    <2>3. a \notin Heads(h)
      BY <2>2 DEF Heads
    <2> QED
      BY <1>0, <1>2, <2>1, <2>2, <2>3
  <1> QED
    BY <1>1, <1>2

LEMMA AllocLists ==
  ASSUME NEW h \in [Unit -> Hdr], NEW ls, Listed(h, ls), NEW g, NEW a \in Unit, NEW i \in Level,
         NEW u \in Sizeno, u <= i, Aligned(a, i), Alone(h, a, i), SplitOf(g, h, a, i, u),
         i # PAGE => ls[i] # <<>> /\ a = Head(ls[i]),
         NEW rest, rest = Rest(ls, i)
  PROVE  Listed(g, split(rest, a, i, u))
PROOF
  <1>1. PICK k : k = split(rest, a, i, u)
    OBVIOUS
  <1>2. k = [j \in Sizeno |-> IF j \in Steps(u, i) THEN Append(rest[j], Right(a, j)) ELSE rest[j]]
    BY <1>1 DEF split, Steps, Right
  <1>3. ASSUME NEW j \in Sizeno PROVE ListOf(g, k[j], j)
    <2>1. ListOf(h, ls[j], j) /\ ls = [l \in Sizeno |-> ls[l]]
      BY DEF Listed
    <2>2. j = i => i # PAGE
      BY LevelSizeno
    <2>3. rest[j] = IF j = i THEN Tail(ls[j]) ELSE ls[j]
      BY <2>1, <2>2 DEF Rest
    <2>4. j \in Steps(u, i) => j # i
      <3>1. u \in Level
        BY HeaderTypes
      <3> QED
        BY <3>1, StepLevels, LevelOrder
    <2>5. PICK l : l = ls[j]
      OBVIOUS
    <2>6. ListOf(g, IF j \in Steps(u, i) THEN Append(l, Right(a, j))
                    ELSE IF j = i THEN Tail(l) ELSE l, j)
      BY <2>1, <2>2, <2>5, SplitList
    <2>7. k[j] = IF j \in Steps(u, i) THEN Append(l, Right(a, j))
                 ELSE IF j = i THEN Tail(l) ELSE l
      BY <1>2, <2>3, <2>4, <2>5
    <2> QED
      BY <2>6, <2>7
  <1>4. k = [j \in Sizeno |-> k[j]]
    BY <1>2
  <1>5. Listed(g, k)
    BY <1>3, <1>4 DEF Listed
  <1> QED
    BY <1>1, <1>5

\* The counts of the page before the splits
PageCounts(h, a, c, d) ==
  \A j \in Sizeno : /\ c[j] = Cardinality(BlocksAt(h, page(a), j))
                    /\ d[j] = Cardinality(UsedIn(h, page(a), j))

LEMMA OldCounts ==
  ASSUME NEW h \in [Unit -> Hdr], NEW G, NEW c, NEW d, CountsOf(h, G, c, d), NEW a \in Unit,
         NEW i, i # PAGE => page(a) \in G,
         i = PAGE => \A x \in Unit : page(x) = page(a) => h[x] = NoHeader,
         NEW e, NEW f, e = Before(c, a, i), f = Before(d, a, i)
  PROVE  PageCounts(h, a, e, f)
PROOF
  <1>1. SUFFICES ASSUME NEW j \in Sizeno
                 PROVE  /\ e[j] = Cardinality(BlocksAt(h, page(a), j))
                        /\ f[j] = Cardinality(UsedIn(h, page(a), j))
    BY DEF PageCounts
  <1>2. CASE i # PAGE
    BY <1>2 DEF CountsOf, Before
  <1>3. CASE i = PAGE
    <2>1. BlocksAt(h, page(a), j) = {}
      BY <1>3 DEF BlocksAt, Heads
    <2>2. UsedIn(h, page(a), j) = {}
      BY <2>1 DEF UsedIn
    <2>3. e[j] = 0 /\ f[j] = 0
      BY <1>3 DEF Zero, Before
    <2>4. Cardinality({}) = 0
      BY FS_EmptySet
    <2> QED
      BY <2>1, <2>2, <2>3, <2>4
  <1> QED
    BY <1>2, <1>3

LEMMA AllocCounts ==
  ASSUME NEW h, NEW G, G \subseteq Slot, Tiled(h, G), NEW c, NEW d, CountsOf(h, G, c, d),
         NEW g, NEW K, Tiled(g, K), NEW a \in Unit, K = G \cup {page(a)}, NEW i \in Level,
         NEW u \in Sizeno, u <= i, Aligned(a, i), Alone(h, a, i), SplitOf(g, h, a, i, u),
         i # PAGE => a \in Heads(h), i = PAGE => a \notin Heads(h),
         NEW e, NEW f, PageCounts(h, a, e, f)
  PROVE  CountsOf(g, K, [c EXCEPT ![page(a)] = PH_add(e, split_count(i, u))],
                        [d EXCEPT ![page(a)] = PH_add(f, One(u))])
PROOF
  <1>1. PICK p : p = page(a)
    OBVIOUS
  <1>2. p \in Slot
    BY <1>1, UnitPage, UnitNat
  <1>3. PICK cc : cc = [c EXCEPT ![p] = PH_add(e, split_count(i, u))]
    OBVIOUS
  <1>4. PICK dd : dd = [d EXCEPT ![p] = PH_add(f, One(u))]
    OBVIOUS
  <1>5. c = [r \in Slot |-> c[r]] /\ d = [r \in Slot |-> d[r]]
    BY DEF CountsOf
  <1>6. /\ cc = [r \in Slot |-> cc[r]] /\ dd = [r \in Slot |-> dd[r]]
        /\ cc[p] = PH_add(e, split_count(i, u)) /\ dd[p] = PH_add(f, One(u))
        /\ \A r \in Slot : r # p => cc[r] = c[r] /\ dd[r] = d[r]
    BY <1>2, <1>3, <1>4, <1>5
  <1>7. ASSUME NEW r \in K, NEW j \in Sizeno
        PROVE  /\ cc[r][j] = Cardinality(BlocksAt(g, r, j))
               /\ dd[r][j] = Cardinality(UsedIn(g, r, j))
    <2>1. /\ split_count(i, u)[j] \in Int /\ One(u)[j] \in Int
          /\ Cardinality(BlocksAt(g, p, j)) = Cardinality(BlocksAt(h, p, j)) + split_count(i, u)[j]
          /\ Cardinality(UsedIn(g, p, j)) = Cardinality(UsedIn(h, p, j)) + One(u)[j]
          /\ \A q : q # p => BlocksAt(g, q, j) = BlocksAt(h, q, j)
                             /\ UsedIn(g, q, j) = UsedIn(h, q, j)
      <3>1. /\ split_count(i, u)[j] \in Int /\ One(u)[j] \in Int
            /\ Cardinality(BlocksAt(g, page(a), j)) =
                 Cardinality(BlocksAt(h, page(a), j)) + split_count(i, u)[j]
            /\ Cardinality(UsedIn(g, page(a), j)) = Cardinality(UsedIn(h, page(a), j)) + One(u)[j]
            /\ \A q : q # page(a) => BlocksAt(g, q, j) = BlocksAt(h, q, j)
                                     /\ UsedIn(g, q, j) = UsedIn(h, q, j)
        BY SplitCounts, ZenonT(40)
      <3> QED
        BY <1>1, <3>1
    <2>2. CASE r = p
      <3>1. PICK x1 \in Nat : x1 = Cardinality(BlocksAt(h, p, j))
        BY CountBound
      <3>2. PICK x2 \in Nat : x2 = Cardinality(UsedIn(h, p, j))
        BY CountBound
      <3>3. PICK y1 \in Nat : y1 = Cardinality(BlocksAt(g, p, j)) /\ y1 < 2^Width(j)
        BY CountBound
      <3>4. PICK y2 \in Nat : y2 = Cardinality(UsedIn(g, p, j)) /\ y2 < 2^Width(j)
        <4>1. /\ Cardinality(UsedIn(g, p, j)) \in Nat
              /\ Cardinality(UsedIn(g, p, j)) <= Cardinality(BlocksAt(g, p, j))
          BY CountBound
        <4>2. 2^Width(j) \in Nat
          <5>1. Width(j) = 8 \/ Width(j) = 4
            BY DEF Width
          <5>2. 2^8 \in Nat /\ 2^4 \in Nat
            OBVIOUS
          <5> QED
            BY <5>1, <5>2
        <4> QED
          BY <3>3, <4>1, <4>2
      <3>5. e[j] = x1 /\ f[j] = x2
        BY <1>1, <3>1, <3>2 DEF PageCounts
      <3>6. PICK s1 \in Int : s1 = split_count(i, u)[j] /\ x1 + s1 = y1
        BY <2>1, <3>1, <3>3
      <3>7. PICK s2 \in Int : s2 = One(u)[j] /\ x2 + s2 = y2
        BY <2>1, <3>2, <3>4
      <3>8. PH_add(e, split_count(i, u))[j] = y1
        BY <3>3, <3>5, <3>6, FieldSum
      <3>9. PH_add(f, One(u))[j] = y2
        BY <3>4, <3>5, <3>7, FieldSum
      <3> QED
        BY <1>6, <2>2, <3>3, <3>4, <3>8, <3>9
    <2>3. CASE r # p
      <3>1. r \in G /\ r \in Slot
        BY <1>1, <2>3
      <3>2. c[r][j] = Cardinality(BlocksAt(h, r, j)) /\ d[r][j] = Cardinality(UsedIn(h, r, j))
        BY <3>1 DEF CountsOf
      <3> QED
        BY <1>6, <2>1, <2>3, <3>1, <3>2
    <2> QED
      BY <2>2, <2>3
  <1>8. CountsOf(g, K, cc, dd)
    BY <1>6, <1>7 DEF CountsOf
  <1> QED
    BY <1>1, <1>3, <1>4, <1>8

LEMMA AllocOwners ==
  ASSUME NEW h \in [Unit -> Hdr], NEW z, Owners(h, z), NEW g, NEW a \in Unit, NEW i \in Level,
         NEW u \in Sizeno, u <= i, Aligned(a, i), Alone(h, a, i), SplitOf(g, h, a, i, u),
         NEW n \in Sizes, Fits(u, n)
  PROVE  Owners(g, [z EXCEPT ![a] = n])
PROOF
  <1>1. PICK y : y = [z EXCEPT ![a] = n]
    OBVIOUS
  <1>2. z \in [Unit -> Sizes \cup {-1}]
    BY DEF Owners
  <1>3. y \in [Unit -> Sizes \cup {-1}] /\ y[a] = n /\ \A x \in Unit : x # a => y[x] = z[x]
    BY <1>1, <1>2
  <1>4. n # -1
    BY KmallocAssumption
  <1>5. \A x \in Unit : \A j \in Sizeno : UsedAt(g, x, j) <=> (x = a /\ j = u) \/ UsedAt(h, x, j)
    BY SplitHeaders
  <1>6. \A j \in Sizeno : ~UsedAt(h, a, j)
    <2>1. SUFFICES ASSUME NEW j \in Sizeno, h[a] = Header(TRUE, j) PROVE FALSE
      BY DEF UsedAt
    <2>2. h[a].used = TRUE /\ h[a] # NoHeader
      BY <2>1, HeaderFields
    <2>3. a \in Heads(h)
      BY <2>2 DEF Heads
    <2> QED
      BY <2>2, <2>3 DEF Alone
  <1>7. ASSUME NEW x \in Unit PROVE y[x] # -1 <=> \E j \in Sizeno : UsedAt(g, x, j)
    <2>1. CASE x = a
      BY <1>3, <1>4, <1>5, <2>1
    <2>2. CASE x # a
      <3>1. z[x] # -1 <=> \E j \in Sizeno : UsedAt(h, x, j)
        BY DEF Owners
      <3> QED
        BY <1>3, <1>5, <2>2, <3>1
    <2> QED
      BY <2>1, <2>2
  <1>8. ASSUME NEW x \in Unit, NEW j \in Sizeno, UsedAt(g, x, j) PROVE Fits(j, y[x])
    <2>1. CASE x = a
      BY <1>3, <1>5, <1>6, <1>8, <2>1
    <2>2. CASE x # a
      <3>1. UsedAt(h, x, j)
        BY <1>5, <1>8, <2>2
      <3>2. Fits(j, z[x])
        BY <3>1 DEF Owners
      <3> QED
        BY <1>3, <2>2, <3>2
    <2> QED
      BY <2>1, <2>2
  <1>9. Owners(g, y)
    BY <1>3, <1>7, <1>8 DEF Owners
  <1> QED
    BY <1>1, <1>9

\* The heap after a block of sizeno i, or a new page, is split down to u for n
\* bytes
AllocatedOk(h, G, ls, c, d, z, a, i, u, n) ==
  HeapOk(split_hdr(h, a, i, u), G \cup {page(a)}, split(Rest(ls, i), a, i, u),
         [c EXCEPT ![page(a)] = PH_add(Before(c, a, i), split_count(i, u))],
         [d EXCEPT ![page(a)] = PH_add(Before(d, a, i), One(u))],
         [z EXCEPT ![a] = n])

LEMMA AllocOk ==
  ASSUME NEW h, NEW G, NEW ls, NEW c, NEW d, NEW z, HeapOk(h, G, ls, c, d, z),
         NEW a \in Unit, NEW i \in Level, NEW u \in Sizeno, u <= i, TakenFrom(h, G, ls, a, i),
         NEW n \in Sizes, Fits(u, n)
  PROVE  /\ AllocatedOk(h, G, ls, c, d, z, a, i, u, n)
         /\ PageCounts(h, a, Before(c, a, i), Before(d, a, i))
         /\ i # PAGE => h[a] = Header(FALSE, i)
PROOF
  <1>1. /\ G \subseteq Slot /\ Tiled(h, G) /\ NoBuddies(h) /\ Listed(h, ls)
        /\ CountsOf(h, G, c, d) /\ Owners(h, z)
    BY DEF HeapOk
  <1>2. h \in [Unit -> Hdr]
    BY <1>1 DEF Tiled
  <1>3. /\ Aligned(a, i) /\ Alone(h, a, i) /\ page(a) \in Slot
        /\ page(a) \in G \/ i = PAGE
        /\ i # PAGE => a \in Heads(h) /\ page(a) \in G /\ h[a] = Header(FALSE, i)
        /\ i = PAGE => a \notin Heads(h) /\ \A x \in Unit : page(x) = page(a) => h[x] = NoHeader
    BY <1>1, TakenBlock
  <1>4. PICK g : g = split_hdr(h, a, i, u)
    OBVIOUS
  <1>14. PICK rest : rest = Rest(ls, i)
    OBVIOUS
  <1>15. PICK e : e = Before(c, a, i)
    OBVIOUS
  <1>16. PICK f : f = Before(d, a, i)
    OBVIOUS
  <1>5. SplitOf(g, h, a, i, u)
    BY <1>2, <1>3, <1>4, SplitHdr
  <1>6. PICK K : K = G \cup {page(a)}
    OBVIOUS
  <1>7. Tiled(g, K) /\ K \subseteq Slot
    BY <1>1, <1>3, <1>5, <1>6, SplitTiled
  <1>8. NoBuddies(g)
    BY <1>1, <1>3, <1>5, SplitNoBuddies
  <1>9. Listed(g, split(rest, a, i, u))
    <2>1. i # PAGE => ls[i] # <<>> /\ a = Head(ls[i])
      BY DEF TakenFrom
    <2> QED
      BY <1>1, <1>2, <1>3, <1>5, <1>14, <2>1, AllocLists
  <1>10. PageCounts(h, a, e, f)
    BY <1>1, <1>2, <1>3, <1>15, <1>16, OldCounts
  <1>11. CountsOf(g, K, [c EXCEPT ![page(a)] = PH_add(e, split_count(i, u))],
                        [d EXCEPT ![page(a)] = PH_add(f, One(u))])
    BY <1>1, <1>3, <1>5, <1>6, <1>7, <1>10, AllocCounts
  <1>12. Owners(g, [z EXCEPT ![a] = n])
    BY <1>1, <1>2, <1>3, <1>5, AllocOwners
  <1>13. HeapOk(g, K, split(rest, a, i, u),
                [c EXCEPT ![page(a)] = PH_add(e, split_count(i, u))],
                [d EXCEPT ![page(a)] = PH_add(f, One(u))], [z EXCEPT ![a] = n])
    BY <1>7, <1>8, <1>9, <1>11, <1>12 DEF HeapOk
  <1> QED
    BY <1>3, <1>4, <1>6, <1>10, <1>13, <1>14, <1>15, <1>16 DEF AllocatedOk

\* A size without a free block: the assertion in the loop over split
LEMMA NoFreeBlock ==
  ASSUME NEW h \in [Unit -> Hdr], NEW ls, Listed(h, ls), NEW j \in Sizeno, ls[j] = <<>>, NEW p
  PROVE  BlocksAt(h, p, j) = UsedIn(h, p, j)
PROOF
  <1>1. \A x : ~Contains(<<>>, x)
    BY DEF Contains
  <1>2. \A x \in Unit : ~FreeAt(h, x, j)
    BY <1>1 DEF Listed, ListOf
  <1>3. \A x : x \in BlocksAt(h, p, j) <=> x \in UsedIn(h, p, j)
    BY <1>2, BlockMembers
  <1> QED
    BY <1>3

-----------------------------------------------------------------------------
(* The heap before and after kfree.                                        *)

\* The lists without the buddies that are joined
Unlinked(ls, a, s0, t) ==
  [j \in Sizeno |-> IF j \in Steps(s0, t) THEN RemoveFirst(ls[j], Buddy(a, j)) ELSE ls[j]]

LEMMA FreeLists ==
  ASSUME NEW h, NEW G, Tiled(h, G), NEW ls, Listed(h, ls), NEW a \in Unit, NEW s0 \in Sizeno,
         NEW t \in Level, Joined(h, a, s0, t), NEW g, NEW b, b = Base(a, t), MergeOf(g, h, b, t),
         NEW k, k = Unlinked(ls, a, s0, t)
  PROVE  /\ Listed(g, IF t = PAGE THEN k ELSE [k EXCEPT ![t] = <<b>> \o @])
         /\ \A j \in Steps(s0, t) : Contains(ls[j], Buddy(a, j))
PROOF
  <1>1. PICK l : l = IF t = PAGE THEN k ELSE [k EXCEPT ![t] = <<b>> \o @]
    OBVIOUS
  <1>2. l = [j \in Sizeno |-> l[j]]
    BY <1>1 DEF Unlinked
  <1>3. ASSUME NEW j \in Sizeno
        PROVE  ListOf(g, l[j], j) /\ (j \in Steps(s0, t) => Contains(ls[j], Buddy(a, j)))
    <2>1. PICK m : m = ls[j]
      OBVIOUS
    <2>2. ListOf(h, m, j)
      BY <2>1 DEF Listed
    <2>3. /\ ListOf(g, IF j \in Steps(s0, t) THEN RemoveFirst(m, Buddy(a, j))
                       ELSE IF j = t THEN <<b>> \o m ELSE m, j)
          /\ j \in Steps(s0, t) => Contains(m, Buddy(a, j))
      BY <2>2, MergeList
    <2>4. j = t => t # PAGE
      BY LevelSizeno
    <2>5. j \in Steps(s0, t) => j # t
      <3>1. s0 \in Level
        BY HeaderTypes
      <3> QED
        BY <3>1, StepLevels, LevelOrder
    <2>6. k[j] = IF j \in Steps(s0, t) THEN RemoveFirst(m, Buddy(a, j)) ELSE m
      BY <2>1 DEF Unlinked
    <2>7. l[j] = IF j = t THEN <<b>> \o k[j] ELSE k[j]
      <3>1. CASE t = PAGE
        BY <1>1, <2>4, <3>1
      <3>2. CASE t # PAGE
        <4>1. t \in Sizeno
          BY <3>2, LevelSizeno
        <4> QED
          BY <1>1, <3>2, <4>1 DEF Unlinked
      <3> QED
        BY <3>1, <3>2
    <2>8. l[j] = IF j \in Steps(s0, t) THEN RemoveFirst(m, Buddy(a, j))
                 ELSE IF j = t THEN <<b>> \o m ELSE m
      BY <2>5, <2>6, <2>7
    <2> QED
      BY <2>1, <2>3, <2>8
  <1>4. Listed(g, l)
    BY <1>2, <1>3 DEF Listed
  <1>5. ASSUME NEW j \in Steps(s0, t) PROVE Contains(ls[j], Buddy(a, j))
    <2>1. j \in Sizeno
      BY LevelsBelow
    <2> QED
      BY <1>3, <2>1
  <1> QED
    BY <1>1, <1>4, <1>5

LEMMA FreeCounts ==
  ASSUME NEW h, NEW G, G \subseteq Slot, Tiled(h, G), NEW c, NEW d, CountsOf(h, G, c, d),
         NEW a \in Unit, NEW s0 \in Sizeno, NEW t \in Level, Joined(h, a, s0, t), NEW g, NEW b,
         b = Base(a, t), MergeOf(g, h, b, t), NEW K, K \subseteq G, Tiled(g, K)
  PROVE  CountsOf(g, K, [c EXCEPT ![page(a)] = PH_add(@, merge_count(s0, t))],
                        [d EXCEPT ![page(a)] = PH_add(@, Minus(One(s0)))])
PROOF
  <1>1. PICK p : p = page(a)
    OBVIOUS
  <1>2. p \in Slot
    BY <1>1, UnitPage, UnitNat
  <1>0. PICK e : e = c[p]
    OBVIOUS
  <1>00. PICK f : f = d[p]
    OBVIOUS
  <1>3. PICK cc : cc = [c EXCEPT ![p] = PH_add(e, merge_count(s0, t))]
    OBVIOUS
  <1>4. PICK dd : dd = [d EXCEPT ![p] = PH_add(f, Minus(One(s0)))]
    OBVIOUS
  <1>5. c = [r \in Slot |-> c[r]] /\ d = [r \in Slot |-> d[r]]
    BY DEF CountsOf
  <1>6. /\ cc = [r \in Slot |-> cc[r]] /\ dd = [r \in Slot |-> dd[r]]
        /\ cc[p] = PH_add(e, merge_count(s0, t)) /\ dd[p] = PH_add(f, Minus(One(s0)))
        /\ \A r \in Slot : r # p => cc[r] = c[r] /\ dd[r] = d[r]
    BY <1>2, <1>3, <1>4, <1>5
  <1>7. ASSUME NEW r \in K, NEW j \in Sizeno
        PROVE  /\ cc[r][j] = Cardinality(BlocksAt(g, r, j))
               /\ dd[r][j] = Cardinality(UsedIn(g, r, j))
    <2>0. r \in G /\ r \in Slot
      OBVIOUS
    <2>1. /\ merge_count(s0, t)[j] \in Int /\ Minus(One(s0))[j] \in Int
          /\ Cardinality(BlocksAt(g, page(a), j)) =
               Cardinality(BlocksAt(h, page(a), j)) + merge_count(s0, t)[j]
          /\ Cardinality(UsedIn(g, page(a), j)) =
               Cardinality(UsedIn(h, page(a), j)) + Minus(One(s0))[j]
          /\ \A q : q # page(a) => BlocksAt(g, q, j) = BlocksAt(h, q, j)
                                   /\ UsedIn(g, q, j) = UsedIn(h, q, j)
      BY MergeCounts
    <2>2. c[r][j] = Cardinality(BlocksAt(h, r, j)) /\ d[r][j] = Cardinality(UsedIn(h, r, j))
      BY <2>0 DEF CountsOf
    <2>3. CASE r = p
      <3>1. PICK x1 \in Nat : x1 = Cardinality(BlocksAt(h, p, j))
        BY CountBound
      <3>2. PICK x2 \in Nat : x2 = Cardinality(UsedIn(h, p, j))
        BY CountBound
      <3>3. PICK y1 \in Nat : y1 = Cardinality(BlocksAt(g, p, j)) /\ y1 < 2^Width(j)
        BY CountBound
      <3>4. PICK y2 \in Nat : y2 = Cardinality(UsedIn(g, p, j)) /\ y2 < 2^Width(j)
        <4>1. /\ Cardinality(UsedIn(g, p, j)) \in Nat
              /\ Cardinality(UsedIn(g, p, j)) <= Cardinality(BlocksAt(g, p, j))
          BY CountBound
        <4>2. 2^Width(j) \in Nat
          <5>1. Width(j) = 8 \/ Width(j) = 4
            BY DEF Width
          <5>2. 2^8 \in Nat /\ 2^4 \in Nat
            OBVIOUS
          <5> QED
            BY <5>1, <5>2
        <4> QED
          BY <3>3, <4>1, <4>2
      <3>5. e[j] = x1 /\ f[j] = x2
        BY <1>0, <1>00, <2>2, <2>3, <3>1, <3>2
      <3>6. PICK s1 \in Int : s1 = merge_count(s0, t)[j] /\ x1 + s1 = y1
        BY <1>1, <2>1, <3>1, <3>3
      <3>7. PICK s2 \in Int : s2 = Minus(One(s0))[j] /\ x2 + s2 = y2
        BY <1>1, <2>1, <3>2, <3>4
      <3>8. PH_add(e, merge_count(s0, t))[j] = y1
        BY <3>3, <3>5, <3>6, FieldSum
      <3>9. PH_add(f, Minus(One(s0)))[j] = y2
        BY <3>4, <3>5, <3>7, FieldSum
      <3> QED
        BY <1>6, <2>3, <3>3, <3>4, <3>8, <3>9
    <2>4. CASE r # p
      BY <1>1, <1>6, <2>0, <2>1, <2>2, <2>4
    <2> QED
      BY <2>3, <2>4
  <1>8. CountsOf(g, K, cc, dd)
    BY <1>6, <1>7 DEF CountsOf
  <1>9. /\ cc = [c EXCEPT ![p] = PH_add(@, merge_count(s0, t))]
        /\ dd = [d EXCEPT ![p] = PH_add(@, Minus(One(s0)))]
    BY <1>0, <1>00, <1>3, <1>4
  <1> QED
    BY <1>1, <1>8, <1>9

LEMMA FreeOwners ==
  ASSUME NEW h, NEW G, Tiled(h, G), NEW z, Owners(h, z), NEW a \in Unit, NEW s0 \in Sizeno,
         NEW t \in Level, Joined(h, a, s0, t), NEW g, NEW b, b = Base(a, t), MergeOf(g, h, b, t)
  PROVE  Owners(g, [z EXCEPT ![a] = -1])
PROOF
  <1>1. PICK y : y = [z EXCEPT ![a] = -1]
    OBVIOUS
  <1>2. z \in [Unit -> Sizes \cup {-1}]
    BY DEF Owners
  <1>3. y \in [Unit -> Sizes \cup {-1}] /\ y[a] = -1 /\ \A x \in Unit : x # a => y[x] = z[x]
    BY <1>1, <1>2
  <1>4. \A x \in Unit : \A j \in Sizeno : UsedAt(g, x, j) <=> x # a /\ UsedAt(h, x, j)
    BY MergeHeaders
  <1>5. ASSUME NEW x \in Unit PROVE y[x] # -1 <=> \E j \in Sizeno : UsedAt(g, x, j)
    <2>1. z[x] # -1 <=> \E j \in Sizeno : UsedAt(h, x, j)
      BY DEF Owners
    <2> QED
      BY <1>3, <1>4, <2>1
  <1>6. ASSUME NEW x \in Unit, NEW j \in Sizeno, UsedAt(g, x, j) PROVE Fits(j, y[x])
    <2>1. x # a /\ UsedAt(h, x, j)
      BY <1>4, <1>6
    <2>2. Fits(j, z[x])
      BY <2>1 DEF Owners
    <2> QED
      BY <1>3, <2>1, <2>2
  <1>7. Owners(g, y)
    BY <1>3, <1>5, <1>6 DEF Owners
  <1> QED
    BY <1>1, <1>7

\* kfree: the used block at a is joined with its free buddies up to sizeno t.
LEMMA FreeOk ==
  ASSUME NEW h, NEW G, NEW ls, NEW c, NEW d, NEW z, HeapOk(h, G, ls, c, d, z),
         NEW a \in Unit, NEW s0 \in Sizeno, NEW t \in Level, Joined(h, a, s0, t),
         NEW g, MergeOf(g, h, Base(a, t), t),
         NEW k, k = Unlinked(ls, a, s0, t)
  PROVE  /\ HeapOk(g, IF t = PAGE THEN G \ {page(a)} ELSE G,
                   IF t = PAGE THEN k ELSE [k EXCEPT ![t] = <<Base(a, t)>> \o @],
                   [c EXCEPT ![page(a)] = PH_add(@, merge_count(s0, t))],
                   [d EXCEPT ![page(a)] = PH_add(@, Minus(One(s0)))],
                   [z EXCEPT ![a] = -1])
         /\ \A j \in Steps(s0, t) : Contains(ls[j], Buddy(a, j))
         /\ page(a) \in G
PROOF
  <1>1. /\ G \subseteq Slot /\ Tiled(h, G) /\ NoBuddies(h) /\ Listed(h, ls)
        /\ CountsOf(h, G, c, d) /\ Owners(h, z)
    BY DEF HeapOk
  <1>2. PICK b : b = Base(a, t)
    OBVIOUS
  <1>3. MergeOf(g, h, b, t)
    BY <1>2
  <1>4. PICK K : K = IF t = PAGE THEN G \ {page(a)} ELSE G
    OBVIOUS
  <1>5. Tiled(g, K) /\ K \subseteq G /\ K \subseteq Slot
    <2>1. Tiled(g, K)
      BY <1>1, <1>2, <1>3, <1>4, MergeTiled
    <2> QED
      BY <1>1, <1>4, <2>1
  <1>6. NoBuddies(g)
    BY <1>1, <1>2, <1>3, MergeNoBuddies
  <1>7. /\ Listed(g, IF t = PAGE THEN k ELSE [k EXCEPT ![t] = <<b>> \o @])
        /\ \A j \in Steps(s0, t) : Contains(ls[j], Buddy(a, j))
    BY <1>1, <1>2, <1>3, FreeLists
  <1>8. CountsOf(g, K, [c EXCEPT ![page(a)] = PH_add(@, merge_count(s0, t))],
                       [d EXCEPT ![page(a)] = PH_add(@, Minus(One(s0)))])
    BY <1>1, <1>2, <1>3, <1>5, FreeCounts
  <1>9. Owners(g, [z EXCEPT ![a] = -1])
    BY <1>1, <1>2, <1>3, FreeOwners
  <1>10. HeapOk(g, K, IF t = PAGE THEN k ELSE [k EXCEPT ![t] = <<b>> \o @],
                [c EXCEPT ![page(a)] = PH_add(@, merge_count(s0, t))],
                [d EXCEPT ![page(a)] = PH_add(@, Minus(One(s0)))],
                [z EXCEPT ![a] = -1])
    BY <1>5, <1>6, <1>7, <1>8, <1>9 DEF HeapOk
  <1>11. page(a) \in G
    BY <1>1, JoinedSelf
  <1> QED
    BY <1>2, <1>4, <1>7, <1>10, <1>11

-----------------------------------------------------------------------------
(* The invariant, and the actions that keep it.                            *)

IInv ==
  /\ HeapOk(hdr, heap, sizes, count, count_used, size)
  /\ FrameInv(pm, maps)
  /\ heap \subseteq pm.bits
  /\ AssertionsHold
  /\ NullOnlyWhenFull

LEMMA MinFacts ==
  ASSUME NEW I \in SUBSET Nat, I # {}
  PROVE  Min(I) \in I /\ \A y \in I : Min(I) <= y
  BY LeastNatural DEF Min

LEMMA SizenoLast == LAST_SIZENO \in Sizeno /\ Sizeno \subseteq Nat /\ Sizeno \subseteq Level
  BY KmallocAssumption, HeaderTypes DEF Sizeno

LEMMA UygunFacts ==
  ASSUME NEW n, Fits(LAST_SIZENO, n)
  PROVE  uygun_sizeno(n) \in Sizeno /\ Fits(uygun_sizeno(n), n)
PROOF
  <1>1. PICK I : I = {i \in Sizeno : Fits(i, n)}
    OBVIOUS
  <1>2. I \in SUBSET Nat /\ I # {}
    BY <1>1, SizenoLast
  <1>3. Min(I) \in I
    BY <1>2, MinFacts
  <1>4. uygun_sizeno(n) = Min(I)
    BY <1>1 DEF uygun_sizeno
  <1> QED
    BY <1>1, <1>3, <1>4

LEMMA SourceFacts ==
  ASSUME NEW n, Fits(LAST_SIZENO, n), NEW u, u = uygun_sizeno(n), NEW i, i = Source(n)
  PROVE  /\ u \in Sizeno /\ Fits(u, n) /\ i \in Level /\ u <= i
         /\ \A j \in Steps(u, i) : j \in Sizeno /\ sizes[j] = <<>>
         /\ i # PAGE => sizes[i] # <<>>
PROOF
  <1>1. u \in Sizeno /\ Fits(u, n) /\ u \in Level /\ u \in Nat
    BY UygunFacts, SizenoLast
  <1>2. PICK S : S = {j \in u .. LAST_SIZENO : sizes[j] # <<>>} \cup {PAGE}
    OBVIOUS
  <1>3. i = Min(S)
    BY <1>2 DEF Source
  <1>4. /\ PAGE \in Level /\ PAGE \in Nat /\ u < PAGE
        /\ \A j : j \in u .. LAST_SIZENO <=> j \in Level /\ u <= j /\ j < PAGE
    <2>1. LAST_SIZENO \in Nat /\ PAGE = LAST_SIZENO + 1
      BY KmallocAssumption DEF PAGE
    <2>2. u \in 0 .. LAST_SIZENO
      BY <1>1 DEF Sizeno
    <2> QED
      BY <2>1, <2>2 DEF Level
  <1>5. S \in SUBSET Nat /\ S # {} /\ S \subseteq Level
    <2>1. Level \subseteq Nat
      BY DEF Level
    <2> QED
      BY <1>2, <1>4, <2>1
  <1>6. i \in S /\ \A y \in S : i <= y
    BY <1>3, <1>5, MinFacts
  <1>7. i \in Level /\ u <= i
    BY <1>1, <1>2, <1>4, <1>5, <1>6, LevelOrder
  <1>8. ASSUME NEW j \in Steps(u, i) PROVE j \in Sizeno /\ sizes[j] = <<>>
    <2>1. j \in Level /\ j < i /\ u <= j /\ j < PAGE
      BY <1>1, <1>7, StepLevels
    <2>2. j \in Sizeno
      BY <2>1, HeaderTypes
    <2>3. ~(i <= j)
      BY <1>7, <2>1, LevelOrder
    <2>4. j \notin S
      BY <1>6, <2>3
    <2>5. j \in u .. LAST_SIZENO
      BY <1>4, <2>1
    <2> QED
      BY <1>2, <2>2, <2>4, <2>5
  <1> QED
    BY <1>1, <1>2, <1>6, <1>7, <1>8

\* Live allocations are the used blocks.
LEMMA LiveUsed ==
  ASSUME HeapOk(hdr, heap, sizes, count, count_used, size), NEW x
  PROVE  x \in Live <=> x \in Heads(hdr) /\ hdr[x].used
PROOF
  <1>1. hdr \in [Unit -> Hdr] /\ Owners(hdr, size)
    BY DEF HeapOk, Tiled
  <1>2. x \in Unit => (size[x] # -1 <=> \E j \in Sizeno : UsedAt(hdr, x, j))
    BY <1>1 DEF Owners
  <1>3. ASSUME x \in Unit, NEW j \in Sizeno, UsedAt(hdr, x, j)
        PROVE  x \in Heads(hdr) /\ hdr[x].used
    <2>1. hdr[x] = Header(TRUE, j)
      BY <1>3 DEF UsedAt
    <2>2. hdr[x] # NoHeader /\ hdr[x].used = TRUE
      BY <2>1, HeaderFields
    <2> QED
      BY <1>3, <2>2 DEF Heads
  <1>4. ASSUME x \in Heads(hdr), hdr[x].used
        PROVE  x \in Unit /\ \E j \in Sizeno : UsedAt(hdr, x, j)
    <2>1. /\ x \in Unit /\ hdr[x].used \in BOOLEAN /\ hdr[x].sizeno \in Sizeno
          /\ hdr[x] = Header(hdr[x].used, hdr[x].sizeno)
      BY <1>1, <1>4, HeadType
    <2>2. UsedAt(hdr, x, hdr[x].sizeno)
      BY <1>4, <2>1 DEF UsedAt
    <2> QED
      BY <2>1, <2>2
  <1> QED
    BY <1>2, <1>3, <1>4 DEF Live

LEMMA KmallocStep ==
  ASSUME IInv, NEW n \in Sizes, kmalloc(n)
  PROVE  /\ IInv'
         /\ \E a \in Unit : a \notin Live /\ size' = [size EXCEPT ![a] = n]
PROOF
  <1>1. PICK u : u = uygun_sizeno(n)
    OBVIOUS
  <1>2. PICK i : i = Source(n)
    OBVIOUS
  <1>3. PICK a : a = IF i = PAGE THEN tmp_page_get(pm) * pow2[PAGE] ELSE Head(sizes[i])
    OBVIOUS
  <1>4. PICK e : e = Before(count, a, i)
    OBVIOUS
  <1>5. PICK f : f = Before(count_used, a, i)
    OBVIOUS
  <1>6. PICK rest : rest = Rest(sizes, i)
    OBVIOUS
  <1>7. /\ Fits(LAST_SIZENO, n)
        /\ i = PAGE => TmpAvailable(pm)
        /\ pm' = IF i = PAGE THEN tmp_page_alloc_map(pm) ELSE pm
        /\ heap' = heap \cup {page(a)}
        /\ sizes' = split(rest, a, i, u)
        /\ hdr' = split_hdr(hdr, a, i, u)
        /\ count' = [count EXCEPT ![page(a)] = PH_add(e, split_count(i, u))]
        /\ count_used' = [count_used EXCEPT ![page(a)] = PH_add(f, One(u))]
        /\ size' = [size EXCEPT ![a] = n]
        /\ panic' = IF /\ pm'.ok
                       /\ i = PAGE \/ hdr[a] = Header(FALSE, i)
                       /\ \A j \in Steps(u, i) : e[j] = f[j]
                    THEN "none" ELSE "kmalloc"
        /\ failed' = -1
        /\ maps' = maps
    BY <1>1, <1>2, <1>3, <1>4, <1>5, <1>6 DEF kmalloc, Steps, Rest, Before
  <1>8. /\ HeapOk(hdr, heap, sizes, count, count_used, size)
        /\ FrameInv(pm, maps) /\ heap \subseteq pm.bits
        /\ Tiled(hdr, heap) /\ Listed(hdr, sizes) /\ hdr \in [Unit -> Hdr] /\ heap \subseteq Slot
    BY DEF IInv, HeapOk, Tiled
  <1>9. /\ u \in Sizeno /\ Fits(u, n) /\ i \in Level /\ u <= i
        /\ \A j \in Steps(u, i) : j \in Sizeno /\ sizes[j] = <<>>
        /\ i # PAGE => sizes[i] # <<>>
    BY <1>1, <1>2, <1>7, SourceFacts
  <1>10. /\ FrameInv(pm', maps)
         /\ i = PAGE => /\ tmp_page_get(pm) \in Slot /\ tmp_page_get(pm) \notin pm.bits
                        /\ pm'.bits = pm.bits \cup {tmp_page_get(pm)}
         /\ i # PAGE => pm'.bits = pm.bits
    BY <1>7, <1>8, TmpAllocInv
  <1>11. /\ a \in Unit /\ TakenFrom(hdr, heap, sizes, a, i)
         /\ i = PAGE => page(a) = tmp_page_get(pm)
    <2>1. CASE i = PAGE
      <3>1. a = tmp_page_get(pm) * pow2[PAGE]
        BY <1>3, <2>1
      <3>2. a \in Unit /\ page(a) = tmp_page_get(pm) /\ Aligned(a, PAGE)
        BY <1>10, <2>1, <3>1, SlotUnit
      <3>3. page(a) \notin heap
        BY <1>8, <1>10, <2>1, <3>2
      <3> QED
        BY <2>1, <3>2, <3>3 DEF TakenFrom
    <2>2. CASE i # PAGE
      <3>1. a = Head(sizes[i]) /\ sizes[i] # <<>> /\ i \in Sizeno
        BY <1>3, <1>9, <2>2, LevelSizeno
      <3>2. ListOf(hdr, sizes[i], i)
        BY <1>8, <3>1 DEF Listed
      <3>3. a \in Unit
        BY <3>1, <3>2, TailList DEF ListOf
      <3> QED
        BY <2>2, <3>1, <3>3 DEF TakenFrom
    <2> QED
      BY <2>1, <2>2
  <1>12. /\ HeapOk(hdr', heap', sizes', count', count_used', size')
         /\ PageCounts(hdr, a, e, f)
         /\ i # PAGE => hdr[a] = Header(FALSE, i)
    <2>1. /\ HeapOk(hdr, heap, sizes, count, count_used, size)
          /\ a \in Unit /\ i \in Level /\ u \in Sizeno /\ u <= i
          /\ TakenFrom(hdr, heap, sizes, a, i) /\ n \in Sizes /\ Fits(u, n)
      BY <1>8, <1>9, <1>11
    <2>2. /\ AllocatedOk(hdr, heap, sizes, count, count_used, size, a, i, u, n)
          /\ PageCounts(hdr, a, Before(count, a, i), Before(count_used, a, i))
          /\ i # PAGE => hdr[a] = Header(FALSE, i)
      BY <2>1, AllocOk
    <2> QED
      BY <1>4, <1>5, <1>6, <1>7, <2>2 DEF AllocatedOk
  <1>13. heap' \subseteq pm'.bits
    <2>1. CASE i = PAGE
      BY <1>7, <1>8, <1>10, <1>11, <2>1
    <2>2. CASE i # PAGE
      <3>1. page(a) \in heap
        <4>1. /\ heap \subseteq Slot /\ Tiled(hdr, heap) /\ Listed(hdr, sizes)
              /\ a \in Unit /\ i \in Level /\ TakenFrom(hdr, heap, sizes, a, i)
          BY <1>8, <1>9, <1>11
        <4>2. page(a) \in heap \/ i = PAGE
          BY <4>1, TakenBlock
        <4> QED
          BY <2>2, <4>2
      <3> QED
        BY <1>7, <1>8, <1>10, <2>2, <3>1
    <2> QED
      BY <2>1, <2>2
  <1>14. panic' = "none"
    <2>1. pm'.ok
      BY <1>10 DEF FrameInv
    <2>2. \A j \in Steps(u, i) : e[j] = f[j]
      <3>1. SUFFICES ASSUME NEW j \in Steps(u, i) PROVE e[j] = f[j]
        OBVIOUS
      <3>2. j \in Sizeno /\ sizes[j] = <<>>
        BY <1>9
      <3>3. BlocksAt(hdr, page(a), j) = UsedIn(hdr, page(a), j)
        BY <1>8, <3>2, NoFreeBlock
      <3> QED
        BY <1>12, <3>2, <3>3 DEF PageCounts
    <2> QED
      BY <1>7, <1>12, <2>1, <2>2
  <1>15. AssertionsHold' /\ NullOnlyWhenFull'
    BY <1>7, <1>14 DEF AssertionsHold, NullOnlyWhenFull
  <1>16. FrameInv(pm', maps')
    BY <1>7, <1>10
  <1>17. a \notin Live
    <2>1. CASE i = PAGE
      <3>1. a \notin Heads(hdr)
        <4>1. /\ heap \subseteq Slot /\ Tiled(hdr, heap) /\ Listed(hdr, sizes)
              /\ a \in Unit /\ i \in Level /\ TakenFrom(hdr, heap, sizes, a, i)
          BY <1>8, <1>9, <1>11
        <4> QED
          BY <2>1, <4>1, TakenBlock
      <3> QED
        BY <1>8, <3>1, LiveUsed
    <2>2. CASE i # PAGE
      <3>1. i \in Sizeno /\ hdr[a] = Header(FALSE, i)
        BY <1>9, <1>12, <2>2, LevelSizeno
      <3>2. hdr[a].used = FALSE
        BY <3>1, HeaderFields
      <3> QED
        BY <1>8, <3>2, LiveUsed
    <2> QED
      BY <2>1, <2>2
  <1>18. IInv'
    BY <1>12, <1>13, <1>15, <1>16 DEF IInv
  <1> QED
    BY <1>7, <1>11, <1>17, <1>18

\* The loop over merge() in kfree
LEMMA MergedFacts ==
  ASSUME NEW a, NEW s0 \in Sizeno, NEW t, t = merged(a, s0)
  PROVE  /\ t \in Level /\ s0 <= t
         /\ \A j \in Steps(s0, t) : hdr[Buddy(a, j)] = Header(FALSE, j)
         /\ t < PAGE => hdr[Buddy(a, t)] # Header(FALSE, t)
PROOF
  <1>1. PICK S : S = {k \in s0 .. PAGE : ~Mergeable(a, k)}
    OBVIOUS
  <1>2. s0 \in Level /\ s0 < PAGE /\ PAGE \in Level
    BY HeaderTypes, PageLevel
  <1>3. \A k : k \in s0 .. PAGE <=> k \in Level /\ s0 <= k
    <2>1. PAGE \in Nat /\ s0 \in 0 .. PAGE
      BY <1>2, Pow2Def DEF Level
    <2> QED
      BY <2>1 DEF Level
  <1>4. PAGE \in S
    <2>0. ~(PAGE < PAGE)
      BY Pow2Def
    <2>1. ~Mergeable(a, PAGE)
      BY <2>0 DEF Mergeable
    <2>2. s0 <= PAGE
      BY <1>2, LevelOrder
    <2> QED
      BY <1>1, <1>2, <1>3, <2>1, <2>2
  <1>5. S \in SUBSET Nat /\ S \subseteq Level
    <2>1. Level \subseteq Nat
      BY DEF Level
    <2> QED
      BY <1>1, <1>3, <2>1
  <1>6. t = Min(S)
    BY <1>1 DEF merged
  <1>7. t \in S /\ \A y \in S : t <= y
    BY <1>4, <1>5, <1>6, MinFacts
  <1>8. t \in Level /\ s0 <= t /\ ~Mergeable(a, t)
    BY <1>1, <1>3, <1>7
  <1>9. ASSUME NEW j \in Steps(s0, t) PROVE hdr[Buddy(a, j)] = Header(FALSE, j)
    <2>1. j \in Level /\ j < t /\ s0 <= j
      BY <1>2, <1>8, StepLevels
    <2>2. ~(t <= j)
      BY <1>8, <2>1, LevelOrder
    <2>3. j \notin S /\ j \in s0 .. PAGE
      BY <1>3, <1>7, <2>1, <2>2
    <2>4. Mergeable(a, j)
      BY <1>1, <2>3
    <2> QED
      BY <2>4 DEF Mergeable, Buddy
  <1> QED
    BY <1>8, <1>9 DEF Mergeable, Buddy

LEMMA MergeHdr ==
  ASSUME hdr \in [Unit -> Hdr], NEW a \in Unit, NEW t \in Level
  PROVE  MergeOf(merge_hdr(a, t), hdr, Base(a, t), t)
PROOF
  <1>1. PICK g : g = merge_hdr(a, t)
    OBVIOUS
  <1>2. PICK b : b = Base(a, t)
    OBVIOUS
  <1>3. b \in Unit /\ Base(b, t) = b
    BY <1>2, BaseInPage DEF Aligned
  <1>4. g = [x \in Unit |-> IF x = b /\ t < PAGE THEN Header(FALSE, t)
                            ELSE IF Base(x, t) = b THEN NoHeader ELSE hdr[x]]
    BY <1>1, <1>2 DEF merge_hdr
  <1>5. NoHeader \in Hdr /\ (t < PAGE => Header(FALSE, t) \in Hdr)
    <2>1. t < PAGE => t \in Sizeno
      BY HeaderTypes
    <2> QED
      BY <2>1, HeaderFields DEF Hdr
  <1>6. g \in [Unit -> Hdr]
    BY <1>4, <1>5
  <1>7. MergeOf(g, hdr, b, t)
    BY <1>3, <1>4, <1>6 DEF MergeOf
  <1> QED
    BY <1>1, <1>2, <1>7

LEMMA KfreeStep ==
  ASSUME IInv, NEW a \in Unit, kfree(a)
  PROVE  IInv'
PROOF
  <1>1. PICK s0 : s0 = hdr[a].sizeno
    OBVIOUS
  <1>2. PICK t : t = merged(a, s0)
    OBVIOUS
  <1>3. PICK k : k = Unlinked(sizes, a, s0, t)
    OBVIOUS
  <1>4. merge(a, s0, t) = k
    BY <1>3 DEF merge, Unlinked, Steps, Buddy
  <1>5. /\ size[a] # -1
        /\ hdr' = merge_hdr(a, t)
        /\ sizes' = IF t = PAGE THEN k ELSE [k EXCEPT ![t] = <<Base(a, t)>> \o @]
        /\ count' = [count EXCEPT ![page(a)] = PH_add(@, merge_count(s0, t))]
        /\ count_used' = [count_used EXCEPT ![page(a)] = PH_add(@, Minus(One(s0)))]
        /\ heap' = IF t = PAGE THEN heap \ {page(a)} ELSE heap
        /\ pm' = IF t = PAGE THEN tmp_page_free(pm, page(a)) ELSE pm
        /\ size' = [size EXCEPT ![a] = -1]
        /\ panic' = IF /\ hdr[a].used
                       /\ \A j \in Steps(s0, t) : Contains(sizes[j], Buddy(a, j))
                       /\ pm'.ok
                    THEN "none" ELSE "kfree"
        /\ failed' = -1
        /\ maps' = maps
    BY <1>1, <1>2, <1>4 DEF kfree, Steps, Buddy
  <1>6. /\ HeapOk(hdr, heap, sizes, count, count_used, size)
        /\ FrameInv(pm, maps) /\ heap \subseteq pm.bits
        /\ Owners(hdr, size) /\ hdr \in [Unit -> Hdr]
    BY DEF IInv, HeapOk, Tiled
  <1>7. s0 \in Sizeno /\ hdr[a] = Header(TRUE, s0) /\ hdr[a].used = TRUE
    <2>1. PICK j \in Sizeno : hdr[a] = Header(TRUE, j)
      BY <1>5, <1>6 DEF Owners, UsedAt
    <2>2. hdr[a].used = TRUE /\ hdr[a].sizeno = j
      BY <2>1, HeaderFields
    <2> QED
      BY <1>1, <2>1, <2>2
  <1>8. /\ t \in Level /\ s0 <= t
        /\ \A j \in Steps(s0, t) : hdr[Buddy(a, j)] = Header(FALSE, j)
        /\ t < PAGE => hdr[Buddy(a, t)] # Header(FALSE, t)
    BY <1>2, <1>7, MergedFacts, ZenonT(30)
  <1>9. Joined(hdr, a, s0, t)
    BY <1>7, <1>8 DEF Joined
  <1>10. MergeOf(hdr', hdr, Base(a, t), t)
    BY <1>5, <1>6, <1>8, MergeHdr
  <1>11. /\ HeapOk(hdr', heap', sizes', count', count_used', size')
         /\ \A j \in Steps(s0, t) : Contains(sizes[j], Buddy(a, j))
         /\ page(a) \in heap
    <2>1. PICK g : g = hdr'
      OBVIOUS
    <2>2. /\ HeapOk(g, IF t = PAGE THEN heap \ {page(a)} ELSE heap,
                    IF t = PAGE THEN k ELSE [k EXCEPT ![t] = <<Base(a, t)>> \o @],
                    [count EXCEPT ![page(a)] = PH_add(@, merge_count(s0, t))],
                    [count_used EXCEPT ![page(a)] = PH_add(@, Minus(One(s0)))],
                    [size EXCEPT ![a] = -1])
          /\ \A j \in Steps(s0, t) : Contains(sizes[j], Buddy(a, j))
          /\ page(a) \in heap
      BY <1>3, <1>6, <1>7, <1>8, <1>9, <1>10, <2>1, FreeOk
    <2> QED
      BY <1>5, <2>1, <2>2
  <1>12. FrameInv(pm', maps) /\ heap' \subseteq pm'.bits
    <2>1. CASE t = PAGE
      <3>1. page(a) \in pm.bits
        BY <1>6, <1>11
      <3>2. FrameInv(tmp_page_free(pm, page(a)), maps)
            /\ tmp_page_free(pm, page(a)).bits = pm.bits \ {page(a)}
        BY <1>6, <3>1, TmpFreeInv
      <3> QED
        BY <1>5, <1>6, <2>1, <3>2
    <2>2. CASE t # PAGE
      BY <1>5, <1>6, <2>2
    <2> QED
      BY <2>1, <2>2
  <1>13. panic' = "none"
    <2>1. pm'.ok
      BY <1>12 DEF FrameInv
    <2> QED
      BY <1>5, <1>7, <1>11, <2>1
  <1>14. AssertionsHold' /\ NullOnlyWhenFull'
    BY <1>5, <1>13 DEF AssertionsHold, NullOnlyWhenFull
  <1>15. FrameInv(pm', maps')
    BY <1>5, <1>12
  <1> QED
    BY <1>11, <1>12, <1>14, <1>15 DEF IInv


\* The units of a block
LEMMA BlockCovers ==
  ASSUME NEW G, Tiled(hdr, G), NEW s \in Heads(hdr)
  PROVE  /\ \A x \in Nat : x \in Block(s) <=> Base(x, hdr[s].sizeno) = s
         /\ Block(s) \subseteq Nat /\ s \in Block(s) /\ s % pow2[hdr[s].sizeno] = 0
PROOF
  <1>1. PICK k : k = hdr[s].sizeno
    OBVIOUS
  <1>2. k \in Level /\ s \in Nat
    BY <1>1, HeadType DEF Tiled
  <1>3. Aligned(s, k)
    BY <1>1, CoversSelf
  <1>4. /\ \A x \in Nat : x \in s .. s + pow2[k] - 1 <=> Base(x, k) = s
        /\ s .. s + pow2[k] - 1 \subseteq Nat
        /\ s % pow2[k] = 0
    BY <1>2, <1>3, CellInterval
  <1>5. Base(s, k) = s
    BY <1>3 DEF Aligned
  <1> QED
    BY <1>1, <1>2, <1>4, <1>5 DEF Block

\* When no list from sizeno i on has a block, an aligned hole of that size is
\* taken.
LEMMA HoleTaken ==
  ASSUME HeapOk(hdr, heap, sizes, count, count_used, size),
         NEW i \in Sizeno, \A j \in Steps(i, PAGE) : sizes[j] = <<>>,
         NEW x \in Unit, x % pow2[i] = 0, page(x) \in heap
  PROVE  \E y \in Live : Block(y) \cap (x .. x + pow2[i] - 1) # {}
PROOF
  <1>1. Tiled(hdr, heap) /\ NoBuddies(hdr) /\ Listed(hdr, sizes) /\ hdr \in [Unit -> Hdr]
    BY DEF HeapOk, Tiled
  <1>2. x \in Nat /\ i \in Level /\ i < PAGE
    BY UnitNat, HeaderTypes
  <1>3. Aligned(x, i)
    BY <1>2, AlignedRemainder
  <1>4. \A y \in Nat : y \in x .. x + pow2[i] - 1 <=> Base(y, i) = x
    BY <1>2, <1>3, CellInterval
  <1>5. ASSUME NEW s \in Heads(hdr), Base(s, i) = x, hdr[s].used
        PROVE  \E y \in Live : Block(y) \cap (x .. x + pow2[i] - 1) # {}
    <2>1. s \in Live
      BY <1>5, LiveUsed
    <2>2. s \in Nat /\ s \in Block(s)
      BY <1>1, BlockCovers, HeadType
    <2>3. s \in x .. x + pow2[i] - 1
      BY <1>4, <1>5, <2>2
    <2> QED
      BY <2>1, <2>2, <2>3
  <1>6. ASSUME \A s \in Heads(hdr) : Base(s, i) = x => ~hdr[s].used
        PROVE  \E y \in Live : Block(y) \cap (x .. x + pow2[i] - 1) # {}
    <2>1. PICK s : Covers(hdr, s, x) /\ i <= hdr[s].sizeno
      BY <1>1, <1>2, <1>3, <1>6, FreeCell
    <2>2. s \in Heads(hdr) /\ Base(x, hdr[s].sizeno) = s
      BY <2>1 DEF Covers
    <2>3. PICK k : k = hdr[s].sizeno
      OBVIOUS
    <2>4. /\ k \in Level /\ k < PAGE /\ k \in Sizeno /\ s \in Unit
          /\ hdr[s].used \in BOOLEAN /\ hdr[s] = Header(hdr[s].used, k)
      BY <1>1, <2>2, <2>3, HeadType
    <2>5. hdr[s].used
      <3>1. SUFFICES ASSUME ~hdr[s].used PROVE FALSE
        OBVIOUS
      <3>2. FreeAt(hdr, s, k)
        BY <2>4, <3>1 DEF FreeAt
      <3>3. ListOf(hdr, sizes[k], k)
        BY <1>1, <2>4 DEF Listed
      <3>4. Contains(sizes[k], s)
        BY <2>4, <3>2, <3>3 DEF ListOf
      <3>5. k \in Steps(i, PAGE)
        BY <1>2, <2>1, <2>3, <2>4, StepLevels, PageLevel
      <3>6. sizes[k] = <<>>
        BY <3>5
      <3> QED
        BY <3>4, <3>6 DEF Contains
    <2>6. s \in Live
      BY <2>2, <2>5, LiveUsed
    <2>7. x \in Block(s)
      BY <1>1, <1>2, <2>2, BlockCovers
    <2>8. x \in x .. x + pow2[i] - 1
      BY <1>2, <1>3, <1>4 DEF Aligned
    <2> QED
      BY <2>6, <2>7, <2>8
  <1> QED
    BY <1>5, <1>6

LEMMA NoPageStep ==
  ASSUME IInv, NEW n \in Sizes, kmalloc_no_page(n)
  PROVE  IInv'
PROOF
  <1>1. /\ Fits(LAST_SIZENO, n) /\ Source(n) = PAGE /\ ~TmpAvailable(pm) /\ failed' = n
        /\ pm' = pm /\ maps' = maps /\ heap' = heap /\ hdr' = hdr /\ sizes' = sizes
        /\ count' = count /\ count_used' = count_used /\ size' = size /\ panic' = panic
    BY DEF kmalloc_no_page, heapVars
  <1>2. PICK u : u = uygun_sizeno(n)
    OBVIOUS
  <1>3. u \in Sizeno /\ \A j \in Steps(u, PAGE) : j \in Sizeno /\ sizes[j] = <<>>
    BY <1>1, <1>2, SourceFacts
  <1>4. HeapOk(hdr, heap, sizes, count, count_used, size)
    BY DEF IInv
  <1>5. ASSUME NEW x \in Unit, x % pow2[u] = 0, page(x) \in heap
        PROVE  \E y \in Live : Block(y) \cap (x .. x + pow2[u] - 1) # {}
    BY <1>3, <1>4, <1>5, HoleTaken
  <1>6. Live' = Live /\ \A y : Block(y)' = Block(y)
    BY <1>1 DEF Live, Block
  <1>7. ~TmpAvailable(pm')
    BY <1>1
  <1>8. NullOnlyWhenFull'
    BY <1>1, <1>2, <1>5, <1>6, <1>7 DEF NullOnlyWhenFull
  <1> QED
    BY <1>1, <1>8 DEF IInv, AssertionsHold

LEMMA TooLargeStep ==
  ASSUME IInv, NEW n \in Sizes, kmalloc_too_large(n)
  PROVE  IInv'
PROOF
  <1>1. /\ ~Fits(LAST_SIZENO, n) /\ failed' = n
        /\ pm' = pm /\ maps' = maps /\ heap' = heap /\ hdr' = hdr /\ sizes' = sizes
        /\ count' = count /\ count_used' = count_used /\ size' = size /\ panic' = panic
    BY DEF kmalloc_too_large, heapVars
  <1>2. NullOnlyWhenFull'
    BY <1>1 DEF NullOnlyWhenFull
  <1> QED
    BY <1>1, <1>2 DEF IInv, AssertionsHold

\* Steps of the rest of the kernel leave the heap as it is.
LEMMA OtherStep ==
  ASSUME IInv, UNCHANGED <<heapVars, panic>>, failed' = -1,
         FrameInv(pm', maps'), heap \subseteq pm'.bits
  PROVE  IInv'
PROOF
  <1>1. /\ heap' = heap /\ hdr' = hdr /\ sizes' = sizes
        /\ count' = count /\ count_used' = count_used /\ size' = size /\ panic' = panic
    BY DEF heapVars
  <1>2. NullOnlyWhenFull'
    BY DEF NullOnlyWhenFull
  <1> QED
    BY <1>1, <1>2 DEF IInv, AssertionsHold

LEMMA CountBits ==
  ASSUME NEW m, NEW w, FrameInv(m, w), NEW f \in Frame
  PROVE  /\ w[f] \in 1 .. MaxMaps - 1 => refcount_inc(m, f).bits = m.bits
         /\ w[f] > 0 => refcount_dec(m, f).bits = m.bits
PROOF
  <1>0. m \in PmType /\ w \in [Frame -> 0 .. MaxMaps]
    BY DEF FrameInv
  <1>1. refcount_inc(m, f).bits = m.bits
    BY <1>0 DEF refcount_inc, PmType
  <1>2. ASSUME w[f] > 0 PROVE refcount_dec(m, f).bits = m.bits
    <2>1. PICK k : k = w[f]
      OBVIOUS
    <2>2. k \in 1 .. MaxMaps /\ k # 0
      BY <1>0, <1>2, <2>1, KmallocAssumption
    <2>3. m.n[f] = k /\ ~m.free[f]
      BY <2>1, <2>2 DEF FrameInv, Referred
    <2>4. CASE k = 1
      <3>1. Put(refcount_dec(m, f), m, f)
        BY <2>3, <2>4, LastInv
      <3> QED
        BY <3>1 DEF Put
    <2>5. CASE k # 1
      <3>1. k \in 2 .. 2^20 - 1
        BY <2>2, <2>5, KmallocAssumption
      <3>2. Counted(refcount_dec(m, f), m, f, k - 1)
        BY <1>0, <2>3, <3>1, DropFields
      <3> QED
        BY <3>2 DEF Counted
    <2> QED
      BY <2>4, <2>5
  <1> QED
    BY <1>1, <1>2

\* The invariant holds initially and every step keeps it.
THEOREM Invariant == Spec => []IInv
PROOF
  <1>1. Init => IInv
    <2>1. SUFFICES ASSUME Init PROVE IInv
      OBVIOUS
    <2>2. FrameInv(pm, maps) /\ pm.bits = {} /\ heap = {}
      BY <2>1, InitFrames DEF Init
    <2>3. /\ hdr = [x \in Unit |-> NoHeader] /\ sizes = [i \in Sizeno |-> <<>>]
          /\ count = [s \in Slot |-> Zero] /\ count_used = [s \in Slot |-> Zero]
          /\ size = [x \in Unit |-> -1] /\ failed = -1 /\ panic = "none"
      BY <2>1 DEF Init
    <2>4. \A j \in Sizeno : Header(TRUE, j) # NoHeader /\ Header(FALSE, j) # NoHeader
      BY HeaderFields
    <2>5. hdr \in [Unit -> Hdr] /\ Heads(hdr) = {}
      BY <2>3 DEF Hdr, Heads
    <2>6. Tiled(hdr, heap) /\ NoBuddies(hdr)
      BY <2>2, <2>5 DEF Tiled, NoBuddies, Covers
    <2>7. Listed(hdr, sizes)
      <3>1. SUFFICES ASSUME NEW i \in Sizeno PROVE ListOf(hdr, sizes[i], i)
        BY <2>3 DEF Listed
      <3>2. sizes[i] = <<>>
        BY <2>3
      <3>3. <<>> \in Seq(Unit) /\ IsInjective(<<>>) /\ \A x : ~Contains(<<>>, x)
        BY DEF IsInjective, Contains
      <3>4. \A x \in Unit : ~FreeAt(hdr, x, i)
        BY <2>3, <2>4 DEF FreeAt
      <3> QED
        BY <3>2, <3>3, <3>4 DEF ListOf
    <2>8. CountsOf(hdr, heap, count, count_used)
      BY <2>2, <2>3 DEF CountsOf
    <2>9. Owners(hdr, size)
      BY <2>3, <2>4 DEF Owners, UsedAt
    <2>10. HeapOk(hdr, heap, sizes, count, count_used, size)
      BY <2>2, <2>6, <2>7, <2>8, <2>9 DEF HeapOk
    <2> QED
      BY <2>2, <2>3, <2>10 DEF IInv, AssertionsHold, NullOnlyWhenFull
  <1>2. IInv /\ [Next]_vars => IInv'
    <2>1. SUFFICES ASSUME IInv, [Next]_vars PROVE IInv'
      OBVIOUS
    <2>2. FrameInv(pm, maps) /\ heap \subseteq pm.bits
      BY <2>1 DEF IInv
    <2>3. ASSUME NEW n \in Sizes, kmalloc(n) \/ kmalloc_too_large(n) \/ kmalloc_no_page(n)
          PROVE  IInv'
      BY <2>1, <2>3, KmallocStep, TooLargeStep, NoPageStep
    <2>4. ASSUME NEW a \in Unit, kfree(a) PROVE IInv'
      BY <2>1, <2>4, KfreeStep
    <2>5. CASE user_insert
      <3>1. /\ pm.begin # NoFrame /\ pm' = refcount_inc(page_alloc(pm), pm.begin)
            /\ maps' = [maps EXCEPT ![pm.begin] = 1] /\ failed' = -1
            /\ UNCHANGED <<heapVars, panic>>
        BY <2>5 DEF user_insert
      <3>2. FrameInv(pm', maps')
        BY <2>2, <3>1, InsertInv
      <3>3. Taken(pm', pm, pm.begin)
        BY <2>2, <3>1, TakeInv
      <3>4. pm'.bits = pm.bits
        BY <3>3 DEF Taken
      <3> QED
        BY <2>1, <2>2, <3>1, <3>2, <3>4, OtherStep
    <2>6. ASSUME NEW f \in Frame, user_link(f) PROVE IInv'
      <3>1. /\ maps[f] \in 1 .. MaxMaps - 1 /\ pm' = refcount_inc(pm, f)
            /\ maps' = [maps EXCEPT ![f] = maps[f] + 1] /\ failed' = -1
            /\ UNCHANGED <<heapVars, panic>>
        BY <2>6 DEF user_link
      <3>2. FrameInv(pm', maps')
        BY <2>2, <3>1, LinkInv
      <3>3. pm'.bits = pm.bits
        BY <2>2, <3>1, CountBits
      <3> QED
        BY <2>1, <2>2, <3>1, <3>2, <3>3, OtherStep
    <2>7. ASSUME NEW f \in Frame, user_remove(f) PROVE IInv'
      <3>1. /\ maps[f] > 0 /\ pm' = refcount_dec(pm, f)
            /\ maps' = [maps EXCEPT ![f] = maps[f] - 1] /\ failed' = -1
            /\ UNCHANGED <<heapVars, panic>>
        BY <2>7 DEF user_remove
      <3>2. FrameInv(pm', maps')
        BY <2>2, <3>1, RemoveInv
      <3>3. pm'.bits = pm.bits
        BY <2>2, <3>1, CountBits
      <3> QED
        BY <2>1, <2>2, <3>1, <3>2, <3>3, OtherStep
    <2>8. CASE pde_alloc
      <3>1. /\ TmpAvailable(pm) /\ pm' = tmp_page_alloc_map(pm) /\ maps' = maps /\ failed' = -1
            /\ UNCHANGED <<heapVars, panic>>
        BY <2>8 DEF pde_alloc
      <3>2. FrameInv(pm', maps') /\ pm'.bits = pm.bits \cup {tmp_page_get(pm)}
        BY <2>2, <3>1, TmpAllocInv
      <3>3. heap \subseteq pm'.bits
        BY <2>2, <3>2
      <3> QED
        BY <2>1, <3>1, <3>2, <3>3, OtherStep
    <2>9. ASSUME NEW s \in Slot, pde_free(s) PROVE IInv'
      <3>1. /\ s \in pm.bits /\ s \notin heap /\ pm' = tmp_page_free(pm, s) /\ maps' = maps
            /\ failed' = -1 /\ UNCHANGED <<heapVars, panic>>
        BY <2>9 DEF pde_free
      <3>2. FrameInv(pm', maps') /\ pm'.bits = pm.bits \ {s}
        BY <2>2, <3>1, TmpFreeInv
      <3>3. heap \subseteq pm'.bits
        BY <2>2, <3>1, <3>2
      <3> QED
        BY <2>1, <3>1, <3>2, <3>3, OtherStep
    <2>10. CASE trap_return
      <3>1. /\ pm' = pm /\ maps' = maps /\ heap' = heap /\ hdr' = hdr /\ sizes' = sizes
            /\ count' = count /\ count_used' = count_used /\ size' = size /\ failed' = failed
            /\ panic' = "n_cli"
        BY <2>10 DEF trap_return, heapVars
      <3>2. Live' = Live /\ \A y : Block(y)' = Block(y)
        BY <3>1 DEF Live, Block
      <3>3. NullOnlyWhenFull'
        BY <2>1, <3>1, <3>2 DEF IInv, NullOnlyWhenFull
      <3> QED
        BY <2>1, <3>1, <3>3 DEF IInv, AssertionsHold
    <2>11. CASE UNCHANGED vars
      <3>1. /\ pm' = pm /\ maps' = maps /\ heap' = heap /\ hdr' = hdr /\ sizes' = sizes
            /\ count' = count /\ count_used' = count_used /\ size' = size /\ failed' = failed
            /\ panic' = panic
        BY <2>11 DEF vars
      <3>2. Live' = Live /\ \A y : Block(y)' = Block(y)
        BY <3>1 DEF Live, Block
      <3>3. NullOnlyWhenFull'
        BY <2>1, <3>1, <3>2 DEF IInv, NullOnlyWhenFull
      <3> QED
        BY <2>1, <3>1, <3>3 DEF IInv, AssertionsHold
    <2> QED
      BY <2>1, <2>3, <2>4, <2>5, <2>6, <2>7, <2>8, <2>9, <2>10, <2>11 DEF Next
  <1> QED
    BY <1>1, <1>2, PTL DEF Spec

-----------------------------------------------------------------------------
(* The properties.                                                         *)

LEMMA ListLength ==
  ASSUME NEW S, NEW q \in Seq(S), IsInjective(q), NEW T, \A f : Contains(q, f) <=> f \in T
  PROVE  /\ Cardinality(T) = Len(q) /\ q \in SetToSeqs(T)
         /\ {q[k] : k \in DOMAIN q} = T
PROOF
  <1>1. Len(q) \in Nat /\ DOMAIN q = 1 .. Len(q) /\ q = [k \in 1 .. Len(q) |-> q[k]]
    OBVIOUS
  <1>2. PICK n \in Nat : n = Len(q)
    BY <1>1
  <1>3. \A f : f \in T <=> \E k \in 1 .. n : q[k] = f
    BY <1>1, <1>2 DEF Contains
  <1>4. q \in [1 .. n -> T]
    BY <1>1, <1>2, <1>3
  <1>5. q \in Bijection(1 .. n, T)
    BY <1>3, <1>4 DEF Bijection, Injection, Surjection, IsInjective
  <1>6. ExistsBijection(1 .. n, T)
    BY <1>5 DEF ExistsBijection
  <1>7. IsFiniteSet(1 .. n) /\ Cardinality(1 .. n) = n
    BY IndexCount
  <1>8. Cardinality(T) = n
    BY <1>6, <1>7, FS_Bijection
  <1>9. \A i, j \in 1 .. n : i # j => q[i] # q[j]
    BY <1>1, <1>2 DEF IsInjective
  <1>10. q \in SetToSeqs(T)
    BY <1>4, <1>8, <1>9 DEF SetToSeqs
  <1>11. {q[k] : k \in DOMAIN q} = T
    BY <1>1, <1>2, <1>3
  <1> QED
    BY <1>2, <1>8, <1>10, <1>11

LEMMA FramesFrom ==
  ASSUME FrameInv(pm, maps)
  PROVE  FramesExact
PROOF
  <1>1. pm \in PmType /\ maps \in [Frame -> 0 .. MaxMaps]
    BY DEF FrameInv
  <1>2. FreePageListExact
    <2>1. PICK q : FreeQueue(pm, q)
      BY DEF FrameInv
    <2>2. q \in Seq(Frame) /\ IsInjective(q) /\ \A f : Contains(q, f) <=> f \in Frame /\ pm.free[f]
      BY <2>1 DEF FreeQueue
    <2>3. PICK T : T = FreeFrames(pm)
      OBVIOUS
    <2>4. \A f : Contains(q, f) <=> f \in T
      BY <2>2, <2>3 DEF FreeFrames
    <2>5. q \in SetToSeqs(T) /\ {q[k] : k \in DOMAIN q} = T
      BY <2>2, <2>4, ListLength
    <2>6. IsFreeList(q)
      BY <2>1, <2>3, <2>5 DEF IsFreeList, FreeQueue
    <2>7. pm.count = Len(q)
      BY <2>1 DEF FreeQueue
    <2> QED
      BY <2>3, <2>5, <2>6, <2>7 DEF FreePageListExact
  <1>3. RefcountExact
    <2>1. SUFFICES ASSUME NEW f \in Frame, NEW refs, refs = maps[f] + Cardinality(SlotsOf(pm, f))
                   PROVE  (pm.free[f] <=> refs = 0) /\ (refs > 0 => pm.n[f] = refs)
      BY DEF RefcountExact
    <2>2. /\ pm.free[f] <=> maps[f] = 0 /\ \A s \in Slot : pm.pte[s] # f
          /\ maps[f] # 0 => pm.n[f] = maps[f] /\ \A s \in Slot : pm.pte[s] # f
      BY DEF FrameInv, Referred
    <2>3. maps[f] \in Nat
      BY <1>1, KmallocAssumption
    <2>4. CASE \A s \in Slot : pm.pte[s] # f
      <3>1. SlotsOf(pm, f) = {}
        BY <2>4 DEF SlotsOf
      <3>2. refs = maps[f]
        BY <2>1, <2>3, <3>1, FS_EmptySet
      <3> QED
        BY <2>2, <2>3, <2>4, <3>2
    <2>5. ASSUME NEW s \in Slot, pm.pte[s] = f
          PROVE  (pm.free[f] <=> refs = 0) /\ (refs > 0 => pm.n[f] = refs)
      <3>1. f # NoFrame
        BY FrameNat
      <3>2. pm.n[f] = 1 /\ ~pm.free[f] /\ maps[f] = 0
        BY <2>5, <3>1, SlotFrame
      <3>3. \A r \in Slot : pm.pte[r] = f => r = s
        BY <2>5, <3>1 DEF FrameInv, Referred
      <3>4. SlotsOf(pm, f) = {s}
        BY <2>5, <3>3 DEF SlotsOf
      <3>5. refs = 1
        BY <2>1, <3>2, <3>4, FS_Singleton
      <3> QED
        BY <3>2, <3>5
    <2> QED
      BY <2>4, <2>5
  <1>4. pm.bits = {s \in Slot : pm.pte[s] # NoFrame}
    BY <1>1 DEF FrameInv, PmType
  <1> QED
    BY <1>2, <1>3, <1>4 DEF FramesExact

\* Frames are counted and listed exactly: page_alloc, refcount_inc and
\* refcount_dec, and the temporary mappings, in any order of the callers.
THEOREM FramesAlwaysExact == Spec => []FramesExact
PROOF
  <1>1. IInv => FramesExact
    BY FramesFrom DEF IInv
  <1> QED
    BY <1>1, Invariant, PTL

LEMMA BlocksFrom ==
  ASSUME HeapOk(hdr, heap, sizes, count, count_used, size)
  PROVE  BlocksExact
PROOF
  <1>1. Tiled(hdr, heap) /\ Listed(hdr, sizes) /\ Owners(hdr, size) /\ hdr \in [Unit -> Hdr]
    BY DEF HeapOk, Tiled
  <1>2. Starts = Heads(hdr)
    BY DEF Starts, Heads
  <1>3. ASSUME NEW s \in Heads(hdr), NEW x
        PROVE  x \in Block(s) <=> x \in Unit /\ Covers(hdr, s, x)
    <2>1. \A y \in Nat : y \in Block(s) <=> Base(y, hdr[s].sizeno) = s
      BY <1>1, BlockCovers
    <2>2. Block(s) \subseteq Nat
      BY <1>1, BlockCovers
    <2>3. x \in Nat => (x \in Block(s) <=> Covers(hdr, s, x))
      BY <1>3, <2>1 DEF Covers
    <2>4. ASSUME x \in Nat, Covers(hdr, s, x) PROVE x \in Unit
      <3>1. s \in Unit /\ hdr[s].sizeno \in Level
        BY <1>1, HeadType
      <3>2. Base(x, hdr[s].sizeno) = Base(s, hdr[s].sizeno)
        BY <1>1, <2>4, CoversSelf DEF Covers
      <3> QED
        BY <2>4, <3>1, <3>2, CellInPage
    <2> QED
      BY <2>2, <2>3, <2>4, UnitNat
  <1>4. UNION {Block(x) : x \in Starts} = {x \in Unit : page(x) \in heap}
    <2>1. ASSUME NEW y \in Unit, page(y) \in heap PROVE \E x \in Starts : y \in Block(x)
      <3>1. PICK s : Covers(hdr, s, y)
        BY <1>1, <2>1 DEF Tiled
      <3>2. s \in Heads(hdr)
        BY <3>1 DEF Covers
      <3> QED
        BY <1>2, <1>3, <3>1, <3>2
    <2>2. ASSUME NEW x \in Starts, NEW y \in Block(x) PROVE y \in Unit /\ page(y) \in heap
      <3>1. x \in Heads(hdr) /\ y \in Unit /\ Covers(hdr, x, y)
        BY <1>2, <1>3, <2>2
      <3>2. x \in Unit /\ hdr[x].sizeno \in Level /\ page(x) \in heap /\ y \in Nat
        BY <1>1, <3>1, HeadType, UnitNat DEF Tiled
      <3>3. Base(y, hdr[x].sizeno) = Base(x, hdr[x].sizeno)
        BY <1>1, <3>1, CoversSelf DEF Covers
      <3>4. page(y) = page(x)
        BY <3>2, <3>3, CellInPage
      <3> QED
        BY <3>1, <3>2, <3>4
    <2>3. ASSUME NEW y
          PROVE  y \in UNION {Block(x) : x \in Starts} <=> \E x \in Starts : y \in Block(x)
      OBVIOUS
    <2>4. ASSUME NEW y
          PROVE  y \in UNION {Block(x) : x \in Starts} <=> y \in {x \in Unit : page(x) \in heap}
      BY <2>1, <2>2, <2>3
    <2> QED
      BY <2>4
  <1>5. ASSUME NEW x \in Starts, NEW y \in Starts, x # y PROVE Block(x) \cap Block(y) = {}
    <2>1. SUFFICES ASSUME NEW z, z \in Block(x), z \in Block(y) PROVE FALSE
      OBVIOUS
    <2>2. z \in Unit /\ Covers(hdr, x, z) /\ Covers(hdr, y, z)
      BY <1>2, <1>3, <2>1
    <2> QED
      BY <1>1, <1>5, <2>2 DEF Tiled
  <1>6. \A x \in Starts : x % pow2[hdr[x].sizeno] = 0
    BY <1>1, <1>2, BlockCovers
  <1>7. BlocksTile
    BY <1>4, <1>5, <1>6 DEF BlocksTile
  <1>8. FreeBlocksListed
    <2>1. SUFFICES ASSUME NEW i \in Sizeno
                   PROVE  /\ {sizes[i][k] : k \in DOMAIN sizes[i]} =
                               {x \in Starts : hdr[x] = Header(FALSE, i)}
                          /\ IsInjective(sizes[i])
      BY DEF FreeBlocksListed
    <2>2. PICK l : l = sizes[i]
      OBVIOUS
    <2>3. l \in Seq(Unit) /\ IsInjective(l) /\ \A x : Contains(l, x) <=> x \in Unit /\ FreeAt(hdr, x, i)
      BY <1>1, <2>2 DEF Listed, ListOf
    <2>4. PICK T : T = {x \in Starts : hdr[x] = Header(FALSE, i)}
      OBVIOUS
    <2>5. Header(FALSE, i) # NoHeader
      BY HeaderFields
    <2>6. \A x : x \in T <=> x \in Unit /\ FreeAt(hdr, x, i)
      BY <2>4, <2>5 DEF Starts, FreeAt
    <2>7. {l[k] : k \in DOMAIN l} = T
      BY <2>3, <2>6, ListLength
    <2> QED
      BY <2>2, <2>3, <2>4, <2>7
  <1>9. Live = {x \in Starts : hdr[x].used}
    <2>1. \A x : x \in Live <=> x \in Heads(hdr) /\ hdr[x].used
      BY LiveUsed
    <2> QED
      BY <1>2, <2>1
  <1>10. ASSUME NEW x \in Live PROVE Fits(hdr[x].sizeno, size[x])
    <2>1. x \in Heads(hdr) /\ hdr[x].used
      BY LiveUsed
    <2>2. x \in Unit /\ hdr[x].used \in BOOLEAN /\ hdr[x].sizeno \in Sizeno
          /\ hdr[x] = Header(hdr[x].used, hdr[x].sizeno)
      BY <1>1, <2>1, HeadType
    <2>3. UsedAt(hdr, x, hdr[x].sizeno)
      BY <2>1, <2>2 DEF UsedAt
    <2> QED
      BY <1>1, <2>2, <2>3 DEF Owners
  <1> QED
    BY <1>7, <1>8, <1>9, <1>10 DEF BlocksExact

\* Blocks tile the heap's pages and the lists hold the free ones, whatever
\* FreeBlock::split and merge have made of the pages.
THEOREM BlocksAlwaysExact == Spec => []BlocksExact
PROOF
  <1>1. IInv => BlocksExact
    BY BlocksFrom DEF IInv
  <1> QED
    BY <1>1, Invariant, PTL

\* The page headers' fields never overflow and count the blocks exactly.
THEOREM CountsAlwaysExact == Spec => []CountsExact
PROOF
  <1>1. ASSUME IInv PROVE CountsExact
    <2>1. SUFFICES ASSUME NEW p \in heap, NEW i \in Sizeno, NEW B,
                          B = {x \in Starts : page(x) = p /\ hdr[x].sizeno = i}
                   PROVE  /\ count[p][i] = Cardinality(B)
                          /\ count_used[p][i] = Cardinality({x \in B : hdr[x].used})
      BY DEF CountsExact
    <2>2. B = BlocksAt(hdr, p, i)
      BY <2>1 DEF BlocksAt, Starts, Heads
    <2>3. {x \in B : hdr[x].used} = UsedIn(hdr, p, i)
      BY <2>2 DEF UsedIn
    <2>4. CountsOf(hdr, heap, count, count_used)
      BY <1>1 DEF IInv, HeapOk
    <2> QED
      BY <2>2, <2>3, <2>4 DEF CountsOf
  <1>2. IInv => CountsExact
    BY <1>1
  <1> QED
    BY <1>2, Invariant, PTL

LEMMA CoalescedFrom ==
  ASSUME HeapOk(hdr, heap, sizes, count, count_used, size)
  PROVE  Coalesced
PROOF
  <1>1. /\ Tiled(hdr, heap) /\ NoBuddies(hdr) /\ hdr \in [Unit -> Hdr] /\ heap \subseteq Slot
    BY DEF HeapOk, Tiled
  <1>2. Starts = Heads(hdr)
    BY DEF Starts, Heads
  <1>3. \A x \in Starts : ~hdr[x].used => hdr[pair(x, hdr[x].sizeno)] # hdr[x]
    BY <1>1, <1>2 DEF NoBuddies
  <1>4. ASSUME NEW p \in heap PROVE \E x \in Live : page(x) = p
    <2>1. SUFFICES ASSUME \A x \in Live : page(x) # p PROVE FALSE
      OBVIOUS
    <2>2. PICK a : a = p * pow2[PAGE]
      OBVIOUS
    <2>3. a \in Unit /\ page(a) = p /\ Aligned(a, PAGE)
      BY <1>1, <2>2, SlotUnit
    <2>4. ASSUME NEW s \in Heads(hdr), Base(s, PAGE) = a PROVE ~hdr[s].used
      <3>1. s \in Nat /\ a \in Nat /\ Base(a, PAGE) = a
        BY <1>1, <2>3, HeadType DEF Aligned
      <3>2. page(s) = p
        BY <2>3, <2>4, <3>1, SamePage
      <3>3. s \notin Live
        BY <2>1, <3>2
      <3> QED
        BY <3>3, LiveUsed
    <2>5. PICK s : Covers(hdr, s, a) /\ PAGE <= hdr[s].sizeno
      BY <1>1, <2>3, <2>4, FreeCell, PageLevel
    <2>6. hdr[s].sizeno \in Level /\ hdr[s].sizeno < PAGE
      BY <1>1, <2>5, HeadType DEF Covers
    <2> QED
      BY <2>5, <2>6, LevelOrder, PageLevel
  <1> QED
    BY <1>3, <1>4 DEF Coalesced

\* kfree's loop joins all that can be joined and gives an empty page back.
THEOREM AlwaysCoalesced == Spec => []Coalesced
PROOF
  <1>1. IInv => Coalesced
    BY CoalescedFrom DEF IInv
  <1> QED
    BY <1>1, Invariant, PTL

\* No assertion of kmalloc, kfree, the free lists or struct Page fails.
THEOREM AssertionsAlwaysHold == Spec => []AssertionsHold
PROOF
  <1>1. IInv => AssertionsHold
    BY DEF IInv
  <1> QED
    BY <1>1, Invariant, PTL

\* kmalloc returns NULL only for want of a page and of an aligned hole.
THEOREM NullAlwaysWhenFull == Spec => []NullOnlyWhenFull
PROOF
  <1>1. IInv => NullOnlyWhenFull
    BY DEF IInv
  <1> QED
    BY <1>1, Invariant, PTL

-----------------------------------------------------------------------------
(* Refinement of Heap.                                                     *)

\* The bytes of two live allocations do not overlap.
Apart ==
  \A x, y \in Live : x # y => ~(/\ 32 * x + 4 < 32 * y + 4 + size[y]
                                /\ 32 * y + 4 < 32 * x + 4 + size[x])

\* The allocation before another one ends before it.
LEMMA EndsBefore ==
  ASSUME HeapOk(hdr, heap, sizes, count, count_used, size), NEW x \in Live, NEW y \in Live, x < y
  PROVE  ~(32 * y + 4 < 32 * x + 4 + size[x])
PROOF
  <1>1. Tiled(hdr, heap) /\ hdr \in [Unit -> Hdr] /\ Owners(hdr, size)
    BY DEF HeapOk, Tiled
  <1>2. x \in Heads(hdr) /\ y \in Heads(hdr) /\ hdr[x].used
    BY LiveUsed
  <1>3. PICK k : k = hdr[x].sizeno
    OBVIOUS
  <1>4. x \in Unit /\ x \in Nat /\ k \in Level /\ k \in Sizeno /\ hdr[x] = Header(TRUE, k)
    <2>1. /\ x \in Unit /\ x \in Nat /\ k \in Level /\ k \in Sizeno
          /\ hdr[x].used \in BOOLEAN /\ hdr[x] = Header(hdr[x].used, k)
      BY <1>1, <1>2, <1>3, HeadType
    <2> QED
      BY <1>2, <2>1
  <1>5. y \in Unit /\ y \in Nat
    BY <1>1, <1>2, HeadType
  <1>6. PICK d \in Nat \ {0} : d = pow2[k]
    BY <1>4, Pow2 DEF Level
  <1>7. y \notin Block(x)
    <2>1. SUFFICES ASSUME y \in Block(x) PROVE FALSE
      OBVIOUS
    <2>2. Base(y, hdr[x].sizeno) = x
      BY <1>1, <1>2, <1>5, <2>1, BlockCovers
    <2>3. Covers(hdr, x, y)
      BY <1>2, <2>2 DEF Covers
    <2>4. Covers(hdr, y, y)
      BY <1>1, <1>2, CoversSelf
    <2>5. x = y
      BY <1>1, <1>5, <2>3, <2>4 DEF Tiled
    <2> QED
      BY <1>4, <1>5, <2>5
  <1>8. x + d <= y
    <2>1. y \notin x .. x + d - 1
      BY <1>3, <1>6, <1>7 DEF Block
    <2> QED
      BY <1>4, <1>5, <2>1
  <1>9. PICK m \in Nat : m = size[x] /\ m <= 32 * d - 4
    <2>1. size[x] \in Sizes
      BY <1>1, <1>4 DEF Owners, Live
    <2>2. UsedAt(hdr, x, k)
      BY <1>4 DEF UsedAt
    <2>3. Fits(k, size[x])
      BY <1>1, <1>4, <2>2 DEF Owners
    <2>4. 32 * d - 4 >= size[x]
      BY <1>6, <2>3 DEF Fits, BlockSize
    <2> QED
      BY <2>1, <2>4, KmallocAssumption
  <1>10. ~(32 * y + 4 < 32 * x + 4 + m)
    BY <1>4, <1>5, <1>8, <1>9
  <1> QED
    BY <1>9, <1>10

LEMMA AllocationsApart == IInv => Apart
PROOF
  <1>1. SUFFICES ASSUME IInv, NEW x \in Live, NEW y \in Live, x # y
                 PROVE  ~(/\ 32 * x + 4 < 32 * y + 4 + size[y]
                          /\ 32 * y + 4 < 32 * x + 4 + size[x])
    BY DEF Apart
  <1>2. HeapOk(hdr, heap, sizes, count, count_used, size)
    BY <1>1 DEF IInv
  <1>3. x \in Nat /\ y \in Nat
    BY UnitNat DEF Live
  <1>4. x < y \/ y < x
    BY <1>1, <1>3
  <1> QED
    BY <1>2, <1>4, EndsBefore

Allocations == {[lo |-> 32 * x + 4, len |-> size[x]] : x \in Live}

LEMMA SameAllocations ==
  ASSUME size' = size
  PROVE  Allocations' = Allocations
  BY DEF Allocations, Live

LEMMA AllocStep ==
  ASSUME IInv, Apart', NEW n \in Sizes, NEW a \in Unit, a \notin Live,
         size' = [size EXCEPT ![a] = n]
  PROVE  H!Alloc(n)
PROOF
  <1>1. size \in [Unit -> Sizes \cup {-1}] /\ n # -1
    BY KmallocAssumption DEF IInv, HeapOk, Owners
  <1>2. size'[a] = n /\ \A x \in Unit : x # a => size'[x] = size[x]
    BY <1>1
  <1>3. Live' = Live \cup {a}
    BY <1>1, <1>2 DEF Live
  <1>4. PICK b : b = [lo |-> 32 * a + 4, len |-> n]
    OBVIOUS
  <1>5. a \in Nat /\ \A x \in Live : x \in Nat /\ x \in Unit /\ x # a
    BY UnitNat DEF Live
  <1>6. Allocations' = Allocations \cup {b}
    <2>1. Allocations' = {[lo |-> 32 * x + 4, len |-> size'[x]] : x \in Live \cup {a}}
      BY <1>3 DEF Allocations
    <2>2. \A x \in Live : size'[x] = size[x]
      BY <1>2, <1>5
    <2> QED
      BY <1>2, <1>4, <2>1, <2>2 DEF Allocations
  <1>7. ASSUME NEW c \in Allocations PROVE c.lo # b.lo /\ ~H!Overlap(c, b)
    <2>1. PICK x \in Live : c = [lo |-> 32 * x + 4, len |-> size[x]]
      BY DEF Allocations
    <2>2. c.lo = 32 * x + 4 /\ c.len = size[x] /\ b.lo = 32 * a + 4 /\ b.len = n
      BY <1>4, <2>1
    <2>3. 32 * x + 4 # 32 * a + 4
      BY <1>5
    <2>4. ~(/\ 32 * x + 4 < 32 * a + 4 + size'[a]
            /\ 32 * a + 4 < 32 * x + 4 + size'[x])
      <3>1. x \in Live' /\ a \in Live' /\ x # a
        BY <1>3, <1>5
      <3> QED
        BY <3>1 DEF Apart
    <2>5. size'[x] = size[x]
      BY <1>2, <1>5
    <2> QED
      BY <1>2, <2>2, <2>3, <2>4, <2>5 DEF H!Overlap
  <1>8. b \notin Allocations
    BY <1>7
  <1> QED
    BY <1>4, <1>6, <1>7, <1>8 DEF H!Alloc, Allocations

LEMMA FreeStep ==
  ASSUME IInv, NEW a \in Unit, kfree(a)
  PROVE  H!Free
PROOF
  <1>1. size[a] # -1 /\ size' = [size EXCEPT ![a] = -1]
    BY DEF kfree
  <1>2. size \in [Unit -> Sizes \cup {-1}]
    BY DEF IInv, HeapOk, Owners
  <1>3. size'[a] = -1 /\ \A x \in Unit : x # a => size'[x] = size[x]
    BY <1>1, <1>2
  <1>4. a \in Live /\ Live' = Live \ {a}
    BY <1>1, <1>3 DEF Live
  <1>5. PICK b : b = [lo |-> 32 * a + 4, len |-> size[a]]
    OBVIOUS
  <1>6. b \in Allocations
    BY <1>4, <1>5 DEF Allocations
  <1>7. a \in Nat /\ \A x \in Live : x \in Nat /\ x \in Unit
    BY UnitNat DEF Live
  <1>8. Allocations' = {[lo |-> 32 * x + 4, len |-> size'[x]] : x \in Live \ {a}}
    BY <1>4 DEF Allocations
  <1>9. \A x \in Live \ {a} : size'[x] = size[x]
    BY <1>3, <1>7
  <1>10. ASSUME NEW x \in Live \ {a} PROVE [lo |-> 32 * x + 4, len |-> size[x]] # b
    <2>1. 32 * x + 4 # 32 * a + 4
      BY <1>7
    <2>2. b.lo = 32 * a + 4
      BY <1>5
    <2>3. [lo |-> 32 * x + 4, len |-> size[x]].lo = 32 * x + 4
      OBVIOUS
    <2> QED
      BY <2>1, <2>2, <2>3
  <1>11. \A x \in Live : x # a \/ [lo |-> 32 * x + 4, len |-> size[x]] = b
    BY <1>5
  <1>12. Allocations' = Allocations \ {b}
    <2>1. ASSUME NEW c PROVE c \in Allocations' <=> c \in Allocations /\ c # b
      <3>1. c \in Allocations' <=> \E x \in Live \ {a} : c = [lo |-> 32 * x + 4, len |-> size[x]]
        BY <1>8, <1>9
      <3>2. c \in Allocations <=> \E x \in Live : c = [lo |-> 32 * x + 4, len |-> size[x]]
        BY DEF Allocations
      <3> QED
        BY <1>10, <1>11, <3>1, <3>2
    <2> QED
      BY <2>1
  <1> QED
    BY <1>6, <1>12 DEF H!Free, Allocations

\* kmalloc and kfree implement a heap that hands out bytes that overlap no
\* live allocation and moves none.
THEOREM KmallocIsHeap == Spec => ImplementsHeap
PROOF
  <1>1. Init => H!Init
    BY DEF Init, H!Init, Live
  <1>2. IInv /\ Apart' /\ [Next]_vars => [H!Next]_Allocations
    <2>1. SUFFICES ASSUME IInv, Apart', [Next]_vars
                   PROVE  H!Next \/ Allocations' = Allocations
      OBVIOUS
    <2>2. ASSUME NEW n \in Sizes, kmalloc(n) PROVE H!Next
      <3>1. PICK a \in Unit : a \notin Live /\ size' = [size EXCEPT ![a] = n]
        BY <2>1, <2>2, KmallocStep
      <3>2. H!Alloc(n)
        BY <2>1, <3>1, AllocStep
      <3> QED
        BY <3>2 DEF H!Next
    <2>3. ASSUME NEW a \in Unit, kfree(a) PROVE H!Next
      BY <2>1, <2>3, FreeStep DEF H!Next
    <2>4. ASSUME NEW n \in Sizes, kmalloc_too_large(n) \/ kmalloc_no_page(n)
          PROVE  size' = size
      BY <2>4 DEF kmalloc_too_large, kmalloc_no_page, heapVars
    <2>5. ASSUME NEW f \in Frame, user_link(f) \/ user_remove(f) PROVE size' = size
      BY <2>5 DEF user_link, user_remove, heapVars
    <2>6. ASSUME NEW s \in Slot, pde_free(s) PROVE size' = size
      BY <2>6 DEF pde_free, heapVars
    <2>7. ASSUME user_insert \/ pde_alloc \/ trap_return \/ UNCHANGED vars PROVE size' = size
      BY <2>7 DEF user_insert, pde_alloc, trap_return, heapVars, vars
    <2> QED
      BY <2>1, <2>2, <2>3, <2>4, <2>5, <2>6, <2>7, SameAllocations DEF Next
  <1>3. IInv => Apart
    BY AllocationsApart
  <1> QED
    BY <1>1, <1>2, <1>3, Invariant, PTL DEF Spec, ImplementsHeap, H!Spec, Allocations
=============================================================================
