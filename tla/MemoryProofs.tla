---------------------------- MODULE MemoryProofs ----------------------------
(***************************************************************************)
(* Proofs about Memory, for any number of frames, temporary pages,         *)
(* processes, programs and segments.  First what the operators of Memory   *)
(* do to frames, temporary pages, page tables and mappings: each of them   *)
(* keeps the reference counts and the page counts exact and changes one    *)
(* process only.  Then the invariant and its consequences: processes are   *)
(* isolated, address spaces are whole between operations, and the          *)
(* assertions fail only where the model says.                              *)
(***************************************************************************)
EXTENDS Memory, ListLemmas

-----------------------------------------------------------------------------
(* A memory m and the frames g of the segments are exact when the counts   *)
(* are the references there are.  The predicates are about m and g, as the *)
(* operators of Memory are, so that they also hold between the calls that  *)
(* an operation makes.                                                     *)

MemType == [used : SUBSET Frame, rc : [Frame -> Int],
            tmp : [Slot -> Frame \cup {NoFrame}],
            tab : [Tasks -> [Tables -> Slot \cup {NoSlot}]],
            map : [Tasks -> [Va -> Frame \cup {NoFrame}]],
            cu : [Tasks -> Int], ck : [Tasks -> Int]]
SegType == [Segs -> Frame \cup {NoFrame}]

MapsTo(m, f) == {x \in Tasks \X Va : m.map[x[1]][x[2]] = f}
TmpOf(m, f) == {s \in Slot : m.tmp[s] = f}
SegOf(g, f) == {k \in Segs : g[k] = f}
Referenced(m, g, f) == MapsTo(m, f) # {} \/ TmpOf(m, f) # {} \/ SegOf(g, f) # {}

\* Counts are exact.  The frames in E are not free although nothing refers to
\* them: page_alloc has returned them to a caller that will map them.
RefExact(m, g, E) ==
  \A f \in Frame :
    /\ m.rc[f] = Cardinality(MapsTo(m, f)) + Cardinality(TmpOf(m, f))
                 + Cardinality(SegOf(g, f))
    /\ f \in m.used <=> Referenced(m, g, f) \/ f \in E

Counted(m) ==
  \A t \in Tasks :
    /\ m.cu[t] = Cardinality(Mapped(m, t, UserVa))
    /\ m.ck[t] = Cardinality(Mapped(m, t, KStack)) + Cardinality(SlotsOf(m, t, Tables))

\* A table of a process is a temporary page that no other table is in.
TablesOwned(m) ==
  \A t \in Tasks, r \in Tables : m.tab[t][r] # NoSlot =>
    /\ m.tmp[m.tab[t][r]] # NoFrame
    /\ \A u \in Tasks, q \in Tables : m.tab[u][q] = m.tab[t][r] => u = t /\ q = r

Exact(m, g, E) ==
  m \in MemType /\ g \in SegType /\ RefExact(m, g, E) /\ Counted(m) /\ TablesOwned(m)

\* What is mapped where: frames of segments only as shared memory, every other
\* frame once, temporary pages never
Separated(m, g) ==
  /\ \A t \in Tasks, va \in Va : m.map[t][va] # NoFrame =>
       /\ TmpOf(m, m.map[t][va]) = {}
       /\ va \in ShmVa => SegOf(g, m.map[t][va]) # {}
       /\ va \notin ShmVa => /\ SegOf(g, m.map[t][va]) = {}
                             /\ \A u \in Tasks, w \in Va :
                                  m.map[u][w] = m.map[t][va] => u = t /\ w = va
  /\ \A k \in Segs : g[k] # NoFrame => TmpOf(m, g[k]) = {}

-----------------------------------------------------------------------------
(* Pages and finite sets.                                                  *)

\* The page numbers, as a function: what it names is finite.
LEMMA IntervalImage ==
  ASSUME NEW n \in Int, NEW f, f = [i \in 0 .. n - 1 |-> f[i]], NEW S,
         S = {f[i] : i \in 0 .. n - 1}
  PROVE  /\ IsFiniteSet(S)
         /\ (\A i, j \in 0 .. n - 1 : f[i] = f[j] => i = j) /\ n >= 0 => Cardinality(S) = n
PROOF
  <1>1. /\ IsFiniteSet(0 .. n - 1)
        /\ n >= 0 => Cardinality(0 .. n - 1) = n
    <2>1. 0 \in Int /\ n - 1 \in Int
      OBVIOUS
    <2>2. IsFiniteSet(0 .. n - 1) /\ Cardinality(0 .. n - 1) = IF 0 > n - 1 THEN 0 ELSE n - 1 - 0 + 1
      BY <2>1, FS_Interval
    <2> QED
      BY <2>2
  <1>2. f \in Surjection(0 .. n - 1, S)
    BY DEF Surjection
  <1>3. ASSUME \A i, j \in 0 .. n - 1 : f[i] = f[j] => i = j
        PROVE  f \in Injection(0 .. n - 1, S)
    BY <1>3, <1>2 DEF Injection, Surjection, IsInjective
  <1> QED
    BY <1>1, <1>2, <1>3, FS_Surjection

\* The regions do not overlap, and a page of a region needs its table.
LEMMA Layout ==
  /\ UserVa \cap KStack = {} /\ ShmVa \subseteq UserVa /\ Va = UserVa \cup KStack
  /\ ShmVa \cap KStack = {}
  /\ Stack \in UserVa \ ShmVa /\ StackBelow \in UserVa \ ShmVa /\ Stack # StackBelow
  /\ \A va \in Va : va[1] \in Tables
  /\ \A va \in UserVa : va[1] \in UserRegions
  /\ \A va \in KStack : va[1] = "kstack"
  /\ \A va \in UserVa \ ShmVa : va[1] # "shm" /\ va[1] # "kstack"
  /\ UserRegions \subseteq Tables
  /\ \A i, j : Prog(i) = Prog(j) => i = j
  /\ \A i : Prog(i) \notin ShmVa \cup KStack \cup {Stack, StackBelow}
  /\ \A i \in 0 .. MaxProgram + MaxHeap - 1 : Prog(i) \in UserVa
PROOF
  <1>1. \A i, j : Prog(i) = Prog(j) => i = j
    BY DEF Prog
  <1>2. \A i : Prog(i) \notin ShmVa \cup KStack \cup {Stack, StackBelow}
    BY DEF Prog, ShmVa, Shm, KStack, Stack, StackBelow
  <1>3. \A va \in ShmVa : va[1] = "shm"
    BY DEF ShmVa, Shm
  <1>4. \A va \in KStack : va[1] = "kstack"
    BY DEF KStack
  <1>5. Stack[1] = "stack" /\ StackBelow[1] = "stack" /\ Stack # StackBelow
    BY DEF Stack, StackBelow
  <1>6. \A i : Prog(i)[1] = "prog"
    BY DEF Prog
  <1>7. \A va \in UserVa : \/ va \in ShmVa \/ va[1] \in {"prog", "stack"}
    BY <1>5, <1>6 DEF UserVa
  <1> QED
    BY <1>1, <1>2, <1>3, <1>4, <1>5, <1>7 DEF UserVa, Va, UserRegions, Tables

\* The frames, slots, addresses, tables and segments are finite sets.
LEMMA FiniteSets ==
  /\ IsFiniteSet(ShmVa) /\ IsFiniteSet(UserVa) /\ IsFiniteSet(KStack) /\ IsFiniteSet(Va)
  /\ IsFiniteSet(Tasks \X Va) /\ IsFiniteSet(Tables)
  /\ IsFiniteSet(Frame) /\ IsFiniteSet(Slot) /\ IsFiniteSet(Segs) /\ IsFiniteSet(Tasks)
  /\ Cardinality(Frame) = NPages /\ Cardinality(Slot) = TmpSlots
  /\ NoFrame \notin Frame /\ NoSlot \notin Slot
  /\ Frame \subseteq Nat /\ Slot \subseteq Nat
PROOF
  <1>1. IsFiniteSet(ShmVa)
    <2> DEFINE n == MaxAttach
               f == [i \in 0 .. n - 1 |-> Shm(i)]
    <2>1. ShmVa = {f[i] : i \in 0 .. n - 1} /\ n \in Int
      BY MemoryAssumption DEF ShmVa
    <2>2. f = [i \in 0 .. n - 1 |-> f[i]]
      OBVIOUS
    <2> HIDE DEF n, f
    <2> QED
      BY <2>1, <2>2, IntervalImage
  <1>2. IsFiniteSet({Prog(i) : i \in 0 .. MaxProgram + MaxHeap - 1})
    <2>1. ASSUME NEW n \in Int PROVE IsFiniteSet({Prog(i) : i \in 0 .. n - 1})
      <3> DEFINE f == [i \in 0 .. n - 1 |-> Prog(i)]
      <3>1. {Prog(i) : i \in 0 .. n - 1} = {f[i] : i \in 0 .. n - 1}
        OBVIOUS
      <3>2. f = [i \in 0 .. n - 1 |-> f[i]]
        OBVIOUS
      <3> HIDE DEF f
      <3> QED
        BY <3>1, <3>2, IntervalImage
    <2>2. MaxProgram + MaxHeap \in Int
      BY MemoryAssumption
    <2>3. 0 .. MaxProgram + MaxHeap - 1 = 0 .. (MaxProgram + MaxHeap) - 1
      BY MemoryAssumption
    <2> QED
      BY <2>1, <2>2, <2>3, Zenon
  <1>3. IsFiniteSet({Stack, StackBelow}) /\ IsFiniteSet(KStack)
    <2>1. \A x, y : IsFiniteSet({x} \cup {y})
      BY FS_Singleton, FS_Union
    <2>2. \A x, y : {x, y} = {x} \cup {y}
      OBVIOUS
    <2>3. \A x, y : IsFiniteSet({x, y})
      BY <2>1, <2>2
    <2> QED
      BY <2>3, Zenon DEF KStack
  <1>4. IsFiniteSet(UserVa) /\ IsFiniteSet(Va)
    BY <1>1, <1>2, <1>3, FS_Union DEF UserVa, Va
  <1>5. IsFiniteSet(Tasks \X Va)
    BY <1>4, FS_Product, MemoryAssumption
  <1>6. IsFiniteSet(Tables)
    <2>1. IsFiniteSet({"pgdir"}) /\ IsFiniteSet({"pgtables"}) /\ IsFiniteSet({"kstack"})
          /\ IsFiniteSet({"prog"}) /\ IsFiniteSet({"shm"}) /\ IsFiniteSet({"stack"})
      BY FS_Singleton
    <2>2. IsFiniteSet({"pgdir"} \cup {"pgtables"} \cup {"kstack"}
                      \cup {"prog"} \cup {"shm"} \cup {"stack"})
      BY <2>1, FS_Union
    <2>3. Tables = {"pgdir"} \cup {"pgtables"} \cup {"kstack"}
                   \cup {"prog"} \cup {"shm"} \cup {"stack"}
      BY DEF Tables, UserRegions
    <2> QED
      BY <2>2, <2>3
  <1>7. IsFiniteSet(Frame) /\ Cardinality(Frame) = NPages
    BY IndexCount, MemoryAssumption DEF Frame
  <1>8. IsFiniteSet(Slot) /\ Cardinality(Slot) = TmpSlots
    BY IndexCount, MemoryAssumption DEF Slot
  <1>9. NoFrame \notin Frame /\ NoSlot \notin Slot /\ Frame \subseteq Nat /\ Slot \subseteq Nat
    BY DEF NoFrame, NoSlot, Frame, Slot
  <1> QED
    BY <1>1, <1>3, <1>4, <1>5, <1>6, <1>7, <1>8, <1>9, MemoryAssumption

\* Two sets that differ at most in x
DifferAt(A, T, x) == \A a : a # x => (a \in A <=> a \in T)

\* A finite set that changes at one element changes its size by one at most.
LEMMA CountChange ==
  ASSUME NEW A, NEW T, IsFiniteSet(A), NEW x, DifferAt(A, T, x)
  PROVE  /\ IsFiniteSet(T)
         /\ Cardinality(T) \in Nat /\ Cardinality(A) \in Nat
         /\ Cardinality(T) = Cardinality(A) + (IF x \in T THEN 1 ELSE 0)
                                            - (IF x \in A THEN 1 ELSE 0)
PROOF
  <1>1. Cardinality(A) \in Nat
    BY FS_CardinalityType
  <1>2. CASE x \in T
    <2>1. T = A \cup {x}
      BY <1>2 DEF DifferAt
    <2> QED
      BY <1>1, <1>2, <2>1, FS_AddElement, FS_CardinalityType
  <1>3. CASE x \notin T
    <2>1. T = A \ {x}
      BY <1>3 DEF DifferAt
    <2> QED
      BY <1>1, <1>3, <2>1, FS_RemoveElement, FS_CardinalityType
  <1> QED
    BY <1>2, <1>3

\* A part is taken away, or added.
LEMMA CountPart ==
  ASSUME NEW A, IsFiniteSet(A), NEW D \in SUBSET A, NEW T, T = A \ D
  PROVE  /\ IsFiniteSet(T) /\ IsFiniteSet(D)
         /\ Cardinality(T) \in Nat /\ Cardinality(D) \in Nat /\ Cardinality(A) \in Nat
         /\ Cardinality(T) = Cardinality(A) - Cardinality(D)
PROOF
  <1>1. A \cap D = D
    OBVIOUS
  <1>2. IsFiniteSet(D)
    BY FS_Subset
  <1>3. IsFiniteSet(T) /\ Cardinality(T) = Cardinality(A) - Cardinality(D)
    BY <1>1, FS_Difference
  <1> QED
    BY <1>2, <1>3, FS_CardinalityType
-----------------------------------------------------------------------------
(* Frames and temporary pages.                                             *)

\* The references to a frame are finite, so they can be counted.
LEMMA RefSetsFinite ==
  \A m, g, f : IsFiniteSet(MapsTo(m, f)) /\ IsFiniteSet(TmpOf(m, f)) /\ IsFiniteSet(SegOf(g, f))
PROOF
  <1> TAKE m, g, f
  <1>1. /\ MapsTo(m, f) \subseteq Tasks \X Va /\ TmpOf(m, f) \subseteq Slot
        /\ SegOf(g, f) \subseteq Segs
    BY DEF MapsTo, TmpOf, SegOf
  <1> QED
    BY <1>1, FiniteSets, FS_Subset

\* The counts of references are natural numbers, 0 for the empty set only.
LEMMA RefCounts ==
  \A m, g, f :
    /\ Cardinality(MapsTo(m, f)) \in Nat /\ Cardinality(TmpOf(m, f)) \in Nat
    /\ Cardinality(SegOf(g, f)) \in Nat
    /\ Cardinality(MapsTo(m, f)) = 0 <=> MapsTo(m, f) = {}
    /\ Cardinality(TmpOf(m, f)) = 0 <=> TmpOf(m, f) = {}
    /\ Cardinality(SegOf(g, f)) = 0 <=> SegOf(g, f) = {}
PROOF
  <1> QED
    BY RefSetsFinite, FS_CardinalityType, FS_EmptySet

\* The frame that the free list gives is referenced by nothing.
LEMMA FreshFrame ==
  ASSUME NEW m, NEW g, NEW E, Exact(m, g, E), Free(m) # {}
  PROVE  /\ FirstFree(m) \in Free(m) /\ FirstFree(m) \in Frame /\ FirstFree(m) \notin m.used
         /\ \A f \in Free(m) : /\ MapsTo(m, f) = {} /\ TmpOf(m, f) = {} /\ SegOf(g, f) = {}
                               /\ m.rc[f] = 0 /\ f \notin E
PROOF
  <1>1. Free(m) \in SUBSET Nat
    BY FiniteSets DEF Free
  <1>2. FirstFree(m) \in Free(m)
    BY <1>1, MinInSet DEF FirstFree
  <1>3. ASSUME NEW f \in Free(m)
        PROVE  /\ MapsTo(m, f) = {} /\ TmpOf(m, f) = {} /\ SegOf(g, f) = {} /\ f \notin E
    BY DEF Free, Exact, RefExact, Referenced
  <1>4. ASSUME NEW f \in Free(m) PROVE m.rc[f] = 0
    <2>1. f \in Frame
      BY DEF Free
    <2>2. m.rc[f] = Cardinality(MapsTo(m, f)) + Cardinality(TmpOf(m, f)) + Cardinality(SegOf(g, f))
      BY <2>1 DEF Exact, RefExact
    <2> QED
      BY <2>2, <1>3, RefCounts
  <1> QED
    BY <1>2, <1>3, <1>4 DEF Free

\* The slot that tmp_page_alloc_map finds is empty.
LEMMA FreshSlot ==
  ASSUME NEW m, FreeSlots(m) # {}
  PROVE  FirstSlot(m) \in Slot /\ m.tmp[FirstSlot(m)] = NoFrame /\ FirstSlot(m) # NoSlot
PROOF
  <1>1. FreeSlots(m) \in SUBSET Nat
    BY FiniteSets DEF FreeSlots
  <1>2. FirstSlot(m) \in FreeSlots(m)
    BY <1>1, MinInSet DEF FirstSlot
  <1> QED
    BY <1>2, FiniteSets DEF FreeSlots

\* A memory that differs in one page of one process
MapDiffers(m, n, t, va) ==
  \A u \in Tasks, w \in Va : u # t \/ w # va => n.map[u][w] = m.map[u][w]

\* its effect on the mappings of each frame, and on the pages of each process
MapsCounted(m, n, t, va) ==
  \A f : /\ \A x : x # <<t, va>> => (x \in MapsTo(n, f) <=> x \in MapsTo(m, f))
         /\ <<t, va>> \in MapsTo(n, f) <=> n.map[t][va] = f
         /\ <<t, va>> \in MapsTo(m, f) <=> m.map[t][va] = f
         /\ Cardinality(MapsTo(n, f)) = Cardinality(MapsTo(m, f))
              + (IF n.map[t][va] = f THEN 1 ELSE 0)
              - (IF m.map[t][va] = f THEN 1 ELSE 0)
MappedCounted(m, n, t, va) ==
  \A u \in Tasks, V \in SUBSET Va :
    /\ IsFiniteSet(Mapped(m, u, V)) /\ Cardinality(Mapped(m, u, V)) \in Nat
    /\ Cardinality(Mapped(n, u, V)) = Cardinality(Mapped(m, u, V))
         + (IF u = t /\ va \in V /\ n.map[t][va] # NoFrame THEN 1 ELSE 0)
         - (IF u = t /\ va \in V /\ m.map[t][va] # NoFrame THEN 1 ELSE 0)

\* Changing one page table entry changes the counts it takes part in by one.
LEMMA MapChange ==
  ASSUME NEW m, NEW n, NEW t \in Tasks, NEW va \in Va, MapDiffers(m, n, t, va)
  PROVE  MapsCounted(m, n, t, va) /\ MappedCounted(m, n, t, va)
PROOF
  <1>1. ASSUME NEW f
        PROVE  /\ \A x : x # <<t, va>> => (x \in MapsTo(n, f) <=> x \in MapsTo(m, f))
               /\ <<t, va>> \in MapsTo(n, f) <=> n.map[t][va] = f
               /\ <<t, va>> \in MapsTo(m, f) <=> m.map[t][va] = f
    <2>1. ASSUME NEW x, x # <<t, va>> PROVE x \in MapsTo(n, f) <=> x \in MapsTo(m, f)
      <3>1. CASE x \in Tasks \X Va
        <4>1. x = <<x[1], x[2]>> /\ x[1] \in Tasks /\ x[2] \in Va
          BY <3>1
        <4>2. n.map[x[1]][x[2]] = m.map[x[1]][x[2]]
          BY <4>1, <2>1 DEF MapDiffers
        <4> QED
          BY <3>1, <4>2 DEF MapsTo
      <3>2. CASE x \notin Tasks \X Va
        BY <3>2 DEF MapsTo
      <3> QED
        BY <3>1, <3>2
    <2>2. <<t, va>> \in Tasks \X Va /\ <<t, va>>[1] = t /\ <<t, va>>[2] = va
      OBVIOUS
    <2> QED
      BY <2>1, <2>2 DEF MapsTo
  <1>2. ASSUME NEW f
        PROVE  Cardinality(MapsTo(n, f)) = Cardinality(MapsTo(m, f))
                        + (IF n.map[t][va] = f THEN 1 ELSE 0)
                        - (IF m.map[t][va] = f THEN 1 ELSE 0)
    <2> DEFINE A == MapsTo(m, f)
               T == MapsTo(n, f)
    <2> DEFINE x == <<t, va>>
    <2>1. IsFiniteSet(A)
      BY RefSetsFinite
    <2>2. (x \in T <=> n.map[t][va] = f) /\ (x \in A <=> m.map[t][va] = f)
      BY <1>1
    <2>3. DifferAt(A, T, x)
      BY <1>1 DEF DifferAt
    <2> HIDE DEF A, T, x
    <2>5. Cardinality(T) = Cardinality(A) + (IF x \in T THEN 1 ELSE 0) - (IF x \in A THEN 1 ELSE 0)
      BY <2>1, <2>3, CountChange
    <2> QED
      BY <2>2, <2>5 DEF A, T
  <1>3. ASSUME NEW u \in Tasks, NEW V \in SUBSET Va
        PROVE  /\ IsFiniteSet(Mapped(m, u, V)) /\ Cardinality(Mapped(m, u, V)) \in Nat
               /\ Cardinality(Mapped(n, u, V)) = Cardinality(Mapped(m, u, V))
                    + (IF u = t /\ va \in V /\ n.map[t][va] # NoFrame THEN 1 ELSE 0)
                    - (IF u = t /\ va \in V /\ m.map[t][va] # NoFrame THEN 1 ELSE 0)
    <2> DEFINE A == Mapped(m, u, V)
               T == Mapped(n, u, V)
    <2>1. IsFiniteSet(A)
      <3>1. A \in SUBSET Va
        BY DEF Mapped
      <3> QED
        BY <3>1, FiniteSets, FS_Subset
    <2>2. \A a : u # t \/ a # va => (a \in A <=> a \in T)
      BY DEF Mapped, MapDiffers
    <2>3. DifferAt(A, T, va)
      BY <2>2 DEF DifferAt
    <2>4. u # t => A = T
      BY <2>2
    <2>5. u = t => /\ va \in T <=> va \in V /\ n.map[t][va] # NoFrame
                   /\ va \in A <=> va \in V /\ m.map[t][va] # NoFrame
      BY DEF Mapped
    <2> HIDE DEF A, T
    <2>6. Cardinality(A) \in Nat
          /\ Cardinality(T) = Cardinality(A) + (IF va \in T THEN 1 ELSE 0) - (IF va \in A THEN 1 ELSE 0)
      BY <2>1, <2>3, CountChange
    <2> QED
      BY <2>1, <2>4, <2>5, <2>6 DEF A, T
  <1>4. MapsCounted(m, n, t, va)
    BY <1>1, <1>2 DEF MapsCounted
  <1>5. MappedCounted(m, n, t, va)
    BY <1>3 DEF MappedCounted
  <1> QED
    BY <1>4, <1>5

\* A memory that differs in one temporary page
TmpDiffers(m, n, s) == \A z \in Slot : z # s => n.tmp[z] = m.tmp[z]

\* Changing one temporary mapping changes the counts it takes part in by one.
LEMMA TmpChange ==
  ASSUME NEW m, NEW n, NEW s \in Slot, TmpDiffers(m, n, s)
  PROVE  \A f : /\ \A x : x # s => (x \in TmpOf(n, f) <=> x \in TmpOf(m, f))
                /\ s \in TmpOf(n, f) <=> n.tmp[s] = f
                /\ s \in TmpOf(m, f) <=> m.tmp[s] = f
                /\ Cardinality(TmpOf(n, f)) = Cardinality(TmpOf(m, f))
                     + (IF n.tmp[s] = f THEN 1 ELSE 0) - (IF m.tmp[s] = f THEN 1 ELSE 0)
PROOF
  <1> TAKE f
  <1>1. /\ \A x : x # s => (x \in TmpOf(n, f) <=> x \in TmpOf(m, f))
        /\ s \in TmpOf(n, f) <=> n.tmp[s] = f
        /\ s \in TmpOf(m, f) <=> m.tmp[s] = f
    BY DEF TmpOf, TmpDiffers
  <1> DEFINE A == TmpOf(m, f)
             T == TmpOf(n, f)
  <1>2. IsFiniteSet(A)
    BY RefSetsFinite
  <1>3. DifferAt(A, T, s)
    BY <1>1 DEF DifferAt
  <1> HIDE DEF A, T
  <1>4. Cardinality(T) = Cardinality(A) + (IF s \in T THEN 1 ELSE 0) - (IF s \in A THEN 1 ELSE 0)
    BY <1>2, <1>3, CountChange
  <1> QED
    BY <1>1, <1>4 DEF A, T

-----------------------------------------------------------------------------
(* The fields of a memory that an operation changes.                       *)

\* A change of the used frames leaves the other fields alone.
LEMMA UsedField ==
  ASSUME NEW m \in MemType, NEW v \in SUBSET Frame, NEW n, n = [m EXCEPT !.used = v]
  PROVE  /\ n \in MemType /\ n.used = v /\ n.rc = m.rc /\ n.tmp = m.tmp /\ n.tab = m.tab
         /\ n.map = m.map /\ n.cu = m.cu /\ n.ck = m.ck
PROOF
  <1> QED
    BY DEF MemType

\* refcount_inc and refcount_dec
LEMMA IncField ==
  ASSUME NEW m \in MemType, NEW f \in Frame, NEW n, n = refcount_inc(m, f)
  PROVE  /\ n \in MemType /\ n.used = m.used /\ n.tmp = m.tmp /\ n.tab = m.tab
         /\ n.map = m.map /\ n.cu = m.cu /\ n.ck = m.ck
         /\ \A h \in Frame : n.rc[h] = m.rc[h] + (IF h = f THEN 1 ELSE 0)
PROOF
  <1>1. m.rc \in [Frame -> Int]
    BY DEF MemType
  <1> DEFINE w == [m.rc EXCEPT ![f] = @ + 1]
  <1>2. w \in [Frame -> Int] /\ \A h \in Frame : w[h] = m.rc[h] + (IF h = f THEN 1 ELSE 0)
    BY <1>1
  <1>3. n = [m EXCEPT !.rc = w]
    BY DEF MemType, refcount_inc
  <1> HIDE DEF w
  <1>4. n \in MemType /\ n.rc = w
    BY <1>2, <1>3 DEF MemType
  <1>5. /\ n.used = m.used /\ n.tmp = m.tmp /\ n.tab = m.tab
        /\ n.map = m.map /\ n.cu = m.cu /\ n.ck = m.ck
    BY <1>3 DEF MemType
  <1> QED
    BY <1>2, <1>4, <1>5

Decremented(m, n, f) ==
  /\ n \in MemType /\ n.tmp = m.tmp /\ n.tab = m.tab
  /\ n.map = m.map /\ n.cu = m.cu /\ n.ck = m.ck
  /\ n.used = IF m.rc[f] = 1 THEN m.used \ {f} ELSE m.used
  /\ \A h \in Frame : n.rc[h] = m.rc[h] - (IF h = f THEN 1 ELSE 0)

\* What refcount_dec leaves: one reference less, and the frame free at zero.
LEMMA DecField ==
  ASSUME NEW m \in MemType, NEW f \in Frame, NEW n, n = refcount_dec(m, f)
  PROVE  Decremented(m, n, f)
PROOF
  <1>1. m.rc \in [Frame -> Int] /\ m.used \in SUBSET Frame
    BY DEF MemType
  <1> DEFINE w == [m.rc EXCEPT ![f] = @ - 1]
             v == IF m.rc[f] = 1 THEN m.used \ {f} ELSE m.used
  <1>2. w \in [Frame -> Int] /\ \A h \in Frame : w[h] = m.rc[h] - (IF h = f THEN 1 ELSE 0)
    BY <1>1
  <1>3. v \in SUBSET Frame
    BY <1>1
  <1>4. n = [m EXCEPT !.rc = w, !.used = v]
    BY DEF MemType, refcount_dec
  <1> HIDE DEF w, v
  <1>5. n \in MemType /\ n.rc = w /\ n.used = v
    BY <1>2, <1>3, <1>4 DEF MemType
  <1>6. n.tmp = m.tmp /\ n.tab = m.tab /\ n.map = m.map /\ n.cu = m.cu /\ n.ck = m.ck
    BY <1>4 DEF MemType
  <1> QED
    BY <1>2, <1>5, <1>6 DEF v, Decremented

TmpSet(m, n, s, v) ==
  /\ n \in MemType /\ n.used = m.used /\ n.rc = m.rc /\ n.tab = m.tab
  /\ n.map = m.map /\ n.cu = m.cu /\ n.ck = m.ck
  /\ n.tmp[s] = v /\ TmpDiffers(m, n, s)

\* A change of one temporary mapping leaves the other fields alone.
LEMMA TmpField ==
  ASSUME NEW m \in MemType, NEW s \in Slot, NEW v \in Frame \cup {NoFrame},
         NEW n, n = [m EXCEPT !.tmp[s] = v]
  PROVE  TmpSet(m, n, s, v)
PROOF
  <1>1. m.tmp \in [Slot -> Frame \cup {NoFrame}]
    BY DEF MemType
  <1> DEFINE w == [m.tmp EXCEPT ![s] = v]
  <1>2. /\ w \in [Slot -> Frame \cup {NoFrame}] /\ w[s] = v
        /\ \A z \in Slot : z # s => w[z] = m.tmp[z]
    BY <1>1
  <1>3. n = [m EXCEPT !.tmp = w]
    BY DEF MemType
  <1> HIDE DEF w
  <1>4. n \in MemType /\ n.tmp = w
    BY <1>2, <1>3 DEF MemType
  <1>5. /\ n.used = m.used /\ n.rc = m.rc /\ n.tab = m.tab
        /\ n.map = m.map /\ n.cu = m.cu /\ n.ck = m.ck
    BY <1>3 DEF MemType
  <1> QED
    BY <1>2, <1>4, <1>5 DEF TmpSet, TmpDiffers

\* pde_alloc's own assignments
TableSet(m, n, t, r, v) ==
  /\ n \in MemType /\ n.used = m.used /\ n.rc = m.rc /\ n.tmp = m.tmp
  /\ n.map = m.map /\ n.cu = m.cu
  /\ n.tab[t][r] = v
  /\ \A u \in Tasks, q \in Tables : u # t \/ q # r => n.tab[u][q] = m.tab[u][q]
  /\ n.ck[t] = m.ck[t] + 1 /\ \A u \in Tasks : u # t => n.ck[u] = m.ck[u]

\* A new table is counted as a kernel page of its task.
LEMMA TabField ==
  ASSUME NEW m \in MemType, NEW t \in Tasks, NEW r \in Tables, NEW v \in Slot \cup {NoSlot},
         NEW n, n = [m EXCEPT !.tab[t][r] = v, !.ck[t] = @ + 1]
  PROVE  TableSet(m, n, t, r, v)
PROOF
  <1>1. m.tab \in [Tasks -> [Tables -> Slot \cup {NoSlot}]] /\ m.ck \in [Tasks -> Int]
    BY DEF MemType
  <1> DEFINE w == [m.tab EXCEPT ![t][r] = v]
             c == [m.ck EXCEPT ![t] = @ + 1]
  <1>2. /\ w \in [Tasks -> [Tables -> Slot \cup {NoSlot}]] /\ w[t][r] = v
        /\ \A u \in Tasks, q \in Tables : u # t \/ q # r => w[u][q] = m.tab[u][q]
    BY <1>1
  <1>3. c \in [Tasks -> Int] /\ c[t] = m.ck[t] + 1 /\ \A u \in Tasks : u # t => c[u] = m.ck[u]
    BY <1>1
  <1>4. n = [m EXCEPT !.tab = w, !.ck = c]
    BY DEF MemType
  <1> HIDE DEF w, c
  <1>5. n \in MemType /\ n.tab = w /\ n.ck = c
    BY <1>2, <1>3, <1>4 DEF MemType
  <1>6. /\ n.used = m.used /\ n.rc = m.rc /\ n.tmp = m.tmp /\ n.map = m.map /\ n.cu = m.cu
    BY <1>4 DEF MemType
  <1> QED
    BY <1>2, <1>3, <1>5, <1>6 DEF TableSet

MapSet(m, n, t, va, v) ==
  /\ n \in MemType /\ n.used = m.used /\ n.rc = m.rc /\ n.tmp = m.tmp
  /\ n.tab = m.tab /\ n.cu = m.cu /\ n.ck = m.ck
  /\ n.map[t][va] = v /\ MapDiffers(m, n, t, va)

\* A change of one page table entry leaves the other fields alone.
LEMMA MapField ==
  ASSUME NEW m \in MemType, NEW t \in Tasks, NEW va \in Va, NEW v \in Frame \cup {NoFrame},
         NEW n, n = [m EXCEPT !.map[t][va] = v]
  PROVE  MapSet(m, n, t, va, v)
PROOF
  <1>1. m.map \in [Tasks -> [Va -> Frame \cup {NoFrame}]]
    BY DEF MemType
  <1> DEFINE w == [m.map EXCEPT ![t][va] = v]
  <1>2. /\ w \in [Tasks -> [Va -> Frame \cup {NoFrame}]] /\ w[t][va] = v
        /\ \A u \in Tasks, q \in Va : u # t \/ q # va => w[u][q] = m.map[u][q]
    BY <1>1
  <1>3. n = [m EXCEPT !.map = w]
    BY DEF MemType
  <1> HIDE DEF w
  <1>4. n \in MemType /\ n.map = w
    BY <1>2, <1>3 DEF MemType
  <1>5. /\ n.used = m.used /\ n.rc = m.rc /\ n.tmp = m.tmp /\ n.tab = m.tab
        /\ n.cu = m.cu /\ n.ck = m.ck
    BY <1>3 DEF MemType
  <1> QED
    BY <1>2, <1>4, <1>5 DEF MapSet, MapDiffers

\* add_count
CountsMoved(m, n, t, va, d) ==
  /\ n \in MemType /\ n.used = m.used /\ n.rc = m.rc /\ n.tmp = m.tmp
  /\ n.tab = m.tab /\ n.map = m.map
  /\ \A u \in Tasks :
       /\ n.cu[u] = m.cu[u] + (IF u = t /\ va \in UserVa THEN d ELSE 0)
       /\ n.ck[u] = m.ck[u] + (IF u = t /\ va \notin UserVa THEN d ELSE 0)

\* add_count moves the counter of its task, and no other field.
LEMMA CountFields ==
  ASSUME NEW m \in MemType, NEW t \in Tasks, NEW va, NEW d \in Int,
         NEW n, n = add_count(m, t, va, d)
  PROVE  CountsMoved(m, n, t, va, d)
PROOF
  <1>1. m.cu \in [Tasks -> Int] /\ m.ck \in [Tasks -> Int]
    BY DEF MemType
  <1> DEFINE a == [m.cu EXCEPT ![t] = IF va \in UserVa THEN @ + d ELSE @]
             c == [m.ck EXCEPT ![t] = IF va \in UserVa THEN @ ELSE @ + d]
  <1>2. /\ a \in [Tasks -> Int] /\ c \in [Tasks -> Int]
        /\ \A u \in Tasks : /\ a[u] = m.cu[u] + (IF u = t /\ va \in UserVa THEN d ELSE 0)
                            /\ c[u] = m.ck[u] + (IF u = t /\ va \notin UserVa THEN d ELSE 0)
    BY <1>1
  <1>3. n = [m EXCEPT !.cu = a, !.ck = c]
    BY DEF MemType, add_count, IsUser
  <1> HIDE DEF a, c
  <1>4. n \in MemType /\ n.cu = a /\ n.ck = c
    BY <1>2, <1>3 DEF MemType
  <1>5. n.used = m.used /\ n.rc = m.rc /\ n.tmp = m.tmp /\ n.tab = m.tab /\ n.map = m.map
    BY <1>3 DEF MemType
  <1> QED
    BY <1>2, <1>4, <1>5 DEF CountsMoved

-----------------------------------------------------------------------------
(* What page_alloc, temporary pages and page tables do.                    *)

\* tmp_page_alloc_map: frame f in slot s
TmpAllocated(m, n, f, s) ==
  /\ f \in Free(m) /\ s \in Slot /\ s # NoSlot /\ m.tmp[s] = NoFrame
  /\ n.tmp[s] = f /\ TmpDiffers(m, n, s) /\ n.used = m.used \cup {f}
  /\ n.tab = m.tab /\ n.map = m.map /\ n.cu = m.cu /\ n.ck = m.ck

\* tmp_page_alloc_map keeps the reference counts exact.
LEMMA TmpAllocExact ==
  ASSUME NEW m, NEW g, NEW E, Exact(m, g, E), TmpAvailable(m),
         NEW n, n = tmp_page_alloc_map(m), NEW f, f = FirstFree(m), NEW s, s = FirstSlot(m)
  PROVE  Exact(n, g, E) /\ TmpAllocated(m, n, f, s)
PROOF
  <1>1. m \in MemType /\ g \in SegType /\ RefExact(m, g, E) /\ Counted(m) /\ TablesOwned(m)
    BY DEF Exact
  <1>2. /\ f \in Free(m) /\ f \in Frame /\ f \notin m.used /\ f # NoFrame
        /\ MapsTo(m, f) = {} /\ TmpOf(m, f) = {} /\ SegOf(g, f) = {} /\ m.rc[f] = 0 /\ f \notin E
    BY FreshFrame, FiniteSets DEF TmpAvailable
  <1>3. s \in Slot /\ m.tmp[s] = NoFrame /\ s # NoSlot
    BY FreshSlot DEF TmpAvailable
  <1>4. /\ n \in MemType /\ n.used = m.used \cup {f}
        /\ n.tab = m.tab /\ n.map = m.map /\ n.cu = m.cu /\ n.ck = m.ck
        /\ \A h \in Frame : n.rc[h] = m.rc[h] + (IF h = f THEN 1 ELSE 0)
        /\ n.tmp[s] = f /\ TmpDiffers(m, n, s)
    <2> DEFINE a == page_alloc(m)
               b == refcount_inc(a, f)
    <2>1. m.used \cup {f} \in SUBSET Frame
      BY <1>1, <1>2 DEF MemType
    <2>2. a = [m EXCEPT !.used = m.used \cup {f}]
      BY <1>1 DEF page_alloc, MemType
    <2>3. /\ a \in MemType /\ a.used = m.used \cup {f} /\ a.rc = m.rc /\ a.tmp = m.tmp
          /\ a.tab = m.tab /\ a.map = m.map /\ a.cu = m.cu /\ a.ck = m.ck
      BY <1>1, <2>1, <2>2, UsedField
    <2>4. b = refcount_inc(a, f)
      OBVIOUS
    <2>5. n = [b EXCEPT !.tmp[s] = f]
      BY DEF tmp_page_alloc_map
    <2> HIDE DEF a, b
    <2>6. /\ b \in MemType /\ b.used = a.used /\ b.tmp = a.tmp /\ b.tab = a.tab
          /\ b.map = a.map /\ b.cu = a.cu /\ b.ck = a.ck
          /\ \A h \in Frame : b.rc[h] = a.rc[h] + (IF h = f THEN 1 ELSE 0)
      BY <1>2, <2>3, <2>4, IncField
    <2>7. /\ n \in MemType /\ n.used = b.used /\ n.rc = b.rc /\ n.tab = b.tab
          /\ n.map = b.map /\ n.cu = b.cu /\ n.ck = b.ck
          /\ n.tmp[s] = f /\ TmpDiffers(b, n, s)
      <3>1. TmpSet(b, n, s, f)
        BY <1>2, <1>3, <2>5, <2>6, TmpField
      <3> QED
        BY <3>1 DEF TmpSet
    <2>8. TmpDiffers(m, n, s)
      BY <2>3, <2>6, <2>7 DEF TmpDiffers
    <2> QED
      BY <2>3, <2>6, <2>7, <2>8
  <1>6. \A h : MapsTo(n, h) = MapsTo(m, h)
    BY <1>4 DEF MapsTo
  <1>7. RefExact(n, g, E)
    <2> SUFFICES ASSUME NEW h \in Frame
                 PROVE  /\ n.rc[h] = Cardinality(MapsTo(n, h)) + Cardinality(TmpOf(n, h))
                                     + Cardinality(SegOf(g, h))
                        /\ h \in n.used <=> Referenced(n, g, h) \/ h \in E
      BY DEF RefExact
    <2>1. /\ m.rc[h] = Cardinality(MapsTo(m, h)) + Cardinality(TmpOf(m, h))
                                     + Cardinality(SegOf(g, h))
          /\ h \in m.used <=> Referenced(m, g, h) \/ h \in E
      BY <1>1 DEF RefExact
    <2>2. /\ \A x : x # s => (x \in TmpOf(n, h) <=> x \in TmpOf(m, h))
          /\ s \in TmpOf(n, h) <=> f = h
          /\ s \notin TmpOf(m, h)
          /\ Cardinality(TmpOf(n, h)) = Cardinality(TmpOf(m, h)) + (IF f = h THEN 1 ELSE 0)
      <3>1. \A x : x # s => (x \in TmpOf(n, h) <=> x \in TmpOf(m, h))
        BY <1>3, <1>4, TmpChange
      <3>2. /\ s \in TmpOf(n, h) <=> n.tmp[s] = h
            /\ s \in TmpOf(m, h) <=> m.tmp[s] = h
            /\ Cardinality(TmpOf(n, h)) = Cardinality(TmpOf(m, h))
                 + (IF n.tmp[s] = h THEN 1 ELSE 0) - (IF m.tmp[s] = h THEN 1 ELSE 0)
        BY <1>3, <1>4, TmpChange
      <3>3. m.tmp[s] # h
        BY <1>3, FiniteSets
      <3> QED
        BY <1>4, <3>1, <3>2, <3>3, RefCounts
    <2>3. n.rc[h] = m.rc[h] + (IF f = h THEN 1 ELSE 0)
      BY <1>4
    <2>4. n.rc[h] = Cardinality(MapsTo(n, h)) + Cardinality(TmpOf(n, h)) + Cardinality(SegOf(g, h))
      BY <1>6, <2>1, <2>2, <2>3, RefCounts
    <2>5. Referenced(n, g, h) <=> Referenced(m, g, h) \/ h = f
      BY <1>6, <2>2 DEF Referenced
    <2> QED
      BY <1>4, <2>1, <2>4, <2>5
  <1>8. Counted(n)
    <2>1. \A t, V : Mapped(n, t, V) = Mapped(m, t, V) /\ SlotsOf(n, t, V) = SlotsOf(m, t, V)
      BY <1>4 DEF Mapped, SlotsOf
    <2> QED
      BY <1>1, <1>4, <2>1 DEF Counted
  <1>9. TablesOwned(n)
    <2>1. \A t \in Tasks, r \in Tables : m.tab[t][r] \in Slot \cup {NoSlot}
      BY <1>1 DEF MemType
    <2> QED
      BY <1>1, <1>2, <1>3, <1>4, <2>1 DEF TablesOwned, TmpDiffers
  <1> QED
    BY <1>1, <1>2, <1>3, <1>4, <1>7, <1>8, <1>9 DEF Exact, TmpAllocated

\* pde_alloc: a table more, in a temporary page of its own
TableAdded(m, n, t, r, f, s) ==
  /\ f \in Free(m) /\ s \in Slot /\ s # NoSlot /\ m.tmp[s] = NoFrame
  /\ n.tmp[s] = f /\ TmpDiffers(m, n, s)
  /\ n.used = m.used \cup {f} /\ n.map = m.map
  /\ n.tab[t][r] = s
  /\ \A u \in Tasks, q \in Tables : u # t \/ q # r => n.tab[u][q] = m.tab[u][q]

\* pde_alloc keeps the reference counts exact.
LEMMA PdeAllocExact ==
  ASSUME NEW m, NEW g, NEW E, Exact(m, g, E), TmpAvailable(m),
         NEW t \in Tasks, NEW r \in Tables, m.tab[t][r] = NoSlot,
         NEW n, n = pde_alloc(m, t, r), NEW f, f = FirstFree(m), NEW s, s = FirstSlot(m)
  PROVE  Exact(n, g, E) /\ TableAdded(m, n, t, r, f, s)
PROOF
  <1> DEFINE n1 == tmp_page_alloc_map(m)
  <1>0. Exact(n1, g, E) /\ TmpAllocated(m, n1, f, s)
    BY TmpAllocExact
  <1>1. /\ Exact(n1, g, E) /\ f \in Free(m) /\ s \in Slot /\ s # NoSlot /\ m.tmp[s] = NoFrame
        /\ n1.tmp[s] = f /\ TmpDiffers(m, n1, s)
        /\ n1.used = m.used \cup {f}
        /\ n1.tab = m.tab /\ n1.map = m.map /\ n1.cu = m.cu /\ n1.ck = m.ck
    BY <1>0 DEF TmpAllocated
  <1>2. n = [n1 EXCEPT !.tab[t][r] = s, !.ck[t] = @ + 1]
    BY DEF pde_alloc
  <1>3. /\ n1 \in MemType /\ g \in SegType /\ RefExact(n1, g, E) /\ Counted(m)
        /\ TablesOwned(m) /\ m \in MemType /\ f \in Frame /\ f # NoFrame
    BY <1>1, FiniteSets DEF Exact, Free
  <1> HIDE DEF n1
  <1>4. /\ n \in MemType /\ n.used = n1.used /\ n.rc = n1.rc /\ n.tmp = n1.tmp
        /\ n.map = n1.map /\ n.cu = n1.cu /\ n.tab[t][r] = s
        /\ \A u \in Tasks, q \in Tables : u # t \/ q # r => n.tab[u][q] = n1.tab[u][q]
        /\ n.ck[t] = n1.ck[t] + 1 /\ \A u \in Tasks : u # t => n.ck[u] = n1.ck[u]
    <2>1. s \in Slot \cup {NoSlot} /\ n1 \in MemType
      BY <1>1, <1>3
    <2>2. TableSet(n1, n, t, r, s)
      BY <1>2, <2>1, TabField
    <2> QED
      BY <2>2 DEF TableSet
  <1>5. /\ n.tab[t][r] = s
        /\ \A u \in Tasks, q \in Tables : u # t \/ q # r => n.tab[u][q] = m.tab[u][q]
    BY <1>1, <1>4
  <1>6. RefExact(n, g, E)
    BY <1>3, <1>4 DEF RefExact, Referenced, MapsTo, TmpOf
  <1>7. \A u \in Tasks, q \in Tables : m.tab[u][q] # s
    BY <1>1, <1>3 DEF TablesOwned
  <1>8. Counted(n)
    <2> SUFFICES ASSUME NEW u \in Tasks
                 PROVE  /\ n.cu[u] = Cardinality(Mapped(n, u, UserVa))
                        /\ n.ck[u] = Cardinality(Mapped(n, u, KStack))
                                     + Cardinality(SlotsOf(n, u, Tables))
      BY DEF Counted
    <2>1. /\ m.cu[u] = Cardinality(Mapped(m, u, UserVa))
          /\ m.ck[u] = Cardinality(Mapped(m, u, KStack)) + Cardinality(SlotsOf(m, u, Tables))
      BY <1>3 DEF Counted
    <2>2. Mapped(n, u, UserVa) = Mapped(m, u, UserVa) /\ Mapped(n, u, KStack) = Mapped(m, u, KStack)
      BY <1>1, <1>4 DEF Mapped
    <2>3. CASE u # t
      <3>1. SlotsOf(n, u, Tables) = SlotsOf(m, u, Tables)
        BY <1>5, <2>3 DEF SlotsOf
      <3>2. n.cu[u] = m.cu[u] /\ n.ck[u] = m.ck[u]
        BY <1>1, <1>4, <2>3
      <3> QED
        BY <2>1, <2>2, <3>1, <3>2
    <2>4. CASE u = t
      <3>1. s \notin SlotsOf(m, t, Tables)
        BY <1>7 DEF SlotsOf
      <3>2. SlotsOf(n, t, Tables) = SlotsOf(m, t, Tables) \cup {s}
        <4>1. ASSUME NEW x \in SlotsOf(n, t, Tables) PROVE x \in SlotsOf(m, t, Tables) \cup {s}
          BY <1>5 DEF SlotsOf
        <4>2. ASSUME NEW x \in SlotsOf(m, t, Tables) PROVE x \in SlotsOf(n, t, Tables)
          <5>1. PICK q \in Tables : x = m.tab[t][q]
            BY DEF SlotsOf
          <5>2. x # NoSlot /\ q # r
            BY <5>1 DEF SlotsOf
          <5> QED
            BY <1>5, <5>1, <5>2 DEF SlotsOf
        <4>3. s \in SlotsOf(n, t, Tables)
          BY <1>1, <1>5 DEF SlotsOf
        <4> QED
          BY <4>1, <4>2, <4>3
      <3>3. IsFiniteSet(SlotsOf(m, t, Tables))
        <4>1. SlotsOf(m, t, Tables) \in SUBSET Slot
          BY <1>3 DEF SlotsOf, MemType
        <4> QED
          BY <4>1, FiniteSets, FS_Subset
      <3>4. Cardinality(SlotsOf(n, t, Tables)) = Cardinality(SlotsOf(m, t, Tables)) + 1
        BY <3>1, <3>2, <3>3, FS_AddElement
      <3>5. n.cu[t] = m.cu[t] /\ n.ck[t] = m.ck[t] + 1
        BY <1>1, <1>4
      <3>6. Cardinality(SlotsOf(m, t, Tables)) \in Nat
        BY <3>3, FS_CardinalityType
      <3>7. Cardinality(Mapped(m, t, KStack)) \in Nat
        <4>1. Mapped(m, t, KStack) \in SUBSET KStack
          BY DEF Mapped
        <4> QED
          BY <4>1, FiniteSets, FS_Subset, FS_CardinalityType
      <3> QED
        BY <2>1, <2>2, <2>4, <3>4, <3>5, <3>6, <3>7
    <2> QED
      BY <2>3, <2>4
  <1>9. TablesOwned(n)
    <2> SUFFICES ASSUME NEW u \in Tasks, NEW q \in Tables, n.tab[u][q] # NoSlot
                 PROVE  /\ n.tmp[n.tab[u][q]] # NoFrame
                        /\ \A v \in Tasks, p \in Tables :
                             n.tab[v][p] = n.tab[u][q] => v = u /\ p = q
      BY DEF TablesOwned
    <2>1. n.tmp[s] = f /\ \A z \in Slot : z # s => n.tmp[z] = m.tmp[z]
      BY <1>1, <1>4 DEF TmpDiffers
    <2>2. CASE u = t /\ q = r
      BY <1>3, <1>5, <1>7, <2>1, <2>2
    <2>3. CASE u # t \/ q # r
      <3>1. n.tab[u][q] = m.tab[u][q] /\ m.tab[u][q] \in Slot /\ m.tab[u][q] # s
        BY <1>3, <1>5, <1>7, <2>3 DEF MemType
      <3>2. n.tmp[n.tab[u][q]] # NoFrame
        BY <1>3, <2>1, <3>1 DEF TablesOwned
      <3>3. ASSUME NEW v \in Tasks, NEW p \in Tables, n.tab[v][p] = n.tab[u][q]
            PROVE  v = u /\ p = q
        BY <1>3, <1>5, <3>1, <3>3 DEF TablesOwned
      <3> QED
        BY <3>2, <3>3
    <2> QED
      BY <2>2, <2>3
  <1>10. Exact(n, g, E)
    BY <1>3, <1>4, <1>6, <1>8, <1>9 DEF Exact
  <1> QED
    BY <1>1, <1>4, <1>5, <1>10 DEF TmpDiffers, TableAdded

\* Process t has table r, which it had before or which is in a temporary page
\* that was free.
TableGrown(m, n, t, r) ==
  /\ n.tab[t][r] # NoSlot
  /\ \A u \in Tasks, q \in Tables : u # t \/ q # r => n.tab[u][q] = m.tab[u][q]
  /\ m.tab[t][r] # NoSlot => n.tab[t][r] = m.tab[t][r]
  /\ m.tab[t][r] = NoSlot => m.tmp[n.tab[t][r]] = NoFrame
  /\ \A z \in Slot : n.tmp[z] # m.tmp[z] =>
       m.tmp[z] = NoFrame /\ n.tmp[z] \in Free(m) /\ z = n.tab[t][r] /\ m.tab[t][r] = NoSlot

\* and takes a frame for it at most
UsedForTable(m, n, t, r) ==
  /\ m.used \subseteq n.used
  /\ m.tab[t][r] # NoSlot => n.used = m.used
  /\ \E f \in Frame : n.used \subseteq m.used \cup {f}

\* page_get_c: the page table of va exists
TableGot(m, n, t, r) ==
  n.map = m.map /\ TableGrown(m, n, t, r) /\ UsedForTable(m, n, t, r)

\* page_get_c keeps them exact, whether or not it has to make the table.
LEMMA TableGotExact ==
  ASSUME NEW m, NEW g, NEW E, Exact(m, g, E), NEW t \in Tasks, NEW va \in Va,
         CanGet(m, t, va), NEW n, n = page_get_c(m, t, va)
  PROVE  Exact(n, g, E) /\ TableGot(m, n, t, va[1])
PROOF
  <1> DEFINE r == va[1]
  <1>1. r \in Tables /\ \E f \in Frame : TRUE
    <2>1. 1 \in Frame
      BY MemoryAssumption DEF Frame
    <2> QED
      BY <2>1, Layout
  <1>2. CASE m.tab[t][r] # NoSlot
    <2>1. n = m
      BY <1>2 DEF page_get_c
    <2> QED
      BY <1>1, <1>2, <2>1 DEF TableGot, TableGrown, UsedForTable
  <1>3. CASE m.tab[t][r] = NoSlot
    <2> DEFINE f == FirstFree(m)
               s == FirstSlot(m)
    <2>1. TmpAvailable(m) /\ n = pde_alloc(m, t, r)
      BY <1>3 DEF CanGet, page_get_c
    <2> HIDE DEF r
    <2>2. Exact(n, g, E) /\ TableAdded(m, n, t, r, f, s)
      BY <1>1, <1>3, <2>1, PdeAllocExact
    <2>3. /\ f \in Free(m) /\ s \in Slot /\ s # NoSlot /\ m.tmp[s] = NoFrame
          /\ n.tmp[s] = f /\ (\A z \in Slot : z # s => n.tmp[z] = m.tmp[z])
          /\ n.used = m.used \cup {f} /\ n.map = m.map /\ n.tab[t][r] = s
          /\ \A u \in Tasks, q \in Tables : u # t \/ q # r => n.tab[u][q] = m.tab[u][q]
      BY <2>2 DEF TableAdded, TmpDiffers
    <2>4. f \in Frame
      BY <2>3 DEF Free
    <2> QED
      BY <1>3, <2>2, <2>3, <2>4 DEF TableGot, TableGrown, UsedForTable, r
  <1> QED
    BY <1>2, <1>3

\* the end of page_insert, at a page that is not present
PageSet(m, n, t, va, f) ==
  /\ n.map[t][va] = f /\ MapDiffers(m, n, t, va)
  /\ n.tab = m.tab /\ n.tmp = m.tmp /\ n.used = m.used

\* Entering a frame in a page table gives it the reference it lacked.
LEMMA PageSetExact ==
  ASSUME NEW m, NEW g, NEW E, Exact(m, g, E), NEW t \in Tasks, NEW va \in Va,
         NEW f \in Frame, f \in m.used, m.map[t][va] = NoFrame,
         NEW n, n = add_count([refcount_inc(m, f) EXCEPT !.map[t][va] = f], t, va, 1)
  PROVE  Exact(n, g, E \ {f}) /\ PageSet(m, n, t, va, f)
PROOF
  <1>1. m \in MemType /\ g \in SegType /\ RefExact(m, g, E) /\ Counted(m) /\ TablesOwned(m)
    BY DEF Exact
  <1> DEFINE a == refcount_inc(m, f)
             b == [a EXCEPT !.map[t][va] = f]
  <1>2. /\ a \in MemType /\ a.used = m.used /\ a.tmp = m.tmp /\ a.tab = m.tab
        /\ a.map = m.map /\ a.cu = m.cu /\ a.ck = m.ck
        /\ \A h \in Frame : a.rc[h] = m.rc[h] + (IF h = f THEN 1 ELSE 0)
    BY <1>1, IncField
  <1>3. n = add_count(b, t, va, 1)
    OBVIOUS
  <1> HIDE DEF a
  <1>4. /\ b \in MemType /\ b.used = a.used /\ b.rc = a.rc /\ b.tmp = a.tmp
        /\ b.tab = a.tab /\ b.cu = a.cu /\ b.ck = a.ck
        /\ b.map[t][va] = f /\ MapDiffers(a, b, t, va)
    <2>1. f \in Frame \cup {NoFrame} /\ a \in MemType
      BY <1>2
    <2>2. MapSet(a, b, t, va, f)
      BY <2>1, MapField
    <2> QED
      BY <2>2 DEF MapSet
  <1> HIDE DEF b
  <1>5. /\ n \in MemType /\ n.used = b.used /\ n.rc = b.rc /\ n.tmp = b.tmp
        /\ n.tab = b.tab /\ n.map = b.map
        /\ \A u \in Tasks :
             /\ n.cu[u] = b.cu[u] + (IF u = t /\ va \in UserVa THEN 1 ELSE 0)
             /\ n.ck[u] = b.ck[u] + (IF u = t /\ va \notin UserVa THEN 1 ELSE 0)
    <2>1. CountsMoved(b, n, t, va, 1)
      BY <1>3, <1>4, CountFields
    <2> QED
      BY <2>1 DEF CountsMoved
  <1>6. PageSet(m, n, t, va, f)
    BY <1>2, <1>4, <1>5 DEF PageSet, MapDiffers
  <1>7. MapDiffers(m, n, t, va) /\ n.map[t][va] = f /\ f # NoFrame
    BY <1>6, FiniteSets DEF PageSet
  <1>71. MapsCounted(m, n, t, va) /\ MappedCounted(m, n, t, va)
    BY <1>7, MapChange
  <1>8. RefExact(n, g, E \ {f})
    <2> SUFFICES ASSUME NEW h \in Frame
                 PROVE  /\ n.rc[h] = Cardinality(MapsTo(n, h)) + Cardinality(TmpOf(n, h))
                                     + Cardinality(SegOf(g, h))
                        /\ h \in n.used <=> Referenced(n, g, h) \/ h \in E \ {f}
      BY DEF RefExact
    <2>1. /\ m.rc[h] = Cardinality(MapsTo(m, h)) + Cardinality(TmpOf(m, h))
                                     + Cardinality(SegOf(g, h))
          /\ h \in m.used <=> Referenced(m, g, h) \/ h \in E
      BY <1>1 DEF RefExact
    <2>2. /\ \A x : x # <<t, va>> => (x \in MapsTo(n, h) <=> x \in MapsTo(m, h))
          /\ <<t, va>> \in MapsTo(n, h) <=> f = h
          /\ <<t, va>> \notin MapsTo(m, h)
          /\ Cardinality(MapsTo(n, h)) = Cardinality(MapsTo(m, h)) + (IF f = h THEN 1 ELSE 0)
      <3>1. m.map[t][va] # h
        BY FiniteSets
      <3>2. /\ \A x : x # <<t, va>> => (x \in MapsTo(n, h) <=> x \in MapsTo(m, h))
            /\ <<t, va>> \in MapsTo(n, h) <=> n.map[t][va] = h
            /\ <<t, va>> \in MapsTo(m, h) <=> m.map[t][va] = h
        BY <1>71 DEF MapsCounted
      <3>3. Cardinality(MapsTo(n, h)) = Cardinality(MapsTo(m, h))
              + (IF n.map[t][va] = h THEN 1 ELSE 0) - (IF m.map[t][va] = h THEN 1 ELSE 0)
        BY <1>71 DEF MapsCounted
      <3> QED
        BY <1>7, <3>1, <3>2, <3>3, RefCounts
    <2>3. TmpOf(n, h) = TmpOf(m, h)
      BY <1>2, <1>4, <1>5 DEF TmpOf
    <2>4. n.rc[h] = m.rc[h] + (IF h = f THEN 1 ELSE 0)
      BY <1>2, <1>4, <1>5
    <2>5. n.rc[h] = Cardinality(MapsTo(n, h)) + Cardinality(TmpOf(n, h)) + Cardinality(SegOf(g, h))
      BY <2>1, <2>2, <2>3, <2>4, RefCounts
    <2>6. Referenced(n, g, h) <=> Referenced(m, g, h) \/ h = f
      BY <2>2, <2>3 DEF Referenced
    <2> QED
      BY <1>2, <1>4, <1>5, <2>1, <2>5, <2>6
  <1>9. Counted(n)
    <2> SUFFICES ASSUME NEW u \in Tasks
                 PROVE  /\ n.cu[u] = Cardinality(Mapped(n, u, UserVa))
                        /\ n.ck[u] = Cardinality(Mapped(n, u, KStack))
                                     + Cardinality(SlotsOf(n, u, Tables))
      BY DEF Counted
    <2>1. /\ m.cu[u] = Cardinality(Mapped(m, u, UserVa))
          /\ m.ck[u] = Cardinality(Mapped(m, u, KStack)) + Cardinality(SlotsOf(m, u, Tables))
      BY <1>1 DEF Counted
    <2>2. UserVa \in SUBSET Va /\ KStack \in SUBSET Va /\ (va \in KStack <=> va \notin UserVa)
      BY Layout
    <2>3. ASSUME NEW V \in SUBSET Va
          PROVE  Cardinality(Mapped(m, u, V)) \in Nat
                 /\ Cardinality(Mapped(n, u, V)) = Cardinality(Mapped(m, u, V))
                      + (IF u = t /\ va \in V THEN 1 ELSE 0)
      <3>1. /\ Cardinality(Mapped(m, u, V)) \in Nat
            /\ Cardinality(Mapped(n, u, V)) = Cardinality(Mapped(m, u, V))
                 + (IF u = t /\ va \in V /\ n.map[t][va] # NoFrame THEN 1 ELSE 0)
                 - (IF u = t /\ va \in V /\ m.map[t][va] # NoFrame THEN 1 ELSE 0)
        BY <1>71 DEF MappedCounted
      <3> QED
        BY <1>7, <3>1
    <2>4. SlotsOf(n, u, Tables) = SlotsOf(m, u, Tables)
      BY <1>2, <1>4, <1>5 DEF SlotsOf
    <2>5. Cardinality(SlotsOf(m, u, Tables)) \in Nat
      <3>1. SlotsOf(m, u, Tables) \in SUBSET Slot
        BY <1>1 DEF SlotsOf, MemType
      <3> QED
        BY <3>1, FiniteSets, FS_Subset, FS_CardinalityType
    <2> QED
      BY <1>2, <1>4, <1>5, <2>1, <2>2, <2>3, <2>4, <2>5
  <1>10. TablesOwned(n)
    BY <1>1, <1>2, <1>4, <1>5 DEF TablesOwned
  <1> QED
    BY <1>1, <1>5, <1>6, <1>8, <1>9, <1>10 DEF Exact

\* page_insert of frame f at a page of t that is not present
PageInserted(m, n, t, va, f) ==
  /\ n.map[t][va] = f /\ MapDiffers(m, n, t, va)
  /\ TableGrown(m, n, t, va[1]) /\ UsedForTable(m, n, t, va[1])

\* page_insert makes the table if need be and enters the frame.
LEMMA PageInsertExact ==
  ASSUME NEW m, NEW g, NEW E, Exact(m, g, E), NEW t \in Tasks, NEW va \in Va,
         NEW f \in Frame, f \in m.used, m.map[t][va] = NoFrame, CanGet(m, t, va),
         NEW n, n = page_insert(m, t, va, f)
  PROVE  Exact(n, g, E \ {f}) /\ PageInserted(m, n, t, va, f)
PROOF
  <1> DEFINE m1 == page_get_c(m, t, va)
  <1>1. Exact(m1, g, E) /\ TableGot(m, m1, t, va[1])
    BY TableGotExact
  <1>2. m1.map = m.map /\ m.used \subseteq m1.used
    BY <1>1 DEF TableGot, UsedForTable
  <1>3. n = add_count([refcount_inc(m1, f) EXCEPT !.map[t][va] = f], t, va, 1)
    BY <1>2 DEF page_insert
  <1> HIDE DEF m1
  <1>4. f \in m1.used /\ m1.map[t][va] = NoFrame
    BY <1>2
  <1>5. Exact(n, g, E \ {f}) /\ PageSet(m1, n, t, va, f)
    BY <1>1, <1>3, <1>4, PageSetExact
  <1>6. /\ n.map[t][va] = f /\ MapDiffers(m1, n, t, va)
        /\ n.tab = m1.tab /\ n.tmp = m1.tmp /\ n.used = m1.used
    BY <1>5 DEF PageSet
  <1>7. MapDiffers(m, n, t, va)
    BY <1>2, <1>6 DEF MapDiffers
  <1> QED
    BY <1>1, <1>5, <1>6, <1>7 DEF PageInserted, TableGot, TableGrown, UsedForTable

-----------------------------------------------------------------------------
(* What an operation on process t leaves alone.                            *)

\* the frames that are referred to without process c
Others(m, g, c) ==
  {f \in Frame : \/ \E u \in Tasks \ {c}, va \in Va : m.map[u][va] = f
                 \/ \E s \in Slot \ SlotsOf(m, c, Tables) : m.tmp[s] = f
                 \/ SegOf(g, f) # {}}

\* the other processes, and the frames that others refer to
Local(m, n, g, t) ==
  /\ \A u \in Tasks : u # t => /\ \A va \in Va : n.map[u][va] = m.map[u][va]
                               /\ \A r \in Tables : n.tab[u][r] = m.tab[u][r]
  /\ Others(n, g, t) = Others(m, g, t)

\* temporary pages change where they are free or tables of t
SlotsLocal(m, n, t) ==
  \A s \in Slot :
    \/ /\ s \in SlotsOf(m, t, Tables) \/ m.tmp[s] = NoFrame
       /\ s \in SlotsOf(n, t, Tables) \/ n.tmp[s] = NoFrame
    \/ s \notin SlotsOf(m, t, Tables) /\ s \notin SlotsOf(n, t, Tables) /\ n.tmp[s] = m.tmp[s]

\* A step local to t changes nothing of what the others reach.
LEMMA OthersSame ==
  ASSUME NEW m, NEW n, NEW g, NEW t, SlotsLocal(m, n, t),
         \A u \in Tasks : u # t => \A va \in Va : n.map[u][va] = m.map[u][va]
  PROVE  Others(n, g, t) = Others(m, g, t)
PROOF
  <1>1. \A s \in Slot, f \in Frame :
          (s \notin SlotsOf(m, t, Tables) /\ m.tmp[s] = f)
            <=> (s \notin SlotsOf(n, t, Tables) /\ n.tmp[s] = f)
    BY FiniteSets DEF SlotsLocal
  <1>2. ASSUME NEW f \in Frame
        PROVE  (\E s \in Slot \ SlotsOf(m, t, Tables) : m.tmp[s] = f)
               <=> (\E s \in Slot \ SlotsOf(n, t, Tables) : n.tmp[s] = f)
    BY <1>1
  <1>3. ASSUME NEW f \in Frame
        PROVE  (\E u \in Tasks \ {t}, va \in Va : m.map[u][va] = f)
               <=> (\E u \in Tasks \ {t}, va \in Va : n.map[u][va] = f)
    OBVIOUS
  <1> QED
    BY <1>2, <1>3 DEF Others

\* A table more for t, and pages of t only, is local to t.
LEMMA GrownLocal ==
  ASSUME NEW m \in MemType, NEW n \in MemType, NEW g, NEW t \in Tasks, NEW r \in Tables,
         TableGrown(m, n, t, r),
         \A u \in Tasks : u # t => \A va \in Va : n.map[u][va] = m.map[u][va]
  PROVE  Local(m, n, g, t)
PROOF
  <1>1. /\ n.tab[t][r] # NoSlot
        /\ \A u \in Tasks, q \in Tables : u # t \/ q # r => n.tab[u][q] = m.tab[u][q]
        /\ m.tab[t][r] # NoSlot => n.tab[t][r] = m.tab[t][r]
        /\ m.tab[t][r] = NoSlot => m.tmp[n.tab[t][r]] = NoFrame
        /\ \A z \in Slot : n.tmp[z] # m.tmp[z] =>
             m.tmp[z] = NoFrame /\ z = n.tab[t][r]
    BY DEF TableGrown
  <1>2. SlotsLocal(m, n, t)
    <2> SUFFICES ASSUME NEW s \in Slot
          PROVE \/ /\ s \in SlotsOf(m, t, Tables) \/ m.tmp[s] = NoFrame
                   /\ s \in SlotsOf(n, t, Tables) \/ n.tmp[s] = NoFrame
                \/ /\ s \notin SlotsOf(m, t, Tables) /\ s \notin SlotsOf(n, t, Tables)
                   /\ n.tmp[s] = m.tmp[s]
      BY DEF SlotsLocal
    <2>1. s # NoSlot
      BY FiniteSets
    <2>2. s \in SlotsOf(m, t, Tables) => s \in SlotsOf(n, t, Tables)
      <3> HAVE s \in SlotsOf(m, t, Tables)
      <3>1. PICK q \in Tables : s = m.tab[t][q]
        BY DEF SlotsOf
      <3>2. s = n.tab[t][q]
        BY <1>1, <2>1, <3>1
      <3> QED
        BY <2>1, <3>2 DEF SlotsOf
    <2>3. s \in SlotsOf(n, t, Tables) /\ s \notin SlotsOf(m, t, Tables) => m.tmp[s] = NoFrame
      <3> HAVE s \in SlotsOf(n, t, Tables) /\ s \notin SlotsOf(m, t, Tables)
      <3>1. PICK q \in Tables : s = n.tab[t][q]
        BY DEF SlotsOf
      <3>2. s # m.tab[t][q]
        BY <2>1 DEF SlotsOf
      <3> QED
        BY <1>1, <3>1, <3>2
    <2>4. n.tmp[s] # m.tmp[s] => m.tmp[s] = NoFrame /\ s \in SlotsOf(n, t, Tables)
      BY <1>1, <2>1 DEF SlotsOf
    <2> QED
      BY <2>2, <2>3, <2>4
  <1>3. Others(n, g, t) = Others(m, g, t)
    BY <1>2, OthersSame
  <1> QED
    BY <1>1, <1>3 DEF Local

-----------------------------------------------------------------------------
(* Separation.                                                             *)

\* Pages are taken away, and temporary pages are made of free frames.
Shrunk(m, n) ==
  /\ \A u \in Tasks, w \in Va : n.map[u][w] = m.map[u][w] \/ n.map[u][w] = NoFrame
  /\ \A z \in Slot : n.tmp[z] = m.tmp[z] \/ n.tmp[z] = NoFrame \/ n.tmp[z] \in Free(m)

\* Frames that are mapped or in a segment are not free.
LEMMA NotFree ==
  ASSUME NEW m, NEW g, NEW E, Exact(m, g, E)
  PROVE  /\ \A u \in Tasks, w \in Va : m.map[u][w] \notin Free(m)
         /\ \A k \in Segs : g[k] \notin Free(m)
         /\ \A z \in Slot : m.tmp[z] \notin Free(m)
PROOF
  <1>1. ASSUME NEW f \in Free(m) PROVE MapsTo(m, f) = {} /\ TmpOf(m, f) = {} /\ SegOf(g, f) = {}
    BY FreshFrame
  <1>2. ASSUME NEW u \in Tasks, NEW w \in Va PROVE m.map[u][w] \notin Free(m)
    <2>1. <<u, w>> \in MapsTo(m, m.map[u][w])
      BY DEF MapsTo
    <2> QED
      BY <1>1, <2>1
  <1> QED
    BY <1>1, <1>2 DEF TmpOf, SegOf

\* Taking mappings away keeps processes separate.
LEMMA SeparatedShrunk ==
  ASSUME NEW m, NEW g, NEW E, Exact(m, g, E), Separated(m, g), NEW n, Shrunk(m, n)
  PROVE  Separated(n, g)
PROOF
  <1>1. ASSUME NEW f, f # NoFrame, TmpOf(m, f) = {}, f \notin Free(m) PROVE TmpOf(n, f) = {}
    BY <1>1 DEF TmpOf, Shrunk
  <1>2. ASSUME NEW t \in Tasks, NEW va \in Va, n.map[t][va] # NoFrame
        PROVE  /\ TmpOf(n, n.map[t][va]) = {}
               /\ va \in ShmVa => SegOf(g, n.map[t][va]) # {}
               /\ va \notin ShmVa => /\ SegOf(g, n.map[t][va]) = {}
                                     /\ \A u \in Tasks, w \in Va :
                                          n.map[u][w] = n.map[t][va] => u = t /\ w = va
    <2>1. n.map[t][va] = m.map[t][va] /\ m.map[t][va] # NoFrame
      BY <1>2 DEF Shrunk
    <2>2. TmpOf(n, n.map[t][va]) = {}
      BY <1>1, <2>1, NotFree DEF Separated
    <2> QED
      BY <1>2, <2>1, <2>2 DEF Separated, Shrunk
  <1>3. ASSUME NEW k \in Segs, g[k] # NoFrame PROVE TmpOf(n, g[k]) = {}
    BY <1>1, <1>3, NotFree DEF Separated
  <1> QED
    BY <1>2, <1>3 DEF Separated

\* A free frame is mapped at a page of t.
FreshPage(m, n, t, va, f) ==
  /\ f \in Free(m) /\ n.map[t][va] = f /\ MapDiffers(m, n, t, va)
  /\ \A z \in Slot : n.tmp[z] = m.tmp[z] \/ n.tmp[z] = NoFrame \/ n.tmp[z] \in Free(m) \ {f}

\* A page in a fresh frame keeps processes separate.
LEMMA SeparatedFresh ==
  ASSUME NEW m, NEW g, NEW E, Exact(m, g, E), Separated(m, g),
         NEW t \in Tasks, NEW va \in Va \ ShmVa, NEW f, NEW n, FreshPage(m, n, t, va, f)
  PROVE  Separated(n, g)
PROOF
  <1>1. /\ f \in Free(m) /\ n.map[t][va] = f /\ f # NoFrame
        /\ \A u \in Tasks, w \in Va : u # t \/ w # va => n.map[u][w] = m.map[u][w]
        /\ \A z \in Slot : n.tmp[z] = m.tmp[z] \/ n.tmp[z] = NoFrame \/ n.tmp[z] \in Free(m) \ {f}
    BY FiniteSets DEF FreshPage, MapDiffers, Free
  <1>2. ASSUME NEW h, h # NoFrame, TmpOf(m, h) = {}, h \notin Free(m) \ {f}
        PROVE  TmpOf(n, h) = {}
    BY <1>1, <1>2 DEF TmpOf
  <1>3. TmpOf(m, f) = {} /\ SegOf(g, f) = {} /\ MapsTo(m, f) = {}
    BY <1>1, FreshFrame
  <1>4. \A u \in Tasks, w \in Va : m.map[u][w] \notin Free(m)
    BY NotFree
  <1>5. ASSUME NEW u \in Tasks, NEW w \in Va, n.map[u][w] # NoFrame
        PROVE  /\ TmpOf(n, n.map[u][w]) = {}
               /\ w \in ShmVa => SegOf(g, n.map[u][w]) # {}
               /\ w \notin ShmVa => /\ SegOf(g, n.map[u][w]) = {}
                                    /\ \A v \in Tasks, x \in Va :
                                         n.map[v][x] = n.map[u][w] => v = u /\ x = w
    <2>1. CASE u = t /\ w = va
      <3>1. TmpOf(n, f) = {}
        BY <1>1, <1>2, <1>3
      <3>2. ASSUME NEW v \in Tasks, NEW x \in Va, n.map[v][x] = f PROVE v = t /\ x = va
        BY <1>1, <1>4, <3>2
      <3> QED
        BY <1>1, <1>3, <2>1, <3>1, <3>2
    <2>2. CASE u # t \/ w # va
      <3>1. n.map[u][w] = m.map[u][w]
        BY <1>1, <2>2
      <3>2. TmpOf(n, n.map[u][w]) = {}
        BY <1>2, <1>4, <1>5, <3>1 DEF Separated
      <3>3. ASSUME w \notin ShmVa, NEW v \in Tasks, NEW x \in Va, n.map[v][x] = n.map[u][w]
            PROVE  v = u /\ x = w
        <4>1. v # t \/ x # va
          BY <1>1, <1>4, <3>1, <3>3
        <4>2. m.map[v][x] = m.map[u][w] /\ m.map[u][w] # NoFrame
          BY <1>1, <1>5, <3>1, <3>3, <4>1
        <4> QED
          BY <3>3, <4>2 DEF Separated
      <3> QED
        BY <1>5, <3>1, <3>2, <3>3 DEF Separated
    <2> QED
      BY <2>1, <2>2
  <1>6. ASSUME NEW k \in Segs, g[k] # NoFrame PROVE TmpOf(n, g[k]) = {}
    BY <1>2, <1>6, NotFree DEF Separated
  <1> QED
    BY <1>5, <1>6 DEF Separated

-----------------------------------------------------------------------------
(* A page more: page_alloc_insert and __copy_page_from_current.            *)

\* page_alloc: frame f is the caller's
FrameTaken(m, n, f) ==
  /\ f \in Free(m) /\ n.used = m.used \cup {f}
  /\ n.tmp = m.tmp /\ n.tab = m.tab /\ n.map = m.map /\ n.rc = m.rc

\* page_alloc gives a frame that only its caller knows of.
LEMMA PageAllocExact ==
  ASSUME NEW m, NEW g, Exact(m, g, {}), Free(m) # {},
         NEW f, f = FirstFree(m), NEW n, n = page_alloc(m)
  PROVE  Exact(n, g, {f}) /\ FrameTaken(m, n, f)
PROOF
  <1>1. m \in MemType /\ g \in SegType /\ RefExact(m, g, {}) /\ Counted(m) /\ TablesOwned(m)
    BY DEF Exact
  <1>2. f \in Free(m) /\ f \in Frame
    BY FreshFrame
  <1>3. m.used \cup {f} \in SUBSET Frame
    BY <1>1, <1>2 DEF MemType
  <1>4. n = [m EXCEPT !.used = m.used \cup {f}]
    BY <1>1 DEF page_alloc, MemType
  <1>5. /\ n \in MemType /\ n.used = m.used \cup {f} /\ n.rc = m.rc /\ n.tmp = m.tmp
        /\ n.tab = m.tab /\ n.map = m.map /\ n.cu = m.cu /\ n.ck = m.ck
    BY <1>1, <1>3, <1>4, UsedField
  <1>6. \A h : MapsTo(n, h) = MapsTo(m, h) /\ TmpOf(n, h) = TmpOf(m, h)
    BY <1>5 DEF MapsTo, TmpOf
  <1>7. RefExact(n, g, {f})
    BY <1>1, <1>5, <1>6 DEF RefExact, Referenced
  <1>8. \A t, V : Mapped(n, t, V) = Mapped(m, t, V) /\ SlotsOf(n, t, V) = SlotsOf(m, t, V)
    BY <1>5 DEF Mapped, SlotsOf
  <1>9. Counted(n) /\ TablesOwned(n)
    BY <1>1, <1>5, <1>8 DEF Counted, TablesOwned
  <1> QED
    BY <1>1, <1>2, <1>5, <1>7, <1>9 DEF Exact, FrameTaken

\* tmp_page_free of slot s
TmpFreed(m, n, s) ==
  /\ n.tmp[s] = NoFrame /\ TmpDiffers(m, n, s) /\ n.used \subseteq m.used
  /\ n.tab = m.tab /\ n.map = m.map

\* tmp_page_free gives back the slot and the frame's reference.
LEMMA TmpFreeExact ==
  ASSUME NEW m, NEW g, Exact(m, g, {}), NEW s \in Slot, m.tmp[s] # NoFrame,
         \A u \in Tasks, q \in Tables : m.tab[u][q] # s,
         NEW n, n = tmp_page_free(m, s)
  PROVE  Exact(n, g, {}) /\ TmpFreed(m, n, s)
PROOF
  <1>1. m \in MemType /\ g \in SegType /\ RefExact(m, g, {}) /\ Counted(m) /\ TablesOwned(m)
    BY DEF Exact
  <1> DEFINE f == m.tmp[s]
             a == refcount_dec(m, f)
  <1>2. f \in Frame
    BY <1>1 DEF MemType
  <1>3. n = [a EXCEPT !.tmp[s] = NoFrame] /\ a = refcount_dec(m, f)
    BY DEF tmp_page_free
  <1> HIDE DEF a, f
  <1>4. /\ a \in MemType /\ a.tmp = m.tmp /\ a.tab = m.tab
        /\ a.map = m.map /\ a.cu = m.cu /\ a.ck = m.ck
        /\ a.used = IF m.rc[f] = 1 THEN m.used \ {f} ELSE m.used
        /\ \A h \in Frame : a.rc[h] = m.rc[h] - (IF h = f THEN 1 ELSE 0)
    <2>1. Decremented(m, a, f)
      BY <1>1, <1>2, <1>3, DecField
    <2> QED
      BY <2>1 DEF Decremented
  <1>5. /\ n \in MemType /\ n.used = a.used /\ n.rc = a.rc /\ n.tab = a.tab
        /\ n.map = a.map /\ n.cu = a.cu /\ n.ck = a.ck
        /\ n.tmp[s] = NoFrame /\ TmpDiffers(a, n, s)
    <2>1. NoFrame \in Frame \cup {NoFrame} /\ a \in MemType
      BY <1>4
    <2>2. TmpSet(a, n, s, NoFrame)
      BY <1>3, <2>1, TmpField
    <2> QED
      BY <2>2 DEF TmpSet
  <1>6. TmpDiffers(m, n, s)
    BY <1>4, <1>5 DEF TmpDiffers
  <1>7. RefExact(n, g, {})
    <2> SUFFICES ASSUME NEW h \in Frame
                 PROVE  /\ n.rc[h] = Cardinality(MapsTo(n, h)) + Cardinality(TmpOf(n, h))
                                     + Cardinality(SegOf(g, h))
                        /\ h \in n.used <=> Referenced(n, g, h)
      BY DEF RefExact
    <2>1. /\ m.rc[h] = Cardinality(MapsTo(m, h)) + Cardinality(TmpOf(m, h))
                                     + Cardinality(SegOf(g, h))
          /\ h \in m.used <=> Referenced(m, g, h)
      BY <1>1 DEF RefExact
    <2>2. MapsTo(n, h) = MapsTo(m, h)
      BY <1>4, <1>5 DEF MapsTo
    <2>3. /\ \A x : x # s => (x \in TmpOf(n, h) <=> x \in TmpOf(m, h))
          /\ s \in TmpOf(n, h) <=> n.tmp[s] = h
          /\ s \in TmpOf(m, h) <=> m.tmp[s] = h
      BY <1>6, TmpChange
    <2>4. Cardinality(TmpOf(n, h)) = Cardinality(TmpOf(m, h))
                 + (IF n.tmp[s] = h THEN 1 ELSE 0) - (IF m.tmp[s] = h THEN 1 ELSE 0)
      BY <1>6, TmpChange
    <2>5. n.tmp[s] # h /\ m.tmp[s] = f
      BY <1>5, FiniteSets DEF f
    <2>6. n.rc[h] = m.rc[h] - (IF h = f THEN 1 ELSE 0)
      BY <1>4, <1>5
    <2>7. n.rc[h] = Cardinality(MapsTo(n, h)) + Cardinality(TmpOf(n, h)) + Cardinality(SegOf(g, h))
      BY <2>1, <2>2, <2>4, <2>5, <2>6, RefCounts
    <2>8. CASE h # f
      <3>1. TmpOf(n, h) = TmpOf(m, h)
        BY <2>3, <2>5, <2>8
      <3> QED
        BY <1>4, <1>5, <2>1, <2>2, <2>7, <2>8, <3>1 DEF Referenced
    <2>9. CASE h = f
      <3>1. h \in m.used
        BY <2>1, <2>3, <2>5, <2>9 DEF Referenced
      <3>2. h \in n.used <=> m.rc[h] # 1
        BY <1>4, <1>5, <2>9, <3>1
      <3>3. m.rc[h] = n.rc[h] + 1 /\ n.rc[h] \in Nat
        BY <2>6, <2>7, <2>9, RefCounts, <2>1
      <3>4. n.rc[h] # 0 <=> Referenced(n, g, h)
        BY <2>7, RefCounts DEF Referenced
      <3> QED
        BY <2>7, <3>2, <3>3, <3>4
    <2> QED
      BY <2>8, <2>9
  <1>8. \A t, V : Mapped(n, t, V) = Mapped(m, t, V) /\ SlotsOf(n, t, V) = SlotsOf(m, t, V)
    BY <1>4, <1>5 DEF Mapped, SlotsOf
  <1>9. Counted(n)
    BY <1>1, <1>4, <1>5, <1>8 DEF Counted
  <1>10. TablesOwned(n)
    <2>1. \A t \in Tasks, r \in Tables : m.tab[t][r] \in Slot \cup {NoSlot}
      BY <1>1 DEF MemType
    <2> QED
      BY <1>1, <1>4, <1>5, <1>6, <2>1 DEF TablesOwned, TmpDiffers
  <1> QED
    BY <1>1, <1>4, <1>5, <1>6, <1>7, <1>9, <1>10 DEF Exact, TmpFreed

\* A page of t is mapped that was not, in a frame of its own.
PageAdded(m, n, t, va) ==
  /\ n.map[t][va] \in Frame /\ MapDiffers(m, n, t, va) /\ TableGrown(m, n, t, va[1])

\* frames and slots that are taken for it
UsedForPage(m, n, t, r) ==
  \E f, h \in Frame : n.used \subseteq m.used \cup {f, h}
                      /\ (m.tab[t][r] # NoSlot => n.used \subseteq m.used \cup {f})

\* A new page of a task keeps the counts exact.
LEMMA PageAllocInsertExact ==
  ASSUME NEW m, NEW g, Exact(m, g, {}), NEW t \in Tasks, NEW va \in Va,
         m.map[t][va] = NoFrame, CanAlloc(m, t, va), NEW n, n = page_alloc_insert(m, t, va)
  PROVE  /\ Exact(n, g, {}) /\ PageAdded(m, n, t, va) /\ UsedForPage(m, n, t, va[1])
         /\ FreshPage(m, n, t, va, FirstFree(m))
PROOF
  <1> DEFINE f == FirstFree(m)
             a == page_alloc(m)
  <1>1. Exact(a, g, {f}) /\ FrameTaken(m, a, f)
    BY PageAllocExact DEF CanAlloc
  <1>2. /\ f \in Free(m) /\ f \in Frame /\ a.used = m.used \cup {f} /\ a.tmp = m.tmp
        /\ a.tab = m.tab /\ a.map = m.map
    BY <1>1 DEF FrameTaken, Free
  <1>3. CanGet(a, t, va) /\ n = page_insert(a, t, va, f)
    BY DEF CanAlloc, page_alloc_insert
  <1> HIDE DEF a, f
  <1>4. f \in a.used /\ a.map[t][va] = NoFrame
    BY <1>2
  <1>5. Exact(n, g, {f} \ {f}) /\ PageInserted(a, n, t, va, f)
    BY <1>1, <1>2, <1>3, <1>4, PageInsertExact
  <1>6. {f} \ {f} = {}
    OBVIOUS
  <1>7. /\ n.map[t][va] = f /\ MapDiffers(a, n, t, va)
        /\ TableGrown(a, n, t, va[1]) /\ UsedForTable(a, n, t, va[1])
    BY <1>5 DEF PageInserted
  <1>8. Free(a) = Free(m) \ {f}
    BY <1>2 DEF Free
  <1>9. PageAdded(m, n, t, va)
    BY <1>2, <1>7, <1>8 DEF PageAdded, MapDiffers, TableGrown
  <1>10. UsedForPage(m, n, t, va[1])
    BY <1>2, <1>7 DEF UsedForPage, UsedForTable
  <1>11. FreshPage(m, n, t, va, f)
    BY <1>2, <1>7, <1>8 DEF FreshPage, MapDiffers, TableGrown
  <1> QED
    BY <1>5, <1>6, <1>9, <1>10, <1>11 DEF f

\* The copy of a page, made through a temporary mapping, does too.
LEMMA CopyPageExact ==
  ASSUME NEW m, NEW g, Exact(m, g, {}), NEW t \in Tasks, NEW va \in Va,
         m.map[t][va] = NoFrame, CanCopy(m, t, va), NEW n, n = copy_page(m, t, va)
  PROVE  Exact(n, g, {}) /\ PageAdded(m, n, t, va) /\ FreshPage(m, n, t, va, FirstFree(m))
PROOF
  <1> DEFINE f == FirstFree(m)
             s == FirstSlot(m)
             a == tmp_page_alloc_map(m)
             b == page_insert(a, t, va, f)
  <1>1. Exact(a, g, {}) /\ TmpAllocated(m, a, f, s)
    BY TmpAllocExact DEF CanCopy
  <1>2. /\ f \in Free(m) /\ f \in Frame /\ f # NoFrame /\ a.used = m.used \cup {f}
        /\ s \in Slot /\ m.tmp[s] = NoFrame /\ a.tmp[s] = f
        /\ \A z \in Slot : z # s => a.tmp[z] = m.tmp[z]
        /\ a.tab = m.tab /\ a.map = m.map
    BY <1>1, FiniteSets DEF TmpAllocated, Free, TmpDiffers
  <1>3. CanGet(a, t, va) /\ n = tmp_page_free(b, s) /\ b = page_insert(a, t, va, f)
    BY DEF CanCopy, copy_page
  <1> HIDE DEF a, b, f, s
  <1>4. f \in a.used /\ a.map[t][va] = NoFrame
    BY <1>2
  <1>5. Exact(b, g, {} \ {f}) /\ PageInserted(a, b, t, va, f)
    BY <1>1, <1>2, <1>3, <1>4, PageInsertExact
  <1>6. Exact(b, g, {})
    <2>1. {} \ {f} = {}
      OBVIOUS
    <2> QED
      BY <1>5, <2>1
  <1>7. b.map[t][va] = f /\ MapDiffers(a, b, t, va) /\ TableGrown(a, b, t, va[1])
    BY <1>5 DEF PageInserted
  <1>8. /\ b.tab[t][va[1]] # NoSlot
        /\ \A u \in Tasks, q \in Tables : u # t \/ q # va[1] => b.tab[u][q] = a.tab[u][q]
        /\ a.tab[t][va[1]] # NoSlot => b.tab[t][va[1]] = a.tab[t][va[1]]
        /\ a.tab[t][va[1]] = NoSlot => a.tmp[b.tab[t][va[1]]] = NoFrame
        /\ \A z \in Slot : b.tmp[z] # a.tmp[z] =>
             /\ a.tmp[z] = NoFrame /\ b.tmp[z] \in Free(a)
             /\ z = b.tab[t][va[1]] /\ a.tab[t][va[1]] = NoSlot
    BY <1>7 DEF TableGrown
  <1>9. va[1] \in Tables
    BY Layout
  <1>10. \A u \in Tasks, q \in Tables : m.tab[u][q] # s
    BY <1>2, FiniteSets DEF Exact, TablesOwned
  <1>11. \A u \in Tasks, q \in Tables : b.tab[u][q] # s
    BY <1>2, <1>8, <1>9, <1>10
  <1>12. b.tmp[s] = f
    BY <1>2, <1>8
  <1>13. Exact(n, g, {}) /\ TmpFreed(b, n, s)
    BY <1>2, <1>3, <1>6, <1>11, <1>12, TmpFreeExact
  <1>14. /\ n.tmp[s] = NoFrame /\ n.tab = b.tab /\ n.map = b.map
         /\ \A z \in Slot : z # s => n.tmp[z] = b.tmp[z]
    BY <1>13 DEF TmpFreed, TmpDiffers
  <1>15. Free(a) = Free(m) \ {f}
    BY <1>2 DEF Free
  <1>16. b.tab[t][va[1]] \in Slot
    BY <1>6, <1>8, <1>9 DEF Exact, MemType
  <1>17. TableGrown(m, n, t, va[1])
    <2>1. m.tab[t][va[1]] = NoSlot => m.tmp[n.tab[t][va[1]]] = NoFrame
      BY <1>2, <1>8, <1>9, <1>11, <1>14, <1>16
    <2>2. ASSUME NEW z \in Slot, n.tmp[z] # m.tmp[z]
          PROVE  /\ m.tmp[z] = NoFrame /\ n.tmp[z] \in Free(m)
                 /\ z = n.tab[t][va[1]] /\ m.tab[t][va[1]] = NoSlot
      BY <1>2, <1>8, <1>14, <1>15, <2>2
    <2> QED
      BY <1>2, <1>8, <1>14, <2>1, <2>2 DEF TableGrown
  <1>18. PageAdded(m, n, t, va)
    BY <1>2, <1>7, <1>14, <1>17 DEF PageAdded, MapDiffers
  <1>19. FreshPage(m, n, t, va, f)
    BY <1>2, <1>7, <1>8, <1>14, <1>15 DEF FreshPage, MapDiffers
  <1> QED
    BY <1>13, <1>18, <1>19 DEF f

-----------------------------------------------------------------------------
(* Pages and tables less: Release and page_remove.                         *)

\* the pages of V, and the slots of S, that refer to frame f
PagesTo(m, t, V, f) == {va \in V : m.map[t][va] = f}
SlotsTo(m, S, f) == {s \in S : m.tmp[s] = f}

\* The assignments: V and R are the pages and tables that go
ReleaseSet(m, n, t, V, R) ==
  /\ n \in MemType
  /\ \A f \in Frame : n.rc[f] = m.rc[f] - Cardinality(PagesTo(m, t, V, f))
                                        - Cardinality(SlotsTo(m, SlotsOf(m, t, R), f))
  /\ \A f \in Frame : f \in n.used <=> f \in m.used /\ n.rc[f] # 0
  /\ \A s \in Slot : n.tmp[s] = IF s \in SlotsOf(m, t, R) THEN NoFrame ELSE m.tmp[s]
  /\ \A u \in Tasks, va \in Va :
       n.map[u][va] = IF u = t /\ va \in V THEN NoFrame ELSE m.map[u][va]
  /\ \A u \in Tasks, r \in Tables :
       n.tab[u][r] = IF u = t /\ r \in R THEN NoSlot ELSE m.tab[u][r]
  /\ \A u \in Tasks :
       /\ n.cu[u] = m.cu[u] - (IF u = t THEN Cardinality(Mapped(m, t, V \cap UserVa)) ELSE 0)
       /\ n.ck[u] = m.ck[u] - (IF u = t THEN Cardinality(Mapped(m, t, V \cap KStack))
                                             + Cardinality(SlotsOf(m, t, R)) ELSE 0)

\* Sets of pages and slots are finite.
LEMMA PartsFinite ==
  ASSUME NEW m \in MemType, NEW t \in Tasks, NEW V \in SUBSET Va, NEW R \in SUBSET Tables
  PROVE  /\ SlotsOf(m, t, R) \in SUBSET Slot /\ IsFiniteSet(SlotsOf(m, t, R))
         /\ Cardinality(SlotsOf(m, t, R)) \in Nat
         /\ IsFiniteSet(Mapped(m, t, V)) /\ Cardinality(Mapped(m, t, V)) \in Nat
         /\ \A f : /\ IsFiniteSet(PagesTo(m, t, V, f))
                   /\ Cardinality(PagesTo(m, t, V, f)) \in Nat
                   /\ IsFiniteSet(SlotsTo(m, SlotsOf(m, t, R), f))
                   /\ Cardinality(SlotsTo(m, SlotsOf(m, t, R), f)) \in Nat
PROOF
  <1>1. SlotsOf(m, t, R) \in SUBSET Slot
    BY DEF SlotsOf, MemType
  <1>2. Mapped(m, t, V) \in SUBSET Va
    BY DEF Mapped
  <1>3. \A f : PagesTo(m, t, V, f) \in SUBSET Va /\ SlotsTo(m, SlotsOf(m, t, R), f) \in SUBSET Slot
    BY <1>1 DEF PagesTo, SlotsTo
  <1> QED
    BY <1>1, <1>2, <1>3, FiniteSets, FS_Subset, FS_CardinalityType

\* Release field by field: the pages V and the tables R of t are gone.
LEMMA ReleaseFields ==
  ASSUME NEW m \in MemType, NEW t \in Tasks, NEW V \in SUBSET Va, NEW R \in SUBSET Tables,
         NEW n, n = Release(m, t, V, R)
  PROVE  ReleaseSet(m, n, t, V, R)
PROOF
  <1> DEFINE S == SlotsOf(m, t, R)
             rc1 == [f \in Frame |-> m.rc[f] - Cardinality(PagesTo(m, t, V, f))
                                      - Cardinality(SlotsTo(m, S, f))]
             used1 == {f \in m.used : rc1[f] # 0}
             tmp1 == [s \in Slot |-> IF s \in S THEN NoFrame ELSE m.tmp[s]]
             map1 == [m.map EXCEPT ![t] = [va \in Va |-> IF va \in V THEN NoFrame ELSE @[va]]]
             tab1 == [m.tab EXCEPT ![t] = [r \in Tables |-> IF r \in R THEN NoSlot ELSE @[r]]]
             cu1 == [m.cu EXCEPT ![t] = @ - Cardinality(Mapped(m, t, V \cap UserVa))]
             ck1 == [m.ck EXCEPT ![t] = @ - Cardinality(Mapped(m, t, V \cap KStack)) - Cardinality(S)]
  <1>1. /\ m.rc \in [Frame -> Int] /\ m.used \in SUBSET Frame
        /\ m.tmp \in [Slot -> Frame \cup {NoFrame}]
        /\ m.tab \in [Tasks -> [Tables -> Slot \cup {NoSlot}]]
        /\ m.map \in [Tasks -> [Va -> Frame \cup {NoFrame}]]
        /\ m.cu \in [Tasks -> Int] /\ m.ck \in [Tasks -> Int]
    BY DEF MemType
  <1>2. n = [m EXCEPT !.rc = rc1, !.used = used1, !.tmp = tmp1, !.map = map1, !.tab = tab1,
                      !.cu = cu1, !.ck = ck1]
    BY DEF Release, MemType, PagesTo, SlotsTo
  <1>3. \A f \in Frame : /\ Cardinality(PagesTo(m, t, V, f)) \in Nat
                         /\ Cardinality(SlotsTo(m, S, f)) \in Nat
    BY PartsFinite
  <1>4. /\ V \cap UserVa \in SUBSET Va /\ V \cap KStack \in SUBSET Va
    BY Layout
  <1>5. /\ Cardinality(Mapped(m, t, V \cap UserVa)) \in Nat
        /\ Cardinality(Mapped(m, t, V \cap KStack)) \in Nat
        /\ Cardinality(S) \in Nat
    BY <1>4, PartsFinite
  <1>6. /\ rc1 \in [Frame -> Int]
        /\ \A f \in Frame : rc1[f] = m.rc[f] - Cardinality(PagesTo(m, t, V, f))
                                     - Cardinality(SlotsTo(m, S, f))
    BY <1>1, <1>3
  <1>7. used1 \in SUBSET Frame /\ \A f \in Frame : f \in used1 <=> f \in m.used /\ rc1[f] # 0
    BY <1>1
  <1>8. /\ tmp1 \in [Slot -> Frame \cup {NoFrame}]
        /\ \A s \in Slot : tmp1[s] = IF s \in S THEN NoFrame ELSE m.tmp[s]
    BY <1>1
  <1>9. /\ map1 \in [Tasks -> [Va -> Frame \cup {NoFrame}]]
        /\ \A u \in Tasks, va \in Va :
             map1[u][va] = IF u = t /\ va \in V THEN NoFrame ELSE m.map[u][va]
    BY <1>1
  <1>10. /\ tab1 \in [Tasks -> [Tables -> Slot \cup {NoSlot}]]
         /\ \A u \in Tasks, r \in Tables :
              tab1[u][r] = IF u = t /\ r \in R THEN NoSlot ELSE m.tab[u][r]
    BY <1>1
  <1>11. /\ cu1 \in [Tasks -> Int] /\ ck1 \in [Tasks -> Int]
         /\ \A u \in Tasks :
              /\ cu1[u] = m.cu[u] - (IF u = t THEN Cardinality(Mapped(m, t, V \cap UserVa)) ELSE 0)
              /\ ck1[u] = m.ck[u] - (IF u = t THEN Cardinality(Mapped(m, t, V \cap KStack))
                                                  + Cardinality(S) ELSE 0)
    <2> DEFINE x == Cardinality(Mapped(m, t, V \cap UserVa))
               y == Cardinality(Mapped(m, t, V \cap KStack))
               z == Cardinality(S)
    <2>1. x \in Nat /\ y \in Nat /\ z \in Nat
      BY <1>5
    <2>2. cu1 = [m.cu EXCEPT ![t] = @ - x] /\ ck1 = [m.ck EXCEPT ![t] = @ - y - z]
      OBVIOUS
    <2> HIDE DEF x, y, z, cu1, ck1
    <2>3. /\ cu1 \in [Tasks -> Int] /\ ck1 \in [Tasks -> Int]
          /\ \A u \in Tasks : /\ cu1[u] = m.cu[u] - (IF u = t THEN x ELSE 0)
                              /\ ck1[u] = m.ck[u] - (IF u = t THEN y + z ELSE 0)
      BY <1>1, <2>1, <2>2
    <2> QED
      BY <2>3 DEF x, y, z
  <1> HIDE DEF rc1, used1, tmp1, map1, tab1, cu1, ck1
  <1>12. /\ n \in MemType /\ n.rc = rc1 /\ n.used = used1 /\ n.tmp = tmp1 /\ n.map = map1
         /\ n.tab = tab1 /\ n.cu = cu1 /\ n.ck = ck1
    BY <1>2, <1>6, <1>7, <1>8, <1>9, <1>10, <1>11, ZenonT(30) DEF MemType
  <1>13. \A f \in Frame :
           /\ n.rc[f] = m.rc[f] - Cardinality(PagesTo(m, t, V, f))
                                - Cardinality(SlotsTo(m, SlotsOf(m, t, R), f))
           /\ f \in n.used <=> f \in m.used /\ n.rc[f] # 0
    BY <1>6, <1>7, <1>12
  <1>14. \A u \in Tasks :
           /\ n.cu[u] = m.cu[u] - (IF u = t THEN Cardinality(Mapped(m, t, V \cap UserVa)) ELSE 0)
           /\ n.ck[u] = m.ck[u] - (IF u = t THEN Cardinality(Mapped(m, t, V \cap KStack))
                                                + Cardinality(SlotsOf(m, t, R)) ELSE 0)
    BY <1>11, <1>12
  <1>15. /\ \A s \in Slot : n.tmp[s] = IF s \in SlotsOf(m, t, R) THEN NoFrame ELSE m.tmp[s]
         /\ \A u \in Tasks, va \in Va :
              n.map[u][va] = IF u = t /\ va \in V THEN NoFrame ELSE m.map[u][va]
         /\ \A u \in Tasks, r \in Tables :
              n.tab[u][r] = IF u = t /\ r \in R THEN NoSlot ELSE m.tab[u][r]
    BY <1>8, <1>9, <1>10, <1>12
  <1> QED
    BY <1>12, <1>13, <1>14, <1>15, Zenon DEF ReleaseSet

\* page_remove of a page that is present
LEMMA RemoveFields ==
  ASSUME NEW m \in MemType, NEW t \in Tasks, NEW va \in Va, m.map[t][va] # NoFrame,
         NEW n, n = page_remove(m, t, va), \A h \in m.used : m.rc[h] # 0
  PROVE  ReleaseSet(m, n, t, {va}, {})
PROOF
  <1> DEFINE f == m.map[t][va]
             a == refcount_dec(m, f)
             b == [a EXCEPT !.map[t][va] = NoFrame]
  <1>1. f \in Frame
    BY DEF MemType
  <1>2. n = add_count(b, t, va, -1) /\ b = [a EXCEPT !.map[t][va] = NoFrame]
        /\ a = refcount_dec(m, f)
    BY DEF page_remove
  <1>3. f = m.map[t][va]
    OBVIOUS
  <1> HIDE DEF a, b, f
  <1>4. Decremented(m, a, f)
    BY <1>1, <1>2, DecField
  <1>5. /\ a \in MemType /\ a.tmp = m.tmp /\ a.tab = m.tab
        /\ a.map = m.map /\ a.cu = m.cu /\ a.ck = m.ck
        /\ a.used = IF m.rc[f] = 1 THEN m.used \ {f} ELSE m.used
        /\ \A h \in Frame : a.rc[h] = m.rc[h] - (IF h = f THEN 1 ELSE 0)
    BY <1>4 DEF Decremented
  <1>6. /\ b \in MemType /\ b.used = a.used /\ b.rc = a.rc /\ b.tmp = a.tmp
        /\ b.tab = a.tab /\ b.cu = a.cu /\ b.ck = a.ck
        /\ b.map[t][va] = NoFrame /\ MapDiffers(a, b, t, va)
    <2>1. NoFrame \in Frame \cup {NoFrame} /\ a \in MemType
      BY <1>5
    <2>2. MapSet(a, b, t, va, NoFrame)
      BY <1>2, <2>1, MapField
    <2> QED
      BY <2>2 DEF MapSet
  <1>7. CountsMoved(b, n, t, va, -1)
    BY <1>2, <1>6, CountFields
  <1>8. /\ n \in MemType /\ n.used = b.used /\ n.rc = b.rc /\ n.tmp = b.tmp
        /\ n.tab = b.tab /\ n.map = b.map
        /\ \A u \in Tasks :
             /\ n.cu[u] = b.cu[u] + (IF u = t /\ va \in UserVa THEN -1 ELSE 0)
             /\ n.ck[u] = b.ck[u] + (IF u = t /\ va \notin UserVa THEN -1 ELSE 0)
    BY <1>7 DEF CountsMoved
  <1>9. SlotsOf(m, t, {}) = {} /\ Cardinality({}) = 0 /\ \A h : SlotsTo(m, {}, h) = {}
    BY FS_EmptySet DEF SlotsOf, SlotsTo
  <1>10. ASSUME NEW x PROVE Cardinality({x}) = 1
    BY FS_Singleton
  <1>11. \A h \in Frame : Cardinality(PagesTo(m, t, {va}, h)) = IF h = f THEN 1 ELSE 0
    <2> TAKE h \in Frame
    <2>1. PagesTo(m, t, {va}, h) = IF h = f THEN {va} ELSE {}
      BY <1>3 DEF PagesTo
    <2> QED
      BY <1>9, <1>10, <2>1
  <1>12. \A u \in Tasks, w \in Va :
           n.map[u][w] = IF u = t /\ w \in {va} THEN NoFrame ELSE m.map[u][w]
    BY <1>5, <1>6, <1>8 DEF MapDiffers
  <1>13. \A h \in Frame : n.rc[h] = m.rc[h] - (IF h = f THEN 1 ELSE 0)
    BY <1>5, <1>6, <1>8
  <1>14. /\ Cardinality(Mapped(m, t, {va} \cap UserVa)) = IF va \in UserVa THEN 1 ELSE 0
         /\ Cardinality(Mapped(m, t, {va} \cap KStack)) = IF va \in UserVa THEN 0 ELSE 1
    <2>1. va \in UserVa => Mapped(m, t, {va} \cap UserVa) = {va} /\ Mapped(m, t, {va} \cap KStack) = {}
      BY Layout DEF Mapped
    <2>2. va \notin UserVa => Mapped(m, t, {va} \cap UserVa) = {} /\ Mapped(m, t, {va} \cap KStack) = {va}
      BY Layout DEF Mapped
    <2> QED
      BY <1>9, <1>10, <2>1, <2>2
  <1>15. \A h \in Frame : h \in n.used <=> h \in m.used /\ n.rc[h] # 0
    <2> TAKE h \in Frame
    <2>1. m.rc[h] \in Int /\ m.rc[f] \in Int
      BY <1>1 DEF MemType
    <2>2. CASE h = f
      BY <1>5, <1>6, <1>8, <1>13, <2>1, <2>2
    <2>3. CASE h # f
      BY <1>5, <1>6, <1>8, <1>13, <2>1, <2>3
    <2> QED
      BY <2>2, <2>3
  <1>16. \A h \in Frame : n.rc[h] = m.rc[h] - Cardinality(PagesTo(m, t, {va}, h))
                                   - Cardinality(SlotsTo(m, SlotsOf(m, t, {}), h))
    <2> TAKE h \in Frame
    <2>1. m.rc[h] \in Int
      BY DEF MemType
    <2>2. SlotsTo(m, SlotsOf(m, t, {}), h) = {}
      BY <1>9
    <2>3. Cardinality(SlotsTo(m, SlotsOf(m, t, {}), h)) = 0
      BY <1>9, <2>2
    <2>4. Cardinality(PagesTo(m, t, {va}, h)) = IF h = f THEN 1 ELSE 0
      BY <1>11
    <2> QED
      BY <1>13, <2>1, <2>3, <2>4
  <1>17. \A u \in Tasks :
           /\ n.cu[u] = m.cu[u] - (IF u = t THEN Cardinality(Mapped(m, t, {va} \cap UserVa)) ELSE 0)
           /\ n.ck[u] = m.ck[u] - (IF u = t THEN Cardinality(Mapped(m, t, {va} \cap KStack))
                                                + Cardinality(SlotsOf(m, t, {})) ELSE 0)
    <2> TAKE u \in Tasks
    <2>1. m.cu[u] \in Int /\ m.ck[u] \in Int
      BY DEF MemType
    <2>2. /\ n.cu[u] = m.cu[u] + (IF u = t /\ va \in UserVa THEN -1 ELSE 0)
          /\ n.ck[u] = m.ck[u] + (IF u = t /\ va \notin UserVa THEN -1 ELSE 0)
      BY <1>5, <1>6, <1>8
    <2>3. Cardinality(SlotsOf(m, t, {})) = 0
      BY <1>9
    <2> QED
      BY <1>14, <2>1, <2>2, <2>3
  <1> QED
    BY <1>5, <1>6, <1>8, <1>9, <1>12, <1>15, <1>16, <1>17 DEF ReleaseSet

\* The pages V and the tables R of t are gone.
Released(m, n, t, V, R) ==
  /\ \A u \in Tasks, va \in Va :
       n.map[u][va] = IF u = t /\ va \in V THEN NoFrame ELSE m.map[u][va]
  /\ \A u \in Tasks, r \in Tables :
       n.tab[u][r] = IF u = t /\ r \in R THEN NoSlot ELSE m.tab[u][r]

\* Releasing pages and tables gives back exactly their references.
LEMMA ReleaseSetExact ==
  ASSUME NEW m, NEW g, Exact(m, g, {}), NEW t \in Tasks,
         NEW V \in SUBSET Va, NEW R \in SUBSET Tables, NEW n, ReleaseSet(m, n, t, V, R)
  PROVE  /\ Exact(n, g, {}) /\ Released(m, n, t, V, R) /\ Shrunk(m, n)
         /\ Local(m, n, g, t)
PROOF
  <1>1. m \in MemType /\ g \in SegType /\ RefExact(m, g, {}) /\ Counted(m) /\ TablesOwned(m)
    BY DEF Exact
  <1> DEFINE S == SlotsOf(m, t, R)
  <1>2. /\ n \in MemType
        /\ \A f \in Frame : n.rc[f] = m.rc[f] - Cardinality(PagesTo(m, t, V, f))
                                              - Cardinality(SlotsTo(m, S, f))
        /\ \A f \in Frame : f \in n.used <=> f \in m.used /\ n.rc[f] # 0
    BY DEF ReleaseSet
  <1>3. \A s \in Slot : n.tmp[s] = IF s \in S THEN NoFrame ELSE m.tmp[s]
    BY DEF ReleaseSet
  <1>4. \A u \in Tasks, va \in Va :
          n.map[u][va] = IF u = t /\ va \in V THEN NoFrame ELSE m.map[u][va]
    BY DEF ReleaseSet
  <1>5. \A u \in Tasks, r \in Tables :
          n.tab[u][r] = IF u = t /\ r \in R THEN NoSlot ELSE m.tab[u][r]
    BY DEF ReleaseSet
  <1>6. \A u \in Tasks :
          /\ n.cu[u] = m.cu[u] - (IF u = t THEN Cardinality(Mapped(m, t, V \cap UserVa)) ELSE 0)
          /\ n.ck[u] = m.ck[u] - (IF u = t THEN Cardinality(Mapped(m, t, V \cap KStack))
                                                + Cardinality(S) ELSE 0)
    BY DEF ReleaseSet
  <1>7. S \in SUBSET Slot /\ IsFiniteSet(S) /\ Cardinality(S) \in Nat
    BY <1>1, PartsFinite
  <1>8. /\ \A s \in S : \E r \in R : s = m.tab[t][r]
        /\ \A r \in R : m.tab[t][r] # NoSlot => m.tab[t][r] \in S
        /\ NoSlot \notin S
    BY DEF SlotsOf
  <1> HIDE DEF S
  <1>9. RefExact(n, g, {})
    <2> SUFFICES ASSUME NEW f \in Frame
                 PROVE  /\ n.rc[f] = Cardinality(MapsTo(n, f)) + Cardinality(TmpOf(n, f))
                                     + Cardinality(SegOf(g, f))
                        /\ f \in n.used <=> Referenced(n, g, f)
      BY DEF RefExact
    <2>1. /\ m.rc[f] = Cardinality(MapsTo(m, f)) + Cardinality(TmpOf(m, f))
                       + Cardinality(SegOf(g, f))
          /\ f \in m.used <=> Referenced(m, g, f)
      BY <1>1 DEF RefExact
    <2>2. f # NoFrame
      BY FiniteSets
    <2> DEFINE P == PagesTo(m, t, V, f)
               D == {t} \X P
               Q == SlotsTo(m, S, f)
               A == MapsTo(m, f)
               B == TmpOf(m, f)
    <2>3. IsFiniteSet(P) /\ Cardinality(P) \in Nat /\ Cardinality(Q) \in Nat
      BY <1>1, PartsFinite DEF S
    <2>4. D \in SUBSET A /\ MapsTo(n, f) = A \ D
      <3>1. ASSUME NEW x \in D PROVE x \in A
        BY DEF PagesTo, MapsTo
      <3>2. ASSUME NEW x \in Tasks \X Va
            PROVE  x \in MapsTo(n, f) <=> x \in A /\ x \notin D
        <4>1. x = <<x[1], x[2]>> /\ x[1] \in Tasks /\ x[2] \in Va
          OBVIOUS
        <4>2. n.map[x[1]][x[2]] = IF x[1] = t /\ x[2] \in V THEN NoFrame ELSE m.map[x[1]][x[2]]
          BY <1>4, <4>1
        <4>3. x \in A /\ x \in D <=> x \in A /\ x[1] = t /\ x[2] \in V
          BY <4>1 DEF PagesTo, MapsTo
        <4> QED
          BY <2>2, <4>1, <4>2, <4>3 DEF MapsTo
      <3>3. MapsTo(n, f) \subseteq Tasks \X Va /\ A \subseteq Tasks \X Va
        BY DEF MapsTo
      <3> QED
        BY <3>1, <3>2, <3>3
    <2>5. Q \in SUBSET B /\ TmpOf(n, f) = B \ Q
      BY <1>3, <1>7, <2>2 DEF TmpOf, SlotsTo
    <2>6. Cardinality(D) = Cardinality(P)
      <3>1. IsFiniteSet({t}) /\ Cardinality({t}) = 1
        BY FS_Singleton
      <3>2. Cardinality(D) = Cardinality({t}) * Cardinality(P)
        BY <2>3, <3>1, FS_Product
      <3> QED
        BY <2>3, <3>1, <3>2
    <2>7. IsFiniteSet(A) /\ IsFiniteSet(B)
      BY RefSetsFinite
    <2> HIDE DEF P, D, Q, A, B
    <2>8. /\ Cardinality(MapsTo(n, f)) = Cardinality(A) - Cardinality(D)
          /\ Cardinality(A) \in Nat
      BY <2>4, <2>7, CountPart
    <2>9. /\ Cardinality(TmpOf(n, f)) = Cardinality(B) - Cardinality(Q)
          /\ Cardinality(B) \in Nat
      BY <2>5, <2>7, CountPart
    <2>10. n.rc[f] = m.rc[f] - Cardinality(P) - Cardinality(Q)
      BY <1>2 DEF P, Q
    <2>11. m.rc[f] = Cardinality(A) + Cardinality(B) + Cardinality(SegOf(g, f))
      BY <2>1 DEF A, B
    <2>12. Cardinality(SegOf(g, f)) \in Nat
      BY RefCounts
    <2>13. n.rc[f] = Cardinality(MapsTo(n, f)) + Cardinality(TmpOf(n, f)) + Cardinality(SegOf(g, f))
      BY <2>3, <2>6, <2>8, <2>9, <2>10, <2>11, <2>12
    <2>14. n.rc[f] # 0 <=> Referenced(n, g, f)
      BY <2>13, RefCounts DEF Referenced
    <2>15. Referenced(n, g, f) => Referenced(m, g, f)
      BY <2>4, <2>5 DEF Referenced, A, B
    <2> QED
      BY <1>2, <2>1, <2>13, <2>14, <2>15
  <1>10. \A r \in Tables, q \in Tables :
           m.tab[t][r] # NoSlot /\ m.tab[t][q] = m.tab[t][r] => q = r
    BY <1>1 DEF TablesOwned
  <1>11. Counted(n)
    <2> SUFFICES ASSUME NEW u \in Tasks
                 PROVE  /\ n.cu[u] = Cardinality(Mapped(n, u, UserVa))
                        /\ n.ck[u] = Cardinality(Mapped(n, u, KStack))
                                     + Cardinality(SlotsOf(n, u, Tables))
      BY DEF Counted
    <2>1. /\ m.cu[u] = Cardinality(Mapped(m, u, UserVa))
          /\ m.ck[u] = Cardinality(Mapped(m, u, KStack)) + Cardinality(SlotsOf(m, u, Tables))
      BY <1>1 DEF Counted
    <2>2. UserVa \in SUBSET Va /\ KStack \in SUBSET Va
      BY Layout
    <2>3. CASE u # t
      <3>1. Mapped(n, u, UserVa) = Mapped(m, u, UserVa) /\ Mapped(n, u, KStack) = Mapped(m, u, KStack)
        BY <1>4, <2>2, <2>3 DEF Mapped
      <3>2. SlotsOf(n, u, Tables) = SlotsOf(m, u, Tables)
        BY <1>5, <2>3 DEF SlotsOf
      <3>3. n.cu[u] = m.cu[u] /\ n.ck[u] = m.ck[u]
        BY <1>1, <1>6, <2>3 DEF MemType
      <3> QED
        BY <2>1, <3>1, <3>2, <3>3
    <2>4. CASE u = t
      <3>1. ASSUME NEW W \in SUBSET Va
            PROVE  /\ Cardinality(Mapped(n, t, W)) =
                        Cardinality(Mapped(m, t, W)) - Cardinality(Mapped(m, t, V \cap W))
                   /\ Cardinality(Mapped(m, t, W)) \in Nat
                   /\ Cardinality(Mapped(m, t, V \cap W)) \in Nat
        <4> DEFINE A == Mapped(m, t, W)
                   D == Mapped(m, t, V \cap W)
                   T == Mapped(n, t, W)
        <4>1. IsFiniteSet(A)
          BY <1>1, PartsFinite
        <4>2. D \in SUBSET A /\ T = A \ D
          BY <1>4 DEF Mapped
        <4> HIDE DEF A, D, T
        <4>3. /\ Cardinality(T) \in Nat /\ Cardinality(D) \in Nat /\ Cardinality(A) \in Nat
              /\ Cardinality(T) = Cardinality(A) - Cardinality(D)
          BY <4>1, <4>2, CountPart
        <4> QED
          BY <4>3 DEF A, D, T
      <3>2. /\ Cardinality(SlotsOf(n, t, Tables)) = Cardinality(SlotsOf(m, t, Tables)) - Cardinality(S)
            /\ Cardinality(SlotsOf(m, t, Tables)) \in Nat
        <4> DEFINE A == SlotsOf(m, t, Tables)
                   T == SlotsOf(n, t, Tables)
        <4>1. IsFiniteSet(A)
          BY <1>1, PartsFinite
        <4>2. S \in SUBSET A
          BY DEF S, SlotsOf
        <4>3. ASSUME NEW x \in T PROVE x \in A \ S
          <5>1. PICK q \in Tables : x = n.tab[t][q] /\ x # NoSlot
            BY DEF SlotsOf
          <5>2. q \notin R /\ x = m.tab[t][q]
            BY <1>5, <5>1
          <5>3. x \notin S
            BY <1>8, <1>10, <5>1, <5>2
          <5> QED
            BY <5>1, <5>2, <5>3 DEF SlotsOf
        <4>4. ASSUME NEW x \in A, x \notin S PROVE x \in T
          <5>1. PICK q \in Tables : x = m.tab[t][q] /\ x # NoSlot
            BY DEF SlotsOf
          <5>2. q \notin R
            BY <1>8, <4>4, <5>1
          <5>3. x = n.tab[t][q]
            BY <1>5, <5>1, <5>2
          <5> QED
            BY <5>1, <5>3 DEF SlotsOf
        <4>5. T = A \ S
          BY <4>3, <4>4
        <4> HIDE DEF A, T
        <4>6. Cardinality(A) \in Nat /\ Cardinality(T) = Cardinality(A) - Cardinality(S)
          BY <4>1, <4>2, <4>5, CountPart
        <4> QED
          BY <4>6 DEF A, T
      <3>3. /\ n.cu[t] = m.cu[t] - Cardinality(Mapped(m, t, V \cap UserVa))
            /\ n.ck[t] = m.ck[t] - (Cardinality(Mapped(m, t, V \cap KStack)) + Cardinality(S))
        BY <1>6
      <3>4. /\ Cardinality(Mapped(n, t, UserVa)) =
                 Cardinality(Mapped(m, t, UserVa)) - Cardinality(Mapped(m, t, V \cap UserVa))
            /\ Cardinality(Mapped(n, t, KStack)) =
                 Cardinality(Mapped(m, t, KStack)) - Cardinality(Mapped(m, t, V \cap KStack))
            /\ Cardinality(Mapped(m, t, UserVa)) \in Nat
            /\ Cardinality(Mapped(m, t, KStack)) \in Nat
            /\ Cardinality(Mapped(m, t, V \cap KStack)) \in Nat
        BY <2>2, <3>1
      <3> QED
        BY <1>7, <2>1, <2>4, <3>2, <3>3, <3>4
    <2> QED
      BY <2>3, <2>4
  <1>12. TablesOwned(n)
    <2> SUFFICES ASSUME NEW u \in Tasks, NEW r \in Tables, n.tab[u][r] # NoSlot
                 PROVE  /\ n.tmp[n.tab[u][r]] # NoFrame
                        /\ \A v \in Tasks, q \in Tables : n.tab[v][q] = n.tab[u][r] => v = u /\ q = r
      BY DEF TablesOwned
    <2>1. n.tab[u][r] = m.tab[u][r] /\ ~(u = t /\ r \in R) /\ m.tab[u][r] \in Slot
      BY <1>1, <1>5 DEF MemType
    <2>2. m.tab[u][r] \notin S
      BY <1>1, <1>8, <2>1 DEF TablesOwned
    <2>3. n.tmp[n.tab[u][r]] # NoFrame
      BY <1>1, <1>3, <2>1, <2>2 DEF TablesOwned
    <2>4. ASSUME NEW v \in Tasks, NEW q \in Tables, n.tab[v][q] = n.tab[u][r]
          PROVE  v = u /\ q = r
      <3>1. m.tab[v][q] = m.tab[u][r]
        BY <1>5, <2>1, <2>4
      <3> QED
        BY <1>1, <2>1, <3>1 DEF TablesOwned
    <2> QED
      BY <2>3, <2>4
  <1>13. Exact(n, g, {})
    BY <1>1, <1>2, <1>9, <1>11, <1>12 DEF Exact
  <1>14. SlotsLocal(m, n, t)
    <2> SUFFICES ASSUME NEW s \in Slot
          PROVE \/ /\ s \in SlotsOf(m, t, Tables) \/ m.tmp[s] = NoFrame
                   /\ s \in SlotsOf(n, t, Tables) \/ n.tmp[s] = NoFrame
                \/ /\ s \notin SlotsOf(m, t, Tables) /\ s \notin SlotsOf(n, t, Tables)
                   /\ n.tmp[s] = m.tmp[s]
      BY DEF SlotsLocal
    <2>1. CASE s \in S
      BY <1>3, <2>1 DEF S, SlotsOf
    <2>2. CASE s \notin S
      <3>1. n.tmp[s] = m.tmp[s]
        BY <1>3, <2>2
      <3>2. s \in SlotsOf(m, t, Tables) => s \in SlotsOf(n, t, Tables)
        <4> HAVE s \in SlotsOf(m, t, Tables)
        <4>1. PICK q \in Tables : s = m.tab[t][q] /\ s # NoSlot
          BY DEF SlotsOf
        <4>2. s = n.tab[t][q]
          BY <1>5, <1>8, <2>2, <4>1
        <4> QED
          BY <4>1, <4>2 DEF SlotsOf
      <3>3. s \in SlotsOf(n, t, Tables) => s \in SlotsOf(m, t, Tables)
        BY <1>5 DEF SlotsOf
      <3> QED
        BY <3>1, <3>2, <3>3
    <2> QED
      BY <2>1, <2>2
  <1>15. Others(n, g, t) = Others(m, g, t)
    BY <1>4, <1>14, OthersSame
  <1>16. Local(m, n, g, t)
    BY <1>4, <1>5, <1>15 DEF Local
  <1>17. Shrunk(m, n)
    BY <1>3, <1>4 DEF Shrunk
  <1> QED
    BY <1>4, <1>5, <1>13, <1>16, <1>17 DEF Released

\* The same, and processes stay separate.
LEMMA ReleaseExact ==
  ASSUME NEW m, NEW g, Exact(m, g, {}), Separated(m, g), NEW t \in Tasks,
         NEW V \in SUBSET Va, NEW R \in SUBSET Tables, NEW n, n = Release(m, t, V, R)
  PROVE  /\ Exact(n, g, {}) /\ Separated(n, g)
         /\ Released(m, n, t, V, R) /\ Local(m, n, g, t)
PROOF
  <1>1. m \in MemType
    BY DEF Exact
  <1>2. ReleaseSet(m, n, t, V, R)
    BY <1>1, ReleaseFields
  <1>3. Exact(n, g, {}) /\ Released(m, n, t, V, R) /\ Shrunk(m, n) /\ Local(m, n, g, t)
    BY <1>2, ReleaseSetExact
  <1> QED
    BY <1>3, SeparatedShrunk

\* page_remove is the release of a single page.
LEMMA PageRemoveExact ==
  ASSUME NEW m, NEW g, Exact(m, g, {}), Separated(m, g), NEW t \in Tasks,
         NEW va \in Va, m.map[t][va] # NoFrame, NEW n, n = page_remove(m, t, va)
  PROVE  Exact(n, g, {}) /\ Separated(n, g) /\ Released(m, n, t, {va}, {})
PROOF
  <1>1. m \in MemType
    BY DEF Exact
  <1>2. \A h \in m.used : m.rc[h] # 0
    <2> TAKE h \in m.used
    <2>1. h \in Frame
      BY <1>1 DEF MemType
    <2>2. /\ m.rc[h] = Cardinality(MapsTo(m, h)) + Cardinality(TmpOf(m, h))
                       + Cardinality(SegOf(g, h))
          /\ Referenced(m, g, h)
      BY <2>1 DEF Exact, RefExact
    <2> QED
      BY <2>2, RefCounts DEF Referenced
  <1>3. ReleaseSet(m, n, t, {va}, {})
    BY <1>1, <1>2, RemoveFields
  <1>4. {va} \in SUBSET Va /\ {} \in SUBSET Tables
    OBVIOUS
  <1>5. Exact(n, g, {}) /\ Released(m, n, t, {va}, {}) /\ Shrunk(m, n)
    BY <1>3, <1>4, ReleaseSetExact
  <1> QED
    BY <1>5, SeparatedShrunk

-----------------------------------------------------------------------------
(* A page table more, shared pages, and segments.                          *)

\* A new table is nobody else's.
LEMMA PdeAllocSeparated ==
  ASSUME NEW m, NEW g, Exact(m, g, {}), Separated(m, g), TmpAvailable(m),
         NEW t \in Tasks, NEW r \in Tables, m.tab[t][r] = NoSlot, NEW n, n = pde_alloc(m, t, r)
  PROVE  /\ Exact(n, g, {}) /\ Separated(n, g) /\ Local(m, n, g, t)
         /\ n.map = m.map /\ TableGrown(m, n, t, r)
PROOF
  <1> DEFINE f == FirstFree(m)
             s == FirstSlot(m)
  <1>1. Exact(n, g, {}) /\ TableAdded(m, n, t, r, f, s)
    BY PdeAllocExact
  <1>2. n.map = m.map /\ TableGrown(m, n, t, r)
    BY <1>1 DEF TableAdded, TableGrown, TmpDiffers
  <1>3. Shrunk(m, n)
    BY <1>2 DEF Shrunk, TableGrown
  <1>4. Separated(n, g)
    BY <1>3, SeparatedShrunk
  <1>5. m \in MemType /\ n \in MemType
    BY <1>1 DEF Exact
  <1>6. Local(m, n, g, t)
    BY <1>2, <1>5, GrownLocal
  <1> QED
    BY <1>1, <1>2, <1>4, <1>6

\* the pages V of src are a segment's and c has none there
Linkable(m, g, c, V, src) ==
  \A va \in V : /\ m.map[c][va] = NoFrame
                 /\ src[va] \in Frame /\ SegOf(g, src[va]) # {}

\* the pages V of c are those of src, and nothing else changes
Linked(m, n, c, V, src) ==
  /\ n.tab = m.tab
  /\ \A u \in Tasks, va \in Va :
       n.map[u][va] = IF u = c /\ va \in V THEN src[va] ELSE m.map[u][va]

\* link_pages: the pages V of c are src's, shared memory all of them
LEMMA LinkExact ==
  ASSUME NEW m, NEW g, Exact(m, g, {}), Separated(m, g), NEW c \in Tasks,
         NEW V \in SUBSET ShmVa, NEW src, Linkable(m, g, c, V, src),
         NEW n, n = link(m, c, V, src)
  PROVE  /\ Exact(n, g, {}) /\ Separated(n, g) /\ Local(m, n, g, c)
         /\ Linked(m, n, c, V, src)
PROOF
  <1>0. /\ \A va \in V : m.map[c][va] = NoFrame
        /\ \A va \in V : src[va] \in Frame /\ SegOf(g, src[va]) # {}
    BY DEF Linkable
  <1> USE <1>0
  <1>1. m \in MemType /\ g \in SegType /\ RefExact(m, g, {}) /\ Counted(m) /\ TablesOwned(m)
    BY DEF Exact
  <1>2. /\ m.rc \in [Frame -> Int] /\ m.cu \in [Tasks -> Int]
        /\ m.map \in [Tasks -> [Va -> Frame \cup {NoFrame}]]
    BY <1>1 DEF MemType
  <1>3. V \in SUBSET UserVa /\ V \in SUBSET Va /\ V \cap KStack = {} /\ IsFiniteSet(V)
        /\ Cardinality(V) \in Nat
    <2>1. V \in SUBSET UserVa /\ V \in SUBSET Va /\ V \cap KStack = {}
      BY Layout
    <2> QED
      BY <2>1, FiniteSets, FS_Subset, FS_CardinalityType
  <1> DEFINE P(f) == {va \in V : src[va] = f}
             rc1 == [f \in Frame |-> m.rc[f] + Cardinality(P(f))]
             map1 == [m.map EXCEPT ![c] = [va \in Va |-> IF va \in V THEN src[va] ELSE @[va]]]
             cu1 == [m.cu EXCEPT ![c] = @ + Cardinality(V)]
  <1>4. \A f : IsFiniteSet(P(f)) /\ Cardinality(P(f)) \in Nat
    <2> TAKE f
    <2>1. P(f) \in SUBSET V
      OBVIOUS
    <2> QED
      BY <1>3, <2>1, FS_Subset, FS_CardinalityType
  <1>5. n = [m EXCEPT !.map = map1, !.rc = rc1, !.cu = cu1]
    BY <1>1 DEF link, MemType
  <1>6. rc1 \in [Frame -> Int] /\ \A f \in Frame : rc1[f] = m.rc[f] + Cardinality(P(f))
    <2> HIDE DEF P
    <2>1. ASSUME NEW f \in Frame PROVE m.rc[f] + Cardinality(P(f)) \in Int
      <3>1. m.rc[f] \in Int /\ Cardinality(P(f)) \in Nat
        BY <1>2, <1>4
      <3> QED
        BY <3>1
    <2> QED
      BY <2>1
  <1>7. /\ map1 \in [Tasks -> [Va -> Frame \cup {NoFrame}]]
        /\ \A u \in Tasks, va \in Va :
             map1[u][va] = IF u = c /\ va \in V THEN src[va] ELSE m.map[u][va]
    BY <1>2, <1>3
  <1>8. /\ cu1 \in [Tasks -> Int]
        /\ \A u \in Tasks : cu1[u] = m.cu[u] + (IF u = c THEN Cardinality(V) ELSE 0)
    BY <1>2, <1>3
  <1> HIDE DEF rc1, map1, cu1
  <1>9. /\ n \in MemType /\ n.rc = rc1 /\ n.map = map1 /\ n.cu = cu1
        /\ n.used = m.used /\ n.tmp = m.tmp /\ n.tab = m.tab /\ n.ck = m.ck
    BY <1>1, <1>5, <1>6, <1>7, <1>8 DEF MemType
  <1>10. RefExact(n, g, {})
    <2> SUFFICES ASSUME NEW f \in Frame
                 PROVE  /\ n.rc[f] = Cardinality(MapsTo(n, f)) + Cardinality(TmpOf(n, f))
                                     + Cardinality(SegOf(g, f))
                        /\ f \in n.used <=> Referenced(n, g, f)
      BY DEF RefExact
    <2>1. /\ m.rc[f] = Cardinality(MapsTo(m, f)) + Cardinality(TmpOf(m, f))
                       + Cardinality(SegOf(g, f))
          /\ f \in m.used <=> Referenced(m, g, f)
      BY <1>1 DEF RefExact
    <2>2. TmpOf(n, f) = TmpOf(m, f)
      BY <1>9 DEF TmpOf
    <2> DEFINE D == {c} \X P(f)
               A == MapsTo(n, f)
    <2>3. D \in SUBSET A /\ MapsTo(m, f) = A \ D
      <3>1. ASSUME NEW x \in Tasks \X Va
            PROVE  /\ x \in D => x \in A
                   /\ x \in MapsTo(m, f) <=> x \in A /\ x \notin D
        <4>1. x = <<x[1], x[2]>> /\ x[1] \in Tasks /\ x[2] \in Va
          OBVIOUS
        <4>2. n.map[x[1]][x[2]] = IF x[1] = c /\ x[2] \in V THEN src[x[2]] ELSE m.map[x[1]][x[2]]
          BY <1>7, <1>9, <4>1
        <4>3. x \in D <=> x[1] = c /\ x[2] \in V /\ src[x[2]] = f
          BY <4>1
        <4>4. x[1] = c /\ x[2] \in V => m.map[x[1]][x[2]] # f
          BY FiniteSets
        <4> QED
          BY <4>1, <4>2, <4>3, <4>4 DEF MapsTo
      <3>2. MapsTo(m, f) \subseteq Tasks \X Va /\ A \subseteq Tasks \X Va /\ D \subseteq Tasks \X Va
        BY <1>3 DEF MapsTo
      <3> QED
        BY <3>1, <3>2
    <2>4. Cardinality(D) = Cardinality(P(f))
      <3>1. IsFiniteSet({c}) /\ Cardinality({c}) = 1
        BY FS_Singleton
      <3>2. IsFiniteSet(P(f)) /\ Cardinality(P(f)) \in Nat
        BY <1>4
      <3>3. Cardinality(D) = Cardinality({c}) * Cardinality(P(f))
        BY <3>1, <3>2, FS_Product
      <3> QED
        BY <3>1, <3>2, <3>3
    <2>5. IsFiniteSet(A)
      BY RefSetsFinite
    <2>6. P(f) # {} => SegOf(g, f) # {}
      OBVIOUS
    <2>7. n.rc[f] = m.rc[f] + Cardinality(P(f)) /\ Cardinality(P(f)) \in Nat
      BY <1>4, <1>6, <1>9
    <2>8. D # {} => P(f) # {}
      OBVIOUS
    <2> HIDE DEF D, A, P
    <2>9. /\ Cardinality(MapsTo(m, f)) = Cardinality(A) - Cardinality(D)
          /\ Cardinality(A) \in Nat
      BY <2>3, <2>5, CountPart
    <2>10. n.rc[f] = Cardinality(A) + Cardinality(TmpOf(n, f)) + Cardinality(SegOf(g, f))
      BY <2>1, <2>2, <2>4, <2>7, <2>9, RefCounts
    <2>11. Referenced(n, g, f) <=> Referenced(m, g, f)
      BY <2>2, <2>3, <2>6, <2>8 DEF Referenced, A
    <2> QED
      BY <1>9, <2>1, <2>10, <2>11 DEF A
  <1>11. Counted(n)
    <2> SUFFICES ASSUME NEW u \in Tasks
                 PROVE  /\ n.cu[u] = Cardinality(Mapped(n, u, UserVa))
                        /\ n.ck[u] = Cardinality(Mapped(n, u, KStack))
                                     + Cardinality(SlotsOf(n, u, Tables))
      BY DEF Counted
    <2>1. /\ m.cu[u] = Cardinality(Mapped(m, u, UserVa))
          /\ m.ck[u] = Cardinality(Mapped(m, u, KStack)) + Cardinality(SlotsOf(m, u, Tables))
      BY <1>1 DEF Counted
    <2>2. SlotsOf(n, u, Tables) = SlotsOf(m, u, Tables)
      BY <1>9 DEF SlotsOf
    <2>3. Mapped(n, u, KStack) = Mapped(m, u, KStack)
      BY <1>3, <1>7, <1>9, Layout DEF Mapped
    <2>4. n.cu[u] = Cardinality(Mapped(n, u, UserVa))
      <3>1. CASE u # c
        <4>1. Mapped(n, u, UserVa) = Mapped(m, u, UserVa)
          BY <1>7, <1>9, <3>1, Layout DEF Mapped
        <4> QED
          BY <1>2, <1>8, <1>9, <2>1, <3>1, <4>1
      <3>2. CASE u = c
        <4> DEFINE A == Mapped(n, c, UserVa)
                   T == Mapped(m, c, UserVa)
        <4>1. V \in SUBSET A /\ T = A \ V
          BY <1>3, <1>7, <1>9, FiniteSets, Layout DEF Mapped
        <4>2. UserVa \in SUBSET Va
          BY Layout
        <4>3. IsFiniteSet(A)
          BY <1>9, <4>2, PartsFinite
        <4> HIDE DEF A, T
        <4>4. Cardinality(T) = Cardinality(A) - Cardinality(V) /\ Cardinality(A) \in Nat
          BY <4>1, <4>3, CountPart
        <4>5. n.cu[c] = m.cu[c] + Cardinality(V) /\ m.cu[c] = Cardinality(T)
          BY <1>8, <1>9, <2>1, <3>2 DEF T
        <4> QED
          BY <1>3, <3>2, <4>4, <4>5 DEF A
      <3> QED
        BY <3>1, <3>2
    <2> QED
      BY <1>9, <2>1, <2>2, <2>3, <2>4
  <1>12. TablesOwned(n)
    BY <1>1, <1>9 DEF TablesOwned
  <1>13. Exact(n, g, {})
    BY <1>1, <1>9, <1>10, <1>11, <1>12 DEF Exact
  <1>14. \A u \in Tasks, va \in Va :
           n.map[u][va] = IF u = c /\ va \in V THEN src[va] ELSE m.map[u][va]
    BY <1>7, <1>9
  <1>15. \A f : TmpOf(n, f) = TmpOf(m, f)
    BY <1>9 DEF TmpOf
  <1>16. Separated(n, g)
    <2>1. ASSUME NEW t \in Tasks, NEW va \in Va, n.map[t][va] # NoFrame
          PROVE  /\ TmpOf(n, n.map[t][va]) = {}
                 /\ va \in ShmVa => SegOf(g, n.map[t][va]) # {}
                 /\ va \notin ShmVa => /\ SegOf(g, n.map[t][va]) = {}
                                       /\ \A u \in Tasks, w \in Va :
                                            n.map[u][w] = n.map[t][va] => u = t /\ w = va
      <3>1. CASE t = c /\ va \in V
        <4>1. n.map[t][va] = src[va] /\ SegOf(g, src[va]) # {}
          BY <1>14, <3>1
        <4>2. PICK k \in Segs : g[k] = src[va]
          BY <4>1 DEF SegOf
        <4>3. TmpOf(m, src[va]) = {}
          BY <2>1, <4>1, <4>2 DEF Separated
        <4> QED
          BY <1>15, <3>1, <4>1, <4>3
      <3>2. CASE ~(t = c /\ va \in V)
        <4>1. n.map[t][va] = m.map[t][va] /\ m.map[t][va] # NoFrame
          BY <1>14, <2>1, <3>2
        <4>2. ASSUME va \notin ShmVa, NEW u \in Tasks, NEW w \in Va, n.map[u][w] = n.map[t][va]
              PROVE  u = t /\ w = va
          <5>1. SegOf(g, m.map[t][va]) = {}
            BY <4>1, <4>2 DEF Separated
          <5>2. ~(u = c /\ w \in V)
            BY <1>14, <4>1, <4>2, <5>1
          <5>3. m.map[u][w] = m.map[t][va]
            BY <1>14, <4>1, <4>2, <5>2
          <5> QED
            BY <4>1, <4>2, <5>3 DEF Separated
        <4> QED
          BY <1>15, <4>1, <4>2 DEF Separated
      <3> QED
        BY <3>1, <3>2
    <2> QED
      BY <1>15, <2>1 DEF Separated
  <1>17. Local(m, n, g, c)
    <2>1. \A s, R : SlotsOf(n, c, R) = SlotsOf(m, c, R) /\ n.tmp[s] = m.tmp[s]
      BY <1>9 DEF SlotsOf
    <2>2. SlotsLocal(m, n, c)
      BY <2>1 DEF SlotsLocal
    <2>3. Others(n, g, c) = Others(m, g, c)
      BY <1>14, <2>2, OthersSame
    <2> QED
      BY <1>9, <1>14, <2>3 DEF Local
  <1> QED
    BY <1>9, <1>13, <1>14, <1>16, <1>17 DEF Linked

\* sys_shmget: a free frame becomes a segment's
LEMMA ShmgetExact ==
  ASSUME NEW m, NEW g, Exact(m, g, {}), Separated(m, g), Free(m) # {},
         NEW k \in Segs, g[k] = NoFrame, NEW n, n = shmget_page(m),
         NEW h, h = [g EXCEPT ![k] = FirstFree(m)]
  PROVE  Exact(n, h, {}) /\ Separated(n, h) /\ n.map = m.map /\ n.tab = m.tab
PROOF
  <1> DEFINE f == FirstFree(m)
             a == page_alloc(m)
  <1>1. Exact(a, g, {f}) /\ FrameTaken(m, a, f)
    BY PageAllocExact
  <1>2. /\ f \in Free(m) /\ f \in Frame /\ f # NoFrame /\ a.used = m.used \cup {f}
        /\ a.tmp = m.tmp /\ a.tab = m.tab /\ a.map = m.map /\ a.rc = m.rc
    BY <1>1, FiniteSets DEF FrameTaken, Free
  <1>3. n = refcount_inc(a, f) /\ h = [g EXCEPT ![k] = f]
    BY DEF shmget_page
  <1>4. MapsTo(m, f) = {} /\ TmpOf(m, f) = {} /\ SegOf(g, f) = {}
    BY <1>2, FreshFrame
  <1> HIDE DEF a, f
  <1>5. a \in MemType /\ g \in SegType /\ RefExact(a, g, {f}) /\ Counted(a) /\ TablesOwned(a)
    BY <1>1 DEF Exact
  <1>6. /\ n \in MemType /\ n.used = a.used /\ n.tmp = a.tmp /\ n.tab = a.tab
        /\ n.map = a.map /\ n.cu = a.cu /\ n.ck = a.ck
        /\ \A x \in Frame : n.rc[x] = a.rc[x] + (IF x = f THEN 1 ELSE 0)
    BY <1>2, <1>3, <1>5, IncField
  <1>7. h \in SegType /\ h[k] = f /\ \A j \in Segs : j # k => h[j] = g[j]
    BY <1>2, <1>3, <1>5 DEF SegType
  <1>8. \A x : TmpOf(n, x) = TmpOf(m, x) /\ MapsTo(n, x) = MapsTo(m, x) /\ TmpOf(a, x) = TmpOf(m, x)
               /\ MapsTo(a, x) = MapsTo(m, x)
    BY <1>2, <1>6 DEF TmpOf, MapsTo
  <1>9. /\ SegOf(h, f) = {k}
        /\ \A x : x # f /\ x # NoFrame => SegOf(h, x) = SegOf(g, x)
    BY <1>4, <1>7 DEF SegOf
  <1>10. RefExact(n, h, {})
    <2> SUFFICES ASSUME NEW x \in Frame
                 PROVE  /\ n.rc[x] = Cardinality(MapsTo(n, x)) + Cardinality(TmpOf(n, x))
                                     + Cardinality(SegOf(h, x))
                        /\ x \in n.used <=> Referenced(n, h, x)
      BY DEF RefExact
    <2>1. /\ a.rc[x] = Cardinality(MapsTo(a, x)) + Cardinality(TmpOf(a, x))
                       + Cardinality(SegOf(g, x))
          /\ x \in a.used <=> Referenced(a, g, x) \/ x \in {f}
      BY <1>5 DEF RefExact
    <2>2. x # NoFrame
      BY FiniteSets
    <2>3. CASE x # f
      <3>1. SegOf(h, x) = SegOf(g, x) /\ n.rc[x] = a.rc[x]
        <4>1. a.rc[x] \in Int
          BY <1>5 DEF MemType
        <4>2. n.rc[x] = a.rc[x] + (IF x = f THEN 1 ELSE 0)
          BY <1>6
        <4>3. SegOf(h, x) = SegOf(g, x)
          BY <1>9, <2>2, <2>3
        <4> QED
          BY <2>3, <4>1, <4>2, <4>3
      <3>2. Referenced(n, h, x) <=> Referenced(a, g, x)
        BY <1>8, <3>1 DEF Referenced
      <3> QED
        BY <1>6, <1>8, <2>1, <2>3, <3>1, <3>2
    <2>4. CASE x = f
      <3>1. Cardinality({k}) = 1 /\ Cardinality({}) = 0
        BY FS_Singleton, FS_EmptySet
      <3>2. a.rc[f] = 0 + 0 + 0
        BY <1>4, <1>8, <2>1, <2>4, <3>1
      <3>3. n.rc[f] = a.rc[f] + 1
        BY <1>2, <1>6
      <3>4. n.rc[x] = Cardinality(MapsTo(n, x)) + Cardinality(TmpOf(n, x)) + Cardinality(SegOf(h, x))
        <4>1. MapsTo(n, f) = {} /\ TmpOf(n, f) = {} /\ SegOf(h, f) = {k}
          BY <1>4, <1>8, <1>9
        <4>2. /\ Cardinality(MapsTo(n, x)) = 0 /\ Cardinality(TmpOf(n, x)) = 0
              /\ Cardinality(SegOf(h, x)) = 1
          BY <2>4, <3>1, <4>1
        <4>3. n.rc[x] = 1
          BY <2>4, <3>2, <3>3
        <4> QED
          BY <4>2, <4>3
      <3> QED
        BY <1>2, <1>6, <1>9, <2>4, <3>4 DEF Referenced
    <2> QED
      BY <2>3, <2>4
  <1>11. Counted(n)
    <2>1. \A u, V : Mapped(n, u, V) = Mapped(a, u, V) /\ SlotsOf(n, u, V) = SlotsOf(a, u, V)
      BY <1>6 DEF Mapped, SlotsOf
    <2> QED
      BY <1>5, <1>6, <2>1 DEF Counted
  <1>12. TablesOwned(n)
    BY <1>5, <1>6 DEF TablesOwned
  <1>13. Separated(n, h)
    <2>1. ASSUME NEW t \in Tasks, NEW va \in Va, n.map[t][va] # NoFrame
          PROVE  /\ TmpOf(n, n.map[t][va]) = {}
                 /\ va \in ShmVa => SegOf(h, n.map[t][va]) # {}
                 /\ va \notin ShmVa => /\ SegOf(h, n.map[t][va]) = {}
                                       /\ \A u \in Tasks, w \in Va :
                                            n.map[u][w] = n.map[t][va] => u = t /\ w = va
      <3>1. n.map = m.map
        BY <1>2, <1>6
      <3>2. m.map[t][va] # f
        BY <1>2, NotFree
      <3>3. SegOf(h, n.map[t][va]) = SegOf(g, n.map[t][va])
        BY <1>9, <2>1, <3>1, <3>2
      <3>4. TmpOf(n, n.map[t][va]) = TmpOf(m, m.map[t][va])
        BY <1>8, <3>1
      <3>5. /\ TmpOf(m, m.map[t][va]) = {}
            /\ va \in ShmVa => SegOf(g, m.map[t][va]) # {}
            /\ va \notin ShmVa => /\ SegOf(g, m.map[t][va]) = {}
                                  /\ \A u \in Tasks, w \in Va :
                                       m.map[u][w] = m.map[t][va] => u = t /\ w = va
        BY <2>1, <3>1 DEF Separated
      <3> QED
        BY <3>1, <3>3, <3>4, <3>5
    <2>2. ASSUME NEW j \in Segs, h[j] # NoFrame PROVE TmpOf(n, h[j]) = {}
      BY <1>4, <1>7, <1>8, <2>2 DEF Separated
    <2> QED
      BY <2>1, <2>2 DEF Separated
  <1>14. Exact(n, h, {})
    BY <1>6, <1>7, <1>10, <1>11, <1>12 DEF Exact
  <1> QED
    BY <1>2, <1>6, <1>13, <1>14

\* sys_shmat: the frame of a segment at a page of the shared region
LEMMA ShmatExact ==
  ASSUME NEW m, NEW g, Exact(m, g, {}), Separated(m, g), NEW t \in Tasks, NEW va \in ShmVa,
         m.map[t][va] = NoFrame, CanGet(m, t, va), NEW k \in Segs, g[k] # NoFrame,
         NEW n, n = page_insert(m, t, va, g[k])
  PROVE  Exact(n, g, {}) /\ Separated(n, g) /\ PageInserted(m, n, t, va, g[k])
PROOF
  <1> DEFINE f == g[k]
  <1>1. va \in Va /\ f \in Frame /\ f # NoFrame
    BY Layout DEF Exact, SegType
  <1>2. k \in SegOf(g, f)
    BY DEF SegOf
  <1>3. f \in m.used
    BY <1>1, <1>2 DEF Exact, RefExact, Referenced
  <1>4. n = page_insert(m, t, va, f)
    OBVIOUS
  <1> HIDE DEF f
  <1>5. Exact(n, g, {} \ {f}) /\ PageInserted(m, n, t, va, f)
    BY <1>1, <1>3, <1>4, PageInsertExact
  <1>6. Exact(n, g, {})
    <2>1. {} \ {f} = {}
      OBVIOUS
    <2> QED
      BY <1>5, <2>1
  <1>7. /\ n.map[t][va] = f
        /\ \A u \in Tasks, w \in Va : u # t \/ w # va => n.map[u][w] = m.map[u][w]
        /\ \A z \in Slot : n.tmp[z] # m.tmp[z] => n.tmp[z] \in Free(m)
    BY <1>5 DEF PageInserted, MapDiffers, TableGrown
  <1>8. ASSUME NEW x, TmpOf(m, x) = {}, x \notin Free(m) PROVE TmpOf(n, x) = {}
    BY <1>7, <1>8 DEF TmpOf
  <1>9. ASSUME NEW j \in Segs, g[j] # NoFrame PROVE TmpOf(n, g[j]) = {}
    BY <1>8, <1>9, NotFree DEF Separated
  <1>10. ASSUME NEW u \in Tasks, NEW w \in Va, n.map[u][w] # NoFrame
         PROVE  /\ TmpOf(n, n.map[u][w]) = {}
                /\ w \in ShmVa => SegOf(g, n.map[u][w]) # {}
                /\ w \notin ShmVa => /\ SegOf(g, n.map[u][w]) = {}
                                     /\ \A v \in Tasks, x \in Va :
                                          n.map[v][x] = n.map[u][w] => v = u /\ x = w
    <2>1. CASE u = t /\ w = va
      <3>1. n.map[u][w] = f /\ TmpOf(n, f) = {}
        BY <1>1, <1>7, <1>9, <2>1 DEF f
      <3> QED
        BY <1>2, <2>1, <3>1
    <2>2. CASE u # t \/ w # va
      <3>1. n.map[u][w] = m.map[u][w]
        BY <1>7, <2>2
      <3>2. TmpOf(n, n.map[u][w]) = {}
        BY <1>8, <1>10, <3>1, NotFree DEF Separated
      <3>3. ASSUME w \notin ShmVa, NEW v \in Tasks, NEW x \in Va, n.map[v][x] = n.map[u][w]
            PROVE  v = u /\ x = w
        <4>1. SegOf(g, m.map[u][w]) = {} /\ m.map[u][w] # NoFrame
          BY <1>10, <3>1, <3>3 DEF Separated
        <4>2. v # t \/ x # va
          BY <1>2, <1>7, <3>1, <3>3, <4>1
        <4>3. m.map[v][x] = m.map[u][w]
          BY <1>7, <3>1, <3>3, <4>2
        <4> QED
          BY <3>3, <4>1, <4>3 DEF Separated
      <3> QED
        BY <1>10, <3>1, <3>2, <3>3 DEF Separated
    <2> QED
      BY <2>1, <2>2
  <1>11. Separated(n, g)
    BY <1>9, <1>10 DEF Separated
  <1> QED
    BY <1>5, <1>6, <1>11 DEF f

-----------------------------------------------------------------------------
(* What exact counts and separation mean for one process.                  *)

\* Without shared memory every page has one reference; with it, none has.
LEMMA Sole ==
  ASSUME NEW m, NEW g, Exact(m, g, {}), Separated(m, g), NEW t \in Tasks
  PROVE  /\ Mapped(m, t, ShmVa) = {} => SoleOwner(m, t)
         /\ SoleOwner(m, t) => Mapped(m, t, ShmVa) = {}
PROOF
  <1>1. ASSUME NEW va \in Va, m.map[t][va] # NoFrame
        PROVE  /\ va \notin ShmVa => m.rc[m.map[t][va]] = 1
               /\ va \in ShmVa => m.rc[m.map[t][va]] # 1
    <2> DEFINE f == m.map[t][va]
    <2>1. f \in Frame
      BY <1>1 DEF Exact, MemType
    <2>2. <<t, va>> \in MapsTo(m, f)
      BY DEF MapsTo
    <2>3. m.rc[f] = Cardinality(MapsTo(m, f)) + Cardinality(TmpOf(m, f)) + Cardinality(SegOf(g, f))
      BY <2>1 DEF Exact, RefExact
    <2>4. TmpOf(m, f) = {}
      BY <1>1 DEF Separated
    <2>5. ASSUME va \in ShmVa PROVE m.rc[f] # 1
      <3>1. SegOf(g, f) # {} /\ MapsTo(m, f) # {}
        BY <1>1, <2>2, <2>5 DEF Separated
      <3> HIDE DEF f
      <3> QED
        BY <2>3, <3>1, RefCounts
    <2>6. ASSUME va \notin ShmVa PROVE m.rc[f] = 1
      <3>1. SegOf(g, f) = {}
        BY <1>1, <2>6 DEF Separated
      <3>2. MapsTo(m, f) = {<<t, va>>}
        <4>1. ASSUME NEW x \in MapsTo(m, f) PROVE x = <<t, va>>
          <5>1. x = <<x[1], x[2]>> /\ x[1] \in Tasks /\ x[2] \in Va /\ m.map[x[1]][x[2]] = f
            BY DEF MapsTo
          <5>2. x[1] = t /\ x[2] = va
            BY <1>1, <2>6, <5>1 DEF Separated
          <5> QED
            BY <5>1, <5>2
        <4> QED
          BY <2>2, <4>1
      <3>3. Cardinality({<<t, va>>}) = 1 /\ Cardinality({}) = 0
        BY FS_Singleton, FS_EmptySet
      <3> HIDE DEF f
      <3> QED
        BY <2>3, <2>4, <3>1, <3>2, <3>3
    <2> QED
      BY <2>5, <2>6
  <1> QED
    BY <1>1, Layout DEF SoleOwner, Mapped

\* A process that has nothing: the frames others refer to are all that are used.
LEMMA OthersAll ==
  ASSUME NEW m, NEW g, Exact(m, g, {}), NEW t \in Tasks,
         \A va \in Va : m.map[t][va] = NoFrame, \A r \in Tables : m.tab[t][r] = NoSlot
  PROVE  Frame \ Others(m, g, t) = Free(m) /\ m.cu[t] = 0 /\ m.ck[t] = 0
PROOF
  <1>1. SlotsOf(m, t, Tables) = {} /\ Mapped(m, t, UserVa) = {} /\ Mapped(m, t, KStack) = {}
    BY Layout DEF SlotsOf, Mapped
  <1>2. ASSUME NEW f \in Frame
        PROVE  f \in m.used <=> \/ \E u \in Tasks \ {t}, va \in Va : m.map[u][va] = f
                                \/ \E s \in Slot \ SlotsOf(m, t, Tables) : m.tmp[s] = f
                                \/ SegOf(g, f) # {}
    <2>1. f \in m.used <=> MapsTo(m, f) # {} \/ TmpOf(m, f) # {} \/ SegOf(g, f) # {}
      BY DEF Exact, RefExact, Referenced
    <2>2. TmpOf(m, f) # {} <=> \E s \in Slot \ SlotsOf(m, t, Tables) : m.tmp[s] = f
      BY <1>1 DEF TmpOf
    <2>3. ASSUME NEW x \in MapsTo(m, f) PROVE \E u \in Tasks \ {t}, va \in Va : m.map[u][va] = f
      <3>1. x[1] \in Tasks /\ x[2] \in Va /\ m.map[x[1]][x[2]] = f
        BY DEF MapsTo
      <3>2. x[1] # t
        BY <3>1, FiniteSets
      <3> QED
        BY <3>1, <3>2
    <2>4. ASSUME NEW u \in Tasks \ {t}, NEW va \in Va, m.map[u][va] = f PROVE MapsTo(m, f) # {}
      <3>1. <<u, va>> \in MapsTo(m, f)
        BY <2>4 DEF MapsTo
      <3> QED
        BY <3>1
    <2> QED
      BY <2>1, <2>2, <2>3, <2>4
  <1>3. Frame \ Others(m, g, t) = Free(m)
    BY <1>2 DEF Others, Free
  <1>4. Cardinality({}) = 0
    BY FS_EmptySet
  <1>5. m.cu[t] = 0 /\ m.ck[t] = 0 + 0
    BY <1>1, <1>4 DEF Exact, Counted
  <1> QED
    BY <1>3, <1>5

\* The type of an exact memory
LEMMA ExactType ==
  ASSUME NEW m, NEW g, Exact(m, g, {})
  PROVE  m \in [used : SUBSET Frame, rc : [Frame -> Nat],
                tmp : [Slot -> Frame \cup {NoFrame}],
                tab : [Tasks -> [Tables -> Slot \cup {NoSlot}]],
                map : [Tasks -> [Va -> Frame \cup {NoFrame}]],
                cu : [Tasks -> 0 .. Cardinality(UserVa)],
                ck : [Tasks -> 0 .. Cardinality(KStack) + Cardinality(Tables)]]
PROOF
  <1>1. m \in MemType /\ RefExact(m, g, {}) /\ Counted(m)
    BY DEF Exact
  <1>2. ASSUME NEW f \in Frame PROVE m.rc[f] \in Nat
    BY <1>1, RefCounts DEF RefExact
  <1>3. ASSUME NEW t \in Tasks
        PROVE  /\ m.cu[t] \in 0 .. Cardinality(UserVa)
               /\ m.ck[t] \in 0 .. Cardinality(KStack) + Cardinality(Tables)
    <2>1. /\ m.cu[t] = Cardinality(Mapped(m, t, UserVa))
          /\ m.ck[t] = Cardinality(Mapped(m, t, KStack)) + Cardinality(SlotsOf(m, t, Tables))
      BY <1>1 DEF Counted
    <2>2. Mapped(m, t, UserVa) \in SUBSET UserVa /\ Mapped(m, t, KStack) \in SUBSET KStack
      BY DEF Mapped
    <2>3. /\ Cardinality(Mapped(m, t, UserVa)) <= Cardinality(UserVa)
          /\ Cardinality(Mapped(m, t, KStack)) <= Cardinality(KStack)
          /\ Cardinality(Mapped(m, t, UserVa)) \in Nat /\ Cardinality(Mapped(m, t, KStack)) \in Nat
          /\ Cardinality(UserVa) \in Nat /\ Cardinality(KStack) \in Nat
      BY <2>2, FiniteSets, FS_Subset, FS_CardinalityType
    <2>4. /\ Cardinality(SlotsOf(m, t, Tables)) <= Cardinality(Tables)
          /\ Cardinality(SlotsOf(m, t, Tables)) \in Nat /\ Cardinality(Tables) \in Nat
      <3> DEFINE I == {m.tab[t][r] : r \in Tables}
                 f == m.tab[t]
      <3>1. f \in Surjection(Tables, I)
        BY <1>1 DEF Surjection, MemType
      <3>2. SlotsOf(m, t, Tables) \in SUBSET I
        BY DEF SlotsOf
      <3> HIDE DEF f, I
      <3>3. IsFiniteSet(I) /\ Cardinality(I) <= Cardinality(Tables)
        BY <3>1, FiniteSets, FS_Surjection
      <3>4. /\ Cardinality(SlotsOf(m, t, Tables)) <= Cardinality(I)
            /\ IsFiniteSet(SlotsOf(m, t, Tables))
        BY <3>2, <3>3, FS_Subset
      <3>5. /\ Cardinality(SlotsOf(m, t, Tables)) \in Nat /\ Cardinality(I) \in Nat
            /\ Cardinality(Tables) \in Nat
        BY <3>3, <3>4, FiniteSets, FS_CardinalityType
      <3> QED
        BY <3>3, <3>4, <3>5
    <2> QED
      BY <2>1, <2>3, <2>4
  <1>4. m.rc \in [Frame -> Nat]
    BY <1>1, <1>2 DEF MemType
  <1>5. /\ m.cu \in [Tasks -> 0 .. Cardinality(UserVa)]
        /\ m.ck \in [Tasks -> 0 .. Cardinality(KStack) + Cardinality(Tables)]
    BY <1>1, <1>3 DEF MemType
  <1> QED
    BY <1>1, <1>4, <1>5 DEF MemType

-----------------------------------------------------------------------------
(* page_alloc_insert and __copy_page_from_current, put together.           *)

\* A new page is nobody else's.
LEMMA AllocPage ==
  ASSUME NEW m, NEW g, Exact(m, g, {}), Separated(m, g), NEW t \in Tasks,
         NEW va \in Va \ ShmVa, m.map[t][va] = NoFrame, CanAlloc(m, t, va),
         NEW n, n = page_alloc_insert(m, t, va)
  PROVE  /\ Exact(n, g, {}) /\ Separated(n, g) /\ PageAdded(m, n, t, va)
         /\ Local(m, n, g, t) /\ UsedForPage(m, n, t, va[1])
PROOF
  <1>1. va \in Va /\ va[1] \in Tables
    BY Layout
  <1>2. /\ Exact(n, g, {}) /\ PageAdded(m, n, t, va) /\ UsedForPage(m, n, t, va[1])
        /\ FreshPage(m, n, t, va, FirstFree(m))
    BY <1>1, PageAllocInsertExact
  <1>3. Separated(n, g)
    BY <1>2, SeparatedFresh
  <1>4. m \in MemType /\ n \in MemType
    BY <1>2 DEF Exact
  <1>5. /\ TableGrown(m, n, t, va[1])
        /\ \A u \in Tasks : u # t => \A w \in Va : n.map[u][w] = m.map[u][w]
    BY <1>2 DEF PageAdded, MapDiffers
  <1>6. Local(m, n, g, t)
    BY <1>1, <1>4, <1>5, GrownLocal
  <1> QED
    BY <1>2, <1>3, <1>6

\* A copied page is nobody else's.
LEMMA CopyPage ==
  ASSUME NEW m, NEW g, Exact(m, g, {}), Separated(m, g), NEW t \in Tasks,
         NEW va \in Va \ ShmVa, m.map[t][va] = NoFrame, CanCopy(m, t, va),
         NEW n, n = copy_page(m, t, va)
  PROVE  /\ Exact(n, g, {}) /\ Separated(n, g) /\ PageAdded(m, n, t, va) /\ Local(m, n, g, t)
PROOF
  <1>1. va \in Va /\ va[1] \in Tables
    BY Layout
  <1>2. Exact(n, g, {}) /\ PageAdded(m, n, t, va) /\ FreshPage(m, n, t, va, FirstFree(m))
    BY <1>1, CopyPageExact
  <1>3. Separated(n, g)
    BY <1>2, SeparatedFresh
  <1>4. m \in MemType /\ n \in MemType
    BY <1>2 DEF Exact
  <1>5. /\ TableGrown(m, n, t, va[1])
        /\ \A u \in Tasks : u # t => \A w \in Va : n.map[u][w] = m.map[u][w]
    BY <1>2 DEF PageAdded, MapDiffers
  <1>6. Local(m, n, g, t)
    BY <1>1, <1>4, <1>5, GrownLocal
  <1> QED
    BY <1>2, <1>3, <1>6

-----------------------------------------------------------------------------
(* The memory of the first process.                                        *)

UsedSlots(m) == {s \in Slot : m.tmp[s] # NoFrame}

\* n takes at most a frames and b temporary pages more than m
Takes(m, n, a, b) ==
  /\ Cardinality(n.used) <= Cardinality(m.used) + a
  /\ Cardinality(UsedSlots(n)) <= Cardinality(UsedSlots(m)) + b

\* While fewer frames or slots are used than there are, one is free.
LEMMA Counts ==
  ASSUME NEW m \in MemType
  PROVE  /\ IsFiniteSet(m.used) /\ Cardinality(m.used) \in Nat
         /\ IsFiniteSet(UsedSlots(m)) /\ Cardinality(UsedSlots(m)) \in Nat
         /\ Cardinality(m.used) < NPages => Free(m) # {}
         /\ Cardinality(UsedSlots(m)) < TmpSlots => FreeSlots(m) # {}
PROOF
  <1>1. m.used \in SUBSET Frame /\ UsedSlots(m) \in SUBSET Slot
    BY DEF MemType, UsedSlots
  <1>2. /\ IsFiniteSet(m.used) /\ Cardinality(m.used) \in Nat
        /\ IsFiniteSet(UsedSlots(m)) /\ Cardinality(UsedSlots(m)) \in Nat
    BY <1>1, FiniteSets, FS_Subset, FS_CardinalityType
  <1>3. Free(m) = {} => m.used = Frame
    BY <1>1 DEF Free
  <1>4. FreeSlots(m) = {} => UsedSlots(m) = Slot
    BY DEF FreeSlots, UsedSlots
  <1> QED
    BY <1>2, <1>3, <1>4, FiniteSets, MemoryAssumption

\* A set with two elements more at most
LEMMA TwoMore ==
  ASSUME NEW A, IsFiniteSet(A), NEW T, NEW x, NEW y
  PROVE  /\ T \subseteq A \cup {x} => Cardinality(T) <= Cardinality(A) + 1
         /\ T \subseteq A \cup {x, y} => Cardinality(T) <= Cardinality(A) + 2
PROOF
  <1> DEFINE B == A \cup {x}
             D == B \cup {y}
  <1>0. ASSUME NEW S, IsFiniteSet(S), NEW z
        PROVE  /\ IsFiniteSet(S \cup {z}) /\ Cardinality(S \cup {z}) <= Cardinality(S) + 1
               /\ Cardinality(S) \in Nat /\ Cardinality(S \cup {z}) \in Nat
    <2>1. /\ IsFiniteSet(S \cup {z})
          /\ Cardinality(S \cup {z}) = IF z \in S THEN Cardinality(S) ELSE Cardinality(S) + 1
      BY <1>0, FS_AddElement
    <2>2. Cardinality(S) \in Nat
      BY <1>0, FS_CardinalityType
    <2> QED
      BY <2>1, <2>2
  <1>1. /\ IsFiniteSet(B) /\ Cardinality(B) <= Cardinality(A) + 1
        /\ Cardinality(A) \in Nat /\ Cardinality(B) \in Nat
    BY <1>0
  <1>2. A \cup {x, y} = D
    OBVIOUS
  <1>3. T \subseteq A \cup {x} => T \in SUBSET B
    OBVIOUS
  <1>4. T \subseteq A \cup {x, y} => T \in SUBSET D
    BY <1>2
  <1> HIDE DEF B
  <1>6. IsFiniteSet(D) /\ Cardinality(D) <= Cardinality(B) + 1 /\ Cardinality(D) \in Nat
    BY <1>0, <1>1
  <1> HIDE DEF D
  <1>7. T \in SUBSET B => Cardinality(T) <= Cardinality(B) /\ Cardinality(T) \in Nat
    BY <1>1, FS_Subset, FS_CardinalityType
  <1>8. T \in SUBSET D => Cardinality(T) <= Cardinality(D) /\ Cardinality(T) \in Nat
    BY <1>6, FS_Subset, FS_CardinalityType
  <1> QED
    BY <1>1, <1>3, <1>4, <1>6, <1>7, <1>8

\* A step that makes at most one table uses at most one slot more.
LEMMA GrownSlots ==
  ASSUME NEW m \in MemType, NEW n, NEW t, NEW r, TableGrown(m, n, t, r)
  PROVE  /\ Cardinality(UsedSlots(n)) <= Cardinality(UsedSlots(m)) + 1
         /\ m.tab[t][r] # NoSlot => Cardinality(UsedSlots(n)) <= Cardinality(UsedSlots(m)) + 0
PROOF
  <1> DEFINE A == UsedSlots(m)
             T == UsedSlots(n)
             x == n.tab[t][r]
  <1>1. T \subseteq A \cup {x} /\ (m.tab[t][r] # NoSlot => T = A)
    BY DEF UsedSlots, TableGrown
  <1>2. IsFiniteSet(A) /\ Cardinality(A) \in Nat
    BY Counts
  <1> HIDE DEF A, T, x
  <1>3. Cardinality(T) <= Cardinality(A) + 1
    BY <1>1, <1>2, TwoMore
  <1> QED
    BY <1>1, <1>2, <1>3 DEF A, T

\* one more page table, one more page with and without a page table
LEMMA PdeTakes ==
  ASSUME NEW m, NEW g, Exact(m, g, {}), TmpAvailable(m), NEW t \in Tasks, NEW r \in Tables,
         m.tab[t][r] = NoSlot, NEW n, n = pde_alloc(m, t, r)
  PROVE  Takes(m, n, 1, 1)
PROOF
  <1> DEFINE f == FirstFree(m)
             s == FirstSlot(m)
             A == m.used
             T == n.used
  <1>1. TableAdded(m, n, t, r, f, s) /\ m \in MemType
    BY PdeAllocExact DEF Exact
  <1>2. TableGrown(m, n, t, r) /\ T \subseteq A \cup {f}
    BY <1>1 DEF TableAdded, TableGrown, TmpDiffers
  <1>3. IsFiniteSet(A)
    BY <1>1, Counts
  <1> HIDE DEF A, T, f
  <1>4. Cardinality(T) <= Cardinality(A) + 1
    BY <1>2, <1>3, TwoMore
  <1>5. Cardinality(UsedSlots(n)) <= Cardinality(UsedSlots(m)) + 1
    BY <1>1, <1>2, GrownSlots
  <1> QED
    BY <1>4, <1>5 DEF Takes, A, T

\* A new page takes two frames and a slot at most, a frame if its table exists.
LEMMA PageTakes ==
  ASSUME NEW m \in MemType, NEW n, NEW t, NEW va,
         PageAdded(m, n, t, va), UsedForPage(m, n, t, va[1])
  PROVE  Takes(m, n, 2, 1) /\ (m.tab[t][va[1]] # NoSlot => Takes(m, n, 1, 0))
PROOF
  <1> DEFINE A == m.used
             T == n.used
  <1>1. PICK f \in Frame, h \in Frame :
          /\ T \subseteq A \cup {f, h}
          /\ m.tab[t][va[1]] # NoSlot => T \subseteq A \cup {f}
    BY DEF UsedForPage
  <1>2. IsFiniteSet(A)
    BY Counts
  <1> HIDE DEF A, T
  <1>3. /\ Cardinality(T) <= Cardinality(A) + 2
        /\ m.tab[t][va[1]] # NoSlot => Cardinality(T) <= Cardinality(A) + 1
    BY <1>1, <1>2, TwoMore
  <1>4. TableGrown(m, n, t, va[1])
    BY DEF PageAdded
  <1>5. /\ Cardinality(UsedSlots(n)) <= Cardinality(UsedSlots(m)) + 1
        /\ m.tab[t][va[1]] # NoSlot => Cardinality(UsedSlots(n)) <= Cardinality(UsedSlots(m)) + 0
    BY <1>4, GrownSlots
  <1> QED
    BY <1>3, <1>5 DEF Takes, A, T

\* With that much room page_alloc_insert does not fail.
LEMMA CanAllocRoom ==
  ASSUME NEW m, NEW g, Exact(m, g, {}), NEW t, NEW va,
         \/ Cardinality(m.used) + 2 <= NPages /\ Cardinality(UsedSlots(m)) + 1 <= TmpSlots
         \/ Cardinality(m.used) + 1 <= NPages /\ m.tab[t][va[1]] # NoSlot
  PROVE  CanAlloc(m, t, va)
PROOF
  <1> DEFINE n == page_alloc(m)
             f == FirstFree(m)
             A == m.used
             T == n.used
  <1>1. m \in MemType
    BY DEF Exact
  <1>2. Free(m) # {} /\ Cardinality(A) \in Nat /\ IsFiniteSet(A) /\ Cardinality(UsedSlots(m)) \in Nat
    BY <1>1, Counts, MemoryAssumption
  <1>3. Exact(n, g, {f}) /\ FrameTaken(m, n, f)
    BY <1>2, PageAllocExact
  <1>4. n \in MemType /\ n.tmp = m.tmp /\ n.tab = m.tab /\ T \subseteq A \cup {f}
    BY <1>3 DEF FrameTaken, Exact
  <1>5. CASE m.tab[t][va[1]] # NoSlot
    BY <1>2, <1>4, <1>5 DEF CanAlloc, CanGet
  <1>6. CASE m.tab[t][va[1]] = NoSlot
    <2>1. Cardinality(A) + 2 <= NPages /\ Cardinality(UsedSlots(m)) + 1 <= TmpSlots
      BY <1>6
    <2>2. Cardinality(UsedSlots(n)) < TmpSlots
      BY <1>2, <1>4, <2>1, MemoryAssumption DEF UsedSlots
    <2>3. Cardinality(T) \in Nat
      BY <1>4, Counts
    <2> HIDE DEF A, T, n, f
    <2>4. Cardinality(T) <= Cardinality(A) + 1
      BY <1>2, <1>4, TwoMore
    <2>5. Cardinality(T) < NPages
      BY <1>2, <2>1, <2>3, <2>4, MemoryAssumption
    <2>6. Free(n) # {} /\ FreeSlots(n) # {}
      BY <1>4, <2>2, <2>5, Counts DEF T
    <2> QED
      BY <1>2, <2>6 DEF CanAlloc, CanGet, TmpAvailable, n
  <1> QED
    BY <1>5, <1>6

\* the memory that only the kernel heap uses
KernelOnly(n) ==
  [used |-> NPages - n + 1 .. NPages,
   rc |-> [f \in Frame |-> IF f > NPages - n THEN 1 ELSE 0],
   tmp |-> [s \in Slot |-> IF s > TmpSlots - n THEN s + NPages - TmpSlots ELSE NoFrame],
   tab |-> [t \in Tasks |-> [r \in Tables |-> NoSlot]],
   map |-> [t \in Tasks |-> [va \in Va |-> NoFrame]],
   cu |-> [t \in Tasks |-> 0], ck |-> [t \in Tasks |-> 0]]

\* The memory before the first process, k frames of it the kernel's, is exact.
LEMMA KernelOnlyExact ==
  ASSUME NEW k \in 0 .. MaxOther, NEW g, g = [s \in Segs |-> NoFrame], NEW m, m = KernelOnly(k)
  PROVE  /\ Exact(m, g, {}) /\ Separated(m, g)
         /\ \A t \in Tasks, va \in Va : m.map[t][va] = NoFrame
         /\ \A t \in Tasks, r \in Tables : m.tab[t][r] = NoSlot
         /\ Cardinality(m.used) = k /\ Cardinality(UsedSlots(m)) = k
PROOF
  <1>1. /\ k \in Nat /\ k <= MaxOther /\ NPages \in Nat /\ k + 9 <= NPages
        /\ TmpSlots \in Nat /\ k + 5 <= TmpSlots
    BY MemoryAssumption
  <1>2. /\ m.used = NPages - k + 1 .. NPages
        /\ m.rc = [f \in Frame |-> IF f > NPages - k THEN 1 ELSE 0]
        /\ m.tmp = [s \in Slot |-> IF s > TmpSlots - k THEN s + NPages - TmpSlots ELSE NoFrame]
        /\ m.tab = [t \in Tasks |-> [r \in Tables |-> NoSlot]]
        /\ m.map = [t \in Tasks |-> [va \in Va |-> NoFrame]]
        /\ m.cu = [t \in Tasks |-> 0] /\ m.ck = [t \in Tasks |-> 0]
    BY DEF KernelOnly
  <1>3. \A s \in Slot : m.tmp[s] = IF s > TmpSlots - k THEN s + NPages - TmpSlots ELSE NoFrame
    BY <1>2
  <1>4. \A s \in Slot : m.tmp[s] \in Frame \cup {NoFrame}
    BY <1>1, <1>3 DEF Slot, Frame
  <1>5. m \in MemType
    <2>1. m.tmp \in [Slot -> Frame \cup {NoFrame}]
      BY <1>2, <1>4
    <2>2. m.used \in SUBSET Frame
      BY <1>1, <1>2 DEF Frame
    <2>3. m.rc \in [Frame -> Int] /\ m.cu \in [Tasks -> Int] /\ m.ck \in [Tasks -> Int]
      BY <1>2
    <2>4. /\ m.tab \in [Tasks -> [Tables -> Slot \cup {NoSlot}]]
          /\ m.map \in [Tasks -> [Va -> Frame \cup {NoFrame}]]
      BY <1>2
    <2>5. m = [used |-> m.used, rc |-> m.rc, tmp |-> m.tmp, tab |-> m.tab, map |-> m.map,
               cu |-> m.cu, ck |-> m.ck]
      BY DEF KernelOnly
    <2> QED
      BY <2>1, <2>2, <2>3, <2>4, <2>5 DEF MemType
  <1>6. \A f \in Frame : MapsTo(m, f) = {} /\ SegOf(g, f) = {}
    BY <1>2, FiniteSets DEF MapsTo, SegOf
  <1>7. \A f \in Frame : TmpOf(m, f) = IF f > NPages - k THEN {f - NPages + TmpSlots} ELSE {}
    <2> TAKE f \in Frame
    <2>1. \A s \in Slot : m.tmp[s] = f <=> s > TmpSlots - k /\ s = f - NPages + TmpSlots
      BY <1>1, <1>3 DEF Slot, Frame, NoFrame
    <2>2. f > NPages - k => /\ f - NPages + TmpSlots \in Slot
                            /\ f - NPages + TmpSlots > TmpSlots - k
      BY <1>1 DEF Slot, Frame
    <2>3. \A s \in Slot : s > TmpSlots - k /\ s = f - NPages + TmpSlots => f > NPages - k
      BY <1>1 DEF Slot, Frame
    <2>4. CASE f > NPages - k
      BY <2>1, <2>2, <2>4 DEF TmpOf
    <2>5. CASE ~(f > NPages - k)
      BY <2>1, <2>3, <2>5 DEF TmpOf
    <2> QED
      BY <2>4, <2>5
  <1>8. Cardinality({}) = 0 /\ \A x : Cardinality({x}) = 1
    BY FS_EmptySet, FS_Singleton
  <1>9. RefExact(m, g, {})
    <2> SUFFICES ASSUME NEW f \in Frame
                 PROVE  /\ m.rc[f] = Cardinality(MapsTo(m, f)) + Cardinality(TmpOf(m, f))
                                     + Cardinality(SegOf(g, f))
                        /\ f \in m.used <=> Referenced(m, g, f)
      BY DEF RefExact
    <2>1. MapsTo(m, f) = {} /\ SegOf(g, f) = {}
      BY <1>6
    <2>2. CASE f > NPages - k
      <3>1. TmpOf(m, f) = {f - NPages + TmpSlots}
        BY <1>7, <2>2
      <3>2. m.rc[f] = 1 /\ f \in m.used
        BY <1>1, <1>2, <2>2 DEF Frame
      <3>3. Cardinality(TmpOf(m, f)) = 1
        BY <1>8, <3>1
      <3>4. Referenced(m, g, f)
        BY <3>1 DEF Referenced
      <3>5. Cardinality(MapsTo(m, f)) = 0 /\ Cardinality(SegOf(g, f)) = 0
        BY <1>8, <2>1
      <3> QED
        BY <3>2, <3>3, <3>4, <3>5
    <2>3. CASE ~(f > NPages - k)
      <3>1. TmpOf(m, f) = {}
        BY <1>7, <2>3
      <3>2. m.rc[f] = 0 /\ f \notin m.used
        BY <1>1, <1>2, <2>3 DEF Frame
      <3> QED
        BY <1>8, <2>1, <3>1, <3>2 DEF Referenced
    <2> QED
      BY <2>2, <2>3
  <1>10. /\ \A t \in Tasks, va \in Va : m.map[t][va] = NoFrame
         /\ \A t \in Tasks, r \in Tables : m.tab[t][r] = NoSlot
    BY <1>2
  <1>11. Counted(m)
    <2> SUFFICES ASSUME NEW t \in Tasks
                 PROVE  /\ m.cu[t] = Cardinality(Mapped(m, t, UserVa))
                        /\ m.ck[t] = Cardinality(Mapped(m, t, KStack))
                                     + Cardinality(SlotsOf(m, t, Tables))
      BY DEF Counted
    <2>1. Mapped(m, t, UserVa) = {} /\ Mapped(m, t, KStack) = {} /\ SlotsOf(m, t, Tables) = {}
      BY <1>10, Layout DEF Mapped, SlotsOf
    <2>2. m.cu[t] = 0 /\ m.ck[t] = 0
      BY <1>2
    <2> QED
      BY <1>8, <2>1, <2>2
  <1>12. TablesOwned(m)
    BY <1>10 DEF TablesOwned
  <1>13. g \in SegType /\ \A s \in Segs : g[s] = NoFrame
    BY DEF SegType
  <1>14. Exact(m, g, {})
    BY <1>5, <1>9, <1>11, <1>12, <1>13 DEF Exact
  <1>15. Separated(m, g)
    BY <1>10, <1>13 DEF Separated
  <1>16. Cardinality(m.used) = k
    <2>1. NPages - k + 1 \in Int /\ NPages \in Int
      BY <1>1
    <2> DEFINE a == NPages - k + 1
    <2>2. a \in Int /\ m.used = a .. NPages /\ NPages - a + 1 = k /\ ~(a > NPages + 1)
          /\ (a > NPages => k = 0)
      BY <1>1, <1>2
    <2> HIDE DEF a
    <2>3. Cardinality(a .. NPages) = IF a > NPages THEN 0 ELSE NPages - a + 1
      BY <2>1, <2>2, FS_Interval
    <2> QED
      BY <2>2, <2>3
  <1>17. Cardinality(UsedSlots(m)) = k
    <2> DEFINE a == TmpSlots - k + 1
    <2>1. a \in Int /\ TmpSlots \in Int /\ TmpSlots - a + 1 = k /\ (a > TmpSlots => k = 0)
      BY <1>1
    <2>2. UsedSlots(m) = a .. TmpSlots
      BY <1>1, <1>3 DEF UsedSlots, Slot, NoFrame
    <2> HIDE DEF a
    <2>3. Cardinality(a .. TmpSlots) = IF a > TmpSlots THEN 0 ELSE TmpSlots - a + 1
      BY <2>1, FS_Interval
    <2> QED
      BY <2>1, <2>2, <2>3
  <1> QED
    BY <1>10, <1>14, <1>15, <1>16, <1>17

\* A step of the construction: memory n of process 1, with P its pages, R its
\* tables, and at most a frames and b temporary pages besides those the heap has
Built(n, g, k, P, R, a, b) ==
  /\ Exact(n, g, {}) /\ Separated(n, g)
  /\ \A u \in Tasks, va \in Va : n.map[u][va] # NoFrame <=> u = 1 /\ va \in P
  /\ \A u \in Tasks, r \in Tables : n.tab[u][r] # NoSlot <=> u = 1 /\ r \in R
  /\ Cardinality(n.used) <= k + a /\ Cardinality(UsedSlots(n)) <= k + b

\* Building the first process: one more table
LEMMA BuildTable ==
  ASSUME NEW m, NEW g, NEW k \in Nat, NEW P, NEW R, NEW a \in Nat, NEW b \in Nat,
         Built(m, g, k, P, R, a, b), k + a + 1 <= NPages, k + b + 1 <= TmpSlots,
         NEW r \in Tables \ R, NEW n, n = pde_alloc(m, 1, r)
  PROVE  Built(n, g, k, P, R \cup {r}, a + 1, b + 1)
PROOF
  <1>1. /\ Exact(m, g, {}) /\ Separated(m, g) /\ m \in MemType /\ 1 \in Tasks
        /\ Cardinality(m.used) <= k + a /\ Cardinality(UsedSlots(m)) <= k + b
    BY MemoryAssumption DEF Built, Exact
  <1>2. Cardinality(m.used) \in Nat /\ Cardinality(UsedSlots(m)) \in Nat
    BY <1>1, Counts
  <1>3. TmpAvailable(m)
    BY <1>1, <1>2, Counts, MemoryAssumption DEF TmpAvailable
  <1>4. m.tab[1][r] = NoSlot
    BY <1>1 DEF Built
  <1>5. Exact(n, g, {}) /\ Separated(n, g) /\ n.map = m.map /\ TableGrown(m, n, 1, r)
    BY <1>1, <1>3, <1>4, PdeAllocSeparated
  <1>6. Takes(m, n, 1, 1)
    BY <1>1, <1>3, <1>4, PdeTakes
  <1>7. Cardinality(n.used) \in Nat /\ Cardinality(UsedSlots(n)) \in Nat
    BY <1>5, Counts DEF Exact
  <1>8. Cardinality(n.used) <= k + (a + 1) /\ Cardinality(UsedSlots(n)) <= k + (b + 1)
    BY <1>1, <1>2, <1>6, <1>7 DEF Takes
  <1>9. \A u \in Tasks, q \in Tables : n.tab[u][q] # NoSlot <=> u = 1 /\ q \in R \cup {r}
    BY <1>5 DEF Built, TableGrown
  <1>10. \A u \in Tasks, va \in Va : n.map[u][va] # NoFrame <=> u = 1 /\ va \in P
    BY <1>5 DEF Built
  <1> QED
    BY <1>5, <1>8, <1>9, <1>10 DEF Built

\* Building the first process: one more page
LEMMA BuildPage ==
  ASSUME NEW m, NEW g, NEW k \in Nat, NEW P, NEW R, NEW a \in Nat, NEW b \in Nat,
         Built(m, g, k, P, R, a, b), NEW va \in Va \ (ShmVa \cup P),
         \/ k + a + 2 <= NPages /\ k + b + 1 <= TmpSlots
         \/ k + a + 1 <= NPages /\ va[1] \in R,
         NEW n, n = page_alloc_insert(m, 1, va)
  PROVE  /\ Built(n, g, k, P \cup {va}, R \cup {va[1]}, a + 2, b + 1)
         /\ va[1] \in R => Built(n, g, k, P \cup {va}, R, a + 1, b)
PROOF
  <1>1. /\ Exact(m, g, {}) /\ Separated(m, g) /\ m \in MemType /\ 1 \in Tasks
        /\ Cardinality(m.used) <= k + a /\ Cardinality(UsedSlots(m)) <= k + b
        /\ \A u \in Tasks, w \in Va : m.map[u][w] # NoFrame <=> u = 1 /\ w \in P
        /\ \A u \in Tasks, q \in Tables : m.tab[u][q] # NoSlot <=> u = 1 /\ q \in R
    BY MemoryAssumption DEF Built, Exact
  <1>2. Cardinality(m.used) \in Nat /\ Cardinality(UsedSlots(m)) \in Nat
    BY <1>1, Counts
  <1>3. va[1] \in Tables /\ m.map[1][va] = NoFrame /\ va \in Va \ ShmVa
    BY <1>1, Layout
  <1>4. \/ Cardinality(m.used) + 2 <= NPages /\ Cardinality(UsedSlots(m)) + 1 <= TmpSlots
        \/ Cardinality(m.used) + 1 <= NPages /\ m.tab[1][va[1]] # NoSlot
    BY <1>1, <1>2, <1>3, MemoryAssumption
  <1>5. CanAlloc(m, 1, va)
    BY <1>1, <1>4, CanAllocRoom
  <1>6. /\ Exact(n, g, {}) /\ Separated(n, g) /\ PageAdded(m, n, 1, va)
        /\ UsedForPage(m, n, 1, va[1])
    BY <1>1, <1>3, <1>5, AllocPage
  <1>7. Takes(m, n, 2, 1) /\ (m.tab[1][va[1]] # NoSlot => Takes(m, n, 1, 0))
    BY <1>1, <1>6, PageTakes
  <1>8. Cardinality(n.used) \in Nat /\ Cardinality(UsedSlots(n)) \in Nat
    BY <1>6, Counts DEF Exact
  <1>9. Cardinality(n.used) <= k + (a + 2) /\ Cardinality(UsedSlots(n)) <= k + (b + 1)
    BY <1>1, <1>2, <1>7, <1>8 DEF Takes
  <1>10. va[1] \in R => Cardinality(n.used) <= k + (a + 1) /\ Cardinality(UsedSlots(n)) <= k + b
    BY <1>1, <1>2, <1>3, <1>7, <1>8 DEF Takes
  <1>11. \A u \in Tasks, w \in Va : n.map[u][w] # NoFrame <=> u = 1 /\ w \in P \cup {va}
    BY <1>1, <1>6, FiniteSets DEF PageAdded, MapDiffers
  <1>12. \A u \in Tasks, q \in Tables : n.tab[u][q] # NoSlot <=> u = 1 /\ q \in R \cup {va[1]}
    BY <1>1, <1>3, <1>6 DEF PageAdded, TableGrown
  <1>13. va[1] \in R => R \cup {va[1]} = R
    OBVIOUS
  <1>14. Built(n, g, k, P \cup {va}, R \cup {va[1]}, a + 2, b + 1)
    BY <1>6, <1>9, <1>11, <1>12 DEF Built
  <1>15. ASSUME va[1] \in R PROVE Built(n, g, k, P \cup {va}, R, a + 1, b)
    BY <1>6, <1>10, <1>11, <1>12, <1>13, <1>15 DEF Built
  <1> QED
    BY <1>14, <1>15

\* The first process has its program page, its stacks and nothing else.
LEMMA FirstProcessExact ==
  ASSUME NEW k \in 0 .. MaxOther, NEW g, g = [s \in Segs |-> NoFrame], NEW m, m = FirstProcess(k)
  PROVE  /\ Exact(m, g, {}) /\ Separated(m, g)
         /\ \A u \in Tasks, va \in Va :
              m.map[u][va] # NoFrame <=> u = 1 /\ va \in {Prog(0), Stack} \cup KStack
         /\ \A u \in Tasks, r \in Tables : u # 1 => m.tab[u][r] = NoSlot
PROOF
  <1> DEFINE k0 == <<"kstack", 0>>
             k1 == <<"kstack", 1>>
             e0 == KernelOnly(k)
             e1 == pde_alloc(e0, 1, "pgdir")
             e2 == pde_alloc(e1, 1, "pgtables")
             e3 == page_alloc_insert(e2, 1, k0)
             e4 == page_alloc_insert(e3, 1, k1)
             e5 == page_alloc_insert(e4, 1, Stack)
             e6 == page_alloc_insert(e5, 1, Prog(0))
  <1>1. m = e6
    BY DEF FirstProcess, KernelOnly, setup_vm
  <1>2. /\ k \in Nat /\ NPages \in Nat /\ k + 9 <= NPages
        /\ TmpSlots \in Nat /\ k + 5 <= TmpSlots
    BY MemoryAssumption
  <1>3. Built(e0, g, k, {}, {}, 0, 0)
    <2>1. /\ Exact(e0, g, {}) /\ Separated(e0, g)
          /\ \A t \in Tasks, va \in Va : e0.map[t][va] = NoFrame
          /\ \A t \in Tasks, r \in Tables : e0.tab[t][r] = NoSlot
          /\ Cardinality(e0.used) = k /\ Cardinality(UsedSlots(e0)) = k
      BY KernelOnlyExact
    <2> HIDE DEF e0
    <2> QED
      BY <1>2, <2>1 DEF Built
  <1>4. /\ k0 \in Va /\ k1 \in Va /\ k0 # k1 /\ KStack = {k0, k1} /\ k0[1] = "kstack" /\ k1[1] = "kstack"
        /\ Stack \in Va \ ShmVa /\ Prog(0) \in Va \ ShmVa /\ Prog(0) # Stack
        /\ k0 \notin ShmVa /\ k1 \notin ShmVa
        /\ Stack \notin {k0, k1} /\ Prog(0) \notin {k0, k1}
    <2>1. KStack = {k0, k1} /\ k0[1] = "kstack" /\ k1[1] = "kstack" /\ k0 # k1
      BY DEF KStack
    <2>2. 0 \in 0 .. MaxProgram + MaxHeap - 1
      BY MemoryAssumption
    <2> QED
      BY <2>1, <2>2, Layout
  <1>5. "pgdir" \in Tables \ {} /\ "pgtables" \in Tables \ {"pgdir"}
    BY DEF Tables
  <1> HIDE DEF e0, k0, k1
  <1>6. Built(e1, g, k, {}, {"pgdir"}, 1, 1)
    <2>1. k + 0 + 1 <= NPages /\ k + 0 + 1 <= TmpSlots /\ {} \cup {"pgdir"} = {"pgdir"} /\ 0 + 1 = 1
      BY <1>2
    <2>2. Built(e1, g, k, {}, {} \cup {"pgdir"}, 0 + 1, 0 + 1)
      BY <1>2, <1>3, <1>5, <2>1, BuildTable
    <2> QED
      BY <2>1, <2>2
  <1> HIDE DEF e1
  <1>7. Built(e2, g, k, {}, {"pgdir", "pgtables"}, 2, 2)
    <2>1. /\ k + 1 + 1 <= NPages /\ k + 1 + 1 <= TmpSlots /\ 1 + 1 = 2
          /\ {"pgdir"} \cup {"pgtables"} = {"pgdir", "pgtables"}
      BY <1>2
    <2>2. Built(e2, g, k, {}, {"pgdir"} \cup {"pgtables"}, 1 + 1, 1 + 1)
      BY <1>2, <1>5, <1>6, <2>1, BuildTable
    <2> QED
      BY <2>1, <2>2
  <1> HIDE DEF e2
  <1>8. PICK R3 : "kstack" \in R3 /\ Built(e3, g, k, {k0}, R3, 4, 3)
    <2> DEFINE R == {"pgdir", "pgtables"}
               R3 == R \cup {"kstack"}
    <2>1. /\ k + 2 + 2 <= NPages /\ k + 2 + 1 <= TmpSlots /\ 2 + 2 = 4 /\ 2 + 1 = 3
          /\ {} \cup {k0} = {k0} /\ k0 \in Va \ (ShmVa \cup {})
      BY <1>2, <1>4
    <2>2. Built(e2, g, k, {}, R, 2, 2)
      BY <1>7
    <2> HIDE DEF R
    <2>3. Built(e3, g, k, {} \cup {k0}, R \cup {k0[1]}, 2 + 2, 2 + 1)
      BY <1>2, <2>1, <2>2, BuildPage
    <2>4. Built(e3, g, k, {k0}, R3, 4, 3)
      BY <1>4, <2>1, <2>3
    <2> QED
      BY <2>4
  <1> HIDE DEF e3
  <1>9. Built(e4, g, k, KStack, R3, 5, 3)
    <2>1. /\ k + 4 + 1 <= NPages /\ 4 + 1 = 5 /\ 3 \in Nat /\ k1[1] \in R3
          /\ {k0} \cup {k1} = KStack /\ k1 \in Va \ (ShmVa \cup {k0})
      BY <1>2, <1>4, <1>8
    <2>2. k1[1] \in R3 => Built(e4, g, k, {k0} \cup {k1}, R3, 4 + 1, 3)
      BY <1>2, <1>8, <2>1, BuildPage
    <2> QED
      BY <2>1, <2>2
  <1> HIDE DEF e4
  <1>10. PICK R5 : Built(e5, g, k, KStack \cup {Stack}, R5, 7, 4)
    <2>1. /\ k + 5 + 2 <= NPages /\ k + 3 + 1 <= TmpSlots /\ 5 + 2 = 7 /\ 3 + 1 = 4
          /\ Stack \in Va \ (ShmVa \cup KStack)
      BY <1>2, <1>4
    <2>2. Built(e5, g, k, KStack \cup {Stack}, R3 \cup {Stack[1]}, 5 + 2, 3 + 1)
      BY <1>2, <1>9, <2>1, BuildPage
    <2> QED
      BY <2>1, <2>2
  <1> HIDE DEF e5
  <1>11. PICK R6 : Built(e6, g, k, (KStack \cup {Stack}) \cup {Prog(0)}, R6, 9, 5)
    <2> DEFINE P == KStack \cup {Stack}
               va == Prog(0)
    <2>1. /\ k + 7 + 2 <= NPages /\ k + 4 + 1 <= TmpSlots /\ 7 + 2 = 9 /\ 4 + 1 = 5
          /\ va \in Va \ (ShmVa \cup P)
      BY <1>2, <1>4
    <2>2. Built(e5, g, k, P, R5, 7, 4) /\ e6 = page_alloc_insert(e5, 1, va)
      BY <1>10
    <2> HIDE DEF P, va, e6
    <2>3. Built(e6, g, k, P \cup {va}, R5 \cup {va[1]}, 7 + 2, 4 + 1)
      BY <1>2, <2>1, <2>2, BuildPage
    <2>4. Built(e6, g, k, P \cup {va}, R5 \cup {va[1]}, 9, 5)
      BY <2>1, <2>3
    <2> QED
      BY <2>4 DEF P, va
  <1>12. (KStack \cup {Stack}) \cup {Prog(0)} = {Prog(0), Stack} \cup KStack
    OBVIOUS
  <1> QED
    BY <1>1, <1>11, <1>12 DEF Built

-----------------------------------------------------------------------------
(* setup_vm, and what is mapped after an operation.                        *)

\* setup_vm gives a child its page directory and its table of tables.
LEMMA SetupVm ==
  ASSUME NEW m, NEW g, Exact(m, g, {}), Separated(m, g), NEW c \in Tasks,
         TmpAvailable(m), TmpAvailable(tmp_page_alloc_map(m)),
         m.tab[c]["pgdir"] = NoSlot, m.tab[c]["pgtables"] = NoSlot,
         NEW n, n = setup_vm(m, c)
  PROVE  /\ Exact(n, g, {}) /\ Separated(n, g) /\ n.map = m.map /\ Local(m, n, g, c)
         /\ n.tab[c]["pgdir"] # NoSlot /\ n.tab[c]["pgtables"] # NoSlot
         /\ \A r \in Tables \ {"pgdir", "pgtables"} : n.tab[c][r] = m.tab[c][r]
PROOF
  <1> DEFINE e0 == tmp_page_alloc_map(m)
             e1 == pde_alloc(m, c, "pgdir")
             f == FirstFree(m)
             s == FirstSlot(m)
  <1>1. "pgdir" \in Tables /\ "pgtables" \in Tables
    BY DEF Tables
  <1>2. n = pde_alloc(e1, c, "pgtables")
    BY DEF setup_vm
  <1>3. TmpAllocated(m, e0, f, s)
    BY TmpAllocExact
  <1>4. TableAdded(m, e1, c, "pgdir", f, s)
    BY <1>1, PdeAllocExact
  <1>5. /\ Exact(e1, g, {}) /\ Separated(e1, g) /\ Local(m, e1, g, c)
        /\ e1.map = m.map /\ TableGrown(m, e1, c, "pgdir")
    BY <1>1, PdeAllocSeparated
  <1>6. TmpAvailable(e0)
    OBVIOUS
  <1> HIDE DEF e0, e1, f, s
  <1>7. e1.used = e0.used /\ \A z \in Slot : e1.tmp[z] = e0.tmp[z]
    BY <1>3, <1>4 DEF TmpAllocated, TableAdded, TmpDiffers
  <1>8. TmpAvailable(e1)
    BY <1>6, <1>7 DEF TmpAvailable, Free, FreeSlots
  <1>9. e1.tab[c]["pgtables"] = NoSlot
    BY <1>1, <1>5 DEF TableGrown
  <1>10. /\ Exact(n, g, {}) /\ Separated(n, g) /\ Local(e1, n, g, c)
         /\ n.map = e1.map /\ TableGrown(e1, n, c, "pgtables")
    BY <1>1, <1>2, <1>5, <1>8, <1>9, PdeAllocSeparated
  <1>11. Local(m, n, g, c)
    BY <1>5, <1>10 DEF Local
  <1>12. /\ n.tab[c]["pgdir"] # NoSlot /\ n.tab[c]["pgtables"] # NoSlot
         /\ \A r \in Tables \ {"pgdir", "pgtables"} : n.tab[c][r] = m.tab[c][r]
    BY <1>1, <1>5, <1>10 DEF TableGrown
  <1> QED
    BY <1>5, <1>10, <1>11, <1>12

\* A new page joins the mapped pages of its region.
LEMMA AddedMapped ==
  ASSUME NEW m, NEW n, NEW t \in Tasks, NEW va \in Va, PageAdded(m, n, t, va), NEW W \in SUBSET Va
  PROVE  /\ va \in W => Mapped(n, t, W) = Mapped(m, t, W) \cup {va}
         /\ va \notin W => Mapped(n, t, W) = Mapped(m, t, W)
PROOF
  <1>1. n.map[t][va] # NoFrame /\ \A w \in Va : w # va => n.map[t][w] = m.map[t][w]
    BY FiniteSets DEF PageAdded, MapDiffers
  <1> QED
    BY <1>1 DEF Mapped

\* Released pages leave the mapped pages of their region.
LEMMA ReleasedMapped ==
  ASSUME NEW m, NEW n, NEW t \in Tasks, NEW V, NEW R, Released(m, n, t, V, R), NEW W \in SUBSET Va
  PROVE  Mapped(n, t, W) = Mapped(m, t, W) \ V
PROOF
  <1>1. \A w \in Va : n.map[t][w] = IF w \in V THEN NoFrame ELSE m.map[t][w]
    BY DEF Released
  <1> QED
    BY <1>1 DEF Mapped

-----------------------------------------------------------------------------
(* The inductive invariant: the address spaces.                            *)

JobType == [op : {"idle", "fork_user", "fork_fs", "fork_kstack", "exec", "brk"},
            t : Nat, c : Nat, todo : SUBSET Va, was : Nat, segs : Seq(Nat \ {0}), heap : 0 .. 1]

ProgPages(n) == {Prog(i) : i \in 0 .. n - 1}
Forking == job.op \in {"fork_user", "fork_fs", "fork_kstack"}

\* the pages of t without the shared ones
Private(t) == Mapped(mm, t, Va \ ShmVa)

\* every attachment of t is mapped, at a page of its own
AttachedMapped(t) ==
  \A i \in 1 .. Len(attached[t]) :
    /\ seg[attached[t][i].seg] # NoFrame
    /\ mm.map[t][attached[t][i].va] = seg[attached[t][i].seg]
    /\ \A j \in 1 .. Len(attached[t]) : attached[t][j].va = attached[t][i].va => j = i

\* the end of the heap of t, also while brk moves it
HeapEnd(t) == IF job.op = "brk" /\ job.t = t THEN job.was ELSE end_brk[t]

\* half pages to pages, and the pages of the heap from a to b
HalfUp(b) == (b + 1) \div 2
Heap(t, a, b) == HeapPages(start_brk[t] + a, start_brk[t] + b)

\* The heap of t has n pages: up to its end, unless that is in the last page of
\* the address space.
HeapHas(t, n) ==
  /\ n \in 0 .. MaxHeap
  /\ \/ HeapEnd(t) = LastHalf(t)
     \/ HeapEnd(t) \in 0 .. 2 * MaxHeap /\ n = HalfUp(HeapEnd(t))
  /\ Private(t) = (ProgPages(count_program[t] + n) \cup {Stack} \cup KStack)
                  \ (IF job.op = "brk" /\ job.t = t THEN job.todo ELSE {})

UserShape(t) ==
  /\ AttachedMapped(t)
  /\ start_brk[t] = count_program[t] /\ start_brk[t] > 0 /\ count_stack[t] = 1
  /\ \E n : HeapHas(t, n)

\* a process that exec has left without a program, or not given one yet
FaultingShape(t) ==
  /\ attached[t] = <<>> /\ Mapped(mm, t, ShmVa) = {}
  /\ KStack \subseteq Private(t)

ZombieShape(t) ==
  /\ attached[t] = <<>> /\ Mapped(mm, t, UserVa) = {}
  /\ Private(t) = KStack
  /\ \A r \in UserRegions : mm.tab[t][r] = NoSlot

UnusedShape(t) ==
  /\ attached[t] = <<>> /\ Mapped(mm, t, Va) = {}
  /\ \A r \in Tables : mm.tab[t][r] = NoSlot

TaskShape(t) ==
  /\ tstate[t] = "user" => UserShape(t)
  /\ tstate[t] = "faulting" => FaultingShape(t)
  /\ tstate[t] = "zombie" => ZombieShape(t)
  /\ tstate[t] = "none" /\ ~(Forking /\ job.c = t) => UnusedShape(t)

Shapes == \A t \in Tasks : TaskShape(t)

\* fork from t to c: what c has, what is still to be copied, and the frames
\* that are free without c
ForkShape(t, c) ==
  /\ t \in Tasks /\ c \in Tasks /\ t # c
  /\ tstate[t] = "user" /\ tstate[c] = "none"
  /\ mm.tab[c]["pgdir"] # NoSlot /\ mm.tab[c]["pgtables"] # NoSlot
  /\ job.heap = 0 => job.was = Cardinality(Frame \ Others(mm, seg, c))
  /\ job.op \in {"fork_user", "fork_fs"} => job.heap = 0
  /\ job.op = "fork_fs" => job.todo = KStack
  /\ job.op = "fork_user" =>
       /\ attached[c] = <<>> /\ Mapped(mm, c, ShmVa \cup KStack) = {}
       /\ mm.tab[c]["shm"] = NoSlot /\ mm.tab[c]["kstack"] = NoSlot
       /\ Private(c) \cap job.todo = {}
       /\ Private(c) \cup job.todo = Private(t) \ KStack
  /\ job.op \in {"fork_fs", "fork_kstack"} =>
       /\ attached[c] = attached[t]
       /\ \A va \in ShmVa :
            mm.map[c][va] = IF attached[t] = <<>> THEN NoFrame ELSE mm.map[t][va]
       /\ job.todo \in {{}, {<<"kstack", 1>>}, KStack}
       /\ Private(c) = Private(t) \ job.todo

ExecShape(t) ==
  /\ t \in Tasks /\ tstate[t] = "faulting" /\ count_stack[t] = 1
  /\ job.segs # <<>> /\ Fits(count_program[t], job.segs)
  /\ job.todo \subseteq SegPages(count_program[t], Head(job.segs))
  /\ Private(t) = (ProgPages(count_program[t] + Head(job.segs)) \cup {Stack} \cup KStack)
                  \ job.todo

BrkShape(t) ==
  /\ t \in Tasks /\ tstate[t] = "user"
  /\ \/ job.was = LastHalf(t) /\ job.todo = {}
     \/ /\ job.was \in 0 .. 2 * MaxHeap /\ end_brk[t] \in 0 .. 2 * MaxHeap
        /\ end_brk[t] < job.was
        /\ job.todo \subseteq Heap(t, HalfUp(end_brk[t]), HalfUp(job.was))

JobShape ==
  /\ Forking => ForkShape(job.t, job.c)
  /\ job.op = "exec" => ExecShape(job.t)
  /\ job.op = "brk" => BrkShape(job.t)

\* TypeOK without the memory, whose type follows from its being exact
RestType ==
  /\ tstate \in [Tasks -> {"none", "user", "faulting", "zombie"}]
  /\ count_stack \in [Tasks -> 0 .. 1] /\ count_program \in [Tasks -> 0 .. MaxProgram]
  /\ start_brk \in [Tasks -> 0 .. MaxProgram]
  /\ end_brk \in [Tasks -> 0 .. 2 * AddrPages]
  /\ seg \in [Segs -> Frame \cup {NoFrame}] /\ seg_size \in [Segs -> {0} \cup SegSizes]
  /\ attached \in [Tasks -> Seq([va : ShmVa, seg : Segs])]
  /\ job \in JobType
  /\ panic \in {"none", "exit task 1", "do_fork", "task_free", "task_free_vm_user",
                "pde_free", "segment_alloc", "sys_brk"}

IndInv ==
  /\ RestType
  /\ Exact(mm, seg, {}) /\ Separated(mm, seg)
  /\ Running => Shapes /\ JobShape
  /\ AssertionsExplained

-----------------------------------------------------------------------------
(* Steps that leave a process alone.                                       *)

\* What a step does to process u when it is about another one
Kept(u) ==
  /\ \A va \in Va : mm'.map[u][va] = mm.map[u][va]
  /\ \A r \in Tables : mm'.tab[u][r] = mm.tab[u][r]
  /\ attached'[u] = attached[u] /\ tstate'[u] = tstate[u]
  /\ count_stack'[u] = count_stack[u] /\ count_program'[u] = count_program[u]
  /\ start_brk'[u] = start_brk[u] /\ end_brk'[u] = end_brk[u]
  /\ \A k \in Segs : seg[k] # NoFrame => seg'[k] = seg[k]
  /\ ~(job.op = "brk" /\ job.t = u) /\ ~(job'.op = "brk" /\ job'.t = u)
  /\ Forking /\ job.c = u => Forking' /\ job'.c = u

\* An attachment is a shared memory address and a segment.
LEMMA AttachedType ==
  ASSUME RestType, NEW u \in Tasks, NEW i \in 1 .. Len(attached[u])
  PROVE  /\ attached[u][i].va \in ShmVa /\ attached[u][i].va \in Va
         /\ attached[u][i].seg \in Segs
PROOF
  <1>1. attached[u] \in Seq([va : ShmVa, seg : Segs])
    BY DEF RestType
  <1>2. attached[u][i] \in [va : ShmVa, seg : Segs]
    BY <1>1, ElementOfSeq
  <1> QED
    BY <1>2, Layout

\* A step that leaves a task's pages and lists alone keeps its shape.
LEMMA KeptShape ==
  ASSUME RestType, NEW u \in Tasks, Kept(u), TaskShape(u)
  PROVE  TaskShape(u)'
PROOF
  <1>1. /\ \A va \in Va : mm'.map[u][va] = mm.map[u][va]
        /\ \A r \in Tables : mm'.tab[u][r] = mm.tab[u][r]
        /\ attached'[u] = attached[u] /\ tstate'[u] = tstate[u]
        /\ count_stack'[u] = count_stack[u] /\ count_program'[u] = count_program[u]
        /\ start_brk'[u] = start_brk[u] /\ end_brk'[u] = end_brk[u]
    BY DEF Kept
  <1>2. \A W \in SUBSET Va : Mapped(mm', u, W) = Mapped(mm, u, W)
    BY <1>1 DEF Mapped
  <1>3. Va \ ShmVa \in SUBSET Va /\ UserVa \in SUBSET Va /\ ShmVa \in SUBSET Va /\ Va \in SUBSET Va
        /\ UserRegions \subseteq Tables
    BY Layout
  <1>4. Private(u)' = Private(u)
    BY <1>2, <1>3 DEF Private
  <1>5. HeapEnd(u)' = HeapEnd(u)
    BY <1>1 DEF Kept, HeapEnd
  <1>6. AttachedMapped(u) => AttachedMapped(u)'
    <2> HAVE AttachedMapped(u)
    <2>2. \A i \in 1 .. Len(attached[u]) : attached[u][i].va \in Va /\ attached[u][i].seg \in Segs
      BY AttachedType
    <2>3. ASSUME NEW i \in 1 .. Len(attached[u])
          PROVE  /\ seg'[attached[u][i].seg] # NoFrame
                 /\ mm'.map[u][attached[u][i].va] = seg'[attached[u][i].seg]
                 /\ \A j \in 1 .. Len(attached[u]) : attached[u][j].va = attached[u][i].va => j = i
      <3>1. /\ seg[attached[u][i].seg] # NoFrame
            /\ mm.map[u][attached[u][i].va] = seg[attached[u][i].seg]
            /\ \A j \in 1 .. Len(attached[u]) : attached[u][j].va = attached[u][i].va => j = i
        BY DEF AttachedMapped
      <3>2. seg'[attached[u][i].seg] = seg[attached[u][i].seg]
        BY <2>2, <3>1 DEF Kept
      <3>3. mm'.map[u][attached[u][i].va] = mm.map[u][attached[u][i].va]
        BY <1>1, <2>2
      <3> QED
        BY <3>1, <3>2, <3>3
    <2> QED
      BY <1>1, <2>3 DEF AttachedMapped
  <1>7. ASSUME tstate[u] = "user" PROVE UserShape(u)'
    <2>1. UserShape(u)
      BY <1>7 DEF TaskShape
    <2>2. PICK n : HeapHas(u, n)
      BY <2>1 DEF UserShape
    <2>3. LastHalf(u)' = LastHalf(u)
      BY <1>1 DEF LastHalf
    <2>4. HeapHas(u, n)'
      BY <1>1, <1>4, <1>5, <2>2, <2>3 DEF HeapHas, Kept
    <2> QED
      BY <1>1, <1>6, <2>1, <2>4 DEF UserShape
  <1>8. ASSUME tstate[u] = "faulting" PROVE FaultingShape(u)'
    BY <1>1, <1>2, <1>3, <1>4, <1>8 DEF TaskShape, FaultingShape
  <1>9. ASSUME tstate[u] = "zombie" PROVE ZombieShape(u)'
    BY <1>1, <1>2, <1>3, <1>4, <1>9 DEF TaskShape, ZombieShape
  <1>10. ASSUME tstate[u] = "none", ~(Forking /\ job.c = u) PROVE UnusedShape(u)'
    BY <1>1, <1>2, <1>3, <1>10 DEF TaskShape, UnusedShape
  <1>11. ~(Forking /\ job.c = u)' => ~(Forking /\ job.c = u)
    BY DEF Kept
  <1> QED
    BY <1>1, <1>7, <1>8, <1>9, <1>10, <1>11 DEF TaskShape

\* No operation is under way.
LEMMA IdleJob ==
  ASSUME job' = Idle
  PROVE  job' \in JobType /\ JobShape' /\ ~Forking' /\ job'.op # "brk"
PROOF
  <1>1. <<>> \in Seq(Nat \ {0})
    BY EmptySeq
  <1>2. Idle \in JobType
    BY <1>1 DEF Idle, JobType
  <1>3. job'.op = "idle"
    BY DEF Idle
  <1> QED
    BY <1>2, <1>3 DEF JobShape, Forking

\* A step that fails no assertion explains itself.
LEMMA NoPanicExplained ==
  ASSUME panic' = "none"
  PROVE  AssertionsExplained'
PROOF
  <1> QED
    BY DEF AssertionsExplained

\* The pages copy_pages meets first
LEMMA NextPage ==
  ASSUME RestType, job.todo # {}
  PROVE  Next_va \in job.todo /\ Next_va \in Va /\ \A w \in job.todo : Rank(Next_va) <= Rank(w)
PROOF
  <1>1. job.todo \subseteq Va
    BY DEF RestType, JobType
  <1>2. \A va \in Va : Rank(va) \in Nat
    <2>1. \A i \in Nat : Rank(Prog(i)) \in Nat /\ Rank(Shm(i)) \in Nat
      BY DEF Rank, Prog, Shm
    <2>2. \A i \in 0 .. MaxProgram + MaxHeap - 1 : i \in Nat
      BY MemoryAssumption
    <2>3. \A i \in 0 .. MaxAttach - 1 : i \in Nat
      BY MemoryAssumption
    <2>4. Rank(Stack) \in Nat /\ Rank(StackBelow) \in Nat /\ \A va \in KStack : Rank(va) \in Nat
      BY DEF Rank, Stack, StackBelow, KStack
    <2> QED
      BY <2>1, <2>2, <2>3, <2>4 DEF Va, UserVa, ShmVa
  <1> DEFINE I == {Rank(va) : va \in job.todo}
  <1>3. I \in SUBSET Nat /\ I # {}
    BY <1>1, <1>2
  <1>4. \E x \in I : \A y \in I : x <= y
    BY <1>3, LeastNatural
  <1>5. \E va \in job.todo : \A w \in job.todo : Rank(va) <= Rank(w)
    BY <1>4
  <1> QED
    BY <1>1, <1>5 DEF Next_va

-----------------------------------------------------------------------------
(* fork.                                                                   *)

\* fork makes the page directory and the tables of the child.
LEMMA StepFork ==
  ASSUME IndInv, NEW t \in Tasks, fork(t)
  PROVE  IndInv'
PROOF
  <1> DEFINE None == {x \in Tasks : tstate[x] = "none"}
  <1>0. PICK c : c = Min(None)
    OBVIOUS
  <1>1. /\ panic = "none" /\ job.op = "idle" /\ tstate[t] = "user"
        /\ None # {}
        /\ TmpAvailable(mm) /\ TmpAvailable(tmp_page_alloc_map(mm))
        /\ mm' = setup_vm(mm, c)
        /\ job' = [op |-> "fork_user", t |-> t, c |-> c, was |-> Cardinality(Free(mm)),
                   segs |-> <<>>, todo |-> Mapped(mm, t, UserVa \ ShmVa), heap |-> 0]
        /\ UNCHANGED <<tstate, countVars, shmVars, panic>>
    BY <1>0 DEF fork, Ready, Running
  <1>2. c \in Tasks /\ tstate[c] = "none" /\ c # t /\ c \in Nat /\ t \in Nat
    <2>1. None \in SUBSET Nat
      BY MemoryAssumption
    <2>2. c \in None
      BY <1>0, <1>1, <2>1, MinInSet
    <2> QED
      BY <1>1, <2>2, MemoryAssumption
  <1> HIDE DEF None
  <1>3. RestType /\ Exact(mm, seg, {}) /\ Separated(mm, seg) /\ Shapes /\ ~Forking
    BY <1>1 DEF IndInv, Running, Forking
  <1>4. UnusedShape(c) /\ UserShape(t)
    BY <1>1, <1>2, <1>3 DEF Shapes, TaskShape
  <1>5. /\ attached[c] = <<>> /\ \A va \in Va : mm.map[c][va] = NoFrame
        /\ \A r \in Tables : mm.tab[c][r] = NoSlot
    BY <1>4 DEF UnusedShape, Mapped
  <1>6. /\ "pgdir" \in Tables /\ "pgtables" \in Tables
        /\ "shm" \in Tables \ {"pgdir", "pgtables"} /\ "kstack" \in Tables \ {"pgdir", "pgtables"}
    BY DEF Tables, UserRegions
  <1>7. /\ Exact(mm', seg, {}) /\ Separated(mm', seg) /\ mm'.map = mm.map /\ Local(mm, mm', seg, c)
        /\ mm'.tab[c]["pgdir"] # NoSlot /\ mm'.tab[c]["pgtables"] # NoSlot
        /\ \A r \in Tables \ {"pgdir", "pgtables"} : mm'.tab[c][r] = mm.tab[c][r]
    BY <1>1, <1>2, <1>3, <1>5, <1>6, SetupVm
  <1>8. /\ tstate' = tstate /\ count_stack' = count_stack /\ count_program' = count_program
        /\ start_brk' = start_brk /\ end_brk' = end_brk /\ seg' = seg /\ seg_size' = seg_size
        /\ attached' = attached /\ panic' = "none"
    BY <1>1 DEF countVars, shmVars
  <1>9. Frame \ Others(mm', seg, c) = Free(mm)
    <2>1. Frame \ Others(mm, seg, c) = Free(mm)
      BY <1>2, <1>3, <1>5, OthersAll
    <2> QED
      BY <1>7, <2>1 DEF Local
  <1>10. Cardinality(Free(mm)) \in Nat
    <2>1. Free(mm) \in SUBSET Frame
      BY DEF Free
    <2> QED
      BY <2>1, FiniteSets, FS_Subset, FS_CardinalityType
  <1>11. Mapped(mm, t, UserVa \ ShmVa) \in SUBSET Va
    BY Layout DEF Mapped
  <1>12. job' \in JobType /\ job'.op = "fork_user" /\ Forking' /\ job'.c = c /\ job'.t = t
         /\ job'.was = Cardinality(Free(mm)) /\ job'.todo = Mapped(mm, t, UserVa \ ShmVa)
         /\ job'.heap = 0
    <2>1. <<>> \in Seq(Nat \ {0}) /\ 0 \in 0 .. 1 /\ t \in Nat /\ c \in Nat
      BY <1>1, <1>2, EmptySeq, MemoryAssumption
    <2>2. PICK w, V : w = Cardinality(Free(mm)) /\ V = Mapped(mm, t, UserVa \ ShmVa)
      OBVIOUS
    <2>3. w \in Nat /\ V \in SUBSET Va
      BY <1>10, <1>11, <2>2
    <2>4. job' = [op |-> "fork_user", t |-> t, c |-> c, was |-> w, segs |-> <<>>, todo |-> V,
                  heap |-> 0]
      BY <1>1, <2>2
    <2>5. /\ job' \in JobType /\ job'.op = "fork_user" /\ job'.c = c /\ job'.t = t
          /\ job'.was = w /\ job'.todo = V /\ job'.heap = 0
      BY <2>1, <2>3, <2>4 DEF JobType
    <2> QED
      BY <2>2, <2>5 DEF Forking
  <1>13. RestType'
    BY <1>3, <1>8, <1>12 DEF RestType
  <1>14. Shapes'
    <2> SUFFICES ASSUME NEW u \in Tasks PROVE TaskShape(u)'
      BY DEF Shapes
    <2>1. CASE u = c
      BY <1>2, <1>8, <1>12, <2>1 DEF TaskShape
    <2>2. CASE u # c
      <3>1. Kept(u)
        BY <1>1, <1>3, <1>7, <1>8, <1>12, <2>2 DEF Kept, Local
      <3> QED
        BY <1>3, <3>1, KeptShape DEF Shapes
    <2> QED
      BY <2>1, <2>2
  <1>15. ForkShape(t, c)'
    <2>1. \A u \in Tasks : \A W : Mapped(mm', u, W) = Mapped(mm, u, W)
      BY <1>7 DEF Mapped
    <2>2. Mapped(mm, c, ShmVa \cup KStack) = {} /\ Mapped(mm, c, Va \ ShmVa) = {}
      BY <1>5, Layout DEF Mapped
    <2>3. Mapped(mm, t, UserVa \ ShmVa) = Mapped(mm, t, Va \ ShmVa) \ KStack
      BY Layout DEF Mapped
    <2>4. /\ Private(c)' = {} /\ Private(t)' = Mapped(mm, t, Va \ ShmVa)
          /\ Mapped(mm', c, ShmVa \cup KStack) = {}
      BY <1>2, <2>1, <2>2 DEF Private
    <2>5. mm'.tab[c]["shm"] = NoSlot /\ mm'.tab[c]["kstack"] = NoSlot
      BY <1>5, <1>6, <1>7
    <2>6. job'.was = Cardinality(Frame \ Others(mm', seg', c))
      BY <1>8, <1>9, <1>12
    <2> QED
      BY <1>1, <1>2, <1>5, <1>7, <1>8, <1>12, <2>3, <2>4, <2>5, <2>6 DEF ForkShape
  <1>16. JobShape'
    BY <1>12, <1>15 DEF JobShape
  <1>17. AssertionsExplained'
    BY <1>8, NoPanicExplained
  <1> QED
    BY <1>7, <1>8, <1>13, <1>14, <1>16, <1>17 DEF IndInv

\* The error path of do_fork gives back all that the child had.
LEMMA BadFork ==
  ASSUME IndInv, Running, job.op \in {"fork_user", "fork_kstack"},
         job.op = "fork_kstack" => job.todo # {}, bad_fork,
         UNCHANGED <<tstate, countVars, seg, seg_size>>
  PROVE  IndInv'
PROOF
  <1>0. PICK c, t : c = job.c /\ t = job.t
    OBVIOUS
  <1> DEFINE k0 == <<"kstack", 0>>
             V1 == IF job.op = "fork_kstack" THEN {k0} ELSE {}
             R1 == IF job.op = "fork_kstack" THEN {"kstack"} ELSE {}
             m1 == IF job.op = "fork_kstack" THEN bad_fork_kernel_stack(mm, c) ELSE mm
             m2 == task_free_vm_user(m1, c)
             m3 == bad_fork_vm(m1, c)
  <1>1. /\ RestType /\ Exact(mm, seg, {}) /\ Separated(mm, seg) /\ Shapes
        /\ ForkShape(t, c) /\ panic = "none" /\ Forking
    BY <1>0 DEF IndInv, Running, JobShape, Forking
  <1>2. c \in Tasks /\ t \in Tasks /\ t # c /\ tstate[c] = "none" /\ tstate[t] = "user"
        /\ (job.heap = 0 => job.was = Cardinality(Frame \ Others(mm, seg, c)))
        /\ (job.op = "fork_user" => job.heap = 0) /\ job \in JobType
    BY <1>0, <1>1 DEF ForkShape, RestType
  <1>3. \/ SoleOwner(m1, c) /\ mm' = m3 /\ attached' = [attached EXCEPT ![c] = <<>>]
           /\ IF Cardinality(Free(m3)) = job.was /\ m3.cu[c] = 0 /\ m3.ck[c] = 0
              THEN job' = Idle /\ panic' = "none" ELSE panic' = "do_fork" /\ job' = job
        \/ /\ ~SoleOwner(m1, c) /\ panic' = "task_free_vm_user"
           /\ mm' = mm /\ attached' = attached /\ job' = job
    BY <1>0, <1>1 DEF bad_fork
  <1>4. /\ tstate' = tstate /\ count_stack' = count_stack /\ count_program' = count_program
        /\ start_brk' = start_brk /\ end_brk' = end_brk /\ seg' = seg /\ seg_size' = seg_size
    BY DEF countVars
  <1>5. job' = Idle => job' \in JobType /\ JobShape' /\ ~Forking' /\ job'.op # "brk"
    BY IdleJob
  <1>6. /\ k0 \in KStack /\ V1 \in SUBSET Va /\ R1 \in SUBSET Tables
        /\ V1 \subseteq KStack /\ R1 \subseteq {"kstack"}
    BY Layout DEF KStack, Tables
  <1>7. /\ Exact(m1, seg, {}) /\ Separated(m1, seg)
        /\ Released(mm, m1, c, V1, R1) /\ Local(mm, m1, seg, c)
    <2>1. CASE job.op = "fork_kstack"
      <3>1. m1 = Release(mm, c, V1, R1)
        BY <2>1 DEF bad_fork_kernel_stack
      <3> HIDE DEF m1, V1, R1
      <3> QED
        BY <1>1, <1>2, <1>6, <3>1, ReleaseExact
    <2>2. CASE job.op # "fork_kstack"
      BY <1>1, <2>2 DEF Released, Local
    <2> QED
      BY <2>1, <2>2
  <1>8. UserVa \in SUBSET Va /\ UserRegions \in SUBSET Tables
        /\ {} \in SUBSET Va /\ {"pgdir", "pgtables"} \in SUBSET Tables
    BY Layout DEF Tables
  <1>9. m2 = Release(m1, c, UserVa, UserRegions) /\ m3 = Release(m2, c, {}, {"pgdir", "pgtables"})
    BY DEF task_free_vm_user, bad_fork_vm
  <1>10. c = job.c /\ t = job.t
    BY <1>0
  <1> HIDE DEF m1, m2, m3, V1, R1, k0
  <1>11. CASE ~SoleOwner(m1, c)
    <2>1. panic' = "task_free_vm_user" /\ mm' = mm /\ attached' = attached /\ job' = job
      BY <1>3, <1>11
    <2>2. Mapped(m1, c, ShmVa) # {}
      BY <1>2, <1>7, <1>11, Sole
    <2>3. ShmVa \in SUBSET Va
      BY Layout
    <2>4. Mapped(mm, c, ShmVa) # {}
      BY <1>2, <1>7, <2>2, <2>3, ReleasedMapped
    <2>5. AssertionsExplained'
      BY <1>2, <2>1, <2>4 DEF AssertionsExplained
    <2>6. RestType'
      BY <1>1, <1>4, <2>1 DEF RestType
    <2>7. ~Running'
      BY <2>1 DEF Running
    <2> QED
      BY <1>1, <1>4, <2>1, <2>5, <2>6, <2>7 DEF IndInv
  <1>12. CASE SoleOwner(m1, c)
    <2>1. mm' = m3 /\ attached' = [attached EXCEPT ![c] = <<>>]
          /\ IF Cardinality(Free(m3)) = job.was /\ m3.cu[c] = 0 /\ m3.ck[c] = 0
             THEN job' = Idle /\ panic' = "none" ELSE panic' = "do_fork" /\ job' = job
      BY <1>3, <1>12
    <2>2. /\ Exact(m2, seg, {}) /\ Separated(m2, seg)
          /\ Released(m1, m2, c, UserVa, UserRegions) /\ Local(m1, m2, seg, c)
      BY <1>2, <1>7, <1>8, <1>9, ReleaseExact
    <2>3. /\ Exact(m3, seg, {}) /\ Separated(m3, seg)
          /\ Released(m2, m3, c, {}, {"pgdir", "pgtables"}) /\ Local(m2, m3, seg, c)
      BY <1>2, <1>8, <1>9, <2>2, ReleaseExact
    <2>4. Local(mm, m3, seg, c)
      BY <1>7, <2>2, <2>3 DEF Local
    <2>5. \A va \in Va : m3.map[c][va] = NoFrame
      <3> TAKE va \in Va
      <3>1. m3.map[c][va] = IF va \in UserVa \/ va \in V1 THEN NoFrame ELSE mm.map[c][va]
        BY <1>2, <1>7, <2>2, <2>3 DEF Released
      <3>2. ASSUME va \in KStack, va \notin V1 PROVE mm.map[c][va] = NoFrame
        <4>1. CASE job.op = "fork_user"
          <5>1. Mapped(mm, c, ShmVa \cup KStack) = {}
            BY <1>1, <4>1 DEF ForkShape
          <5> QED
            BY <3>2, <5>1 DEF Mapped
        <4>2. CASE job.op = "fork_kstack"
          <5>1. va = <<"kstack", 1>>
            BY <3>2, <4>2 DEF KStack, V1, k0
          <5>2. va \in job.todo
            BY <1>1, <4>2, <5>1 DEF ForkShape, KStack
          <5>3. va \notin Private(c)
            BY <1>1, <4>2, <5>2 DEF ForkShape
          <5> QED
            BY <3>2, <5>3, Layout DEF Private, Mapped
        <4> QED
          BY <4>1, <4>2
      <3> QED
        BY <3>1, <3>2, Layout
    <2>6. \A r \in Tables : m3.tab[c][r] = NoSlot
      <3> TAKE r \in Tables
      <3>1. m3.tab[c][r] = IF r \in UserRegions \/ r \in {"pgdir", "pgtables"} \/ r \in R1
                           THEN NoSlot ELSE mm.tab[c][r]
        BY <1>2, <1>7, <2>2, <2>3 DEF Released
      <3>2. r \in UserRegions \/ r \in {"pgdir", "pgtables"} \/ r = "kstack"
        BY DEF Tables
      <3>3. job.op = "fork_user" => mm.tab[c]["kstack"] = NoSlot
        BY <1>1 DEF ForkShape
      <3>4. job.op = "fork_kstack" => "kstack" \in R1
        BY DEF R1
      <3> QED
        BY <3>1, <3>2, <3>3, <3>4
    <2>7. Frame \ Others(m3, seg, c) = Free(m3) /\ m3.cu[c] = 0 /\ m3.ck[c] = 0
      BY <1>2, <2>3, <2>5, <2>6, OthersAll
    <2>8. job.heap = 0 => Cardinality(Free(m3)) = job.was
      BY <1>2, <2>4, <2>7 DEF Local
    <2>9. attached'[c] = <<>> /\ (\A u \in Tasks : u # c => attached'[u] = attached[u])
          /\ attached' \in [Tasks -> Seq([va : ShmVa, seg : Segs])]
      <3>1. <<>> \in Seq([va : ShmVa, seg : Segs])
        BY EmptySeq
      <3> QED
        BY <1>1, <1>2, <2>1, <3>1 DEF RestType
    <2>10. CASE panic' = "do_fork" /\ job' = job
      <3>1. job.heap # 0
        BY <2>1, <2>7, <2>8, <2>10
      <3>2. job.op = "fork_kstack" /\ job.heap = 1
        BY <1>2, <3>1 DEF JobType
      <3>3. AssertionsExplained'
        BY <2>10, <3>2 DEF AssertionsExplained
      <3>4. RestType'
        BY <1>1, <1>4, <2>9, <2>10 DEF RestType
      <3>5. ~Running'
        BY <2>10 DEF Running
      <3> QED
        BY <1>4, <2>1, <2>3, <3>3, <3>4, <3>5 DEF IndInv
    <2>11. CASE panic' = "none" /\ job' = Idle
      <3>0. job' \in JobType /\ JobShape' /\ ~Forking' /\ job'.op # "brk"
        BY <1>5, <2>11
      <3>1. RestType'
        BY <1>1, <1>4, <2>9, <2>11, <3>0 DEF RestType
      <3>2. Shapes'
        <4> SUFFICES ASSUME NEW u \in Tasks PROVE TaskShape(u)'
          BY DEF Shapes
        <4>1. CASE u = c
          <5>1. UnusedShape(c)'
            BY <2>1, <2>5, <2>6, <2>9 DEF UnusedShape, Mapped
          <5> QED
            BY <1>2, <1>4, <4>1, <5>1 DEF TaskShape
        <4>2. CASE u # c
          <5>1. Kept(u)
            BY <1>1, <1>4, <1>10, <2>1, <2>4, <2>9, <3>0, <4>2 DEF Kept, Local, Forking
          <5> QED
            BY <1>1, <5>1, KeptShape DEF Shapes
        <4> QED
          BY <4>1, <4>2
      <3>3. AssertionsExplained'
        BY <2>11, NoPanicExplained
      <3> QED
        BY <1>4, <2>1, <2>3, <3>0, <3>1, <3>2, <3>3 DEF IndInv
    <2> QED
      BY <2>1, <2>10, <2>11
  <1> QED
    BY <1>11, <1>12

\* A step about process t alone keeps the shapes of the others.
LEMMA ShapesExcept ==
  ASSUME RestType, Shapes, NEW t \in Tasks, \A u \in Tasks : u # t => Kept(u), TaskShape(t)'
  PROVE  Shapes'
PROOF
  <1> SUFFICES ASSUME NEW u \in Tasks PROVE TaskShape(u)'
    BY DEF Shapes
  <1>1. CASE u = t
    BY <1>1
  <1>2. CASE u # t
    BY <1>2, KeptShape DEF Shapes
  <1> QED
    BY <1>1, <1>2

\* A step of a job that leaves its kind, its processes and its frames alone
LEMMA JobTodo ==
  ASSUME job \in JobType, NEW x, job' = [job EXCEPT !.todo = @ \ {x}]
  PROVE  /\ job' \in JobType /\ job'.op = job.op /\ job'.t = job.t /\ job'.c = job.c
         /\ job'.was = job.was /\ job'.segs = job.segs /\ job'.todo = job.todo \ {x}
         /\ job'.heap = job.heap /\ Forking' = Forking
PROOF
  <1> DEFINE w == job.todo \ {x}
  <1>1. w \in SUBSET Va /\ job' = [job EXCEPT !.todo = w]
    BY DEF JobType
  <1>2. job'.todo = w
    BY <1>1 DEF JobType
  <1> HIDE DEF w
  <1>3. /\ job' \in JobType /\ job'.op = job.op /\ job'.t = job.t /\ job'.c = job.c
        /\ job'.was = job.was /\ job'.segs = job.segs /\ job'.heap = job.heap
    BY <1>1 DEF JobType
  <1> QED
    BY <1>2, <1>3 DEF Forking, w

\* The page that copy_pages meets next: it is not shared, and not yet copied.
LEMMA ForkNext ==
  ASSUME IndInv, Running, job.op \in {"fork_user", "fork_kstack"}, job.todo # {},
         NEW va, va = Next_va
  PROVE  /\ va \in job.todo /\ va \in Va \ ShmVa /\ mm.map[job.c][va] = NoFrame
         /\ job.op = "fork_user" => va \in UserVa \ ShmVa
         /\ job.op = "fork_kstack" =>
              va \in KStack /\ job.todo \ {va} \in {{}, {<<"kstack", 1>>}, KStack}
PROOF
  <1> DEFINE c == job.c
             t == job.t
             k0 == <<"kstack", 0>>
             k1 == <<"kstack", 1>>
  <1>1. RestType /\ ForkShape(t, c) /\ c \in Tasks
    BY DEF IndInv, JobShape, ForkShape, Forking
  <1>2. va \in job.todo /\ va \in Va /\ \A w \in job.todo : Rank(va) <= Rank(w)
    BY <1>1, NextPage
  <1>3. CASE job.op = "fork_user"
    <2>1. va \notin Private(c) /\ va \in Private(t) \ KStack
      BY <1>1, <1>2, <1>3 DEF ForkShape
    <2>2. va \in Va \ ShmVa /\ va \notin KStack
      BY <2>1 DEF Private, Mapped
    <2>3. mm.map[c][va] = NoFrame
      BY <2>1, <2>2 DEF Private, Mapped
    <2> QED
      BY <1>2, <1>3, <2>2, <2>3, Layout
  <1>4. CASE job.op = "fork_kstack"
    <2>1. job.todo \in {{}, {k1}, KStack} /\ va \notin Private(c)
      BY <1>1, <1>2, <1>4 DEF ForkShape
    <2>2. va \in KStack /\ va \in Va \ ShmVa
      BY <1>2, <2>1, Layout DEF KStack
    <2>3. mm.map[c][va] = NoFrame
      BY <2>1, <2>2 DEF Private, Mapped
    <2>4. Rank(k0) = 100 /\ Rank(k1) = 101
      BY DEF Rank
    <2>5. KStack = {k0, k1} /\ k0 # k1
      BY DEF KStack
    <2>6. job.todo \ {va} \in {{}, {k1}}
      <3>1. CASE job.todo = {k1}
        BY <1>2, <3>1
      <3>2. CASE job.todo = KStack
        <4>1. va # k1
          BY <1>2, <2>4, <2>5, <3>2
        <4> QED
          BY <1>2, <2>5, <3>2, <4>1
      <3> QED
        BY <1>2, <2>1, <3>1, <3>2
    <2> QED
      BY <1>2, <1>4, <2>2, <2>3, <2>6
  <1> QED
    BY <1>3, <1>4

\* fork copies one page of the parent, or runs out of memory and undoes all.
LEMMA StepForkCopy ==
  ASSUME IndInv, fork_copy
  PROVE  IndInv'
PROOF
  <1>0. PICK c, t, va : c = job.c /\ t = job.t /\ va = Next_va
    OBVIOUS
  <1>1. /\ Running /\ Forking /\ job.todo # {} /\ job.op \in {"fork_user", "fork_kstack"}
        /\ UNCHANGED <<tstate, countVars, seg, seg_size>>
    BY DEF fork_copy, Forking
  <1>2. CASE ~CanCopy(mm, job.c, Next_va)
    BY <1>1, <1>2, BadFork DEF fork_copy
  <1>3. CASE CanCopy(mm, c, va)
    <2>1. mm' = copy_page(mm, c, va) /\ job' = [job EXCEPT !.todo = @ \ {va}]
          /\ attached' = attached /\ panic' = panic
      BY <1>0, <1>3 DEF fork_copy
    <2>2. /\ RestType /\ Exact(mm, seg, {}) /\ Separated(mm, seg) /\ Shapes
          /\ ForkShape(t, c) /\ panic = "none" /\ job \in JobType
      BY <1>0, <1>1 DEF IndInv, Running, JobShape, RestType
    <2>3. c \in Tasks /\ t \in Tasks /\ t # c /\ tstate[c] = "none" /\ tstate[t] = "user"
      BY <2>2 DEF ForkShape
    <2>4. /\ va \in job.todo /\ va \in Va \ ShmVa /\ mm.map[c][va] = NoFrame
          /\ job.op = "fork_user" => va \in UserVa \ ShmVa
          /\ job.op = "fork_kstack" =>
               va \in KStack /\ job.todo \ {va} \in {{}, {<<"kstack", 1>>}, KStack}
      BY <1>0, <1>1, ForkNext
    <2>5. /\ Exact(mm', seg, {}) /\ Separated(mm', seg)
          /\ PageAdded(mm, mm', c, va) /\ Local(mm, mm', seg, c)
      BY <1>3, <2>1, <2>2, <2>3, <2>4, CopyPage
    <2>6. /\ tstate' = tstate /\ count_stack' = count_stack /\ count_program' = count_program
          /\ start_brk' = start_brk /\ end_brk' = end_brk /\ seg' = seg /\ seg_size' = seg_size
          /\ attached' = attached /\ panic' = "none"
      BY <1>1, <2>1, <2>2 DEF countVars
    <2>7. /\ job' \in JobType /\ job'.op = job.op /\ job'.t = t /\ job'.c = c
          /\ job'.was = job.was /\ job'.todo = job.todo \ {va} /\ job'.heap = job.heap /\ Forking'
      BY <1>0, <1>1, <2>1, <2>2, JobTodo
    <2>8. RestType'
      BY <2>2, <2>6, <2>7 DEF RestType
    <2>9. Shapes'
      <3>1. TaskShape(c)'
        BY <2>3, <2>6, <2>7 DEF TaskShape
      <3>2. ASSUME NEW u \in Tasks, u # c PROVE Kept(u)
        BY <1>0, <1>1, <2>5, <2>6, <2>7, <3>2 DEF Kept, Local, Forking
      <3> QED
        BY <2>2, <2>3, <3>1, <3>2, ShapesExcept
    <2>10. /\ Private(c)' = Private(c) \cup {va} /\ Private(t)' = Private(t)
           /\ Mapped(mm', c, ShmVa) = Mapped(mm, c, ShmVa)
           /\ \A w \in ShmVa : mm'.map[c][w] = mm.map[c][w] /\ mm'.map[t][w] = mm.map[t][w]
      <3>1. Va \ ShmVa \in SUBSET Va /\ ShmVa \in SUBSET Va /\ va \in Va /\ va \notin ShmVa
        BY <2>4, Layout
      <3>2. Mapped(mm', c, Va \ ShmVa) = Mapped(mm, c, Va \ ShmVa) \cup {va}
        BY <2>3, <2>4, <2>5, <3>1, AddedMapped
      <3>3. Mapped(mm', c, ShmVa) = Mapped(mm, c, ShmVa)
        BY <2>3, <2>5, <3>1, AddedMapped
      <3>4. \A w \in Va : mm'.map[t][w] = mm.map[t][w]
        BY <2>3, <2>5 DEF Local
      <3>5. Mapped(mm', t, Va \ ShmVa) = Mapped(mm, t, Va \ ShmVa)
        BY <3>4 DEF Mapped
      <3>6. \A w \in ShmVa : mm'.map[c][w] = mm.map[c][w]
        BY <2>3, <2>5, <3>1 DEF PageAdded, MapDiffers
      <3> QED
        BY <3>1, <3>2, <3>3, <3>4, <3>5, <3>6 DEF Private
    <2>11. /\ mm'.tab[c]["pgdir"] # NoSlot /\ mm'.tab[c]["pgtables"] # NoSlot
           /\ job'.heap = 0 => job'.was = Cardinality(Frame \ Others(mm', seg', c))
           /\ job'.op = "fork_user" => job'.heap = 0
      <3>1. mm.tab[c]["pgdir"] # NoSlot /\ mm.tab[c]["pgtables"] # NoSlot
            /\ (job.heap = 0 => job.was = Cardinality(Frame \ Others(mm, seg, c)))
            /\ (job.op = "fork_user" => job.heap = 0)
        BY <2>2 DEF ForkShape
      <3>2. "pgdir" \in Tables /\ "pgtables" \in Tables
        BY DEF Tables
      <3>3. \A r \in Tables : mm.tab[c][r] # NoSlot => mm'.tab[c][r] # NoSlot
        BY <2>3, <2>5 DEF PageAdded, TableGrown
      <3> QED
        BY <2>5, <2>6, <2>7, <3>1, <3>2, <3>3 DEF Local
    <2>12. ASSUME job'.op = "fork_user"
           PROVE  /\ attached'[c] = <<>> /\ Mapped(mm', c, ShmVa \cup KStack) = {}
                  /\ mm'.tab[c]["shm"] = NoSlot /\ mm'.tab[c]["kstack"] = NoSlot
                  /\ Private(c)' \cap job'.todo = {}
                  /\ Private(c)' \cup job'.todo = Private(t)' \ KStack
      <3>1. /\ attached[c] = <<>> /\ Mapped(mm, c, ShmVa \cup KStack) = {}
            /\ mm.tab[c]["shm"] = NoSlot /\ mm.tab[c]["kstack"] = NoSlot
            /\ Private(c) \cap job.todo = {}
            /\ Private(c) \cup job.todo = Private(t) \ KStack
            /\ va \in UserVa \ ShmVa
        BY <2>2, <2>4, <2>7, <2>12 DEF ForkShape
      <3>2. ShmVa \cup KStack \in SUBSET Va /\ va \notin ShmVa \cup KStack /\ va \in Va
            /\ va[1] # "shm" /\ va[1] # "kstack" /\ "shm" \in Tables /\ "kstack" \in Tables
        BY <3>1, Layout DEF Tables, UserRegions
      <3>3. Mapped(mm', c, ShmVa \cup KStack) = Mapped(mm, c, ShmVa \cup KStack)
        BY <2>3, <2>5, <3>2, AddedMapped
      <3>4. mm'.tab[c]["shm"] = NoSlot /\ mm'.tab[c]["kstack"] = NoSlot
        BY <2>3, <2>5, <3>1, <3>2 DEF PageAdded, TableGrown
      <3> QED
        BY <2>4, <2>6, <2>7, <2>10, <3>1, <3>3, <3>4
    <2>13. ASSUME job'.op = "fork_kstack"
           PROVE  /\ attached'[c] = attached'[t]
                  /\ \A w \in ShmVa :
                       mm'.map[c][w] = IF attached'[t] = <<>> THEN NoFrame ELSE mm'.map[t][w]
                  /\ job'.todo \in {{}, {<<"kstack", 1>>}, KStack}
                  /\ Private(c)' = Private(t)' \ job'.todo
      <3>1. /\ attached[c] = attached[t]
            /\ \A w \in ShmVa :
                 mm.map[c][w] = IF attached[t] = <<>> THEN NoFrame ELSE mm.map[t][w]
            /\ Private(c) = Private(t) \ job.todo
        BY <2>2, <2>7, <2>13 DEF ForkShape
      <3>2. UserShape(t)
        BY <2>2, <2>3 DEF Shapes, TaskShape
      <3>3. job.op = "fork_kstack"
        BY <2>7, <2>13
      <3>4. KStack \subseteq Private(t)
        BY <3>2, <3>3 DEF UserShape, HeapHas
      <3>5. va \in Private(t)
        BY <2>4, <3>3, <3>4
      <3> QED
        BY <2>4, <2>6, <2>7, <2>10, <3>1, <3>3, <3>5
    <2>14. ForkShape(t, c)'
      BY <1>1, <2>3, <2>6, <2>7, <2>11, <2>12, <2>13 DEF ForkShape
    <2>15. JobShape'
      BY <2>7, <2>14 DEF JobShape, Forking
    <2>16. AssertionsExplained'
      BY <2>6, NoPanicExplained
    <2> QED
      BY <2>5, <2>6, <2>8, <2>9, <2>15, <2>16 DEF IndInv
  <1> QED
    BY <1>0, <1>2, <1>3

\* shm_fork links pages of segments where the child has none.
Forked(m, n, c, t, V) ==
  /\ \A va \in Va : n.map[c][va] = IF va \in V THEN m.map[t][va] ELSE m.map[c][va]
  /\ \A r \in Tables : r # "shm" => n.tab[c][r] = m.tab[c][r]

\* The child shares the parent's attached pages, each with one more reference.
LEMMA ShmFork ==
  ASSUME IndInv, Running, job.op = "fork_user", NEW c, c = job.c, NEW t, t = job.t,
         NEW V, V = IF attached[t] = <<>> THEN {} ELSE Mapped(mm, t, ShmVa),
         V = {} \/ TmpAvailable(mm), NEW n,
         n = IF V = {} THEN mm ELSE link(pde_alloc(mm, c, "shm"), c, V, mm.map[t])
  PROVE  /\ Exact(n, seg, {}) /\ Separated(n, seg) /\ Local(mm, n, seg, c)
         /\ Forked(mm, n, c, t, V)
PROOF
  <1>1. Exact(mm, seg, {}) /\ Separated(mm, seg) /\ ForkShape(t, c)
    BY DEF IndInv, JobShape, Forking
  <1>2. /\ c \in Tasks /\ t \in Tasks /\ mm.tab[c]["shm"] = NoSlot
        /\ Mapped(mm, c, ShmVa \cup KStack) = {} /\ "shm" \in Tables
    BY <1>1 DEF ForkShape, Tables, UserRegions
  <1>3. CASE V = {}
    <2>1. n = mm
      BY <1>3, SMTT(30)
    <2> QED
      BY <1>1, <1>3, <2>1 DEF Local, Forked
  <1>4. CASE V # {}
    <2> DEFINE m1 == pde_alloc(mm, c, "shm")
               src == mm.map[t]
    <2>1. n = link(m1, c, V, src) /\ TmpAvailable(mm)
      BY <1>4
    <2>2. V \in SUBSET ShmVa /\ \A va \in V : va \in Va /\ mm.map[t][va] # NoFrame
      BY Layout DEF Mapped
    <2>3. m1 = pde_alloc(mm, c, "shm") /\ src = mm.map[t]
      OBVIOUS
    <2> HIDE DEF m1, src
    <2>4. /\ Exact(m1, seg, {}) /\ Separated(m1, seg) /\ Local(mm, m1, seg, c)
          /\ m1.map = mm.map /\ TableGrown(mm, m1, c, "shm")
      BY <1>1, <1>2, <2>1, <2>3, PdeAllocSeparated
    <2>5. \A va \in V : m1.map[c][va] = NoFrame
      BY <1>2, <2>2, <2>4 DEF Mapped
    <2>6. Linkable(m1, seg, c, V, src)
      <3> SUFFICES ASSUME NEW va \in V
                   PROVE  /\ m1.map[c][va] = NoFrame
                          /\ src[va] \in Frame /\ SegOf(seg, src[va]) # {}
        BY DEF Linkable
      <3>1. mm.map[t][va] \in Frame \cup {NoFrame}
        BY <1>1, <1>2, <2>2 DEF Exact, MemType
      <3>2. SegOf(seg, mm.map[t][va]) # {}
        BY <1>1, <1>2, <2>2 DEF Separated
      <3> QED
        BY <2>2, <2>3, <2>5, <3>1, <3>2
    <2>7. /\ Exact(n, seg, {}) /\ Separated(n, seg) /\ Local(m1, n, seg, c)
          /\ Linked(m1, n, c, V, src)
      BY <1>2, <2>1, <2>2, <2>4, <2>6, LinkExact, SMTT(30)
    <2>8. Local(mm, n, seg, c)
      BY <2>4, <2>7 DEF Local
    <2>9. \A r \in Tables : r # "shm" => n.tab[c][r] = mm.tab[c][r]
      BY <1>2, <2>4, <2>7 DEF TableGrown, Linked
    <2>10. \A va \in Va : n.map[c][va] = IF va \in V THEN mm.map[t][va] ELSE mm.map[c][va]
      BY <1>2, <2>3, <2>4, <2>7 DEF Linked
    <2> QED
      BY <2>7, <2>8, <2>9, <2>10 DEF Forked
  <1> QED
    BY <1>3, <1>4

\* fork attaches the shared memory of the parent to the child.
LEMMA StepForkShm ==
  ASSUME IndInv, fork_shm
  PROVE  IndInv'
PROOF
  <1>0. PICK c, t, V : /\ c = job.c /\ t = job.t
                       /\ V = IF attached[t] = <<>> THEN {} ELSE Mapped(mm, t, ShmVa)
    OBVIOUS
  <1>1. /\ Running /\ Forking /\ job.op = "fork_user" /\ job.todo = {}
        /\ UNCHANGED <<tstate, countVars, seg, seg_size>>
    BY DEF fork_shm, Forking
  <1>2. /\ RestType /\ Exact(mm, seg, {}) /\ Separated(mm, seg) /\ Shapes
        /\ ForkShape(t, c) /\ panic = "none" /\ job \in JobType
    BY <1>0, <1>1 DEF IndInv, Running, JobShape, RestType
  <1>3. /\ c \in Tasks /\ t \in Tasks /\ t # c /\ tstate[c] = "none" /\ tstate[t] = "user"
        /\ mm.tab[c]["pgdir"] # NoSlot /\ mm.tab[c]["pgtables"] # NoSlot
        /\ job.was = Cardinality(Frame \ Others(mm, seg, c)) /\ job.heap = 0
        /\ attached[c] = <<>> /\ Mapped(mm, c, ShmVa \cup KStack) = {}
        /\ Private(c) \cup job.todo = Private(t) \ KStack
    BY <1>0, <1>1, <1>2 DEF ForkShape
  <1>4. /\ tstate' = tstate /\ count_stack' = count_stack /\ count_program' = count_program
        /\ start_brk' = start_brk /\ end_brk' = end_brk /\ seg' = seg /\ seg_size' = seg_size
    BY <1>1 DEF countVars
  <1>5. CASE ~(V = {} \/ TmpAvailable(mm))
    <2>1. panic' = "pde_free" /\ job' = Idle /\ mm' = mm /\ attached' = attached
      BY <1>0, <1>5 DEF fork_shm
    <2>2. Mapped(mm', t, ShmVa) # {}
      BY <1>0, <1>5, <2>1
    <2>3. AssertionsExplained'
      BY <1>3, <2>1, <2>2 DEF AssertionsExplained
    <2>4. job' \in JobType
      BY <2>1, IdleJob
    <2>5. RestType'
      BY <1>2, <1>4, <2>1, <2>4 DEF RestType
    <2>6. ~Running'
      BY <2>1 DEF Running
    <2> QED
      BY <1>2, <1>4, <2>1, <2>3, <2>5, <2>6 DEF IndInv
  <1>6. CASE V = {} \/ TmpAvailable(mm)
    <2>1. /\ mm' = IF V = {} THEN mm ELSE link(pde_alloc(mm, c, "shm"), c, V, mm.map[t])
          /\ attached' = [attached EXCEPT ![c] = attached[t]]
          /\ job' = [job EXCEPT !.op = "fork_fs", !.todo = KStack]
          /\ panic' = "none"
      BY <1>0, <1>2, <1>6 DEF fork_shm
    <2>2. /\ Exact(mm', seg, {}) /\ Separated(mm', seg) /\ Local(mm, mm', seg, c)
          /\ \A va \in Va : mm'.map[c][va] = IF va \in V THEN mm.map[t][va] ELSE mm.map[c][va]
          /\ \A r \in Tables : r # "shm" => mm'.tab[c][r] = mm.tab[c][r]
      <3>1. PICK n : n = mm'
        OBVIOUS
      <3>2. /\ Exact(n, seg, {}) /\ Separated(n, seg) /\ Local(mm, n, seg, c)
            /\ Forked(mm, n, c, t, V)
        BY <1>0, <1>1, <1>6, <2>1, <3>1, ShmFork
      <3> QED
        BY <3>1, <3>2 DEF Forked
    <2>3. /\ attached' \in [Tasks -> Seq([va : ShmVa, seg : Segs])]
          /\ attached'[c] = attached[t] /\ \A u \in Tasks : u # c => attached'[u] = attached[u]
      BY <1>2, <1>3, <2>1 DEF RestType
    <2>4. KStack \in SUBSET Va /\ ShmVa \subseteq Va
      BY Layout
    <2>5. /\ job' \in JobType /\ job'.op = "fork_fs" /\ job'.t = t /\ job'.c = c
          /\ job'.was = job.was /\ job'.todo = KStack /\ job'.heap = job.heap /\ Forking'
      BY <1>0, <1>2, <2>1, <2>4 DEF JobType, Forking
    <2>6. RestType'
      BY <1>2, <1>4, <2>1, <2>3, <2>5 DEF RestType
    <2>7. Shapes'
      <3>1. TaskShape(c)'
        BY <1>3, <1>4, <2>5 DEF TaskShape
      <3>2. ASSUME NEW u \in Tasks, u # c PROVE Kept(u)
        BY <1>0, <1>1, <1>4, <2>2, <2>3, <2>5, <3>2 DEF Kept, Local, Forking
      <3> QED
        BY <1>2, <1>3, <3>1, <3>2, ShapesExcept
    <2>8. V \subseteq ShmVa
      BY <1>0 DEF Mapped
    <2>9. /\ Private(c)' = Private(c) /\ Private(t)' = Private(t)
      <3>1. \A va \in Va \ ShmVa : /\ mm'.map[c][va] = mm.map[c][va]
                                   /\ mm'.map[t][va] = mm.map[t][va]
        BY <1>3, <2>2, <2>8 DEF Local
      <3> QED
        BY <3>1 DEF Private, Mapped
    <2>10. \A va \in ShmVa :
             mm'.map[c][va] = IF attached'[t] = <<>> THEN NoFrame ELSE mm'.map[t][va]
      <3> TAKE va \in ShmVa
      <3>1. va \in Va /\ mm.map[c][va] = NoFrame
        BY <1>3, <2>4 DEF Mapped
      <3>2. mm'.map[t][va] = mm.map[t][va] /\ attached'[t] = attached[t]
        BY <1>3, <2>2, <2>3, <3>1 DEF Local
      <3>3. mm'.map[c][va] = IF va \in V THEN mm.map[t][va] ELSE NoFrame
        BY <2>2, <3>1
      <3>4. va \in V <=> attached[t] # <<>> /\ mm.map[t][va] # NoFrame
        BY <1>0 DEF Mapped
      <3> QED
        BY <3>2, <3>3, <3>4
    <2>11. /\ mm'.tab[c]["pgdir"] # NoSlot /\ mm'.tab[c]["pgtables"] # NoSlot
           /\ job'.was = Cardinality(Frame \ Others(mm', seg', c))
      BY <1>3, <1>4, <2>2, <2>5 DEF Local, Tables
    <2>12. ForkShape(t, c)'
      BY <1>1, <1>3, <1>4, <2>3, <2>5, <2>9, <2>10, <2>11 DEF ForkShape
    <2>13. JobShape'
      BY <2>5, <2>12 DEF JobShape
    <2>14. AssertionsExplained'
      BY <2>1, NoPanicExplained
    <2> QED
      BY <1>4, <2>2, <2>6, <2>7, <2>13, <2>14 DEF IndInv
  <1> QED
    BY <1>5, <1>6

\* A page more for the kernel heap changes nothing of the processes.
LEMMA HeapFrame ==
  ASSUME NEW m, NEW g, Exact(m, g, {}), Separated(m, g), TmpAvailable(m),
         NEW n, n = tmp_page_alloc_map(m)
  PROVE  Exact(n, g, {}) /\ Separated(n, g) /\ n.map = m.map /\ n.tab = m.tab
PROOF
  <1>1. PICK f, s : f = FirstFree(m) /\ s = FirstSlot(m)
    OBVIOUS
  <1>2. Exact(n, g, {}) /\ TmpAllocated(m, n, f, s)
    BY <1>1, TmpAllocExact
  <1>3. Shrunk(m, n)
    BY <1>2 DEF Shrunk, TmpAllocated, TmpDiffers
  <1>4. Separated(n, g)
    BY <1>3, SeparatedShrunk
  <1> QED
    BY <1>2, <1>4 DEF TmpAllocated

\* fork duplicates the open files, with or without a page for the kernel heap.
LEMMA StepForkFs ==
  ASSUME IndInv, NEW pages \in 0 .. 1, fork_fs(pages)
  PROVE  IndInv'
PROOF
  <1>0. PICK c, t : c = job.c /\ t = job.t
    OBVIOUS
  <1>1. /\ Running /\ Forking /\ job.op = "fork_fs" /\ (pages = 1 => TmpAvailable(mm))
        /\ mm' = IF pages = 1 THEN tmp_page_alloc_map(mm) ELSE mm
        /\ job' = [job EXCEPT !.op = "fork_kstack", !.heap = pages]
        /\ UNCHANGED <<tstate, countVars, shmVars, panic>>
    BY DEF fork_fs, Forking
  <1>2. /\ RestType /\ Exact(mm, seg, {}) /\ Separated(mm, seg) /\ Shapes
        /\ ForkShape(t, c) /\ panic = "none" /\ job \in JobType
    BY <1>0, <1>1 DEF IndInv, Running, JobShape, RestType
  <1>3. /\ c \in Tasks /\ t \in Tasks /\ t # c /\ tstate[c] = "none" /\ tstate[t] = "user"
        /\ mm.tab[c]["pgdir"] # NoSlot /\ mm.tab[c]["pgtables"] # NoSlot
        /\ job.was = Cardinality(Frame \ Others(mm, seg, c))
        /\ job.todo = KStack /\ attached[c] = attached[t]
        /\ \A va \in ShmVa :
             mm.map[c][va] = IF attached[t] = <<>> THEN NoFrame ELSE mm.map[t][va]
        /\ Private(c) = Private(t) \ job.todo
    BY <1>1, <1>2 DEF ForkShape
  <1>4. /\ tstate' = tstate /\ count_stack' = count_stack /\ count_program' = count_program
        /\ start_brk' = start_brk /\ end_brk' = end_brk /\ seg' = seg /\ seg_size' = seg_size
        /\ attached' = attached /\ panic' = "none"
    BY <1>1, <1>2 DEF countVars, shmVars
  <1>5. /\ Exact(mm', seg, {}) /\ Separated(mm', seg) /\ mm'.map = mm.map /\ mm'.tab = mm.tab
        /\ (pages = 0 => mm' = mm)
    <2>1. CASE pages = 1
      BY <1>1, <1>2, <2>1, HeapFrame
    <2>2. CASE pages = 0
      BY <1>1, <1>2, <2>2
    <2> QED
      BY <2>1, <2>2
  <1>6. /\ job' \in JobType /\ job'.op = "fork_kstack" /\ job'.t = t /\ job'.c = c
        /\ job'.was = job.was /\ job'.todo = KStack /\ job'.heap = pages /\ Forking'
    BY <1>0, <1>1, <1>2, <1>3 DEF JobType, Forking
  <1>7. RestType'
    BY <1>2, <1>4, <1>6 DEF RestType
  <1>8. Shapes'
    <2>1. TaskShape(c)'
      BY <1>3, <1>4, <1>6 DEF TaskShape
    <2>2. ASSUME NEW u \in Tasks, u # c PROVE Kept(u)
      BY <1>0, <1>1, <1>4, <1>5, <1>6, <2>2 DEF Kept, Forking
    <2> QED
      BY <1>2, <1>3, <2>1, <2>2, ShapesExcept
  <1>9. ForkShape(t, c)'
    <2>1. Private(c)' = Private(c) /\ Private(t)' = Private(t)
      BY <1>5 DEF Private, Mapped
    <2>2. pages = 0 => job'.was = Cardinality(Frame \ Others(mm', seg', c))
      BY <1>3, <1>4, <1>5, <1>6
    <2> QED
      BY <1>3, <1>4, <1>5, <1>6, <2>1, <2>2 DEF ForkShape
  <1>10. JobShape'
    BY <1>6, <1>9 DEF JobShape
  <1>11. AssertionsExplained'
    BY <1>4, NoPanicExplained
  <1> QED
    BY <1>4, <1>5, <1>7, <1>8, <1>10, <1>11 DEF IndInv

\* fork ends: the child runs with the parent's counts.
LEMMA StepForkEnd ==
  ASSUME IndInv, fork_end
  PROVE  IndInv'
PROOF
  <1>0. PICK c, t : c = job.c /\ t = job.t
    OBVIOUS
  <1>1. /\ Running /\ Forking /\ job.op = "fork_kstack" /\ job.todo = {}
        /\ tstate' = [tstate EXCEPT ![c] = "user"]
        /\ count_stack' = [count_stack EXCEPT ![c] = count_stack[t]]
        /\ count_program' = [count_program EXCEPT ![c] = count_program[t]]
        /\ start_brk' = [start_brk EXCEPT ![c] = start_brk[t]]
        /\ end_brk' = [end_brk EXCEPT ![c] = end_brk[t]]
        /\ job' = Idle
        /\ mm' = mm /\ seg' = seg /\ seg_size' = seg_size /\ attached' = attached /\ panic' = panic
    BY <1>0 DEF fork_end, Forking, shmVars
  <1>2. /\ RestType /\ Exact(mm, seg, {}) /\ Separated(mm, seg) /\ Shapes
        /\ ForkShape(t, c) /\ panic = "none" /\ job \in JobType
    BY <1>0, <1>1 DEF IndInv, Running, JobShape, RestType
  <1>3. /\ c \in Tasks /\ t \in Tasks /\ t # c /\ tstate[c] = "none" /\ tstate[t] = "user"
        /\ attached[c] = attached[t]
        /\ \A va \in ShmVa :
             mm.map[c][va] = IF attached[t] = <<>> THEN NoFrame ELSE mm.map[t][va]
        /\ Private(c) = Private(t)
    BY <1>1, <1>2 DEF ForkShape
  <1>4. UserShape(t)
    BY <1>2, <1>3 DEF Shapes, TaskShape
  <1>5. job' \in JobType /\ JobShape' /\ ~Forking' /\ job'.op # "brk"
    BY <1>1, IdleJob
  <1>6. RestType'
    BY <1>1, <1>2, <1>3, <1>5 DEF RestType
  <1>7. /\ tstate'[c] = "user" /\ count_stack'[c] = count_stack[t]
        /\ count_program'[c] = count_program[t] /\ start_brk'[c] = start_brk[t]
        /\ end_brk'[c] = end_brk[t]
    BY <1>1, <1>2, <1>3 DEF RestType
  <1>8. UserShape(c)'
    <2>1. AttachedMapped(c)'
      <3>1. AttachedMapped(t)
        BY <1>4 DEF UserShape
      <3>2. ASSUME NEW i \in 1 .. Len(attached[t])
            PROVE  mm.map[c][attached[t][i].va] = mm.map[t][attached[t][i].va]
        <4>1. attached[t][i].va \in ShmVa
          BY <1>2, <1>3, AttachedType
        <4>2. attached[t] # <<>>
          OBVIOUS
        <4> QED
          BY <1>3, <4>1, <4>2
      <3> QED
        BY <1>1, <1>3, <3>1, <3>2 DEF AttachedMapped
    <2>2. HeapEnd(c)' = HeapEnd(t)
      BY <1>1, <1>5, <1>7 DEF HeapEnd
    <2>3. Private(c)' = Private(t)
      BY <1>1, <1>3 DEF Private
    <2>4. PICK n : HeapHas(t, n)
      BY <1>4 DEF UserShape
    <2>5. LastHalf(c)' = LastHalf(t)
      BY <1>7 DEF LastHalf
    <2>6. HeapHas(c, n)'
      BY <1>1, <1>5, <1>7, <2>2, <2>3, <2>4, <2>5 DEF HeapHas
    <2> QED
      BY <1>1, <1>4, <1>7, <2>1, <2>6 DEF UserShape
  <1>9. Shapes'
    <2>1. TaskShape(c)'
      BY <1>7, <1>8 DEF TaskShape
    <2>2. ASSUME NEW u \in Tasks, u # c PROVE Kept(u)
      BY <1>0, <1>1, <1>2, <1>3, <1>5, <2>2 DEF Kept, RestType
    <2> QED
      BY <1>2, <1>3, <2>1, <2>2, ShapesExcept
  <1>10. panic' = "none"
    BY <1>1, <1>2
  <1>11. AssertionsExplained'
    BY <1>10, NoPanicExplained
  <1> QED
    BY <1>1, <1>2, <1>5, <1>6, <1>9, <1>11 DEF IndInv

\* The numbers that are kept of a process, and what they bound
LEMMA TaskNumbers ==
  ASSUME RestType, NEW t \in Tasks
  PROVE  /\ count_program[t] \in 0 .. MaxProgram /\ count_program[t] \in Nat
         /\ start_brk[t] \in 0 .. MaxProgram /\ start_brk[t] \in Nat
         /\ end_brk[t] \in 0 .. 2 * AddrPages /\ end_brk[t] \in Nat
         /\ MaxProgram \in Nat /\ MaxHeap \in Nat
         /\ AddrPages \in Nat /\ AddrPages > 2 * MaxProgram + 2 * MaxHeap
PROOF
  <1>1. /\ count_program[t] \in 0 .. MaxProgram /\ start_brk[t] \in 0 .. MaxProgram
        /\ end_brk[t] \in 0 .. 2 * AddrPages
    BY DEF RestType
  <1>2. /\ MaxProgram \in Nat /\ MaxHeap \in Nat
        /\ AddrPages \in Nat /\ AddrPages > 2 * MaxProgram + 2 * MaxHeap
    BY MemoryAssumption
  <1> QED
    BY <1>1, <1>2

\* Half pages: the heap fits, and a higher end of the heap is not a smaller heap.
LEMMA RoundUp ==
  /\ \A b \in 0 .. 2 * MaxHeap : HalfUp(b) \in 0 .. MaxHeap /\ HalfUp(b) \in Nat
  /\ \A a, b \in Nat : a <= b => HalfUp(a) <= HalfUp(b)
PROOF
  <1>1. MaxHeap \in Nat
    BY MemoryAssumption
  <1> QED
    BY <1>1 DEF HalfUp

\* roundUp of an address of the heap is a page behind the program; that of an
\* address in the last page is 0.
LEMMA HeapAddress ==
  ASSUME RestType, NEW t \in Tasks, start_brk[t] > 0
  PROVE  /\ \A b \in 0 .. 2 * MaxHeap : roundUp(t, b) = start_brk[t] + HalfUp(b)
         /\ roundUp(t, LastHalf(t)) = 0
         /\ LastHalf(t) \in Nat /\ LastHalf(t) \in 0 .. 2 * AddrPages
         /\ LastHalf(t) > 2 * MaxHeap
         /\ end_brk[t] = LastHalf(t) => Wrapped(t)
         /\ end_brk[t] \in 0 .. 2 * MaxHeap => ~Wrapped(t)
PROOF
  <1> DEFINE s == start_brk[t]
  <1>1. /\ s \in Nat /\ s > 0 /\ s <= MaxProgram /\ MaxProgram \in Nat /\ MaxHeap \in Nat
        /\ AddrPages \in Nat /\ AddrPages > 2 * MaxProgram + 2 * MaxHeap
    BY TaskNumbers
  <1>2. ASSUME NEW b \in 0 .. 2 * MaxHeap PROVE roundUp(t, b) = s + HalfUp(b)
    <2>1. HalfUp(b) \in 0 .. MaxHeap
      BY RoundUp
    <2>2. s + HalfUp(b) \in Nat /\ s + HalfUp(b) < AddrPages
      BY <1>1, <2>1
    <2>3. \A x \in Nat : x < AddrPages => x % AddrPages = x
      BY <1>1
    <2> QED
      BY <2>2, <2>3 DEF roundUp, HalfUp
  <1>3. LastHalf(t) = 2 * (AddrPages - s) - 1
    BY DEF LastHalf
  <1>4. LastHalf(t) \in Nat /\ LastHalf(t) \in 0 .. 2 * AddrPages /\ LastHalf(t) > 2 * MaxHeap
    BY <1>1, <1>3
  <1>5. roundUp(t, LastHalf(t)) = 0
    <2>1. (LastHalf(t) + 1) \div 2 = AddrPages - s
      BY <1>1, <1>3
    <2>2. s + (AddrPages - s) = AddrPages
      BY <1>1
    <2>3. AddrPages % AddrPages = 0
      BY <1>1
    <2> QED
      BY <2>1, <2>2, <2>3 DEF roundUp
  <1>6. end_brk[t] = LastHalf(t) => Wrapped(t)
    BY <1>1, <1>5 DEF Wrapped
  <1>7. ASSUME end_brk[t] \in 0 .. 2 * MaxHeap PROVE ~Wrapped(t)
    <2>1. HalfUp(end_brk[t]) \in Nat
      BY <1>7, RoundUp
    <2>2. roundUp(t, end_brk[t]) = s + HalfUp(end_brk[t])
      BY <1>2, <1>7
    <2> QED
      BY <1>1, <2>1, <2>2 DEF Wrapped
  <1> QED
    BY <1>2, <1>4, <1>5, <1>6, <1>7

\* The page below address 0 is the last one.
LEMMA PageBelowZero ==
  ASSUME NEW n \in Nat, n > 0
  PROVE  (0 - 1) % n = n - 1
PROOF
  <1>1. n - 1 \in 0 .. n - 1
    OBVIOUS
  <1>2. 0 - 1 = n * (0 - 1) + (n - 1)
    OBVIOUS
  <1> QED
    BY <1>1, <1>2

\* a step that leaves the numbers alone
LEMMA SameNumbers ==
  ASSUME start_brk' = start_brk, NEW t
  PROVE  /\ LastHalf(t)' = LastHalf(t)
         /\ \A a, b : Heap(t, a, b)' = Heap(t, a, b)
         /\ end_brk' = end_brk => Wrapped(t)' = Wrapped(t)
PROOF
  <1>1. LastHalf(t)' = LastHalf(t)
    BY DEF LastHalf
  <1>2. \A a, b : Heap(t, a, b)' = Heap(t, a, b)
    BY DEF Heap, HeapPages
  <1>3. end_brk' = end_brk => Wrapped(t)' = Wrapped(t)
    BY DEF Wrapped, roundUp
  <1> QED
    BY <1>1, <1>2, <1>3

-----------------------------------------------------------------------------
(* exit, and the faults that end in it.                                    *)

\* the pages that task_free takes for those of the heap
CountBrk(t) == (roundUp(t, end_brk[t]) - start_brk[t]) % AddrPages

\* A program of n pages has n pages.
LEMMA ProgPagesCount ==
  ASSUME NEW n \in Nat
  PROVE  IsFiniteSet(ProgPages(n)) /\ Cardinality(ProgPages(n)) = n
PROOF
  <1> DEFINE f == [i \in 0 .. n - 1 |-> Prog(i)]
             S == {f[i] : i \in 0 .. n - 1}
  <1>1. f = [i \in 0 .. n - 1 |-> f[i]] /\ \A i \in 0 .. n - 1 : f[i] = Prog(i)
    OBVIOUS
  <1>2. ProgPages(n) = S
    BY <1>1 DEF ProgPages
  <1>3. \A i, j \in 0 .. n - 1 : f[i] = f[j] => i = j
    BY <1>1, Layout
  <1>4. S = {f[i] : i \in 0 .. n - 1} /\ n \in Int /\ n >= 0
    OBVIOUS
  <1> HIDE DEF f, S
  <1> QED
    BY <1>1, <1>2, <1>3, <1>4, IntervalImage

\* What a whole process counts: its program, its heap and its stack, unless
\* its brk has wrapped
LEMMA UserPages ==
  ASSUME RestType, NEW t \in Tasks, UserShape(t), job.op # "brk"
  PROVE  /\ IsFiniteSet(Mapped(mm, t, UserVa \ ShmVa))
         /\ count_stack[t] = 1 /\ KStack \subseteq Private(t)
         /\ ~Wrapped(t) =>
              /\ Cardinality(Mapped(mm, t, UserVa \ ShmVa)) = 1 + count_program[t] + CountBrk(t)
              /\ CountBrk(t) \in Nat
PROOF
  <1>1. PICK k : HeapHas(t, k)
    BY DEF UserShape
  <1> DEFINE n == count_program[t] + k
  <1>2. /\ Private(t) = ProgPages(n) \cup {Stack} \cup KStack /\ count_stack[t] = 1
        /\ k \in 0 .. MaxHeap /\ start_brk[t] > 0
        /\ \/ end_brk[t] = LastHalf(t)
           \/ end_brk[t] \in 0 .. 2 * MaxHeap /\ k = HalfUp(end_brk[t])
    BY <1>1 DEF UserShape, HeapHas, HeapEnd
  <1>3. n \in Nat /\ k \in Nat /\ count_program[t] \in Nat
    BY <1>2, TaskNumbers
  <1>4. ASSUME ~Wrapped(t) PROVE CountBrk(t) = k
    <2>1. end_brk[t] \in 0 .. 2 * MaxHeap /\ k = HalfUp(end_brk[t])
      BY <1>2, <1>4, HeapAddress
    <2>2. roundUp(t, end_brk[t]) = start_brk[t] + k
      BY <1>2, <2>1, HeapAddress
    <2>3. /\ start_brk[t] \in Nat /\ AddrPages \in Nat /\ k < AddrPages
      <3>1. /\ start_brk[t] \in Nat /\ MaxProgram \in Nat /\ MaxHeap \in Nat
            /\ AddrPages \in Nat /\ AddrPages > 2 * MaxProgram + 2 * MaxHeap
        BY TaskNumbers
      <3> QED
        BY <1>2, <3>1
    <2>4. (start_brk[t] + k) - start_brk[t] = k
      BY <1>3, <2>3
    <2>5. k % AddrPages = k
      BY <1>3, <2>3
    <2> QED
      BY <2>2, <2>4, <2>5 DEF CountBrk
  <1>5. 1 + count_program[t] + k = n + 1
    BY <1>3
  <1> HIDE DEF n
  <1>6. Mapped(mm, t, UserVa \ ShmVa) = Private(t) \ KStack
    BY Layout DEF Private, Mapped
  <1>7. Stack \notin KStack /\ Stack \notin ProgPages(n) /\ ProgPages(n) \cap KStack = {}
    BY Layout DEF ProgPages
  <1>8. Mapped(mm, t, UserVa \ ShmVa) = ProgPages(n) \cup {Stack}
    BY <1>2, <1>6, <1>7
  <1>9. IsFiniteSet(ProgPages(n)) /\ Cardinality(ProgPages(n)) = n
    BY <1>3, ProgPagesCount
  <1>10. /\ IsFiniteSet(ProgPages(n) \cup {Stack})
         /\ Cardinality(ProgPages(n) \cup {Stack}) = n + 1
    BY <1>3, <1>7, <1>9, FS_AddElement
  <1> QED
    BY <1>2, <1>3, <1>4, <1>5, <1>8, <1>10

\* The memory that task_free is called with: all that t had, with its pages
\* counted by n when t is whole
Ending(t, m, n) ==
  /\ Exact(m, seg, {}) /\ Separated(m, seg) /\ Local(mm, m, seg, t)
  /\ Mapped(m, t, ShmVa) = Mapped(mm, t, ShmVa)
  /\ KStack \subseteq Mapped(m, t, Va \ ShmVa)
  /\ tstate[t] = "user" /\ ~Wrapped(t) =>
       Cardinality(Mapped(m, t, UserVa \ ShmVa)) = n + count_program[t] + CountBrk(t)

\* The end of a task gives back its pages, tables and attachments.
LEMMA TaskFree ==
  ASSUME IndInv, Running, job.op = "idle", NEW t \in Tasks, tstate[t] \in {"user", "faulting"},
         NEW m, NEW n, Ending(t, m, n), task_free(t, m, n), UNCHANGED <<seg, seg_size, job>>
  PROVE  IndInv'
PROOF
  <1>0. PICK m1, m2, D : /\ D = DetachedPages(t)
                         /\ m1 = Release(m, t, D, {})
                         /\ m2 = Release(m1, t, UserVa, UserRegions)
    OBVIOUS
  <1>1. RestType /\ Exact(mm, seg, {}) /\ Separated(mm, seg) /\ Shapes /\ JobShape /\ ~Forking
        /\ panic = "none"
    BY DEF IndInv, Running, Forking
  <1>2. D \subseteq ShmVa /\ D \in SUBSET Va
    <2>1. attached[t] \in Seq([va : ShmVa, seg : Segs])
      BY <1>1 DEF RestType
    <2>2. \A i \in DOMAIN attached[t] : attached[t][i].va \in ShmVa
      BY <2>1, <1>1, AttachedType
    <2> QED
      BY <1>0, <2>2, Layout DEF DetachedPages
  <1>3. /\ Exact(m, seg, {}) /\ Separated(m, seg) /\ Local(mm, m, seg, t)
        /\ Mapped(m, t, ShmVa) = Mapped(mm, t, ShmVa)
        /\ KStack \subseteq Mapped(m, t, Va \ ShmVa)
    BY DEF Ending
  <1>4. /\ {} \in SUBSET Tables /\ UserVa \in SUBSET Va /\ UserRegions \in SUBSET Tables
        /\ ShmVa \in SUBSET Va /\ ShmVa \subseteq UserVa /\ Va \ ShmVa \in SUBSET Va
        /\ UserVa \ ShmVa \in SUBSET Va
    BY Layout
  <1>5. /\ Exact(m1, seg, {}) /\ Separated(m1, seg) /\ Released(m, m1, t, D, {})
        /\ Local(m, m1, seg, t)
    BY <1>0, <1>2, <1>3, <1>4, ReleaseExact
  <1>6. /\ Exact(m2, seg, {}) /\ Separated(m2, seg) /\ Released(m1, m2, t, UserVa, UserRegions)
        /\ Local(m1, m2, seg, t)
    BY <1>0, <1>4, <1>5, ReleaseExact
  <1>7. /\ seg' = seg /\ seg_size' = seg_size /\ job' = job
    OBVIOUS
  <1>8. ASSUME UNCHANGED <<mm, tstate, countVars, attached>>, AssertionsExplained',
               panic' \in {"exit task 1", "task_free", "task_free_vm_user"}
        PROVE  IndInv'
    <2>1. RestType'
      BY <1>1, <1>7, <1>8 DEF RestType, countVars
    <2>2. ~Running'
      BY <1>8 DEF Running
    <2> QED
      BY <1>1, <1>7, <1>8, <2>1, <2>2 DEF IndInv
  <1>9. CASE t = 1
    <2>1. panic' = "exit task 1" /\ UNCHANGED <<mm, tstate, countVars, attached>>
      BY <1>9 DEF task_free, CountBrk
    <2>2. AssertionsExplained'
      BY <2>1 DEF AssertionsExplained
    <2> QED
      BY <1>8, <2>1, <2>2
  <1>10. CASE t # 1 /\ n + count_program[t] + CountBrk(t) # m1.cu[t]
    <2>1. panic' = "task_free" /\ UNCHANGED <<mm, tstate, countVars, attached>>
      BY <1>0, <1>10 DEF task_free, CountBrk
    <2>2. mm' = mm /\ tstate' = tstate /\ Wrapped(t)' = Wrapped(t)
      BY <2>1, SameNumbers DEF countVars
    <2>3. ASSUME tstate[t] = "user", Mapped(mm, t, ShmVa) = {}, ~Wrapped(t) PROVE FALSE
      <3>1. m1.cu[t] = Cardinality(Mapped(m1, t, UserVa))
        BY <1>5 DEF Exact, Counted
      <3>2. Mapped(m1, t, UserVa) = Mapped(m, t, UserVa) \ D
        BY <1>4, <1>5, ReleasedMapped
      <3>3. Mapped(m, t, ShmVa) = {}
        BY <1>3, <2>3
      <3>4. Mapped(m, t, UserVa) \ D = Mapped(m, t, UserVa \ ShmVa)
        BY <1>2, <1>4, <3>3 DEF Mapped
      <3>5. Cardinality(Mapped(m, t, UserVa \ ShmVa)) = n + count_program[t] + CountBrk(t)
        BY <2>3 DEF Ending
      <3> QED
        BY <1>10, <3>1, <3>2, <3>4, <3>5
    <2>4. \/ \E u \in Tasks : Mapped(mm', u, ShmVa) # {}
          \/ \E u \in Tasks : tstate'[u] = "faulting"
          \/ \E u \in Tasks : tstate'[u] = "user" /\ Wrapped(u)'
      BY <2>2, <2>3
    <2>5. AssertionsExplained'
      BY <2>1, <2>4 DEF AssertionsExplained
    <2> QED
      BY <1>8, <2>1, <2>5
  <1>11. CASE /\ t # 1 /\ n + count_program[t] + CountBrk(t) = m1.cu[t]
              /\ ~SoleOwner(m1, t)
    <2>1. panic' = "task_free_vm_user" /\ UNCHANGED <<mm, tstate, countVars, attached>>
      BY <1>0, <1>11 DEF task_free, CountBrk
    <2>2. Mapped(m1, t, ShmVa) # {}
      BY <1>5, <1>11, Sole
    <2>3. Mapped(m1, t, ShmVa) = Mapped(m, t, ShmVa) \ D
      BY <1>4, <1>5, ReleasedMapped
    <2>4. Mapped(mm, t, ShmVa) # {} /\ mm' = mm
      BY <1>3, <2>1, <2>2, <2>3
    <2>5. AssertionsExplained'
      BY <2>1, <2>4 DEF AssertionsExplained
    <2> QED
      BY <1>8, <2>1, <2>5
  <1>12. CASE /\ t # 1 /\ n + count_program[t] + CountBrk(t) = m1.cu[t]
              /\ SoleOwner(m1, t)
    <2>1. /\ mm' = m2
          /\ tstate' = [tstate EXCEPT ![t] = "zombie"]
          /\ count_stack' = [count_stack EXCEPT ![t] = 0]
          /\ count_program' = [count_program EXCEPT ![t] = 0]
          /\ attached' = [attached EXCEPT ![t] = <<>>]
          /\ start_brk' = start_brk /\ end_brk' = end_brk /\ panic' = "none"
      BY <1>0, <1>1, <1>12 DEF task_free, task_free_vm_user, CountBrk
    <2>2. RestType'
      <3>1. attached' \in [Tasks -> Seq([va : ShmVa, seg : Segs])]
        <4>1. <<>> \in Seq([va : ShmVa, seg : Segs])
          BY EmptySeq
        <4> QED
          BY <1>1, <2>1, <4>1 DEF RestType
      <3>2. 0 \in 0 .. 1 /\ 0 \in 0 .. MaxProgram
        BY MemoryAssumption
      <3>3. /\ tstate' \in [Tasks -> {"none", "user", "faulting", "zombie"}]
            /\ count_stack' \in [Tasks -> 0 .. 1] /\ count_program' \in [Tasks -> 0 .. MaxProgram]
        BY <1>1, <2>1, <3>2 DEF RestType
      <3> QED
        BY <1>1, <1>7, <2>1, <3>1, <3>3 DEF RestType
    <2>3. /\ attached'[t] = <<>> /\ tstate'[t] = "zombie"
          /\ \A u \in Tasks : u # t => /\ attached'[u] = attached[u] /\ tstate'[u] = tstate[u]
                                       /\ count_stack'[u] = count_stack[u]
                                       /\ count_program'[u] = count_program[u]
      BY <1>1, <2>1 DEF RestType
    <2>4. Local(mm, m2, seg, t)
      BY <1>3, <1>5, <1>6 DEF Local
    <2>5. ZombieShape(t)'
      <3>1. Mapped(m2, t, UserVa) = Mapped(m1, t, UserVa) \ UserVa
        BY <1>4, <1>6, ReleasedMapped
      <3>2. Mapped(m2, t, Va \ ShmVa) = Mapped(m1, t, Va \ ShmVa) \ UserVa
        BY <1>4, <1>6, ReleasedMapped
      <3>3. Mapped(m1, t, Va \ ShmVa) = Mapped(m, t, Va \ ShmVa) \ D
        BY <1>4, <1>5, ReleasedMapped
      <3>4. Mapped(m2, t, UserVa) = {}
        BY <3>1 DEF Mapped
      <3>5. Mapped(m2, t, Va \ ShmVa) = KStack
        <4>1. Mapped(m, t, Va \ ShmVa) \subseteq Va
          BY DEF Mapped
        <4>2. UserVa \cap KStack = {} /\ Va = UserVa \cup KStack /\ ShmVa \cap KStack = {}
          BY Layout
        <4>3. Mapped(m2, t, Va \ ShmVa) = (Mapped(m, t, Va \ ShmVa) \ D) \ UserVa
          BY <3>2, <3>3
        <4> QED
          BY <1>2, <1>3, <4>1, <4>2, <4>3
      <3>6. \A r \in UserRegions : m2.tab[t][r] = NoSlot
        BY <1>4, <1>6 DEF Released
      <3> QED
        BY <2>1, <2>3, <3>4, <3>5, <3>6 DEF ZombieShape, Private
    <2>6. Shapes'
      <3>1. TaskShape(t)'
        BY <2>3, <2>5 DEF TaskShape
      <3>2. ASSUME NEW u \in Tasks, u # t PROVE Kept(u)
        BY <1>1, <1>7, <2>1, <2>3, <2>4, <3>2 DEF Kept, Local, Forking
      <3> QED
        BY <1>1, <3>1, <3>2, ShapesExcept
    <2>7. JobShape'
      BY <1>1, <1>7 DEF JobShape, Forking
    <2>8. AssertionsExplained'
      BY <2>1, NoPanicExplained
    <2> QED
      BY <1>6, <1>7, <2>1, <2>2, <2>6, <2>7, <2>8 DEF IndInv
  <1> QED
    BY <1>9, <1>10, <1>11, <1>12

\* The memory as it is, when do_exit is called
LEMMA EndingNow ==
  ASSUME IndInv, Running, job.op = "idle", NEW t \in Tasks, tstate[t] \in {"user", "faulting"},
         NEW m, m = mm, NEW n, n = count_stack[t]
  PROVE  Ending(t, m, n)
PROOF
  <1>1. RestType /\ Exact(mm, seg, {}) /\ Separated(mm, seg) /\ TaskShape(t)
    BY DEF IndInv, Shapes
  <1>2. CASE tstate[t] = "user"
    <2>1. UserShape(t)
      BY <1>1, <1>2 DEF TaskShape
    <2>2. /\ ~Wrapped(t) => Cardinality(Mapped(mm, t, UserVa \ ShmVa))
                              = 1 + count_program[t] + CountBrk(t)
          /\ count_stack[t] = 1 /\ KStack \subseteq Private(t)
      BY <1>1, <2>1, UserPages
    <2> QED
      BY <1>1, <1>2, <2>2 DEF Ending, Local, Private
  <1>3. CASE tstate[t] = "faulting"
    <2>1. KStack \subseteq Private(t)
      BY <1>1, <1>3 DEF TaskShape, FaultingShape
    <2> QED
      BY <1>1, <1>3, <2>1 DEF Ending, Local, Private
  <1> QED
    BY <1>2, <1>3

\* exit releases the task's memory.
LEMMA StepExit ==
  ASSUME IndInv, NEW t \in Tasks, do_exit(t) \/ program_fault(t)
  PROVE  IndInv'
PROOF
  <1>1. PICK m, n : m = mm /\ n = count_stack[t]
    OBVIOUS
  <1>2. /\ Running /\ job.op = "idle" /\ tstate[t] \in {"user", "faulting"}
        /\ task_free(t, mm, count_stack[t]) /\ UNCHANGED <<seg, seg_size, job>>
    BY DEF do_exit, program_fault, Ready
  <1>3. Ending(t, m, n)
    BY <1>1, <1>2, EndingNow
  <1>4. task_free(t, m, n)
    BY <1>1, <1>2 DEF task_free
  <1> QED
    BY <1>2, <1>3, <1>4, TaskFree

\* A page fault below the stack grows it and ends the process all the same.
LEMMA StepStackFault ==
  ASSUME IndInv, NEW t \in Tasks, stack_fault(t)
  PROVE  IndInv'
PROOF
  <1>1. /\ Running /\ job.op = "idle" /\ tstate[t] = "user" /\ mm.map[t][StackBelow] = NoFrame
        /\ IF CanAlloc(mm, t, StackBelow)
           THEN task_free(t, page_alloc_insert(mm, t, StackBelow), count_stack[t] + 1)
           ELSE task_free(t, mm, count_stack[t])
        /\ UNCHANGED <<seg, seg_size, job>>
    BY DEF stack_fault, Ready
  <1>2. CASE ~CanAlloc(mm, t, StackBelow)
    <2>1. PICK m, n : m = mm /\ n = count_stack[t]
      OBVIOUS
    <2>2. Ending(t, m, n)
      BY <1>1, <2>1, EndingNow
    <2>3. task_free(t, m, n)
      BY <1>1, <1>2, <2>1 DEF task_free
    <2> QED
      BY <1>1, <2>2, <2>3, TaskFree
  <1>3. CASE CanAlloc(mm, t, StackBelow)
    <2>1. PICK m, n : m = page_alloc_insert(mm, t, StackBelow) /\ n = count_stack[t] + 1
      OBVIOUS
    <2>2. RestType /\ Exact(mm, seg, {}) /\ Separated(mm, seg) /\ UserShape(t)
      BY <1>1 DEF IndInv, Shapes, TaskShape
    <2>3. /\ StackBelow \in Va \ ShmVa /\ StackBelow \in UserVa \ ShmVa
          /\ ShmVa \in SUBSET Va /\ Va \ ShmVa \in SUBSET Va /\ UserVa \ ShmVa \in SUBSET Va
      BY Layout
    <2>4. /\ Exact(m, seg, {}) /\ Separated(m, seg) /\ PageAdded(mm, m, t, StackBelow)
          /\ Local(mm, m, seg, t)
      BY <1>1, <1>3, <2>1, <2>2, <2>3, AllocPage
    <2> DEFINE A == Mapped(mm, t, UserVa \ ShmVa)
               B == Mapped(m, t, UserVa \ ShmVa)
               k == 1 + count_program[t] + CountBrk(t)
    <2>5. B = A \cup {StackBelow}
      BY <2>3, <2>4, AddedMapped
    <2>6. StackBelow \notin A
      BY <1>1 DEF Mapped
    <2>7. /\ IsFiniteSet(A) /\ (~Wrapped(t) => Cardinality(A) = k /\ CountBrk(t) \in Nat)
          /\ count_stack[t] = 1 /\ KStack \subseteq Private(t)
      BY <1>1, <2>2, UserPages
    <2>8. CountBrk(t) \in Nat => k \in Nat /\ k + 1 = n + count_program[t] + CountBrk(t)
      <3>1. count_program[t] \in Nat
        BY <2>2, TaskNumbers
      <3> QED
        BY <2>1, <2>7, <3>1
    <2> HIDE DEF A, B, k
    <2>9. ~Wrapped(t) => Cardinality(B) = k + 1
      BY <2>5, <2>6, <2>7, <2>8, FS_AddElement
    <2>10. Mapped(m, t, ShmVa) = Mapped(mm, t, ShmVa)
      BY <2>3, <2>4, AddedMapped
    <2>11. Mapped(m, t, Va \ ShmVa) = Mapped(mm, t, Va \ ShmVa) \cup {StackBelow}
      BY <2>3, <2>4, AddedMapped
    <2>12. Ending(t, m, n)
      BY <2>4, <2>7, <2>8, <2>9, <2>10, <2>11 DEF Ending, Private, B
    <2>13. task_free(t, m, n)
      BY <1>1, <1>3, <2>1 DEF task_free
    <2> QED
      BY <1>1, <2>12, <2>13, TaskFree
  <1> QED
    BY <1>2, <1>3

-----------------------------------------------------------------------------
(* execve.                                                                 *)

\* The first of the segments lies in the program, and the rest fits behind it.
LEMMA Segments ==
  ASSUME NEW a \in Nat, NEW segs \in Seq(Nat \ {0}), segs # <<>>, Fits(a, segs)
  PROVE  /\ Head(segs) \in Nat \ {0} /\ a + Head(segs) \in 0 .. MaxProgram
         /\ Tail(segs) \in Seq(Nat \ {0}) /\ Fits(a + Head(segs), Tail(segs))
         /\ SegPages(a, Head(segs)) \subseteq UserVa \ ShmVa
         /\ ProgPages(a + Head(segs)) \ SegPages(a, Head(segs)) = ProgPages(a)
         /\ SegPages(a, Head(segs)) \subseteq ProgPages(a + Head(segs))
PROOF
  <1> DEFINE h == Head(segs)
             r == Tail(segs)
  <1>1. /\ Len(segs) \in Nat /\ Len(segs) >= 1 /\ h = segs[1] /\ h \in Nat \ {0}
        /\ r \in Seq(Nat \ {0}) /\ Len(r) = Len(segs) - 1
        /\ \A i \in 1 .. Len(r) : r[i] = segs[i + 1]
    <2>1. segs \in Seq(Nat \ {0}) /\ segs # <<>>
      OBVIOUS
    <2>2. Len(segs) \in Nat /\ Len(segs) >= 1
      BY <2>1, EmptySeq, LenProperties
    <2>3. 1 \in 1 .. Len(segs)
      BY <2>2
    <2>4. segs[1] \in Nat \ {0}
      BY <2>1, <2>3, ElementOfSeq
    <2>5. h = segs[1]
      BY <2>1, HeadTailProperties
    <2>6. r \in Seq(Nat \ {0}) /\ Len(r) = Len(segs) - 1
      BY <2>1, HeadTailProperties
    <2>7. \A i \in 1 .. Len(r) : r[i] = segs[i + 1]
      BY <2>1, HeadTailProperties
    <2> QED
      BY <2>2, <2>4, <2>5, <2>6, <2>7
  <1>2. PICK end \in [0 .. Len(segs) -> 0 .. MaxProgram] :
          end[0] = a /\ \A i \in 1 .. Len(segs) : end[i] = end[i - 1] + segs[i]
    BY DEF Fits
  <1> HIDE DEF h, r
  <1>3. end[1] = a + h /\ end[1] \in 0 .. MaxProgram
    <2>1. 1 \in 1 .. Len(segs) /\ 1 \in 0 .. Len(segs) /\ 1 - 1 = 0
      BY <1>1
    <2>2. end[1] = end[1 - 1] + segs[1]
      BY <1>2, <2>1
    <2> QED
      BY <1>1, <1>2, <2>1, <2>2
  <1>4. Fits(a + h, r)
    <2> DEFINE e == [i \in 0 .. Len(r) |-> end[i + 1]]
    <2>1. \A i \in 0 .. Len(r) : i + 1 \in 0 .. Len(segs)
      BY <1>1
    <2>2. e \in [0 .. Len(r) -> 0 .. MaxProgram]
      BY <1>2, <2>1
    <2>3. e[0] = a + h
      <3>1. 0 \in 0 .. Len(r) /\ 0 + 1 = 1
        BY <1>1
      <3> QED
        BY <1>3, <3>1
    <2>4. ASSUME NEW i \in 1 .. Len(r) PROVE e[i] = e[i - 1] + r[i]
      <3>1. i \in 0 .. Len(r) /\ i - 1 \in 0 .. Len(r) /\ (i - 1) + 1 = i
            /\ i + 1 \in 1 .. Len(segs) /\ (i + 1) - 1 = i
        BY <1>1
      <3>2. e[i] = end[i + 1] /\ e[i - 1] = end[i]
        BY <3>1
      <3>3. end[i + 1] = end[(i + 1) - 1] + segs[i + 1]
        BY <1>2, <3>1
      <3> QED
        BY <1>1, <3>1, <3>2, <3>3
    <2> HIDE DEF e
    <2> QED
      BY <2>2, <2>3, <2>4 DEF Fits
  <1>5. MaxProgram \in Nat /\ MaxHeap \in Nat
    BY MemoryAssumption
  <1>6. SegPages(a, h) \subseteq UserVa \ ShmVa
    <2> SUFFICES ASSUME NEW i \in a .. a + h - 1 PROVE Prog(i) \in UserVa \ ShmVa
      BY DEF SegPages
    <2>1. i \in 0 .. MaxProgram + MaxHeap - 1
      BY <1>1, <1>3, <1>5
    <2> QED
      BY <2>1, Layout
  <1>7. ProgPages(a + h) \ SegPages(a, h) = ProgPages(a)
    <2>1. \A i : i \in 0 .. (a + h) - 1 <=> i \in 0 .. a - 1 \/ i \in a .. a + h - 1
      BY <1>1
    <2>2. \A i : ~(i \in 0 .. a - 1 /\ i \in a .. a + h - 1)
      BY <1>1
    <2>3. \A i, j : Prog(i) = Prog(j) => i = j
      BY Layout
    <2> QED
      BY <2>1, <2>2, <2>3, SMTT(30) DEF ProgPages, SegPages
  <1>8. SegPages(a, h) \subseteq ProgPages(a + h)
    <2>1. \A i : i \in a .. a + h - 1 => i \in 0 .. (a + h) - 1
      BY <1>1
    <2> QED
      BY <2>1 DEF ProgPages, SegPages
  <1> QED
    BY <1>1, <1>3, <1>4, <1>6, <1>7, <1>8 DEF h, r

\* Without pages in the region of shared memory there is no attachment.
LEMMA NotAttached ==
  ASSUME RestType, NEW t \in Tasks, AttachedMapped(t), Mapped(mm, t, ShmVa) = {}
  PROVE  attached[t] = <<>>
PROOF
  <1>1. attached[t] \in Seq([va : ShmVa, seg : Segs])
    BY DEF RestType
  <1>2. ASSUME NEW i \in 1 .. Len(attached[t]) PROVE FALSE
    <2>1. attached[t][i].va \in ShmVa
      BY AttachedType
    <2>2. mm.map[t][attached[t][i].va] # NoFrame
      BY DEF AttachedMapped
    <2> QED
      BY <2>1, <2>2 DEF Mapped
  <1>3. Len(attached[t]) \in Nat
    BY <1>1, LenProperties
  <1>4. Len(attached[t]) = 0
    BY <1>2, <1>3
  <1> QED
    BY <1>1, <1>4, EmptySeq

\* execve releases the old program and makes a stack for the new one.
LEMMA StepExecve ==
  ASSUME IndInv, NEW t \in Tasks, NEW p \in Programs, execve(t, p)
  PROVE  IndInv'
PROOF
  <1>0. PICK m1, ok : m1 = Release(mm, t, UserVa, UserRegions) /\ ok = CanAlloc(m1, t, Stack)
    OBVIOUS
  <1>1. /\ panic = "none" /\ job.op = "idle" /\ tstate[t] = "user" /\ Running
        /\ start_brk' = start_brk /\ end_brk' = end_brk
        /\ seg' = seg /\ seg_size' = seg_size /\ attached' = attached
    BY DEF execve, Ready, Running, shmVars
  <1>2. RestType /\ Exact(mm, seg, {}) /\ Separated(mm, seg) /\ Shapes /\ ~Forking /\ UserShape(t)
    BY <1>1 DEF IndInv, Forking, Shapes, TaskShape
  <1>3. CASE ~SoleOwner(mm, t)
    <2>1. panic' = "task_free_vm_user" /\ mm' = mm /\ count_stack' = count_stack
          /\ count_program' = count_program /\ tstate' = tstate /\ job' = job
      BY <1>3 DEF execve
    <2>2. Mapped(mm, t, ShmVa) # {}
      BY <1>2, <1>3, Sole
    <2>3. AssertionsExplained'
      BY <2>1, <2>2 DEF AssertionsExplained
    <2>4. RestType'
      BY <1>1, <1>2, <2>1 DEF RestType
    <2>5. ~Running'
      BY <2>1 DEF Running
    <2> QED
      BY <1>1, <1>2, <2>1, <2>3, <2>4, <2>5 DEF IndInv
  <1>4. CASE SoleOwner(mm, t)
    <2>1. /\ mm' = IF ok THEN page_alloc_insert(m1, t, Stack) ELSE m1
          /\ count_stack' = [count_stack EXCEPT ![t] = IF ok THEN 1 ELSE 0]
          /\ count_program' = [count_program EXCEPT ![t] = 0]
          /\ tstate' = [tstate EXCEPT ![t] = "faulting"]
          /\ job' = IF ok THEN [Idle EXCEPT !.op = "exec", !.t = t, !.segs = p,
                                   !.todo = SegPages(0, p[1])]
                          ELSE Idle
          /\ panic' = "none"
      BY <1>0, <1>1, <1>4 DEF execve, task_free_vm_user
    <2>2. Mapped(mm, t, ShmVa) = {} /\ attached[t] = <<>>
      <3>1. Mapped(mm, t, ShmVa) = {}
        BY <1>2, <1>4, Sole
      <3> QED
        BY <1>2, <3>1, NotAttached DEF UserShape
    <2>3. /\ UserVa \in SUBSET Va /\ UserRegions \in SUBSET Tables /\ Stack \in Va \ ShmVa
          /\ Stack \in UserVa /\ Stack \in Va /\ Stack \notin ShmVa
          /\ ShmVa \in SUBSET Va /\ Va \ ShmVa \in SUBSET Va
      BY Layout
    <2>4. /\ Exact(m1, seg, {}) /\ Separated(m1, seg) /\ Released(mm, m1, t, UserVa, UserRegions)
          /\ Local(mm, m1, seg, t)
      BY <1>0, <1>2, <2>3, ReleaseExact
    <2>5. m1.map[t][Stack] = NoFrame
      BY <2>3, <2>4 DEF Released
    <2>6. Mapped(m1, t, ShmVa) = {} /\ Mapped(m1, t, Va \ ShmVa) = KStack
      <3>1. Mapped(m1, t, ShmVa) = Mapped(mm, t, ShmVa) \ UserVa
        BY <2>3, <2>4, ReleasedMapped
      <3>2. Mapped(m1, t, Va \ ShmVa) = Mapped(mm, t, Va \ ShmVa) \ UserVa
        BY <2>3, <2>4, ReleasedMapped
      <3>3. KStack \subseteq Mapped(mm, t, Va \ ShmVa)
        BY <1>1, <1>2, UserPages DEF Private
      <3>4. Mapped(mm, t, Va \ ShmVa) \subseteq Va
        BY DEF Mapped
      <3>5. UserVa \cap KStack = {} /\ Va = UserVa \cup KStack
        BY Layout
      <3> QED
        BY <2>2, <3>1, <3>2, <3>3, <3>4, <3>5
    <2>7. /\ Exact(mm', seg, {}) /\ Separated(mm', seg) /\ Local(mm, mm', seg, t)
          /\ Mapped(mm', t, ShmVa) = {}
          /\ Private(t)' = IF ok THEN {Stack} \cup KStack ELSE KStack
      <3>1. CASE ok
        <4>1. mm' = page_alloc_insert(m1, t, Stack) /\ CanAlloc(m1, t, Stack)
          BY <1>0, <2>1, <3>1
        <4>2. /\ Exact(mm', seg, {}) /\ Separated(mm', seg) /\ PageAdded(m1, mm', t, Stack)
              /\ Local(m1, mm', seg, t)
          BY <2>3, <2>4, <2>5, <4>1, AllocPage
        <4>3. Mapped(mm', t, Va \ ShmVa) = Mapped(m1, t, Va \ ShmVa) \cup {Stack}
          BY <2>3, <4>2, AddedMapped
        <4>4. Mapped(mm', t, ShmVa) = Mapped(m1, t, ShmVa)
          BY <2>3, <4>2, AddedMapped
        <4>5. Local(mm, mm', seg, t)
          BY <2>4, <4>2 DEF Local
        <4> QED
          BY <2>6, <3>1, <4>2, <4>3, <4>4, <4>5 DEF Private
      <3>2. CASE ~ok
        <4>1. mm' = m1
          BY <2>1, <3>2
        <4> QED
          BY <2>4, <2>6, <3>2, <4>1 DEF Private
      <3> QED
        BY <3>1, <3>2
    <2>8. /\ tstate'[t] = "faulting" /\ count_program'[t] = 0
          /\ count_stack'[t] = IF ok THEN 1 ELSE 0
          /\ \A u \in Tasks : u # t => /\ tstate'[u] = tstate[u]
                                       /\ count_stack'[u] = count_stack[u]
                                       /\ count_program'[u] = count_program[u]
      BY <1>2, <2>1 DEF RestType
    <2>9. /\ p \in Seq(Nat \ {0}) /\ p # <<>> /\ Fits(0, p) /\ p[1] = Head(p) /\ t \in Nat
      BY MemoryAssumption
    <2>10. /\ Head(p) \in Nat \ {0} /\ SegPages(0, Head(p)) \in SUBSET Va
           /\ ProgPages(0 + Head(p)) \ SegPages(0, Head(p)) = ProgPages(0)
           /\ SegPages(0, Head(p)) \subseteq UserVa \ ShmVa
      <3>1. 0 \in Nat
        OBVIOUS
      <3> QED
        BY <2>3, <2>9, <3>1, Segments
    <2>11. job' \in JobType /\ ~Forking' /\ job'.op # "brk" /\ JobShape'
      <3>1. CASE ok
        <4> DEFINE V == SegPages(0, p[1])
        <4>1. V \in SUBSET Va
          BY <2>9, <2>10
        <4>2. job' = [Idle EXCEPT !.op = "exec", !.t = t, !.segs = p, !.todo = V]
          BY <2>1, <3>1
        <4>3. V = SegPages(0, Head(p))
          BY <2>9
        <4> HIDE DEF V
        <4>4. /\ job' \in JobType /\ job'.op = "exec" /\ job'.t = t /\ job'.segs = p
              /\ job'.todo = V
          <5>1. 0 \in 0 .. 1 /\ 0 \in Nat
            OBVIOUS
          <5> QED
            BY <2>9, <4>1, <4>2, <5>1 DEF Idle, JobType
        <4>5. ExecShape(t)'
          <5>1. ProgPages(0) = {}
            BY DEF ProgPages
          <5>2. 0 + Head(p) = Head(p)
            BY <2>10
          <5>3. V \cap ({Stack} \cup KStack) = {}
            BY <4>3, Layout DEF SegPages
          <5>4. (ProgPages(0 + Head(p)) \cup {Stack} \cup KStack) \ V = {Stack} \cup KStack
            BY <2>10, <4>3, <5>1, <5>3
          <5> QED
            BY <2>7, <2>8, <2>9, <3>1, <4>3, <4>4, <5>4 DEF ExecShape
        <4> QED
          BY <4>4, <4>5 DEF JobShape, Forking
      <3>2. CASE ~ok
        BY <2>1, <3>2, IdleJob
      <3> QED
        BY <3>1, <3>2
    <2>12. RestType'
      <3>1. 0 \in 0 .. 1 /\ 1 \in 0 .. 1 /\ 0 \in 0 .. MaxProgram
        BY MemoryAssumption
      <3>2. /\ tstate' \in [Tasks -> {"none", "user", "faulting", "zombie"}]
            /\ count_stack' \in [Tasks -> 0 .. 1] /\ count_program' \in [Tasks -> 0 .. MaxProgram]
        BY <1>2, <2>1, <3>1 DEF RestType
      <3> QED
        BY <1>1, <1>2, <2>1, <2>11, <3>2 DEF RestType
    <2>13. Shapes'
      <3>1. FaultingShape(t)'
        BY <1>1, <2>2, <2>7 DEF FaultingShape
      <3>2. TaskShape(t)'
        BY <2>8, <3>1 DEF TaskShape
      <3>3. ASSUME NEW u \in Tasks, u # t PROVE Kept(u)
        BY <1>1, <1>2, <2>7, <2>8, <2>11, <3>3 DEF Kept, Local
      <3> QED
        BY <1>2, <3>2, <3>3, ShapesExcept
    <2>14. AssertionsExplained'
      BY <2>1, NoPanicExplained
    <2> QED
      BY <1>1, <2>7, <2>11, <2>12, <2>13, <2>14 DEF IndInv
  <1> QED
    BY <1>3, <1>4

\* load_program maps one page of a segment, or gives the segment's pages back.
LEMMA StepLoadProgram ==
  ASSUME IndInv, load_program
  PROVE  IndInv'
PROOF
  <1>0. PICK t, va, V : /\ t = job.t /\ va = Next_va
                        /\ V = SegPages(count_program[t], Head(job.segs))
    OBVIOUS
  <1>1. /\ Running /\ job.op = "exec" /\ job.todo # {} /\ panic = "none"
        /\ tstate' = tstate /\ count_stack' = count_stack /\ count_program' = count_program
        /\ start_brk' = start_brk /\ end_brk' = end_brk
        /\ seg' = seg /\ seg_size' = seg_size /\ attached' = attached
    BY DEF load_program, Running, countVars, shmVars
  <1>2. /\ RestType /\ Exact(mm, seg, {}) /\ Separated(mm, seg) /\ Shapes /\ ~Forking
        /\ ExecShape(t) /\ job \in JobType
    BY <1>0, <1>1 DEF IndInv, Forking, JobShape, RestType
  <1>3. /\ t \in Tasks /\ tstate[t] = "faulting" /\ count_stack[t] = 1 /\ job.segs # <<>>
        /\ Fits(count_program[t], job.segs) /\ job.todo \subseteq V
        /\ Private(t) = (ProgPages(count_program[t] + Head(job.segs)) \cup {Stack} \cup KStack)
                        \ job.todo
    BY <1>0, <1>2 DEF ExecShape
  <1>4. FaultingShape(t)
    BY <1>2, <1>3 DEF Shapes, TaskShape
  <1>5. /\ V \subseteq UserVa \ ShmVa
        /\ V \subseteq ProgPages(count_program[t] + Head(job.segs))
        /\ V \cap KStack = {}
    <2>1. count_program[t] \in Nat /\ job.segs \in Seq(Nat \ {0})
      BY <1>2, <1>3, TaskNumbers DEF JobType
    <2>2. /\ SegPages(count_program[t], Head(job.segs)) \subseteq UserVa \ ShmVa
          /\ SegPages(count_program[t], Head(job.segs))
               \subseteq ProgPages(count_program[t] + Head(job.segs))
      BY <1>3, <2>1, Segments
    <2> QED
      BY <1>0, <2>2, Layout
  <1>6. va \in job.todo /\ va \in V /\ va \in Va /\ va \notin ShmVa
    BY <1>0, <1>1, <1>2, <1>3, <1>5, NextPage
  <1>7. Va \ ShmVa \in SUBSET Va /\ ShmVa \in SUBSET Va /\ V \in SUBSET Va
        /\ {} \in SUBSET Tables /\ va \in Va \ ShmVa
    BY <1>5, <1>6, Layout
  <1>8. CASE CanAlloc(mm, t, va)
    <2>1. mm' = page_alloc_insert(mm, t, va) /\ job' = [job EXCEPT !.todo = @ \ {va}]
          /\ panic' = "none"
      BY <1>0, <1>1, <1>8 DEF load_program
    <2>2. mm.map[t][va] = NoFrame
      <3>1. va \notin Private(t)
        BY <1>3, <1>6
      <3> QED
        BY <1>7, <3>1 DEF Private, Mapped
    <2>3. /\ Exact(mm', seg, {}) /\ Separated(mm', seg) /\ PageAdded(mm, mm', t, va)
          /\ Local(mm, mm', seg, t)
      BY <1>2, <1>3, <1>7, <1>8, <2>1, <2>2, AllocPage
    <2>4. /\ job' \in JobType /\ job'.op = "exec" /\ job'.t = t /\ job'.c = job.c
          /\ job'.segs = job.segs /\ job'.todo = job.todo \ {va} /\ ~Forking'
      BY <1>0, <1>1, <1>2, <2>1, JobTodo
    <2>5. Mapped(mm', t, Va \ ShmVa) = Mapped(mm, t, Va \ ShmVa) \cup {va}
      BY <1>3, <1>6, <1>7, <2>3, AddedMapped
    <2>6. Mapped(mm', t, ShmVa) = Mapped(mm, t, ShmVa)
      BY <1>3, <1>6, <1>7, <2>3, AddedMapped
    <2>7. Private(t)' = Private(t) \cup {va}
      BY <2>5 DEF Private
    <2>8. RestType'
      BY <1>1, <1>2, <2>1, <2>4 DEF RestType
    <2>9. ExecShape(t)'
      <3>1. job'.todo \subseteq SegPages(count_program'[t], Head(job'.segs))
        BY <1>0, <1>1, <1>3, <2>4
      <3>2. Private(t)' = (ProgPages(count_program[t] + Head(job.segs)) \cup {Stack} \cup KStack)
                          \ (job.todo \ {va})
        BY <1>3, <1>5, <1>6, <2>7
      <3> QED
        BY <1>1, <1>3, <2>4, <3>1, <3>2 DEF ExecShape
    <2>10. JobShape'
      BY <2>4, <2>9 DEF JobShape
    <2>11. Shapes'
      <3>1. FaultingShape(t)'
        BY <1>1, <1>4, <2>6, <2>7 DEF FaultingShape
      <3>2. TaskShape(t)'
        BY <1>1, <1>3, <3>1 DEF TaskShape
      <3>3. ASSUME NEW u \in Tasks, u # t PROVE Kept(u)
        BY <1>1, <1>2, <2>3, <2>4, <3>3 DEF Kept, Local
      <3> QED
        BY <1>2, <1>3, <3>2, <3>3, ShapesExcept
    <2>12. AssertionsExplained'
      BY <2>1, NoPanicExplained
    <2> QED
      BY <1>1, <2>3, <2>8, <2>10, <2>11, <2>12 DEF IndInv
  <1>9. CASE ~CanAlloc(mm, t, va)
    <2>1. mm' = Release(mm, t, V, {}) /\ panic' \in {"none", "segment_alloc"} /\ job' = Idle
      BY <1>0, <1>9 DEF load_program
    <2>2. /\ Exact(mm', seg, {}) /\ Separated(mm', seg) /\ Released(mm, mm', t, V, {})
          /\ Local(mm, mm', seg, t)
      BY <1>2, <1>3, <1>7, <2>1, ReleaseExact
    <2>3. Mapped(mm', t, Va \ ShmVa) = Mapped(mm, t, Va \ ShmVa) \ V
      BY <1>3, <1>7, <2>2, ReleasedMapped
    <2>4. Mapped(mm', t, ShmVa) = Mapped(mm, t, ShmVa) \ V
      BY <1>3, <1>7, <2>2, ReleasedMapped
    <2>5. job' \in JobType /\ JobShape' /\ ~Forking' /\ job'.op # "brk"
      BY <2>1, IdleJob
    <2>6. RestType'
      BY <1>1, <1>2, <2>1, <2>5 DEF RestType
    <2>7. Shapes'
      <3>1. FaultingShape(t)'
        BY <1>1, <1>4, <1>5, <2>3, <2>4 DEF FaultingShape, Private
      <3>2. TaskShape(t)'
        BY <1>1, <1>3, <3>1 DEF TaskShape
      <3>3. ASSUME NEW u \in Tasks, u # t PROVE Kept(u)
        BY <1>1, <1>2, <2>2, <2>5, <3>3 DEF Kept, Local
      <3> QED
        BY <1>2, <1>3, <3>2, <3>3, ShapesExcept
    <2>8. AssertionsExplained'
      BY <1>1, <1>3, <2>1 DEF AssertionsExplained
    <2> QED
      BY <1>1, <2>2, <2>5, <2>6, <2>7, <2>8 DEF IndInv
  <1> QED
    BY <1>8, <1>9

\* A segment is loaded; behind the last one the heap starts.
LEMMA StepExecSegment ==
  ASSUME IndInv, exec_segment
  PROVE  IndInv'
PROOF
  <1>0. PICK t, n, rest : /\ t = job.t /\ n = count_program[t] + Head(job.segs)
                          /\ rest = Tail(job.segs)
    OBVIOUS
  <1>1. /\ Running /\ job.op = "exec" /\ job.todo = {} /\ panic = "none"
        /\ count_program' = [count_program EXCEPT ![t] = n]
        /\ mm' = mm /\ count_stack' = count_stack
        /\ seg' = seg /\ seg_size' = seg_size /\ attached' = attached /\ panic' = "none"
    BY <1>0 DEF exec_segment, Running, shmVars
  <1>2. /\ RestType /\ Exact(mm, seg, {}) /\ Separated(mm, seg) /\ Shapes /\ ~Forking
        /\ ExecShape(t) /\ job \in JobType
    BY <1>0, <1>1 DEF IndInv, Forking, JobShape, RestType
  <1>3. /\ t \in Tasks /\ tstate[t] = "faulting" /\ count_stack[t] = 1 /\ job.segs # <<>>
        /\ Fits(count_program[t], job.segs)
        /\ Private(t) = ProgPages(n) \cup {Stack} \cup KStack
    BY <1>0, <1>1, <1>2 DEF ExecShape
  <1>4. FaultingShape(t)
    BY <1>2, <1>3 DEF Shapes, TaskShape
  <1>5. /\ n \in 0 .. MaxProgram /\ n \in Nat /\ n > 0 /\ rest \in Seq(Nat \ {0}) /\ Fits(n, rest)
    <2>1. count_program[t] \in Nat /\ job.segs \in Seq(Nat \ {0})
      BY <1>2, <1>3, TaskNumbers DEF JobType
    <2>2. /\ count_program[t] + Head(job.segs) \in 0 .. MaxProgram /\ Head(job.segs) \in Nat \ {0}
          /\ Tail(job.segs) \in Seq(Nat \ {0})
          /\ Fits(count_program[t] + Head(job.segs), Tail(job.segs))
      BY <1>3, <2>1, Segments
    <2>3. count_program[t] + Head(job.segs) > 0
      BY <2>1, <2>2
    <2>4. \A x \in 0 .. MaxProgram : x \in Nat
      BY MemoryAssumption
    <2> QED
      BY <1>0, <2>2, <2>3, <2>4
  <1>6. /\ count_program' \in [Tasks -> 0 .. MaxProgram] /\ count_program'[t] = n
        /\ \A u \in Tasks : u # t => count_program'[u] = count_program[u]
    BY <1>1, <1>2, <1>3, <1>5 DEF RestType
  <1>7. Private(t)' = ProgPages(n) \cup {Stack} \cup KStack
    BY <1>1, <1>3 DEF Private
  <1>8. AssertionsExplained'
    BY <1>1, NoPanicExplained
  <1>9. CASE rest = <<>>
    <2>1. /\ tstate' = [tstate EXCEPT ![t] = "user"]
          /\ start_brk' = [start_brk EXCEPT ![t] = n]
          /\ end_brk' = [end_brk EXCEPT ![t] = 0] /\ job' = Idle
      BY <1>0, <1>9 DEF exec_segment
    <2>2. job' \in JobType /\ JobShape' /\ ~Forking' /\ job'.op # "brk"
      BY <2>1, IdleJob
    <2>3. /\ tstate' \in [Tasks -> {"none", "user", "faulting", "zombie"}]
          /\ start_brk' \in [Tasks -> 0 .. MaxProgram] /\ end_brk' \in [Tasks -> 0 .. 2 * AddrPages]
          /\ tstate'[t] = "user" /\ start_brk'[t] = n /\ end_brk'[t] = 0
          /\ \A u \in Tasks : u # t => /\ tstate'[u] = tstate[u] /\ start_brk'[u] = start_brk[u]
                                       /\ end_brk'[u] = end_brk[u]
      <3>1. 0 \in 0 .. 2 * AddrPages
        BY MemoryAssumption
      <3> QED
        BY <1>2, <1>3, <1>5, <2>1, <3>1 DEF RestType
    <2>4. RestType'
      BY <1>1, <1>2, <1>6, <2>2, <2>3 DEF RestType
    <2>5. UserShape(t)'
      <3>1. AttachedMapped(t)'
        <4>1. attached'[t] = <<>>
          BY <1>1, <1>4 DEF FaultingShape
        <4>2. 1 .. Len(attached'[t]) = {}
          BY <4>1
        <4> QED
          BY <4>2 DEF AttachedMapped
      <3>2. HeapEnd(t)' = 0
        BY <2>2, <2>3 DEF HeapEnd
      <3>3. 0 \in 0 .. MaxHeap /\ 0 \in 0 .. 2 * MaxHeap /\ HalfUp(0) = 0 /\ n + 0 = n
        BY <1>5, MemoryAssumption DEF HalfUp
      <3>4. Private(t)' = (ProgPages(n + 0) \cup {Stack} \cup KStack) \ {}
        BY <1>7, <3>3
      <3>5. HeapHas(t, 0)'
        BY <1>6, <2>2, <3>2, <3>3, <3>4 DEF HeapHas
      <3> QED
        BY <1>1, <1>3, <1>5, <1>6, <2>3, <3>1, <3>5 DEF UserShape
    <2>6. Shapes'
      <3>1. TaskShape(t)'
        BY <2>3, <2>5 DEF TaskShape
      <3>2. ASSUME NEW u \in Tasks, u # t PROVE Kept(u)
        BY <1>1, <1>2, <1>6, <2>2, <2>3, <3>2 DEF Kept
      <3> QED
        BY <1>2, <1>3, <3>1, <3>2, ShapesExcept
    <2> QED
      BY <1>1, <1>2, <1>8, <2>2, <2>4, <2>6 DEF IndInv
  <1>10. CASE rest # <<>>
    <2> DEFINE V == SegPages(n, Head(rest))
    <2>1. /\ Head(rest) \in Nat \ {0} /\ V \subseteq UserVa \ ShmVa
          /\ ProgPages(n + Head(rest)) \ V = ProgPages(n)
      BY <1>5, <1>10, Segments
    <2>2. job.segs[2] = Head(rest)
      <3>1. job.segs \in Seq(Nat \ {0})
        BY <1>2 DEF JobType
      <3>2. Len(rest) \in Nat /\ Len(rest) >= 1
        BY <1>5, <1>10, EmptySeq, LenProperties
      <3>3. 1 \in 1 .. Len(rest) /\ 1 + 1 = 2
        BY <3>2
      <3>4. rest[1] = job.segs[1 + 1]
        BY <1>0, <1>3, <3>1, <3>3, HeadTailProperties
      <3>5. Head(rest) = rest[1]
        BY <1>5, <1>10, HeadTailProperties
      <3> QED
        BY <3>3, <3>4, <3>5
    <2>3. /\ job' = [job EXCEPT !.segs = rest, !.todo = V]
          /\ tstate' = tstate /\ start_brk' = start_brk /\ end_brk' = end_brk
      BY <1>0, <1>10, <2>2 DEF exec_segment
    <2>4. V \in SUBSET Va
      BY <2>1, Layout
    <2>5. V \cap ({Stack} \cup KStack) = {}
      BY Layout DEF SegPages
    <2>6. V = SegPages(n, Head(rest))
      OBVIOUS
    <2> HIDE DEF V
    <2>7. /\ job' \in JobType /\ job'.op = "exec" /\ job'.t = t /\ job'.segs = rest
          /\ job'.todo = V /\ ~Forking'
      BY <1>0, <1>1, <1>2, <1>5, <2>3, <2>4 DEF JobType, Forking
    <2>8. RestType'
      BY <1>1, <1>2, <1>6, <2>3, <2>7 DEF RestType
    <2>9. ExecShape(t)'
      <3>1. (ProgPages(n + Head(rest)) \cup {Stack} \cup KStack) \ V
              = ProgPages(n) \cup {Stack} \cup KStack
        BY <2>1, <2>5
      <3> QED
        BY <1>1, <1>3, <1>5, <1>6, <1>7, <1>10, <2>3, <2>6, <2>7, <3>1 DEF ExecShape
    <2>10. JobShape'
      BY <2>7, <2>9 DEF JobShape
    <2>11. Shapes'
      <3>1. FaultingShape(t)'
        BY <1>1, <1>4 DEF FaultingShape, Private
      <3>2. TaskShape(t)'
        BY <1>3, <2>3, <3>1 DEF TaskShape
      <3>3. ASSUME NEW u \in Tasks, u # t PROVE Kept(u)
        BY <1>1, <1>2, <1>6, <2>3, <2>7, <3>3 DEF Kept
      <3> QED
        BY <1>2, <1>3, <3>2, <3>3, ShapesExcept
    <2> QED
      BY <1>1, <1>2, <1>8, <2>8, <2>10, <2>11 DEF IndInv
  <1> QED
    BY <1>9, <1>10

-----------------------------------------------------------------------------
(* brk.                                                                    *)

\* A step that leaves the region of shared memory alone
LEMMA AttachedKept ==
  ASSUME RestType, NEW t \in Tasks, AttachedMapped(t), attached' = attached, seg' = seg,
         \A va \in ShmVa : mm'.map[t][va] = mm.map[t][va]
  PROVE  AttachedMapped(t)'
PROOF
  <1>1. \A i \in 1 .. Len(attached[t]) : attached[t][i].va \in ShmVa
    BY AttachedType
  <1> QED
    BY <1>1 DEF AttachedMapped

\* Heap pages above the page a are the program and heap without its first
\* a pages.
LEMMA HeapArea ==
  ASSUME RestType, NEW t \in Tasks, start_brk[t] = count_program[t],
         NEW a \in Nat, NEW b \in Nat, NEW c \in 0 .. MaxHeap, a <= b, b <= c
  PROVE  /\ Heap(t, a, c) \subseteq UserVa \ ShmVa
         /\ Heap(t, a, b) \subseteq Heap(t, a, c)
         /\ Heap(t, a, c) \cap ({Stack} \cup KStack) = {}
         /\ Heap(t, a, c) \subseteq ProgPages(count_program[t] + c)
         /\ ProgPages(count_program[t] + b) \ Heap(t, a, c) = ProgPages(count_program[t] + a)
PROOF
  <1> DEFINE s == count_program[t]
  <1>1. s \in 0 .. MaxProgram /\ MaxProgram \in Nat /\ MaxHeap \in Nat
    BY TaskNumbers
  <1>2. Heap(t, a, c) = {Prog(s + i) : i \in a .. c - 1}
        /\ Heap(t, a, b) = {Prog(s + i) : i \in a .. b - 1}
    <2>1. ASSUME NEW d \in Nat PROVE Heap(t, a, d) = {Prog(s + i) : i \in a .. d - 1}
      <3>1. Heap(t, a, d) = {Prog(i) : i \in s + a .. (s + d) - 1}
        BY DEF Heap, HeapPages
      <3>2. /\ \A i \in s + a .. (s + d) - 1 : i - s \in a .. d - 1 /\ s + (i - s) = i
            /\ \A i \in a .. d - 1 : s + i \in s + a .. (s + d) - 1
        BY <1>1
      <3> HIDE DEF s
      <3> QED
        BY <3>1, <3>2
    <2> QED
      BY <1>1, <2>1
  <1>3. \A i, j : Prog(i) = Prog(j) => i = j
    BY Layout
  <1>4. Heap(t, a, c) \subseteq UserVa \ ShmVa
    <2>1. ASSUME NEW i \in a .. c - 1 PROVE Prog(s + i) \in UserVa \ ShmVa
      <3>1. s + i \in 0 .. MaxProgram + MaxHeap - 1
        BY <1>1
      <3> QED
        BY <3>1, Layout
    <2> QED
      BY <1>2, <2>1
  <1>5. Heap(t, a, b) \subseteq Heap(t, a, c)
    <2>1. \A i : i \in a .. b - 1 => i \in a .. c - 1
      BY <1>1
    <2> QED
      BY <1>2, <2>1
  <1>6. Heap(t, a, c) \cap ({Stack} \cup KStack) = {}
    BY <1>2, Layout
  <1>7. Heap(t, a, c) \subseteq ProgPages(s + c)
    <2>1. ASSUME NEW i \in a .. c - 1 PROVE s + i \in 0 .. (s + c) - 1
      BY <1>1
    <2> QED
      BY <1>2, <2>1 DEF ProgPages
  <1>8. ProgPages(s + b) \ Heap(t, a, c) = ProgPages(s + a)
    <2>1. ASSUME NEW i \in 0 .. (s + b) - 1, i \notin 0 .. (s + a) - 1
          PROVE  Prog(i) \in Heap(t, a, c)
      <3>1. i - s \in a .. c - 1 /\ s + (i - s) = i
        BY <1>1, <2>1
      <3> QED
        BY <1>2, <3>1
    <2>2. ASSUME NEW i \in 0 .. (s + a) - 1
          PROVE  i \in 0 .. (s + b) - 1 /\ Prog(i) \notin Heap(t, a, c)
      <3>1. i \in 0 .. (s + b) - 1 /\ \A j \in a .. c - 1 : s + j # i
        BY <1>1
      <3> QED
        BY <1>2, <1>3, <3>1
    <2> QED
      BY <2>1, <2>2 DEF ProgPages
  <1> QED
    BY <1>4, <1>5, <1>6, <1>7, <1>8 DEF s

\* brk works out the pages that it has to add.
LEMMA StepBrkGrow ==
  ASSUME IndInv, NEW t \in Tasks, NEW b \in Brks \cup {LastHalf(t)}, brk_grow(t, b)
  PROVE  IndInv'
PROOF
  <1>0. PICK V : V = HeapPages(roundUp(t, end_brk[t]), roundUp(t, b))
    OBVIOUS
  <1>1. /\ panic = "none" /\ job.op = "idle" /\ tstate[t] = "user" /\ b > end_brk[t] /\ Running
        /\ job' = [Idle EXCEPT !.op = "brk", !.t = t, !.was = b, !.todo = V]
        /\ mm' = mm /\ tstate' = tstate /\ count_stack' = count_stack
        /\ count_program' = count_program /\ start_brk' = start_brk /\ end_brk' = end_brk
        /\ seg' = seg /\ seg_size' = seg_size /\ attached' = attached /\ panic' = "none"
    BY <1>0 DEF brk_grow, Ready, Running, shmVars, countVars
  <1>2. /\ RestType /\ Exact(mm, seg, {}) /\ Separated(mm, seg) /\ Shapes /\ ~Forking
        /\ UserShape(t) /\ job \in JobType
    BY <1>1 DEF IndInv, Forking, RestType, Shapes, TaskShape
  <1>3. PICK n : HeapHas(t, n)
    BY <1>2 DEF UserShape
  <1>4. /\ AttachedMapped(t) /\ start_brk[t] = count_program[t] /\ start_brk[t] > 0
        /\ count_stack[t] = 1 /\ n \in 0 .. MaxHeap
        /\ Private(t) = ProgPages(count_program[t] + n) \cup {Stack} \cup KStack
        /\ \/ end_brk[t] = LastHalf(t)
           \/ end_brk[t] \in 0 .. 2 * MaxHeap /\ n = HalfUp(end_brk[t])
    BY <1>1, <1>2, <1>3 DEF UserShape, HeapHas, HeapEnd
  <1>5. /\ start_brk[t] \in Nat /\ end_brk[t] \in Nat /\ MaxHeap \in Nat /\ t \in Nat
        /\ LastHalf(t) \in Nat /\ LastHalf(t) > 2 * MaxHeap
        /\ roundUp(t, LastHalf(t)) = 0
        /\ \A x \in 0 .. 2 * MaxHeap : roundUp(t, x) = start_brk[t] + HalfUp(x)
    BY <1>2, <1>4, HeapAddress, TaskNumbers, MemoryAssumption
  <1>6. b \in 0 .. 2 * MaxHeap \/ b = LastHalf(t)
    BY MemoryAssumption
  <1>7. /\ end_brk[t] \in 0 .. 2 * MaxHeap /\ n = HalfUp(end_brk[t]) /\ n \in Nat /\ b \in Nat
        /\ roundUp(t, end_brk[t]) = start_brk[t] + n
    <2>1. end_brk[t] # LastHalf(t)
      BY <1>1, <1>5, <1>6
    <2> QED
      BY <1>4, <1>5, <1>6, <2>1
  <1>8. PICK k \in 0 .. MaxHeap :
          /\ V \subseteq UserVa \ ShmVa /\ V \cap ({Stack} \cup KStack) = {}
          /\ ProgPages(count_program[t] + k) \ V = ProgPages(count_program[t] + n)
          /\ \/ b = LastHalf(t) /\ V = {}
             \/ b \in 0 .. 2 * MaxHeap /\ k = HalfUp(b) /\ V = Heap(t, n, k)
    <2>1. CASE b = LastHalf(t)
      <3>1. start_brk[t] + n .. 0 - 1 = {}
        BY <1>5, <1>7
      <3>2. V = {}
        BY <1>0, <1>5, <1>7, <2>1, <3>1 DEF HeapPages
      <3> QED
        BY <1>4, <2>1, <3>2
    <2>2. CASE b \in 0 .. 2 * MaxHeap
      <3>1. PICK k : k = HalfUp(b)
        OBVIOUS
      <3>2. k \in 0 .. MaxHeap /\ k \in Nat /\ n <= k /\ k <= k
        <4>1. end_brk[t] <= b
          BY <1>1, <1>5, <1>7
        <4> QED
          BY <1>5, <1>7, <2>2, <3>1, <4>1, RoundUp
      <3>3. V = Heap(t, n, k)
        BY <1>0, <1>5, <1>7, <2>2, <3>1 DEF Heap
      <3>4. /\ Heap(t, n, k) \subseteq UserVa \ ShmVa
            /\ Heap(t, n, k) \cap ({Stack} \cup KStack) = {}
            /\ ProgPages(count_program[t] + k) \ Heap(t, n, k) = ProgPages(count_program[t] + n)
        BY <1>2, <1>4, <1>7, <3>2, HeapArea
      <3> QED
        BY <2>2, <3>1, <3>2, <3>3, <3>4
    <2> QED
      BY <1>6, <2>1, <2>2
  <1>9. V \in SUBSET Va
    BY <1>8, Layout
  <1>10. /\ job' \in JobType /\ job'.op = "brk" /\ job'.t = t /\ job'.was = b /\ job'.todo = V
         /\ ~Forking'
    <2>1. <<>> \in Seq(Nat \ {0}) /\ 0 \in 0 .. 1
      BY EmptySeq
    <2> QED
      BY <1>1, <1>5, <1>7, <1>9, <2>1 DEF Idle, JobType, Forking
  <1>11. RestType'
    BY <1>1, <1>2, <1>10 DEF RestType
  <1>12. LastHalf(t)' = LastHalf(t) /\ Heap(t, n, k)' = Heap(t, n, k)
    BY <1>1, SameNumbers
  <1>13. UserShape(t)'
    <2>1. AttachedMapped(t)'
      BY <1>1, <1>2, <1>4, AttachedKept
    <2>2. HeapEnd(t)' = b /\ Private(t)' = Private(t)
      BY <1>1, <1>10 DEF HeapEnd, Private
    <2>3. Private(t) = (ProgPages(count_program[t] + k) \cup {Stack} \cup KStack) \ V
      BY <1>4, <1>8
    <2>4. HeapHas(t, k)'
      BY <1>1, <1>8, <1>10, <1>12, <2>2, <2>3 DEF HeapHas
    <2> QED
      BY <1>1, <1>4, <2>1, <2>4 DEF UserShape
  <1>14. BrkShape(t)'
    <2>1. CASE b = LastHalf(t) /\ V = {}
      BY <1>1, <1>10, <1>12, <2>1 DEF BrkShape
    <2>2. CASE b \in 0 .. 2 * MaxHeap /\ k = HalfUp(b) /\ V = Heap(t, n, k)
      <3>1. Heap(t, HalfUp(end_brk[t]), HalfUp(job.was))' = V
        BY <1>1, <1>7, <1>10, <2>2 DEF Heap, HeapPages
      <3> QED
        BY <1>1, <1>7, <1>10, <2>2, <3>1 DEF BrkShape
    <2> QED
      BY <1>8, <2>1, <2>2
  <1>15. JobShape'
    BY <1>10, <1>14 DEF JobShape
  <1>16. Shapes'
    <2>1. TaskShape(t)'
      BY <1>1, <1>13 DEF TaskShape
    <2>2. ASSUME NEW u \in Tasks, u # t PROVE Kept(u)
      BY <1>1, <1>2, <1>10, <2>2 DEF Kept
    <2> QED
      BY <1>2, <2>1, <2>2, ShapesExcept
  <1>17. AssertionsExplained'
    BY <1>1, NoPanicExplained
  <1> QED
    BY <1>1, <1>2, <1>11, <1>15, <1>16, <1>17 DEF IndInv

\* A process whose brk has pages to add: those it has, and the numbers that
\* bound them
LEMMA BrkJob ==
  ASSUME IndInv, Running, job.op = "brk", job.todo # {}, NEW t, t = job.t
  PROVE  /\ RestType /\ Exact(mm, seg, {}) /\ Separated(mm, seg) /\ Shapes /\ ~Forking
         /\ t \in Tasks /\ tstate[t] = "user" /\ job.was \in 0 .. 2 * MaxHeap
         /\ end_brk[t] \in 0 .. 2 * MaxHeap /\ end_brk[t] < job.was
         /\ AttachedMapped(t) /\ start_brk[t] = count_program[t] /\ start_brk[t] > 0
         /\ count_stack[t] = 1
         /\ Private(t) = (ProgPages(count_program[t] + HalfUp(job.was)) \cup {Stack} \cup KStack)
                         \ job.todo
         /\ HalfUp(end_brk[t]) \in Nat /\ HalfUp(job.was) \in 0 .. MaxHeap
         /\ HalfUp(job.was) \in Nat /\ HalfUp(end_brk[t]) <= HalfUp(job.was)
         /\ job.todo \subseteq Heap(t, HalfUp(end_brk[t]), HalfUp(job.was))
PROOF
  <1>1. RestType /\ Exact(mm, seg, {}) /\ Separated(mm, seg) /\ Shapes /\ ~Forking /\ BrkShape(t)
    BY DEF IndInv, JobShape, Forking
  <1>2. /\ t \in Tasks /\ tstate[t] = "user" /\ job.was \in 0 .. 2 * MaxHeap
        /\ end_brk[t] \in 0 .. 2 * MaxHeap /\ end_brk[t] < job.was
        /\ job.todo \subseteq Heap(t, HalfUp(end_brk[t]), HalfUp(job.was))
    BY <1>1 DEF BrkShape
  <1>3. UserShape(t)
    BY <1>1, <1>2 DEF Shapes, TaskShape
  <1>4. PICK n : HeapHas(t, n)
    BY <1>3 DEF UserShape
  <1>5. /\ AttachedMapped(t) /\ start_brk[t] = count_program[t] /\ start_brk[t] > 0
        /\ count_stack[t] = 1
        /\ job.was = LastHalf(t) \/ n = HalfUp(job.was)
        /\ Private(t) = (ProgPages(count_program[t] + n) \cup {Stack} \cup KStack) \ job.todo
    BY <1>3, <1>4 DEF UserShape, HeapHas, HeapEnd
  <1>6. LastHalf(t) \in Nat /\ LastHalf(t) > 2 * MaxHeap /\ MaxHeap \in Nat
    BY <1>1, <1>2, <1>5, HeapAddress, TaskNumbers
  <1>7. n = HalfUp(job.was)
    BY <1>2, <1>5, <1>6
  <1>8. job.was \in Nat /\ end_brk[t] \in Nat /\ end_brk[t] <= job.was
    BY <1>2, <1>6
  <1>9. /\ HalfUp(end_brk[t]) \in Nat /\ HalfUp(job.was) \in 0 .. MaxHeap
        /\ HalfUp(job.was) \in Nat /\ HalfUp(end_brk[t]) <= HalfUp(job.was)
    BY <1>2, <1>8, RoundUp
  <1> QED
    BY <1>1, <1>2, <1>5, <1>7, <1>9

\* brk maps one page more, or gives back those it has mapped.
LEMMA StepBrkPage ==
  ASSUME IndInv, brk_page
  PROVE  IndInv'
PROOF
  <1>0. PICK t, va, a, b : /\ t = job.t /\ va = Next_va
                           /\ a = HalfUp(end_brk[t]) /\ b = HalfUp(job.was)
    OBVIOUS
  <1>1. /\ Running /\ job.op = "brk" /\ job.todo # {} /\ panic' = "none"
        /\ tstate' = tstate /\ count_stack' = count_stack /\ count_program' = count_program
        /\ start_brk' = start_brk /\ end_brk' = end_brk
        /\ seg' = seg /\ seg_size' = seg_size /\ attached' = attached
    BY DEF brk_page, Running, countVars, shmVars
  <1>2. /\ RestType /\ Exact(mm, seg, {}) /\ Separated(mm, seg) /\ Shapes /\ ~Forking
        /\ t \in Tasks /\ tstate[t] = "user" /\ AttachedMapped(t)
        /\ start_brk[t] = count_program[t] /\ start_brk[t] > 0 /\ count_stack[t] = 1
        /\ job.was \in 0 .. 2 * MaxHeap
        /\ end_brk[t] \in 0 .. 2 * MaxHeap /\ end_brk[t] < job.was
        /\ Private(t) = (ProgPages(count_program[t] + b) \cup {Stack} \cup KStack) \ job.todo
        /\ a \in Nat /\ b \in 0 .. MaxHeap /\ b \in Nat /\ a <= b
        /\ job.todo \subseteq Heap(t, a, b)
    BY <1>0, <1>1, BrkJob
  <1>3. MaxHeap \in Nat /\ job \in JobType
    BY <1>2, MemoryAssumption DEF RestType
  <1>4. /\ Heap(t, a, b) \subseteq UserVa \ ShmVa
        /\ Heap(t, a, b) \subseteq ProgPages(count_program[t] + b)
    <2>1. b <= b
      BY <1>2
    <2> QED
      BY <1>2, <2>1, HeapArea
  <1>5. va \in job.todo /\ va \in Va /\ va \notin ShmVa /\ va \in Va \ ShmVa
    BY <1>0, <1>1, <1>2, <1>4, NextPage
  <1>6. Va \ ShmVa \in SUBSET Va /\ ShmVa \in SUBSET Va /\ {} \in SUBSET Tables
    BY Layout
  <1>7. CASE CanAlloc(mm, t, va)
    <2>1. mm' = page_alloc_insert(mm, t, va) /\ job' = [job EXCEPT !.todo = @ \ {va}]
      BY <1>0, <1>7 DEF brk_page
    <2>2. mm.map[t][va] = NoFrame
      <3>1. va \notin Private(t)
        BY <1>2, <1>5
      <3> QED
        BY <1>5, <3>1 DEF Private, Mapped
    <2>3. /\ Exact(mm', seg, {}) /\ Separated(mm', seg) /\ PageAdded(mm, mm', t, va)
          /\ Local(mm, mm', seg, t)
      BY <1>2, <1>5, <1>7, <2>1, <2>2, AllocPage
    <2>4. /\ job' \in JobType /\ job'.op = "brk" /\ job'.t = t /\ job'.was = job.was
          /\ job'.todo = job.todo \ {va} /\ ~Forking'
      BY <1>0, <1>1, <1>2, <1>3, <2>1, JobTodo
    <2>5. Mapped(mm', t, Va \ ShmVa) = Mapped(mm, t, Va \ ShmVa) \cup {va}
      BY <1>2, <1>5, <1>6, <2>3, AddedMapped
    <2>6. RestType'
      BY <1>1, <1>2, <2>4 DEF RestType
    <2>7. UserShape(t)'
      <3>1. \A w \in ShmVa : mm'.map[t][w] = mm.map[t][w]
        BY <1>2, <1>5, <1>6, <2>3 DEF PageAdded, MapDiffers
      <3>2. AttachedMapped(t)'
        BY <1>1, <1>2, <3>1, AttachedKept
      <3>3. HeapEnd(t)' = job.was
        BY <2>4 DEF HeapEnd
      <3>4. Private(t)' = (ProgPages(count_program[t] + b) \cup {Stack} \cup KStack)
                          \ (job.todo \ {va})
        <4>1. Private(t)' = Private(t) \cup {va}
          BY <2>5 DEF Private
        <4>2. va \in ProgPages(count_program[t] + b)
          BY <1>2, <1>4, <1>5
        <4> QED
          BY <1>2, <1>5, <4>1, <4>2
      <3>5. HeapHas(t, b)'
        BY <1>0, <1>1, <1>2, <2>4, <3>3, <3>4 DEF HeapHas
      <3> QED
        BY <1>1, <1>2, <3>2, <3>5 DEF UserShape
    <2>8. BrkShape(t)'
      <3>1. job'.todo \subseteq Heap(t, HalfUp(end_brk[t]), HalfUp(job.was))'
        BY <1>0, <1>1, <1>2, <2>4 DEF Heap, HeapPages
      <3> QED
        BY <1>1, <1>2, <2>4, <3>1 DEF BrkShape
    <2>9. JobShape'
      BY <2>4, <2>8 DEF JobShape
    <2>10. Shapes'
      <3>1. TaskShape(t)'
        BY <1>1, <1>2, <2>7 DEF TaskShape
      <3>2. ASSUME NEW u \in Tasks, u # t PROVE Kept(u)
        BY <1>0, <1>1, <1>2, <2>3, <2>4, <3>2 DEF Kept, Local
      <3> QED
        BY <1>2, <3>1, <3>2, ShapesExcept
    <2>11. AssertionsExplained'
      BY <1>1, NoPanicExplained
    <2> QED
      BY <1>1, <2>3, <2>6, <2>9, <2>10, <2>11 DEF IndInv
  <1>8. CASE ~CanAlloc(mm, t, va)
    <2>1. PICK V : V = Heap(t, a, MaxHeap)
      OBVIOUS
    <2>2. mm' = Release(mm, t, V, {}) /\ job' = Idle
      <3>1. roundUp(t, end_brk[t]) = start_brk[t] + a
        BY <1>0, <1>2, HeapAddress
      <3>2. V = HeapPages(roundUp(t, end_brk[t]), start_brk[t] + MaxHeap)
        BY <2>1, <3>1 DEF Heap
      <3> QED
        BY <1>0, <1>8, <3>2 DEF brk_page, bad_sys_brk
    <2>3. /\ V \subseteq UserVa \ ShmVa /\ Heap(t, a, b) \subseteq V
          /\ V \cap ({Stack} \cup KStack) = {}
          /\ ProgPages(count_program[t] + b) \ V = ProgPages(count_program[t] + a)
      <3>1. MaxHeap \in 0 .. MaxHeap /\ b <= MaxHeap
        BY <1>2, <1>3
      <3>2. /\ Heap(t, a, MaxHeap) \subseteq UserVa \ ShmVa
            /\ Heap(t, a, b) \subseteq Heap(t, a, MaxHeap)
            /\ Heap(t, a, MaxHeap) \cap ({Stack} \cup KStack) = {}
            /\ ProgPages(count_program[t] + b) \ Heap(t, a, MaxHeap)
                 = ProgPages(count_program[t] + a)
        BY <1>2, <3>1, HeapArea
      <3> QED
        BY <2>1, <3>2
    <2>4. V \in SUBSET Va
      BY <2>3, Layout
    <2>5. /\ Exact(mm', seg, {}) /\ Separated(mm', seg) /\ Released(mm, mm', t, V, {})
          /\ Local(mm, mm', seg, t)
      BY <1>2, <1>6, <2>2, <2>4, ReleaseExact
    <2>6. Mapped(mm', t, Va \ ShmVa) = Mapped(mm, t, Va \ ShmVa) \ V
      BY <1>2, <1>6, <2>5, ReleasedMapped
    <2>7. job' \in JobType /\ JobShape' /\ ~Forking' /\ job'.op # "brk"
      BY <2>2, IdleJob
    <2>8. RestType'
      BY <1>1, <1>2, <2>7 DEF RestType
    <2>9. UserShape(t)'
      <3>1. \A w \in ShmVa : mm'.map[t][w] = mm.map[t][w]
        BY <1>2, <1>6, <2>3, <2>5 DEF Released
      <3>2. AttachedMapped(t)'
        BY <1>1, <1>2, <3>1, AttachedKept
      <3>3. HeapEnd(t)' = end_brk[t]
        BY <1>1, <2>7 DEF HeapEnd
      <3>4. Private(t)' = ProgPages(count_program[t] + a) \cup {Stack} \cup KStack
        <4>1. Private(t)' = Private(t) \ V
          BY <2>6 DEF Private
        <4>2. job.todo \subseteq V
          BY <1>2, <2>3
        <4> QED
          BY <1>2, <2>3, <4>1, <4>2
      <3>5. a \in 0 .. MaxHeap
        BY <1>2, <1>3
      <3>6. HeapHas(t, a)'
        BY <1>0, <1>1, <1>2, <2>7, <3>3, <3>4, <3>5 DEF HeapHas
      <3> QED
        BY <1>1, <1>2, <3>2, <3>6 DEF UserShape
    <2>10. Shapes'
      <3>1. TaskShape(t)'
        BY <1>1, <1>2, <2>9 DEF TaskShape
      <3>2. ASSUME NEW u \in Tasks, u # t PROVE Kept(u)
        BY <1>0, <1>1, <1>2, <2>5, <2>7, <3>2 DEF Kept, Local
      <3> QED
        BY <1>2, <3>1, <3>2, ShapesExcept
    <2>11. AssertionsExplained'
      BY <1>1, NoPanicExplained
    <2> QED
      BY <1>1, <2>5, <2>7, <2>8, <2>10, <2>11 DEF IndInv
  <1> QED
    BY <1>7, <1>8

\* brk has mapped all the pages it was asked for.
LEMMA StepBrkEnd ==
  ASSUME IndInv, brk_end
  PROVE  IndInv'
PROOF
  <1>0. PICK t : t = job.t
    OBVIOUS
  <1>1. /\ Running /\ job.op = "brk" /\ job.todo = {} /\ job' = Idle /\ panic' = "none"
        /\ end_brk' = [end_brk EXCEPT ![t] = job.was]
        /\ mm' = mm /\ tstate' = tstate /\ count_stack' = count_stack
        /\ count_program' = count_program /\ start_brk' = start_brk
        /\ seg' = seg /\ seg_size' = seg_size /\ attached' = attached
    BY <1>0 DEF brk_end, Running, shmVars
  <1>2. /\ RestType /\ Exact(mm, seg, {}) /\ Separated(mm, seg) /\ Shapes /\ ~Forking
        /\ t \in Tasks /\ tstate[t] = "user" /\ UserShape(t) /\ job.was \in 0 .. 2 * AddrPages
    <2>1. RestType /\ Exact(mm, seg, {}) /\ Separated(mm, seg) /\ Shapes /\ ~Forking /\ BrkShape(t)
      BY <1>0, <1>1 DEF IndInv, JobShape, Forking
    <2>2. /\ t \in Tasks /\ tstate[t] = "user"
          /\ job.was = LastHalf(t) \/ job.was \in 0 .. 2 * MaxHeap
      BY <2>1 DEF BrkShape
    <2>3. UserShape(t)
      BY <2>1, <2>2 DEF Shapes, TaskShape
    <2>4. LastHalf(t) \in 0 .. 2 * AddrPages
      BY <2>1, <2>2, <2>3, HeapAddress DEF UserShape
    <2>5. \A x \in 0 .. 2 * MaxHeap : x \in 0 .. 2 * AddrPages
      BY MemoryAssumption
    <2> QED
      BY <2>1, <2>2, <2>3, <2>4, <2>5
  <1>3. job' \in JobType /\ JobShape' /\ ~Forking' /\ job'.op # "brk"
    BY <1>1, IdleJob
  <1>4. /\ end_brk' \in [Tasks -> 0 .. 2 * AddrPages] /\ end_brk'[t] = job.was
        /\ \A u \in Tasks : u # t => end_brk'[u] = end_brk[u]
    BY <1>1, <1>2 DEF RestType
  <1>5. RestType'
    BY <1>1, <1>2, <1>3, <1>4 DEF RestType
  <1>6. UserShape(t)'
    <2>1. AttachedMapped(t)'
      BY <1>1, <1>2, AttachedKept DEF UserShape
    <2>2. HeapEnd(t)' = job.was /\ Private(t)' = Private(t)
      BY <1>1, <1>3, <1>4 DEF HeapEnd, Private
    <2>3. PICK n : HeapHas(t, n)
      BY <1>2 DEF UserShape
    <2>4. HeapEnd(t) = job.was /\ LastHalf(t)' = LastHalf(t)
      BY <1>0, <1>1, SameNumbers DEF HeapEnd
    <2>5. HeapHas(t, n)'
      BY <1>0, <1>1, <1>3, <2>2, <2>3, <2>4 DEF HeapHas
    <2> QED
      BY <1>1, <1>2, <2>1, <2>5 DEF UserShape
  <1>7. Shapes'
    <2>1. TaskShape(t)'
      BY <1>1, <1>2, <1>6 DEF TaskShape
    <2>2. ASSUME NEW u \in Tasks, u # t PROVE Kept(u)
      BY <1>0, <1>1, <1>2, <1>3, <1>4, <2>2 DEF Kept
    <2> QED
      BY <1>2, <2>1, <2>2, ShapesExcept
  <1>8. AssertionsExplained'
    BY <1>1, NoPanicExplained
  <1> QED
    BY <1>1, <1>2, <1>3, <1>5, <1>7, <1>8 DEF IndInv

\* brk unmaps the pages above the new end.
LEMMA StepBrkShrink ==
  ASSUME IndInv, NEW t \in Tasks, NEW b \in Brks \cup {LastHalf(t)}, brk_shrink(t, b)
  PROVE  IndInv'
PROOF
  <1>0. PICK last, G : /\ last = (roundUp(t, end_brk[t]) - 1) % AddrPages
                       /\ G = HeapPages(roundUp(t, b), last + 1)
    OBVIOUS
  <1>1. /\ panic = "none" /\ job.op = "idle" /\ tstate[t] = "user" /\ b <= end_brk[t] /\ Running
        /\ IF G \subseteq Mapped(mm, t, UserVa)
           THEN mm' = Release(mm, t, G, {}) /\ end_brk' = [end_brk EXCEPT ![t] = b]
                /\ panic' = "none"
           ELSE panic' = "sys_brk" /\ mm' = mm /\ end_brk' = end_brk
        /\ tstate' = tstate /\ count_stack' = count_stack /\ count_program' = count_program
        /\ start_brk' = start_brk /\ job' = job
        /\ seg' = seg /\ seg_size' = seg_size /\ attached' = attached
    BY <1>0 DEF brk_shrink, Ready, Running, shmVars
  <1>2. /\ RestType /\ Exact(mm, seg, {}) /\ Separated(mm, seg) /\ Shapes /\ ~Forking
        /\ UserShape(t) /\ JobShape
    BY <1>1 DEF IndInv, Forking, Shapes, TaskShape
  <1>3. PICK y : HeapHas(t, y)
    BY <1>2 DEF UserShape
  <1>4. /\ AttachedMapped(t) /\ start_brk[t] = count_program[t] /\ start_brk[t] > 0
        /\ count_stack[t] = 1 /\ y \in 0 .. MaxHeap
        /\ Private(t) = ProgPages(count_program[t] + y) \cup {Stack} \cup KStack
        /\ \/ end_brk[t] = LastHalf(t)
           \/ end_brk[t] \in 0 .. 2 * MaxHeap /\ y = HalfUp(end_brk[t])
    BY <1>1, <1>2, <1>3 DEF UserShape, HeapHas, HeapEnd
  <1>5. /\ start_brk[t] \in Nat /\ start_brk[t] <= MaxProgram /\ end_brk[t] \in Nat
        /\ MaxHeap \in Nat /\ MaxProgram \in Nat
        /\ AddrPages \in Nat /\ AddrPages > 2 * MaxProgram + 2 * MaxHeap
    BY <1>2, TaskNumbers
  <1>6. /\ LastHalf(t) \in Nat /\ LastHalf(t) > 2 * MaxHeap
        /\ roundUp(t, LastHalf(t)) = 0
        /\ \A x \in 0 .. 2 * MaxHeap : roundUp(t, x) = start_brk[t] + HalfUp(x)
        /\ end_brk[t] = LastHalf(t) => Wrapped(t)
    BY <1>2, <1>4, HeapAddress
  <1>7. b \in 0 .. 2 * MaxHeap \/ b = LastHalf(t)
    BY MemoryAssumption
  <1>8. CASE end_brk[t] = LastHalf(t)
    <2>1. last = AddrPages - 1
      <3>1. (0 - 1) % AddrPages = AddrPages - 1
        <4>1. AddrPages \in Nat /\ AddrPages > 0
          BY <1>5
        <4> QED
          BY <4>1, PageBelowZero
      <3> QED
        BY <1>0, <1>6, <1>8, <3>1
    <2>2. roundUp(t, b) \in 0 .. AddrPages - 1
      <3>1. CASE b = LastHalf(t)
        BY <1>5, <1>6, <3>1
      <3>2. CASE b \in 0 .. 2 * MaxHeap
        <4>1. HalfUp(b) \in 0 .. MaxHeap
          BY <3>2, RoundUp
        <4>2. roundUp(t, b) = start_brk[t] + HalfUp(b)
          BY <1>6, <3>2
        <4> QED
          BY <1>5, <4>1, <4>2
      <3> QED
        BY <1>7, <3>1, <3>2
    <2>3. AddrPages - 1 \in roundUp(t, b) .. (last + 1) - 1
      BY <1>5, <2>1, <2>2
    <2>4. Prog(AddrPages - 1) \in G
      BY <1>0, <2>3 DEF HeapPages
    <2>5. Prog(AddrPages - 1) \notin UserVa
      <3>1. AddrPages - 1 \notin 0 .. MaxProgram + MaxHeap - 1
        BY <1>5
      <3>2. \A i \in 0 .. MaxProgram + MaxHeap - 1 : Prog(i) # Prog(AddrPages - 1)
        BY <3>1, Layout
      <3> QED
        BY <3>2, Layout DEF UserVa
    <2>6. panic' = "sys_brk" /\ mm' = mm /\ end_brk' = end_brk
      BY <1>1, <2>4, <2>5 DEF Mapped
    <2>7. Wrapped(t)' /\ tstate'[t] = "user"
      BY <1>1, <1>6, <1>8, <2>6, SameNumbers
    <2>8. AssertionsExplained'
      BY <2>6, <2>7 DEF AssertionsExplained
    <2>9. RestType'
      BY <1>1, <1>2, <2>6 DEF RestType
    <2>10. ~Running'
      BY <2>6 DEF Running
    <2> QED
      BY <1>1, <1>2, <2>6, <2>8, <2>9, <2>10 DEF IndInv
  <1>9. CASE end_brk[t] \in 0 .. 2 * MaxHeap /\ y = HalfUp(end_brk[t])
    <2>0. PICK x, V : x = HalfUp(b) /\ V = Heap(t, x, y)
      OBVIOUS
    <2>1. b \in 0 .. 2 * MaxHeap /\ b \in Nat
      BY <1>1, <1>5, <1>6, <1>7, <1>9
    <2>2. x \in Nat /\ y \in Nat /\ y \in 0 .. MaxHeap /\ x \in 0 .. MaxHeap /\ x <= y /\ y <= y
      BY <1>1, <1>5, <1>9, <2>0, <2>1, RoundUp
    <2>3. G = V
      <3>1. roundUp(t, end_brk[t]) = start_brk[t] + y /\ roundUp(t, b) = start_brk[t] + x
        BY <1>6, <1>9, <2>0, <2>1
      <3>2. /\ (start_brk[t] + y) - 1 \in Nat /\ (start_brk[t] + y) - 1 < AddrPages
            /\ ((start_brk[t] + y) - 1) + 1 = start_brk[t] + y
        BY <1>4, <1>5, <2>2
      <3>3. \A i \in Nat : i < AddrPages => i % AddrPages = i
        BY <1>5
      <3>4. last = (start_brk[t] + y) - 1
        BY <1>0, <3>1, <3>2, <3>3
      <3> QED
        BY <1>0, <2>0, <3>1, <3>2, <3>4 DEF Heap
    <2>4. /\ V \subseteq UserVa \ ShmVa /\ V \cap ({Stack} \cup KStack) = {}
          /\ V \subseteq ProgPages(count_program[t] + y)
          /\ ProgPages(count_program[t] + y) \ V = ProgPages(count_program[t] + x)
      BY <1>2, <1>4, <2>0, <2>2, HeapArea
    <2>5. V \in SUBSET Va /\ {} \in SUBSET Tables /\ Va \ ShmVa \in SUBSET Va /\ ShmVa \in SUBSET Va
      BY <2>4, Layout
    <2>6. V \subseteq Mapped(mm, t, UserVa)
      BY <1>4, <2>4 DEF Private, Mapped
    <2>7. /\ panic' = "none" /\ mm' = Release(mm, t, V, {})
          /\ end_brk' = [end_brk EXCEPT ![t] = b]
      BY <1>1, <2>3, <2>6
    <2>8. /\ Exact(mm', seg, {}) /\ Separated(mm', seg) /\ Released(mm, mm', t, V, {})
          /\ Local(mm, mm', seg, t)
      BY <1>2, <2>5, <2>7, ReleaseExact
    <2>9. /\ end_brk' \in [Tasks -> 0 .. 2 * AddrPages] /\ end_brk'[t] = b
          /\ \A u \in Tasks : u # t => end_brk'[u] = end_brk[u]
      <3>1. b \in 0 .. 2 * AddrPages
        BY <1>5, <2>1
      <3> QED
        BY <1>2, <2>7, <3>1 DEF RestType
    <2>10. RestType'
      BY <1>1, <1>2, <2>7, <2>9 DEF RestType
    <2>11. UserShape(t)'
      <3>1. \A w \in ShmVa : mm'.map[t][w] = mm.map[t][w]
        BY <2>4, <2>5, <2>8 DEF Released
      <3>2. AttachedMapped(t)'
        BY <1>1, <1>2, <1>4, <3>1, AttachedKept
      <3>3. HeapEnd(t)' = b
        BY <1>1, <2>9 DEF HeapEnd
      <3>4. Private(t)' = ProgPages(count_program[t] + x) \cup {Stack} \cup KStack
        <4>1. Mapped(mm', t, Va \ ShmVa) = Mapped(mm, t, Va \ ShmVa) \ V
          BY <2>5, <2>8, ReleasedMapped
        <4>2. Private(t)' = Private(t) \ V
          BY <4>1 DEF Private
        <4> QED
          BY <1>4, <2>4, <4>2
      <3>5. HeapHas(t, x)'
        BY <1>1, <2>0, <2>1, <2>2, <3>3, <3>4 DEF HeapHas
      <3> QED
        BY <1>1, <1>4, <3>2, <3>5 DEF UserShape
    <2>12. Shapes'
      <3>1. TaskShape(t)'
        BY <1>1, <2>11 DEF TaskShape
      <3>2. ASSUME NEW u \in Tasks, u # t PROVE Kept(u)
        BY <1>1, <1>2, <2>8, <2>9, <3>2 DEF Kept, Local
      <3> QED
        BY <1>2, <3>1, <3>2, ShapesExcept
    <2>13. JobShape'
      BY <1>1, <1>2 DEF JobShape, Forking
    <2>14. AssertionsExplained'
      BY <2>7, NoPanicExplained
    <2> QED
      BY <1>1, <2>8, <2>10, <2>12, <2>13, <2>14 DEF IndInv
  <1> QED
    BY <1>4, <1>8, <1>9

-----------------------------------------------------------------------------
(* Shared memory.                                                          *)

\* shmget makes a segment with a frame of its own.
LEMMA StepShmget ==
  ASSUME IndInv, NEW t \in Tasks, NEW k \in Segs, NEW size \in SegSizes, shmget(t, k, size)
  PROVE  IndInv'
PROOF
  <1>1. /\ panic = "none" /\ job.op = "idle" /\ tstate[t] = "user" /\ Running
        /\ seg[k] = NoFrame /\ Free(mm) # {} /\ mm' = shmget_page(mm)
        /\ seg' = [seg EXCEPT ![k] = FirstFree(mm)]
        /\ seg_size' = [seg_size EXCEPT ![k] = size]
        /\ tstate' = tstate /\ count_stack' = count_stack /\ count_program' = count_program
        /\ start_brk' = start_brk /\ end_brk' = end_brk /\ job' = job
        /\ attached' = attached /\ panic' = "none"
    BY DEF shmget, Ready, Running, countVars
  <1>2. /\ RestType /\ Exact(mm, seg, {}) /\ Separated(mm, seg) /\ Shapes /\ ~Forking /\ JobShape
    BY <1>1 DEF IndInv, Forking
  <1>3. Exact(mm', seg', {}) /\ Separated(mm', seg') /\ mm'.map = mm.map /\ mm'.tab = mm.tab
    BY <1>1, <1>2, ShmgetExact
  <1>4. seg' \in [Segs -> Frame \cup {NoFrame}] /\ \A j \in Segs : j # k => seg'[j] = seg[j]
    <2>1. FirstFree(mm) \in Frame
      BY <1>1, <1>2, FreshFrame
    <2> QED
      BY <1>1, <1>2, <2>1 DEF RestType
  <1>5. seg_size' \in [Segs -> {0} \cup SegSizes]
    BY <1>1, <1>2 DEF RestType
  <1>6. RestType'
    BY <1>1, <1>2, <1>4, <1>5 DEF RestType
  <1>7. Shapes'
    <2> SUFFICES ASSUME NEW u \in Tasks PROVE TaskShape(u)'
      BY DEF Shapes
    <2>1. Kept(u)
      BY <1>1, <1>2, <1>3, <1>4 DEF Kept
    <2> QED
      BY <1>2, <2>1, KeptShape DEF Shapes
  <1>8. JobShape'
    BY <1>1, <1>2 DEF JobShape, Forking
  <1>9. AssertionsExplained'
    BY <1>1, NoPanicExplained
  <1> QED
    BY <1>3, <1>6, <1>7, <1>8, <1>9 DEF IndInv

\* shmat maps a segment at a free address of the task.
LEMMA StepShmat ==
  ASSUME IndInv, NEW t \in Tasks, NEW k \in Segs, shmat(t, k)
  PROVE  IndInv'
PROOF
  <1> DEFINE absent == {i \in 0 .. MaxAttach - 1 : mm.map[t][Shm(i)] = NoFrame}
  <1>0. PICK va, e : va = Shm(Min(absent)) /\ e = [va |-> va, seg |-> k]
    OBVIOUS
  <1>1. /\ panic = "none" /\ job.op = "idle" /\ tstate[t] = "user" /\ Running
        /\ seg[k] # NoFrame /\ absent # {} /\ CanGet(mm, t, va)
        /\ mm' = page_insert(mm, t, va, seg[k])
        /\ attached' = [attached EXCEPT ![t] = Append(attached[t], e)]
        /\ tstate' = tstate /\ count_stack' = count_stack /\ count_program' = count_program
        /\ start_brk' = start_brk /\ end_brk' = end_brk /\ job' = job
        /\ seg' = seg /\ seg_size' = seg_size /\ panic' = "none"
    BY <1>0 DEF shmat, Ready, Running, countVars
  <1>2. /\ RestType /\ Exact(mm, seg, {}) /\ Separated(mm, seg) /\ Shapes /\ ~Forking /\ JobShape
        /\ UserShape(t)
    BY <1>1 DEF IndInv, Forking, Shapes, TaskShape
  <1>3. va \in ShmVa /\ va \in Va /\ mm.map[t][va] = NoFrame
    <2>1. absent \in SUBSET Nat
      BY MemoryAssumption
    <2>2. Min(absent) \in absent
      BY <1>1, <2>1, MinInSet
    <2>3. PICK x \in 0 .. MaxAttach - 1 : va = Shm(x) /\ mm.map[t][Shm(x)] = NoFrame
      BY <1>0, <2>2
    <2>4. Shm(x) \in ShmVa
      BY DEF ShmVa
    <2> QED
      BY <2>3, <2>4, Layout
  <1> HIDE DEF absent
  <1>4. Exact(mm', seg, {}) /\ Separated(mm', seg) /\ PageInserted(mm, mm', t, va, seg[k])
    BY <1>1, <1>2, <1>3, ShmatExact
  <1>5. /\ mm'.map[t][va] = seg[k]
        /\ \A u \in Tasks, w \in Va : u # t \/ w # va => mm'.map[u][w] = mm.map[u][w]
        /\ \A u \in Tasks, r \in Tables : u # t => mm'.tab[u][r] = mm.tab[u][r]
    BY <1>4 DEF PageInserted, MapDiffers, TableGrown
  <1>6. /\ attached[t] \in Seq([va : ShmVa, seg : Segs]) /\ e \in [va : ShmVa, seg : Segs]
        /\ e.va = va /\ e.seg = k
    BY <1>0, <1>2, <1>3 DEF RestType
  <1>7. /\ Append(attached[t], e) \in Seq([va : ShmVa, seg : Segs])
        /\ Len(attached[t]) \in Nat /\ Len(Append(attached[t], e)) = Len(attached[t]) + 1
        /\ Append(attached[t], e)[Len(attached[t]) + 1] = e
        /\ \A i \in 1 .. Len(attached[t]) : Append(attached[t], e)[i] = attached[t][i]
    BY <1>6, AppendProperties, LenProperties
  <1>8. /\ attached' \in [Tasks -> Seq([va : ShmVa, seg : Segs])]
        /\ attached'[t] = Append(attached[t], e)
        /\ \A u \in Tasks : u # t => attached'[u] = attached[u]
    BY <1>1, <1>2, <1>7 DEF RestType
  <1>9. RestType'
    BY <1>1, <1>2, <1>8 DEF RestType
  <1>10. AttachedMapped(t)'
    <2> DEFINE s == attached[t]
               n == Len(s)
               z == Append(s, e)
    <2>1. /\ z = attached'[t] /\ n \in Nat /\ Len(z) = n + 1 /\ z[n + 1] = e
          /\ \A i \in 1 .. n : z[i] = s[i]
      BY <1>7, <1>8
    <2>2. \A i \in 1 .. n : /\ s[i].va \in ShmVa /\ s[i].va \in Va
                            /\ seg[s[i].seg] # NoFrame /\ mm.map[t][s[i].va] = seg[s[i].seg]
                            /\ \A j \in 1 .. n : s[j].va = s[i].va => j = i
      BY <1>2, AttachedType DEF UserShape, AttachedMapped
    <2> HIDE DEF s, n, z
    <2>3. \A i \in 1 .. n : s[i].va # va /\ mm'.map[t][s[i].va] = seg[s[i].seg]
      BY <1>3, <1>5, <2>2
    <2>4. \A i \in 1 .. Len(z) : i \in 1 .. n \/ i = n + 1
      BY <2>1
    <2>5. ASSUME NEW i \in 1 .. Len(z)
          PROVE  /\ seg[z[i].seg] # NoFrame /\ mm'.map[t][z[i].va] = seg[z[i].seg]
                 /\ \A j \in 1 .. Len(z) : z[j].va = z[i].va => j = i
      <3>1. CASE i \in 1 .. n
        BY <1>6, <2>1, <2>2, <2>3, <2>4, <3>1
      <3>2. CASE i = n + 1
        <4>1. z[i] = e /\ z[i].va = va /\ z[i].seg = k
          BY <1>6, <2>1, <3>2
        <4>2. \A j \in 1 .. n : z[j].va # va
          BY <2>1, <2>3
        <4> QED
          BY <1>1, <1>5, <2>4, <3>2, <4>1, <4>2
      <3> QED
        BY <2>4, <3>1, <3>2
    <2> QED
      BY <1>1, <2>1, <2>5, SMTT(30) DEF AttachedMapped
  <1>11. UserShape(t)'
    <2>1. Private(t)' = Private(t)
      BY <1>3, <1>5 DEF Private, Mapped
    <2>2. HeapEnd(t)' = HeapEnd(t)
      BY <1>1 DEF HeapEnd
    <2>3. PICK n : HeapHas(t, n)
      BY <1>2 DEF UserShape
    <2>4. LastHalf(t)' = LastHalf(t)
      BY <1>1, SameNumbers
    <2>5. HeapHas(t, n)'
      BY <1>1, <2>1, <2>2, <2>3, <2>4 DEF HeapHas
    <2> QED
      BY <1>1, <1>2, <1>10, <2>5 DEF UserShape
  <1>12. Shapes'
    <2>1. TaskShape(t)'
      BY <1>1, <1>11 DEF TaskShape
    <2>2. ASSUME NEW u \in Tasks, u # t PROVE Kept(u)
      BY <1>1, <1>2, <1>5, <1>8, <2>2 DEF Kept
    <2> QED
      BY <1>2, <2>1, <2>2, ShapesExcept
  <1>13. JobShape'
    BY <1>1, <1>2 DEF JobShape, Forking
  <1>14. AssertionsExplained'
    BY <1>1, NoPanicExplained
  <1> QED
    BY <1>1, <1>4, <1>9, <1>12, <1>13, <1>14 DEF IndInv

\* shmdt unmaps it, and the segment goes on without the task.
LEMMA StepShmdt ==
  ASSUME IndInv, NEW t \in Tasks, NEW i \in DOMAIN attached[t], shmdt(t, i)
  PROVE  IndInv'
PROOF
  <1>0. PICK s, z, va : s = attached[t] /\ va = s[i].va /\ z = RemoveAt(s, i)
    OBVIOUS
  <1>1. /\ panic = "none" /\ job.op = "idle" /\ tstate[t] = "user" /\ Running
        /\ mm' = IF seg_size[s[i].seg] > 0 THEN page_remove(mm, t, va) ELSE mm
        /\ attached' = [attached EXCEPT ![t] = z]
        /\ tstate' = tstate /\ count_stack' = count_stack /\ count_program' = count_program
        /\ start_brk' = start_brk /\ end_brk' = end_brk /\ job' = job
        /\ seg' = seg /\ seg_size' = seg_size /\ panic' = "none"
    BY <1>0 DEF shmdt, Ready, Running, countVars, RemoveAt
  <1>2. /\ RestType /\ Exact(mm, seg, {}) /\ Separated(mm, seg) /\ Shapes /\ ~Forking /\ JobShape
        /\ UserShape(t)
    BY <1>1 DEF IndInv, Forking, Shapes, TaskShape
  <1>3. s \in Seq([va : ShmVa, seg : Segs]) /\ i \in 1 .. Len(s)
    <2>1. s \in Seq([va : ShmVa, seg : Segs])
      BY <1>0, <1>2 DEF RestType
    <2>2. DOMAIN s = 1 .. Len(s)
      BY <2>1, LenProperties
    <2> QED
      BY <1>0, <2>1, <2>2
  <1>4. \A j \in 1 .. Len(s) : /\ s[j].va \in ShmVa /\ s[j].va \in Va
                               /\ seg[s[j].seg] # NoFrame /\ mm.map[t][s[j].va] = seg[s[j].seg]
                               /\ \A l \in 1 .. Len(s) : s[l].va = s[j].va => l = j
    BY <1>0, <1>2, AttachedType DEF UserShape, AttachedMapped
  <1>5. IsInjective(s)
    BY <1>3, <1>4 DEF IsInjective
  <1>6. /\ z \in Seq([va : ShmVa, seg : Segs]) /\ IsInjective(z)
        /\ \A x : Contains(z, x) <=> Contains(s, x) /\ x # s[i]
    BY <1>0, <1>3, <1>5, RemoveAtList
  <1>7. va \in ShmVa /\ va \in Va /\ mm.map[t][va] # NoFrame
    BY <1>0, <1>3, <1>4
  <1>8. /\ Exact(mm', seg, {}) /\ Separated(mm', seg)
        /\ \A u \in Tasks, w \in Va : u # t \/ w # va => mm'.map[u][w] = mm.map[u][w]
        /\ \A u \in Tasks, r \in Tables : mm'.tab[u][r] = mm.tab[u][r]
    <2>1. CASE seg_size[s[i].seg] > 0
      <3>1. mm' = page_remove(mm, t, va)
        BY <1>1, <2>1
      <3>2. Exact(mm', seg, {}) /\ Separated(mm', seg) /\ Released(mm, mm', t, {va}, {})
        BY <1>2, <1>7, <3>1, PageRemoveExact
      <3> QED
        BY <3>2 DEF Released
    <2>2. CASE ~(seg_size[s[i].seg] > 0)
      BY <1>1, <1>2, <2>2
    <2> QED
      BY <2>1, <2>2
  <1>9. /\ attached' \in [Tasks -> Seq([va : ShmVa, seg : Segs])]
        /\ attached'[t] = z /\ \A u \in Tasks : u # t => attached'[u] = attached[u]
    BY <1>1, <1>2, <1>6 DEF RestType
  <1>10. RestType'
    BY <1>1, <1>2, <1>9 DEF RestType
  <1>11. AttachedMapped(t)'
    <2>1. \A j \in 1 .. Len(z) : \E q \in 1 .. Len(s) : q # i /\ z[j] = s[q]
      <3> TAKE j \in 1 .. Len(z)
      <3>1. Contains(z, z[j])
        BY DEF Contains
      <3>2. Contains(s, z[j]) /\ z[j] # s[i]
        BY <1>6, <3>1
      <3> QED
        BY <3>2 DEF Contains
    <2>2. ASSUME NEW j \in 1 .. Len(z)
          PROVE  /\ seg[z[j].seg] # NoFrame /\ mm'.map[t][z[j].va] = seg[z[j].seg]
                 /\ \A l \in 1 .. Len(z) : z[l].va = z[j].va => l = j
      <3>1. PICK q \in 1 .. Len(s) : q # i /\ z[j] = s[q]
        BY <2>1
      <3>2. s[q].va # va /\ s[q].va \in Va
        BY <1>0, <1>3, <1>4, <3>1
      <3>3. /\ seg[z[j].seg] # NoFrame /\ mm'.map[t][z[j].va] = seg[z[j].seg]
        BY <1>4, <1>8, <3>1, <3>2
      <3>4. ASSUME NEW l \in 1 .. Len(z), z[l].va = z[j].va PROVE l = j
        <4>1. PICK r \in 1 .. Len(s) : r # i /\ z[l] = s[r]
          BY <2>1
        <4>2. r = q
          BY <1>4, <3>1, <3>4, <4>1
        <4> QED
          BY <1>6, <3>1, <4>1, <4>2 DEF IsInjective
      <3> QED
        BY <3>3, <3>4
    <2> QED
      BY <1>1, <1>9, <2>2 DEF AttachedMapped
  <1>12. UserShape(t)'
    <2>1. Private(t)' = Private(t)
      BY <1>7, <1>8 DEF Private, Mapped
    <2>2. HeapEnd(t)' = HeapEnd(t)
      BY <1>1 DEF HeapEnd
    <2>3. PICK n : HeapHas(t, n)
      BY <1>2 DEF UserShape
    <2>4. LastHalf(t)' = LastHalf(t)
      BY <1>1, SameNumbers
    <2>5. HeapHas(t, n)'
      BY <1>1, <2>1, <2>2, <2>3, <2>4 DEF HeapHas
    <2> QED
      BY <1>1, <1>2, <1>11, <2>5 DEF UserShape
  <1>13. Shapes'
    <2>1. TaskShape(t)'
      BY <1>1, <1>12 DEF TaskShape
    <2>2. ASSUME NEW u \in Tasks, u # t PROVE Kept(u)
      BY <1>1, <1>2, <1>8, <1>9, <2>2 DEF Kept
    <2> QED
      BY <1>2, <2>1, <2>2, ShapesExcept
  <1>14. JobShape'
    BY <1>1, <1>2 DEF JobShape, Forking
  <1>15. AssertionsExplained'
    BY <1>1, NoPanicExplained
  <1> QED
    BY <1>1, <1>8, <1>10, <1>13, <1>14, <1>15 DEF IndInv

-----------------------------------------------------------------------------
(* The invariant holds.                                                    *)

\* The first process satisfies the invariant.
LEMMA InitInv ==
  ASSUME Init
  PROVE  IndInv
PROOF
  <1>1. PICK k \in 0 .. MaxOther : mm = FirstProcess(k)
    BY DEF Init
  <1>2. seg = [s \in Segs |-> NoFrame]
    BY DEF Init
  <1>3. /\ Exact(mm, seg, {}) /\ Separated(mm, seg)
        /\ \A u \in Tasks, va \in Va :
             mm.map[u][va] # NoFrame <=> u = 1 /\ va \in {Prog(0), Stack} \cup KStack
        /\ \A u \in Tasks, r \in Tables : u # 1 => mm.tab[u][r] = NoSlot
    BY <1>1, <1>2, FirstProcessExact
  <1>4. /\ 1 \in Tasks /\ 0 \in 0 .. MaxProgram /\ 1 \in 0 .. MaxProgram /\ 0 \in 0 .. 2 * AddrPages
        /\ 0 \in 0 .. 1 /\ 1 \in 0 .. 1 /\ 0 \in 0 .. MaxProgram + MaxHeap - 1
    BY MemoryAssumption
  <1>5. <<>> \in Seq([va : ShmVa, seg : Segs]) /\ <<>> \in Seq(Nat \ {0})
    BY EmptySeq
  <1>6. /\ panic = "none" /\ job = Idle /\ attached = [t \in Tasks |-> <<>>]
        /\ tstate = [t \in Tasks |-> IF t = 1 THEN "user" ELSE "none"]
        /\ count_stack = [t \in Tasks |-> IF t = 1 THEN 1 ELSE 0]
        /\ count_program = [t \in Tasks |-> IF t = 1 THEN 1 ELSE 0]
        /\ start_brk = [t \in Tasks |-> IF t = 1 THEN 1 ELSE 0]
        /\ end_brk = [t \in Tasks |-> 0] /\ seg_size = [s \in Segs |-> 0]
    BY DEF Init
  <1>7. job \in JobType /\ job.op = "idle"
    BY <1>5, <1>6 DEF Idle, JobType
  <1>8. RestType
    <2>1. NoFrame \in Frame \cup {NoFrame}
      OBVIOUS
    <2> QED
      BY <1>2, <1>4, <1>5, <1>6, <1>7, <2>1 DEF RestType
  <1>9. Shapes
    <2> SUFFICES ASSUME NEW u \in Tasks PROVE TaskShape(u)
      BY DEF Shapes
    <2>1. CASE u = 1
      <3>1. /\ tstate[u] = "user" /\ count_stack[u] = 1 /\ count_program[u] = 1
            /\ start_brk[u] = 1 /\ end_brk[u] = 0 /\ attached[u] = <<>>
        BY <1>6, <2>1
      <3>2. 1 .. Len(attached[u]) = {}
        BY <3>1
      <3>3. AttachedMapped(u)
        BY <3>2 DEF AttachedMapped
      <3>4. /\ HeapEnd(u) = 0 /\ HalfUp(0) = 0 /\ 1 + 0 = 1
            /\ 0 \in 0 .. MaxHeap /\ 0 \in 0 .. 2 * MaxHeap
        BY <1>7, <3>1, MemoryAssumption DEF HeapEnd, HalfUp
      <3>5. ProgPages(1) = {Prog(0)}
        BY DEF ProgPages
      <3>6. {Prog(0), Stack} \cup KStack \subseteq Va \ ShmVa
        BY <1>4, Layout
      <3>7. Private(u) = {Prog(0), Stack} \cup KStack
        BY <1>3, <2>1, <3>6 DEF Private, Mapped
      <3>8. UserShape(u)
        <4>1. HeapHas(u, 0)
          BY <1>7, <3>1, <3>4, <3>5, <3>7 DEF HeapHas
        <4> QED
          BY <3>1, <3>3, <4>1 DEF UserShape
      <3> QED
        BY <3>1, <3>8 DEF TaskShape
    <2>2. CASE u # 1
      <3>1. tstate[u] = "none" /\ attached[u] = <<>>
        BY <1>6, <2>2
      <3>2. Mapped(mm, u, Va) = {}
        BY <1>3, <2>2 DEF Mapped
      <3>3. UnusedShape(u)
        BY <1>3, <2>2, <3>1, <3>2 DEF UnusedShape
      <3> QED
        BY <3>1, <3>3 DEF TaskShape
    <2> QED
      BY <2>1, <2>2
  <1>10. JobShape
    BY <1>7 DEF JobShape, Forking
  <1>11. AssertionsExplained
    BY <1>6 DEF AssertionsExplained
  <1> QED
    BY <1>3, <1>8, <1>9, <1>10, <1>11 DEF IndInv

\* A step that changes nothing keeps the invariant.
LEMMA StutterInv ==
  ASSUME IndInv, UNCHANGED vars
  PROVE  IndInv'
PROOF
  <1>1. /\ mm' = mm /\ tstate' = tstate /\ count_stack' = count_stack
        /\ count_program' = count_program /\ start_brk' = start_brk /\ end_brk' = end_brk
        /\ seg' = seg /\ seg_size' = seg_size /\ attached' = attached /\ job' = job
        /\ panic' = panic
    BY DEF vars, countVars, shmVars
  <1>2. RestType' /\ AssertionsExplained' /\ (Running' <=> Running)
    BY <1>1 DEF IndInv, RestType, AssertionsExplained, Running, Wrapped, roundUp
  <1>3. ASSUME Running PROVE Shapes' /\ JobShape'
    <2>1. Shapes /\ JobShape
      BY <1>3 DEF IndInv
    <2>2. Shapes'
      <3> SUFFICES ASSUME NEW u \in Tasks PROVE TaskShape(u)'
        BY DEF Shapes
      <3>1. /\ AttachedMapped(u)' = AttachedMapped(u) /\ Private(u)' = Private(u)
            /\ HeapEnd(u)' = HeapEnd(u) /\ Forking' = Forking
        BY <1>1 DEF AttachedMapped, Private, HeapEnd, Forking
      <3>2. UserShape(u)' = UserShape(u)
        <4>1. LastHalf(u)' = LastHalf(u)
          BY <1>1, SameNumbers
        <4>2. \A n : HeapHas(u, n)' = HeapHas(u, n)
          BY <1>1, <3>1, <4>1 DEF HeapHas
        <4> QED
          BY <1>1, <3>1, <4>2 DEF UserShape
      <3>3. /\ FaultingShape(u)' = FaultingShape(u) /\ ZombieShape(u)' = ZombieShape(u)
            /\ UnusedShape(u)' = UnusedShape(u)
        BY <1>1, <3>1 DEF FaultingShape, ZombieShape, UnusedShape
      <3>4. TaskShape(u)
        BY <2>1 DEF Shapes
      <3> QED
        BY <1>1, <3>1, <3>2, <3>3, <3>4 DEF TaskShape
    <2>3. JobShape'
      BY <1>1, <2>1, ZenonT(30) DEF JobShape, ForkShape, ExecShape, BrkShape, Forking, Private,
        Heap, HeapPages, LastHalf
    <2> QED
      BY <2>2, <2>3
  <1> QED
    BY <1>1, <1>2, <1>3 DEF IndInv

\* Every step keeps the invariant.
LEMMA StepInv ==
  ASSUME IndInv, [Next]_vars
  PROVE  IndInv'
PROOF
  <1>1. ASSUME NEW t \in Tasks, fork(t) PROVE IndInv'
    BY <1>1, StepFork
  <1>2. ASSUME NEW t \in Tasks, do_exit(t) \/ program_fault(t) PROVE IndInv'
    BY <1>2, StepExit
  <1>3. ASSUME NEW t \in Tasks, stack_fault(t) PROVE IndInv'
    BY <1>3, StepStackFault
  <1>4. ASSUME NEW t \in Tasks, NEW p \in Programs, execve(t, p) PROVE IndInv'
    BY <1>4, StepExecve
  <1>5. ASSUME NEW t \in Tasks, NEW b \in Brks \cup {LastHalf(t)}, brk_grow(t, b) PROVE IndInv'
    BY <1>5, StepBrkGrow
  <1>6. ASSUME NEW t \in Tasks, NEW b \in Brks \cup {LastHalf(t)}, brk_shrink(t, b) PROVE IndInv'
    BY <1>6, StepBrkShrink
  <1>7. ASSUME NEW t \in Tasks, NEW k \in Segs, shmat(t, k) PROVE IndInv'
    BY <1>7, StepShmat
  <1>8. ASSUME NEW t \in Tasks, NEW k \in Segs, NEW z \in SegSizes, shmget(t, k, z) PROVE IndInv'
    BY <1>8, StepShmget
  <1>9. ASSUME NEW t \in Tasks, NEW i \in DOMAIN attached[t], shmdt(t, i) PROVE IndInv'
    BY <1>9, StepShmdt
  <1>10. ASSUME fork_copy \/ fork_shm \/ (\E pages \in 0 .. 1 : fork_fs(pages)) \/ fork_end
         PROVE  IndInv'
    BY <1>10, StepForkCopy, StepForkShm, StepForkFs, StepForkEnd
  <1>11. ASSUME load_program \/ exec_segment PROVE IndInv'
    BY <1>11, StepLoadProgram, StepExecSegment
  <1>12. ASSUME brk_page \/ brk_end PROVE IndInv'
    BY <1>12, StepBrkPage, StepBrkEnd
  <1>13. CASE UNCHANGED vars
    BY <1>13, StutterInv
  <1> QED
    BY <1>1, <1>2, <1>3, <1>4, <1>5, <1>6, <1>7, <1>8, <1>9, <1>10, <1>11, <1>12, <1>13 DEF Next

\* What the invariant says of frames and their counts
LEMMA InvExact ==
  ASSUME IndInv
  PROVE  TypeOK /\ RefcountsExact /\ CountsExact
PROOF
  <1>1. RestType /\ Exact(mm, seg, {})
    BY DEF IndInv
  <1>2. TypeOK
    <2>1. mm \in [used : SUBSET Frame, rc : [Frame -> Nat],
                  tmp : [Slot -> Frame \cup {NoFrame}],
                  tab : [Tasks -> [Tables -> Slot \cup {NoSlot}]],
                  map : [Tasks -> [Va -> Frame \cup {NoFrame}]],
                  cu : [Tasks -> 0 .. Cardinality(UserVa)],
                  ck : [Tasks -> 0 .. Cardinality(KStack) + Cardinality(Tables)]]
      BY <1>1, ExactType
    <2>2. job.op \in {"idle", "fork_user", "fork_fs", "fork_kstack", "exec", "brk"}
      BY <1>1 DEF RestType, JobType
    <2> QED
      BY <1>1, <2>1, <2>2 DEF TypeOK, RestType
  <1>3. RefcountsExact
    <2> SUFFICES ASSUME NEW f \in Frame
                 PROVE  mm.rc[f] = Refs(f) /\ (f \in mm.used <=> Refs(f) > 0)
      BY DEF RefcountsExact
    <2> DEFINE a == Cardinality(MapsTo(mm, f))
               b == Cardinality(TmpOf(mm, f))
               c == Cardinality(SegOf(seg, f))
    <2>1. Refs(f) = a + b + c
      BY DEF Refs, MapsTo, TmpOf, SegOf
    <2>2. mm.rc[f] = a + b + c /\ (f \in mm.used <=> Referenced(mm, seg, f))
      BY <1>1 DEF Exact, RefExact
    <2>3. /\ a \in Nat /\ b \in Nat /\ c \in Nat
          /\ a = 0 <=> MapsTo(mm, f) = {}
          /\ b = 0 <=> TmpOf(mm, f) = {}
          /\ c = 0 <=> SegOf(seg, f) = {}
      BY RefCounts
    <2>4. Referenced(mm, seg, f) <=> a # 0 \/ b # 0 \/ c # 0
      BY <2>3 DEF Referenced
    <2> HIDE DEF a, b, c
    <2>5. a + b + c > 0 <=> a # 0 \/ b # 0 \/ c # 0
      BY <2>3
    <2> QED
      BY <2>1, <2>2, <2>4, <2>5
  <1>4. CountsExact
    BY <1>1 DEF Exact, Counted, CountsExact
  <1> QED
    BY <1>2, <1>3, <1>4

\* What it says of who maps what
LEMMA InvIsolation ==
  ASSUME IndInv
  PROVE  Isolation
PROOF
  <1>1. Separated(mm, seg)
    BY DEF IndInv
  <1> SUFFICES ASSUME NEW t \in Tasks, NEW va \in Va, mm.map[t][va] # NoFrame
               PROVE  /\ \A s \in Slot : mm.tmp[s] # mm.map[t][va]
                      /\ \A u \in Tasks, w \in Va :
                           mm.map[u][w] = mm.map[t][va] /\ <<u, w>> # <<t, va>> =>
                             va \in ShmVa /\ w \in ShmVa /\ \E k \in Segs : seg[k] = mm.map[t][va]
    BY DEF Isolation
  <1>2. \A s \in Slot : mm.tmp[s] # mm.map[t][va]
    BY <1>1 DEF Separated, TmpOf
  <1>3. ASSUME NEW u \in Tasks, NEW w \in Va, mm.map[u][w] = mm.map[t][va], <<u, w>> # <<t, va>>
        PROVE  va \in ShmVa /\ w \in ShmVa /\ \E k \in Segs : seg[k] = mm.map[t][va]
    <2>1. va \in ShmVa
      BY <1>1, <1>3 DEF Separated
    <2>2. w \in ShmVa
      BY <1>1, <1>3 DEF Separated
    <2>3. SegOf(seg, mm.map[t][va]) # {}
      BY <1>1, <2>1 DEF Separated
    <2> QED
      BY <2>1, <2>2, <2>3 DEF SegOf
  <1> QED
    BY <1>2, <1>3

\* What it says between operations
LEMMA InvWhole ==
  ASSUME IndInv
  PROVE  WholeAddressSpaces
PROOF
  <1> SUFFICES ASSUME Running, job.op = "idle", NEW t \in Tasks
               PROVE  LET pages == Mapped(mm, t, Va \ ShmVa)
                          atts == {attached[t][i] : i \in DOMAIN attached[t]}
                      IN  /\ tstate[t] = "user" =>
                               /\ \E n \in 0 .. MaxHeap :
                                    /\ pages = {Prog(i) : i \in 0 .. count_program[t] + n - 1}
                                               \cup {Stack} \cup KStack
                                    /\ ~Wrapped(t) => start_brk[t] + n = roundUp(t, end_brk[t])
                               /\ \A a \in atts : mm.map[t][a.va] = seg[a.seg]
                          /\ tstate[t] = "zombie" =>
                               pages = KStack /\ \A r \in UserRegions : mm.tab[t][r] = NoSlot
                          /\ tstate[t] = "none" => pages = {} /\ SlotsOf(mm, t, Tables) = {}
                          /\ tstate[t] \in {"none", "zombie"} =>
                               Mapped(mm, t, ShmVa) = {} /\ atts = {}
    BY DEF WholeAddressSpaces
  <1> DEFINE pages == Mapped(mm, t, Va \ ShmVa)
             atts == {attached[t][i] : i \in DOMAIN attached[t]}
  <1>1. RestType /\ TaskShape(t) /\ ~Forking /\ job.op # "brk"
    BY DEF IndInv, Shapes, Forking
  <1>2. ShmVa \subseteq UserVa /\ UserVa \subseteq Va /\ ShmVa \subseteq Va
    BY Layout
  <1>3. pages = Private(t)
    BY DEF Private
  <1>4. attached[t] \in Seq([va : ShmVa, seg : Segs]) /\ DOMAIN attached[t] = 1 .. Len(attached[t])
    <2>1. attached[t] \in Seq([va : ShmVa, seg : Segs])
      BY <1>1 DEF RestType
    <2> QED
      BY <2>1, LenProperties
  <1>5. attached[t] = <<>> => atts = {}
    OBVIOUS
  <1>6. ASSUME tstate[t] = "user"
        PROVE  /\ \E n \in 0 .. MaxHeap :
                    /\ pages = {Prog(i) : i \in 0 .. count_program[t] + n - 1}
                               \cup {Stack} \cup KStack
                    /\ ~Wrapped(t) => start_brk[t] + n = roundUp(t, end_brk[t])
               /\ \A a \in atts : mm.map[t][a.va] = seg[a.seg]
    <2>1. UserShape(t)
      BY <1>1, <1>6 DEF TaskShape
    <2>2. PICK n : HeapHas(t, n)
      BY <2>1 DEF UserShape
    <2>3. /\ n \in 0 .. MaxHeap /\ start_brk[t] > 0
          /\ Private(t) = ProgPages(count_program[t] + n) \cup {Stack} \cup KStack
          /\ \/ end_brk[t] = LastHalf(t)
             \/ end_brk[t] \in 0 .. 2 * MaxHeap /\ n = HalfUp(end_brk[t])
      BY <1>1, <2>1, <2>2 DEF UserShape, HeapHas, HeapEnd
    <2>4. /\ ~Wrapped(t) => start_brk[t] + n = roundUp(t, end_brk[t])
          /\ ProgPages(count_program[t] + n) = {Prog(i) : i \in 0 .. count_program[t] + n - 1}
      <3>1. ~Wrapped(t) => start_brk[t] + n = roundUp(t, end_brk[t])
        BY <1>1, <2>3, HeapAddress
      <3>2. count_program[t] + n - 1 = (count_program[t] + n) - 1
        BY <1>1, <2>3, TaskNumbers
      <3> QED
        BY <3>1, <3>2 DEF ProgPages
    <2>5. \A a \in atts : mm.map[t][a.va] = seg[a.seg]
      BY <1>4, <2>1 DEF UserShape, AttachedMapped
    <2> QED
      BY <1>3, <2>3, <2>4, <2>5
  <1>7. ASSUME tstate[t] = "zombie"
        PROVE  /\ pages = KStack /\ \A r \in UserRegions : mm.tab[t][r] = NoSlot
               /\ Mapped(mm, t, ShmVa) = {} /\ atts = {}
    <2>1. ZombieShape(t)
      BY <1>1, <1>7 DEF TaskShape
    <2>2. Mapped(mm, t, ShmVa) = {}
      BY <1>2, <2>1 DEF ZombieShape, Mapped
    <2> QED
      BY <1>3, <1>5, <2>1, <2>2 DEF ZombieShape
  <1>8. ASSUME tstate[t] = "none"
        PROVE  /\ pages = {} /\ SlotsOf(mm, t, Tables) = {}
               /\ Mapped(mm, t, ShmVa) = {} /\ atts = {}
    <2>1. UnusedShape(t)
      BY <1>1, <1>8 DEF TaskShape
    <2>2. Mapped(mm, t, ShmVa) = {} /\ pages = {}
      BY <1>2, <2>1 DEF UnusedShape, Mapped
    <2>3. SlotsOf(mm, t, Tables) = {}
      BY <2>1 DEF UnusedShape, SlotsOf
    <2> QED
      BY <1>5, <2>1, <2>2, <2>3 DEF UnusedShape
  <1> QED
    BY <1>6, <1>7, <1>8

\* Every reachable state satisfies the invariant of address spaces, whatever
\* operations run and wherever they run out of frames or temporary pages.
THEOREM Invariance == Spec => []IndInv
PROOF
  <1>1. Init => IndInv
    BY InitInv
  <1>2. IndInv /\ [Next]_vars => IndInv'
    BY StepInv
  <1> QED
    BY <1>1, <1>2, PTL DEF Spec

\* The counters of page_insert and page_remove, of frames and of processes stay
\* in their ranges: none of the unsigned ones ever goes below zero.
THEOREM TypeCorrect == Spec => []TypeOK
PROOF
  <1>1. IndInv => TypeOK
    BY InvExact
  <1> QED
    BY <1>1, Invariance, PTL

\* A frame has as many references as Page::refcount says and is on the free list
\* when it has none, after every operation and on every error path.
THEOREM NothingLeaks == Spec => []RefcountsExact
PROOF
  <1>1. IndInv => RefcountsExact
    BY InvExact
  <1> QED
    BY <1>1, Invariance, PTL

\* PageDirInfo's count_user and count_kernel are the pages and the tables that
\* the process has, which is what the assertions of task_free rely on.
THEOREM CountersTrue == Spec => []CountsExact
PROOF
  <1>1. IndInv => CountsExact
    BY InvExact
  <1> QED
    BY <1>1, Invariance, PTL

\* No two processes share a frame but as one segment, and none maps a page
\* table, although fork copies and links the pages of one into the other.
THEOREM ProcessesIsolated == Spec => []Isolation
PROOF
  <1>1. IndInv => Isolation
    BY InvIsolation
  <1> QED
    BY <1>1, Invariance, PTL

\* fork, exec, brk and exit leave whole address spaces, or nothing at all: the
\* heap ends where brk put it, but for a brk into the last page of the address
\* space, which moves end_brk and maps nothing.
THEOREM SpacesWhole == Spec => []WholeAddressSpaces
PROOF
  <1>1. IndInv => WholeAddressSpaces
    BY InvWhole
  <1> QED
    BY <1>1, Invariance, PTL

\* The assertion of do_fork fails only when the kernel stack cannot be copied
\* after the files took a page; that of sys_brk only for a brk that has wrapped;
\* those of task_free, task_free_vm_user, pde_free and segment_alloc only with
\* shared memory mapped, a wrapped brk, or after an exec that ran out of memory.
THEOREM AssertionsOnlyThere == Spec => []AssertionsExplained
PROOF
  <1>1. IndInv => AssertionsExplained
    BY DEF IndInv
  <1> QED
    BY <1>1, Invariance, PTL
=============================================================================
