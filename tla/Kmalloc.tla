------------------------------ MODULE Kmalloc ------------------------------
(***************************************************************************)
(* The kernel heap of kernel/memory/kmalloc.cpp and kmalloc.h: a buddy     *)
(* allocator inside pages that it takes from tmp_page_alloc_map one at a   *)
(* time and gives back when they are empty.                                *)
(*                                                                         *)
(* Addresses count in units of 32 bytes, the smallest block; a block of    *)
(* sizeno i is 2^i units and its first 4 bytes are its BlockHeader.  Page  *)
(* s of the heap is temporary slot s.  kmalloc and kfree run with          *)
(* interrupts off (the spinlock is a pushcli), so each is one action; the  *)
(* rest of the kernel takes and returns frames between them.               *)
(***************************************************************************)
EXTENDS Physical, FiniteSetsExt, SequencesExt

CONSTANTS
  LAST_SIZENO,  \* blocks of sizeno 0 .. LAST_SIZENO have a list; a page is next
  Sizes,        \* the sizes in bytes that callers ask for
  MaxLive,      \* bound: allocations live at a time
  MaxMaps,      \* bound: user mappings of one frame
  MaxCli        \* bound: n_cli, which a failed kmalloc leaves one too high

ASSUME KmallocAssumption ==
  /\ LAST_SIZENO \in 0 .. 6             \* PH_count has no more fields
  /\ Sizes \subseteq Nat
  /\ MaxLive \in Nat /\ MaxCli \in Nat
  /\ MaxMaps \in 1 .. 2^20 - 1         \* a reference count has 20 bits

PAGE == LAST_SIZENO + 1                 \* sizeno of a whole page
Sizeno == 0 .. LAST_SIZENO
\* 1 << i
pow2[i \in 0 .. PAGE] == IF i = 0 THEN 1 ELSE 2 * pow2[i - 1]
Unit == 0 .. TmpPageCount * pow2[PAGE] - 1
NoHeader == [used |-> FALSE, sizeno |-> -1]
Header(used, i) == [used |-> used, sizeno |-> i]

VARIABLES
  pm,       \* physical frames and temporary mappings (module Physical)
  maps,     \* number of user mappings of each frame
  heap,     \* slots whose page is the heap's
  hdr,      \* BlockHeader at a unit, NoHeader inside a block
  sizes,    \* sizes[i].list: the free blocks of sizeno i
  count,    \* PageHeader::count of each page
  count_used,
  size,     \* bytes asked for by the owner of the block at a unit, or -1
  failed,   \* the request that the last step answered with NULL, or -1
  n_cli,    \* pushcli depth left when a system call returns
  panic     \* trap_handler's assertion on n_cli has failed

heapVars == <<heap, hdr, sizes, count, count_used, size>>
vars == <<pm, maps, heap, hdr, sizes, count, count_used, size, failed, n_cli, panic>>

-----------------------------------------------------------------------------
(* Blocks.                                                                 *)

Live == {x \in Unit : size[x] # -1}
page(a) == a \div pow2[PAGE]
BlockSize(i) == 32 * pow2[i]
Fits(i, n) == BlockSize(i) - 4 >= n

\* PH_count: eight-bit fields for sizeno 0 .. 3, four-bit fields above
Width(i) == IF i <= 3 THEN 8 ELSE 4
PH_add(c, d) == [i \in Sizeno |-> (c[i] + d[i]) % 2^Width(i)]

\* the sizeno blocks of the size asked for are taken from
uygun_sizeno(n) == Min({i \in Sizeno : Fits(i, n)})

Base_Self(a, i) == a

\* FreeBlock::pair, and the start of the block of sizeno i that holds a
pair(a, i) == IF (a \div pow2[i]) % 2 = 0 THEN a + pow2[i] ELSE a - pow2[i]
Base(a, i) == (a \div pow2[i]) * pow2[i]

Source_Largest(n) ==
  Max({i \in uygun_sizeno(n) .. LAST_SIZENO : sizes[i] # <<>>} \cup {-1}) % (PAGE + 1)
Source_ExactFit(n) ==
  IF sizes[uygun_sizeno(n)] # <<>> THEN uygun_sizeno(n) ELSE PAGE

\* The first sizeno that fits n and has a free block, or PAGE for a new page
Source(n) == Min({i \in uygun_sizeno(n) .. LAST_SIZENO : sizes[i] # <<>>} \cup {PAGE})

split_NoPush(ls, a, i, u) == ls

\* The lists after FreeBlock::split, from sizeno i down to u: the right half
\* goes to the back of its list at every step
split(ls, a, i, u) ==
  [j \in Sizeno |-> IF j \in u .. i - 1 THEN Append(ls[j], a + pow2[j]) ELSE ls[j]]

\* The headers after those splits and set_used; on a new page every other
\* unit is inside a block
split_hdr(h, a, i, u) ==
  [x \in Unit |-> IF x = a THEN Header(TRUE, u)
                  ELSE IF \E j \in u .. i - 1 : x = a + pow2[j]
                  THEN Header(FALSE, CHOOSE j \in u .. i - 1 : x = a + pow2[j])
                  ELSE h[x]]

split_count_Once(i, u) ==
  [j \in Sizeno |-> IF j = i THEN -1 ELSE IF j \in u .. i - 1 THEN 2 ELSE 0]

\* what the splits add to count: one block less of sizeno i, two more of the
\* next one, of which one is split again
split_count(i, u) ==
  [j \in Sizeno |-> CASE j = i -> (IF i = u THEN 0 ELSE -1)
                      [] j = u /\ u < i -> 2
                      [] j \in u + 1 .. i - 1 -> 1
                      [] OTHER -> 0]

One(i) == [j \in Sizeno |-> IF j = i THEN 1 ELSE 0]
Minus(c) == [j \in Sizeno |-> -c[j]]
Zero == [j \in Sizeno |-> 0]

-----------------------------------------------------------------------------
(* kmalloc.  The action is the call that finds a block or gets a page; the *)
(* two ways to return NULL are actions of their own.                       *)

kmalloc(n) ==
  LET u   == uygun_sizeno(n)
      i   == Source(n)
      new == i = PAGE
      a   == IF new THEN tmp_page_get(pm) * pow2[PAGE] ELSE Head(sizes[i])
      p   == page(a)
      c   == IF new THEN Zero ELSE count[p]          \* memset in FreeBlock::init
      cu  == IF new THEN Zero ELSE count_used[p]
      rest == IF new THEN sizes ELSE [sizes EXCEPT ![i] = Tail(@)]
  IN  /\ panic = "none"
      /\ Cardinality(Live) < MaxLive
      /\ Fits(LAST_SIZENO, n)
      /\ new => TmpAvailable(pm)
      /\ pm' = IF new THEN tmp_page_alloc_map(pm) ELSE pm
      /\ heap' = heap \cup {p}
      /\ sizes' = split(rest, a, i, u)
      /\ hdr' = split_hdr(hdr, a, i, u)
      /\ count' = [count EXCEPT ![p] = PH_add(c, split_count(i, u))]
      /\ count_used' = [count_used EXCEPT ![p] = PH_add(cu, One(u))]
      /\ size' = [size EXCEPT ![a] = n]
      /\ panic' = IF /\ pm'.ok
                     /\ new \/ hdr[a] = Header(FALSE, i)
                     /\ \A j \in u .. i - 1 : c[j] = cu[j]
                  THEN "none" ELSE "kmalloc"
      /\ failed' = -1
      /\ UNCHANGED <<maps, n_cli>>

\* the size is more than a block of the largest sizeno holds
kmalloc_too_large(n) ==
  /\ panic = "none"
  /\ ~Fits(LAST_SIZENO, n)
  /\ failed' = n
  /\ UNCHANGED <<pm, maps, heapVars, n_cli, panic>>

\* tmp_page_alloc_map fails: NULL, without spinlock_release
kmalloc_no_page(n) ==
  /\ panic = "none"
  /\ Fits(LAST_SIZENO, n)
  /\ Source(n) = PAGE
  /\ ~TmpAvailable(pm)
  /\ n_cli < MaxCli
  /\ n_cli' = n_cli + 1
  /\ failed' = n
  /\ UNCHANGED <<pm, maps, heapVars, panic>>

-----------------------------------------------------------------------------
(* kfree.                                                                  *)

Mergeable(a, t) == t < PAGE /\ hdr[pair(Base(a, t), t)] = Header(FALSE, t)

merged_Short(a, s) == IF Mergeable(a, s) THEN s + 1 ELSE s

\* the sizeno of the block that the loop over merge() ends with
merged(a, s) == Min({t \in s .. PAGE : ~Mergeable(a, t)})

\* the lists after the free pairs of a have been taken out of them
merge(a, s, t) ==
  [j \in Sizeno |-> IF j \in s .. t - 1
                    THEN RemoveFirst(sizes[j], pair(Base(a, j), j)) ELSE sizes[j]]

merge_count(s, t) ==
  [j \in Sizeno |-> CASE s = t -> 0
                      [] s < t /\ j = s -> -2
                      [] j \in s + 1 .. t - 1 -> -1
                      [] s < t /\ j = t -> 1
                      [] OTHER -> 0]

merge_hdr(a, t) ==
  [x \in Unit |-> IF x = Base(a, t) /\ t < PAGE THEN Header(FALSE, t)
                  ELSE IF Base(x, t) = Base(a, t) THEN NoHeader ELSE hdr[x]]

kfree(a) ==
  LET s == hdr[a].sizeno
      t == merged(a, s)
      p == page(a)
      ls == merge(a, s, t)
  IN  /\ panic = "none"
      /\ size[a] # -1
      /\ hdr' = merge_hdr(a, t)
      /\ sizes' = IF t = PAGE THEN ls ELSE [ls EXCEPT ![t] = <<Base(a, t)>> \o @]
      /\ count' = [count EXCEPT ![p] = PH_add(@, merge_count(s, t))]
      /\ count_used' = [count_used EXCEPT ![p] = PH_add(@, Minus(One(s)))]
      /\ heap' = IF t = PAGE THEN heap \ {p} ELSE heap
      /\ pm' = IF t = PAGE THEN tmp_page_free(pm, p) ELSE pm
      /\ size' = [size EXCEPT ![a] = -1]
      /\ panic' = IF /\ hdr[a].used
                     /\ \A j \in s .. t - 1 : Contains(sizes[j], pair(Base(a, j), j))
                     /\ pm'.ok
                  THEN "none" ELSE "kfree"
      /\ failed' = -1
      /\ UNCHANGED <<maps, n_cli>>

-----------------------------------------------------------------------------
(* The rest of the kernel: user pages and page tables.                     *)

\* page_alloc_insert into a page table that exists
user_insert ==
  /\ panic = "none"
  /\ pm.begin # NoFrame
  /\ pm' = refcount_inc(page_alloc(pm), pm.begin)
  /\ maps' = [maps EXCEPT ![pm.begin] = 1]
  /\ failed' = -1
  /\ UNCHANGED <<heapVars, n_cli, panic>>

\* link_pages of a mapped page: the frame has one mapping more
user_link(f) ==
  /\ panic = "none"
  /\ maps[f] \in 1 .. MaxMaps - 1
  /\ pm' = refcount_inc(pm, f)
  /\ maps' = [maps EXCEPT ![f] = @ + 1]
  /\ failed' = -1
  /\ UNCHANGED <<heapVars, n_cli, panic>>

\* page_remove of a user page
user_remove(f) ==
  /\ panic = "none"
  /\ maps[f] > 0
  /\ pm' = refcount_dec(pm, f)
  /\ maps' = [maps EXCEPT ![f] = @ - 1]
  /\ failed' = -1
  /\ UNCHANGED <<heapVars, n_cli, panic>>

pde_alloc ==
  /\ panic = "none"
  /\ TmpAvailable(pm)
  /\ pm' = tmp_page_alloc_map(pm)
  /\ failed' = -1
  /\ UNCHANGED <<maps, heapVars, n_cli, panic>>

pde_free(s) ==
  /\ panic = "none"
  /\ s \in pm.bits \ heap
  /\ pm' = tmp_page_free(pm, s)
  /\ failed' = -1
  /\ UNCHANGED <<maps, heapVars, n_cli, panic>>

\* the end of trap_handler: every pushcli has had its popif, or the kernel
\* stops (a return with n_cli = 0 changes nothing here)
trap_return ==
  /\ panic = "none"
  /\ n_cli # 0
  /\ panic' = "n_cli"
  /\ UNCHANGED <<pm, maps, heapVars, failed, n_cli>>

Init ==
  /\ pm = pm_init
  /\ maps = [f \in Frame |-> 0]
  /\ heap = {}
  /\ hdr = [x \in Unit |-> NoHeader]
  /\ sizes = [i \in Sizeno |-> <<>>]
  /\ count = [s \in Slot |-> Zero]
  /\ count_used = [s \in Slot |-> Zero]
  /\ size = [x \in Unit |-> -1]
  /\ failed = -1
  /\ n_cli = 0
  /\ panic = "none"

Next ==
  \/ \E n \in Sizes : kmalloc(n) \/ kmalloc_too_large(n) \/ kmalloc_no_page(n)
  \/ \E a \in Unit : kfree(a)
  \/ user_insert
  \/ \E f \in Frame : user_link(f) \/ user_remove(f)
  \/ pde_alloc
  \/ \E s \in Slot : pde_free(s)
  \/ trap_return

Spec == Init /\ [][Next]_vars

-----------------------------------------------------------------------------
(* Properties.                                                             *)

\* q is the free list as the code would walk it
IsFreeList(q) ==
  /\ {q[k] : k \in DOMAIN q} = FreeFrames(pm)
  /\ IF q = <<>> THEN pm.begin = NoFrame
     ELSE /\ q[1] = pm.begin
          /\ q[Len(q)] = pm.end
          /\ \A k \in 1 .. Len(q) - 1 : pm.n[q[k]] = q[k + 1]

FreePageListExact ==
  \E q \in SetToSeqs(FreeFrames(pm)) : IsFreeList(q) /\ pm.count = Len(q)

RefcountExact ==
  \A f \in Frame :
    LET refs == maps[f] + Cardinality(SlotsOf(pm, f))
    IN  (pm.free[f] <=> refs = 0) /\ (refs > 0 => pm.n[f] = refs)

\* No frame leaks and none is used twice: a frame counts its user mappings and
\* temporary mappings exactly and is free from the moment the last one goes
\* and not before; the list threaded through the field that also holds the
\* counts has every free frame once, and mem_free's count is its length; the
\* bitmap has the slots that are mapped (page_alloc, refcount_dec, page_free
\* and tmp_page_alloc_map in whatever order).
FramesExact ==
  /\ FreePageListExact
  /\ RefcountExact
  /\ pm.bits = {s \in Slot : pm.pte[s] # NoFrame}

Starts == {x \in Unit : hdr[x] # NoHeader}
Block(x) == x .. x + pow2[hdr[x].sizeno] - 1

BlocksTile ==
  /\ UNION {Block(x) : x \in Starts} = {x \in Unit : page(x) \in heap}
  /\ \A x, y \in Starts : x # y => Block(x) \cap Block(y) = {}
  /\ \A x \in Starts : x % pow2[hdr[x].sizeno] = 0

FreeBlocksListed ==
  \A i \in Sizeno :
    /\ {sizes[i][k] : k \in DOMAIN sizes[i]} = {x \in Starts : hdr[x] = Header(FALSE, i)}
    /\ IsInjective(sizes[i])

\* The blocks tile the heap's pages without gap or overlap, each aligned to
\* its size; a live allocation owns a used block that holds its bytes, every
\* used block has an owner, and each list has exactly the free blocks of its
\* size, once (FreeBlock::split and merge).
BlocksExact ==
  /\ BlocksTile
  /\ FreeBlocksListed
  /\ Live = {x \in Starts : hdr[x].used}
  /\ \A x \in Live : Fits(hdr[x].sizeno, size[x])

\* The page headers count the blocks of the page and the used ones, as the
\* four-bit and eight-bit fields add up.
CountsExact ==
  \A p \in heap, i \in Sizeno :
    LET B == {x \in Starts : page(x) = p /\ hdr[x].sizeno = i}
    IN  /\ count[p][i] = Cardinality(B)
        /\ count_used[p][i] = Cardinality({x \in B : hdr[x].used})

\* Free memory never stays in pieces that kfree could have joined: no two
\* buddies are both free and no page of the heap is empty.
Coalesced ==
  /\ \A x \in Starts : ~hdr[x].used => hdr[pair(x, hdr[x].sizeno)] # hdr[x]
  /\ \A p \in heap : \E x \in Live : page(x) = p

\* None of the allocator's own assertions fails; the kernel stops only at
\* the assertion on n_cli in trap_handler.
AssertionsHold == panic \in {"none", "n_cli"}

\* kmalloc answers NULL to a size it supports only when every aligned hole of
\* that size in the heap is taken and no page can be had.
NullOnlyWhenFull ==
  failed # -1 /\ Fits(LAST_SIZENO, failed) =>
    /\ ~TmpAvailable(pm)
    /\ \A x \in Unit :
         LET i == uygun_sizeno(failed)
         IN  x % pow2[i] = 0 /\ page(x) \in heap =>
               \E y \in Live : Block(y) \cap (x .. x + pow2[i] - 1) # {}

\* The heap keeps its promise to its callers (module Heap): the bytes behind
\* a block's header are free of every other allocation.
H == INSTANCE Heap WITH
       live <- {[lo |-> 32 * x + 4, len |-> size[x]] : x \in Live}
ImplementsHeap == H!Spec
=============================================================================
