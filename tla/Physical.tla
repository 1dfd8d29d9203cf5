------------------------------ MODULE Physical ------------------------------
(***************************************************************************)
(* Physical page frames and the kernel's temporary mappings: struct Page   *)
(* and FreePageList of kernel/memory/physical.h, and the tmp_page          *)
(* functions of kernel/memory/virtual.cpp that map a frame in the kernel.  *)
(*                                                                         *)
(* One field of struct Page is the index of the next free frame while the  *)
(* frame is free and its reference count while it is not; frame 0 is the   *)
(* null pointer of the list.  All of these functions run with interrupts   *)
(* off, so they are operators from one state of the frames, m, to the next *)
(* and their callers compose them.                                         *)
(***************************************************************************)
EXTENDS Integers, FiniteSets, Sequences

CONSTANTS
  NPages,       \* frames pm_init finds above the kernel (Type_available)
  TmpPageCount  \* TMP_PAGE_COUNT

ASSUME PhysicalAssumption ==
  NPages \in Nat \ {0} /\ TmpPageCount \in Nat \ {0}

Frame == 1 .. NPages
NoFrame == 0
Slot == 0 .. TmpPageCount - 1
NoSlot == -1

\* FreePageList::insert: at the end of the list
insert(m, f) ==
  LET m1 == [m EXCEPT !.n[f] = 0, !.count = @ + 1, !.end = f]
  IN  IF m.begin # NoFrame THEN [m1 EXCEPT !.n[m.end] = f]
                           ELSE [m1 EXCEPT !.begin = f]

\* FreePageList::getFirst, for a list that is not empty
getFirst(m) ==
  [m EXCEPT !.begin = IF m.end = m.begin THEN NoFrame ELSE m.n[m.begin],
            !.end   = IF m.end = m.begin THEN NoFrame ELSE @,
            !.n[m.begin] = 0,
            !.count = @ - 1]

\* page_alloc, for a list that is not empty: the frame is m.begin
page_alloc(m) ==
  [getFirst(m) EXCEPT !.free[m.begin] = FALSE, !.ok = @ /\ m.free[m.begin]]

page_free(m, f) ==
  insert([m EXCEPT !.free[f] = TRUE, !.ok = @ /\ ~m.free[f] /\ m.n[f] = 0], f)

refcount_inc(m, f) == [m EXCEPT !.n[f] = (@ + 1) % 2^20, !.ok = @ /\ ~m.free[f]]

\* A wrong version of the operator that follows; no action uses it.
refcount_dec_NoFree(m, f) == [m EXCEPT !.n[f] = (@ - 1) % 2^20]

\* Page::refcount_dec; the last reference gives the frame back
refcount_dec(m, f) ==
  LET m1 == [m EXCEPT !.n[f] = (@ - 1) % 2^20, !.ok = @ /\ ~m.free[f]]
  IN  IF m1.n[f] = 0 THEN page_free(m1, f) ELSE m1

bitmap_find_first_zero(bits) ==
  IF bits = Slot THEN NoSlot
  ELSE CHOOSE s \in Slot \ bits : \A u \in Slot \ bits : s <= u

\* tmp_page_get: the first slot that the bitmap has as unused
tmp_page_get(m) == bitmap_find_first_zero(m.bits)

TmpAvailable(m) == tmp_page_get(m) # NoSlot /\ m.begin # NoFrame

\* tmp_page_alloc_map, when a slot and a frame are available (otherwise it
\* returns -ENOMEM and has given the slot back); the slot is tmp_page_get(m)
tmp_page_alloc_map(m) ==
  [refcount_inc(page_alloc(m), m.begin) EXCEPT
     !.bits = @ \cup {tmp_page_get(m)},
     !.pte[tmp_page_get(m)] = m.begin]

\* tmp_page_free of a mapped slot: page_remove, then tmp_page_put
tmp_page_free(m, s) ==
  [refcount_dec(m, m.pte[s]) EXCEPT !.pte[s] = NoFrame, !.bits = @ \ {s},
                                    !.ok = @ /\ s \in m.bits]

\* pm_init: the free list of frames in the order of their addresses
pm_init ==
  [n     |-> [f \in Frame |-> IF f = NPages THEN 0 ELSE f + 1],
   free  |-> [f \in Frame |-> TRUE],
   begin |-> 1, end |-> NPages, count |-> NPages,
   bits  |-> {}, pte |-> [s \in Slot |-> NoFrame],
   ok    |-> TRUE]

FreeFrames(m) == {f \in Frame : m.free[f]}
SlotsOf(m, f) == {s \in Slot : m.pte[s] = f}
=============================================================================
