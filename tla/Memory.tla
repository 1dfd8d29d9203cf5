------------------------------- MODULE Memory -------------------------------
(***************************************************************************)
(* Address spaces of user processes: page tables and mappings of           *)
(* kernel/memory/virtual.h and virtual.cpp, and the operations that change *)
(* them: fork, exit and the stack fault of task.cpp and trap.cpp, execve   *)
(* of fs/exec.cpp, brk of syscall.cpp, shared memory of ipc/.              *)
(*                                                                         *)
(* All of it runs with interrupts off.  The operations that take several   *)
(* frames and can run out of memory half-way are jobs of one page a step;  *)
(* nothing else runs while a job does.                                     *)
(*                                                                         *)
(* A process has four regions with a page table each: the program and the  *)
(* heap behind it, shared memory, the user stack and the kernel stack.     *)
(* brk counts in half pages from the end of the program, so that roundUp   *)
(* shows.  Frames are interchangeable: page_alloc takes the lowest free    *)
(* one here (module Physical has the list).  The kernel heap holds frames  *)
(* of its own: any number at the start, and one more when the files that   *)
(* fork duplicates do not fit on its pages.                                *)
(***************************************************************************)
EXTENDS Integers, FiniteSets, SequencesExt

CONSTANTS
  NPages,      \* frames
  TmpSlots,    \* TMP_PAGE_COUNT
  Tasks,       \* ids of processes; 1 is the first one
  Programs,    \* programs exec loads: the pages of each of their segments
  MaxProgram,  \* bound: pages of a program
  MaxHeap,     \* bound: pages brk may ask for
  Brks,        \* arguments given to brk, in half pages from start_brk
  AddrPages,   \* pages of the 32-bit address space
  Segs,        \* keys of shared memory segments
  SegSizes,    \* sizes given to shmget: 0, or 1 for 1 .. 4096 bytes
  MaxAttach,   \* bound: pages of the shared memory region
  MaxOther     \* bound: frames that the kernel heap holds at the start

\* Segments loaded from page "first" on end within MaxProgram: end[i] is the
\* page behind the first i of them.
Fits(first, segs) ==
  \E end \in [0 .. Len(segs) -> 0 .. MaxProgram] :
    end[0] = first /\ \A i \in 1 .. Len(segs) : end[i] = end[i - 1] + segs[i]

\* There is memory for the first process, whatever the kernel heap holds.
ASSUME MemoryAssumption ==
  /\ Tasks \subseteq Nat \ {0} /\ 1 \in Tasks /\ IsFiniteSet(Tasks)
  /\ MaxProgram \in Nat \ {0} /\ MaxHeap \in Nat /\ MaxAttach \in Nat
  /\ Programs \subseteq Seq(Nat \ {0})
  /\ \A p \in Programs : p # <<>> /\ Fits(0, p)
  /\ Brks \subseteq 0 .. 2 * MaxHeap
  /\ AddrPages \in Nat /\ AddrPages > 2 * MaxProgram + 2 * MaxHeap
  /\ IsFiniteSet(Segs) /\ SegSizes \subseteq 0 .. 1 /\ MaxOther \in Nat
  /\ NPages \in Nat /\ NPages >= MaxOther + 9
  /\ TmpSlots \in Nat /\ TmpSlots >= MaxOther + 5

Frame == 1 .. NPages
NoFrame == 0
Slot == 1 .. TmpSlots
NoSlot == 0

\* A virtual page is its region and its number there, from low to high
Prog(i) == <<"prog", i>>
Shm(i) == <<"shm", i>>
Stack == <<"stack", 1>>              \* the page below MMAP_USER_STACK_TOP
StackBelow == <<"stack", 0>>         \* where the first stack fault hits
KStack == {<<"kstack", 0>>, <<"kstack", 1>>}
ShmVa == {Shm(i) : i \in 0 .. MaxAttach - 1}
UserVa == {Prog(i) : i \in 0 .. MaxProgram + MaxHeap - 1} \cup ShmVa \cup {Stack, StackBelow}
Va == UserVa \cup KStack
UserRegions == {"prog", "shm", "stack"}
\* the temporary pages of a process: page directory, the list of its page
\* tables, and the page tables
Tables == {"pgdir", "pgtables", "kstack"} \cup UserRegions

Idle == [op |-> "idle", t |-> 0, c |-> 0, todo |-> {}, was |-> 0, segs |-> <<>>,
         heap |-> 0]

VARIABLES
  mm,            \* frames, temporary mappings and address spaces (below)
  tstate,        \* "none", "user", "faulting" (its memory is gone) or "zombie"
  count_stack, count_program,
  start_brk,     \* pages from the start of the program to its heap
  end_brk,       \* half pages from start_brk
  seg,           \* frame of a segment, or NoFrame
  seg_size,
  attached,      \* shared_mem_list: attachments, in order
  job,           \* the operation under way
  panic          \* "none", or the assertion that failed

countVars == <<count_stack, count_program, start_brk, end_brk>>
shmVars == <<seg, seg_size, attached>>
vars == <<mm, tstate, countVars, shmVars, job, panic>>

-----------------------------------------------------------------------------
(* Frames and temporary pages.  mm is a record: used, the frames that are  *)
(* not free; rc, their reference counts; tmp, the frame mapped at a slot;  *)
(* tab[t], the slots of a process's tables; map[t], its pages; cu and ck,  *)
(* PageDirInfo::count_user and count_kernel.                               *)

Free(m) == Frame \ m.used
FreeSlots(m) == {s \in Slot : m.tmp[s] = NoFrame}
FirstFree(m) == Min(Free(m))
page_alloc(m) == [m EXCEPT !.used = @ \cup {FirstFree(m)}]
refcount_inc(m, f) == [m EXCEPT !.rc[f] = @ + 1]
refcount_dec(m, f) ==
  [m EXCEPT !.rc[f] = @ - 1, !.used = IF m.rc[f] = 1 THEN @ \ {f} ELSE @]

TmpAvailable(m) == Free(m) # {} /\ FreeSlots(m) # {}
FirstSlot(m) == Min(FreeSlots(m))
tmp_page_alloc_map(m) ==
  [refcount_inc(page_alloc(m), FirstFree(m)) EXCEPT !.tmp[FirstSlot(m)] = FirstFree(m)]
tmp_page_free(m, s) == [refcount_dec(m, m.tmp[s]) EXCEPT !.tmp[s] = NoFrame]

-----------------------------------------------------------------------------
(* PageDirInfo.                                                            *)

IsUser(va) == va \in UserVa
add_count(m, t, va, d) ==
  [m EXCEPT !.cu[t] = IF IsUser(va) THEN @ + d ELSE @,
            !.ck[t] = IF IsUser(va) THEN @ ELSE @ + d]

pde_alloc(m, t, r) ==
  [tmp_page_alloc_map(m) EXCEPT !.tab[t][r] = FirstSlot(m), !.ck[t] = @ + 1]

\* page_get_c, when CanGet
CanGet(m, t, va) == m.tab[t][va[1]] # NoSlot \/ TmpAvailable(m)
page_get_c(m, t, va) ==
  IF m.tab[t][va[1]] # NoSlot THEN m ELSE pde_alloc(m, t, va[1])

page_remove_KeepCount(m, t, va) ==
  [refcount_dec(m, m.map[t][va]) EXCEPT !.map[t][va] = NoFrame]

page_remove(m, t, va) ==
  add_count([refcount_dec(m, m.map[t][va]) EXCEPT !.map[t][va] = NoFrame], t, va, -1)

\* page_insert, when CanGet: a page that is present is removed first
page_insert(m, t, va, f) ==
  LET m1 == page_get_c(m, t, va)
      m2 == IF m1.map[t][va] = NoFrame THEN m1 ELSE page_remove(m1, t, va)
  IN  add_count([refcount_inc(m2, f) EXCEPT !.map[t][va] = f], t, va, 1)

\* page_alloc and page_insert; when the second fails page_free undoes the first
CanAlloc(m, t, va) == Free(m) # {} /\ CanGet(page_alloc(m), t, va)
page_alloc_insert(m, t, va) == page_insert(page_alloc(m), t, va, FirstFree(m))

\* __copy_page_from_current: through a temporary page, which is given back;
\* when the insertion fails so is its frame
CanCopy(m, t, va) == TmpAvailable(m) /\ CanGet(tmp_page_alloc_map(m), t, va)
copy_page(m, t, va) ==
  tmp_page_free(page_insert(tmp_page_alloc_map(m), t, va, FirstFree(m)), FirstSlot(m))

Mapped(m, t, V) == {va \in V : m.map[t][va] # NoFrame}
SlotsOf(m, t, R) == {m.tab[t][r] : r \in R} \ {NoSlot}

\* Operators whose name ends in a capital and a reason, like link_NoRef, are
\* wrong versions of the operator that follows them; no action uses them.

\* Many page_remove and pde_free in a row: the pages V and the tables R of t.
\* Frames lose a reference per page and per slot and are free at the last.
Release(m, t, V, R) ==
  LET S == SlotsOf(m, t, R)
      rc1 == [f \in Frame |-> m.rc[f] - Cardinality({va \in V : m.map[t][va] = f})
                                      - Cardinality({s \in S : m.tmp[s] = f})]
  IN  [m EXCEPT
         !.rc = rc1,
         !.used = {f \in @ : rc1[f] # 0},
         !.tmp = [s \in Slot |-> IF s \in S THEN NoFrame ELSE @[s]],
         !.map[t] = [va \in Va |-> IF va \in V THEN NoFrame ELSE @[va]],
         !.tab[t] = [r \in Tables |-> IF r \in R THEN NoSlot ELSE @[r]],
         !.cu[t] = @ - Cardinality(Mapped(m, t, V \cap UserVa)),
         !.ck[t] = @ - Cardinality(Mapped(m, t, V \cap KStack)) - Cardinality(S)]

\* task_free_vm_user; its assertion, that each page had a single reference
task_free_vm_user(m, t) == Release(m, t, UserVa, UserRegions)
SoleOwner(m, t) == \A va \in Mapped(m, t, UserVa) : m.rc[m.map[t][va]] = 1
-----------------------------------------------------------------------------
(* fork.                                                                   *)

Running == panic = "none"
Ready(t) == Running /\ job.op = "idle" /\ tstate[t] = "user"

\* the order in which copy_pages meets the pages
Rank(va) == va[2] + (IF va[1] = "prog" THEN 0 ELSE 100)
Next_va == CHOOSE va \in job.todo : \A w \in job.todo : Rank(va) <= Rank(w)

setup_vm(m, c) == pde_alloc(pde_alloc(m, c, "pgdir"), c, "pgtables")

\* do_fork up to the user pages; without two temporary pages task_setup_vm
\* fails, task_delete_vm gives back what it got and nothing has changed
fork(t) ==
  LET None == {c \in Tasks : tstate[c] = "none"}
      c == Min(None)
  IN  /\ Ready(t)
      /\ None # {}
      /\ TmpAvailable(mm) /\ TmpAvailable(tmp_page_alloc_map(mm))
      /\ mm' = setup_vm(mm, c)
      /\ job' = [op |-> "fork_user", t |-> t, c |-> c, was |-> Cardinality(Free(mm)),
                 segs |-> <<>>, todo |-> Mapped(mm, t, UserVa \ ShmVa), heap |-> 0]
      /\ UNCHANGED <<tstate, countVars, shmVars, panic>>

bad_fork_kernel_stack_KeepTable(m, c) ==
  Release(m, c, {<<"kstack", 0>>}, {})

\* bad_fork_copy_kernel_stack: task_free_kernel_stack of the child, whose
\* segment_free removes the lowest page of the stack (twice)
bad_fork_kernel_stack(m, c) == Release(m, c, {<<"kstack", 0>>}, {"kstack"})

bad_fork_vm(m, c) == Release(task_free_vm_user(m, c), c, {}, {"pgdir", "pgtables"})

\* The error path of do_fork, from the label its phase jumps to.  Behind the
\* label bad_fork_fs is nothing: the files stay duplicated.
bad_fork ==
  LET c == job.c
      m1 == IF job.op = "fork_kstack" THEN bad_fork_kernel_stack(mm, c) ELSE mm
      m2 == bad_fork_vm(m1, c)
  IN  IF SoleOwner(m1, c)
      THEN /\ mm' = m2
           /\ attached' = [attached EXCEPT ![c] = <<>>]
           /\ IF Cardinality(Free(m2)) = job.was /\ m2.cu[c] = 0 /\ m2.ck[c] = 0
              THEN job' = Idle /\ UNCHANGED panic
              ELSE panic' = "do_fork" /\ UNCHANGED job
      ELSE panic' = "task_free_vm_user" /\ UNCHANGED <<mm, attached, job>>

\* one page of copy_pages
fork_copy ==
  /\ Running
  /\ job.op \in {"fork_user", "fork_kstack"} /\ job.todo # {}
  /\ IF CanCopy(mm, job.c, Next_va)
     THEN /\ mm' = copy_page(mm, job.c, Next_va)
          /\ job' = [job EXCEPT !.todo = @ \ {Next_va}]
          /\ UNCHANGED <<attached, panic>>
     ELSE bad_fork
  /\ UNCHANGED <<tstate, countVars, seg, seg_size>>

link_NoRef(m, c, V, src) ==
  [m EXCEPT !.map[c] = [va \in Va |-> IF va \in V THEN src[va] ELSE @[va]],
            !.cu[c] = @ + Cardinality(V)]
link_NoCount(m, c, V, src) ==
  [m EXCEPT !.map[c] = [va \in Va |-> IF va \in V THEN src[va] ELSE @[va]],
            !.rc = [f \in Frame |-> @[f] + Cardinality({va \in V : src[va] = f})]]

\* link_pages of the shared pages V of src into c, when there is a page table
link(m, c, V, src) ==
  [m EXCEPT
     !.map[c] = [va \in Va |-> IF va \in V THEN src[va] ELSE @[va]],
     !.rc = [f \in Frame |-> @[f] + Cardinality({va \in V : src[va] = f})],
     !.cu[c] = @ + Cardinality(V)]

\* shm_fork: every attachment links the whole region; if the page table cannot
\* be had bad_link_pages calls pde_free for one that does not exist
fork_shm ==
  LET V == IF attached[job.t] = <<>> THEN {} ELSE Mapped(mm, job.t, ShmVa)
      src == mm.map[job.t]
  IN  /\ Running
      /\ job.op = "fork_user" /\ job.todo = {}
      /\ IF V = {} \/ TmpAvailable(mm)
         THEN /\ mm' = IF V = {} THEN mm ELSE link(pde_alloc(mm, job.c, "shm"), job.c, V, src)
              /\ attached' = [attached EXCEPT ![job.c] = attached[job.t]]
              /\ job' = [job EXCEPT !.op = "fork_fs", !.todo = KStack]
              /\ UNCHANGED panic
         ELSE /\ panic' = "pde_free" /\ job' = Idle
              /\ UNCHANGED <<mm, attached>>
      /\ UNCHANGED <<tstate, countVars, seg, seg_size>>

\* fs_fork: file_dup allocates a struct file for each open file; all of them
\* fit on one page.  The kernel heap has room for them, or takes a frame, or
\* has neither, and file_dup goes on with the null pointer, which is mapped.
fork_fs(pages) ==
  /\ Running
  /\ job.op = "fork_fs"
  /\ pages = 1 => TmpAvailable(mm)
  /\ mm' = IF pages = 1 THEN tmp_page_alloc_map(mm) ELSE mm
  /\ job' = [job EXCEPT !.op = "fork_kstack", !.heap = pages]
  /\ UNCHANGED <<tstate, countVars, shmVars, panic>>

fork_end ==
  /\ Running
  /\ job.op = "fork_kstack" /\ job.todo = {}
  /\ tstate' = [tstate EXCEPT ![job.c] = "user"]
  /\ count_stack' = [count_stack EXCEPT ![job.c] = count_stack[job.t]]
  /\ count_program' = [count_program EXCEPT ![job.c] = count_program[job.t]]
  /\ start_brk' = [start_brk EXCEPT ![job.c] = start_brk[job.t]]
  /\ end_brk' = [end_brk EXCEPT ![job.c] = end_brk[job.t]]
  /\ job' = Idle
  /\ UNCHANGED <<mm, shmVars, panic>>

-----------------------------------------------------------------------------
(* Addresses of the heap, and exit with the page faults that end in it.    *)

\* roundUp of the address b half pages behind start_brk[t], as a page number;
\* an address in the last page of the address space rounds up to 0
roundUp(t, b) == (start_brk[t] + (b + 1) \div 2) % AddrPages
LastHalf(t) == 2 * (AddrPages - start_brk[t]) - 1

\* the pages detach_shared_mem removes: none for a segment of size 0
DetachedPages(t) == {a.va : a \in {x \in {attached[t][i] : i \in DOMAIN attached[t]} :
                                     seg_size[x.seg] > 0}}

\* task_free, called by do_exit with the memory m and the stack count n.
\* The page directory and the kernel stack stay (free_zombie_tasks is never
\* called).
task_free(t, m, n) ==
  LET m1 == Release(m, t, DetachedPages(t), {})
      m2 == task_free_vm_user(m1, t)
      count_brk == (roundUp(t, end_brk[t]) - start_brk[t]) % AddrPages
  IN  IF t = 1 THEN panic' = "exit task 1" /\ UNCHANGED <<mm, tstate, countVars, attached>>
      ELSE IF n + count_program[t] + count_brk # m1.cu[t]
      THEN panic' = "task_free" /\ UNCHANGED <<mm, tstate, countVars, attached>>
      ELSE IF ~SoleOwner(m1, t)
      THEN panic' = "task_free_vm_user" /\ UNCHANGED <<mm, tstate, countVars, attached>>
      ELSE /\ mm' = m2
           /\ tstate' = [tstate EXCEPT ![t] = "zombie"]
           /\ count_stack' = [count_stack EXCEPT ![t] = 0]
           /\ count_program' = [count_program EXCEPT ![t] = 0]
           /\ attached' = [attached EXCEPT ![t] = <<>>]
           /\ UNCHANGED <<start_brk, end_brk, panic>>

do_exit(t) ==
  /\ Ready(t)
  /\ task_free(t, mm, count_stack[t])
  /\ UNCHANGED <<seg, seg_size, job>>

\* do_page_fault below the stack: the stack grows, and the process is ended
\* all the same
stack_fault(t) ==
  /\ Ready(t)
  /\ mm.map[t][StackBelow] = NoFrame
  /\ IF CanAlloc(mm, t, StackBelow)
     THEN task_free(t, page_alloc_insert(mm, t, StackBelow), count_stack[t] + 1)
     ELSE task_free(t, mm, count_stack[t])
  /\ UNCHANGED <<seg, seg_size, job>>

\* do_page_fault of a process that a failed exec left without its program
program_fault(t) ==
  /\ Running /\ job.op = "idle"
  /\ tstate[t] = "faulting"
  /\ task_free(t, mm, count_stack[t])
  /\ UNCHANGED <<seg, seg_size, job>>

-----------------------------------------------------------------------------
(* execve.                                                                 *)

SegPages(first, n) == {Prog(i) : i \in first .. first + n - 1}

\* do_execve up to init_user_stack
execve(t, p) ==
  LET m1 == task_free_vm_user(mm, t)
      ok == CanAlloc(m1, t, Stack)
  IN  /\ Ready(t)
      /\ IF SoleOwner(mm, t)
         THEN /\ mm' = IF ok THEN page_alloc_insert(m1, t, Stack) ELSE m1
              /\ count_stack' = [count_stack EXCEPT ![t] = IF ok THEN 1 ELSE 0]
              /\ count_program' = [count_program EXCEPT ![t] = 0]
              /\ tstate' = [tstate EXCEPT ![t] = "faulting"]
              /\ job' = IF ok THEN [Idle EXCEPT !.op = "exec", !.t = t, !.segs = p,
                                       !.todo = SegPages(0, p[1])]
                              ELSE Idle
              /\ UNCHANGED panic
         ELSE /\ panic' = "task_free_vm_user"
              /\ UNCHANGED <<mm, count_stack, count_program, tstate, job>>
      /\ UNCHANGED <<start_brk, end_brk, shmVars>>

\* one page of load_program's segment_alloc.  When it fails it removes the
\* pages but not the page table they brought, and asserts on count_kernel.
load_program ==
  LET t == job.t
      first == count_program[t] = 0
  IN  /\ Running
      /\ job.op = "exec" /\ job.todo # {}
      /\ IF CanAlloc(mm, t, Next_va)
         THEN /\ mm' = page_alloc_insert(mm, t, Next_va)
              /\ job' = [job EXCEPT !.todo = @ \ {Next_va}]
              /\ UNCHANGED panic
         ELSE /\ mm' = Release(mm, t, SegPages(count_program[t], Head(job.segs)), {})
              /\ panic' = IF first /\ mm.tab[t]["prog"] # NoSlot
                          THEN "segment_alloc" ELSE "none"
              /\ job' = Idle
      /\ UNCHANGED <<tstate, countVars, shmVars>>

\* a segment is loaded; after the last one the heap starts behind it
exec_segment ==
  LET t == job.t
      n == count_program[t] + Head(job.segs)
      last == Tail(job.segs) = <<>>
  IN  /\ Running
      /\ job.op = "exec" /\ job.todo = {}
      /\ count_program' = [count_program EXCEPT ![t] = n]
      /\ IF last
         THEN /\ tstate' = [tstate EXCEPT ![t] = "user"]
              /\ start_brk' = [start_brk EXCEPT ![t] = n]
              /\ end_brk' = [end_brk EXCEPT ![t] = 0]
              /\ job' = Idle
         ELSE /\ job' = [job EXCEPT !.segs = Tail(@), !.todo = SegPages(n, job.segs[2])]
              /\ UNCHANGED <<tstate, start_brk, end_brk>>
      /\ UNCHANGED <<mm, count_stack, shmVars, panic>>

-----------------------------------------------------------------------------
(* brk.                                                                    *)

HeapPages(a, b) == {Prog(i) : i \in a .. b - 1}

\* sys_brk above end_brk, up to the loop that adds pages: none for an address
\* that rounds up to 0
brk_grow(t, b) ==
  /\ Ready(t)
  /\ b > end_brk[t]
  /\ job' = [Idle EXCEPT !.op = "brk", !.t = t, !.was = b,
                         !.todo = HeapPages(roundUp(t, end_brk[t]), roundUp(t, b))]
  /\ UNCHANGED <<mm, tstate, countVars, shmVars, panic>>

bad_sys_brk_KeepPages(m, t) == m

\* the pages the loop added, from the one that failed down to end_brk
bad_sys_brk(m, t) ==
  Release(m, t, HeapPages(roundUp(t, end_brk[t]), start_brk[t] + MaxHeap), {})

brk_page ==
  /\ Running
  /\ job.op = "brk" /\ job.todo # {}
  /\ IF CanAlloc(mm, job.t, Next_va)
     THEN /\ mm' = page_alloc_insert(mm, job.t, Next_va)
          /\ job' = [job EXCEPT !.todo = @ \ {Next_va}]
     ELSE mm' = bad_sys_brk(mm, job.t) /\ job' = Idle
  /\ UNCHANGED <<tstate, countVars, shmVars, panic>>

brk_end ==
  /\ Running
  /\ job.op = "brk" /\ job.todo = {}
  /\ end_brk' = [end_brk EXCEPT ![job.t] = job.was]
  /\ job' = Idle
  /\ UNCHANGED <<mm, tstate, count_stack, count_program, start_brk, shmVars, panic>>

\* sys_brk up to end_brk.  The loop starts at the page below roundUp(end_brk),
\* the last of the address space when that is 0, and asserts of every page that
\* it was there (what it removed before the one that was not is left out).
brk_shrink(t, b) ==
  LET last == (roundUp(t, end_brk[t]) - 1) % AddrPages
      gone == HeapPages(roundUp(t, b), last + 1)
  IN  /\ Ready(t)
      /\ b <= end_brk[t]
      /\ IF gone \subseteq Mapped(mm, t, UserVa)
         THEN /\ mm' = Release(mm, t, gone, {})
              /\ end_brk' = [end_brk EXCEPT ![t] = b]
              /\ UNCHANGED panic
         ELSE panic' = "sys_brk" /\ UNCHANGED <<mm, end_brk>>
      /\ UNCHANGED <<tstate, count_stack, count_program, start_brk, shmVars, job>>

-----------------------------------------------------------------------------
(* Shared memory.                                                          *)

shmget_NoRef(m) == page_alloc(m)
shmget_page(m) == refcount_inc(page_alloc(m), FirstFree(m))

\* sys_shmget that creates a segment
shmget(t, k, size) ==
  /\ Ready(t)
  /\ seg[k] = NoFrame
  /\ Free(mm) # {}
  /\ mm' = shmget_page(mm)
  /\ seg' = [seg EXCEPT ![k] = FirstFree(mm)]
  /\ seg_size' = [seg_size EXCEPT ![k] = size]
  /\ UNCHANGED <<tstate, countVars, attached, job, panic>>

\* sys_shmat at the first page of the region that is not present
shmat(t, k) ==
  LET absent == {i \in 0 .. MaxAttach - 1 : mm.map[t][Shm(i)] = NoFrame}
      va == Shm(Min(absent))
  IN  /\ Ready(t)
      /\ seg[k] # NoFrame
      /\ absent # {}
      /\ CanGet(mm, t, va)
      /\ mm' = page_insert(mm, t, va, seg[k])
      /\ attached' = [attached EXCEPT ![t] = Append(@, [va |-> va, seg |-> k])]
      /\ UNCHANGED <<tstate, countVars, seg, seg_size, job, panic>>

\* sys_shmdt of the i-th attachment; a segment of size 0 keeps its page
shmdt(t, i) ==
  LET a == attached[t][i]
  IN  /\ Ready(t)
      /\ mm' = IF seg_size[a.seg] > 0 THEN page_remove(mm, t, a.va) ELSE mm
      /\ attached' = [attached EXCEPT ![t] = SubSeq(@, 1, i - 1) \o SubSeq(@, i + 1, Len(@))]
      /\ UNCHANGED <<tstate, countVars, seg, seg_size, job, panic>>

-----------------------------------------------------------------------------
\* The first process in user mode, as fork and exec made it, when the kernel
\* heap holds n frames
FirstProcess(n) ==
  LET empty == [used |-> NPages - n + 1 .. NPages,
                rc |-> [f \in Frame |-> IF f > NPages - n THEN 1 ELSE 0],
                tmp |-> [s \in Slot |-> IF s > TmpSlots - n THEN s + NPages - TmpSlots
                                       ELSE NoFrame],
                tab |-> [t \in Tasks |-> [r \in Tables |-> NoSlot]],
                map |-> [t \in Tasks |-> [va \in Va |-> NoFrame]],
                cu |-> [t \in Tasks |-> 0], ck |-> [t \in Tasks |-> 0]]
      k == page_alloc_insert(page_alloc_insert(setup_vm(empty, 1), 1, <<"kstack", 0>>),
                             1, <<"kstack", 1>>)
  IN  page_alloc_insert(page_alloc_insert(k, 1, Stack), 1, Prog(0))

Init ==
  /\ mm \in {FirstProcess(n) : n \in 0 .. MaxOther}
  /\ tstate = [t \in Tasks |-> IF t = 1 THEN "user" ELSE "none"]
  /\ count_stack = [t \in Tasks |-> IF t = 1 THEN 1 ELSE 0]
  /\ count_program = [t \in Tasks |-> IF t = 1 THEN 1 ELSE 0]
  /\ start_brk = [t \in Tasks |-> IF t = 1 THEN 1 ELSE 0]
  /\ end_brk = [t \in Tasks |-> 0]
  /\ seg = [k \in Segs |-> NoFrame] /\ seg_size = [k \in Segs |-> 0]
  /\ attached = [t \in Tasks |-> <<>>]
  /\ job = Idle
  /\ panic = "none"

Next ==
  \/ \E t \in Tasks :
       \/ fork(t) \/ do_exit(t) \/ stack_fault(t) \/ program_fault(t)
       \/ \E p \in Programs : execve(t, p)
       \/ \E b \in Brks \cup {LastHalf(t)} : brk_grow(t, b) \/ brk_shrink(t, b)
       \/ \E k \in Segs : shmat(t, k) \/ \E z \in SegSizes : shmget(t, k, z)
       \/ \E i \in DOMAIN attached[t] : shmdt(t, i)
  \/ fork_copy \/ fork_shm \/ (\E pages \in 0 .. 1 : fork_fs(pages)) \/ fork_end
  \/ load_program \/ exec_segment
  \/ brk_page \/ brk_end

Spec == Init /\ [][Next]_vars

-----------------------------------------------------------------------------
(* Properties.                                                             *)

\* The type of every variable; counts that the code keeps unsigned are never
\* negative and never more than there are pages.
TypeOK ==
  /\ mm \in [used : SUBSET Frame, rc : [Frame -> Nat],
             tmp : [Slot -> Frame \cup {NoFrame}],
             tab : [Tasks -> [Tables -> Slot \cup {NoSlot}]],
             map : [Tasks -> [Va -> Frame \cup {NoFrame}]],
             cu : [Tasks -> 0 .. Cardinality(UserVa)],
             ck : [Tasks -> 0 .. Cardinality(KStack) + Cardinality(Tables)]]
  /\ tstate \in [Tasks -> {"none", "user", "faulting", "zombie"}]
  /\ count_stack \in [Tasks -> 0 .. 1] /\ count_program \in [Tasks -> 0 .. MaxProgram]
  /\ start_brk \in [Tasks -> 0 .. MaxProgram]
  /\ end_brk \in [Tasks -> 0 .. 2 * AddrPages]
  /\ seg \in [Segs -> Frame \cup {NoFrame}] /\ seg_size \in [Segs -> {0} \cup SegSizes]
  /\ attached \in [Tasks -> Seq([va : ShmVa, seg : Segs])]
  /\ job.op \in {"idle", "fork_user", "fork_fs", "fork_kstack", "exec", "brk"}
  /\ panic \in {"none", "exit task 1", "do_fork", "task_free", "task_free_vm_user",
                "pde_free", "segment_alloc", "sys_brk"}

\* mappings of a frame by processes, by the kernel, and by a segment's owner
Refs(f) ==
  Cardinality({x \in Tasks \X Va : mm.map[x[1]][x[2]] = f})
  + Cardinality({s \in Slot : mm.tmp[s] = f}) + Cardinality({k \in Segs : seg[k] = f})

\* Across fork, exit, exec, brk and shared memory, failures included, a frame
\* has exactly the references that its count says and is free when it has none:
\* nothing leaks and nothing is freed while it is mapped.
RefcountsExact ==
  \A f \in Frame : mm.rc[f] = Refs(f) /\ (f \in mm.used <=> Refs(f) > 0)

\* count_user and count_kernel, which page_insert and page_remove keep, are the
\* pages and tables that the process really has.
CountsExact ==
  \A t \in Tasks :
    /\ mm.cu[t] = Cardinality(Mapped(mm, t, UserVa))
    /\ mm.ck[t] = Cardinality(Mapped(mm, t, KStack)) + Cardinality(SlotsOf(mm, t, Tables))

\* Two processes share a frame only as pages of one shared memory segment, and
\* no process maps a page table, a page directory or the kernel heap.
Isolation ==
  \A t \in Tasks, va \in Va :
    LET f == mm.map[t][va]
    IN  f # NoFrame =>
          /\ \A s \in Slot : mm.tmp[s] # f
          /\ \A u \in Tasks, w \in Va :
               mm.map[u][w] = f /\ <<u, w>> # <<t, va>> =>
                 va \in ShmVa /\ w \in ShmVa /\ \E k \in Segs : seg[k] = f

\* The end of the heap of t is in the last page: no page stands behind it.
Wrapped(t) == roundUp(t, end_brk[t]) < start_brk[t]

\* Between operations every process has a whole address space: its program, its
\* stacks, its attachments and its heap up to end_brk, unless brk was called
\* with an address that rounds up to 0, when the heap is what it was before; a
\* zombie has what free_zombie_tasks would free, and a fork or brk that failed
\* has left nothing.
WholeAddressSpaces ==
  Running /\ job.op = "idle" =>
    \A t \in Tasks :
      LET pages == Mapped(mm, t, Va \ ShmVa)
          atts == {attached[t][i] : i \in DOMAIN attached[t]}
      IN  /\ tstate[t] = "user" =>
               /\ \E n \in 0 .. MaxHeap :
                    /\ pages = {Prog(i) : i \in 0 .. count_program[t] + n - 1}
                               \cup {Stack} \cup KStack
                    /\ ~Wrapped(t) => start_brk[t] + n = roundUp(t, end_brk[t])
               /\ \A a \in atts : mm.map[t][a.va] = seg[a.seg]
          /\ tstate[t] = "zombie" =>
               pages = KStack /\ \A r \in UserRegions : mm.tab[t][r] = NoSlot
          /\ tstate[t] = "none" => pages = {} /\ SlotsOf(mm, t, Tables) = {}
          /\ tstate[t] \in {"none", "zombie"} => Mapped(mm, t, ShmVa) = {} /\ atts = {}

\* The assertions of these functions fail only where a process has shared
\* memory mapped, its brk has wrapped, exec ran out of memory, or fork did after
\* its files took a page for the kernel heap; otherwise fork and brk clean up
\* exactly.
AssertionsExplained ==
  LET shared == \E t \in Tasks : Mapped(mm, t, ShmVa) # {}
      broken == \E t \in Tasks : tstate[t] = "faulting"
      wrapped == \E t \in Tasks : tstate[t] = "user" /\ Wrapped(t)
  IN  /\ panic = "do_fork" => job.op = "fork_kstack" /\ job.heap = 1
      /\ panic = "sys_brk" => wrapped
      /\ panic \in {"task_free_vm_user", "pde_free"} => shared
      /\ panic = "task_free" => shared \/ broken \/ wrapped
      /\ panic = "segment_alloc" => broken
=============================================================================
