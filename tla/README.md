# A TLA+ verification of the MakarnaX kernel

MakarnaX is a small x86 kernel in C++: one processor, preemptive round-robin
scheduling, fork/exec/exit/wait, signals, semaphores and shared memory, paged
memory, a kernel heap and a file system held in memory.  Its kernel code is
interruptible: the timer may preempt a task anywhere between two
`cli/pushcli ... popif` sections, and `schedule()` itself runs with interrupts on
for most of its length.  That is where the hard bugs of such a kernel are, so
that is what the models are about.

Contents: [inventory](#1-inventory) · [plan](#2-plan) · modules: [Sched](#3-sched-process-management),
[Semaphore](#4-semaphore-and-mutex), [Signal](#5-signal-handlers), [Memory](#6-memory-address-spaces),
[Kmalloc](#7-physical-kmalloc-and-heap), [FileSystem](#8-filesystem-and-namespace),
[Console](#9-console-and-inputqueue) · [runs](#10-runs) · [proofs](#11-proofs) ·
[what the code does not keep](#12-where-the-code-does-not-keep-its-word) · [limits](#13-what-is-not-modelled)

Running it, in this directory:

    tlc -config MCSched_lists.cfg MCSched      # likewise the other MCSched_*.cfg
    tlc -config Semaphore.cfg Semaphore        # and Semaphore_v_post.cfg
    tlc -config Signal.cfg Signal
    tlc -config MCMemory.cfg MCMemory
    tlc -config Kmalloc.cfg Kmalloc
    tlc -config MCFileSystem.cfg MCFileSystem
    tlc -config MCConsole.cfg MCConsole
    tlapm ListLemmas.tla                       # likewise SchedProofs, SemaphoreProofs, SignalProofs,
                                               # MemoryProofs, KmallocProofs, ConsoleProofs,
                                               # FileSystemProofs

`PROJECT.json` lists for every definition the source lines it stands for, every
run, every known hazard and, for every property, a wrong version of one
definition (the operators with names like `Detach_NoErase`) that makes it fail.

## 1. Inventory

| component (kernel/...) | state | operations | works with |
|---|---|---|---|
| scheduler `sched.cpp` | the runnable queue, sleep list, alarm list, `jiffies`, per task `state`, `list_node`, `counter`, `sleep`, `alarm` | `schedule`, `do_timer`, sleep/wake-up primitives, `sys_yield/pause/sleep/alarm` | called by everything that blocks; sends SIGALRM; runs the hook of the semaphores |
| process management `task.cpp`, `task.h`, `task_exit.cpp` | task table, parent/children, zombie list, `waiting_child`, `wait_notify_next` | `do_fork`, `do_exit`, `switch_to_task`, `sys_wait`, `sys_kill` | copies address space, files, attachments; `notify_parent` sends SIGCHLD |
| signals `signal.cpp` | per task pending set, handlers, a stack saved for the handler | `send_signal`, `check_signals`, `sys_signal`, `signal_return` | wakes sleepers; `schedule()` ends in `check_signals` |
| interrupts `trap.cpp`, `spinlock.cpp`, `timer.cpp`, `picirq.cpp` | interrupt flag, `n_cli` | `trap_handler`, page fault, `pushcli/popif` | every critical section |
| inode lock `fs/inode.cpp` | `lock.val`, wait list | `inode_lock`, `inode_unlock` | uninterruptible sleep with `pushcli` open |
| semaphores `ipc/semaphore.cpp` | value, wait list, per task `run_before_switch_f` | `sem_init`, `sem_wait`, `sem_post`, deferred `do_sempost` | the hook runs inside `schedule()` |
| shared memory `ipc/shared_memory.cpp` | segments, attach counts, per task attachments | `shmget/at/dt`, `shm_fork`, `shm_task_free` | page reference counts, fork, exit |
| kernel heap `memory/kmalloc.cpp` | buddy areas and free lists | `kmalloc`, `kfree` | every kernel object |
| physical and virtual memory `memory/*.cpp` | page reference counts, free list, page tables | page alloc/free, map/unmap, copy on fork, `brk` | fork, exec, shm, page fault |
| file system `fs/*.cpp` | inode and dirent reference counts, open files | open/close/read/write, mkdir/rmdir/unlink, path lookup | inode lock, kmalloc |
| denemefs `fs/denemefs/*.cpp` | directory blocks, file contents | create/remove entry, read/write | inode |
| program loading `fs/exec.cpp` | none of its own | `do_execve` | address space, files |
| console `console.cpp`, `keyboard.cpp` | input ring of 512, its wait list | `console_interrupt`, `sys_cgetc` | wakes readers; runs the kernel monitor at Ctrl+Alt+Del |
| containers `include/wmc/*.h` | intrusive lists, id hash table | insert/erase/pop | all lists above |
| monitor and panic | — | halts the tasks | every `ASSERT`, `PANIC` |

What is hard, and what correctness means there:

* **Lists against interrupts.** A task has *one* `list_node`, moved between the
  runnable, sleep, input, lock and zombie lists by ticks, keys, signals and
  exits.  It must be in exactly the list its state names (`ListInv`).
* **Nested `schedule()`.** A tick inside `schedule()` starts another one on the
  same kernel stack, so what the outer one has read (`task_next`, the hook) may be
  stale when it goes on.
* **Calls that end twice.** A handled signal makes the tail of a blocking call run
  before the handler and again after it.
* **Death and reporting.** Parents wait, children exit, either may be killed on
  the way; the chain through `wait_notify_next` must hold dead tasks only.
* **Hand-over of locks.** Inode locks and semaphores pass from task to task
  without being free in between, and a semaphore may be free with tasks waiting.
* **Time.** Sleep and alarm lists must be in order, as the code that empties them
  stops at the first entry that is not due.
* **Progress.** Every runnable task runs, every sleeper is woken, every waiter
  is served.
* **Reference counts and partial failure** (memory, files, shared memory): an
  object is freed once, when its last user is gone, also if fork fails half way.

`PROJECT.json` → `hazards` gives each at its line.

## 2. Plan

In order of importance; what is done is described in its own section.

1. **Sched** *(done, with proofs)* — scheduler, process life cycle, default
   signals, inode lock.
2. **Semaphore**, refining the abstract **Mutex** *(done, with proofs)*.
3. **Signal** *(done, with proofs)* — handlers and the stacks they are entered and
   left on.
4. **Memory** *(done, with proofs)* — page tables as maps, reference counts, shared
   memory, fork, exit, exec and `brk` with memory running out at any page and
   addresses that wrap.
5. **Physical** and **Kmalloc**, refining the abstract **Heap** *(done, with proofs)*.
6. **FileSystem**, refining the abstract **Namespace** *(done with proofs, for several
   tasks, without open files)*.
7. **Console**, refining the abstract **InputQueue** *(done, with proofs)*.
8. Open file tables, with the references `file_dup` takes and the `close` in
   `do_exit`; the alarm list at pointer level (fork copies a linked node).

Modules that are proved about contain no RECURSIVE operator; lists are sequences,
and `ListLemmas` holds the facts about them that all proofs share.

## 3. Sched: process management

`Sched.tla` models `sched.cpp`, `task_exit.cpp`, the parts of `task.cpp`,
`signal.cpp`, `fs/inode.cpp`, `console.cpp` and `trap.cpp` that move tasks.

**Steps.** An action is a stretch of code no interrupt can split.  `schedule()`
is five: a round of `check_alarm`, a round of `check_sleep_list`,
`find_runnable_task`, `switch_to_task` (from the `cli` of line 144), and
`check_signals`.  The interrupt flag `intr` is state, since `inode_lock` calls
`schedule()` with interrupts off and the `sti` behind the switch turns them on.

**Kernel stacks.** `kstack[t]` holds the places where code of task `t` continues.
The frame behind `find_runnable_task` carries the local `task_next`.  A tick
pushes `schedule()` and `trap_ret` on whatever is there; a system call pushes
`schedule()` and what follows it (`wait_ret`, `lock_ret`).  `do_exit` never returns
and replaces the stack.

| model | code |
|---|---|
| `node[t]`, `list[l]` | `list_node.__list` and the lists; queues of other priorities are empty, as every task has `DEFAULT_PRIORITY` |
| `tstate`, `counter`, `sleep`, `alarm`, `sig`, `parent`, `waiting_child`, `wait_notify_next` | members of `Task` (`task.h`) |
| `lock_val`, `list["lock"]` | one `inode->lock` |
| `n_cli` | the pushcli depth a task keeps across a switch |
| `panic` | which `ASSERT` or `PANIC` stopped the kernel; `Halt` stutters from then on |
| `check_alarm` … `check_signals` | `schedule()` |
| `notify_parent`, `exit_ret`, `wait_ret`, `lock_ret`, `inode_unlock`, `trap_ret` | code behind a call of `schedule()`, or behind `do_exit`'s list work |
| `sys_*`, `inode_lock` | system calls of the current task |
| `do_timer`, `do_irq_keyboard` | interrupts |

`sys_sleep` inserts where the code does, by comparing absolute wake-up times with
its relative argument.  Two assertions of the code need no
variable: the `state == running` of `find_runnable_task` and the "node is free"
of `add_to_runnable_list` follow from `ListInv`.

**Constants.** `MaxTasks` bounds the ids (`set_task_id` never reuses one),
`MaxJiffies` the clock (it saturates; sleeps and alarms that would end later are
not started), `MaxDepth` the stack depth at which a tick still nests.  `Priority`
is `DEFAULT_PRIORITY` (3 in the code, 0 in the instances: a slice is then one
tick and preemption most frequent).  `Calls`, `Signals`, `Seconds` say what the
programs do.

**The window.** Between `find_runnable_task` (sched.cpp:137) and the `cli` of line 144
interrupts are on, and a tick there may run another `schedule()` before the outer one
switches to the task it has chosen.  The model has that tick like every other.  The
history variable `window` records it: `"hit"` from the first tick that schedules inside
the window, `"stale"` from the first switch after that to a task that is no longer
runnable.  From there on a task runs that the lists do not know as running, which is
what run `v_stale_next` shows; `LockExclusion`, `OnlyStaleUnrunnable` and `NoPanic` say
what the code keeps until then, and so that nothing *else* breaks it.  The list
properties, `RunnableRuns` and `SleepersWake` do not mention `window`: they hold behind
a stale switch too.

## 4. Semaphore and Mutex

`kernel_conf.h` turns on an optimisation for one processor: a `sem_post` that
finds waiters while the poster has time left only raises the value; the wake-up is
left to `run_before_switch_f`, which the poster's next `schedule()` calls.  The
poster may take the semaphore again before that.

`Semaphore.tla` models `semaphore.cpp` and takes `schedule()` apart at the hook:
test, `do_sempost` (value), its wake-up, clearing the hook, and the rest as one
step.  The hook runs with interrupts as `schedule()` found them, so a tick can
run the hook of the same task again before it is cleared.  `hook_p` keeps its value
when the hook is cleared, as `run_before_switch_f_p` does.  Programs use
semaphores as locks with value 1, as `user_programs/test/ipctest.c` does; they post
only what they own, and exit owning nothing.  `owner` is a history variable.

`Mutex.tla` says what programs rely on: one owner, given up only by the owner,
given only to one that asks (a newcomer may overtake, as the comment in
`sys_sempost` intends).  The mapping takes `owner` as it is and the wait lists as
sets; a deferred post is a release, the hook a grant, an immediate post a
hand-over.

## 5. Signal: handlers

`Signal.tla` follows one task.  To run a handler, `check_signals` copies the kernel
stack to a new frame, links the copy into `sigstack` and sends the first stack back
to user mode into the handler.  The handler returns to an address that faults;
`signal_return` maps the copy as the *second* kernel stack and jumps into it, so
`check_signals` returns once more and the interrupted call ends there.  Handlers
nest, interrupt blocking calls, sleep, fork and exec.

| model | code |
|---|---|
| `act` | `signal.action`: default, an address in the program, or an address that faults (SIG_IGN is address 1; exec keeps the old addresses) |
| `sg.sig`, `sg.pending`, `sg.sigstack`, `sg.sleep` | `signal.signal`, `signal.pending`, `signal.sigstack`, `sleep`; a saved stack holds the user context, the call and the sleep it will resume |
| `sg.ctx` | the handler frames on the user stack |
| `sg.mapped`, `sg.ref` | the frame at `MMAP_KERNEL_STACK_2_BASE`, and references to such frames |
| `call`, `mode`, `kstack` | the call that waits in `schedule()`, where the task is, and on which stack |
| `check_signals` … `return_from_trap` | delivery and return |
| `send_signal`, `kill_self`, `signal`, `pause`, `sleep`, `execve`, `fork_child`, `do_exit`, `bad_fork_copy_kernel_stack` | the calls that meet signal state |

A signal is its bit: `_S(x)` shifts a 32-bit word, so 32 and 0 are the same.  The
other tasks appear as senders only, and only while this one is switched out.
`MaxFrames` bounds the handler frames of a task that forks; everything else is
bounded by the number of signals, since a pending one is not taken again.  Once
the task is dead or the kernel has stopped the model forgets its state.

## 6. Memory: address spaces

`Memory.tla` has the page tables and mappings of `virtual.h`/`virtual.cpp`, and
everything that changes them: fork with its failure labels, exit, stack faults,
`execve`, `brk` and shared memory.  All of it runs with interrupts off, so
interleaving is not the question; running out of memory half-way is.  The
operations that take several frames are therefore *jobs* of one page a step, and
the step that finds no frame runs the code of the error label.

`mm` is a record: frames in use and their reference counts, temporary mappings
(`tmp_page_*`, whose slots can run out as well), the tables of each process (page
directory, list of tables, one table per region), its pages, and
`count_user`/`count_kernel`.  A virtual page is a region and a number.  `brk`
counts in half pages so that `roundUp` shows, and the address space has `AddrPages`
pages: an address in the last one rounds up to 0, as it does in 32 bits.  `brk` is
tried with small arguments and with such an address (`LastHalf`): the loop of
syscall.cpp:106 then maps nothing, and `end_brk` moves all the same.  Other addresses
beyond `MaxHeap` pages are left out: they run out of memory, and where there is enough
of it the heap grows into the regions above (`brk` has no upper limit).

Frames are interchangeable.  `Init` lets the kernel heap hold 0 to `MaxOther` of the
frames, so that memory runs out at every possible place.  `kmalloc` is taken to find
room on the heap's pages, except in `fork_fs`, the `fs_fork` of `do_fork`: the copies of
the open files may take one more page, which the error path does not give back (the
label `bad_fork_fs` is empty) and its assertion on `mem_free` notices.  `Release` stands
for a loop of `page_remove` and `pde_free`, whose order does not matter.

## 7. Physical, Kmalloc and Heap

`Physical.tla` is `struct Page` and `FreePageList` (`physical.h`) at the level of
their fields: one field is the link of the free list *or* the reference count.  Its
operators go from one state of the frames to the next, with `ok` collecting the
code's assertions.

`Kmalloc.tla` is the buddy allocator on top.  Addresses count in units of the
smallest block (32 bytes); `hdr` is the `BlockHeader` at a unit, `sizes[i]` the free
list of size `i`, `count` and `count_used` the packed fields of the page header with
their widths.  `kmalloc` and `kfree` are one action each (interrupts are off); the
two ways to answer NULL are actions of their own, as one of them keeps the lock.
User pages and page tables compete for the frames between calls.

`Heap.tla` is the promise: an allocation has its bytes to itself until it is freed.

## 8. FileSystem and Namespace

`FileSystem.tla` models denemefs (`di`, the table of inodes; a directory is a table
of entries that only grows), the cache of dirents with its reference counts (`dc`),
the current directories (`pwd`) and the system calls on paths.  A path is
`[abs, dirs, name]`; `dirent_find` folds `dirent_lookup` over it, with `.`, `..`,
empty names, deleted directories, cache and disk in the order of the code.  `open`,
`stat` and `mknod` are what they do to the tree and the cache: a lookup.  `create` is
split where a preemption changes something (find a slot, mark it, add the entry, fill
the inode), `unlink` between disk and cache.  The walk along a path is one step, with
the lock of a directory that `unlink` holds as a condition on it.  `open` has
interrupts off over it; for the other calls that is a simplification, and a
preemption between two components of a path is left out.

Any call of any task may come between these steps.  Two tasks that are *both* inside
`create` or `unlink` can break the disk, since nothing locks it (section 12); the
history variable `overlap` says that this was the case, and the properties stop there.
Up to that point other tasks look up, open, enter and leave directories, also over an
entry that is half made or a dirent that is about to be removed.  So the properties say
that the calls are right in any order, including failures, reuse of inode numbers and
the removal of directories that are cached or current, and that the lookups of other
tasks never spoil a `create` or an `unlink` (one that meets an entry without its inode
stops the kernel, section 12).

`Namespace.tla` is the tree of names: a name appears below an existing directory,
or something with nothing below it disappears; no other step changes what a path
stands for, until `raced`, which is `overlap`.  The mapping reads the tree off the disk.

## 9. Console and InputQueue

`Console.tla` models `keyboard_getc` with its escape and modifier bits, the ring,
`console_interrupt`, `sys_cgetc` and `console_getc`.  The keyboard is external: it
appends the bytes of a key to `wire`.  The kernel takes them in the loop of
`console_interrupt`, one byte a step, under `console_lock`; the interrupt runs that
loop, and so does the poll at the start of `console_getc`, which then polls COM1 in the
same way.  The loop may find the port empty after any byte, so a key's sequence is cut
anywhere, and keys may be used while it runs.

| model | code |
|---|---|
| `shift` | the static `shift` of `keyboard_getc`, as the set of its bits |
| `buff`, `rpos`, `wpos` | `console` |
| `console_lock` | the spinlock: whose loop is running; nothing else of the console can |
| `console_interrupt_turn`, `COM1_getc_turn`, `console_interrupt_end` | a turn of the loop for a byte of the keyboard or of the serial port; its end |
| `do_irq_keyboard`, `console_getc` | the two callers of the loop |
| `console_getc_take` | `console_getc` behind the polls; the lock is free in between, so an interrupt or another reader may come first (`polled` says who is there) |
| `sys_cgetc`, `send_signal`, `do_exit` | a reader sleeps in `console_input_list`, is woken by a signal, or ends |
| `check_signals`, `signal_return`, `saved`, `handler` | a handled signal: `push_stack` saves where the call is, and its tail runs into the registers of the handler (`handler`) and once more when the handler returns to the saved stack |
| `monitor`, `monitor_getchar`, `command_continue` | Ctrl+Alt+Del starts the kernel monitor inside the loop; it reads the console itself, and when it is left KEY_DEL goes into the ring |

The maps have the nine keys that differ in how the modifiers change them.  `excuse` is
a history variable for the property about woken readers: some character was taken from
a reader that was woken for it, because the ring was lapped, or by a reader woken by a
signal, by a second run of the same call, or by the monitor; it is over when no reader
is awake for a key.  `InputQueue.tla` is a queue that forgets everything when it is full,
which is what a ring that cannot tell full from empty amounts to.  Its steps are `Type`,
`Read` and `Lose`: the last one for a character that goes to the monitor or to the
registers of a handler.

## 10. Runs

Passing runs:

| run | instance | shows |
|---|---|---|
| `sched_lists` | 3 tasks, sleeps and alarms of 0 or 1 s, SIGTERM, all calls except yield, nesting 1 | `TypeOK`, `ListInv`, `RunqNeverEmpty`, `NotifiedAreZombies`, `LockExclusion`, `IndInv`, `ZombieStaysZombie` |
| `sched_live` | 3 tasks that sleep 1 or 2 s, read keys, pause, fork, exit; nesting 1, fair | `NoPanic`, `OnlyStaleUnrunnable`, `RunnableRuns`, `SleepersWake` |
| `sem` | kernel task and 2 programs, 1 semaphore, slices of 2 ticks, nesting 1, fair | `TypeOK`, `IndInv`, `NoLostWakeup`, `ImplementsMutex`, `WaiterServed` |
| `signal` | signals 10, 17 (ignored by default) and 19 (stop, no handler), sleeps to 2 deadlines | `HandlerStack` (saved stacks, pending set and user stack agree), `StackFramesExact` (frames of second stacks), `SleepRestored`, `LeftoverExplained`, `TypeOK` |
| `memory` | 2 processes, 21 frames of which the heap holds 0–3, 14 temporary slots, programs of one and of two segments, heap of 2 pages, an address space of 16, 1 segment of size 0 or 1 | `RefcountsExact`, `CountsExact`, `Isolation`, `WholeAddressSpaces`, `AssertionsExplained`, `TypeOK` |
| `kmalloc` | 3 frames, 2 temporary pages of 8 units, requests of 28, 60, 61 and 125 bytes (largest fit, one more, too large), 3 allocations at a time | `FramesExact`, `BlocksExact`, `CountsExact`, `Coalesced`, `AssertionsHold`, `NullOnlyWhenFull`, `ImplementsHeap` |
| `fs` | 2 interchangeable tasks, 4 inodes, 2 entries per directory, 3 dirents besides the root, paths `/home/a`, `/home/a/`, `b`, `../b` | `DiskIsTree`, `CacheCoherent`, `ImplementsNamespace` |
| `console` | 2 readers, one with a handler, ring of 3, keys right Ctrl (escaped), Alt, Del (escaped, repeating), one serial byte, one monitor at a time | `NoStuckModifier`, `WokenFindInput`, `ImplementsInput` |

Violation runs, each ending in a counterexample described in section 12:
`v_sleep_order`, `v_stale_next`, `v_wait_grandchild`, `v_sem_deferred`.

**Why the bounds are enough to be interesting.**

* *sched*: three tasks are the kernel task (always runnable, it idles), init (which
  cannot be killed) and a child that can do everything, so there is a lock holder
  with a waiter, and a parent with a child; `v_wait_grandchild` has four.  One level
  of nesting is a tick inside `schedule()`, in the window as well, so a stale
  `task_next` occurs in both runs; `v_stale_next` has two levels.  `sched_lists` was
  also run with two levels, and with a clock one tick longer, without an error.
  `MaxJiffies` exceeds the longest deadline, so every sleep and alarm ends.  In
  `sched_lists` a lock holder may be killed; `LockExclusion` then says that the lock
  is taken for ever, but never held twice.  All invariants of the two runs are
  proved for all values of the constants, the depth of nesting included (`NoPanic` for
  all programs that make the calls of its run, or others that are as quiet).
* *signal*: two signals with handlers give one handler inside another, and a signal
  sent again inside its own handler; 19 can only stop the task, and 10 without a
  handler ends it.
* *memory*: the smallest process needs 9 frames; 21 less the heap's share are enough for
  two, and few enough to run out at each page of each phase of fork, exec and
  `brk`.  `AddrPages` only has to be out of reach of the program and the heap.
* *kmalloc*: three sizes, so splits and merges go two levels; three frames for two
  heap pages, user pages and page tables, so each can starve the others.
* *fs*: 4 inodes leave two free, so numbers are reused at once; two entries fill a
  directory; three dirents hold a chain of three.  `MaxRef` only limits `chdir`, and
  `MinRootRef` the calls with a bare name in the root, each of which loses a reference.
  The constraint stops at `overlap`, behind which the properties say nothing.
* *console*: a ring of 3 wraps and laps within a few keys.  Del alone gives a
  character, with Ctrl and Alt the monitor, and with Ctrl nothing else than without.
  `MaxWire` is 0: the next key is used when the bytes of the last have been read, but
  the loop need not have ended by then, so every cut of a sequence occurs.  `MaxSaved`
  is 1: one handler, whose return may set up another; the proofs have no bound.

**Deadlock** is not checked where the model really ends: `memory`, `signal`,
`kmalloc` and `fs` stop at a failed assertion (or with every task dead).

**Fairness.** `Sched`: `WF(Kernel)`, a task inside the kernel goes on unless
interrupted for ever; `SF(do_timer)`, the interrupt controller keeps the timer's
request until the processor takes it, so a tick that can be taken again and again
is taken.  Programs owe nothing, and no key need be pressed.  `Semaphore` adds,
for each task, strong fairness of its outermost kernel frame: the code of
`schedule()` is short against a tick of 10 ms, so a tick does not hit it each time
it is resumed.  `WaiterServed` also needs programs that own a semaphore to post it in
the end (`SF(sys_sempost)`); without that it is false of any lock.  The other
modules state safety only.

## 11. Proofs

All theorems hold for every value of the constants that satisfies the assumption
named in the component's module (`SchedAssumption`, `SemAssumption`,
`SignalAssumption`, `MemoryAssumption`, `PhysicalAssumption`, `KmallocAssumption`, `ConsoleAssumption`, `KeyboardAssumption`,
`FileSystemAssumption`: natural bounds, finite sets, signals in range, memory for the first process), so for any number of tasks,
any workload and any nesting of interrupts.  Every proof has the same shape: an
inductive invariant, a lemma for each action that it is kept, and the properties as
consequences.  What is particular to each is its invariant.

**SchedProofs.** `ListInv` is not inductive.  `IndInv` adds
`UnbornUnlinked` (an id not given out yet is in no list, needed when fork links
it), `ExitingAreZombies` (whoever is about to `notify_parent` is already a zombie,
needed for the chain), and `KernelTaskRunnable`: task 0 is in the runnable list,
or it was killed and sits in `do_exit` with interrupts off, where
the next step stops the kernel because it has no parent.  That last part is what
makes `RunqNeverEmpty` true.  From it:

* `InvariantHolds` (`[]IndInv`), `TypeCorrect`, `ListsConsistent`,
  `RunqueueNonEmpty`, `WaitReportsTheDead` (`NotifiedAreZombies`);
* `ZombiesStayDead`, the action property `ZombieStaysZombie`.

The argument: each action does one of three things to the lists (nothing, a
wake-up, a block), a lemma each (`StepUnlisted`, `StepWakes`, `StepBlocks`), and
one of three things to the current task's stack (`StackPush`, `StackReturn`,
`StackSame`); then one lemma per action.

A second group is about what the processor does, with ticks at every point where
interrupts are on.  `ProcInv` is inductive together with `IndInv`.  As long as no tick has
hit the window, the chosen task stays runnable until the switch, and only the current
task is on its way to a switch (`SwitchFresh`).  From the hit on this is no longer so,
and the rest has to hold without it, since a task may go on to a switch with a
`task_next` of any age.  Until such a switch finds a task that is not runnable: a
current task that is not runnable is inside `schedule()` or `do_exit`, the frame of
`inode_lock` is the oldest of its stack, only `inode_unlock` ends the sleep of a waiter, and
the lock is held or handed over once.  From it come `LockExclusive` and
`CurrentRunnable` (`OnlyStaleUnrunnable`).  `QuietInv` is inductive on top of the two
for programs that neither signal, lock nor wait: `QuietProgramsNoPanic` says that
those meet no assertion or PANIC at all before a stale switch.  It needs `ProcInv`, since
the assertions of `remove_from_runnable_list` are about the current task being runnable.

**SemaphoreProofs.** `SemInvariant`: while no assertion has failed there is one
token per semaphore — its value, an owner, or one deferred post between its two
halves (`TokenInv`) — with the queue, hook and initialisation facts it needs.
Frames are identified by their distance from the bottom of the stack, so that a
tick which pushes frames does not rename them; the hook may really be running
twice on one stack, and the assertions in `do_sempost` and
`wakeup_uninterruptible` are what keeps the second run from doing harm.
`SemaphoresAreLocks` (`Spec => ImplementsMutex`): initial states map to initial
states, and every action is a `Mutex` step or invisible.
`NoWaiterLost` is `NoLostWakeup` for programs that share one semaphore.  The
hypothesis is needed: a task has one hook, and with two semaphores the second
deferred post overwrites the first (section 12).  It is proved with
`HookOnProcessor`: an armed hook belongs to the task on the processor, which has not
passed the hook in `schedule()` yet, and when the hook is about to be cleared its
post has been made.

**SignalProofs.** The invariant describes the saved stacks as a chain (`Nested`): the
i-th saved stack holds the user context below the i-th handler frame, each pending
signal is saved once, and none is both pending and set.  `FramesCounted` gives every
frame of a second stack its references, one for the mapping and one for each saved
copy; that no two saved stacks share a frame is what makes `page_insert` return 2.
`SleepsSaved` says that the call saved with a stack finds its own deadline.  The
theorems are the properties of run `signal`: `HandlersNest`, `FramesExact`,
`SleepKept`, `Leftovers` and `TypeCorrect`.

**MemoryProofs.** The first part is about the operators on `mm`
(`page_insert`, `page_remove`, `pde_alloc`, `Release`, ...): each keeps `Exact`
(reference counts, counters, and that a page table is in a temporary page of its own)
and says what it changes; the counts are cardinalities of sets of mappings, so the
work is in how these sets differ by one element.  `Exact` has a third argument for the
frame an operation has taken and not mapped yet.  The invariant adds
`Separated` (segments are mapped only as shared memory, every other frame once,
temporary pages never), `Shapes` (what a process in each state has mapped) and
`JobShape` (the same for the process a fork, exec or `brk` is working on: what it
has and what is left to do add up to what it should have).  Fork's error label
asserts that it has given everything back; that needs `job.was` to be the number
of frames free without the child, whatever happened since, less the page that
`fork_fs` took for the kernel heap (`job.heap`).  A process whose `end_brk` is in the last
page (`Wrapped`) has some heap, all of it at the start; its size is what it was, which
no variable says any more, so `Shapes` has it as an unknown number.  That `roundUp` wraps
for no other address needs `AddrPages` beyond what programs and heaps reach.  `Fits` in
`MemoryAssumption` says that a program's segments end within `MaxProgram`, without a
sum over a sequence, which could not be reasoned about.  The theorems are the
properties of run `memory`: `NothingLeaks`, `CountersTrue`, `ProcessesIsolated`,
`SpacesWhole`, `AssertionsOnlyThere` and `TypeCorrect`.

**KmallocProofs.** A cell of level `i` is an aligned stretch of `2^i` units,
`Base(x, i)` the one that `x` is in; cells of different levels are nested or disjoint,
and that is all the arithmetic the proof needs.  `HeapOk` is the invariant of the
allocator's own data: `Tiled` (every unit of a page of the heap is covered by exactly
one header, every header is at the start of a cell of its size), `NoBuddies`, `Listed`
(the lists are the free headers), `CountsOf` and `Owners`.  A split keeps it
(`AllocOk`) and so does the loop of merges (`FreeOk`), which ends where the buddy is
not a free block of the same size.  `FreeCell` is the fact behind `Coalesced` and
`NullOnlyWhenFull`: a cell of a heap page in which nothing is used lies inside one free
block, by induction over the levels, since two free halves would be buddies.
`CountBound` bounds a count by the number of cells of its size in a page, so that the
eight-bit and four-bit fields never overflow; this is where `LAST_SIZENO <= 6` is
used.  The assertion in the loop of `kmalloc` (`count = count_used` for the sizes that
are split off) holds because the lists between the size asked for and the size found are
empty.  `FrameInv` is the same for `struct Page`: there is a sequence `q` of the free
frames along which the fields link (`FreeQueue`), and every other frame's field is its
number of references (`Referred`), at most `MaxMaps < 2^20`.  The theorems are the
properties of run `kmalloc`: `FramesAlwaysExact`, `BlocksAlwaysExact`,
`CountsAlwaysExact`, `AlwaysCoalesced`, `AssertionsAlwaysHold`, `NullAlwaysWhenFull`, and
the refinement `KmallocIsHeap`, for any number of frames and temporary slots, any
sizes asked for and any largest block up to half a page.

**ConsoleProofs.** `RingInv` and `ReadersInv` are the positions in the ring and the
wait list; with `WokenFindInput` they are inductive.  A full ring turns into an empty
one at `Wrap(wpos + 1) = rpos`, which is where `excuse` is set and where the abstract
queue forgets.  `WokenReadersServed` and the refinement `ConsoleIsQueue` hold for
every ring size, 512 included, any keys and serial bytes, any number of handlers and
of monitors inside one another: the only fact about the decoder is that a byte gives one
of the characters of the maps or none.  A second run of a call reads as a reader woken
by a signal does, and its read sets `excuse` like one.  `ModifiersNeverStick` is
`NoStuckModifier` for any keys: `KeyboardAssumption` says what the keyboard sends
(one byte, or two with 224 in front, for a key that the tables of `keyboard_init`
have), and `ModifierInv` describes the bytes on the wire by the value `shift` will have
once they are decoded (`Decodes`: there is a run of the decoder over them), in which
nothing is stuck.  Taking a byte off the front shortens the run, using a key
extends it, and where the loop of `console_interrupt` stopped in between does not matter.

**FileSystemProofs.** `DiskStaysTree` is `DiskIsTree` for any number of tasks, inodes,
places in a directory, dirents and paths.  `DiskIsTree` speaks of quiet states only;
`DiskInv` says what holds in between.  `DiskTree(d, L, N)` is the tree with two sets of
exceptions: the inodes of `L` were taken by `find_empty_di` and have no entry yet, those
of `N` have their entry and not yet their type; a call moves its inode into `L`, from
`L` to `N` or out again when the name exists, and out of `N`.  Removal needs that an
entry names an inode no other entry names, that the inode has no entries of its own, and
that it is not the root, which keeps the place of `/home` for ever and so is never
empty.  The walk of `dirent_find` is a recursive function over the components of a path:
that it exists and ends at a dirent whose inode number is one of the disk is shown by
induction, with `InductionSet` of `ListLemmas`, for paths of any length.

`CacheStaysCoherent` is `CacheCoherent`.  `CacheInv` says what holds of the cache also in
the middle of a call: it is a tree of live dirents (`CacheTree`: from each there is a
chain of parents to the root), and each stands for the entry of its name on the disk,
except for one (`Fits`).  Between the change of the disk in `unlink` and
`dirent_cache_remove` the dirent of what was removed is stale (`Stale`).  Other tasks
walk in between, and may walk to the stale dirent and stand on it.  They put
nothing below it: it was a file or an empty directory, its inode is free, and no
`create` of another task can take that one without an overlap.  They do not make
another one either, since unlink holds the lock of the directory and a walk past the
cache waits for it.  `dirent_cache_remove` walks the path again and has to come to the
same directory: the first walk has left everything it passed in the cache, the
removal took away none of it, and the walks of others only add to it (`Grows`,
`CachedFind`).  Then the subtree that `dirent_delete` clears is the one stale dirent
(`LeafSubtree`), and the cache is coherent again.  `TopathNames` says that
`dirent_topath` gives the names along the chain, which is not longer than there are
dirents (`ChainShort`), so that `getcwd` is the path on the disk.

`TreeOfNames` is the refinement of `Namespace`.  `Reach(d, q, y)`: on the disk `d` the
path `q` leads to inode `y`.  An inode has one path and a path one inode (`ReachUnique`),
and a path passes no inode twice (`ReachShort`), so that `Walks`, which goes down as many
levels as there are inodes, has found them all (`WalksAre`).  `LeafReach` and `LeafTree`
carry the argument: two disks that differ by one entry, for an inode without entries,
have trees that differ by one path with nothing below it.  `fill` goes from the smaller
disk to the larger one, the removal in `unlink` from the larger to the smaller, and
the other steps on the disk change no entry of a typed inode (`SpareTree`, `NewEntryTree`).

None of these theorems has a hypothesis besides `FileSystemAssumption`: what they say
ends with `overlap`, when two tasks are inside `create` or `unlink` together.  The code
does not prevent that (both run with interrupts on and without a lock on the disk), and
behind it the properties are false (section 12).  Paths are any sequences of names:
`dirent_find` (dirent.cpp:184) skips the empty ones, and a last name that is empty, of a
path that ends in `/`, matches the entries that removal leaves without a name
(`DiskNamed`); their number 0 is the root's, which is never a file nor empty.

**ListLemmas** states what `Append`, `RemoveFirst`, `InsertAt`, rotation and
`Tail` do to the elements and to injectivity of a sequence, and gives induction over
the naturals for a set instead of a predicate, which is what this prover can use.

**Only model-checked**, on the instances above: liveness (`RunnableRuns`,
`SleepersWake`, `WaiterServed`), which this prover cannot do.  Every other property of a
passing run is a theorem; two of them have a hypothesis on the programs
(`QuietProgramsNoPanic`, `NoWaiterLost`), which the programs of their runs satisfy.

## 12. Where the code does not keep its word

Shown by violation runs:

* `v_sleep_order` — `sys_sleep` (sched.cpp:346) compares absolute times with a
  relative argument; the list is not in the order its comment promises, and early
  sleepers wait behind late ones.
* `v_stale_next` — between `find_runnable_task` and `cli` (sched.cpp:139–144) a
  tick may run another `schedule()`; the outer one then switches to a task that
  sleeps or is dead by now.  With ticks nested two deep that task may be a waiter of an
  inode lock, which goes on behind `inode_lock` without having been given it.
* `v_wait_grandchild` — a task killed inside `wait` keeps `waiting_child`; its
  children write its `wait_notify_next`, which is also its link in its own
  parent's chain, so that the parent's `wait` reports a grandchild.
* `v_sem_deferred` — a program that posts with waiters, takes the semaphore again
  and gives up the processor in its critical section fails the assertion of its own
  deferred post (semaphore.cpp:128).  A critical section that neither yields,
  sleeps nor outlasts the slice does not meet it.

Also reached by the models, as values of `panic`, but no run of their own:

* `"alarm insert"`: the loop of `sys_alarm` goes on after its insert and fails
  `ASSERT` at sched.cpp:230 when two alarms compare as later.
* `"wait"`: anything but a child's exit that wakes `sys_wait` (SIGCONT, for
  instance) fails `ASSERT(t)` at task_exit.cpp:138.
* `"send_signal"`: a signal to a task that waits for an inode lock ends in the
  PANIC of signal.cpp:125–129.
* `"stopped"`: the default action of a stop signal sets the state before it calls
  `remove_from_runnable_list`, whose assertion (sched.cpp:67) then fails
  (signal.cpp:161).
* `"n_cli"`: a task resumed in `inode_lock` has interrupts on with its `pushcli`
  open; a tick there fails the assertion of trap.cpp:271.
* With two semaphores a second deferred post overwrites the hook of the first
  (TODO at semaphore.cpp:123), and `NoLostWakeup` fails.  `ImplementsMutex` and
  `IndInv` still hold there, as the proof says.
* A child that exits before its parent waits leaves nothing for `wait`
  (TODO at task_exit.cpp:36).

Found while modelling the other components.  `P` marks what a model reaches as a
value of `panic`; the rest was read in the code at the place given.

*Memory*
* P `kmalloc` that finds no page returns NULL with its lock held and `n_cli` one too
  high; the assertion of trap.cpp:271 fails when the call returns.
* P A fork that fails, or an exec, in a process with shared memory attached fails
  an assertion on reference counts (task.cpp:147): `task_free_vm_user` takes every
  user page to be private.
* P `brk` with an address in the last page (0xFFFFF001 and up): `roundUp` is 0, nothing
  is mapped, and `end_brk` moves.  The next `brk` fails the assertion of syscall.cpp:115,
  against the comment in front of it (*heap icerisinde map edilmemis bir page olamaz*,
  there can be no unmapped page in the heap), or the exit that of task.cpp:170.
* P A fork that runs out of memory for the kernel stack after `file_dup` has taken a page
  for the kernel heap fails the assertion of task.cpp:373; the copies of the files and
  the references to dirents and inodes stay (labels without code, task.cpp:365).
* P exec has freed the old program when memory runs out for the new one: assertion
  of virtual.cpp:213, or later of task.cpp:170.
* A shared segment of size 0 has a page that `shmdt` does not unmap
  (shared_memory.cpp:277); P the exit of such a process fails the assertion of task.cpp:170.
* `segment_free` removes the lowest page only; `free_zombie_tasks` has no caller, so
  the directory and kernel stack of every dead task are lost; `brk` has no
  upper limit.
* Growing the stack works, and the process is ended all the same (trap.cpp, the
  `do_exit(111)` behind it).

*Signals*
* P A signal bit that is still set when a handler returns (one the task sent to
  itself, an ignored one, number 32) makes `check_signals` handle its old signal
  again and stops the kernel (signal.cpp:180–184).  `LeftoverExplained` says there
  are no other such bits.
* `pause` sleeps over a signal the task sent to itself; line 94 of `send_signal` tests
  the *sender's* action; exec keeps handlers of the program it replaced; a child
  forked in a handler has no saved stack and exits when the handler returns.
* P A signal handled while the task is preempted on its second stack replaces the
  stack it is running on.
* P A failed fork frees the saved stacks of the *parent* (`task_free_kernel_stack`
  works on the current task).
* The tail of a blocking call runs once per handler and once more (FIXME at
  sched.cpp:153).

*File system*
* P `unlink`, `creat` and the like of a name without `/` give back a reference to
  the current directory that `dirent_find2` did not take; the count underflows and
  `__dirent_free` stops the kernel.
* Two tasks in `create` find the same slot before one marks it (denemefs.cpp:194–195,
  whose comment wants other processes not to see it as free), and two names get one inode:
  `find_empty_di` of one, `find_empty_di` of the other, then both `take_di` and `add_entry`.
  An `unlink` between the steps of another's `create` can free the directory it adds to.
  P A lookup of the half-made entry is `Unknown file type` (no overlap is needed).
* A directory that was used once can never be removed (`is_empty_dir` counts places,
  not names), and P the entry behind the last place overflows the table (dir.cpp:34).
* P `creat` or `unlink` below a regular file calls a NULL operation.
* Dirents and inodes are freed at a count below 0 but assert 0, so never; `open` adds
  three references and `close` drops one; unlinking an open file frees a slot
  that the next `creat` reuses.
* `chdir` accepts a file and keeps the reference of the old directory; `getcwd` of a
  removed directory says `/`.
* `do_exit` closes files as a zombie; if `inode_lock` has to sleep there, its
  assertion on the state fails.  A lock holder that is killed keeps the lock.

*Console*
* `sys_cgetc` sleeps even when characters are waiting.  A ring with 512 unread
  characters is taken for an empty one and loses them all.  The left and the right
  modifier key share a bit: releasing one releases both.
* A handled signal makes a reader run `console_getc` twice.  The first character goes to
  the registers the handler starts with and is lost; the second may be the one another
  reader was woken for, and `sys_cgetc` of that one returns 0.
* The monitor takes the characters of readers that were woken and have not run yet.

## 13. What is not modelled

In the modelled components: what `sys_sleep` and `sys_wait` return besides the child
(values in registers); the check of `sys_wait`'s user pointer; the fork of a parent
with a pending alarm (a copied linked node needs a pointer-level model); more than
one inode lock in `Sched`; reference counts of inodes, since nothing frees an inode;
`push_stack` running out of memory (signal.cpp:267–275: the result of `kmalloc` is not
looked at, and the assertion behind `segment_alloc` stops the kernel); `kmalloc` failing
elsewhere in `Memory` than at fork's files; a tick just between the two polls of
`console_getc`.
`sem_destroy`, `semctl`, `semop` and `sem_getvalue` only panic or return -1.

Still to come: open file tables with read, write, lseek, readdir and the references of
`file_dup`, and the files `do_exit` closes.

Out of reach or out of scope: register saving and stack switching in assembly, page
table bit layouts, detection of memory, screen and serial output (serial input is modelled), the parsing of ELF
files and the argument stack, file contents, the monitor's commands, string
helpers, and the user programs, which are represented by "any call at any time".
