----------------------------- MODULE Semaphore -----------------------------
(***************************************************************************)
(* The semaphores of kernel/ipc/semaphore.cpp with the single-processor    *)
(* optimisation that kernel_conf.h turns on: a sem_post that finds waiters *)
(* while the poster has time left only raises the value and leaves the     *)
(* wake-up to the hook run_before_switch_f, which the poster's next        *)
(* schedule() runs and then clears.                                        *)
(*                                                                         *)
(* Programs use a semaphore as a lock (sem_init with value 1, wait, post), *)
(* as ipctest.c does, so a task posts only what it owns.  schedule() is    *)
(* taken apart at the hook only; behind it, from check_alarm to the        *)
(* switch, it is one step here and several in Sched.                       *)
(***************************************************************************)
EXTENDS Integers, Sequences, SequencesExt

CONSTANTS
  MaxTasks,  \* tasks 0 .. MaxTasks - 1 exist, 0 is the kernel task
  Sem,       \* the semaphores
  Priority,  \* DEFAULT_PRIORITY: a slice lasts Priority + 1 ticks
  MaxDepth   \* bound: frames on a kernel stack that a tick may add to

ASSUME SemAssumption ==
  /\ MaxTasks \in Nat /\ MaxTasks >= 2
  /\ Priority \in Nat /\ MaxDepth \in Nat
  /\ -1 \notin Sem

Task == 0 .. MaxTasks - 1
None == -1

Panics == {"semwait value", "semwait hook", "do_sempost", "wakeup", "sempost"}

VARIABLES
  task_curr,
  runq,        \* the runnable queue
  kstack,      \* kernel stack: a frame is a place in the code and a semaphore
  counter,     \* ticks left of the slice
  intr,        \* the processor's interrupt flag
  info,        \* has sem_init made the SemInfo?
  value,       \* SemInfo::value
  wait_list,   \* SemInfo::wait_list
  hook,        \* is Task::run_before_switch_f set (to do_sempost)?
  hook_p,      \* Task::run_before_switch_f_p, kept when the hook is cleared
  owner,       \* history: the task whose sem_wait was granted last, if not posted
  panic

schedVars == <<task_curr, runq, kstack, counter, intr>>
semVars   == <<info, value, wait_list, owner>>
hookVars  == <<hook, hook_p>>
vars == <<schedVars, semVars, hookVars, panic>>

\* Operators like Asserted_Off, with a capital and a reason at the end, are
\* wrong versions of the operator that follows them; no action uses them.
Asserted_Off(ok, name) == "none"

\* ASSERT(ok): the new value of panic
Asserted(ok, name) == IF ok THEN "none" ELSE name

Running == panic = "none"
UserMode == kstack[task_curr] = <<>>
Top == Head(kstack[task_curr])
At(pc) == Running /\ ~UserMode /\ Top.pc = pc
FrameSet ==
  [pc : {"hook", "post", "wakeup", "clear", "switch", "wait_ret"},
   sem : Sem \cup {None}]
Frame(pc, s) == [pc |-> pc, sem |-> s]
Push(fs) == kstack' = [kstack EXCEPT ![task_curr] = fs \o @]
Goto(f) == kstack' = [kstack EXCEPT ![task_curr] = <<f>> \o Tail(@)]
Syscall == Running /\ UserMode /\ task_curr # 0

\* A call of schedule() starts with the test of the hook.
schedule == <<Frame("hook", None)>>

\* wakeup_uninterruptible: the first waiter owns the semaphore from now on.
wakeup_uninterruptible(s) ==
  /\ runq' = Append(runq, Head(wait_list[s]))
  /\ wait_list' = [wait_list EXCEPT ![s] = Tail(@)]
  /\ owner' = [owner EXCEPT ![s] = Head(wait_list[s])]

\* sleep_uninterruptible with interrupts off; ret is what follows schedule()
sleep_uninterruptible(s, ret) ==
  /\ runq' = RemoveFirst(runq, task_curr)
  /\ wait_list' = [wait_list EXCEPT ![s] = Append(@, task_curr)]
  /\ Push(schedule \o ret)
  /\ intr' = FALSE
  /\ UNCHANGED <<task_curr, counter, info, value, hookVars, owner, panic>>

-----------------------------------------------------------------------------
(* System calls of the current task.                                       *)

sys_semget(s) ==
  /\ Syscall /\ ~info[s]
  /\ info' = [info EXCEPT ![s] = TRUE]
  /\ value' = [value EXCEPT ![s] = 1]
  /\ wait_list' = [wait_list EXCEPT ![s] = <<>>]
  /\ UNCHANGED <<schedVars, hookVars, owner, panic>>

\* The poster's slice ends with the next tick: it gives way to the waiters.
SlicePost(t) == hook[t] /\ counter[t] = 0

ValueFree_OffByOne(s) == value[s] >= 0

ValueFree(s) == value[s] > 0

\* The value is free: take it, and ASSERT that it was 1
semwait_take(s) ==
  /\ ValueFree(s) /\ ~SlicePost(task_curr)
  /\ value' = [value EXCEPT ![s] = @ - 1]
  /\ owner' = [owner EXCEPT ![s] = task_curr]
  /\ panic' = Asserted(value[s] = 1, "semwait value")
  /\ UNCHANGED <<schedVars, info, wait_list, hookVars>>

\* The value is free but the task gives way; ASSERT(value == 0) afterwards
semwait_yield(s) ==
  /\ ValueFree(s) /\ SlicePost(task_curr)
  /\ sleep_uninterruptible(s, <<Frame("wait_ret", s)>>)

semwait_block(s) ==
  /\ ~ValueFree(s)
  /\ IF hook[task_curr]
     THEN panic' = "semwait hook" /\ UNCHANGED <<schedVars, semVars, hookVars>>
     ELSE sleep_uninterruptible(s, <<>>)

\* A program does not wait for a semaphore it owns.
sys_semwait(s) ==
  /\ Syscall /\ info[s] /\ owner[s] # task_curr
  /\ semwait_take(s) \/ semwait_yield(s) \/ semwait_block(s)

\* Somebody waits and the slice goes on: leave the wake-up to schedule().
sempost_defer(s) ==
  /\ wait_list[s] # <<>> /\ counter[task_curr] > 0
  /\ value' = [value EXCEPT ![s] = @ + 1]
  /\ hook' = [hook EXCEPT ![task_curr] = TRUE]
  /\ hook_p' = [hook_p EXCEPT ![task_curr] = s]
  /\ owner' = [owner EXCEPT ![s] = None]
  /\ UNCHANGED <<schedVars, info, wait_list>>

\* Somebody waits and the slice is over: forget the hook, wake at once.
sempost_wake(s) ==
  /\ wait_list[s] # <<>> /\ counter[task_curr] <= 0
  /\ hook' = [hook EXCEPT ![task_curr] = FALSE]
  /\ wakeup_uninterruptible(s)
  /\ UNCHANGED <<task_curr, kstack, counter, intr, info, value, hook_p>>

sempost_free(s) ==
  /\ wait_list[s] = <<>>
  /\ value' = [value EXCEPT ![s] = @ + 1]
  /\ owner' = [owner EXCEPT ![s] = None]
  /\ UNCHANGED <<schedVars, info, wait_list, hookVars>>

sys_sempost(s) ==
  /\ Syscall /\ info[s] /\ owner[s] = task_curr
  /\ panic' = Asserted(wait_list[s] # <<>> => value[s] = 0, "sempost")
  /\ sempost_defer(s) \/ sempost_wake(s) \/ sempost_free(s)

sys_yield ==
  /\ Syscall
  /\ Push(schedule)
  /\ UNCHANGED <<task_curr, runq, counter, intr, semVars, hookVars, panic>>

\* A program exits owning nothing; do_exit never returns from schedule().
sys_exit ==
  /\ Syscall /\ \A s \in Sem : owner[s] # task_curr
  /\ runq' = RemoveFirst(runq, task_curr)
  /\ Push(schedule)
  /\ UNCHANGED <<task_curr, counter, intr, semVars, hookVars, panic>>

-----------------------------------------------------------------------------
(* schedule().                                                             *)

Armed_Never(t) == FALSE

Armed(t) == hook[t]

test_hook ==
  /\ At("hook")
  /\ Goto(Frame(IF Armed(task_curr) THEN "post" ELSE "switch", None))
  /\ UNCHANGED <<task_curr, runq, counter, intr, semVars, hookVars, panic>>

\* do_sempost, called with interrupts as schedule() found them
do_sempost ==
  /\ At("post")
  /\ LET s == hook_p[task_curr]
     IN  /\ value' = [value EXCEPT ![s] = @ - 1]
         /\ panic' = Asserted(value[s] = 1, "do_sempost")
  /\ Goto(Frame("wakeup", None))
  /\ UNCHANGED <<task_curr, runq, counter, intr, info, wait_list, owner, hookVars>>

\* The wakeup_uninterruptible of do_sempost, which ASSERTs that one waits
post_wakeup ==
  /\ At("wakeup")
  /\ LET s == hook_p[task_curr]
     IN  \/ wait_list[s] # <<>> /\ wakeup_uninterruptible(s) /\ UNCHANGED panic
         \/ wait_list[s] = <<>> /\ panic' = "wakeup" /\ UNCHANGED <<runq, wait_list, owner>>
  /\ Goto(Frame("clear", None))
  /\ UNCHANGED <<task_curr, counter, intr, info, value, hookVars>>

clear_hook ==
  /\ At("clear")
  /\ hook' = [hook EXCEPT ![task_curr] = FALSE]
  /\ Goto(Frame("switch", None))
  /\ UNCHANGED <<task_curr, runq, counter, intr, semVars, hook_p, panic>>

\* From check_alarm to the sti behind switch_to_task, round robin
switch_to_task ==
  /\ At("switch")
  /\ task_curr' = Head(runq)
  /\ runq' = Append(Tail(runq), Head(runq))
  /\ counter' = [counter EXCEPT ![Head(runq)] = Priority]
  /\ kstack' = [kstack EXCEPT ![task_curr] = Tail(@)]
  /\ intr' = TRUE
  /\ UNCHANGED <<semVars, hookVars, panic>>

\* sys_semwait behind the sleep of a task that gave way
wait_ret ==
  /\ At("wait_ret")
  /\ panic' = Asserted(value[Top.sem] = 0, "semwait value")
  /\ kstack' = [kstack EXCEPT ![task_curr] = Tail(@)]
  /\ UNCHANGED <<task_curr, runq, counter, intr, semVars, hookVars>>

do_timer ==
  /\ Running /\ intr
  /\ counter' = [counter EXCEPT ![task_curr] = IF @ < 0 THEN @ ELSE @ - 1]
  /\ \/ counter[task_curr] > 0 /\ UNCHANGED kstack
     \/ /\ counter[task_curr] <= 0
        /\ Len(kstack[task_curr]) <= MaxDepth
        /\ Push(schedule)
  /\ UNCHANGED <<task_curr, runq, intr, semVars, hookVars, panic>>

\* A failed ASSERT stops the tasks for good.
Halt == ~Running /\ UNCHANGED vars

-----------------------------------------------------------------------------
Init ==
  /\ task_curr = 0
  /\ runq = [i \in 1..MaxTasks |-> i - 1]
  /\ kstack = [t \in Task |-> <<>>]
  /\ counter = [t \in Task |-> 0]
  /\ intr = TRUE
  /\ info = [s \in Sem |-> FALSE]
  /\ value = [s \in Sem |-> 0]
  /\ wait_list = [s \in Sem |-> <<>>]
  /\ hook = [t \in Task |-> FALSE]
  /\ hook_p = [t \in Task |-> None]
  /\ owner = [s \in Sem |-> None]
  /\ panic = "none"

Kernel ==
  test_hook \/ do_sempost \/ post_wakeup \/ clear_hook \/ switch_to_task \/ wait_ret

User ==
  \/ sys_yield \/ sys_exit
  \/ \E s \in Sem : sys_semget(s) \/ sys_semwait(s) \/ sys_sempost(s)

Next == Kernel \/ User \/ do_timer \/ Halt

Spec == Init /\ [][Next]_vars

\* The kernel goes on and ticks keep coming.  The code of schedule() is short
\* against a tick, so a tick does not hit it every time it is resumed.  A
\* program that owns a semaphore and runs again and again posts it in the end.
FairSpec ==
  /\ Spec /\ WF_vars(Kernel) /\ SF_vars(do_timer)
  /\ \A t \in Task \ {0} :
       SF_vars(task_curr = t /\ Len(kstack[t]) = 1 /\ Kernel)
  /\ \A t \in Task \ {0}, s \in Sem : SF_vars(task_curr = t /\ sys_sempost(s))

-----------------------------------------------------------------------------
(* Properties.                                                             *)

\* The variables keep their types; the value is only ever 0 or 1 while the
\* assertions hold.
TypeOK ==
  /\ task_curr \in Task
  /\ runq \in Seq(Task)
  /\ kstack \in [Task -> Seq(FrameSet)]
  /\ counter \in [Task -> Int]
  /\ intr \in BOOLEAN
  /\ info \in [Sem -> BOOLEAN]
  /\ value \in [Sem -> Int] /\ (Running => \A s \in Sem : value[s] \in 0..1)
  /\ wait_list \in [Sem -> Seq(Task)]
  /\ hook \in [Task -> BOOLEAN]
  /\ hook_p \in [Task -> Sem \cup {None}]
  /\ owner \in [Sem -> Task \cup {None}]
  /\ panic \in Panics \cup {"none"}

M == INSTANCE Mutex WITH
       waiting <- [s \in Sem |-> {t \in Task : Contains(wait_list[s], t)}]

\* The deferred posts, nested ticks and barging of semaphore.cpp implement the
\* lock of Mutex.
ImplementsMutex == M!Spec

\* The queues of the scheduler and of the semaphores hold a task at most once
\* altogether, and the kernel task is always runnable.
QueueInv ==
  /\ IsInjective(runq) /\ Contains(runq, 0)
  /\ \A s \in Sem : IsInjective(wait_list[s])
  /\ \A s \in Sem, t \in Task : Contains(wait_list[s], t) =>
       /\ ~Contains(runq, t)
       /\ \A r \in Sem : Contains(wait_list[r], t) => r = s

\* A task on the processor that is not runnable is on its way through schedule().
CurrInv ==
  \/ Contains(runq, task_curr)
  \/ ~UserMode /\ Top.pc \in {"hook", "post", "wakeup", "clear", "switch"}

\* Frames of a kernel stack between the two halves of do_sempost, by their
\* distance from the bottom
WakeupFrames(k) == {i \in 1..Len(k) : k[Len(k) + 1 - i].pc = "wakeup"}

\* No deferred post of s is half done, its value taken and nobody woken yet.
NoneInFlight(s) == \A t \in Task : hook_p[t] = s => WakeupFrames(kstack[t]) = {}

\* At most one deferred post of s is half done.
OneInFlight(s) ==
  \A t, u \in Task : hook_p[t] = s /\ hook_p[u] = s =>
    \A i \in WakeupFrames(kstack[t]), j \in WakeupFrames(kstack[u]) : t = u /\ i = j

\* There is one token per semaphore: the value, an owner or a half-done post.
TokenInv ==
  \A s \in Sem :
    /\ value[s] = 1 => owner[s] = None /\ NoneInFlight(s)
    /\ owner[s] # None => NoneInFlight(s)
    /\ OneInFlight(s)

\* A hook that is armed, or whose code runs, has a semaphore to post.
HookInv ==
  \A t \in Task : hook_p[t] = None =>
    /\ ~hook[t]
    /\ \A i \in 1..Len(kstack[t]) : kstack[t][i].pc \notin {"post", "wakeup"}

\* A semaphore that was not initialised is used by nobody.
InfoInv ==
  \A s \in Sem : ~info[s] =>
    /\ value[s] = 0 /\ owner[s] = None /\ wait_list[s] = <<>>
    /\ \A t \in Task : hook_p[t] # s

\* The inductive invariant behind the proof that semaphore.cpp implements the
\* lock, however ticks nest in the hook of schedule().
IndInv ==
  /\ TypeOK
  /\ Running => QueueInv /\ CurrInv /\ TokenInv /\ HookInv /\ InfoInv

\* Nobody is left behind: when a semaphore is free and a task waits for it, the
\* task on the processor still owes the wake-up its deferred post promised.
\* This is for programs with one semaphore: a task has one hook, so a deferred
\* post of a second semaphore overwrites that of the first.
NoLostWakeup ==
  Running => \A s \in Sem :
    value[s] > 0 /\ wait_list[s] # <<>> => hook[task_curr] /\ hook_p[task_curr] = s

\* A frame of the kernel stack k is at pc.
HasFrame(k, pc) == \E i \in 1..Len(k) : k[i].pc = pc

\* What NoLostWakeup needs to be inductive: a hook is armed only while its
\* task is on the processor and not behind the hook of schedule(), and when
\* the hook is about to be cleared the post it stood for has been made.
HookOnProcessor ==
  \A t \in Task : hook[t] =>
    /\ t = task_curr
    /\ ~HasFrame(kstack[t], "switch")
    /\ HasFrame(kstack[t], "clear") => value[hook_p[t]] = 0

\* A task in the wait list gets the semaphore when its owners post, although
\* the poster may take it again and again within its slice.
WaiterServed ==
  \A t \in Task, s \in Sem :
    Contains(wait_list[s], t) ~> (~Contains(wait_list[s], t) \/ ~Running)

\* semaphore.cpp:128, "ASSERT(sem_info->value == 0);": when schedule() carries
\* out a deferred post the semaphore is still free.
DeferredPostFindsValue == panic # "do_sempost"

=============================================================================
