------------------------------- MODULE Sched -------------------------------
(***************************************************************************)
(* Process management of the MakarnaX kernel on its single processor: the  *)
(* task lists and schedule() of kernel/sched.cpp, fork of kernel/task.cpp, *)
(* exit, kill and wait of kernel/task_exit.cpp, send_signal and the        *)
(* default dispositions of check_signals of kernel/signal.cpp, and the     *)
(* inode lock of kernel/fs/inode.cpp, the kernel's uninterruptible sleep.  *)
(*                                                                         *)
(* One action is one stretch of code that the timer cannot interrupt: the  *)
(* body of a pushcli/popif section or the code between two of them.  What  *)
(* a task still has to do in the kernel is its kernel stack, kstack[t], a  *)
(* sequence of frames with the top first; an empty stack is user mode (or  *)
(* the hlt loop of the kernel task 0).  A timer interrupt pushes frames on *)
(* the stack of the task it interrupts, so schedule() nests as it does on  *)
(* the machine.                                                            *)
(***************************************************************************)
EXTENDS Integers, Sequences, FiniteSets, SequencesExt

CONSTANTS
  MaxTasks,    \* bound: ids given out by set_task_id (ids are never reused)
  Priority,    \* DEFAULT_PRIORITY: a slice lasts Priority + 1 ticks
  HZ,          \* ticks per second
  MaxJiffies,  \* bound: the clock saturates here, after every deadline
  MaxDepth,    \* bound: frames on a kernel stack that a tick may add to
  Seconds,     \* arguments user programs give to sleep and alarm
  Signals,     \* signals user programs send with kill
  Calls        \* the system calls the user programs of the instance make

ASSUME SchedAssumption ==
  /\ MaxTasks \in Nat /\ MaxTasks >= 2
  /\ Priority \in Nat
  /\ HZ \in Nat \ {0}
  /\ MaxJiffies \in Nat /\ MaxDepth \in Nat
  /\ Seconds \subseteq Nat
  /\ Signals \subseteq 1..31

Task == 0 .. MaxTasks - 1
None == -1                       \* the null Task pointer

SIGALRM == 14
SIGCHLD == 17
SIG_DI == {17, 23}               \* SIGCHLD, SIGURG: ignored
SIG_DC == {18}                   \* SIGCONT
SIG_DS == {19, 20, 21, 22}       \* SIGSTOP, SIGTSTP, SIGTTIN, SIGTTOU

\* Every TaskList_t a task's single list_node can be linked into.
Lists == {"runnable", "sleep", "input", "lock", "zombie"}
States == {"not_runnable", "running", "interruptible", "uninterruptible",
           "zombie", "stopped"}
Frames == {"check_alarm", "check_sleep", "find", "switch", "signals",
           "notify", "exit_ret", "wait_ret", "lock_ret", "locked", "trap_ret"}

\* The assertions and PANICs that can stop the kernel
Panics == {"remove_from_runnable_list", "send_signal", "runq_empty", "exit task 1",
           "stopped", "no parent", "do_exit return", "wait", "inode_lock",
           "inode_unlock", "n_cli", "alarm insert"}

VARIABLES
  task_curr,        \* the task on the processor
  next_task_id,     \* tasks 0 .. next_task_id - 1 exist
  tstate,           \* Task::state
  node,             \* Task::list_node.__list, or "free"
  list,             \* the contents of each list
  kstack,           \* the kernel stack of each task
  counter,          \* ticks left of the slice (only its sign counts below 0)
  jiffies,
  sleep,            \* wake-up second of sys_sleep
  alarm,            \* deadline second of sys_alarm
  task_alarm_list,
  sig,              \* signal.sig as a set
  parent,
  waiting_child,
  wait_notify_next, \* head of a parent's chain of exited children, and link
  lock_val,         \* inode->lock.val
  n_cli,            \* pushcli depth kept across a task switch
  intr,             \* the processor's interrupt flag
  panic,            \* "none", or the member of Panics that halted the kernel
  window            \* history: what ticks did to the window of schedule()

listVars == <<tstate, node, list>>
timeVars == <<jiffies, sleep, alarm, task_alarm_list>>
waitVars == <<waiting_child, wait_notify_next>>
famVars  == <<next_task_id, parent>>
vars == <<task_curr, next_task_id, tstate, node, list, kstack, counter, jiffies,
          sleep, alarm, task_alarm_list, sig, parent, waiting_child,
          wait_notify_next, lock_val, n_cli, intr, panic, window>>

now == jiffies \div HZ           \* jiffies_to_seconds()
Exists == 0 .. next_task_id - 1
childs(t) == {c \in Exists : parent[c] = t}
Running == panic = "none"

-----------------------------------------------------------------------------
(* Kernel stacks.  A frame is where the code continues; the frame of       *)
(* schedule() past find_runnable_task also holds its local task_next.      *)

Frame(pc) == [pc |-> pc, next |-> 0]
UserMode == kstack[task_curr] = <<>>
Top == Head(kstack[task_curr])
At(pc) == Running /\ ~UserMode /\ Top.pc = pc
Push(fs) == kstack' = [kstack EXCEPT ![task_curr] = fs \o @]
Goto(f) == kstack' = [kstack EXCEPT ![task_curr] = <<f>> \o Tail(@)]
Return == kstack' = [kstack EXCEPT ![task_curr] = Tail(@)]
schedule(ret) == <<Frame("check_alarm")>> \o ret

-----------------------------------------------------------------------------
(* Task lists.                                                             *)

\* Operators whose name ends in a capital and a reason, like Detach_NoErase,
\* are wrong versions of the operator that follows them; no action uses them.
Detach_NoErase(ls, t) == ls

\* erase of list_node from the list it is in, if any
Detach(ls, t) ==
  IF node[t] = "free" THEN ls ELSE [ls EXCEPT ![node[t]] = RemoveFirst(@, t)]

PushBack(ls, l, t) == [ls EXCEPT ![l] = Append(@, t)]

add_to_runnable_list_NoState(t) ==
  /\ list' = PushBack(Detach(list, t), "runnable", t)
  /\ node' = [node EXCEPT ![t] = "runnable"]
  /\ UNCHANGED tstate

\* t leaves the list it waits in and becomes runnable, at the back
add_to_runnable_list(t) ==
  /\ list' = PushBack(Detach(list, t), "runnable", t)
  /\ node' = [node EXCEPT ![t] = "runnable"]
  /\ tstate' = [tstate EXCEPT ![t] = "running"]

\* The assertions of remove_from_runnable_list, about the current task
InRunnable == node[task_curr] = "runnable" /\ tstate[task_curr] = "running"

\* The current task leaves the runnable list with state st; ls is what the
\* caller makes of the lists and l the list the node ends in (or "free").
remove_from_runnable_list(st, l, ls) ==
  IF InRunnable
  THEN /\ list' = ls
       /\ node' = [node EXCEPT ![task_curr] = l]
       /\ tstate' = [tstate EXCEPT ![task_curr] = st]
       /\ UNCHANGED panic
  ELSE /\ panic' = "remove_from_runnable_list"
       /\ UNCHANGED listVars

Without == Detach(list, task_curr)

-----------------------------------------------------------------------------
(* Signals.  No handler is installed here: action[sig] is SIG_DFL.         *)

Wakes_Zombie(s, t) == tstate[t] \in {"interruptible", "zombie"}

\* send_signal: does it wake a sleeping target?
Wakes(s, t) ==
  /\ tstate[t] = "interruptible"
  /\ s \in SIG_DI \cup SIG_DC => waiting_child[t]

send_signal(s, t) ==
  /\ sig' = [sig EXCEPT ![t] = @ \cup {s}]
  /\ \/ Wakes(s, t) /\ add_to_runnable_list(t) /\ UNCHANGED panic
     \/ /\ ~Wakes(s, t)
        /\ tstate[t] \in {"interruptible", "running", "zombie"}
        /\ UNCHANGED <<listVars, panic>>
     \/ /\ tstate[t] \notin {"interruptible", "running", "zombie"}
        /\ panic' = "send_signal"
        /\ UNCHANGED listVars

\* Signals whose default action check_signals carries out for the task
Effective(t) == IF t = 1 THEN {} ELSE sig[t] \ (SIG_DI \cup SIG_DC)

-----------------------------------------------------------------------------
(* schedule(), one action per interruptible point.                         *)

SleeperDue_Reversed == list["sleep"] # <<>> /\ sleep[Head(list["sleep"])] > now

AlarmDue == task_alarm_list # <<>> /\ alarm[Head(task_alarm_list)] <= now
SleeperDue == list["sleep"] # <<>> /\ sleep[Head(list["sleep"])] <= now

\* One round of the loop of check_alarm; interrupts are off until it ends.
check_alarm ==
  /\ At("check_alarm")
  /\ \/ /\ AlarmDue
        /\ send_signal(SIGALRM, Head(task_alarm_list))
        /\ task_alarm_list' = Tail(task_alarm_list)
        /\ intr' = FALSE
        /\ UNCHANGED kstack
     \/ /\ ~AlarmDue
        /\ Goto(Frame("check_sleep"))
        /\ intr' = (n_cli[task_curr] = 0)
        /\ UNCHANGED <<listVars, sig, task_alarm_list, panic>>
  /\ UNCHANGED <<task_curr, counter, jiffies, sleep, alarm, waitVars, famVars,
                 lock_val, n_cli, window>>

\* One round of the loop of check_sleep_list.
check_sleep_list ==
  /\ At("check_sleep")
  /\ \/ /\ SleeperDue
        /\ add_to_runnable_list(Head(list["sleep"]))
        /\ sleep' = [sleep EXCEPT ![Head(list["sleep"])] = 0]
        /\ intr' = FALSE
        /\ UNCHANGED kstack
     \/ /\ ~SleeperDue
        /\ Goto(Frame("find"))
        /\ intr' = (n_cli[task_curr] = 0)
        /\ UNCHANGED <<listVars, sleep>>
  /\ UNCHANGED <<task_curr, counter, jiffies, alarm, task_alarm_list, sig,
                 waitVars, famVars, lock_val, n_cli, panic, window>>

Rotate_PopOnly(q) == Tail(q)
Rotate_KeepFront(q) == q

\* The chosen task goes from the front of its queue to the back.
Rotate(q) == Append(Tail(q), Head(q))

\* All tasks have the same priority, so there is one non-empty queue.
find_runnable_task ==
  /\ At("find")
  /\ \/ /\ list["runnable"] = <<>>
        /\ panic' = "runq_empty"
        /\ UNCHANGED <<list, counter, kstack>>
     \/ /\ list["runnable"] # <<>>
        /\ LET t == Head(list["runnable"])
           IN  /\ list' = [list EXCEPT !["runnable"] = Rotate(@)]
               /\ counter' = [counter EXCEPT ![t] = Priority]
               /\ Goto([pc |-> "switch", next |-> t])
        /\ UNCHANGED panic
  /\ UNCHANGED <<task_curr, tstate, node, timeVars, sig, waitVars, famVars,
                 lock_val, n_cli, intr, window>>

\* History: what became of the window between find_runnable_task and the cli.
\* A tick that schedules there makes it "hit"; after that a switch to a task
\* that has stopped being runnable makes it "stale".
SwitchedTo(t) ==
  window' = IF window = "hit" /\ tstate[t] # "running" THEN "stale" ELSE window
ScheduledOver ==
  window' = IF window = "clear" /\ ~UserMode /\ Top.pc = "switch" THEN "hit"
            ELSE window

\* cli; switch_to_task(task_next); sti.  A task that has run before goes on
\* behind its own call of switch_to_task, a new one in user mode.
switch_to_task ==
  /\ At("switch")
  /\ task_curr' = Top.next
  /\ SwitchedTo(Top.next)
  /\ Goto(Frame("signals"))
  /\ intr' = TRUE
  /\ UNCHANGED <<listVars, counter, timeVars, sig, waitVars, famVars, lock_val,
                 n_cli, panic>>

\* do_exit up to the call of notify_parent.  It never returns, so it takes
\* over the whole kernel stack.
do_exit ==
  /\ IF task_curr = 1
     THEN panic' = "exit task 1" /\ UNCHANGED listVars
     ELSE remove_from_runnable_list("zombie", "zombie",
                                    PushBack(Without, "zombie", task_curr))
  /\ task_alarm_list' = RemoveFirst(task_alarm_list, task_curr)
  /\ kstack' = [kstack EXCEPT ![task_curr] = <<Frame("notify")>>]
  /\ intr' = FALSE
  /\ UNCHANGED <<task_curr, counter, jiffies, sleep, alarm, sig, waitVars,
                 famVars, lock_val, n_cli, window>>

\* check_signals takes the signals from 31 down and stops at the first one
\* that ends or stops the task.
check_signals ==
  /\ At("signals")
  /\ \/ /\ Effective(task_curr) = {}
        /\ Return
        /\ intr' = (n_cli[task_curr] = 0)
        /\ UNCHANGED <<task_curr, listVars, counter, timeVars, sig, waitVars,
                       famVars, lock_val, n_cli, panic, window>>
     \/ /\ Effective(task_curr) # {}
        /\ Max(Effective(task_curr)) \in SIG_DS
        \* state is already "stopped" when remove_from_runnable_list asserts
        /\ tstate' = [tstate EXCEPT ![task_curr] = "stopped"]
        /\ panic' = "stopped"
        /\ UNCHANGED <<task_curr, node, list, kstack, counter, timeVars, sig,
                       waitVars, famVars, lock_val, n_cli, intr, window>>
     \/ /\ Effective(task_curr) # {}
        /\ Max(Effective(task_curr)) \notin SIG_DS
        /\ do_exit

-----------------------------------------------------------------------------
(* Returns from schedule() into the code that called it.                   *)

NotifyChain_Swapped(t, p) ==
  [wait_notify_next EXCEPT ![t] = p, ![p] = wait_notify_next[t]]

\* t is put in front of the chain of its waiting parent p
NotifyChain(t, p) ==
  [wait_notify_next EXCEPT ![t] = wait_notify_next[p], ![p] = t]

\* notify_parent and the rest of do_exit, still with interrupts off
notify_parent ==
  /\ At("notify")
  /\ \/ /\ parent[task_curr] = None
        /\ panic' = "no parent"
        /\ UNCHANGED <<listVars, sig, wait_notify_next>>
     \/ /\ parent[task_curr] # None
        /\ send_signal(SIGCHLD, parent[task_curr])
        /\ wait_notify_next' =
             IF waiting_child[parent[task_curr]]
             THEN NotifyChain(task_curr, parent[task_curr])
             ELSE wait_notify_next
  /\ kstack' = [kstack EXCEPT ![task_curr] = schedule(<<Frame("exit_ret")>>)]
  /\ intr' = (n_cli[task_curr] = 0)
  /\ UNCHANGED <<task_curr, counter, timeVars, waiting_child, famVars, lock_val,
                 n_cli, window>>

\* PANIC("do_exit return")
exit_ret ==
  /\ At("exit_ret")
  /\ panic' = "do_exit return"
  /\ UNCHANGED <<task_curr, listVars, kstack, counter, timeVars, sig, waitVars,
                 famVars, lock_val, n_cli, intr, window>>

\* sys_wait after schedule: take the first task of the chain, or ASSERT(t)
wait_ret ==
  /\ At("wait_ret")
  /\ waiting_child' = [waiting_child EXCEPT ![task_curr] = FALSE]
  /\ LET t == wait_notify_next[task_curr]
     IN  \/ /\ t = None
            /\ panic' = "wait"
            /\ UNCHANGED <<wait_notify_next, kstack>>
         \/ /\ t # None
            /\ wait_notify_next' = [wait_notify_next EXCEPT
                                      ![task_curr] = wait_notify_next[t]]
            /\ Return
            /\ UNCHANGED panic
  /\ UNCHANGED <<task_curr, listVars, counter, timeVars, sig, famVars, lock_val,
                 n_cli, intr, window>>

\* inode_lock after sleep_uninterruptible: the lock was handed over
lock_ret ==
  /\ At("lock_ret")
  /\ IF lock_val = 0 THEN UNCHANGED panic ELSE panic' = "inode_lock"
  /\ n_cli' = [n_cli EXCEPT ![task_curr] = @ - 1]
  /\ intr' = (n_cli[task_curr] = 1)
  /\ Goto(Frame("locked"))
  /\ UNCHANGED <<task_curr, listVars, counter, timeVars, sig, waitVars, famVars,
                 lock_val, window>>

\* The holder is done: inode_unlock
inode_unlock ==
  /\ At("locked")
  /\ \/ lock_val # 0 /\ panic' = "inode_unlock" /\ UNCHANGED <<listVars, lock_val>>
     \/ /\ lock_val = 0 /\ list["lock"] # <<>>
        /\ add_to_runnable_list(Head(list["lock"]))
        /\ UNCHANGED <<lock_val, panic>>
     \/ /\ lock_val = 0 /\ list["lock"] = <<>>
        /\ lock_val' = 1
        /\ UNCHANGED <<listVars, panic>>
  /\ Return
  /\ UNCHANGED <<task_curr, counter, timeVars, sig, waitVars, famVars, n_cli, intr, window>>

\* End of trap_handler after a timer interrupt that called schedule
trap_ret ==
  /\ At("trap_ret")
  /\ IF n_cli[task_curr] = 0 THEN UNCHANGED panic ELSE panic' = "n_cli"
  /\ Return
  /\ UNCHANGED <<task_curr, listVars, counter, timeVars, sig, waitVars, famVars,
                 lock_val, n_cli, intr, window>>

-----------------------------------------------------------------------------
(* System calls, made by a user task in user mode.                         *)

Syscall(c) == Running /\ UserMode /\ task_curr # 0 /\ c \in Calls

sys_yield ==
  /\ Syscall("yield")
  /\ Push(schedule(<<>>))
  /\ UNCHANGED <<task_curr, listVars, counter, timeVars, sig, waitVars, famVars,
                 lock_val, n_cli, intr, panic, window>>

\* The loop inserts before the first element later than s, and nowhere else
\* because the node is linked by then; push_back does the rest.
InsertPos(seq, deadline, s) ==
  IF \E i \in 1..Len(seq) : deadline[seq[i]] > s
  THEN SelectInSeq(seq, LAMBDA t : deadline[t] > s)
  ELSE Len(seq) + 1

sys_sleep(s) ==
  /\ Syscall("sleep")
  /\ now + s <= MaxJiffies \div HZ
  /\ remove_from_runnable_list("interruptible", "sleep",
       [Without EXCEPT !["sleep"] = InsertAt(@, InsertPos(@, sleep, s), task_curr)])
  /\ sleep' = [sleep EXCEPT ![task_curr] = now + s]
  /\ Push(schedule(<<>>))
  /\ UNCHANGED <<task_curr, counter, jiffies, alarm, task_alarm_list, sig,
                 waitVars, famVars, lock_val, n_cli, intr, window>>

sys_pause ==
  /\ Syscall("pause")
  /\ remove_from_runnable_list("interruptible", "free", Without)
  /\ Push(schedule(<<>>))
  /\ UNCHANGED <<task_curr, counter, timeVars, sig, waitVars, famVars, lock_val,
                 n_cli, intr, window>>

\* sleep_interruptible on the console input list
sys_cgetc ==
  /\ Syscall("cgetc")
  /\ remove_from_runnable_list("interruptible", "input",
                               PushBack(Without, "input", task_curr))
  /\ Push(schedule(<<>>))
  /\ UNCHANGED <<task_curr, counter, timeVars, sig, waitVars, famVars, lock_val,
                 n_cli, intr, window>>

\* The loop goes on after an insert, and ASSERTs that a second one works.
sys_alarm(s) ==
  /\ Syscall("alarm")
  /\ now + s <= MaxJiffies \div HZ
  /\ LET rest  == RemoveFirst(task_alarm_list, task_curr)
         later == {i \in 1..Len(rest) : alarm[rest[i]] > s}
     IN  \/ s = 0 /\ task_alarm_list' = rest /\ UNCHANGED <<alarm, panic>>
         \/ /\ s # 0
            /\ alarm' = [alarm EXCEPT ![task_curr] = now + s]
            /\ task_alarm_list' = InsertAt(rest, InsertPos(rest, alarm, s), task_curr)
            /\ IF Cardinality(later) > 1 THEN panic' = "alarm insert"
                                         ELSE UNCHANGED panic
  /\ UNCHANGED <<task_curr, listVars, kstack, counter, jiffies, sleep, sig,
                 waitVars, famVars, lock_val, n_cli, intr, window>>

\* do_fork when memory suffices.  A parent with a pending alarm is left out:
\* the child would get a copy of its linked alarm_list_node.
sys_fork ==
  /\ Syscall("fork")
  /\ next_task_id < MaxTasks
  /\ ~Contains(task_alarm_list, task_curr)
  /\ LET c == next_task_id
     IN  /\ list' = PushBack(list, "runnable", c)
         /\ node' = [node EXCEPT ![c] = "runnable"]
         /\ tstate' = [tstate EXCEPT ![c] = "running"]
         /\ parent' = [parent EXCEPT ![c] = task_curr]
         /\ sleep' = [sleep EXCEPT ![c] = sleep[task_curr]]
  /\ next_task_id' = next_task_id + 1
  /\ UNCHANGED <<task_curr, kstack, counter, jiffies, alarm, task_alarm_list, sig,
                 waitVars, lock_val, n_cli, intr, panic, window>>

sys_exit == Syscall("exit") /\ do_exit

sys_wait ==
  /\ Syscall("wait")
  /\ childs(task_curr) # {}
  /\ remove_from_runnable_list("interruptible", "free", Without)
  /\ waiting_child' = [waiting_child EXCEPT ![task_curr] = TRUE]
  /\ Push(schedule(<<Frame("wait_ret")>>))
  /\ UNCHANGED <<task_curr, counter, timeVars, sig, wait_notify_next, famVars,
                 lock_val, n_cli, intr, window>>

\* A dead task stays in task_id_ht, so it can be a target.
sys_kill(t, s) ==
  /\ Syscall("kill")
  /\ t \in Exists
  /\ send_signal(s, t)
  /\ UNCHANGED <<task_curr, kstack, counter, timeVars, waitVars, famVars, lock_val,
                 n_cli, intr, window>>

LockFree_OffByOne == lock_val >= 0

LockFree == lock_val > 0

\* A file system call that takes an inode's lock
inode_lock ==
  /\ Syscall("lock")
  /\ \/ /\ LockFree
        /\ lock_val' = lock_val - 1
        /\ Push(<<Frame("locked")>>)
        /\ UNCHANGED <<listVars, n_cli, intr, panic>>
     \/ /\ ~LockFree
        /\ remove_from_runnable_list("uninterruptible", "lock",
                                     PushBack(Without, "lock", task_curr))
        /\ n_cli' = [n_cli EXCEPT ![task_curr] = @ + 1]
        /\ intr' = FALSE
        /\ Push(schedule(<<Frame("lock_ret")>>))
        /\ UNCHANGED lock_val
  /\ UNCHANGED <<task_curr, counter, timeVars, sig, waitVars, famVars, window>>

-----------------------------------------------------------------------------
(* Interrupts.                                                             *)

\* Interrupts are on, also between find_runnable_task and the cli.
IrqEnabled == Running /\ intr

\* do_timer, and the assertion of trap_handler when it returns at once
do_timer ==
  /\ IrqEnabled
  /\ jiffies' = IF jiffies < MaxJiffies THEN jiffies + 1 ELSE jiffies
  /\ counter' = [counter EXCEPT ![task_curr] = IF @ < 0 THEN @ ELSE @ - 1]
  /\ \/ /\ counter[task_curr] <= 0
        /\ Len(kstack[task_curr]) <= MaxDepth
        /\ Push(schedule(<<Frame("trap_ret")>>))
        /\ ScheduledOver
        /\ UNCHANGED panic
     \/ /\ counter[task_curr] > 0
        /\ IF n_cli[task_curr] = 0 THEN UNCHANGED panic ELSE panic' = "n_cli"
        /\ UNCHANGED <<kstack, window>>
  /\ UNCHANGED <<task_curr, listVars, sleep, alarm, task_alarm_list, sig, waitVars,
                 famVars, lock_val, n_cli, intr>>

\* do_irq_keyboard for one character: wakeup_interruptible on the input list
do_irq_keyboard ==
  /\ IrqEnabled
  /\ list["input"] # <<>>
  /\ add_to_runnable_list(Head(list["input"]))
  /\ IF n_cli[task_curr] = 0 THEN UNCHANGED panic ELSE panic' = "n_cli"
  /\ UNCHANGED <<task_curr, kstack, counter, timeVars, sig, waitVars, famVars,
                 lock_val, n_cli, intr, window>>

\* PANIC and ASSERT enter the kernel monitor, which never resumes the tasks.
Halt == ~Running /\ UNCHANGED vars

-----------------------------------------------------------------------------
(* start_kernel behind its do_fork: the kernel task 0 runs, init is ready. *)
Init ==
  /\ task_curr = 0
  /\ next_task_id = 2
  /\ tstate = [t \in Task |-> IF t < 2 THEN "running" ELSE "not_runnable"]
  /\ node = [t \in Task |-> IF t < 2 THEN "runnable" ELSE "free"]
  /\ list = [l \in Lists |-> IF l = "runnable" THEN <<0, 1>> ELSE <<>>]
  /\ kstack = [t \in Task |-> <<>>]
  /\ counter = [t \in Task |-> 0]
  /\ jiffies = 0
  /\ sleep = [t \in Task |-> 0]
  /\ alarm = [t \in Task |-> 0]
  /\ task_alarm_list = <<>>
  /\ sig = [t \in Task |-> {}]
  /\ parent = [t \in Task |-> IF t = 1 THEN 0 ELSE None]
  /\ waiting_child = [t \in Task |-> FALSE]
  /\ wait_notify_next = [t \in Task |-> None]
  /\ lock_val = 1
  /\ n_cli = [t \in Task |-> 0]
  /\ intr = TRUE
  /\ panic = "none"
  /\ window = "clear"

Kernel ==
  \/ check_alarm \/ check_sleep_list \/ find_runnable_task \/ switch_to_task
  \/ check_signals \/ notify_parent \/ exit_ret \/ wait_ret \/ lock_ret
  \/ inode_unlock \/ trap_ret

User ==
  \/ sys_yield \/ sys_pause \/ sys_cgetc \/ sys_fork \/ sys_exit \/ sys_wait
  \/ inode_lock
  \/ \E s \in Seconds \ {0} : sys_sleep(s)
  \/ \E s \in Seconds : sys_alarm(s)
  \/ \E t \in Task, s \in Signals : sys_kill(t, s)

Next == Kernel \/ User \/ do_timer \/ do_irq_keyboard \/ Halt

Spec == Init /\ [][Next]_vars

\* A task in the kernel goes on, and the timer's request stays pending in the
\* interrupt controller until the processor takes it.  Programs owe nothing.
FairSpec == Spec /\ WF_vars(Kernel) /\ SF_vars(do_timer)

-----------------------------------------------------------------------------
(* Properties.                                                             *)

\* The variables keep the types the declarations of task.h give them.
TypeOK ==
  /\ task_curr \in Task
  /\ next_task_id \in 2..MaxTasks
  /\ tstate \in [Task -> States]
  /\ node \in [Task -> Lists \cup {"free"}]
  /\ list \in [Lists -> Seq(Task)]
  /\ kstack \in [Task -> Seq([pc : Frames, next : Task])]
  /\ counter \in [Task -> Int]
  /\ jiffies \in 0..MaxJiffies
  /\ sleep \in [Task -> Nat]
  /\ alarm \in [Task -> Nat]
  /\ task_alarm_list \in Seq(Task)
  /\ sig \in [Task -> SUBSET (1..31)]
  /\ parent \in [Task -> Task \cup {None}]
  /\ waiting_child \in [Task -> BOOLEAN]
  /\ wait_notify_next \in [Task -> Task \cup {None}]
  /\ lock_val \in 0..1
  /\ n_cli \in [Task -> Int]
  /\ intr \in BOOLEAN
  /\ panic \in Panics \cup {"none"}
  /\ window \in {"clear", "hit", "stale"}

\* A list holds a task once, and holds it exactly when its node says so.
NodesMatchLists ==
  \A l \in Lists :
    /\ IsInjective(list[l])
    /\ \A t \in Task : Contains(list[l], t) <=> node[t] = l

\* The state of a task says which list it is in.
StateMatchesNode(t) ==
  /\ tstate[t] = "running" <=> node[t] = "runnable"
  /\ tstate[t] = "zombie" <=> node[t] = "zombie"
  /\ tstate[t] = "uninterruptible" <=> node[t] = "lock"
  /\ node[t] \in {"sleep", "input"} => tstate[t] = "interruptible"

\* However ticks, wake-ups, signals and exits interleave, no task is lost from
\* the lists of sched.cpp, linked twice, or linked where its state denies it.
ListInv ==
  Running => /\ NodesMatchLists
             /\ \A t \in Task : StateMatchesNode(t)
             /\ IsInjective(task_alarm_list)

\* Nothing brings a task back once do_exit has put it on task_zombie_list.
ZombieStaysZombie ==
  [][\A t \in Task : tstate[t] = "zombie" /\ Running' => tstate'[t] = "zombie"]_vars

\* schedule() never meets its PANIC "kernel task beklemeye gecemez": whatever
\* blocks, is killed or exits, the runnable queue has a task.
RunqNeverEmpty == panic # "runq_empty"

\* Every task on a wait_notify_next chain is dead, so sys_wait never reports a
\* child that still runs, in whatever order children exit and parents wait.
NotifiedAreZombies ==
  Running => \A t \in Task : wait_notify_next[t] # None =>
                               tstate[wait_notify_next[t]] = "zombie"

\* An id that set_task_id has not given out belongs to no task.
UnbornUnlinked ==
  \A t \in Task \ Exists : tstate[t] = "not_runnable" /\ node[t] = "free"

\* Only a task that do_exit has made a zombie is about to notify its parent.
ExitingAreZombies ==
  \A t \in Task : \A i \in 1..Len(kstack[t]) :
    kstack[t][i].pc = "notify" => tstate[t] = "zombie"

\* The kernel task is on the runnable list, or was killed: then it is inside
\* do_exit with interrupts off, and notify_parent finds no parent.
KernelTaskRunnable ==
  /\ parent[0] = None
  /\ \/ node[0] = "runnable"
     \/ task_curr = 0 /\ kstack[0] = <<Frame("notify")>> /\ ~intr

\* The inductive invariant behind the theorems of SchedProofs: every stretch
\* of kernel code keeps all of it, whatever it is interleaved with.
IndInv ==
  /\ TypeOK /\ ListInv /\ NotifiedAreZombies /\ RunqNeverEmpty
  /\ Running => UnbornUnlinked /\ ExitingAreZombies /\ KernelTaskRunnable

\* A task that is back in user mode is one the scheduler may run.
CurrentIsRunnable == Running /\ UserMode => InRunnable

\* The window of schedule() is the only way to a task in user mode that the
\* scheduler may not run: it takes a tick between find_runnable_task and the
\* cli, and then a task_next that blocked or exited before the switch.
OnlyStaleUnrunnable == window # "stale" => CurrentIsRunnable

\* Some frame of the kernel stack s is one of pcs.
InStack(s, pcs) == \E i \in 1..Len(s) : s[i].pc \in pcs

\* Inside inode_lock .. inode_unlock, a granted waiter included
Holds(t) ==
  \/ InStack(kstack[t], {"locked"})
  \/ InStack(kstack[t], {"lock_ret"}) /\ tstate[t] = "running"

Holders == {t \in Task : Holds(t)}

\* The inode lock is held by at most one task, also while it is handed over,
\* and it is free only when nobody holds it or waits for it (inode_lock and
\* inode_unlock), until a switch to a stale task_next resumes a waiter that
\* was not granted the lock: the assertion of inode_lock only looks at val.
\* A holder that is killed takes the lock with it: the lock is then taken for
\* ever, but never held twice.
LockExclusion ==
  Running /\ window # "stale" =>
    /\ Cardinality(Holders) <= 1
    /\ lock_val = 1 => Holders = {} /\ list["lock"] = <<>>

\* Programs that neither signal nor lock never make the kernel panic, except
\* that init must not exit, until a switch to a stale task_next.
NoPanic == window # "stale" => panic \in {"none", "exit task 1"}

-----------------------------------------------------------------------------
(* What LockExclusion, OnlyStaleUnrunnable and NoPanic rest on.           *)

\* The task that find_runnable_task chose is runnable until the switch, and
\* nobody but the current task is on its way to a switch.
SwitchFresh ==
  /\ \A t \in Task \ {task_curr} : ~InStack(kstack[t], {"switch"})
  /\ ~UserMode => /\ ~InStack(Tail(kstack[task_curr]), {"switch"})
                  /\ Top.pc = "switch" => tstate[Top.next] = "running"

\* A current task that is not runnable is inside schedule() or do_exit.
BlockedInSchedule ==
  \/ tstate[task_curr] = "running"
  \/ ~UserMode /\ Top.pc \in {"check_alarm", "check_sleep", "find", "switch",
                                 "notify"}

\* inode_lock is called from user mode: its frame is the oldest of the stack.
LockFramesLast ==
  \A t \in Task : \A i \in 1 .. (Len(kstack[t]) - 1) :
    kstack[t][i].pc \notin {"locked", "lock_ret"}

\* Only inode_unlock ends the sleep of a task inside inode_lock.
WaitersSleep ==
  \A t \in Task : InStack(kstack[t], {"lock_ret"}) =>
                    tstate[t] \in {"running", "uninterruptible"}

LockHeldOnce ==
  /\ \A t, u \in Task : Holds(t) /\ Holds(u) => t = u
  /\ lock_val = 1 => \A t \in Task : ~Holds(t) /\ tstate[t] # "uninterruptible"

\* Inductive together with IndInv
ProcInv ==
  Running => /\ window = "clear" => SwitchFresh
             /\ window # "stale" => /\ BlockedInSchedule /\ LockFramesLast
                                    /\ WaitersSleep /\ LockHeldOnce

\* The calls that neither signal, nor lock, nor wait
QuietCalls == {"fork", "sleep", "cgetc", "pause", "yield", "exit"}

\* Programs that make no other calls get no signal but SIGCHLD, and no frame
\* that waits on anything but a deadline or a key.
Quiet ==
  /\ node[0] = "runnable" /\ task_alarm_list = <<>>
  /\ \A t \in Exists : tstate[t] \in {"running", "interruptible", "zombie"}
  /\ \A t \in Exists \ {0} : parent[t] \in Exists
  /\ \A t \in Task : /\ sig[t] \subseteq {SIGCHLD} /\ n_cli[t] = 0
                     /\ ~InStack(kstack[t], {"wait_ret", "lock_ret", "locked"})
                     /\ InStack(kstack[t], {"exit_ret"}) => tstate[t] = "zombie"

\* Inductive together with IndInv and ProcInv when Calls is a subset of
\* QuietCalls
QuietInv == NoPanic /\ (Running /\ window # "stale" => Quiet)

-----------------------------------------------------------------------------
(* Liveness.                                                               *)

\* Round robin: a runnable task gets the processor or stops being runnable.
RunnableRuns ==
  \A t \in Task :
    (Running /\ tstate[t] = "running")
      ~> (task_curr = t \/ tstate[t] # "running" \/ ~Running)

\* check_sleep_list finds every sleeper in the end.
SleepersWake == \A t \in Task : node[t] = "sleep" ~> (node[t] # "sleep" \/ ~Running)

-----------------------------------------------------------------------------
(* What comments and assertions of the code say and the code does not keep *)

\* sched.cpp:343, "sleep listesine zaman sirasina gore insert yap": the sleep
\* list is in the order of the wake-up times, as check_sleep_list needs.
SleepListSorted == IsSorted(list["sleep"], LAMBDA t, u : sleep[t] <= sleep[u])

\* task_exit.cpp:107-110, "child process'in bitmesini bekle ve child process
\* idsini dondur": what sys_wait reports is a child of the caller.
WaitReportsOwnChild ==
  At("wait_ret") /\ wait_notify_next[task_curr] # None
    => parent[wait_notify_next[task_curr]] = task_curr

==============================================================================
