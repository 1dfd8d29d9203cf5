---------------------------- MODULE SchedProofs ----------------------------
(***************************************************************************)
(* Proofs about Sched, for every number of tasks, workload, slice length,  *)
(* nesting depth of interrupts, and with and without the tick inside the   *)
(* window of schedule().  The argument is one inductive invariant, IndInv. *)
(***************************************************************************)
EXTENDS Sched, ListLemmas

FrameSet == [pc : Frames, next : Task]

\* ls holds what the task lists hold, except that t is now in l and only there
Relinked(ls, t, l) ==
  /\ ls \in [Lists -> Seq(Task)]
  /\ \A k \in Lists : IsInjective(ls[k])
  /\ \A k \in Lists : \A x \in Task :
       Contains(ls[k], x) <=> IF x = t THEN k = l ELSE Contains(list[k], x)

\* The list a task in state st may be linked into
Fits(st, l) ==
  /\ st = "running" <=> l = "runnable"
  /\ st = "zombie" <=> l = "zombie"
  /\ st = "uninterruptible" <=> l = "lock"
  /\ l \in {"sleep", "input"} => st = "interruptible"

\* The type of the variables that describe the task lists
ListTypes ==
  /\ tstate \in [Task -> States]
  /\ node \in [Task -> Lists \cup {"free"}]
  /\ list \in [Lists -> Seq(Task)]

\* The agreement of lists, nodes and states
Linked == NodesMatchLists /\ \A t \in Task : StateMatchesNode(t)

-----------------------------------------------------------------------------
(* The list operations of sched.cpp.                                       *)

\* Erasing a task's node takes the task out of the one list it is in.
LEMMA DetachUnlinks ==
  ASSUME ListTypes, NodesMatchLists, NEW t \in Task
  PROVE  Relinked(Detach(list, t), t, "free")
PROOF
  <1>1. CASE node[t] = "free"
    <2>1. Detach(list, t) = list
      BY <1>1 DEF Detach
    <2>2. \A k \in Lists : k # "free" /\ ~Contains(list[k], t)
      BY <1>1 DEF NodesMatchLists, Lists
    <2> QED
      BY <2>1, <2>2 DEF Relinked, NodesMatchLists, ListTypes
  <1>2. CASE node[t] # "free"
    <2> DEFINE n == node[t]
               s == RemoveFirst(list[n], t)
    <2>1. n \in Lists /\ \A k \in Lists : k # "free"
      BY <1>2 DEF ListTypes, Lists
    <2>2. list[n] \in Seq(Task) /\ IsInjective(list[n])
      BY <2>1 DEF ListTypes, NodesMatchLists
    <2>3. /\ s \in Seq(Task) /\ IsInjective(s)
          /\ \A x : Contains(s, x) <=> Contains(list[n], x) /\ x # t
      BY <2>2, RemoveFirstList
    <2>4. Detach(list, t) = [list EXCEPT ![n] = s]
      BY <1>2 DEF Detach
    <2> HIDE DEF s
    <2>5. [list EXCEPT ![n] = s] \in [Lists -> Seq(Task)]
      BY <2>1, <2>3 DEF ListTypes
    <2>6. ASSUME NEW k \in Lists
          PROVE  /\ IsInjective([list EXCEPT ![n] = s][k])
                 /\ \A x \in Task : Contains([list EXCEPT ![n] = s][k], x)
                      <=> IF x = t THEN k = "free" ELSE Contains(list[k], x)
      <3>1. CASE k = n
        BY <3>1, <2>1, <2>3 DEF ListTypes
      <3>2. CASE k # n
        <4>1. [list EXCEPT ![n] = s][k] = list[k]
          BY <3>2 DEF ListTypes
        <4>2. ~Contains(list[k], t)
          BY <3>2 DEF NodesMatchLists
        <4> QED
          BY <4>1, <4>2, <2>1 DEF NodesMatchLists
      <3> QED
        BY <3>1, <3>2
    <2> QED
      BY <2>4, <2>5, <2>6 DEF Relinked
  <1> QED
    BY <1>1, <1>2

\* Replacing one list of an unlinked task's lists by a list that also holds
\* the task links the task there.
LEMMA LinkInto ==
  ASSUME NEW ls, NEW t \in Task, Relinked(ls, t, "free"), NEW l \in Lists,
         NEW s \in Seq(Task), IsInjective(s),
         \A x : Contains(s, x) <=> Contains(ls[l], x) \/ x = t
  PROVE  Relinked([ls EXCEPT ![l] = s], t, l)
PROOF
  <1>0. \A k \in Lists : k # "free"
    BY DEF Lists
  <1>1. [ls EXCEPT ![l] = s] \in [Lists -> Seq(Task)]
    BY DEF Relinked
  <1>2. ASSUME NEW k \in Lists
        PROVE  /\ IsInjective([ls EXCEPT ![l] = s][k])
               /\ \A x \in Task : Contains([ls EXCEPT ![l] = s][k], x)
                    <=> IF x = t THEN k = l ELSE Contains(list[k], x)
    <2>1. CASE k = l
      BY <2>1, <1>0 DEF Relinked
    <2>2. CASE k # l
      <3>1. [ls EXCEPT ![l] = s][k] = ls[k]
        BY <2>2 DEF Relinked
      <3> QED
        BY <3>1, <2>2, <1>0 DEF Relinked
    <2> QED
      BY <2>1, <2>2
  <1> QED
    BY <1>1, <1>2 DEF Relinked

\* push_back of an unlinked task
LEMMA PushBackLinks ==
  ASSUME NEW ls, NEW t \in Task, Relinked(ls, t, "free"), NEW l \in Lists
  PROVE  Relinked(PushBack(ls, l, t), t, l)
PROOF
  <1>1. ls[l] \in Seq(Task) /\ IsInjective(ls[l]) /\ ~Contains(ls[l], t)
    BY DEF Relinked, Lists
  <1>2. /\ Append(ls[l], t) \in Seq(Task) /\ IsInjective(Append(ls[l], t))
        /\ \A x : Contains(Append(ls[l], t), x) <=> Contains(ls[l], x) \/ x = t
    BY <1>1, AppendList
  <1> QED
    BY <1>2, LinkInto DEF PushBack

\* InsertPos is a position of the list or the one behind it.
LEMMA InsertPosRange ==
  ASSUME NEW seq \in Seq(Task), NEW deadline, NEW s
  PROVE  InsertPos(seq, deadline, s) \in 1..(Len(seq) + 1)
PROOF
  <1> DEFINE I == {i \in 1..Len(seq) : deadline[seq[i]] > s}
  <1>1. Len(seq) \in Nat
    OBVIOUS
  <1>2. CASE I = {}
    BY <1>1, <1>2 DEF InsertPos
  <1>3. CASE I # {}
    <2>1. SelectInSeq(seq, LAMBDA t : deadline[t] > s) = Min(I)
      BY <1>3 DEF SelectInSeq
    <2>2. Min(I) \in I
      <3>1. I \in SUBSET Nat
        BY <1>1
      <3> HIDE DEF I
      <3> QED
        BY <3>1, <1>3, MinInSet
    <2>3. InsertPos(seq, deadline, s) = Min(I)
      BY <1>3, <2>1 DEF InsertPos
    <2> QED
      BY <1>1, <2>2, <2>3
  <1> QED
    BY <1>2, <1>3

\* A task that is relinked into a list that fits its new state leaves lists,
\* nodes and states in agreement.
LEMMA RelinkKeepsLinked ==
  ASSUME ListTypes, Linked, NEW t \in Task, NEW l \in Lists \cup {"free"},
         NEW st \in States, Fits(st, l), Relinked(list', t, l),
         node' = [node EXCEPT ![t] = l], tstate' = [tstate EXCEPT ![t] = st]
  PROVE  ListTypes' /\ Linked'
PROOF
  <1>1. ListTypes'
    BY DEF ListTypes, Relinked
  <1>2. \A k \in Lists : IsInjective(list'[k])
    BY DEF Relinked
  <1>3. ASSUME NEW k \in Lists, NEW x \in Task
        PROVE  Contains(list'[k], x) <=> node'[x] = k
    <2>1. Contains(list'[k], x) <=> IF x = t THEN k = l ELSE Contains(list[k], x)
      BY DEF Relinked
    <2>2. node'[x] = IF x = t THEN l ELSE node[x]
      BY DEF ListTypes
    <2>3. Contains(list[k], x) <=> node[x] = k
      BY DEF Linked, NodesMatchLists
    <2> QED
      BY <2>1, <2>2, <2>3
  <1>4. ASSUME NEW x \in Task PROVE StateMatchesNode(x)'
    BY DEF Linked, StateMatchesNode, ListTypes, Fits
  <1> QED
    BY <1>1, <1>2, <1>3, <1>4 DEF Linked, NodesMatchLists

\* A wake-up moves any task to the runnable list.
LEMMA WakeUp ==
  ASSUME ListTypes, Linked, NEW t \in Task, add_to_runnable_list(t)
  PROVE  ListTypes' /\ Linked'
PROOF
  <1>1. Relinked(list', t, "runnable")
    BY DetachUnlinks, PushBackLinks DEF add_to_runnable_list, Linked, Lists
  <1>2. Fits("running", "runnable") /\ "runnable" \in Lists /\ "running" \in States
    BY DEF Fits, Lists, States
  <1> QED
    BY <1>1, <1>2, RelinkKeepsLinked DEF add_to_runnable_list

-----------------------------------------------------------------------------
(* What a step does to the lists, as far as the other invariants care.     *)

\* Lists stay in agreement, zombies stay zombies, a task that was never
\* created stays so, and the kernel task stays runnable.
ListStep ==
  /\ ListTypes' /\ Linked'
  /\ \A t \in Task :
       /\ tstate[t] = "zombie" => tstate'[t] = "zombie"
       /\ tstate[t] = "not_runnable" /\ node[t] = "free" =>
            tstate'[t] = "not_runnable" /\ node'[t] = "free"
  /\ node[0] = "runnable" => node'[0] = "runnable"

\* A step that leaves the lists alone
LEMMA StepUnlisted ==
  ASSUME ListTypes, Linked, UNCHANGED listVars
  PROVE  ListStep
BY DEF ListTypes, Linked, NodesMatchLists, StateMatchesNode, listVars, ListStep

\* A wake-up of a sleeping task
LEMMA StepWakes ==
  ASSUME ListTypes, Linked, NEW t \in Task, add_to_runnable_list(t),
         tstate[t] \in {"interruptible", "uninterruptible"}
  PROVE  ListStep
PROOF
  <1>1. ListTypes' /\ Linked'
    BY WakeUp
  <1>2. ASSUME NEW x \in Task
        PROVE  /\ tstate'[x] = IF x = t THEN "running" ELSE tstate[x]
               /\ node'[x] = IF x = t THEN "runnable" ELSE node[x]
    BY DEF add_to_runnable_list, ListTypes
  <1>3. 0 \in Task
    BY SchedAssumption DEF Task
  <1> QED
    BY <1>1, <1>2, <1>3 DEF ListStep

\* The current user task leaves the runnable list, or the kernel panics.
LEMMA StepBlocks ==
  ASSUME ListTypes, Linked, task_curr \in Task, task_curr # 0,
         NEW l \in Lists \cup {"free"}, NEW st \in States, Fits(st, l),
         NEW ls, Relinked(ls, task_curr, l), remove_from_runnable_list(st, l, ls)
  PROVE  ListStep /\ (panic' = panic \/ panic' = "remove_from_runnable_list")
PROOF
  <1>1. CASE ~InRunnable
    BY <1>1, StepUnlisted DEF remove_from_runnable_list
  <1>2. CASE InRunnable
    <2>1. /\ list' = ls /\ panic' = panic
          /\ node' = [node EXCEPT ![task_curr] = l]
          /\ tstate' = [tstate EXCEPT ![task_curr] = st]
      BY <1>2 DEF remove_from_runnable_list
    <2>2. ListTypes' /\ Linked'
      BY <2>1, RelinkKeepsLinked
    <2>3. ASSUME NEW x \in Task
          PROVE  /\ tstate'[x] = IF x = task_curr THEN st ELSE tstate[x]
                 /\ node'[x] = IF x = task_curr THEN l ELSE node[x]
      BY <2>1 DEF ListTypes
    <2>4. 0 \in Task
      BY SchedAssumption DEF Task
    <2> QED
      BY <1>2, <2>1, <2>2, <2>3, <2>4 DEF ListStep, InRunnable
  <1> QED
    BY <1>1, <1>2

\* send_signal wakes at most a task in interruptible sleep.
LEMMA StepSignals ==
  ASSUME ListTypes, Linked, sig \in [Task -> SUBSET (1..31)],
         NEW s \in 1..31, NEW t \in Task, send_signal(s, t)
  PROVE  /\ ListStep
         /\ sig' \in [Task -> SUBSET (1..31)]
         /\ panic' = panic \/ panic' = "send_signal"
PROOF
  <1>1. sig' \in [Task -> SUBSET (1..31)]
    BY DEF send_signal
  <1>2. CASE Wakes(s, t) /\ add_to_runnable_list(t) /\ UNCHANGED panic
    BY <1>1, <1>2, StepWakes DEF Wakes
  <1>3. CASE UNCHANGED listVars /\ (panic' = panic \/ panic' = "send_signal")
    BY <1>1, <1>3, StepUnlisted
  <1> QED
    BY <1>2, <1>3 DEF send_signal

-----------------------------------------------------------------------------
(* Kernel stacks.                                                          *)

\* Stacks keep their type and no frame of notify_parent appears.
StackStep ==
  /\ kstack' \in [Task -> Seq(FrameSet)]
  /\ \A t \in Task : \A i \in 1..Len(kstack'[t]) :
       kstack'[t][i].pc = "notify" =>
         \E j \in 1..Len(kstack[t]) : kstack[t][j].pc = "notify"

\* Frames other than that of notify_parent
PlainFrames == {f \in FrameSet : f.pc # "notify"}

\* Frame makes a frame, plain unless its name is "notify".
LEMMA FrameIsFrame ==
  ASSUME NEW pc \in Frames
  PROVE  Frame(pc) \in FrameSet /\ (pc # "notify" => Frame(pc) \in PlainFrames)
PROOF
  <1>1. 0 \in Task
    BY SchedAssumption DEF Task
  <1> QED
    BY <1>1 DEF Frame, FrameSet, PlainFrames

\* A call of schedule() pushes plain frames.
LEMMA ScheduleFrames ==
  ASSUME NEW pc \in Frames, pc # "notify"
  PROVE  /\ <<Frame(pc)>> \in Seq(PlainFrames)
         /\ schedule(<<>>) \in Seq(PlainFrames)
         /\ schedule(<<Frame(pc)>>) \in Seq(PlainFrames)
PROOF
  <1>1. Frame(pc) \in PlainFrames /\ Frame("check_alarm") \in PlainFrames
    BY FrameIsFrame DEF Frames
  <1> DEFINE f == Frame(pc)
             g == Frame("check_alarm")
  <1> HIDE DEF f, g
  <1>2. f \in PlainFrames /\ g \in PlainFrames
    BY <1>1 DEF f, g
  <1>3. /\ <<f>> \in Seq(PlainFrames) /\ <<g>> \o <<>> \in Seq(PlainFrames)
        /\ <<g>> \o <<f>> \in Seq(PlainFrames)
    BY <1>2
  <1> QED
    BY <1>3 DEF f, g, schedule

\* A call adds plain frames to the stack of the current task.
LEMMA StackPush ==
  ASSUME kstack \in [Task -> Seq(FrameSet)], task_curr \in Task,
         NEW fs \in Seq(PlainFrames), Push(fs)
  PROVE  StackStep
PROOF
  <1> DEFINE k == kstack[task_curr]
             r == fs \o k
  <1>0. PlainFrames \subseteq FrameSet /\ k \in Seq(FrameSet)
    BY DEF PlainFrames
  <1>1. kstack' = [kstack EXCEPT ![task_curr] = r]
    BY DEF Push
  <1>2. fs \in Seq(FrameSet) /\ \A i \in 1..Len(fs) : fs[i].pc # "notify"
    <2>1. \A i \in 1..Len(fs) : fs[i] \in PlainFrames
      OBVIOUS
    <2> QED
      BY <2>1, <1>0 DEF PlainFrames
  <1> HIDE DEF k
  <1>3. /\ r \in Seq(FrameSet) /\ Len(r) = Len(fs) + Len(k)
        /\ \A i \in 1..(Len(fs) + Len(k)) :
             r[i] = IF i <= Len(fs) THEN fs[i] ELSE k[i - Len(fs)]
    BY <1>0, <1>2, ConcatProperties
  <1> HIDE DEF r
  <1>4. ASSUME NEW i \in 1..Len(r), r[i].pc = "notify"
        PROVE  \E j \in 1..Len(k) : k[j].pc = "notify"
    <2>1. ~(i <= Len(fs))
      BY <1>2, <1>3, <1>4
    <2>2. i - Len(fs) \in 1..Len(k) /\ r[i] = k[i - Len(fs)]
      BY <2>1, <1>0, <1>2, <1>3
    <2> QED
      BY <2>2, <1>4
  <1>5. kstack' \in [Task -> Seq(FrameSet)]
    BY <1>1, <1>3
  <1>6. ASSUME NEW t \in Task, NEW i \in 1..Len(kstack'[t]),
               kstack'[t][i].pc = "notify"
        PROVE  \E j \in 1..Len(kstack[t]) : kstack[t][j].pc = "notify"
    <2>1. CASE t = task_curr
      BY <2>1, <1>1, <1>4, <1>6 DEF k
    <2>2. CASE t # task_curr
      BY <2>2, <1>1, <1>6
    <2> QED
      BY <2>1, <2>2
  <1> QED
    BY <1>5, <1>6 DEF StackStep

\* A return takes the top frame away; a jump replaces it by a plain frame.
LEMMA StackReturn ==
  ASSUME kstack \in [Task -> Seq(FrameSet)], task_curr \in Task, ~UserMode
  PROVE  /\ Return => StackStep
         /\ \A f \in PlainFrames : Goto(f) => StackStep
PROOF
  <1> DEFINE k == kstack[task_curr]
             r == Tail(k)
             m == [kstack EXCEPT ![task_curr] = r]
  <1>1. k \in Seq(FrameSet) /\ k # <<>>
    BY DEF UserMode
  <1>2. /\ r \in Seq(FrameSet) /\ Len(r) = Len(k) - 1 /\ Len(k) \in Nat
        /\ \A i \in 1..Len(r) : r[i] = k[i + 1]
    BY <1>1, HeadTailProperties
  <1>3. ASSUME NEW i \in 1..Len(r), r[i].pc = "notify"
        PROVE  \E j \in 1..Len(k) : k[j].pc = "notify"
    <2>1. i + 1 \in 1..Len(k) /\ r[i] = k[i + 1]
      BY <1>2
    <2> QED
      BY <2>1, <1>3
  <1>4. ASSUME NEW s \in Seq(FrameSet), kstack' = [kstack EXCEPT ![task_curr] = s],
               \A i \in 1..Len(s) : s[i].pc = "notify" =>
                 \E j \in 1..Len(k) : k[j].pc = "notify"
        PROVE  StackStep
    <2>1. kstack' \in [Task -> Seq(FrameSet)]
      BY <1>4
    <2>2. ASSUME NEW t \in Task, NEW i \in 1..Len(kstack'[t]),
                 kstack'[t][i].pc = "notify"
          PROVE  \E j \in 1..Len(kstack[t]) : kstack[t][j].pc = "notify"
      <3>1. CASE t = task_curr
        BY <3>1, <1>4, <2>2
      <3>2. CASE t # task_curr
        BY <3>2, <1>4, <2>2
      <3> QED
        BY <3>1, <3>2
    <2> QED
      BY <2>1, <2>2 DEF StackStep
  <1>5. Return => StackStep
    BY <1>2, <1>3, <1>4 DEF Return
  <1>6. ASSUME NEW f \in PlainFrames, Goto(f) PROVE StackStep
    <2> DEFINE s == <<f>> \o r
    <2>1. kstack' = [kstack EXCEPT ![task_curr] = s]
      BY <1>6 DEF Goto
    <2>2. f \in FrameSet /\ f.pc # "notify"
      BY DEF PlainFrames
    <2> HIDE DEF r
    <2>3. <<f>> \in Seq(FrameSet) /\ Len(<<f>>) = 1 /\ <<f>>[1] = f
      BY <2>2
    <2>4. /\ s \in Seq(FrameSet) /\ Len(s) = 1 + Len(r)
          /\ \A i \in 1..(1 + Len(r)) : s[i] = IF i <= 1 THEN f ELSE r[i - 1]
      BY <2>3, <1>2, ConcatProperties
    <2> HIDE DEF s
    <2>5. ASSUME NEW i \in 1..Len(s), s[i].pc = "notify"
          PROVE  \E j \in 1..Len(k) : k[j].pc = "notify"
      <3>1. i # 1
        BY <2>2, <2>4, <2>5
      <3>2. i - 1 \in 1..Len(r) /\ s[i] = r[i - 1]
        BY <3>1, <2>4, <1>2
      <3> QED
        BY <3>2, <1>3, <2>5
    <2> QED
      BY <2>1, <2>4, <2>5, <1>4
  <1> QED
    BY <1>5, <1>6

\* A step that leaves the stacks alone
LEMMA StackSame ==
  ASSUME kstack \in [Task -> Seq(FrameSet)], UNCHANGED kstack
  PROVE  StackStep
BY DEF StackStep

-----------------------------------------------------------------------------
(* The invariant and a step.                                               *)

\* The type of the variables that ListTypes leaves out
OtherTypes ==
  /\ task_curr \in Task
  /\ next_task_id \in 2..MaxTasks
  /\ kstack \in [Task -> Seq(FrameSet)]
  /\ counter \in [Task -> Int]
  /\ jiffies \in 0..MaxJiffies
  /\ sleep \in [Task -> Nat]
  /\ alarm \in [Task -> Nat]
  /\ task_alarm_list \in Seq(Task)
  /\ sig \in [Task -> SUBSET (1..31)]
  /\ parent \in [Task -> Task \cup {None}]
  /\ waiting_child \in [Task -> BOOLEAN]
  /\ wait_notify_next \in [Task -> Task \cup {None}]
  /\ lock_val \in 0..1
  /\ n_cli \in [Task -> Int]
  /\ intr \in BOOLEAN
  /\ panic \in Panics \cup {"none"}
  /\ window \in {"clear", "hit", "stale"}

\* The links of the wait_notify_next chains lead to zombies.
ChainsOfZombies ==
  \A t \in Task : wait_notify_next[t] # None =>
                   tstate[wait_notify_next[t]] = "zombie"

\* What the invariant says while the kernel runs
RunInv ==
  /\ ListTypes /\ OtherTypes /\ Linked /\ IsInjective(task_alarm_list)
  /\ ChainsOfZombies /\ UnbornUnlinked /\ ExitingAreZombies /\ KernelTaskRunnable

\* What the invariant gives a step of a running kernel
LEMMA RunInvHolds ==
  ASSUME IndInv, Running
  PROVE  RunInv
BY DEF IndInv, RunInv, TypeOK, ListTypes, OtherTypes, FrameSet, ListInv, Linked,
       NotifiedAreZombies, ChainsOfZombies

\* What a step has to establish, for a kernel that runs on and for one that
\* has panicked
LEMMA RunInvSuffices ==
  ASSUME \/ RunInv'
         \/ ListTypes' /\ OtherTypes' /\ ~Running',
         panic' # "runq_empty"
  PROVE  IndInv'
BY DEF IndInv, RunInv, TypeOK, ListTypes, OtherTypes, FrameSet, ListInv, Linked,
       NotifiedAreZombies, ChainsOfZombies, RunqNeverEmpty, Running

\* Outside of do_exit, and wherever interrupts are on, the kernel task is
\* runnable.
LEMMA KernelTaskReady ==
  ASSUME RunInv, \/ task_curr # 0 \/ intr \/ UserMode \/ Top.pc # "notify"
  PROVE  node[0] = "runnable"
PROOF
  <1> SUFFICES ASSUME node[0] # "runnable" PROVE FALSE
    OBVIOUS
  <1>1. task_curr = 0 /\ kstack[0] = <<Frame("notify")>> /\ ~intr
    BY DEF RunInv, KernelTaskRunnable
  <1>2. ~UserMode /\ Top = Frame("notify") /\ Frame("notify").pc = "notify"
    BY <1>1 DEF UserMode, Top, Frame
  <1> QED
    BY <1>1, <1>2

\* The first task of a list is a task whose node is in that list.
LEMMA HeadOfList ==
  ASSUME RunInv, NEW l \in Lists, list[l] # <<>>
  PROVE  /\ Head(list[l]) \in Task /\ node[Head(list[l])] = l
         /\ l \in {"sleep", "input"} => tstate[Head(list[l])] = "interruptible"
         /\ l = "lock" => tstate[Head(list[l])] = "uninterruptible"
PROOF
  <1>1. list[l] \in Seq(Task) /\ IsInjective(list[l])
    BY DEF RunInv, ListTypes, Linked, NodesMatchLists
  <1>2. Head(list[l]) \in Task /\ Contains(list[l], Head(list[l]))
    BY <1>1, TailList
  <1> QED
    BY <1>2 DEF RunInv, Linked, NodesMatchLists, StateMatchesNode

\* A step that changes the lists by a ListStep and the stacks by a StackStep,
\* creates no task and chains only zombies, keeps the invariant.
LEMMA StepKeepsInv ==
  ASSUME RunInv, node[0] = "runnable", ListStep, StackStep, OtherTypes',
         IsInjective(task_alarm_list'), UNCHANGED famVars,
         \A t \in Task : wait_notify_next'[t] # None =>
                          tstate[wait_notify_next'[t]] = "zombie",
         panic' # "runq_empty"
  PROVE  IndInv'
PROOF
  <1>1. ListTypes' /\ Linked'
    BY DEF ListStep
  <1>2. ChainsOfZombies'
    BY DEF ListStep, OtherTypes, ChainsOfZombies
  <1>3. UnbornUnlinked'
    BY DEF ListStep, RunInv, UnbornUnlinked, Exists, famVars
  <1>4. ExitingAreZombies'
    <2> SUFFICES ASSUME NEW t \in Task, NEW i \in 1..Len(kstack'[t]),
                        kstack'[t][i].pc = "notify"
                 PROVE  tstate'[t] = "zombie"
      BY DEF ExitingAreZombies
    <2>1. PICK j \in 1..Len(kstack[t]) : kstack[t][j].pc = "notify"
      BY DEF StackStep
    <2> QED
      BY <2>1 DEF RunInv, ExitingAreZombies, ListStep
  <1>5. KernelTaskRunnable'
    BY DEF RunInv, KernelTaskRunnable, ListStep, famVars
  <1>6. RunInv'
    BY <1>1, <1>2, <1>3, <1>4, <1>5 DEF RunInv
  <1> QED
    BY <1>6, RunInvSuffices

-----------------------------------------------------------------------------
(* One lemma per action.                                                   *)

\* check_alarm: a due alarm signals its task, or the loop ends.
LEMMA CheckAlarmKeeps ==
  ASSUME RunInv, check_alarm
  PROVE  IndInv'
PROOF
  <1>1. node[0] = "runnable"
    BY KernelTaskReady DEF check_alarm, At
  <1>2. ListTypes /\ Linked /\ OtherTypes /\ IsInjective(task_alarm_list)
    BY DEF RunInv
  <1>3. CASE AlarmDue
    <2>1. task_alarm_list # <<>>
      BY <1>3 DEF AlarmDue
    <2>2. /\ Head(task_alarm_list) \in Task /\ Tail(task_alarm_list) \in Seq(Task)
          /\ IsInjective(Tail(task_alarm_list))
      BY <1>2, <2>1, TailList DEF OtherTypes
    <2>3. /\ send_signal(SIGALRM, Head(task_alarm_list)) /\ UNCHANGED kstack
          /\ task_alarm_list' = Tail(task_alarm_list) /\ intr' = FALSE
      BY <1>3 DEF check_alarm
    <2>4. SIGALRM \in 1..31
      BY DEF SIGALRM
    <2>5. /\ ListStep /\ sig' \in [Task -> SUBSET (1..31)]
          /\ panic' = panic \/ panic' = "send_signal"
      BY <1>2, <2>2, <2>3, <2>4, StepSignals DEF OtherTypes
    <2>6. StackStep
      BY <1>2, <2>3, StackSame DEF OtherTypes
    <2>7. OtherTypes'
      BY <1>2, <2>2, <2>3, <2>5
      DEF OtherTypes, Panics, check_alarm, waitVars, famVars
    <2>8. panic' # "runq_empty"
      BY <2>5 DEF check_alarm, At, Running
    <2> QED
      BY <1>1, <2>2, <2>3, <2>5, <2>6, <2>7, <2>8, StepKeepsInv
      DEF check_alarm, waitVars, RunInv, ChainsOfZombies
  <1>4. CASE ~AlarmDue
    <2>1. /\ Goto(Frame("check_sleep")) /\ intr' = (n_cli[task_curr] = 0)
          /\ UNCHANGED <<listVars, sig, task_alarm_list, panic>>
      BY <1>4 DEF check_alarm
    <2>2. ListStep
      BY <1>2, <2>1, StepUnlisted
    <2>3. StackStep
      BY <1>2, <2>1, StackReturn, FrameIsFrame
      DEF OtherTypes, Frames, check_alarm, At
    <2>4. OtherTypes'
      BY <1>2, <2>1, <2>3
      DEF OtherTypes, check_alarm, waitVars, famVars, StackStep
    <2> QED
      BY <1>1, <1>2, <2>1, <2>2, <2>3, <2>4, StepKeepsInv
      DEF check_alarm, At, Running, waitVars, RunInv, ChainsOfZombies
  <1> QED
    BY <1>3, <1>4

\* check_sleep_list: a due sleeper becomes runnable, or the loop ends.
LEMMA CheckSleepKeeps ==
  ASSUME RunInv, check_sleep_list
  PROVE  IndInv'
PROOF
  <1>1. node[0] = "runnable"
    BY KernelTaskReady DEF check_sleep_list, At
  <1>2. ListTypes /\ Linked /\ OtherTypes /\ IsInjective(task_alarm_list)
    BY DEF RunInv
  <1>3. CASE SleeperDue
    <2> DEFINE t == Head(list["sleep"])
    <2>1. t \in Task /\ tstate[t] = "interruptible"
      BY <1>3, HeadOfList DEF SleeperDue, Lists
    <2>2. /\ add_to_runnable_list(t) /\ UNCHANGED kstack
          /\ sleep' = [sleep EXCEPT ![t] = 0] /\ intr' = FALSE
      BY <1>3 DEF check_sleep_list
    <2> HIDE DEF t
    <2>3. ListStep
      BY <1>2, <2>1, <2>2, StepWakes
    <2>4. StackStep
      BY <1>2, <2>2, StackSame DEF OtherTypes
    <2>5. OtherTypes'
      BY <1>2, <2>1, <2>2 DEF OtherTypes, check_sleep_list, waitVars, famVars
    <2> QED
      BY <1>1, <1>2, <2>3, <2>4, <2>5, StepKeepsInv
      DEF check_sleep_list, At, Running, waitVars, RunInv, ChainsOfZombies
  <1>4. CASE ~SleeperDue
    <2>1. /\ Goto(Frame("find")) /\ intr' = (n_cli[task_curr] = 0)
          /\ UNCHANGED <<listVars, sleep>>
      BY <1>4 DEF check_sleep_list
    <2>2. ListStep
      BY <1>2, <2>1, StepUnlisted
    <2>3. StackStep
      BY <1>2, <2>1, StackReturn, FrameIsFrame
      DEF OtherTypes, Frames, check_sleep_list, At
    <2>4. OtherTypes'
      BY <1>2, <2>1, <2>3
      DEF OtherTypes, check_sleep_list, waitVars, famVars, StackStep
    <2> QED
      BY <1>1, <1>2, <2>1, <2>2, <2>3, <2>4, StepKeepsInv
      DEF check_sleep_list, At, Running, waitVars, RunInv, ChainsOfZombies
  <1> QED
    BY <1>3, <1>4

\* find_runnable_task: the queue holds the kernel task, so it is not empty;
\* its first task goes to the back.
LEMMA FindRunnableKeeps ==
  ASSUME RunInv, find_runnable_task
  PROVE  IndInv'
PROOF
  <1> DEFINE q == list["runnable"]
             t == Head(q)
             f == [pc |-> "switch", next |-> t]
  <1>1. node[0] = "runnable"
    BY KernelTaskReady DEF find_runnable_task, At
  <1>2. ListTypes /\ Linked /\ OtherTypes /\ IsInjective(task_alarm_list)
    BY DEF RunInv
  <1>3. "runnable" \in Lists /\ 0 \in Task
    BY SchedAssumption DEF Lists, Task
  <1>4. Contains(q, 0) /\ q \in Seq(Task) /\ IsInjective(q)
    BY <1>1, <1>2, <1>3 DEF Linked, NodesMatchLists, ListTypes
  <1>5. q # <<>>
    BY <1>4 DEF Contains
  <1>6. t \in Task
    BY <1>3, <1>5, HeadOfList
  <1>7. /\ list' = [list EXCEPT !["runnable"] = Rotate(q)]
        /\ counter' = [counter EXCEPT ![t] = Priority]
        /\ Goto(f) /\ UNCHANGED panic
    BY <1>5 DEF find_runnable_task
  <1>8. /\ Rotate(q) \in Seq(Task) /\ IsInjective(Rotate(q))
        /\ \A x : Contains(Rotate(q), x) <=> Contains(q, x)
    BY <1>4, <1>5, RotateList DEF Rotate
  <1>9. ListStep
    <2>1. tstate' = tstate /\ node' = node
      BY DEF find_runnable_task
    <2>2. ListTypes'
      BY <1>2, <1>7, <1>8, <2>1 DEF ListTypes
    <2>3. ASSUME NEW k \in Lists
          PROVE  /\ IsInjective(list'[k])
                 /\ \A x \in Task : Contains(list'[k], x) <=> node[x] = k
      <3>1. CASE k = "runnable"
        <4>1. list'[k] = Rotate(q)
          BY <3>1, <1>2, <1>7 DEF ListTypes
        <4> QED
          BY <3>1, <4>1, <1>2, <1>8 DEF Linked, NodesMatchLists
      <3>2. CASE k # "runnable"
        <4>1. list'[k] = list[k]
          BY <3>2, <1>2, <1>7 DEF ListTypes
        <4> QED
          BY <4>1, <1>2 DEF Linked, NodesMatchLists
      <3> QED
        BY <3>1, <3>2
    <2>4. Linked'
      BY <1>2, <2>1, <2>3 DEF Linked, NodesMatchLists, StateMatchesNode
    <2> QED
      BY <2>1, <2>2, <2>4 DEF ListStep
  <1>10. StackStep
    <2>1. f \in PlainFrames
      BY <1>6 DEF PlainFrames, FrameSet, Frames
    <2> HIDE DEF f
    <2> QED
      BY <1>2, <1>7, <2>1, StackReturn DEF OtherTypes, find_runnable_task, At
  <1> HIDE DEF t, f
  <1>c. counter' \in [Task -> Int]
    BY <1>2, <1>6, <1>7, SchedAssumption DEF OtherTypes
  <1>11. OtherTypes'
    BY <1>2, <1>7, <1>10, <1>c
    DEF OtherTypes, find_runnable_task, timeVars, waitVars, famVars, StackStep
  <1> QED
    BY <1>1, <1>2, <1>7, <1>9, <1>10, <1>11, StepKeepsInv
    DEF find_runnable_task, At, Running, timeVars, waitVars, RunInv, ChainsOfZombies

\* switch_to_task: whatever task_next is, it is a task.
LEMMA SwitchKeeps ==
  ASSUME RunInv, switch_to_task
  PROVE  IndInv'
PROOF
  <1>1. node[0] = "runnable"
    BY KernelTaskReady DEF switch_to_task, At
  <1>2. ListTypes /\ Linked /\ OtherTypes /\ IsInjective(task_alarm_list)
    BY DEF RunInv
  <1>3. Top.next \in Task
    <2>1. kstack[task_curr] \in Seq(FrameSet) /\ kstack[task_curr] # <<>>
      BY <1>2 DEF OtherTypes, switch_to_task, At, UserMode
    <2>2. Top \in FrameSet
      BY <2>1, HeadTailProperties DEF Top
    <2> QED
      BY <2>2 DEF FrameSet
  <1>4. ListStep
    BY <1>2, StepUnlisted DEF switch_to_task
  <1>5. StackStep
    BY <1>2, StackReturn, FrameIsFrame DEF OtherTypes, Frames, switch_to_task, At
  <1>6. OtherTypes'
    BY <1>2, <1>3, <1>5
    DEF OtherTypes, switch_to_task, SwitchedTo, timeVars, waitVars, famVars, StackStep
  <1> QED
    BY <1>1, <1>2, <1>4, <1>5, <1>6, StepKeepsInv
    DEF switch_to_task, At, Running, timeVars, waitVars, RunInv, ChainsOfZombies

\* do_exit: the current task becomes a zombie about to notify its parent, or
\* the kernel panics.
LEMMA DoExitKeeps ==
  ASSUME RunInv, Running, node[0] = "runnable", do_exit
  PROVE  IndInv'
PROOF
  <1> DEFINE c == task_curr
             al == RemoveFirst(task_alarm_list, c)
             k == <<Frame("notify")>>
  <1>1. ListTypes /\ Linked /\ OtherTypes /\ IsInjective(task_alarm_list) /\ c \in Task
    BY DEF RunInv, OtherTypes
  <1>2. al \in Seq(Task) /\ IsInjective(al)
    BY <1>1, RemoveFirstList DEF OtherTypes
  <1>3. /\ task_alarm_list' = al /\ kstack' = [kstack EXCEPT ![c] = k] /\ intr' = FALSE
    BY DEF do_exit
  <1>4. k \in Seq(FrameSet) /\ Len(k) = 1
    BY FrameIsFrame DEF Frames
  <1>5. Relinked(PushBack(Without, "zombie", c), c, "zombie")
    BY <1>1, DetachUnlinks, PushBackLinks DEF Without, Linked, Lists
  <1>6. /\ Fits("zombie", "zombie") /\ "zombie" \in Lists /\ "zombie" \in States
    BY DEF Fits, Lists, States
  <1> HIDE DEF al, k
  <1>7. CASE /\ UNCHANGED listVars
             /\ panic' \in {"exit task 1", "remove_from_runnable_list"}
    <2>1. ListTypes'
      BY <1>1, <1>7 DEF ListTypes, listVars
    <2>2. OtherTypes'
      BY <1>1, <1>2, <1>3, <1>4, <1>7
      DEF OtherTypes, Panics, do_exit, waitVars, famVars
    <2> QED
      BY <2>1, <2>2, <1>7, RunInvSuffices DEF Running
  <1>8. CASE InRunnable /\ c # 1
    <2>1. /\ list' = PushBack(Without, "zombie", c) /\ panic' = panic
          /\ node' = [node EXCEPT ![c] = "zombie"]
          /\ tstate' = [tstate EXCEPT ![c] = "zombie"]
      BY <1>8 DEF do_exit, remove_from_runnable_list
    <2>2. ListTypes' /\ Linked'
      BY <1>1, <1>5, <1>6, <2>1, RelinkKeepsLinked
    <2>3. ASSUME NEW x \in Task
          PROVE  /\ tstate'[x] = IF x = c THEN "zombie" ELSE tstate[x]
                 /\ node'[x] = IF x = c THEN "zombie" ELSE node[x]
      BY <2>1, <1>1 DEF ListTypes
    <2>4. OtherTypes'
      BY <1>1, <1>2, <1>3, <1>4, <2>1
      DEF OtherTypes, Panics, do_exit, waitVars, famVars
    <2>5. ChainsOfZombies'
      <3>1. wait_notify_next' = wait_notify_next
        BY DEF do_exit, waitVars
      <3>2. ASSUME NEW t \in Task, wait_notify_next[t] # None
            PROVE  tstate'[wait_notify_next[t]] = "zombie"
        <4>1. wait_notify_next[t] \in Task /\ tstate[wait_notify_next[t]] = "zombie"
          BY <3>2, <1>1 DEF OtherTypes, RunInv, ChainsOfZombies
        <4> QED
          BY <4>1, <2>3
      <3> QED
        BY <3>1, <3>2 DEF ChainsOfZombies
    <2>6. UnbornUnlinked'
      <3>1. next_task_id' = next_task_id
        BY DEF do_exit, famVars
      <3>2. \A t \in Task \ Exists : t # c
        BY <1>8 DEF RunInv, UnbornUnlinked, InRunnable
      <3> QED
        BY <3>1, <3>2, <2>3 DEF RunInv, UnbornUnlinked, Exists
    <2>7. ExitingAreZombies'
      <3> SUFFICES ASSUME NEW t \in Task, NEW i \in 1..Len(kstack'[t]),
                          kstack'[t][i].pc = "notify"
                   PROVE  tstate'[t] = "zombie"
        BY DEF ExitingAreZombies
      <3>1. CASE t = c
        BY <3>1, <2>3
      <3>2. CASE t # c
        <4>1. kstack'[t] = kstack[t]
          BY <3>2, <1>3, <1>1 DEF OtherTypes
        <4> QED
          BY <4>1, <2>3 DEF RunInv, ExitingAreZombies
      <3> QED
        BY <3>1, <3>2
    <2>8. KernelTaskRunnable'
      <3>1. parent' = parent /\ task_curr' = task_curr
        BY DEF do_exit, famVars
      <3>2. 0 \in Task
        BY SchedAssumption DEF Task
      <3>3. CASE c = 0
        <4>1. kstack'[0] = <<Frame("notify")>>
          BY <3>2, <3>3, <1>1, <1>3 DEF OtherTypes, k
        <4> QED
          BY <3>1, <3>3, <4>1, <1>3 DEF RunInv, KernelTaskRunnable, Frame
      <3>4. CASE c # 0
        BY <3>1, <3>2, <3>4, <2>3 DEF RunInv, KernelTaskRunnable
      <3> QED
        BY <3>3, <3>4
    <2>9. IsInjective(task_alarm_list')
      BY <1>2, <1>3
    <2>10. RunInv'
      BY <2>2, <2>4, <2>5, <2>6, <2>7, <2>8, <2>9 DEF RunInv
    <2> QED
      BY <2>1, <2>10, RunInvSuffices DEF Running
  <1> QED
    BY <1>7, <1>8 DEF do_exit, remove_from_runnable_list

\* check_signals: no effective signal, a stop signal (a panic), or an exit.
LEMMA CheckSignalsKeeps ==
  ASSUME RunInv, check_signals
  PROVE  IndInv'
PROOF
  <1>1. node[0] = "runnable" /\ Running
    BY KernelTaskReady DEF check_signals, At
  <1>2. ListTypes /\ Linked /\ OtherTypes /\ IsInjective(task_alarm_list)
    BY DEF RunInv
  <1>3. CASE Effective(task_curr) = {}
    <2>1. /\ Return /\ intr' = (n_cli[task_curr] = 0)
          /\ UNCHANGED <<task_curr, listVars, counter, timeVars, sig, waitVars,
                         famVars, lock_val, n_cli, panic, window>>
      BY <1>3 DEF check_signals
    <2>2. ListStep
      BY <1>2, <2>1, StepUnlisted
    <2>3. StackStep
      BY <1>2, <2>1, StackReturn DEF OtherTypes, check_signals, At
    <2>4. OtherTypes'
      BY <1>2, <2>1, <2>3 DEF OtherTypes, timeVars, waitVars, famVars, StackStep
    <2> QED
      BY <1>1, <1>2, <2>1, <2>2, <2>3, <2>4, StepKeepsInv
      DEF Running, timeVars, waitVars, RunInv, ChainsOfZombies
  <1>4. CASE /\ tstate' = [tstate EXCEPT ![task_curr] = "stopped"]
             /\ panic' = "stopped"
             /\ UNCHANGED <<task_curr, node, list, kstack, counter, timeVars, sig,
                            waitVars, famVars, lock_val, n_cli, intr, window>>
    <2>1. ListTypes'
      BY <1>2, <1>4 DEF ListTypes, OtherTypes, States
    <2>2. OtherTypes'
      BY <1>2, <1>4 DEF OtherTypes, Panics, timeVars, waitVars, famVars
    <2> QED
      BY <2>1, <2>2, <1>4, RunInvSuffices DEF Running
  <1>5. CASE do_exit
    BY <1>1, <1>5, DoExitKeeps
  <1> QED
    BY <1>3, <1>4, <1>5 DEF check_signals

\* notify_parent: the exiting task is a zombie, so its parent's chain gets one
\* more zombie; the kernel task has no parent and panics.
LEMMA NotifyParentKeeps ==
  ASSUME RunInv, notify_parent
  PROVE  IndInv'
PROOF
  <1> DEFINE c == task_curr
             p == parent[c]
             k == schedule(<<Frame("exit_ret")>>)
  <1>1. ListTypes /\ Linked /\ OtherTypes /\ IsInjective(task_alarm_list) /\ c \in Task
    BY DEF RunInv, OtherTypes
  <1>2. k \in Seq(PlainFrames)
    BY ScheduleFrames DEF Frames
  <1>3. kstack' = [kstack EXCEPT ![c] = k] /\ intr' = (n_cli[c] = 0)
    BY DEF notify_parent
  <1> HIDE DEF k
  <1>4. k \in Seq(FrameSet) /\ \A i \in 1..Len(k) : k[i].pc # "notify"
    <2>1. PlainFrames \subseteq FrameSet
      BY DEF PlainFrames
    <2>2. \A i \in 1..Len(k) : k[i] \in PlainFrames
      BY <1>2
    <2> QED
      BY <1>2, <2>1, <2>2 DEF PlainFrames
  <1>5. StackStep
    BY <1>1, <1>3, <1>4 DEF StackStep, OtherTypes
  <1>6. CASE p = None
    <2>1. panic' = "no parent" /\ UNCHANGED <<listVars, sig, wait_notify_next>>
      BY <1>6 DEF notify_parent
    <2>2. ListTypes'
      BY <1>1, <2>1 DEF ListTypes, listVars
    <2>3. OtherTypes'
      BY <1>1, <1>3, <1>5, <2>1
      DEF OtherTypes, Panics, notify_parent, timeVars, famVars, StackStep
    <2> QED
      BY <2>1, <2>2, <2>3, RunInvSuffices DEF Running
  <1>7. CASE p # None
    <2>1. p \in Task
      BY <1>1, <1>7 DEF OtherTypes
    <2>2. node[0] = "runnable"
      BY <1>7, KernelTaskReady DEF RunInv, KernelTaskRunnable
    <2>3. /\ send_signal(SIGCHLD, p)
          /\ wait_notify_next' = IF waiting_child[p] THEN NotifyChain(c, p)
                                                     ELSE wait_notify_next
      BY <1>7 DEF notify_parent
    <2>4. SIGCHLD \in 1..31
      BY DEF SIGCHLD
    <2>5. /\ ListStep /\ sig' \in [Task -> SUBSET (1..31)]
          /\ panic' = panic \/ panic' = "send_signal"
      BY <1>1, <2>1, <2>3, <2>4, StepSignals DEF OtherTypes
    <2>6. tstate[c] = "zombie"
      <3>1. kstack[c] \in Seq(FrameSet) /\ kstack[c] # <<>>
        BY <1>1 DEF OtherTypes, notify_parent, At, UserMode
      <3>2. 1 \in 1..Len(kstack[c]) /\ kstack[c][1] = Head(kstack[c])
        BY <3>1
      <3>3. kstack[c][1].pc = "notify"
        BY <3>2 DEF notify_parent, At, Top
      <3> QED
        BY <3>2, <3>3, <1>1 DEF RunInv, ExitingAreZombies
    <2>7. wait_notify_next' \in [Task -> Task \cup {None}]
      BY <1>1, <2>1, <2>3 DEF OtherTypes, NotifyChain
    <2>8. ASSUME NEW t \in Task, wait_notify_next'[t] # None
          PROVE  tstate[wait_notify_next'[t]] = "zombie"
      <3>1. \/ wait_notify_next'[t] = c
            \/ wait_notify_next'[t] = wait_notify_next[t]
            \/ wait_notify_next'[t] = wait_notify_next[p]
        BY <1>1, <2>1, <2>3 DEF OtherTypes, NotifyChain
      <3> QED
        BY <3>1, <2>1, <2>6, <2>8 DEF RunInv, ChainsOfZombies
    <2>9. OtherTypes'
      BY <1>1, <1>3, <1>5, <2>5, <2>7
      DEF OtherTypes, Panics, notify_parent, timeVars, famVars, StackStep
    <2>10. panic' # "runq_empty"
      BY <2>5 DEF notify_parent, At, Running
    <2> QED
      BY <1>1, <1>5, <2>2, <2>5, <2>8, <2>9, <2>10, StepKeepsInv
      DEF notify_parent, timeVars
  <1> QED
    BY <1>6, <1>7

\* The returns that only touch the stack and a flag: exit_ret, lock_ret and
\* trap_ret
LEMMA ReturnsKeep ==
  ASSUME RunInv, exit_ret \/ lock_ret \/ trap_ret
  PROVE  IndInv'
PROOF
  <1>1. ~UserMode /\ Running /\ Top.pc # "notify"
    BY DEF exit_ret, lock_ret, trap_ret, At
  <1>2. node[0] = "runnable"
    BY <1>1, KernelTaskReady
  <1>3. ListTypes /\ Linked /\ OtherTypes /\ IsInjective(task_alarm_list)
    BY DEF RunInv
  <1>4. ListStep
    BY <1>3, StepUnlisted DEF exit_ret, lock_ret, trap_ret
  <1>5. Frame("locked") \in PlainFrames
    BY FrameIsFrame DEF Frames
  <1>6. StackStep
    BY <1>1, <1>3, <1>5, StackReturn, StackSame
    DEF OtherTypes, exit_ret, lock_ret, trap_ret
  <1>7. /\ n_cli' \in [Task -> Int] /\ intr' \in BOOLEAN
        /\ panic' \in {panic, "do_exit return", "inode_lock", "n_cli"}
    <2>1. CASE exit_ret
      BY <1>3, <2>1 DEF OtherTypes, exit_ret
    <2>2. CASE trap_ret
      BY <1>3, <2>2 DEF OtherTypes, trap_ret
    <2>3. CASE lock_ret
      <3>1. n_cli' \in [Task -> Int]
        BY <1>3, <2>3 DEF OtherTypes, lock_ret
      <3>2. intr' \in BOOLEAN
        BY <2>3 DEF lock_ret
      <3>3. panic' \in {panic, "inode_lock"}
        BY <2>3 DEF lock_ret
      <3> QED
        BY <3>1, <3>2, <3>3
    <2> QED
      BY <2>1, <2>2, <2>3
  <1>8. UNCHANGED <<task_curr, counter, timeVars, sig, waitVars, famVars, lock_val,
                    window>>
    BY DEF exit_ret, lock_ret, trap_ret
  <1>9. OtherTypes'
    BY <1>3, <1>6, <1>7, <1>8
    DEF OtherTypes, Panics, timeVars, waitVars, famVars, StackStep
  <1> QED
    BY <1>1, <1>2, <1>3, <1>4, <1>6, <1>7, <1>8, <1>9, StepKeepsInv
    DEF Running, timeVars, waitVars, RunInv, ChainsOfZombies

\* sys_wait takes the first task off its chain; the rest of the chain is the
\* chain of that task.
LEMMA WaitRetKeeps ==
  ASSUME RunInv, wait_ret
  PROVE  IndInv'
PROOF
  <1> DEFINE c == task_curr
             t == wait_notify_next[c]
  <1>1. ~UserMode /\ Running /\ Top.pc # "notify"
    BY DEF wait_ret, At
  <1>2. node[0] = "runnable"
    BY <1>1, KernelTaskReady
  <1>3. ListTypes /\ Linked /\ OtherTypes /\ IsInjective(task_alarm_list) /\ c \in Task
    BY DEF RunInv, OtherTypes
  <1>4. /\ UNCHANGED <<task_curr, listVars, counter, timeVars, sig, famVars,
                       lock_val, n_cli, intr, window>>
        /\ waiting_child' = [waiting_child EXCEPT ![c] = FALSE]
    BY DEF wait_ret
  <1>5. ListStep
    BY <1>3, <1>4, StepUnlisted
  <1>6. CASE t = None
    <2>1. panic' = "wait" /\ UNCHANGED <<wait_notify_next, kstack>>
      BY <1>6 DEF wait_ret
    <2>2. StackStep
      BY <1>3, <2>1, StackSame DEF OtherTypes
    <2>3. OtherTypes'
      BY <1>3, <1>4, <2>1 DEF OtherTypes, Panics, timeVars, famVars
    <2> QED
      BY <1>2, <1>3, <1>4, <1>5, <2>1, <2>2, <2>3, StepKeepsInv
      DEF timeVars, RunInv, ChainsOfZombies
  <1>7. CASE t # None
    <2>1. /\ wait_notify_next' = [wait_notify_next EXCEPT ![c] = wait_notify_next[t]]
          /\ Return /\ panic' = panic
      BY <1>7 DEF wait_ret
    <2>2. StackStep
      BY <1>1, <1>3, <2>1, StackReturn DEF OtherTypes
    <2>3. t \in Task
      BY <1>3, <1>7 DEF OtherTypes
    <2> HIDE DEF t
    <2>4. wait_notify_next' \in [Task -> Task \cup {None}]
      BY <1>3, <2>1, <2>3 DEF OtherTypes
    <2>5. OtherTypes'
      BY <1>3, <1>4, <2>1, <2>2, <2>4 DEF OtherTypes, timeVars, famVars, StackStep
    <2>6. ASSUME NEW x \in Task, wait_notify_next'[x] # None
          PROVE  tstate[wait_notify_next'[x]] = "zombie"
      <3>1. \/ wait_notify_next'[x] = wait_notify_next[x]
            \/ wait_notify_next'[x] = wait_notify_next[t]
        BY <1>3, <2>1 DEF OtherTypes
      <3> QED
        BY <3>1, <2>3, <2>6 DEF RunInv, ChainsOfZombies
    <2> QED
      BY <1>1, <1>2, <1>3, <1>4, <1>5, <2>1, <2>2, <2>5, <2>6, StepKeepsInv
      DEF timeVars, Running
  <1> QED
    BY <1>6, <1>7

\* inode_unlock hands the lock to the first waiter or frees it.
LEMMA InodeUnlockKeeps ==
  ASSUME RunInv, inode_unlock
  PROVE  IndInv'
PROOF
  <1>1. ~UserMode /\ Running /\ Top.pc # "notify"
    BY DEF inode_unlock, At
  <1>2. node[0] = "runnable"
    BY <1>1, KernelTaskReady
  <1>3. ListTypes /\ Linked /\ OtherTypes /\ IsInjective(task_alarm_list)
    BY DEF RunInv
  <1>4. /\ UNCHANGED <<task_curr, counter, timeVars, sig, waitVars, famVars, n_cli,
                       intr, window>>
        /\ Return /\ lock_val' \in 0..1
        /\ panic' \in {panic, "inode_unlock"}
    BY <1>3 DEF inode_unlock, OtherTypes
  <1>5. ListStep
    <2>1. CASE UNCHANGED listVars
      BY <2>1, <1>3, StepUnlisted
    <2>2. CASE list["lock"] # <<>> /\ add_to_runnable_list(Head(list["lock"]))
      BY <2>2, <1>3, HeadOfList, StepWakes DEF Lists
    <2> QED
      BY <2>1, <2>2 DEF inode_unlock
  <1>6. StackStep
    BY <1>1, <1>3, <1>4, StackReturn DEF OtherTypes
  <1>7. OtherTypes'
    BY <1>3, <1>4, <1>6 DEF OtherTypes, Panics, timeVars, waitVars, famVars, StackStep
  <1> QED
    BY <1>1, <1>2, <1>3, <1>4, <1>5, <1>6, <1>7, StepKeepsInv
    DEF Running, timeVars, waitVars, RunInv, ChainsOfZombies

\* System calls that block the caller: the lists it leaves behind are ls.
LEMMA BlockKeeps ==
  ASSUME RunInv, Running, task_curr # 0,
         NEW l \in Lists \cup {"free"}, NEW st \in States, Fits(st, l),
         NEW ls, Relinked(ls, task_curr, l), remove_from_runnable_list(st, l, ls),
         NEW fs \in Seq(PlainFrames), Push(fs),
         sleep' \in [Task -> Nat], waiting_child' \in [Task -> BOOLEAN],
         n_cli' \in [Task -> Int], intr' \in BOOLEAN,
         UNCHANGED <<task_curr, counter, jiffies, alarm, task_alarm_list, sig,
                     wait_notify_next, famVars, lock_val, window>>
  PROVE  IndInv'
PROOF
  <1>1. node[0] = "runnable"
    BY KernelTaskReady
  <1>2. ListTypes /\ Linked /\ OtherTypes /\ IsInjective(task_alarm_list)
    BY DEF RunInv
  <1>3. ListStep /\ (panic' = panic \/ panic' = "remove_from_runnable_list")
    BY <1>2, StepBlocks DEF OtherTypes
  <1>4. StackStep
    BY <1>2, StackPush DEF OtherTypes
  <1>5. OtherTypes'
    BY <1>2, <1>3, <1>4 DEF OtherTypes, Panics, famVars, StackStep
  <1> QED
    BY <1>1, <1>2, <1>3, <1>4, <1>5, StepKeepsInv
    DEF Running, RunInv, ChainsOfZombies

\* The places a blocking system call moves the current task to
LEMMA BlockTargets ==
  ASSUME RunInv
  PROVE  /\ Relinked(Without, task_curr, "free")
         /\ \A l \in Lists : Relinked(PushBack(Without, l, task_curr), task_curr, l)
         /\ \A s : Relinked([Without EXCEPT !["sleep"] =
                               InsertAt(@, InsertPos(@, sleep, s), task_curr)],
                            task_curr, "sleep")
PROOF
  <1>1. task_curr \in Task /\ ListTypes /\ NodesMatchLists
    BY DEF RunInv, OtherTypes, Linked
  <1>2. Relinked(Without, task_curr, "free")
    BY <1>1, DetachUnlinks DEF Without
  <1>3. ASSUME NEW l \in Lists
        PROVE  Relinked(PushBack(Without, l, task_curr), task_curr, l)
    BY <1>1, <1>2, PushBackLinks
  <1>4. ASSUME NEW s
        PROVE  Relinked([Without EXCEPT !["sleep"] =
                           InsertAt(@, InsertPos(@, sleep, s), task_curr)],
                        task_curr, "sleep")
    <2> DEFINE w == Without["sleep"]
               i == InsertPos(w, sleep, s)
    <2>0. "sleep" \in Lists /\ "sleep" # "free"
      BY DEF Lists
    <2>1. w \in Seq(Task) /\ IsInjective(w) /\ ~Contains(w, task_curr)
      BY <1>1, <1>2, <2>0 DEF Relinked
    <2>2. i \in 1..(Len(w) + 1)
      BY <2>1, InsertPosRange
    <2> HIDE DEF w, i
    <2> DEFINE r == InsertAt(w, i, task_curr)
    <2>3. /\ r \in Seq(Task) /\ IsInjective(r)
          /\ \A x : Contains(r, x) <=> Contains(w, x) \/ x = task_curr
      BY <1>1, <2>1, <2>2, InsertAtList
    <2> HIDE DEF r
    <2>4. Relinked([Without EXCEPT !["sleep"] = r], task_curr, "sleep")
      BY <1>1, <1>2, <2>0, <2>3, LinkInto DEF w
    <2> QED
      BY <2>4, <1>2, <2>0 DEF Relinked, r, w, i
  <1> QED
    BY <1>2, <1>3, <1>4

\* The clock in seconds is a natural number.
LEMMA NowIsNat ==
  ASSUME OtherTypes
  PROVE  now \in Nat
PROOF
  <1>1. jiffies \in Nat /\ HZ \in Nat /\ HZ > 0
    BY SchedAssumption DEF OtherTypes
  <1>2. ASSUME NEW a \in Nat, NEW b \in Nat, b > 0 PROVE a \div b \in Nat
    BY <1>2
  <1> QED
    BY <1>1, <1>2 DEF now

\* The four system calls that wait for something other than a lock
LEMMA BlockingCallsKeep ==
  ASSUME RunInv, \/ sys_pause \/ sys_cgetc \/ sys_wait
                 \/ \E s \in Seconds \ {0} : sys_sleep(s)
  PROVE  IndInv'
PROOF
  <1>1. OtherTypes
    BY DEF RunInv
  <1>2. schedule(<<>>) \in Seq(PlainFrames)
        /\ schedule(<<Frame("wait_ret")>>) \in Seq(PlainFrames)
    BY ScheduleFrames DEF Frames
  <1>3. /\ Fits("interruptible", "free") /\ Fits("interruptible", "input")
        /\ Fits("interruptible", "sleep") /\ "interruptible" \in States
        /\ "input" \in Lists /\ "sleep" \in Lists
    BY DEF Fits, States, Lists
  <1>4. CASE sys_pause
    BY <1>1, <1>2, <1>3, <1>4, BlockTargets, BlockKeeps
    DEF sys_pause, Syscall, OtherTypes, timeVars, waitVars
  <1>5. CASE sys_cgetc
    BY <1>1, <1>2, <1>3, <1>5, BlockTargets, BlockKeeps
    DEF sys_cgetc, Syscall, OtherTypes, timeVars, waitVars
  <1>6. CASE sys_wait
    <2>1. waiting_child' \in [Task -> BOOLEAN]
      BY <1>1, <1>6 DEF sys_wait, OtherTypes
    <2> QED
      BY <2>1, <1>1, <1>2, <1>3, <1>6, BlockTargets, BlockKeeps
      DEF sys_wait, Syscall, OtherTypes, timeVars
  <1>7. ASSUME NEW s \in Seconds \ {0}, sys_sleep(s) PROVE IndInv'
    <2>1. now + s \in Nat
      BY <1>1, NowIsNat, SchedAssumption
    <2>2. sleep' \in [Task -> Nat]
      BY <1>1, <1>7, <2>1 DEF sys_sleep, OtherTypes
    <2>3. \E ls : /\ Relinked(ls, task_curr, "sleep")
                  /\ remove_from_runnable_list("interruptible", "sleep", ls)
      BY <1>7, BlockTargets DEF sys_sleep
    <2> QED
      BY <2>2, <2>3, <1>1, <1>2, <1>3, <1>7, BlockKeeps
      DEF sys_sleep, Syscall, OtherTypes, waitVars
  <1> QED
    BY <1>4, <1>5, <1>6, <1>7

\* inode_lock takes the lock or waits for it.
LEMMA InodeLockKeeps ==
  ASSUME RunInv, inode_lock
  PROVE  IndInv'
PROOF
  <1>1. ListTypes /\ Linked /\ OtherTypes /\ IsInjective(task_alarm_list)
    BY DEF RunInv
  <1>2. /\ <<Frame("locked")>> \in Seq(PlainFrames)
        /\ schedule(<<Frame("lock_ret")>>) \in Seq(PlainFrames)
    BY ScheduleFrames DEF Frames
  <1>3. Running /\ task_curr # 0
    BY DEF inode_lock, Syscall
  <1>4. CASE LockFree
    <2>1. /\ lock_val' = lock_val - 1 /\ Push(<<Frame("locked")>>)
          /\ UNCHANGED <<listVars, n_cli, intr, panic>>
          /\ UNCHANGED <<task_curr, counter, timeVars, sig, waitVars, famVars, window>>
      BY <1>4 DEF inode_lock
    <2>2. node[0] = "runnable"
      BY <1>3, KernelTaskReady
    <2>3. ListStep
      BY <1>1, <2>1, StepUnlisted
    <2>4. StackStep
      BY <1>1, <1>2, <2>1, StackPush DEF OtherTypes
    <2>5. lock_val' \in 0..1
      BY <1>1, <1>4, <2>1 DEF OtherTypes, LockFree
    <2>6. OtherTypes'
      BY <1>1, <2>1, <2>4, <2>5
      DEF OtherTypes, timeVars, waitVars, famVars, StackStep
    <2> QED
      BY <1>1, <1>3, <2>1, <2>2, <2>3, <2>4, <2>6, StepKeepsInv
      DEF Running, timeVars, waitVars, RunInv, ChainsOfZombies
  <1>5. CASE ~LockFree
    <2>1. /\ remove_from_runnable_list("uninterruptible", "lock",
                                       PushBack(Without, "lock", task_curr))
          /\ n_cli' = [n_cli EXCEPT ![task_curr] = @ + 1] /\ intr' = FALSE
          /\ Push(schedule(<<Frame("lock_ret")>>)) /\ UNCHANGED lock_val
          /\ UNCHANGED <<task_curr, counter, timeVars, sig, waitVars, famVars, window>>
      BY <1>5 DEF inode_lock
    <2>2. n_cli' \in [Task -> Int]
      BY <1>1, <2>1 DEF OtherTypes
    <2>3. /\ Fits("uninterruptible", "lock") /\ "uninterruptible" \in States
          /\ "lock" \in Lists
      BY DEF Fits, States, Lists
    <2> QED
      BY <1>1, <1>2, <1>3, <2>1, <2>2, <2>3, BlockTargets, BlockKeeps
      DEF OtherTypes, timeVars, waitVars
  <1> QED
    BY <1>4, <1>5

\* sys_yield calls schedule and does nothing else.
LEMMA YieldKeeps ==
  ASSUME RunInv, sys_yield
  PROVE  IndInv'
PROOF
  <1>1. ListTypes /\ Linked /\ OtherTypes /\ IsInjective(task_alarm_list)
    BY DEF RunInv
  <1>2. schedule(<<>>) \in Seq(PlainFrames)
    BY ScheduleFrames DEF Frames
  <1>3. node[0] = "runnable"
    BY KernelTaskReady DEF sys_yield, Syscall
  <1>4. ListStep
    BY <1>1, StepUnlisted DEF sys_yield
  <1>5. StackStep
    BY <1>1, <1>2, StackPush DEF OtherTypes, sys_yield
  <1>6. OtherTypes'
    BY <1>1, <1>5 DEF sys_yield, OtherTypes, timeVars, waitVars, famVars, StackStep
  <1> QED
    BY <1>1, <1>3, <1>4, <1>5, <1>6, StepKeepsInv
    DEF sys_yield, Syscall, Running, timeVars, waitVars, RunInv, ChainsOfZombies

\* sys_alarm relinks the caller's node in task_alarm_list.
LEMMA AlarmKeeps ==
  ASSUME RunInv, NEW s \in Seconds, sys_alarm(s)
  PROVE  IndInv'
PROOF
  <1> DEFINE c == task_curr
             rest == RemoveFirst(task_alarm_list, c)
             i == InsertPos(rest, alarm, s)
             r == InsertAt(rest, i, c)
  <1>1. /\ ListTypes /\ Linked /\ OtherTypes /\ IsInjective(task_alarm_list)
        /\ c \in Task /\ task_alarm_list \in Seq(Task)
    BY DEF RunInv, OtherTypes
  <1>2. rest \in Seq(Task) /\ IsInjective(rest) /\ ~Contains(rest, c)
    BY <1>1, RemoveFirstList
  <1>3. i \in 1..(Len(rest) + 1)
    BY <1>2, InsertPosRange
  <1>4. r \in Seq(Task) /\ IsInjective(r)
    <2> HIDE DEF i, rest
    <2> QED
      BY <1>1, <1>2, <1>3, InsertAtList
  <1>5. /\ task_alarm_list' = rest \/ task_alarm_list' = r
        /\ panic' = panic \/ panic' = "alarm insert"
        /\ alarm' = alarm \/ alarm' = [alarm EXCEPT ![c] = now + s]
    BY DEF sys_alarm
  <1> HIDE DEF rest, r
  <1>6. task_alarm_list' \in Seq(Task) /\ IsInjective(task_alarm_list')
    BY <1>2, <1>4, <1>5
  <1>7. now + s \in Nat
    BY <1>1, NowIsNat, SchedAssumption
  <1>8. alarm' \in [Task -> Nat]
    BY <1>1, <1>5, <1>7 DEF OtherTypes
  <1>9. UNCHANGED <<task_curr, listVars, kstack, counter, jiffies, sleep, sig,
                    waitVars, famVars, lock_val, n_cli, intr, window>>
    BY DEF sys_alarm
  <1>10. OtherTypes'
    BY <1>1, <1>5, <1>6, <1>8, <1>9 DEF OtherTypes, Panics, waitVars, famVars
  <1>11. node[0] = "runnable"
    BY KernelTaskReady DEF sys_alarm, Syscall
  <1>12. ListStep /\ StackStep
    BY <1>1, <1>9, StepUnlisted, StackSame DEF OtherTypes
  <1> QED
    BY <1>5, <1>6, <1>9, <1>10, <1>11, <1>12, StepKeepsInv
    DEF sys_alarm, Syscall, Running, waitVars, RunInv, ChainsOfZombies

\* sys_kill signals a task that exists.
LEMMA KillKeeps ==
  ASSUME RunInv, NEW t \in Task, NEW s \in Signals, sys_kill(t, s)
  PROVE  IndInv'
PROOF
  <1>1. ListTypes /\ Linked /\ OtherTypes /\ IsInjective(task_alarm_list)
    BY DEF RunInv
  <1>2. node[0] = "runnable"
    BY KernelTaskReady DEF sys_kill, Syscall
  <1>3. s \in 1..31
    BY SchedAssumption
  <1>4. /\ ListStep /\ sig' \in [Task -> SUBSET (1..31)]
        /\ panic' = panic \/ panic' = "send_signal"
    BY <1>1, <1>3, StepSignals DEF OtherTypes, sys_kill
  <1>5. StackStep
    BY <1>1, StackSame DEF OtherTypes, sys_kill
  <1>6. OtherTypes'
    BY <1>1, <1>4 DEF sys_kill, OtherTypes, Panics, timeVars, waitVars, famVars
  <1> QED
    BY <1>1, <1>2, <1>4, <1>5, <1>6, StepKeepsInv
    DEF sys_kill, Syscall, Running, timeVars, waitVars, RunInv, ChainsOfZombies

\* sys_fork links a task that was in no list.
LEMMA ForkKeeps ==
  ASSUME RunInv, sys_fork
  PROVE  IndInv'
PROOF
  <1> DEFINE c == next_task_id
  <1>1. ListTypes /\ Linked /\ OtherTypes /\ IsInjective(task_alarm_list)
    BY DEF RunInv
  <1>2. c \in Task /\ c >= 2 /\ c + 1 \in 2..MaxTasks /\ 0 \in Task /\ c \notin Exists
    BY <1>1, SchedAssumption DEF OtherTypes, sys_fork, Task, Exists
  <1>3. tstate[c] = "not_runnable" /\ node[c] = "free"
    BY <1>2 DEF RunInv, UnbornUnlinked
  <1>4. /\ list' = PushBack(list, "runnable", c)
        /\ node' = [node EXCEPT ![c] = "runnable"]
        /\ tstate' = [tstate EXCEPT ![c] = "running"]
        /\ parent' = [parent EXCEPT ![c] = task_curr]
        /\ sleep' = [sleep EXCEPT ![c] = sleep[task_curr]]
        /\ next_task_id' = c + 1
        /\ UNCHANGED <<task_curr, kstack, counter, jiffies, alarm, task_alarm_list,
                       sig, waitVars, lock_val, n_cli, intr, panic, window>>
    BY DEF sys_fork
  <1> HIDE DEF c
  <1>5. Relinked(list', c, "runnable")
    <2>1. list = Detach(list, c)
      BY <1>3 DEF Detach
    <2>2. Relinked(list, c, "free")
      BY <1>1, <1>2, <2>1, DetachUnlinks DEF Linked
    <2> QED
      BY <1>2, <1>4, <2>2, PushBackLinks DEF Lists
  <1>6. Fits("running", "runnable") /\ "runnable" \in Lists /\ "running" \in States
    BY DEF Fits, Lists, States
  <1>7. ListTypes' /\ Linked'
    BY <1>1, <1>2, <1>4, <1>5, <1>6, RelinkKeepsLinked
  <1>8. OtherTypes'
    BY <1>1, <1>2, <1>4 DEF OtherTypes, waitVars
  <1>9. ASSUME NEW x \in Task
        PROVE  /\ tstate'[x] = IF x = c THEN "running" ELSE tstate[x]
               /\ node'[x] = IF x = c THEN "runnable" ELSE node[x]
    BY <1>1, <1>4 DEF ListTypes
  <1>10. ChainsOfZombies'
    <2> SUFFICES ASSUME NEW t \in Task, wait_notify_next[t] # None
                 PROVE  tstate'[wait_notify_next[t]] = "zombie"
      BY <1>4 DEF ChainsOfZombies, waitVars
    <2>1. wait_notify_next[t] \in Task /\ tstate[wait_notify_next[t]] = "zombie"
      BY <1>1 DEF OtherTypes, RunInv, ChainsOfZombies
    <2> QED
      BY <2>1, <1>3, <1>9
  <1>11. UnbornUnlinked'
    <2>1. ASSUME NEW t \in Task \ Exists' PROVE t \in Task \ Exists /\ t # c
      BY <1>1, <1>4 DEF Exists, OtherTypes, Task, c
    <2> QED
      BY <2>1, <1>9 DEF RunInv, UnbornUnlinked
  <1>12. ExitingAreZombies'
    BY <1>3, <1>4, <1>9 DEF RunInv, ExitingAreZombies
  <1>13. KernelTaskRunnable'
    <2>1. node[0] = "runnable"
      BY KernelTaskReady DEF sys_fork, Syscall
    <2>2. parent'[0] = None
      BY <1>1, <1>2, <1>4 DEF RunInv, KernelTaskRunnable, OtherTypes
    <2> QED
      BY <1>2, <1>9, <2>1, <2>2 DEF KernelTaskRunnable
  <1>14. RunInv'
    BY <1>1, <1>4, <1>7, <1>8, <1>10, <1>11, <1>12, <1>13 DEF RunInv
  <1>15. panic' # "runq_empty"
    BY <1>4 DEF sys_fork, Syscall, Running
  <1> QED
    BY <1>14, <1>15, RunInvSuffices

\* do_timer interrupts whatever runs; the frames it pushes are plain.
LEMMA TimerKeeps ==
  ASSUME RunInv, do_timer
  PROVE  IndInv'
PROOF
  <1>1. ListTypes /\ Linked /\ OtherTypes /\ IsInjective(task_alarm_list)
    BY DEF RunInv
  <1>2. node[0] = "runnable"
    BY KernelTaskReady DEF do_timer, IrqEnabled
  <1>3. ListStep
    BY <1>1, StepUnlisted DEF do_timer
  <1>4. schedule(<<Frame("trap_ret")>>) \in Seq(PlainFrames)
    BY ScheduleFrames DEF Frames
  <1>5. StackStep
    BY <1>1, <1>4, StackPush, StackSame DEF OtherTypes, do_timer
  <1>6. jiffies' \in 0..MaxJiffies
    BY <1>1, SchedAssumption DEF OtherTypes, do_timer
  <1>7. counter' \in [Task -> Int]
    BY <1>1 DEF OtherTypes, do_timer
  <1>8. panic' \in {panic, "n_cli"}
    BY DEF do_timer
  <1>9. UNCHANGED <<task_curr, sleep, alarm, task_alarm_list, sig, waitVars, famVars,
                    lock_val, n_cli, intr>>
    BY DEF do_timer
  <1>10. window' \in {"clear", "hit", "stale"}
    BY <1>1 DEF OtherTypes, do_timer, ScheduledOver
  <1>11. OtherTypes'
    BY <1>1, <1>5, <1>6, <1>7, <1>8, <1>9, <1>10
    DEF OtherTypes, Panics, waitVars, famVars, StackStep
  <1> QED
    BY <1>1, <1>2, <1>3, <1>5, <1>8, <1>9, <1>11, StepKeepsInv
    DEF do_timer, IrqEnabled, Running, waitVars, RunInv, ChainsOfZombies

\* do_irq_keyboard wakes the first task that waits for input.
LEMMA KeyboardKeeps ==
  ASSUME RunInv, do_irq_keyboard
  PROVE  IndInv'
PROOF
  <1>1. ListTypes /\ Linked /\ OtherTypes /\ IsInjective(task_alarm_list)
    BY DEF RunInv
  <1>2. node[0] = "runnable"
    BY KernelTaskReady DEF do_irq_keyboard, IrqEnabled
  <1>3. ListStep
    BY <1>1, HeadOfList, StepWakes DEF do_irq_keyboard, Lists
  <1>4. StackStep
    BY <1>1, StackSame DEF OtherTypes, do_irq_keyboard
  <1>5. panic' \in {panic, "n_cli"}
    BY DEF do_irq_keyboard
  <1>6. UNCHANGED <<task_curr, kstack, counter, timeVars, sig, waitVars, famVars,
                    lock_val, n_cli, intr, window>>
    BY DEF do_irq_keyboard
  <1>7. OtherTypes'
    BY <1>1, <1>5, <1>6 DEF OtherTypes, Panics, timeVars, waitVars, famVars
  <1> QED
    BY <1>1, <1>2, <1>3, <1>4, <1>5, <1>6, <1>7, StepKeepsInv
    DEF do_irq_keyboard, IrqEnabled, Running, timeVars, waitVars, RunInv,
        ChainsOfZombies

-----------------------------------------------------------------------------
(* The theorems.                                                           *)

\* start_kernel leaves the invariant true.
LEMMA InitInv == Init => IndInv
PROOF
  <1> SUFFICES ASSUME Init PROVE IndInv
    OBVIOUS
  <1>1. 0 \in Task /\ 1 \in Task /\ <<0, 1>> \in Seq(Task) /\ <<>> \in Seq(Task)
    BY SchedAssumption DEF Task
  <1>2. ListTypes
    BY <1>1 DEF Init, ListTypes, States, Lists
  <1>3. OtherTypes
    BY <1>1, SchedAssumption DEF Init, OtherTypes, None
  <1>4. TypeOK
    BY <1>2, <1>3 DEF TypeOK, ListTypes, OtherTypes, FrameSet
  <1>5. NodesMatchLists
    <2>1. ASSUME NEW l \in Lists, l # "runnable"
          PROVE  list[l] = <<>>
      BY <2>1 DEF Init
    <2>2. list["runnable"] = <<0, 1>>
      BY DEF Init, Lists
    <2>3. /\ IsInjective(<<0, 1>>) /\ IsInjective(<<>>)
          /\ \A t : ~Contains(<<>>, t)
      BY DEF IsInjective, Contains
    <2>4. \A t \in Task : Contains(<<0, 1>>, t) <=> t < 2
      <3>1. Len(<<0, 1>>) = 2 /\ <<0, 1>>[1] = 0 /\ <<0, 1>>[2] = 1
        OBVIOUS
      <3> QED
        BY <3>1 DEF Contains, Task
    <2>5. \A t \in Task : node[t] = IF t < 2 THEN "runnable" ELSE "free"
      BY DEF Init
    <2>6. ASSUME NEW l \in Lists
          PROVE  /\ IsInjective(list[l])
                 /\ \A t \in Task : Contains(list[l], t) <=> node[t] = l
      <3>1. CASE l = "runnable"
        BY <3>1, <2>2, <2>3, <2>4, <2>5
      <3>2. CASE l # "runnable"
        BY <3>2, <2>1, <2>3, <2>5 DEF Lists
      <3> QED
        BY <3>1, <3>2
    <2> QED
      BY <2>6 DEF NodesMatchLists
  <1>6. \A t \in Task : StateMatchesNode(t)
    BY DEF Init, StateMatchesNode
  <1>7. IsInjective(task_alarm_list)
    BY DEF Init, IsInjective
  <1>8. NotifiedAreZombies /\ RunqNeverEmpty
    BY DEF Init, NotifiedAreZombies, RunqNeverEmpty
  <1>9. UnbornUnlinked /\ KernelTaskRunnable
    BY <1>1 DEF Init, UnbornUnlinked, KernelTaskRunnable, Exists, Task
  <1>10. ExitingAreZombies
    BY DEF Init, ExitingAreZombies
  <1> QED
    BY <1>4, <1>5, <1>6, <1>7, <1>8, <1>9, <1>10 DEF IndInv, ListInv

\* Every step of every task and every interrupt keeps the invariant.
LEMMA NextInv == IndInv /\ [Next]_vars => IndInv'
PROOF
  <1> SUFFICES ASSUME IndInv, [Next]_vars PROVE IndInv'
    OBVIOUS
  <1>1. CASE UNCHANGED vars
    <2>1. TypeOK'
      BY <1>1 DEF vars, IndInv, TypeOK
    <2>2. ListInv'
      BY <1>1 DEF vars, IndInv, ListInv, NodesMatchLists, StateMatchesNode, Running
    <2>3. NotifiedAreZombies' /\ RunqNeverEmpty'
      BY <1>1 DEF vars, IndInv, NotifiedAreZombies, RunqNeverEmpty, Running
    <2>4. Running' => UnbornUnlinked' /\ ExitingAreZombies' /\ KernelTaskRunnable'
      BY <1>1 DEF vars, IndInv, UnbornUnlinked, ExitingAreZombies,
                  KernelTaskRunnable, Running, Exists
    <2> QED
      BY <2>1, <2>2, <2>3, <2>4 DEF IndInv
  <1>2. CASE Kernel
    <2>1. RunInv
      BY <1>2, RunInvHolds
      DEF Kernel, check_alarm, check_sleep_list, find_runnable_task, switch_to_task,
          check_signals, notify_parent, exit_ret, wait_ret, lock_ret, inode_unlock,
          trap_ret, At
    <2> QED
      BY <1>2, <2>1, CheckAlarmKeeps, CheckSleepKeeps, FindRunnableKeeps, SwitchKeeps,
         CheckSignalsKeeps, NotifyParentKeeps, ReturnsKeep, WaitRetKeeps,
         InodeUnlockKeeps
      DEF Kernel
  <1>3. CASE User
    <2>1. Running /\ task_curr # 0
      BY <1>3 DEF User, sys_yield, sys_pause, sys_cgetc, sys_fork, sys_exit, sys_wait,
                  inode_lock, sys_sleep, sys_alarm, sys_kill, Syscall
    <2>2. RunInv
      BY <2>1, RunInvHolds
    <2>3. CASE sys_exit
      BY <2>1, <2>2, <2>3, KernelTaskReady, DoExitKeeps DEF sys_exit
    <2> QED
      BY <1>3, <2>2, <2>3, YieldKeeps, BlockingCallsKeep, ForkKeeps, InodeLockKeeps,
         AlarmKeeps, KillKeeps
      DEF User
  <1>4. CASE do_timer \/ do_irq_keyboard
    <2>1. RunInv
      BY <1>4, RunInvHolds DEF do_timer, do_irq_keyboard, IrqEnabled
    <2> QED
      BY <1>4, <2>1, TimerKeeps, KeyboardKeeps
  <1>5. CASE Halt
    BY <1>1, <1>5 DEF Halt
  <1> QED
    BY <1>1, <1>2, <1>3, <1>4, <1>5 DEF Next

\* The inductive invariant holds in every state the kernel reaches, for any
\* number of tasks and any interleaving of ticks, key presses and calls.
THEOREM InvariantHolds == Spec => []IndInv
PROOF
  <1> QED
    BY InitInv, NextInv, PTL DEF Spec

\* Every variable keeps the type its declaration gives it.
THEOREM TypeCorrect == Spec => []TypeOK
PROOF
  <1>1. IndInv => TypeOK
    BY DEF IndInv
  <1> QED
    BY <1>1, InvariantHolds, PTL

\* The lists of sched.cpp hold every task exactly where its node and its state
\* say, whatever wake-ups, signals, exits and nested ticks interleave.
THEOREM ListsConsistent == Spec => []ListInv
PROOF
  <1>1. IndInv => ListInv
    BY DEF IndInv
  <1> QED
    BY <1>1, InvariantHolds, PTL

\* The PANIC of schedule() for an empty runnable queue is unreachable.
THEOREM RunqueueNonEmpty == Spec => []RunqNeverEmpty
PROOF
  <1>1. IndInv => RunqNeverEmpty
    BY DEF IndInv
  <1> QED
    BY <1>1, InvariantHolds, PTL

\* sys_wait reports only tasks that have exited.
THEOREM WaitReportsTheDead == Spec => []NotifiedAreZombies
PROOF
  <1>1. IndInv => NotifiedAreZombies
    BY DEF IndInv
  <1> QED
    BY <1>1, InvariantHolds, PTL

\* A kernel that has panicked takes no further step.
LEMMA HaltsForGood ==
  ASSUME Next, ~Running
  PROVE  UNCHANGED vars
BY DEF Next, Kernel, User, Halt, check_alarm, check_sleep_list, find_runnable_task,
       switch_to_task, check_signals, notify_parent, exit_ret, wait_ret, lock_ret,
       inode_unlock, trap_ret, At, sys_yield, sys_pause, sys_cgetc, sys_fork,
       sys_exit, sys_wait, inode_lock, sys_sleep, sys_alarm, sys_kill, Syscall,
       do_timer, do_irq_keyboard, IrqEnabled

\* A step leaves every zombie a zombie, or halts the kernel.
ZombieStep == \A t \in Task : tstate[t] = "zombie" /\ Running' => tstate'[t] = "zombie"

\* A task that is woken, blocked or created is none of the zombies.
LEMMA ZombiesLeftAlone ==
  ASSUME ListTypes
  PROVE  /\ UNCHANGED tstate => ZombieStep
         /\ \A t \in Task : tstate[t] # "zombie" /\ add_to_runnable_list(t)
              => ZombieStep
         /\ \A st, l, ls : remove_from_runnable_list(st, l, ls) => ZombieStep
         /\ \A s, t : t \in Task /\ send_signal(s, t) => ZombieStep
         /\ do_exit => ZombieStep
PROOF
  <1>1. UNCHANGED tstate => ZombieStep
    BY DEF ZombieStep
  <1>2. ASSUME NEW t \in Task, tstate[t] # "zombie", add_to_runnable_list(t)
        PROVE  ZombieStep
    BY <1>2 DEF ZombieStep, add_to_runnable_list, ListTypes
  <1>3. ASSUME NEW st, NEW l, NEW ls, remove_from_runnable_list(st, l, ls)
        PROVE  ZombieStep
    BY <1>3 DEF ZombieStep, remove_from_runnable_list, InRunnable, ListTypes, listVars
  <1>4. ASSUME NEW s, NEW t \in Task, send_signal(s, t)
        PROVE  ZombieStep
    <2>1. CASE Wakes(s, t) /\ add_to_runnable_list(t)
      BY <2>1, <1>2 DEF Wakes
    <2>2. CASE UNCHANGED listVars
      BY <2>2, <1>1 DEF listVars
    <2> QED
      BY <1>4, <2>1, <2>2 DEF send_signal
  <1>5. do_exit => ZombieStep
    BY <1>1, <1>3 DEF do_exit, listVars
  <1> QED
    BY <1>1, <1>2, <1>3, <1>4, <1>5

\* Once do_exit has put a task on task_zombie_list, no wake-up, signal, lock
\* hand-over or fork makes it anything else while the kernel runs.
THEOREM ZombiesStayDead == Spec => ZombieStaysZombie
PROOF
  <1>1. ASSUME IndInv, Next PROVE ZombieStep
    <2>1. CASE ~Running
      BY <2>1, <1>1, HaltsForGood DEF ZombieStep, vars
    <2>2. CASE Running
      <3>1. RunInv
        BY <1>1, <2>2, RunInvHolds
      <3>2. ListTypes /\ OtherTypes /\ task_curr \in Task
        BY <3>1 DEF RunInv, OtherTypes
      <3>3. CASE Kernel
        <4>1. CASE check_alarm
          <5>1. AlarmDue => Head(task_alarm_list) \in Task
            BY <3>1, TailList DEF RunInv, OtherTypes, AlarmDue
          <5> QED
            BY <3>2, <4>1, <5>1, ZombiesLeftAlone DEF check_alarm, listVars
        <4>2. CASE check_sleep_list
          BY <3>1, <3>2, <4>2, HeadOfList, ZombiesLeftAlone
          DEF check_sleep_list, SleeperDue, Lists, listVars
        <4>3. CASE check_signals
          <5>1. CASE panic' = "stopped"
            BY <5>1 DEF ZombieStep, Running
          <5> QED
            BY <3>2, <4>3, <5>1, ZombiesLeftAlone DEF check_signals, listVars
        <4>4. CASE notify_parent
          BY <3>2, <4>4, ZombiesLeftAlone DEF notify_parent, OtherTypes, listVars
        <4>5. CASE inode_unlock
          BY <3>1, <3>2, <4>5, HeadOfList, ZombiesLeftAlone
          DEF inode_unlock, Lists, listVars
        <4>6. CASE \/ find_runnable_task \/ switch_to_task \/ exit_ret \/ wait_ret
                   \/ lock_ret \/ trap_ret
          BY <3>2, <4>6, ZombiesLeftAlone
          DEF find_runnable_task, switch_to_task, exit_ret, wait_ret, lock_ret,
              trap_ret, listVars
        <4> QED
          BY <3>3, <4>1, <4>2, <4>3, <4>4, <4>5, <4>6 DEF Kernel
      <3>4. CASE User
        <4>1. CASE sys_pause \/ sys_cgetc \/ sys_wait \/ inode_lock
          BY <3>2, <4>1, ZombiesLeftAlone
          DEF sys_pause, sys_cgetc, sys_wait, inode_lock, listVars
        <4>2. CASE sys_exit
          BY <3>2, <4>2, ZombiesLeftAlone DEF sys_exit
        <4>3. CASE sys_fork
          <5>1. next_task_id \in Task \ Exists
            BY <3>2, <4>3, SchedAssumption DEF OtherTypes, sys_fork, Task, Exists
          <5>2. tstate[next_task_id] = "not_runnable"
            BY <3>1, <5>1 DEF RunInv, UnbornUnlinked
          <5> QED
            BY <3>2, <4>3, <5>1, <5>2 DEF sys_fork, ZombieStep, ListTypes
        <4>4. ASSUME NEW s, sys_sleep(s) \/ sys_alarm(s) PROVE ZombieStep
          BY <3>2, <4>4, ZombiesLeftAlone DEF sys_sleep, sys_alarm, listVars
        <4>5. ASSUME NEW t \in Task, NEW s, sys_kill(t, s) PROVE ZombieStep
          BY <3>2, <4>5, ZombiesLeftAlone DEF sys_kill
        <4>6. CASE sys_yield
          BY <3>2, <4>6, ZombiesLeftAlone DEF sys_yield, listVars
        <4> QED
          BY <3>4, <4>1, <4>2, <4>3, <4>4, <4>5, <4>6 DEF User
      <3>5. CASE do_timer
        BY <3>2, <3>5, ZombiesLeftAlone DEF do_timer, listVars
      <3>6. CASE do_irq_keyboard
        BY <3>1, <3>2, <3>6, HeadOfList, ZombiesLeftAlone DEF do_irq_keyboard, Lists
      <3> QED
        BY <1>1, <2>2, <3>3, <3>4, <3>5, <3>6 DEF Next, Halt
    <2> QED
      BY <2>1, <2>2
  <1>2. IndInv /\ [Next]_vars =>
          [\A t \in Task : tstate[t] = "zombie" /\ Running' => tstate'[t] = "zombie"]_vars
    BY <1>1 DEF ZombieStep
  <1> QED
    BY <1>2, InvariantHolds, PTL DEF Spec, ZombieStaysZombie

-----------------------------------------------------------------------------
(* The lock and the processor, when no tick lands in the window of         *)
(* schedule(): ProcInv, inductive together with IndInv.                    *)

\* The frames that a step pushes when it neither locks nor chooses a task
CalmFrames == {f \in FrameSet : f.pc \notin {"locked", "lock_ret", "switch"}}

\* A stack whose oldest frame alone may belong to inode_lock
LastOnly(s) == \A i \in 1 .. (Len(s) - 1) : s[i].pc \notin {"locked", "lock_ret"}

\* Frames pushed on a stack add only themselves.
LEMMA InConcat ==
  ASSUME NEW fs \in Seq(FrameSet), NEW s \in Seq(FrameSet), NEW P,
         InStack(fs \o s, P)
  PROVE  InStack(fs, P) \/ InStack(s, P)
PROOF
  <1> DEFINE r == fs \o s
  <1>1. /\ r \in Seq(FrameSet) /\ Len(r) = Len(fs) + Len(s)
        /\ \A i \in 1..(Len(fs) + Len(s)) :
             r[i] = IF i <= Len(fs) THEN fs[i] ELSE s[i - Len(fs)]
    BY ConcatProperties
  <1>2. InStack(r, P)
    OBVIOUS
  <1> HIDE DEF r
  <1>3. PICK i \in 1..Len(r) : r[i].pc \in P
    BY <1>2 DEF InStack
  <1>4. Len(fs) \in Nat /\ Len(s) \in Nat
    OBVIOUS
  <1>5. CASE i <= Len(fs)
    BY <1>5, <1>1, <1>3, <1>4 DEF InStack
  <1>6. CASE ~(i <= Len(fs))
    <2>1. i - Len(fs) \in 1..Len(s) /\ r[i] = s[i - Len(fs)]
      BY <1>6, <1>1, <1>3, <1>4
    <2> QED
      BY <2>1, <1>3 DEF InStack
  <1> QED
    BY <1>5, <1>6

\* and a stack without its top frame has no new frame.
LEMMA InTail ==
  ASSUME NEW s \in Seq(FrameSet), s # <<>>, NEW P, InStack(Tail(s), P)
  PROVE  InStack(s, P)
PROOF
  <1> DEFINE r == Tail(s)
  <1>1. /\ r \in Seq(FrameSet) /\ Len(r) = Len(s) - 1 /\ Len(s) \in Nat
        /\ \A i \in 1..Len(r) : r[i] = s[i + 1]
    BY HeadTailProperties
  <1>2. InStack(r, P)
    OBVIOUS
  <1> HIDE DEF r
  <1>3. PICK i \in 1..Len(r) : r[i].pc \in P
    BY <1>2 DEF InStack
  <1>4. i + 1 \in 1..Len(s) /\ s[i + 1].pc \in P
    BY <1>1, <1>3
  <1> QED
    BY <1>4 DEF InStack

\* The frames of a stack are its top frame and those below it.
LEMMA InTopOrTail ==
  ASSUME NEW s \in Seq(FrameSet), s # <<>>, NEW P
  PROVE  InStack(s, P) <=> Head(s).pc \in P \/ InStack(Tail(s), P)
PROOF
  <1>1. /\ Len(Tail(s)) = Len(s) - 1 /\ Len(s) \in Nat /\ Len(s) >= 1
        /\ Head(s) = s[1] /\ \A i \in 1..Len(Tail(s)) : Tail(s)[i] = s[i + 1]
    BY HeadTailProperties
  <1>2. ASSUME NEW i \in 1..Len(s), s[i].pc \in P
        PROVE  Head(s).pc \in P \/ InStack(Tail(s), P)
    <2>1. CASE i = 1
      BY <2>1, <1>1, <1>2
    <2>2. CASE i # 1
      <3>1. i - 1 \in 1..Len(Tail(s)) /\ Tail(s)[i - 1] = s[i]
        BY <2>2, <1>1
      <3> QED
        BY <3>1, <1>2 DEF InStack
    <2> QED
      BY <2>1, <2>2
  <1>3. Head(s).pc \in P => InStack(s, P)
    BY <1>1 DEF InStack
  <1> QED
    BY <1>2, <1>3, InTail DEF InStack

\* Calm frames are none of those that ProcInv is about.
LEMMA CalmStack ==
  ASSUME NEW fs \in Seq(CalmFrames)
  PROVE  /\ fs \in Seq(FrameSet) /\ LastOnly(fs)
         /\ ~InStack(fs, {"locked"}) /\ ~InStack(fs, {"lock_ret"})
         /\ ~InStack(fs, {"switch"})
PROOF
  <1>1. Len(fs) \in Nat /\ CalmFrames \subseteq FrameSet
    BY DEF CalmFrames
  <1>2. \A i \in 1..Len(fs) : fs[i] \in CalmFrames
    OBVIOUS
  <1>3. fs \in Seq(FrameSet)
    BY <1>1, <1>2
  <1>4. \A i \in 1..Len(fs) : fs[i].pc \notin {"locked", "lock_ret", "switch"}
    BY <1>2 DEF CalmFrames
  <1> QED
    BY <1>1, <1>3, <1>4 DEF LastOnly, InStack

\* Other frames on top of a stack leave the frame of inode_lock where it is.
LEMMA LastOnlyConcat ==
  ASSUME NEW fs \in Seq(FrameSet), NEW s \in Seq(FrameSet), LastOnly(s),
         ~InStack(fs, {"locked"}), ~InStack(fs, {"lock_ret"})
  PROVE  LastOnly(fs \o s)
PROOF
  <1> DEFINE r == fs \o s
  <1>1. /\ r \in Seq(FrameSet) /\ Len(r) = Len(fs) + Len(s)
        /\ \A i \in 1..(Len(fs) + Len(s)) :
             r[i] = IF i <= Len(fs) THEN fs[i] ELSE s[i - Len(fs)]
    BY ConcatProperties
  <1> HIDE DEF r
  <1>2. Len(fs) \in Nat /\ Len(s) \in Nat
    OBVIOUS
  <1>3. \A i \in 1..Len(fs) : fs[i].pc \notin {"locked", "lock_ret"}
    BY DEF InStack
  <1>4. ASSUME NEW i \in 1 .. (Len(r) - 1)
        PROVE  r[i].pc \notin {"locked", "lock_ret"}
    <2>1. CASE i <= Len(fs)
      <3>1. r[i] = fs[i] /\ i \in 1..Len(fs)
        BY <2>1, <1>1, <1>2
      <3> QED
        BY <3>1, <1>3
    <2>2. CASE ~(i <= Len(fs))
      <3>1. r[i] = s[i - Len(fs)] /\ i - Len(fs) \in 1 .. (Len(s) - 1)
        BY <2>2, <1>1, <1>2
      <3> QED
        BY <3>1 DEF LastOnly
    <2> QED
      BY <2>1, <2>2
  <1> QED
    BY <1>4 DEF LastOnly, r

\* So does a return;
LEMMA LastOnlyTail ==
  ASSUME NEW s \in Seq(FrameSet), s # <<>>, LastOnly(s)
  PROVE  /\ Tail(s) \in Seq(FrameSet) /\ LastOnly(Tail(s))
         /\ Head(s).pc \in {"locked", "lock_ret"} => Tail(s) = <<>>
PROOF
  <1>1. /\ Tail(s) \in Seq(FrameSet) /\ Len(Tail(s)) = Len(s) - 1
        /\ Len(s) \in Nat /\ Len(s) >= 1 /\ Head(s) = s[1]
        /\ \A i \in 1..Len(Tail(s)) : Tail(s)[i] = s[i + 1]
    BY HeadTailProperties
  <1>2. ASSUME NEW i \in 1 .. (Len(Tail(s)) - 1)
        PROVE  Tail(s)[i].pc \notin {"locked", "lock_ret"}
    <2>1. i + 1 \in 1 .. (Len(s) - 1) /\ Tail(s)[i] = s[i + 1]
      BY <1>1
    <2> QED
      BY <2>1 DEF LastOnly
  <1>3. ASSUME Head(s).pc \in {"locked", "lock_ret"} PROVE Tail(s) = <<>>
    <2>1. 1 \notin 1 .. (Len(s) - 1)
      BY <1>1, <1>3 DEF LastOnly
    <2>2. Len(Tail(s)) = 0
      BY <1>1, <2>1
    <2> QED
      BY <1>1, <2>2, EmptySeq
  <1> QED
    BY <1>1, <1>2, <1>3 DEF LastOnly

\* What ProcInv says while the kernel runs
\* and no switch is stale.  The window stays clear only if it was.
Fresh == window' = "clear" => SwitchFresh
RunProc ==
  Fresh /\ BlockedInSchedule /\ LockFramesLast /\ WaitersSleep /\ LockHeldOnce

\* No stack gains a frame of inode_lock,
LockCalm ==
  /\ kstack' \in [Task -> Seq(FrameSet)]
  /\ \A t \in Task :
       /\ LastOnly(kstack'[t])
       /\ InStack(kstack'[t], {"locked"}) => InStack(kstack[t], {"locked"})
       /\ InStack(kstack'[t], {"lock_ret"}) => InStack(kstack[t], {"lock_ret"})

\* and with a clear window nobody is about to switch.
StackCalm ==
  /\ LockCalm
  /\ window' = "clear" => \A t \in Task : ~InStack(kstack'[t], {"switch"})

\* Nobody starts to wait for the lock, and no waiter is woken.
StateCalm ==
  \A t \in Task :
    /\ InStack(kstack'[t], {"lock_ret"}) => tstate'[t] = tstate[t]
    /\ tstate'[t] = "uninterruptible" => tstate[t] = "uninterruptible"

\* The current task is not about to switch.
NotSwitching == UserMode \/ Top.pc # "switch"

\* A change of the current task's stack alone
LEMMA CalmOne ==
  ASSUME kstack \in [Task -> Seq(FrameSet)], task_curr \in Task, Fresh,
         LockFramesLast, NEW s \in Seq(FrameSet),
         kstack' = [kstack EXCEPT ![task_curr] = s],
         LastOnly(s), window' = "clear" => ~InStack(s, {"switch"}),
         InStack(s, {"locked"}) => InStack(kstack[task_curr], {"locked"}),
         InStack(s, {"lock_ret"}) => InStack(kstack[task_curr], {"lock_ret"})
  PROVE  StackCalm
PROOF
  <1>1. kstack' \in [Task -> Seq(FrameSet)]
    OBVIOUS
  <1>2. ASSUME NEW t \in Task, t # task_curr
        PROVE  /\ kstack'[t] = kstack[t] /\ LastOnly(kstack[t])
               /\ window' = "clear" => ~InStack(kstack[t], {"switch"})
    BY <1>2 DEF Fresh, SwitchFresh, LockFramesLast, LastOnly
  <1>3. kstack'[task_curr] = s
    OBVIOUS
  <1>4. ASSUME NEW t \in Task
        PROVE  /\ LastOnly(kstack'[t])
               /\ InStack(kstack'[t], {"locked"}) => InStack(kstack[t], {"locked"})
               /\ InStack(kstack'[t], {"lock_ret"}) => InStack(kstack[t], {"lock_ret"})
               /\ window' = "clear" => ~InStack(kstack'[t], {"switch"})
    <2>1. CASE t = task_curr
      BY <2>1, <1>3
    <2>2. CASE t # task_curr
      BY <2>2, <1>2
    <2> QED
      BY <2>1, <2>2
  <1> QED
    BY <1>1, <1>4 DEF StackCalm, LockCalm

\* Outside of a switch no frame of the current task is one.
LEMMA NoSwitchFrame ==
  ASSUME kstack \in [Task -> Seq(FrameSet)], task_curr \in Task, SwitchFresh,
         NotSwitching
  PROVE  ~InStack(kstack[task_curr], {"switch"})
PROOF
  <1>1. CASE UserMode
    <2>1. Len(kstack[task_curr]) = 0
      BY <1>1, EmptySeq DEF UserMode
    <2> QED
      BY <2>1 DEF InStack
  <1>2. CASE ~UserMode
    BY <1>2, InTopOrTail DEF UserMode, Top, NotSwitching, SwitchFresh
  <1> QED
    BY <1>1, <1>2

\* Calls and interrupts that push calm frames,
LEMMA CalmPush ==
  ASSUME kstack \in [Task -> Seq(FrameSet)], task_curr \in Task, Fresh,
         LockFramesLast, window' = "clear" => NotSwitching,
         NEW fs \in Seq(CalmFrames), Push(fs)
  PROVE  StackCalm
PROOF
  <1> DEFINE k == kstack[task_curr]
             s == fs \o k
  <1>1. /\ k \in Seq(FrameSet) /\ LastOnly(k)
        /\ window' = "clear" => ~InStack(k, {"switch"})
    BY NoSwitchFrame DEF LockFramesLast, LastOnly, Fresh
  <1>2. kstack' = [kstack EXCEPT ![task_curr] = s]
    BY DEF Push
  <1>3. fs \in Seq(FrameSet)
    BY CalmStack
  <1>4. s \in Seq(FrameSet)
    BY <1>1, <1>3, ConcatProperties
  <1>5. LastOnly(s)
    BY <1>1, <1>3, CalmStack, LastOnlyConcat
  <1>6. window' = "clear" => ~InStack(s, {"switch"})
    BY <1>1, <1>3, InConcat, CalmStack
  <1>7. InStack(s, {"locked"}) => InStack(k, {"locked"})
    BY <1>1, <1>3, InConcat, CalmStack
  <1>8. InStack(s, {"lock_ret"}) => InStack(k, {"lock_ret"})
    BY <1>1, <1>3, InConcat, CalmStack
  <1> HIDE DEF s
  <1> QED
    BY <1>2, <1>4, <1>5, <1>6, <1>7, <1>8, CalmOne

\* returns and jumps to a calm frame,
LEMMA CalmReturn ==
  ASSUME kstack \in [Task -> Seq(FrameSet)], task_curr \in Task, Fresh,
         LockFramesLast, ~UserMode
  PROVE  /\ Return => StackCalm
         /\ \A f \in CalmFrames : Goto(f) => StackCalm
PROOF
  <1> DEFINE k == kstack[task_curr]
             r == Tail(k)
  <1>1. k \in Seq(FrameSet) /\ k # <<>> /\ LastOnly(k)
    BY DEF LockFramesLast, LastOnly, UserMode
  <1>2. r \in Seq(FrameSet) /\ LastOnly(r)
    BY <1>1, LastOnlyTail
  <1>3. window' = "clear" => ~InStack(r, {"switch"})
    BY DEF Fresh, SwitchFresh
  <1>4. /\ InStack(r, {"locked"}) => InStack(k, {"locked"})
        /\ InStack(r, {"lock_ret"}) => InStack(k, {"lock_ret"})
    BY <1>1, InTail
  <1>5. Return => kstack' = [kstack EXCEPT ![task_curr] = r]
    BY DEF Return
  <1>6. \A f : Goto(f) => kstack' = [kstack EXCEPT ![task_curr] = <<f>> \o r]
    BY DEF Goto
  <1> HIDE DEF r
  <1>7. Return => StackCalm
    BY <1>2, <1>3, <1>4, <1>5, CalmOne
  <1>8. ASSUME NEW f \in CalmFrames, Goto(f) PROVE StackCalm
    <2> DEFINE fs == <<f>>
               s == fs \o r
    <2>0. kstack' = [kstack EXCEPT ![task_curr] = s]
      BY <1>6, <1>8
    <2>1. fs \in Seq(CalmFrames)
      OBVIOUS
    <2> HIDE DEF fs
    <2>2. fs \in Seq(FrameSet)
      BY <2>1, CalmStack
    <2>3. s \in Seq(FrameSet)
      BY <1>2, <2>2, ConcatProperties
    <2>4. LastOnly(s)
      BY <1>2, <2>1, <2>2, CalmStack, LastOnlyConcat
    <2>5. window' = "clear" => ~InStack(s, {"switch"})
      BY <1>2, <1>3, <2>1, <2>2, InConcat, CalmStack
    <2>6. InStack(s, {"locked"}) => InStack(k, {"locked"})
      BY <1>2, <1>4, <2>1, <2>2, InConcat, CalmStack
    <2>7. InStack(s, {"lock_ret"}) => InStack(k, {"lock_ret"})
      BY <1>2, <1>4, <2>1, <2>2, InConcat, CalmStack
    <2> HIDE DEF s
    <2> QED
      BY <2>0, <2>3, <2>4, <2>5, <2>6, <2>7, CalmOne
  <1> QED
    BY <1>7, <1>8

\* a stack that is given up for calm frames, and a stack left alone.
LEMMA CalmOther ==
  ASSUME kstack \in [Task -> Seq(FrameSet)], task_curr \in Task, Fresh,
         LockFramesLast
  PROVE  /\ \A fs \in Seq(CalmFrames) :
              kstack' = [kstack EXCEPT ![task_curr] = fs] => StackCalm
         /\ (window' = "clear" => NotSwitching) /\ UNCHANGED kstack => StackCalm
PROOF
  <1>1. ASSUME NEW fs \in Seq(CalmFrames), kstack' = [kstack EXCEPT ![task_curr] = fs]
        PROVE  StackCalm
    BY <1>1, CalmStack, CalmOne
  <1>2. ASSUME window' = "clear" => NotSwitching, UNCHANGED kstack
        PROVE  StackCalm
    <2>1. window' = "clear" => \A t \in Task : ~InStack(kstack[t], {"switch"})
      BY <1>2, NoSwitchFrame DEF Fresh, SwitchFresh
    <2> QED
      BY <1>2, <2>1 DEF StackCalm, LockCalm, LockFramesLast, LastOnly
  <1> QED
    BY <1>1, <1>2

\* A step that adds no frame of inode_lock and wakes no waiter leaves the lock
\* to its holder.
LEMMA LockStep ==
  ASSUME RunProc, LockCalm, StateCalm, UNCHANGED lock_val
  PROVE  LockFramesLast' /\ WaitersSleep' /\ LockHeldOnce'
PROOF
  <1>2. LockFramesLast'
    BY DEF LockCalm, LockFramesLast, LastOnly
  <1>3. WaitersSleep'
    BY DEF LockCalm, StateCalm, WaitersSleep, RunProc
  <1>4. \A t \in Task : Holds(t)' => Holds(t)
    BY DEF LockCalm, StateCalm, Holds
  <1>5. LockHeldOnce'
    <2>1. \A t, u \in Task : Holds(t)' /\ Holds(u)' => t = u
      BY <1>4 DEF RunProc, LockHeldOnce
    <2>2. ASSUME lock_val' = 1, NEW t \in Task
          PROVE  ~Holds(t)' /\ tstate'[t] # "uninterruptible"
      BY <1>4, <2>2 DEF RunProc, LockHeldOnce, StateCalm
    <2> QED
      BY <2>1, <2>2 DEF LockHeldOnce
  <1> QED
    BY <1>2, <1>3, <1>5

\* A step after which nobody is about to switch
LEMMA FreshWithoutSwitch ==
  ASSUME kstack' \in [Task -> Seq(FrameSet)], task_curr' \in Task,
         \A t \in Task : ~InStack(kstack'[t], {"switch"})
  PROVE  SwitchFresh'
PROOF
  <1>1. ASSUME ~UserMode'
        PROVE  /\ ~InStack(Tail(kstack'[task_curr']), {"switch"})
               /\ Top'.pc # "switch"
    <2>1. kstack'[task_curr'] \in Seq(FrameSet) /\ kstack'[task_curr'] # <<>>
      BY <1>1 DEF UserMode
    <2>2. \/ Head(kstack'[task_curr']).pc \in {"switch"}
          \/ InStack(Tail(kstack'[task_curr']), {"switch"})
          => InStack(kstack'[task_curr'], {"switch"})
      BY <2>1, InTopOrTail
    <2> QED
      BY <2>2 DEF Top
  <1> QED
    BY <1>1 DEF SwitchFresh

\* A calm step keeps ProcInv.
LEMMA CalmStep ==
  ASSUME RunProc, StackCalm, StateCalm, UNCHANGED lock_val,
         task_curr' \in Task, BlockedInSchedule'
  PROVE  ProcInv'
PROOF
  <1>1. window' = "clear" => SwitchFresh'
    BY FreshWithoutSwitch DEF StackCalm, LockCalm
  <1> QED
    BY <1>1, LockStep DEF ProcInv, StackCalm

\* No waiter is woken by a step that leaves the states alone, wakes a task
\* from an interruptible sleep, sends a signal,
LEMMA CalmStates ==
  ASSUME ListTypes, LockCalm, WaitersSleep
  PROVE  /\ UNCHANGED tstate => StateCalm
         /\ \A t \in Task : tstate[t] = "interruptible" /\ add_to_runnable_list(t)
              => StateCalm
         /\ \A t \in Task : \A s : send_signal(s, t) => StateCalm
PROOF
  <1>1. UNCHANGED tstate => StateCalm
    BY DEF StateCalm
  <1>2. ASSUME NEW t \in Task, tstate[t] = "interruptible", add_to_runnable_list(t)
        PROVE  StateCalm
    <2>1. ~InStack(kstack[t], {"lock_ret"})
      BY <1>2 DEF WaitersSleep
    <2>2. \A u \in Task : tstate'[u] = IF u = t THEN "running" ELSE tstate[u]
      BY <1>2 DEF add_to_runnable_list, ListTypes
    <2> QED
      BY <2>1, <2>2 DEF StateCalm, LockCalm
  <1>3. ASSUME NEW t \in Task, NEW s, send_signal(s, t)
        PROVE  StateCalm
    <2>1. CASE Wakes(s, t) /\ add_to_runnable_list(t)
      BY <2>1, <1>2 DEF Wakes
    <2>2. CASE UNCHANGED listVars
      BY <2>2, <1>1 DEF listVars
    <2> QED
      BY <1>3, <2>1, <2>2 DEF send_signal
  <1> QED
    BY <1>1, <1>2, <1>3

\* or takes the current task off the runnable list outside of inode_lock.
LEMMA CalmBlock ==
  ASSUME ListTypes, task_curr \in Task, NEW st \in {"interruptible", "zombie"},
         NEW l, NEW ls, remove_from_runnable_list(st, l, ls),
         ~InStack(kstack'[task_curr], {"lock_ret"})
  PROVE  StateCalm
PROOF
  <1>1. CASE UNCHANGED tstate
    BY <1>1 DEF StateCalm
  <1>2. CASE tstate' = [tstate EXCEPT ![task_curr] = st]
    <2>1. \A u \in Task : tstate'[u] = IF u = task_curr THEN st ELSE tstate[u]
      BY <1>2 DEF ListTypes
    <2> QED
      BY <2>1 DEF StateCalm
  <1> QED
    BY <1>1, <1>2 DEF remove_from_runnable_list, listVars

\* A wake-up or a signal takes the processor from nobody.
LEMMA RunningStays ==
  ASSUME ListTypes, NEW c \in Task, tstate[c] = "running"
  PROVE  /\ UNCHANGED tstate => tstate'[c] = "running"
         /\ \A t \in Task : add_to_runnable_list(t) => tstate'[c] = "running"
         /\ \A t \in Task : \A s : send_signal(s, t) => tstate'[c] = "running"
PROOF
  <1>1. UNCHANGED tstate => tstate'[c] = "running"
    OBVIOUS
  <1>2. ASSUME NEW t \in Task, add_to_runnable_list(t) PROVE tstate'[c] = "running"
    BY <1>2 DEF add_to_runnable_list, ListTypes
  <1>3. ASSUME NEW t \in Task, NEW s, send_signal(s, t) PROVE tstate'[c] = "running"
    BY <1>1, <1>2, <1>3 DEF send_signal, listVars
  <1> QED
    BY <1>1, <1>2, <1>3

\* What a step puts on top of the current task's stack
LEMMA TopAfter ==
  ASSUME kstack \in [Task -> Seq(FrameSet)], task_curr \in Task, UNCHANGED task_curr
  PROVE  /\ \A f \in FrameSet : ~UserMode /\ Goto(f) => ~UserMode' /\ Top' = f
         /\ Push(schedule(<<>>)) => ~UserMode' /\ Top'.pc = "check_alarm"
         /\ \A pc \in Frames : Push(schedule(<<Frame(pc)>>))
              => ~UserMode' /\ Top'.pc = "check_alarm"
         /\ UNCHANGED kstack => UserMode' = UserMode /\ Top' = Top
PROOF
  <1> DEFINE k == kstack[task_curr]
  <1>0. k \in Seq(FrameSet)
    OBVIOUS
  <1>1. ASSUME NEW f \in FrameSet, NEW r \in Seq(FrameSet),
               kstack' = [kstack EXCEPT ![task_curr] = <<f>> \o r]
        PROVE  ~UserMode' /\ Top' = f
    <2> DEFINE g == <<f>>
               s == g \o r
    <2>1. g \in Seq(FrameSet) /\ Len(g) = 1 /\ g[1] = f
      OBVIOUS
    <2>2. kstack'[task_curr'] = s
      BY <1>1
    <2> HIDE DEF g
    <2>3. s \in Seq(FrameSet) /\ Len(s) = 1 + Len(r) /\ s[1] = g[1] /\ Len(r) \in Nat
      BY <2>1, ConcatProperties
    <2> HIDE DEF s
    <2>4. s # <<>>
      BY <2>3
    <2>5. Head(s) = f
      BY <2>1, <2>3, <2>4, HeadTailProperties
    <2> QED
      BY <2>2, <2>4, <2>5 DEF UserMode, Top
  <1>2. ASSUME NEW f \in FrameSet, ~UserMode, Goto(f) PROVE ~UserMode' /\ Top' = f
    <2>1. Tail(k) \in Seq(FrameSet)
      BY <1>0, <1>2, HeadTailProperties DEF UserMode
    <2> QED
      BY <1>1, <1>2, <2>1 DEF Goto
  <1>3. ASSUME NEW fs \in Seq(FrameSet), Push(<<Frame("check_alarm")>> \o fs)
        PROVE  ~UserMode' /\ Top'.pc = "check_alarm"
    <2> DEFINE f == Frame("check_alarm")
               g == <<f>>
    <2>1. f \in FrameSet /\ f.pc = "check_alarm"
      BY FrameIsFrame DEF Frames, Frame
    <2>2. kstack' = [kstack EXCEPT ![task_curr] = (<<f>> \o fs) \o k]
      BY <1>3 DEF Push
    <2> HIDE DEF f
    <2>3. (<<f>> \o fs) \o k = <<f>> \o (fs \o k) /\ fs \o k \in Seq(FrameSet)
      <3>1. <<f>> \in Seq(FrameSet)
        BY <2>1
      <3> QED
        BY <3>1, <1>0, ConcatAssociative, ConcatProperties
    <2> QED
      BY <1>1, <2>1, <2>2, <2>3
  <1>4. Push(schedule(<<>>)) => ~UserMode' /\ Top'.pc = "check_alarm"
    BY <1>3, EmptySeq DEF schedule
  <1>5. ASSUME NEW pc \in Frames, Push(schedule(<<Frame(pc)>>))
        PROVE  ~UserMode' /\ Top'.pc = "check_alarm"
    <2>1. Frame(pc) \in FrameSet
      BY FrameIsFrame
    <2>2. <<Frame(pc)>> \in Seq(FrameSet)
      BY <2>1
    <2> QED
      BY <1>3, <1>5, <2>2 DEF schedule
  <1>6. UNCHANGED kstack => UserMode' = UserMode /\ Top' = Top
    BY DEF UserMode, Top
  <1> QED
    BY <1>2, <1>4, <1>5, <1>6

\* The names of the frames that steps push
LEMMA CalmNames ==
  ASSUME NEW pc \in Frames \ {"locked", "lock_ret", "switch"}
  PROVE  /\ Frame(pc) \in CalmFrames /\ <<Frame(pc)>> \in Seq(CalmFrames)
         /\ schedule(<<>>) \in Seq(CalmFrames)
         /\ schedule(<<Frame(pc)>>) \in Seq(CalmFrames)
PROOF
  <1>1. Frame(pc) \in CalmFrames /\ Frame("check_alarm") \in CalmFrames
    BY FrameIsFrame DEF Frames, CalmFrames, Frame
  <1> DEFINE f == Frame(pc)
             g == Frame("check_alarm")
  <1> HIDE DEF f, g
  <1>2. f \in CalmFrames /\ g \in CalmFrames
    BY <1>1 DEF f, g
  <1>3. /\ <<f>> \in Seq(CalmFrames) /\ <<g>> \o <<>> \in Seq(CalmFrames)
        /\ <<g>> \o <<f>> \in Seq(CalmFrames)
    BY <1>2
  <1> QED
    BY <1>2, <1>3 DEF f, g, schedule

\* A current task behind its call of schedule() is runnable.
LEMMA BackFromSchedule ==
  ASSUME RunProc,
         UserMode \/ Top.pc \in {"signals", "wait_ret", "exit_ret", "lock_ret",
                                 "locked", "trap_ret"}
  PROVE  tstate[task_curr] = "running"
BY DEF RunProc, BlockedInSchedule

\* check_alarm
LEMMA CheckAlarmProc ==
  ASSUME RunInv, RunProc, check_alarm
  PROVE  ProcInv'
PROOF
  <1>1. ListTypes /\ OtherTypes /\ kstack \in [Task -> Seq(FrameSet)] /\ task_curr \in Task
    BY DEF RunInv, OtherTypes
  <1>2. ~UserMode /\ Top.pc = "check_alarm" /\ NotSwitching
    BY DEF check_alarm, At, NotSwitching
  <1>3. Fresh /\ LockFramesLast /\ WaitersSleep
    BY DEF RunProc
  <1>4. UNCHANGED <<task_curr, lock_val>>
    BY DEF check_alarm
  <1>5. CASE AlarmDue
    <2>1. Head(task_alarm_list) \in Task
      BY <1>5, TailList DEF RunInv, OtherTypes, AlarmDue
    <2>2. UNCHANGED kstack /\ send_signal(SIGALRM, Head(task_alarm_list))
      BY <1>5 DEF check_alarm
    <2>3. StackCalm
      BY <1>1, <1>2, <1>3, <2>2, CalmOther
    <2>4. StateCalm
      BY <1>1, <1>3, <2>1, <2>2, <2>3, CalmStates DEF StackCalm
    <2>5. BlockedInSchedule'
      BY <1>1, <1>2, <1>4, <2>2, TopAfter DEF BlockedInSchedule
    <2> QED
      BY <1>1, <1>4, <2>3, <2>4, <2>5, CalmStep
  <1>6. CASE ~AlarmDue
    <2>1. Goto(Frame("check_sleep")) /\ UNCHANGED tstate
      BY <1>6 DEF check_alarm, listVars
    <2>2. Frame("check_sleep") \in CalmFrames /\ Frame("check_sleep") \in FrameSet
          /\ Frame("check_sleep").pc = "check_sleep"
      BY CalmNames, FrameIsFrame DEF Frames, Frame
    <2>3. StackCalm
      BY <1>1, <1>2, <1>3, <2>1, <2>2, CalmReturn
    <2>4. StateCalm
      BY <1>1, <1>3, <2>1, <2>3, CalmStates DEF StackCalm
    <2>5. BlockedInSchedule'
      BY <1>1, <1>2, <1>4, <2>1, <2>2, TopAfter DEF BlockedInSchedule
    <2> QED
      BY <1>1, <1>4, <2>3, <2>4, <2>5, CalmStep
  <1> QED
    BY <1>5, <1>6

\* check_sleep_list
LEMMA CheckSleepProc ==
  ASSUME RunInv, RunProc, check_sleep_list
  PROVE  ProcInv'
PROOF
  <1>1. ListTypes /\ OtherTypes /\ kstack \in [Task -> Seq(FrameSet)] /\ task_curr \in Task
    BY DEF RunInv, OtherTypes
  <1>2. ~UserMode /\ Top.pc = "check_sleep" /\ NotSwitching
    BY DEF check_sleep_list, At, NotSwitching
  <1>3. Fresh /\ LockFramesLast /\ WaitersSleep
    BY DEF RunProc
  <1>4. UNCHANGED <<task_curr, lock_val>>
    BY DEF check_sleep_list
  <1>5. CASE SleeperDue
    <2>1. /\ Head(list["sleep"]) \in Task
          /\ tstate[Head(list["sleep"])] = "interruptible"
      BY <1>5, HeadOfList DEF SleeperDue, Lists
    <2>2. UNCHANGED kstack /\ add_to_runnable_list(Head(list["sleep"]))
      BY <1>5 DEF check_sleep_list
    <2>3. StackCalm
      BY <1>1, <1>2, <1>3, <2>2, CalmOther
    <2>4. StateCalm
      BY <1>1, <1>3, <2>1, <2>2, <2>3, CalmStates DEF StackCalm
    <2>5. BlockedInSchedule'
      BY <1>1, <1>2, <1>4, <2>2, TopAfter DEF BlockedInSchedule
    <2> QED
      BY <1>1, <1>4, <2>3, <2>4, <2>5, CalmStep
  <1>6. CASE ~SleeperDue
    <2>1. Goto(Frame("find")) /\ UNCHANGED tstate
      BY <1>6 DEF check_sleep_list, listVars
    <2>2. Frame("find") \in CalmFrames /\ Frame("find") \in FrameSet
          /\ Frame("find").pc = "find"
      BY CalmNames, FrameIsFrame DEF Frames, Frame
    <2>3. StackCalm
      BY <1>1, <1>2, <1>3, <2>1, <2>2, CalmReturn
    <2>4. StateCalm
      BY <1>1, <1>3, <2>1, <2>3, CalmStates DEF StackCalm
    <2>5. BlockedInSchedule'
      BY <1>1, <1>2, <1>4, <2>1, <2>2, TopAfter DEF BlockedInSchedule
    <2> QED
      BY <1>1, <1>4, <2>3, <2>4, <2>5, CalmStep
  <1> QED
    BY <1>5, <1>6

\* find_runnable_task: the task it chooses is runnable.
LEMMA FindRunnableProc ==
  ASSUME RunInv, RunProc, find_runnable_task
  PROVE  ProcInv'
PROOF
  <1>1. ListTypes /\ OtherTypes /\ kstack \in [Task -> Seq(FrameSet)] /\ task_curr \in Task
    BY DEF RunInv, OtherTypes
  <1>2. ~UserMode /\ Top.pc = "find"
    BY DEF find_runnable_task, At
  <1>3. Fresh /\ LockFramesLast /\ WaitersSleep
    BY DEF RunProc
  <1>4. UNCHANGED <<task_curr, lock_val, tstate>>
    BY DEF find_runnable_task
  <1>5. CASE list["runnable"] = <<>>
    BY <1>5 DEF find_runnable_task, ProcInv, Running
  <1>6. CASE list["runnable"] # <<>>
    <2> DEFINE n == Head(list["runnable"])
               f == [pc |-> "switch", next |-> n]
               k == kstack[task_curr]
               r == Tail(k)
               fs == <<f>>
               s == fs \o r
    <2>1. n \in Task /\ tstate[n] = "running"
      BY <1>6, HeadOfList DEF Lists, RunInv, Linked, StateMatchesNode
    <2>2. Goto(f)
      BY <1>6 DEF find_runnable_task
    <2>3. f \in FrameSet /\ f.pc = "switch" /\ f.next = n
      BY <2>1 DEF FrameSet, Frames
    <2> HIDE DEF f, n
    <2>4. ~UserMode' /\ Top' = f
      BY <1>1, <1>2, <1>4, <2>2, <2>3, TopAfter
    <2>5. k \in Seq(FrameSet) /\ k # <<>> /\ LastOnly(k)
      BY <1>1, <1>2, <1>3 DEF UserMode, LockFramesLast, LastOnly
    <2>6. /\ r \in Seq(FrameSet) /\ LastOnly(r)
          /\ window' = "clear" => ~InStack(r, {"switch"})
      BY <1>2, <1>3, <2>5, LastOnlyTail DEF Fresh, SwitchFresh
    <2>7. /\ fs \in Seq(FrameSet) /\ Len(fs) = 1 /\ fs[1] = f
          /\ ~InStack(fs, {"locked"}) /\ ~InStack(fs, {"lock_ret"})
      <3>1. fs \in Seq(FrameSet) /\ Len(fs) = 1 /\ fs[1] = f
        BY <2>3
      <3> HIDE DEF fs
      <3> QED
        BY <3>1, <2>3 DEF InStack
    <2>8. kstack' = [kstack EXCEPT ![task_curr] = s]
      BY <2>2 DEF Goto
    <2> HIDE DEF fs, r
    <2>9. s \in Seq(FrameSet) /\ LastOnly(s)
      BY <2>6, <2>7, LastOnlyConcat, ConcatProperties
    <2>10. /\ InStack(s, {"locked"}) => InStack(k, {"locked"})
           /\ InStack(s, {"lock_ret"}) => InStack(k, {"lock_ret"})
      BY <2>5, <2>6, <2>7, InConcat, InTail DEF r
    <2>11. Tail(s) = r
      BY <2>3, <2>6 DEF s, fs
    <2> HIDE DEF s
    <2>12. LockCalm
      <3>1. \A t \in Task : kstack'[t] = IF t = task_curr THEN s ELSE kstack[t]
        BY <1>1, <2>8
      <3>2. \A t \in Task : LastOnly(kstack[t])
        BY <1>3 DEF LockFramesLast, LastOnly
      <3>3. kstack' \in [Task -> Seq(FrameSet)]
        BY <1>1, <2>8, <2>9
      <3> QED
        BY <2>9, <2>10, <3>1, <3>2, <3>3 DEF LockCalm
    <2>13. StateCalm
      BY <1>1, <1>3, <1>4, <2>12, CalmStates
    <2>14. window' = "clear" => SwitchFresh'
      <3>1. kstack'[task_curr'] = s
        BY <1>1, <1>4, <2>8
      <3>2. \A t \in Task \ {task_curr'} : kstack'[t] = kstack[t]
        BY <1>1, <1>4, <2>8
      <3>3. tstate'[Top'.next] = "running"
        BY <1>4, <2>1, <2>3, <2>4
      <3> QED
        BY <1>3, <1>4, <2>6, <2>11, <3>1, <3>2, <3>3 DEF Fresh, SwitchFresh
    <2>15. BlockedInSchedule'
      BY <2>3, <2>4 DEF BlockedInSchedule
    <2> QED
      BY <1>4, <2>12, <2>13, <2>14, <2>15, LockStep DEF ProcInv
  <1> QED
    BY <1>5, <1>6

\* switch_to_task: the processor goes to a runnable task, unless it is stale.
LEMMA SwitchProc ==
  ASSUME RunInv, RunProc, switch_to_task
  PROVE  ProcInv'
PROOF
  <1>1. ListTypes /\ OtherTypes /\ kstack \in [Task -> Seq(FrameSet)] /\ task_curr \in Task
    BY DEF RunInv, OtherTypes
  <1>2. ~UserMode /\ Top.pc = "switch"
    BY DEF switch_to_task, At
  <1>3. Fresh /\ LockFramesLast /\ WaitersSleep
    BY DEF RunProc
  <1>4. /\ task_curr' = Top.next /\ Goto(Frame("signals"))
        /\ UNCHANGED <<lock_val, tstate>>
    BY DEF switch_to_task, listVars
  <1>5. Top \in FrameSet
    BY <1>1, <1>2, HeadTailProperties DEF Top, UserMode
  <1>6. task_curr' \in Task
    BY <1>4, <1>5 DEF FrameSet
  <1>7. Frame("signals") \in CalmFrames
    BY CalmNames DEF Frames
  <1>8. StackCalm
    BY <1>1, <1>2, <1>3, <1>4, <1>7, CalmReturn
  <1>9. StateCalm
    BY <1>1, <1>3, <1>4, <1>8, CalmStates DEF StackCalm
  <1>10. CASE window' = "stale"
    BY <1>10 DEF ProcInv
  <1>11. CASE window' # "stale"
    <2>1. tstate[Top.next] = "running"
      BY <1>1, <1>2, <1>3, <1>11
      DEF switch_to_task, SwitchedTo, Fresh, SwitchFresh, OtherTypes
    <2>2. BlockedInSchedule'
      BY <1>4, <2>1 DEF BlockedInSchedule
    <2> QED
      BY <1>4, <1>6, <1>8, <1>9, <2>2, CalmStep
  <1> QED
    BY <1>10, <1>11

\* do_exit gives up the stack of the current task, with it a lock it holds.
LEMMA DoExitProc ==
  ASSUME RunInv, RunProc, do_exit
  PROVE  ProcInv'
PROOF
  <1>1. ListTypes /\ OtherTypes /\ kstack \in [Task -> Seq(FrameSet)] /\ task_curr \in Task
    BY DEF RunInv, OtherTypes
  <1>2. Fresh /\ LockFramesLast /\ WaitersSleep
    BY DEF RunProc
  <1> DEFINE f == Frame("notify")
             fs == <<f>>
  <1>3. fs \in Seq(CalmFrames) /\ f.pc = "notify"
    BY CalmNames DEF Frames, Frame
  <1>4. /\ kstack' = [kstack EXCEPT ![task_curr] = fs]
        /\ UNCHANGED <<task_curr, lock_val>>
    BY DEF do_exit
  <1>5. fs # <<>> /\ Head(fs) = f
    OBVIOUS
  <1> HIDE DEF fs, f
  <1>6. StackCalm
    BY <1>1, <1>2, <1>3, <1>4, CalmOther
  <1>7. kstack'[task_curr'] = fs
    BY <1>1, <1>4
  <1>8. BlockedInSchedule'
    BY <1>3, <1>5, <1>7 DEF BlockedInSchedule, UserMode, Top
  <1>9. StateCalm
    <2>1. CASE task_curr = 1
      BY <2>1, <1>1, <1>2, <1>6, CalmStates DEF do_exit, listVars, StackCalm
    <2>2. CASE task_curr # 1
      <3>1. ~InStack(kstack'[task_curr], {"lock_ret"})
        BY <1>1, <1>3, <1>4, CalmStack
      <3>2. remove_from_runnable_list("zombie", "zombie",
                                      PushBack(Without, "zombie", task_curr))
        BY <2>2 DEF do_exit
      <3> QED
        BY <1>1, <3>1, <3>2, CalmBlock
    <2> QED
      BY <2>1, <2>2
  <1> QED
    BY <1>1, <1>4, <1>6, <1>8, <1>9, CalmStep

\* check_signals and the other returns into a task that runs
LEMMA ReturnProc ==
  ASSUME RunInv, RunProc, ~UserMode, Return, UNCHANGED <<task_curr, lock_val, tstate>>,
         Top.pc \in {"signals", "wait_ret", "trap_ret"}
  PROVE  ProcInv'
PROOF
  <1>1. ListTypes /\ OtherTypes /\ kstack \in [Task -> Seq(FrameSet)] /\ task_curr \in Task
    BY DEF RunInv, OtherTypes
  <1>2. Fresh /\ LockFramesLast /\ WaitersSleep
    BY DEF RunProc
  <1>3. StackCalm
    BY <1>1, <1>2, CalmReturn
  <1>4. StateCalm
    BY <1>1, <1>2, <1>3, CalmStates DEF StackCalm
  <1>5. BlockedInSchedule'
    BY BackFromSchedule DEF BlockedInSchedule
  <1> QED
    BY <1>1, <1>3, <1>4, <1>5, CalmStep

\* check_signals
LEMMA CheckSignalsProc ==
  ASSUME RunInv, RunProc, check_signals
  PROVE  ProcInv'
PROOF
  <1>1. ~UserMode /\ Top.pc = "signals"
    BY DEF check_signals, At
  <1>2. CASE Return /\ UNCHANGED <<task_curr, lock_val, tstate>>
    BY <1>1, <1>2, ReturnProc
  <1>3. CASE panic' = "stopped"
    BY <1>3 DEF ProcInv, Running
  <1>4. CASE do_exit
    BY <1>4, DoExitProc
  <1> QED
    BY <1>2, <1>3, <1>4 DEF check_signals, listVars

\* notify_parent
LEMMA NotifyParentProc ==
  ASSUME RunInv, RunProc, notify_parent
  PROVE  ProcInv'
PROOF
  <1>1. ListTypes /\ OtherTypes /\ kstack \in [Task -> Seq(FrameSet)] /\ task_curr \in Task
    BY DEF RunInv, OtherTypes
  <1>2. Fresh /\ LockFramesLast /\ WaitersSleep
    BY DEF RunProc
  <1> DEFINE f == Frame("check_alarm")
             fs == schedule(<<Frame("exit_ret")>>)
  <1>3. fs \in Seq(CalmFrames) /\ f.pc = "check_alarm"
    BY CalmNames DEF Frames, Frame
  <1>4. /\ kstack' = [kstack EXCEPT ![task_curr] = fs]
        /\ UNCHANGED <<task_curr, lock_val>>
    BY DEF notify_parent
  <1>5. fs # <<>> /\ Head(fs) = f
    BY DEF schedule
  <1> HIDE DEF fs, f
  <1>6. StackCalm
    BY <1>1, <1>2, <1>3, <1>4, CalmOther
  <1>7. kstack'[task_curr'] = fs
    BY <1>1, <1>4
  <1>8. BlockedInSchedule'
    BY <1>3, <1>5, <1>7 DEF BlockedInSchedule, UserMode, Top
  <1>9. StateCalm
    <2>1. CASE parent[task_curr] = None
      BY <2>1, <1>1, <1>2, <1>6, CalmStates DEF notify_parent, listVars, StackCalm
    <2>2. CASE parent[task_curr] # None
      <3>1. parent[task_curr] \in Task /\ send_signal(SIGCHLD, parent[task_curr])
        BY <2>2, <1>1 DEF notify_parent, OtherTypes
      <3> QED
        BY <3>1, <1>1, <1>2, <1>6, CalmStates DEF StackCalm
    <2> QED
      BY <2>1, <2>2
  <1> QED
    BY <1>1, <1>4, <1>6, <1>8, <1>9, CalmStep

\* exit_ret, wait_ret and trap_ret
LEMMA ReturnsProc ==
  ASSUME RunInv, RunProc, exit_ret \/ wait_ret \/ trap_ret
  PROVE  ProcInv'
PROOF
  <1>1. CASE exit_ret
    BY <1>1 DEF exit_ret, ProcInv, Running
  <1>2. CASE wait_ret
    <2>1. CASE panic' = "wait"
      BY <2>1 DEF ProcInv, Running
    <2> QED
      BY <1>2, <2>1, ReturnProc DEF wait_ret, At, listVars
  <1>3. CASE trap_ret
    BY <1>3, ReturnProc DEF trap_ret, At, listVars
  <1> QED
    BY <1>1, <1>2, <1>3

\* A stack with the frame of inode_lock on top has no other frame.
LEMMA LockFrameOnTop ==
  ASSUME RunInv, RunProc, ~UserMode, Top.pc \in {"locked", "lock_ret"}
  PROVE  /\ Tail(kstack[task_curr]) = <<>> /\ tstate[task_curr] = "running"
         /\ Holds(task_curr)
         /\ \A t \in Task \ {task_curr} : ~Holds(t)
PROOF
  <1>1. kstack[task_curr] \in Seq(FrameSet) /\ kstack[task_curr] # <<>>
        /\ task_curr \in Task
    BY DEF RunInv, OtherTypes, UserMode
  <1>2. Tail(kstack[task_curr]) = <<>>
    BY <1>1, LastOnlyTail DEF RunProc, LockFramesLast, LastOnly, Top
  <1>3. tstate[task_curr] = "running"
    BY BackFromSchedule
  <1>4. Holds(task_curr)
    BY <1>1, <1>3, InTopOrTail DEF Holds, Top
  <1> QED
    BY <1>1, <1>2, <1>3, <1>4 DEF RunProc, LockHeldOnce

\* What the stack of the current task says of the lock when it is one frame,
\* or none
LEMMA SmallStacks ==
  ASSUME NEW f \in FrameSet
  PROVE  /\ <<f>> \in Seq(FrameSet) /\ LastOnly(<<f>>) /\ LastOnly(<<>>)
         /\ <<>> \in Seq(FrameSet)
         /\ \A P : ~InStack(<<>>, P)
         /\ \A P : InStack(<<f>>, P) <=> f.pc \in P
PROOF
  <1> DEFINE s == <<f>>
             e == <<>>
  <1>1. /\ s \in Seq(FrameSet) /\ Len(s) = 1 /\ s[1] = f
        /\ e \in Seq(FrameSet) /\ Len(e) = 0
    BY EmptySeq
  <1> HIDE DEF s, e
  <1>2. LastOnly(s) /\ LastOnly(e)
    BY <1>1 DEF LastOnly
  <1>3. \A P : ~InStack(e, P)
    BY <1>1 DEF InStack
  <1>4. \A P : InStack(s, P) <=> f.pc \in P
    BY <1>1 DEF InStack
  <1> QED
    BY <1>1, <1>2, <1>3, <1>4 DEF s, e

\* lock_ret: the task that the lock was handed to goes on as its holder.
LEMMA LockRetProc ==
  ASSUME RunInv, RunProc, lock_ret
  PROVE  ProcInv'
PROOF
  <1>1. ListTypes /\ OtherTypes /\ kstack \in [Task -> Seq(FrameSet)] /\ task_curr \in Task
    BY DEF RunInv, OtherTypes
  <1>2. ~UserMode /\ Top.pc = "lock_ret"
    BY DEF lock_ret, At
  <1>3. Fresh /\ LockFramesLast /\ WaitersSleep /\ LockHeldOnce
    BY DEF RunProc
  <1>4. UNCHANGED <<task_curr, lock_val, tstate>>
    BY DEF lock_ret, listVars
  <1> DEFINE f == Frame("locked")
             s == <<f>>
  <1>5. f \in FrameSet /\ f.pc = "locked"
    BY FrameIsFrame DEF Frames, Frame
  <1>6. /\ Tail(kstack[task_curr]) = <<>> /\ tstate[task_curr] = "running"
        /\ Holds(task_curr) /\ \A t \in Task \ {task_curr} : ~Holds(t)
    BY <1>2, LockFrameOnTop
  <1>7. kstack' = [kstack EXCEPT ![task_curr] = s]
    <2>1. kstack' = [kstack EXCEPT ![task_curr] = <<f>> \o <<>>]
      BY <1>6 DEF lock_ret, Goto
    <2> HIDE DEF f
    <2>2. <<f>> \o <<>> = <<f>>
      BY <1>5
    <2> QED
      BY <2>1, <2>2
  <1>8. /\ s \in Seq(FrameSet) /\ LastOnly(s)
        /\ ~InStack(s, {"switch"}) /\ ~InStack(s, {"lock_ret"})
    BY <1>5, SmallStacks
  <1> HIDE DEF s, f
  <1>9. \A t \in Task : kstack'[t] = IF t = task_curr THEN s ELSE kstack[t]
    BY <1>1, <1>7
  <1>10. kstack' \in [Task -> Seq(FrameSet)]
    BY <1>1, <1>7, <1>8
  <1>11. window' = "clear" => SwitchFresh'
    <2>1. window' = "clear" => \A t \in Task : ~InStack(kstack'[t], {"switch"})
      BY <1>3, <1>8, <1>9 DEF Fresh, SwitchFresh
    <2> QED
      BY <1>1, <1>4, <1>10, <2>1, FreshWithoutSwitch
  <1>12. LockFramesLast'
    BY <1>3, <1>8, <1>9 DEF LockFramesLast, LastOnly
  <1>13. WaitersSleep'
    BY <1>3, <1>4, <1>8, <1>9 DEF WaitersSleep
  <1>14. \A t \in Task : Holds(t)' => Holds(t)
    BY <1>4, <1>6, <1>9 DEF Holds
  <1>15. LockHeldOnce'
    BY <1>3, <1>4, <1>14 DEF LockHeldOnce
  <1>16. BlockedInSchedule'
    BY <1>4, <1>6 DEF BlockedInSchedule
  <1> QED
    BY <1>11, <1>12, <1>13, <1>15, <1>16 DEF ProcInv

\* inode_unlock: the lock goes to the first waiter, or is free.
LEMMA InodeUnlockProc ==
  ASSUME RunInv, RunProc, inode_unlock
  PROVE  ProcInv'
PROOF
  <1>1. ListTypes /\ OtherTypes /\ kstack \in [Task -> Seq(FrameSet)] /\ task_curr \in Task
    BY DEF RunInv, OtherTypes
  <1>2. ~UserMode /\ Top.pc = "locked" /\ NotSwitching
    BY DEF inode_unlock, At, NotSwitching
  <1>3. Fresh /\ LockFramesLast /\ WaitersSleep /\ LockHeldOnce
    BY DEF RunProc
  <1>4. UNCHANGED task_curr /\ Return
    BY DEF inode_unlock
  <1>5. /\ Tail(kstack[task_curr]) = <<>> /\ tstate[task_curr] = "running"
        /\ Holds(task_curr) /\ \A t \in Task \ {task_curr} : ~Holds(t)
    BY <1>2, LockFrameOnTop
  <1>6. \A t \in Task : kstack'[t] = IF t = task_curr THEN <<>> ELSE kstack[t]
    BY <1>1, <1>4, <1>5 DEF Return
  <1>7. /\ <<>> \in Seq(FrameSet) /\ LastOnly(<<>>) /\ \A P : ~InStack(<<>>, P)
    <2>1. Frame("locked") \in FrameSet
      BY FrameIsFrame DEF Frames
    <2> QED
      BY <2>1, SmallStacks
  <1>8. StackCalm
    BY <1>1, <1>2, <1>3, <1>4, CalmReturn
  <1>9. LockFramesLast' /\ (window' = "clear" => SwitchFresh')
    <2>1. LockFramesLast'
      BY <1>8 DEF StackCalm, LockCalm, LockFramesLast, LastOnly
    <2> QED
      BY <1>1, <1>4, <1>8, <2>1, FreshWithoutSwitch DEF StackCalm, LockCalm
  <1>10. CASE lock_val # 0
    BY <1>10 DEF inode_unlock, ProcInv, Running
  <1>11. CASE lock_val = 0 /\ list["lock"] # <<>>
    <2> DEFINE w == Head(list["lock"])
    <2>1. w \in Task /\ tstate[w] = "uninterruptible"
      BY <1>11, HeadOfList DEF Lists
    <2>2. add_to_runnable_list(w) /\ UNCHANGED lock_val
      BY <1>11 DEF inode_unlock
    <2> HIDE DEF w
    <2>3. \A t \in Task : tstate'[t] = IF t = w THEN "running" ELSE tstate[t]
      BY <1>1, <2>1, <2>2 DEF add_to_runnable_list, ListTypes
    <2>4. w # task_curr
      BY <1>5, <2>1
    <2>5. WaitersSleep'
      BY <1>3, <1>6, <1>7, <2>3 DEF WaitersSleep
    <2>6. ASSUME NEW t \in Task, Holds(t)' PROVE t = w
      <3>1. t # task_curr
        BY <1>6, <1>7, <2>6 DEF Holds
      <3>2. ~Holds(t) /\ kstack'[t] = kstack[t]
        BY <3>1, <1>5, <1>6
      <3> QED
        BY <3>2, <2>3, <2>6 DEF Holds
    <2>7. LockHeldOnce'
      BY <2>2, <2>6, <1>11 DEF LockHeldOnce
    <2>8. BlockedInSchedule'
      BY <1>1, <1>4, <1>5, <2>3 DEF BlockedInSchedule
    <2> QED
      BY <1>9, <2>5, <2>7, <2>8 DEF ProcInv
  <1>12. CASE lock_val = 0 /\ list["lock"] = <<>>
    <2>1. lock_val' = 1 /\ UNCHANGED tstate
      BY <1>12 DEF inode_unlock, listVars
    <2>2. \A t \in Task : ~Holds(t)'
      BY <1>5, <1>6, <1>7, <2>1 DEF Holds
    <2>3. ASSUME NEW t \in Task PROVE tstate[t] # "uninterruptible"
      <3>1. ~Contains(list["lock"], t)
        BY <1>12, <1>7, EmptySeq DEF Contains
      <3> QED
        BY <3>1 DEF RunInv, Linked, NodesMatchLists, StateMatchesNode, Lists
    <2>4. LockHeldOnce'
      BY <2>1, <2>2, <2>3 DEF LockHeldOnce
    <2>5. WaitersSleep'
      BY <1>3, <1>6, <1>7, <2>1 DEF WaitersSleep
    <2>6. BlockedInSchedule'
      BY <1>4, <1>5, <2>1 DEF BlockedInSchedule
    <2> QED
      BY <1>9, <2>4, <2>5, <2>6 DEF ProcInv
  <1> QED
    BY <1>10, <1>11, <1>12 DEF inode_unlock

\* A system call that puts the current task to sleep, outside of inode_lock
LEMMA BlockProc ==
  ASSUME RunInv, RunProc, UserMode, UNCHANGED <<task_curr, lock_val>>,
         NEW st \in {"interruptible"}, NEW l, NEW ls,
         remove_from_runnable_list(st, l, ls),
         \/ Push(schedule(<<>>))
         \/ Push(schedule(<<Frame("wait_ret")>>))
  PROVE  ProcInv'
PROOF
  <1>1. ListTypes /\ OtherTypes /\ kstack \in [Task -> Seq(FrameSet)] /\ task_curr \in Task
    BY DEF RunInv, OtherTypes
  <1>2. Fresh /\ LockFramesLast /\ WaitersSleep /\ NotSwitching
    BY DEF RunProc, NotSwitching
  <1>3. /\ schedule(<<>>) \in Seq(CalmFrames)
        /\ schedule(<<Frame("wait_ret")>>) \in Seq(CalmFrames)
        /\ "wait_ret" \in Frames
    BY CalmNames DEF Frames
  <1>4. StackCalm
    BY <1>1, <1>2, <1>3, CalmPush
  <1>5. ~InStack(kstack'[task_curr], {"lock_ret"})
    <2>1. ~InStack(kstack[task_curr], {"lock_ret"})
      <3>1. Len(kstack[task_curr]) = 0
        BY EmptySeq DEF UserMode
      <3> QED
        BY <3>1 DEF InStack
    <2> QED
      BY <1>1, <1>4, <2>1 DEF StackCalm, LockCalm
  <1>6. StateCalm
    BY <1>1, <1>5, CalmBlock
  <1>7. BlockedInSchedule'
    BY <1>1, <1>3, TopAfter DEF BlockedInSchedule
  <1> QED
    BY <1>1, <1>4, <1>6, <1>7, CalmStep

\* The calls that sleep, and yield
LEMMA SleepingCallsProc ==
  ASSUME RunInv, RunProc,
         \/ sys_pause \/ sys_cgetc \/ sys_wait \/ sys_yield
         \/ \E s \in Seconds : sys_sleep(s)
  PROVE  ProcInv'
PROOF
  <1>1. CASE sys_pause
    BY <1>1, BlockProc DEF sys_pause, Syscall
  <1>2. CASE sys_cgetc
    BY <1>2, BlockProc DEF sys_cgetc, Syscall
  <1>3. CASE sys_wait
    BY <1>3, BlockProc DEF sys_wait, Syscall
  <1>4. ASSUME NEW s \in Seconds, sys_sleep(s) PROVE ProcInv'
    BY <1>4, BlockProc DEF sys_sleep, Syscall
  <1>5. CASE sys_yield
    <2>1. ListTypes /\ OtherTypes /\ kstack \in [Task -> Seq(FrameSet)] /\ task_curr \in Task
      BY DEF RunInv, OtherTypes
    <2>2. Fresh /\ LockFramesLast /\ WaitersSleep /\ NotSwitching
      BY <1>5 DEF RunProc, NotSwitching, sys_yield, Syscall
    <2>3. /\ schedule(<<>>) \in Seq(CalmFrames)
          /\ schedule(<<Frame("find")>>) \in Seq(CalmFrames)
      BY CalmNames DEF Frames
    <2>4. Push(schedule(<<>>)) /\ UNCHANGED <<task_curr, lock_val, tstate>>
      BY <1>5 DEF sys_yield, listVars
    <2>5. StackCalm
      BY <2>1, <2>2, <2>3, <2>4, CalmPush
    <2>6. StateCalm
      BY <2>1, <2>2, <2>4, <2>5, CalmStates DEF StackCalm
    <2>7. BlockedInSchedule'
      BY <2>1, <2>4, TopAfter DEF BlockedInSchedule
    <2> QED
      BY <2>1, <2>4, <2>5, <2>6, <2>7, CalmStep
  <1> QED
    BY <1>1, <1>2, <1>3, <1>4, <1>5

\* The calls that return at once: alarm, kill and fork.  The new task has an
\* empty stack, or at least no frame of inode_lock_ret.
LEMMA ImmediateCallsProc ==
  ASSUME RunInv, RunProc,
         \/ \E s \in Seconds : sys_alarm(s)
         \/ \E t \in Task, s \in Signals : sys_kill(t, s)
         \/ sys_fork
  PROVE  ProcInv'
PROOF
  <1>1. ListTypes /\ OtherTypes /\ kstack \in [Task -> Seq(FrameSet)] /\ task_curr \in Task
    BY DEF RunInv, OtherTypes
  <1>2. UserMode /\ UNCHANGED <<task_curr, lock_val, kstack>>
    BY DEF sys_alarm, sys_kill, sys_fork, Syscall
  <1>3. Fresh /\ LockFramesLast /\ WaitersSleep /\ NotSwitching
        /\ tstate[task_curr] = "running"
    BY <1>2, BackFromSchedule DEF RunProc, NotSwitching
  <1>4. StackCalm
    BY <1>1, <1>2, <1>3, CalmOther
  <1>5. CASE sys_fork
    <2> DEFINE c == next_task_id
    <2>1. c \in Task \ Exists
      BY <1>1, <1>5, SchedAssumption DEF OtherTypes, sys_fork, Task, Exists
    <2>2. tstate[c] = "not_runnable"
      BY <2>1 DEF RunInv, UnbornUnlinked
    <2>3. \A t \in Task : tstate'[t] = IF t = c THEN "running" ELSE tstate[t]
      BY <1>1, <1>5, <2>1 DEF sys_fork, ListTypes
    <2>4. ~InStack(kstack[c], {"lock_ret"})
      BY <1>3, <2>1, <2>2 DEF WaitersSleep
    <2>5. StateCalm
      BY <1>2, <2>3, <2>4 DEF StateCalm
    <2>6. BlockedInSchedule'
      BY <1>1, <1>2, <1>3, <2>3 DEF BlockedInSchedule
    <2> QED
      BY <1>1, <1>2, <1>4, <2>5, <2>6, CalmStep
  <1>6. ASSUME NEW s \in Seconds, sys_alarm(s) PROVE ProcInv'
    <2>1. UNCHANGED tstate
      BY <1>6 DEF sys_alarm, listVars
    <2>2. StateCalm
      BY <1>1, <1>3, <1>4, <2>1, CalmStates DEF StackCalm
    <2>3. BlockedInSchedule'
      BY <1>2, <1>3, <2>1 DEF BlockedInSchedule
    <2> QED
      BY <1>1, <1>2, <1>4, <2>2, <2>3, CalmStep
  <1>7. ASSUME NEW t \in Task, NEW s \in Signals, sys_kill(t, s) PROVE ProcInv'
    <2>1. send_signal(s, t)
      BY <1>7 DEF sys_kill
    <2>2. StateCalm
      BY <1>1, <1>3, <1>4, <2>1, CalmStates DEF StackCalm
    <2>3. tstate'[task_curr] = "running"
      BY <1>1, <1>3, <2>1, RunningStays
    <2>4. BlockedInSchedule'
      BY <1>2, <2>3 DEF BlockedInSchedule
    <2> QED
      BY <1>1, <1>2, <1>4, <2>2, <2>4, CalmStep
  <1> QED
    BY <1>5, <1>6, <1>7

\* inode_lock takes a free lock or waits for it.
LEMMA InodeLockProc ==
  ASSUME RunInv, RunProc, inode_lock
  PROVE  ProcInv'
PROOF
  <1>1. ListTypes /\ OtherTypes /\ kstack \in [Task -> Seq(FrameSet)] /\ task_curr \in Task
    BY DEF RunInv, OtherTypes
  <1>2. UserMode /\ UNCHANGED task_curr /\ kstack[task_curr] = <<>>
    BY DEF inode_lock, Syscall, UserMode
  <1>3. Fresh /\ LockFramesLast /\ WaitersSleep /\ LockHeldOnce
        /\ tstate[task_curr] = "running" /\ lock_val \in 0..1
    BY <1>1, <1>2, BackFromSchedule DEF RunProc, OtherTypes
  <1>4. ASSUME NEW s \in Seq(FrameSet), kstack' = [kstack EXCEPT ![task_curr] = s],
               LastOnly(s), ~InStack(s, {"switch"})
        PROVE  /\ LockFramesLast' /\ (window' = "clear" => SwitchFresh')
               /\ \A t \in Task : kstack'[t] = IF t = task_curr THEN s ELSE kstack[t]
    <2>1. \A t \in Task : kstack'[t] = IF t = task_curr THEN s ELSE kstack[t]
      BY <1>1, <1>4
    <2>2. kstack' \in [Task -> Seq(FrameSet)]
      BY <1>1, <1>4
    <2>3. window' = "clear" => \A t \in Task : ~InStack(kstack'[t], {"switch"})
      BY <1>3, <1>4, <2>1 DEF Fresh, SwitchFresh
    <2>4. LockFramesLast'
      BY <1>3, <1>4, <2>1 DEF LockFramesLast, LastOnly
    <2> QED
      BY <1>1, <1>2, <2>1, <2>2, <2>3, <2>4, FreshWithoutSwitch
  <1>5. CASE LockFree
    <2> DEFINE f == Frame("locked")
               s == <<f>>
    <2>1. f \in FrameSet /\ f.pc = "locked"
      BY FrameIsFrame DEF Frames, Frame
    <2>2. lock_val = 1 /\ lock_val' = 0 /\ UNCHANGED tstate
      BY <1>3, <1>5 DEF inode_lock, LockFree, listVars
    <2>3. kstack' = [kstack EXCEPT ![task_curr] = s]
      <3>1. kstack' = [kstack EXCEPT ![task_curr] = <<f>> \o <<>>]
        BY <1>2, <1>5 DEF inode_lock, Push
      <3> HIDE DEF f
      <3>2. <<f>> \o <<>> = <<f>>
        BY <2>1
      <3> QED
        BY <3>1, <3>2
    <2>4. /\ s \in Seq(FrameSet) /\ LastOnly(s)
          /\ ~InStack(s, {"switch"}) /\ ~InStack(s, {"lock_ret"})
      BY <2>1, SmallStacks
    <2> HIDE DEF s, f
    <2>5. /\ LockFramesLast' /\ (window' = "clear" => SwitchFresh')
          /\ \A t \in Task : kstack'[t] = IF t = task_curr THEN s ELSE kstack[t]
      BY <1>4, <2>3, <2>4
    <2>6. WaitersSleep'
      BY <1>3, <2>2, <2>4, <2>5 DEF WaitersSleep
    <2>7. \A t \in Task : Holds(t)' => t = task_curr
      BY <1>3, <2>2, <2>5 DEF Holds, LockHeldOnce
    <2>8. LockHeldOnce'
      BY <2>2, <2>7 DEF LockHeldOnce
    <2>9. BlockedInSchedule'
      BY <1>2, <1>3, <2>2 DEF BlockedInSchedule
    <2> QED
      BY <2>5, <2>6, <2>8, <2>9 DEF ProcInv
  <1>6. CASE ~LockFree
    <2> DEFINE f == Frame("check_alarm")
               g == Frame("lock_ret")
               s == (<<f>> \o <<g>>) \o <<>>
    <2>1. /\ f \in FrameSet /\ f.pc = "check_alarm"
          /\ g \in FrameSet /\ g.pc = "lock_ret"
      BY FrameIsFrame DEF Frames, Frame
    <2>2. lock_val = 0 /\ UNCHANGED lock_val
      BY <1>3, <1>6 DEF inode_lock, LockFree
    <2>3. kstack' = [kstack EXCEPT ![task_curr] = s]
      BY <1>2, <1>6 DEF inode_lock, Push, schedule
    <2> HIDE DEF f, g
    <2>4. s \in Seq(FrameSet) /\ Len(s) = 2 /\ s[1] = f /\ s[2] = g
      <3> DEFINE a == <<f>>
                 b == <<g>>
                 e == <<>>
      <3>1. /\ a \in Seq(FrameSet) /\ Len(a) = 1 /\ a[1] = f
            /\ b \in Seq(FrameSet) /\ Len(b) = 1 /\ b[1] = g
            /\ e \in Seq(FrameSet) /\ Len(e) = 0
        BY <2>1, EmptySeq
      <3> DEFINE c == a \o b
      <3>2. s = c \o e
        OBVIOUS
      <3> HIDE DEF a, b, e
      <3>3. /\ c \in Seq(FrameSet) /\ Len(c) = 2
            /\ c[1] = f /\ c[2] = g
        BY <3>1, ConcatProperties
      <3> HIDE DEF c, s
      <3> QED
        BY <3>1, <3>2, <3>3, ConcatProperties, SMTT(30)
    <2> HIDE DEF s
    <2>5. /\ LastOnly(s) /\ ~InStack(s, {"switch"}) /\ ~InStack(s, {"locked"})
      BY <2>1, <2>4 DEF LastOnly, InStack
    <2>6. /\ LockFramesLast' /\ (window' = "clear" => SwitchFresh')
          /\ \A t \in Task : kstack'[t] = IF t = task_curr THEN s ELSE kstack[t]
      BY <1>4, <2>3, <2>4, <2>5
    <2>7. CASE ~Running'
      BY <2>7 DEF ProcInv
    <2>8. CASE Running'
      <3>1. tstate' = [tstate EXCEPT ![task_curr] = "uninterruptible"]
        BY <1>6, <2>8 DEF inode_lock, remove_from_runnable_list, Running
      <3>2. \A t \in Task : tstate'[t] = IF t = task_curr THEN "uninterruptible"
                                                         ELSE tstate[t]
        BY <1>1, <3>1 DEF ListTypes
      <3>3. WaitersSleep'
        BY <1>3, <2>6, <3>2 DEF WaitersSleep
      <3>4. \A t \in Task : Holds(t)' => Holds(t)
        BY <2>5, <2>6, <3>2 DEF Holds
      <3>5. LockHeldOnce'
        BY <1>3, <2>2, <3>4 DEF LockHeldOnce
      <3>6. BlockedInSchedule'
        <4>1. kstack'[task_curr'] = s
          BY <1>1, <1>2, <2>6
        <4>2. s # <<>> /\ Head(s) = f
          BY <2>4, HeadTailProperties
        <4> QED
          BY <2>1, <4>1, <4>2 DEF BlockedInSchedule, UserMode, Top
      <3> QED
        BY <2>6, <3>3, <3>5, <3>6 DEF ProcInv
    <2> QED
      BY <2>7, <2>8
  <1> QED
    BY <1>5, <1>6

\* An interrupt that leaves the stacks alone and takes no task from the runnable
\* ones, in the window of schedule() or elsewhere
LEMMA SameStacks ==
  ASSUME RunInv, RunProc, StateCalm, UNCHANGED <<task_curr, lock_val, kstack>>,
         \A t \in Task : tstate[t] = "running" => tstate'[t] = "running"
  PROVE  ProcInv'
PROOF
  <1>1. kstack \in [Task -> Seq(FrameSet)] /\ task_curr \in Task
    BY DEF RunInv, OtherTypes
  <1>2. Fresh /\ LockFramesLast /\ BlockedInSchedule
    BY DEF RunProc
  <1>3. LockCalm
    BY <1>1, <1>2 DEF LockCalm, LockFramesLast, LastOnly
  <1>4. UserMode' = UserMode /\ Top' = Top
    BY DEF UserMode, Top
  <1>5. ASSUME window' = "clear" PROVE SwitchFresh'
    <2>1. SwitchFresh
      BY <1>2, <1>5 DEF Fresh
    <2>2. ASSUME ~UserMode, Top.pc = "switch" PROVE tstate'[Top.next] = "running"
      <3>1. Top \in FrameSet
        BY <1>1, <2>2, HeadTailProperties DEF Top, UserMode
      <3>2. Top.next \in Task
        BY <3>1 DEF FrameSet
      <3> QED
        BY <2>1, <2>2, <3>2 DEF SwitchFresh
    <2> QED
      BY <1>4, <2>1, <2>2 DEF SwitchFresh
  <1>6. BlockedInSchedule'
    BY <1>1, <1>2, <1>4 DEF BlockedInSchedule
  <1> QED
    BY <1>3, <1>5, <1>6, LockStep DEF ProcInv

\* A tick and a key press.  A tick that schedules in the window is recorded,
\* any other one leaves the choice of the current task as it was.
LEMMA InterruptProc ==
  ASSUME RunInv, RunProc, do_timer \/ do_irq_keyboard
  PROVE  ProcInv'
PROOF
  <1>1. ListTypes /\ OtherTypes /\ kstack \in [Task -> Seq(FrameSet)] /\ task_curr \in Task
    BY DEF RunInv, OtherTypes
  <1>2. Fresh /\ LockFramesLast /\ WaitersSleep /\ BlockedInSchedule
    BY DEF RunProc
  <1>3. UNCHANGED <<task_curr, lock_val>>
    BY DEF do_timer, do_irq_keyboard
  <1>4. CASE UNCHANGED kstack /\ UNCHANGED tstate
    BY <1>3, <1>4, SameStacks DEF StateCalm
  <1>5. CASE Push(schedule(<<Frame("trap_ret")>>)) /\ ScheduledOver /\ UNCHANGED tstate
    <2>0. schedule(<<Frame("trap_ret")>>) \in Seq(CalmFrames) /\ "trap_ret" \in Frames
      BY CalmNames DEF Frames
    <2>1. StackCalm
      <3>1. window' = "clear" => NotSwitching
        BY <1>5 DEF ScheduledOver, NotSwitching
      <3> QED
        BY <1>1, <1>2, <1>5, <2>0, <3>1, CalmPush
    <2>2. StateCalm
      BY <1>1, <1>2, <1>5, <2>1, CalmStates DEF StackCalm
    <2>3. BlockedInSchedule'
      BY <1>1, <1>3, <1>5, <2>0, TopAfter DEF BlockedInSchedule
    <2> QED
      BY <1>1, <1>3, <2>1, <2>2, <2>3, CalmStep
  <1>6. CASE do_irq_keyboard
    <2>1. /\ Head(list["input"]) \in Task
          /\ tstate[Head(list["input"])] = "interruptible"
          /\ add_to_runnable_list(Head(list["input"])) /\ UNCHANGED kstack
      BY <1>6, HeadOfList DEF do_irq_keyboard, Lists
    <2>2. StateCalm
      <3>1. LockCalm
        BY <1>1, <1>2, <2>1 DEF LockCalm, LockFramesLast, LastOnly
      <3> QED
        BY <1>1, <1>2, <2>1, <3>1, CalmStates
    <2>3. \A t \in Task : tstate[t] = "running" => tstate'[t] = "running"
      BY <1>1, <2>1, RunningStays
    <2> QED
      BY <1>3, <2>1, <2>2, <2>3, SameStacks
  <1> QED
    BY <1>4, <1>5, <1>6 DEF do_timer, listVars

\* ProcInv holds at the start
LEMMA InitProc == Init => ProcInv
PROOF
  <1> SUFFICES ASSUME Init PROVE ProcInv
    OBVIOUS
  <1>0. 0 \in Task /\ Frame("find") \in FrameSet
    BY SchedAssumption, FrameIsFrame DEF Task, Frames
  <1>1. \A t \in Task : kstack[t] = <<>>
    BY DEF Init
  <1>2. LastOnly(<<>>) /\ \A P : ~InStack(<<>>, P)
    BY <1>0, SmallStacks
  <1>3. UserMode /\ tstate[task_curr] = "running"
    BY <1>0, <1>1 DEF Init, UserMode
  <1>4. SwitchFresh /\ BlockedInSchedule /\ WaitersSleep
    BY <1>1, <1>2, <1>3 DEF SwitchFresh, BlockedInSchedule, WaitersSleep
  <1>5. LockFramesLast
    BY <1>1, <1>2 DEF LockFramesLast, LastOnly
  <1>6. \A t \in Task : ~Holds(t) /\ tstate[t] # "uninterruptible"
    BY <1>1, <1>2 DEF Holds, Init
  <1> QED
    BY <1>4, <1>5, <1>6 DEF ProcInv, LockHeldOnce

\* A window that is clear was clear before the step, and a stale one stays so.
LEMMA WindowStep ==
  ASSUME IndInv, Next
  PROVE  /\ window' = "clear" => window = "clear"
         /\ window' # "stale" => window # "stale"
PROOF
  <1>1. ASSUME SwitchedTo(Top.next) \/ ScheduledOver \/ UNCHANGED window
        PROVE  /\ window' = "clear" => window = "clear"
               /\ window' # "stale" => window # "stale"
    BY <1>1 DEF SwitchedTo, ScheduledOver
  <1>2. CASE Kernel
    BY <1>1, <1>2 DEF Kernel, check_alarm, check_sleep_list, find_runnable_task,
                      switch_to_task, check_signals, do_exit, notify_parent, exit_ret,
                      wait_ret, lock_ret, inode_unlock, trap_ret
  <1>3. CASE User
    BY <1>1, <1>3 DEF User, sys_yield, sys_pause, sys_cgetc, sys_fork, sys_exit,
                      do_exit, sys_wait, inode_lock, sys_sleep, sys_alarm, sys_kill
  <1>4. CASE do_timer \/ do_irq_keyboard \/ Halt
    BY <1>1, <1>4 DEF do_timer, do_irq_keyboard, Halt, vars
  <1> QED
    BY <1>2, <1>3, <1>4 DEF Next

\* and every step keeps it.
LEMMA NextProc == IndInv /\ ProcInv /\ [Next]_vars => ProcInv'
PROOF
  <1> SUFFICES ASSUME IndInv, ProcInv, [Next]_vars PROVE ProcInv'
    OBVIOUS
  <1>1. CASE UNCHANGED vars
    BY <1>1 DEF vars, ProcInv, Running, SwitchFresh, BlockedInSchedule,
                LockFramesLast, WaitersSleep, LockHeldOnce, Holds, UserMode, Top
  <1>2. CASE ~Running /\ Next
    BY <1>1, <1>2, HaltsForGood
  <1>3. CASE Running /\ Next /\ window' = "stale"
    BY <1>3 DEF ProcInv
  <1>4. CASE Running /\ Next /\ window' # "stale"
    <2>1. RunInv /\ RunProc
      BY <1>4, RunInvHolds, WindowStep DEF ProcInv, RunProc, Fresh
    <2>2. CASE Kernel
      BY <2>1, <2>2, CheckAlarmProc, CheckSleepProc, FindRunnableProc, SwitchProc,
         CheckSignalsProc, NotifyParentProc, ReturnsProc, LockRetProc,
         InodeUnlockProc DEF Kernel
    <2>3. CASE User
      BY <2>1, <2>3, SleepingCallsProc, ImmediateCallsProc, InodeLockProc, DoExitProc
      DEF User, sys_exit
    <2>4. CASE do_timer \/ do_irq_keyboard
      BY <2>1, <2>4, InterruptProc
    <2>5. CASE Halt
      BY <1>1, <2>5 DEF Halt
    <2> QED
      BY <1>4, <2>2, <2>3, <2>4, <2>5 DEF Next
  <1> QED
    BY <1>1, <1>2, <1>3, <1>4

\* ProcInv holds in every state the kernel reaches: as long as no tick schedules
\* in the window between find_runnable_task and its cli a chosen task is
\* runnable, and until a stale one gets the processor a current task that is
\* not runnable is on its way to a switch and the lock has one holder.
THEOREM ProcessorInvariant == Spec => []ProcInv
PROOF
  <1> QED
    BY NextProc, InitProc, InvariantHolds, PTL DEF Spec

\* The inode lock is held by one task at a time, through every hand-over, kill
\* and exit and however ticks nest, and it is free only when nobody waits,
\* until schedule() switches to a task_next that is stale.
THEOREM LockExclusive == Spec => []LockExclusion
PROOF
  <1>1. ASSUME IndInv, ProcInv, Running, window # "stale"
        PROVE  /\ Cardinality(Holders) <= 1
               /\ lock_val = 1 => Holders = {} /\ list["lock"] = <<>>
    <2>1. RunInv /\ LockHeldOnce
      BY <1>1, RunInvHolds DEF ProcInv
    <2>2. Cardinality(Holders) <= 1
      <3>1. CASE Holders = {}
        BY <3>1, FS_EmptySet
      <3>2. CASE Holders # {}
        <4>1. PICK x \in Task : Holds(x)
          BY <3>2 DEF Holders
        <4>2. \A t \in Task : Holds(t) => t = x
          BY <4>1, <2>1 DEF LockHeldOnce
        <4>3. Holders = {x}
          BY <4>1, <4>2, Zenon DEF Holders
        <4>4. Cardinality({x}) = 1
          BY FS_Singleton
        <4> QED
          BY <4>3, <4>4
      <3> QED
        BY <3>1, <3>2
    <2>3. ASSUME lock_val = 1 PROVE Holders = {} /\ list["lock"] = <<>>
      <3>1. Holders = {}
        BY <2>1, <2>3 DEF Holders, LockHeldOnce
      <3>2. ASSUME list["lock"] # <<>> PROVE FALSE
        BY <2>1, <2>3, <3>2, HeadOfList DEF LockHeldOnce, Lists
      <3> QED
        BY <3>1, <3>2
    <2> QED
      BY <2>2, <2>3
  <1>2. IndInv /\ ProcInv => LockExclusion
    BY <1>1 DEF LockExclusion
  <1> QED
    BY <1>2, InvariantHolds, ProcessorInvariant, PTL

\* A task that is back in user mode is runnable, so the assertions of
\* remove_from_runnable_list hold wherever a call blocks, unless schedule()
\* switched to a task_next that a tick in its window had made stale.
THEOREM CurrentRunnable == Spec => []OnlyStaleUnrunnable
PROOF
  <1>1. ASSUME IndInv, ProcInv, Running, UserMode, window # "stale" PROVE InRunnable
    BY <1>1, RunInvHolds
    DEF ProcInv, BlockedInSchedule, RunInv, OtherTypes, Linked, StateMatchesNode,
        InRunnable
  <1>2. IndInv /\ ProcInv => OnlyStaleUnrunnable
    BY <1>1 DEF OnlyStaleUnrunnable, CurrentIsRunnable
  <1> QED
    BY <1>2, InvariantHolds, ProcessorInvariant, PTL

-----------------------------------------------------------------------------
(* Programs that make only the calls in QuietCalls never halt the kernel,  *)
(* unless init exits.                                                      *)

\* The frames that those programs never push
OtherFrames == {"wait_ret", "lock_ret", "locked"}

\* No stack gains a frame in P.
GainsNo(P) == \A t \in Task : InStack(kstack'[t], P) => InStack(kstack[t], P)

\* A task keeps its state, or it is alive and goes on in a known one.
QuietStates ==
  \A t \in Task : \/ tstate'[t] = tstate[t]
                  \/ /\ tstate[t] # "zombie"
                     /\ tstate'[t] \in {"running", "interruptible", "zombie"}

\* How the moves of the stack gain frames
LEMMA FramesGained ==
  ASSUME kstack \in [Task -> Seq(FrameSet)], task_curr \in Task, NEW P
  PROVE  /\ \A fs \in Seq(FrameSet) : Push(fs) /\ ~InStack(fs, P) => GainsNo(P)
         /\ ~UserMode /\ Return => GainsNo(P)
         /\ \A f \in FrameSet : ~UserMode /\ f.pc \notin P /\ Goto(f) => GainsNo(P)
         /\ UNCHANGED kstack => GainsNo(P)
PROOF
  <1> DEFINE k == kstack[task_curr]
  <1>0. k \in Seq(FrameSet)
    OBVIOUS
  <1>1. ASSUME NEW s, kstack' = [kstack EXCEPT ![task_curr] = s],
               InStack(s, P) => InStack(k, P)
        PROVE  GainsNo(P)
    <2>1. \A t \in Task : kstack'[t] = IF t = task_curr THEN s ELSE kstack[t]
      BY <1>1
    <2> QED
      BY <1>1, <2>1 DEF GainsNo
  <1>2. ASSUME NEW fs \in Seq(FrameSet), Push(fs), ~InStack(fs, P) PROVE GainsNo(P)
    BY <1>0, <1>1, <1>2, InConcat DEF Push
  <1>3. ASSUME ~UserMode, Return PROVE GainsNo(P)
    BY <1>0, <1>1, <1>3, InTail DEF Return, UserMode
  <1>4. ASSUME NEW f \in FrameSet, ~UserMode, f.pc \notin P, Goto(f) PROVE GainsNo(P)
    <2> DEFINE fs == <<f>>
               r == Tail(k)
               s == fs \o r
    <2>1. k # <<>> /\ r \in Seq(FrameSet)
      BY <1>0, <1>4, HeadTailProperties DEF UserMode
    <2>2. fs \in Seq(FrameSet) /\ ~InStack(fs, P)
      BY <1>4, SmallStacks
    <2>3. kstack' = [kstack EXCEPT ![task_curr] = s]
      BY <1>4 DEF Goto
    <2>4. InStack(r, P) => InStack(k, P)
      BY <1>0, <2>1, InTail
    <2> HIDE DEF fs, r
    <2>5. InStack(s, P) => InStack(k, P)
      BY <2>1, <2>2, <2>4, InConcat
    <2> HIDE DEF s
    <2> QED
      BY <1>1, <2>3, <2>5
  <1>5. UNCHANGED kstack => GainsNo(P)
    BY DEF GainsNo
  <1> QED
    BY <1>2, <1>3, <1>4, <1>5

\* The frames of a call of schedule()
LEMMA ScheduleStack ==
  ASSUME NEW pc \in Frames, NEW P, pc \notin P, "check_alarm" \notin P
  PROVE  /\ schedule(<<>>) \in Seq(FrameSet) /\ ~InStack(schedule(<<>>), P)
         /\ schedule(<<Frame(pc)>>) \in Seq(FrameSet)
         /\ ~InStack(schedule(<<Frame(pc)>>), P)
PROOF
  <1> DEFINE f == Frame("check_alarm")
             g == Frame(pc)
             a == <<f>>
             b == <<g>>
             e == <<>>
  <1>1. f \in FrameSet /\ f.pc = "check_alarm" /\ g \in FrameSet /\ g.pc = pc
    BY FrameIsFrame DEF Frames, Frame
  <1>2. schedule(<<>>) = a \o e /\ schedule(<<Frame(pc)>>) = a \o b
    BY DEF schedule
  <1> HIDE DEF f, g
  <1>3. /\ a \in Seq(FrameSet) /\ b \in Seq(FrameSet) /\ e \in Seq(FrameSet)
        /\ ~InStack(a, P) /\ ~InStack(b, P) /\ ~InStack(e, P)
    BY <1>1, SmallStacks
  <1> HIDE DEF a, b, e
  <1>4. a \o e \in Seq(FrameSet) /\ ~InStack(a \o e, P)
    BY <1>3, InConcat, ConcatProperties
  <1>5. a \o b \in Seq(FrameSet) /\ ~InStack(a \o b, P)
    BY <1>3, InConcat, ConcatProperties
  <1> QED
    BY <1>2, <1>4, <1>5

\* A step that gains no frame that waits and signals nobody
LEMMA QuietStep ==
  ASSUME Running, Quiet, OtherTypes, GainsNo(OtherFrames), GainsNo({"exit_ret"}),
         QuietStates, node'[0] = "runnable",
         UNCHANGED <<next_task_id, parent, sig, n_cli, task_alarm_list, panic>>
  PROVE  QuietInv'
PROOF
  <1>1. Exists' = Exists /\ Exists \subseteq Task
    BY SchedAssumption DEF Exists, OtherTypes, Task
  <1>2. \A t \in Exists : tstate'[t] \in {"running", "interruptible", "zombie"}
    BY <1>1 DEF QuietStates, Quiet
  <1>3. ASSUME NEW t \in Task
        PROVE  /\ ~InStack(kstack'[t], OtherFrames)
               /\ InStack(kstack'[t], {"exit_ret"}) => tstate'[t] = "zombie"
    BY DEF Quiet, GainsNo, QuietStates, OtherFrames
  <1>4. Quiet'
    BY <1>1, <1>2, <1>3 DEF Quiet, OtherFrames
  <1> QED
    BY <1>4 DEF QuietInv, NoPanic, Running

\* A wake-up of a sleeping task
LEMMA QuietWake ==
  ASSUME RunInv, Quiet, NEW t \in Task, tstate[t] = "interruptible",
         add_to_runnable_list(t)
  PROVE  QuietStates /\ node'[0] = "runnable"
PROOF
  <1>1. \A u \in Task : tstate'[u] = IF u = t THEN "running" ELSE tstate[u]
    BY DEF add_to_runnable_list, RunInv, ListTypes
  <1>2. node'[0] = "runnable"
    BY DEF add_to_runnable_list, RunInv, ListTypes, Quiet
  <1> QED
    BY <1>1, <1>2 DEF QuietStates

\* A step in which the current user task leaves the runnable list
LEMMA QuietBlock ==
  ASSUME RunInv, RunProc, Quiet, UserMode, task_curr # 0,
         NEW st \in {"interruptible", "zombie"}, NEW l, NEW ls,
         remove_from_runnable_list(st, l, ls)
  PROVE  /\ QuietStates /\ node'[0] = "runnable" /\ UNCHANGED panic
         /\ tstate'[task_curr] = st
PROOF
  <1>1. task_curr \in Task /\ 0 \in Task
    BY SchedAssumption DEF RunInv, OtherTypes, Task
  <1>2. tstate[task_curr] = "running"
    BY BackFromSchedule
  <1>3. InRunnable
    BY <1>1, <1>2 DEF RunInv, Linked, StateMatchesNode, InRunnable
  <1>4. /\ node' = [node EXCEPT ![task_curr] = l]
        /\ tstate' = [tstate EXCEPT ![task_curr] = st] /\ UNCHANGED panic
    BY <1>3 DEF remove_from_runnable_list
  <1>5. \A u \in Task : tstate'[u] = IF u = task_curr THEN st ELSE tstate[u]
    BY <1>4 DEF RunInv, ListTypes
  <1>6. node'[0] = "runnable"
    BY <1>1, <1>4 DEF RunInv, ListTypes, Quiet
  <1> QED
    BY <1>1, <1>2, <1>4, <1>5, <1>6 DEF QuietStates

\* The steps of schedule()
LEMMA ScheduleQuiet ==
  ASSUME Running, RunInv, RunProc, Quiet, panic' # "runq_empty",
         \/ check_alarm \/ check_sleep_list \/ find_runnable_task \/ switch_to_task
         \/ check_signals \/ trap_ret
  PROVE  QuietInv'
PROOF
  <1>1. kstack \in [Task -> Seq(FrameSet)] /\ task_curr \in Task /\ OtherTypes
    BY DEF RunInv, OtherTypes
  <1>2. /\ Frame("check_sleep") \in FrameSet /\ Frame("check_sleep").pc = "check_sleep"
        /\ Frame("find") \in FrameSet /\ Frame("find").pc = "find"
        /\ Frame("signals") \in FrameSet /\ Frame("signals").pc = "signals"
    BY FrameIsFrame DEF Frames, Frame
  <1>3. UNCHANGED tstate /\ UNCHANGED node => QuietStates /\ node'[0] = "runnable"
    BY DEF QuietStates, Quiet
  <1>4. ~UserMode
    BY DEF check_alarm, check_sleep_list, find_runnable_task, switch_to_task,
           check_signals, trap_ret, At
  <1>5. CASE check_alarm
    <2>1. ~AlarmDue
      BY DEF AlarmDue, Quiet
    <2>2. GainsNo(OtherFrames) /\ GainsNo({"exit_ret"})
      BY <1>1, <1>2, <1>4, <1>5, <2>1, FramesGained DEF check_alarm, OtherFrames
    <2> QED
      BY <1>1, <1>3, <1>5, <2>1, <2>2, QuietStep
      DEF check_alarm, listVars, famVars
  <1>6. CASE check_sleep_list
    <2>1. CASE SleeperDue
      <3>1. /\ Head(list["sleep"]) \in Task
            /\ tstate[Head(list["sleep"])] = "interruptible"
        BY <2>1, HeadOfList DEF SleeperDue, Lists
      <3>2. QuietStates /\ node'[0] = "runnable"
        BY <1>6, <2>1, <3>1, QuietWake DEF check_sleep_list
      <3>3. GainsNo(OtherFrames) /\ GainsNo({"exit_ret"})
        BY <1>1, <1>6, <2>1, FramesGained DEF check_sleep_list
      <3> QED
        BY <1>1, <1>6, <3>2, <3>3, QuietStep DEF check_sleep_list, famVars
    <2>2. CASE ~SleeperDue
      <3>1. GainsNo(OtherFrames) /\ GainsNo({"exit_ret"})
        BY <1>1, <1>2, <1>4, <1>6, <2>2, FramesGained DEF check_sleep_list, OtherFrames
      <3> QED
        BY <1>1, <1>3, <1>6, <2>2, <3>1, QuietStep
        DEF check_sleep_list, listVars, famVars
    <2> QED
      BY <2>1, <2>2
  <1>7. CASE find_runnable_task
    <2> DEFINE f == [pc |-> "switch", next |-> Head(list["runnable"])]
    <2>1. list["runnable"] # <<>>
      BY <1>7 DEF find_runnable_task
    <2>2. Head(list["runnable"]) \in Task
      BY <2>1, HeadOfList DEF Lists
    <2>3. f \in FrameSet /\ f.pc = "switch"
      BY <2>2 DEF FrameSet, Frames
    <2>4. Goto(f) /\ UNCHANGED panic
      BY <1>7, <2>1 DEF find_runnable_task
    <2> HIDE DEF f
    <2>5. GainsNo(OtherFrames) /\ GainsNo({"exit_ret"})
      BY <1>1, <1>4, <2>3, <2>4, FramesGained DEF OtherFrames
    <2> QED
      BY <1>1, <1>3, <1>7, <2>4, <2>5, QuietStep
      DEF find_runnable_task, famVars, timeVars
  <1>8. CASE switch_to_task
    <2>1. GainsNo(OtherFrames) /\ GainsNo({"exit_ret"})
      BY <1>1, <1>2, <1>4, <1>8, FramesGained DEF switch_to_task, OtherFrames
    <2> QED
      BY <1>1, <1>3, <1>8, <2>1, QuietStep
      DEF switch_to_task, listVars, famVars, timeVars
  <1>9. CASE check_signals
    <2>1. Effective(task_curr) = {}
      BY <1>1 DEF Effective, Quiet, SIG_DI, SIG_DC, SIGCHLD
    <2>2. GainsNo(OtherFrames) /\ GainsNo({"exit_ret"})
      BY <1>1, <1>4, <1>9, <2>1, FramesGained DEF check_signals
    <2> QED
      BY <1>1, <1>3, <1>9, <2>1, <2>2, QuietStep
      DEF check_signals, listVars, famVars, timeVars
  <1>10. CASE trap_ret
    <2>1. GainsNo(OtherFrames) /\ GainsNo({"exit_ret"})
      BY <1>1, <1>4, <1>10, FramesGained DEF trap_ret
    <2>2. UNCHANGED panic
      BY <1>1, <1>10 DEF trap_ret, Quiet
    <2> QED
      BY <1>1, <1>3, <1>10, <2>1, <2>2, QuietStep
      DEF trap_ret, listVars, famVars, timeVars
  <1> QED
    BY <1>5, <1>6, <1>7, <1>8, <1>9, <1>10

\* do_exit of a user program, which task 0 and init are not
LEMMA ExitQuiet ==
  ASSUME Running, RunInv, RunProc, Quiet, UserMode, task_curr # 0, do_exit
  PROVE  QuietInv'
PROOF
  <1>1. kstack \in [Task -> Seq(FrameSet)] /\ task_curr \in Task /\ OtherTypes
    BY DEF RunInv, OtherTypes
  <1>2. CASE task_curr = 1
    BY <1>2 DEF do_exit, QuietInv, NoPanic, Running
  <1>3. CASE task_curr # 1
    <2> DEFINE f == Frame("notify")
               s == <<f>>
    <2>1. f \in FrameSet /\ f.pc = "notify"
      BY FrameIsFrame DEF Frames, Frame
    <2>2. kstack' = [kstack EXCEPT ![task_curr] = s]
      BY DEF do_exit
    <2>3. ~InStack(s, OtherFrames) /\ ~InStack(s, {"exit_ret"})
      BY <2>1, SmallStacks DEF OtherFrames
    <2> HIDE DEF s
    <2>4. \A t \in Task : kstack'[t] = IF t = task_curr THEN s ELSE kstack[t]
      BY <1>1, <2>2
    <2>5. GainsNo(OtherFrames) /\ GainsNo({"exit_ret"})
      BY <2>3, <2>4 DEF GainsNo
    <2>6. remove_from_runnable_list("zombie", "zombie",
                                    PushBack(Without, "zombie", task_curr))
      BY <1>3 DEF do_exit
    <2>7. QuietStates /\ node'[0] = "runnable" /\ UNCHANGED panic
      BY <2>6, QuietBlock
    <2>8. UNCHANGED task_alarm_list
      <3>1. task_alarm_list = <<>> /\ ~Contains(<<>>, task_curr)
        BY DEF Quiet, Contains
      <3>2. RemoveFirst(<<>>, task_curr) = <<>>
        BY <3>1 DEF RemoveFirst, Contains
      <3> QED
        BY <3>1, <3>2 DEF do_exit
    <2> QED
      BY <1>1, <2>5, <2>7, <2>8, QuietStep DEF do_exit, famVars
  <1> QED
    BY <1>2, <1>3

\* notify_parent finds a parent that send_signal knows what to do with.
LEMMA NotifyQuiet ==
  ASSUME Running, RunInv, RunProc, Quiet, notify_parent
  PROVE  QuietInv'
PROOF
  <1>1. kstack \in [Task -> Seq(FrameSet)] /\ task_curr \in Task /\ OtherTypes
        /\ ListTypes
    BY DEF RunInv, OtherTypes
  <1>2. 0 \in Task /\ 0 \in Exists /\ Exists \subseteq Task
    BY <1>1, SchedAssumption DEF OtherTypes, Task, Exists
  <1>3. ~UserMode /\ Top.pc = "notify"
    BY DEF notify_parent, At
  <1>4. tstate[task_curr] = "zombie"
    <2>1. InStack(kstack[task_curr], {"notify"})
      BY <1>1, <1>3, InTopOrTail DEF UserMode, Top
    <2> QED
      BY <1>1, <2>1 DEF RunInv, ExitingAreZombies, InStack
  <1>5. task_curr \in Exists \ {0}
    <2>1. task_curr \in Exists
      BY <1>1, <1>4 DEF RunInv, UnbornUnlinked
    <2>2. tstate[0] = "running"
      BY <1>2 DEF Quiet, RunInv, Linked, StateMatchesNode
    <2> QED
      BY <1>4, <2>1, <2>2
  <1>6. PICK p \in Exists : p = parent[task_curr]
    BY <1>5 DEF Quiet
  <1>7. p \in Task /\ p # None
    BY <1>1, <1>2, <1>6, SchedAssumption DEF Task, None
  <1>8. tstate[p] \in {"running", "interruptible", "zombie"}
    BY <1>6 DEF Quiet
  <1>9. send_signal(SIGCHLD, p)
    BY <1>6, <1>7 DEF notify_parent
  <1>10. UNCHANGED panic
    BY <1>8, <1>9 DEF send_signal
  <1>11. QuietStates /\ node'[0] = "runnable" /\ tstate'[task_curr] = "zombie"
    <2>1. CASE Wakes(SIGCHLD, p) /\ add_to_runnable_list(p)
      <3>1. tstate[p] = "interruptible"
        BY <2>1 DEF Wakes
      <3>2. QuietStates /\ node'[0] = "runnable"
        BY <1>7, <2>1, <3>1, QuietWake
      <3>3. p # task_curr
        BY <1>4, <3>1
      <3>4. tstate'[task_curr] = tstate[task_curr]
        BY <1>1, <1>7, <2>1, <3>3 DEF add_to_runnable_list, ListTypes
      <3> QED
        BY <1>4, <3>2, <3>4
    <2>2. CASE UNCHANGED listVars
      BY <1>4, <2>2 DEF listVars, QuietStates, Quiet
    <2> QED
      BY <1>9, <2>1, <2>2 DEF send_signal
  <1>12. \A t \in Task : sig'[t] \subseteq {SIGCHLD}
    BY <1>1, <1>7, <1>9 DEF send_signal, OtherTypes, Quiet
  <1> DEFINE s == schedule(<<Frame("exit_ret")>>)
  <1>13. ~InStack(s, OtherFrames)
    BY ScheduleStack DEF Frames, OtherFrames
  <1>14. \A t \in Task : kstack'[t] = IF t = task_curr THEN s ELSE kstack[t]
    BY <1>1 DEF notify_parent
  <1> HIDE DEF s
  <1>15. ASSUME NEW t \in Task
         PROVE  /\ ~InStack(kstack'[t], OtherFrames)
                /\ InStack(kstack'[t], {"exit_ret"}) => tstate'[t] = "zombie"
    <2>1. CASE t = task_curr
      BY <2>1, <1>11, <1>13, <1>14
    <2>2. CASE t # task_curr
      BY <2>2, <1>11, <1>14 DEF Quiet, QuietStates, OtherFrames
    <2> QED
      BY <2>1, <2>2
  <1>16. UNCHANGED <<next_task_id, parent, n_cli, task_alarm_list>> /\ Exists' = Exists
    BY DEF notify_parent, famVars, timeVars, Exists
  <1>17. \A t \in Exists : tstate'[t] \in {"running", "interruptible", "zombie"}
    BY <1>2, <1>11 DEF QuietStates, Quiet
  <1>18. Quiet'
    BY <1>11, <1>12, <1>15, <1>16, <1>17 DEF Quiet, OtherFrames
  <1> QED
    BY <1>10, <1>18 DEF QuietInv, NoPanic, Running

\* The calls of user programs
LEMMA CallsQuiet ==
  ASSUME Calls \subseteq QuietCalls, Running, RunInv, RunProc, Quiet, User
  PROVE  QuietInv'
PROOF
  <1>1. kstack \in [Task -> Seq(FrameSet)] /\ task_curr \in Task /\ OtherTypes
        /\ ListTypes
    BY DEF RunInv, OtherTypes
  <1>2. ~Syscall("wait") /\ ~Syscall("lock") /\ ~Syscall("alarm") /\ ~Syscall("kill")
    BY DEF Syscall, QuietCalls
  <1>3. /\ schedule(<<>>) \in Seq(FrameSet) /\ ~InStack(schedule(<<>>), OtherFrames)
        /\ ~InStack(schedule(<<>>), {"exit_ret"})
    <2>1. /\ schedule(<<>>) \in Seq(FrameSet) /\ ~InStack(schedule(<<>>), OtherFrames)
          /\ ~InStack(schedule(<<Frame("find")>>), OtherFrames)
      <3>1. "find" \in Frames /\ "find" \notin OtherFrames
            /\ "check_alarm" \notin OtherFrames
        BY DEF Frames, OtherFrames
      <3> QED
        BY <3>1, ScheduleStack
    <2>2. /\ ~InStack(schedule(<<>>), {"exit_ret"})
          /\ ~InStack(schedule(<<Frame("find")>>), {"exit_ret"})
      BY ScheduleStack DEF Frames
    <2> QED
      BY <2>1, <2>2
  <1>4. ASSUME Push(schedule(<<>>))
        PROVE  GainsNo(OtherFrames) /\ GainsNo({"exit_ret"})
    BY <1>1, <1>3, <1>4, FramesGained
  <1>5. CASE sys_yield
    BY <1>1, <1>4, <1>5, QuietStep
    DEF sys_yield, QuietStates, Quiet, listVars, famVars, timeVars
  <1>6. CASE sys_pause
    <2>1. QuietStates /\ node'[0] = "runnable" /\ UNCHANGED panic
      BY <1>6, QuietBlock DEF sys_pause, Syscall
    <2> QED
      BY <1>1, <1>4, <1>6, <2>1, QuietStep DEF sys_pause, famVars, timeVars
  <1>7. CASE sys_cgetc
    <2>1. QuietStates /\ node'[0] = "runnable" /\ UNCHANGED panic
      BY <1>7, QuietBlock DEF sys_cgetc, Syscall
    <2> QED
      BY <1>1, <1>4, <1>7, <2>1, QuietStep DEF sys_cgetc, famVars, timeVars
  <1>8. ASSUME NEW s, sys_sleep(s) PROVE QuietInv'
    <2>1. QuietStates /\ node'[0] = "runnable" /\ UNCHANGED panic
      BY <1>8, QuietBlock DEF sys_sleep, Syscall
    <2> QED
      BY <1>1, <1>4, <1>8, <2>1, QuietStep DEF sys_sleep, famVars
  <1>9. CASE sys_exit
    BY <1>9, ExitQuiet DEF sys_exit, Syscall
  <1>10. CASE sys_fork
    <2> DEFINE c == next_task_id
    <2>1. /\ c \in Task \ Exists /\ c # 0 /\ Exists \subseteq Task /\ 0 \in Task
          /\ Exists' = Exists \cup {c}
      <3>1. c \in Nat /\ c >= 2 /\ c < MaxTasks /\ MaxTasks \in Nat
            /\ next_task_id' = c + 1
        BY <1>1, <1>10, SchedAssumption DEF OtherTypes, sys_fork
      <3>2. Exists = 0 .. (c - 1) /\ Exists' = 0 .. ((c + 1) - 1)
            /\ Task = 0 .. (MaxTasks - 1)
        BY <3>1 DEF Exists, Task
      <3> HIDE DEF c
      <3>3. 0 .. ((c + 1) - 1) = (0 .. (c - 1)) \cup {c}
        BY <3>1
      <3> QED
        BY <3>1, <3>2, <3>3
    <2>2. tstate[c] = "not_runnable"
      BY <2>1 DEF RunInv, UnbornUnlinked
    <2>3. /\ \A t \in Task : tstate'[t] = IF t = c THEN "running" ELSE tstate[t]
          /\ \A t \in Task : node'[t] = IF t = c THEN "runnable" ELSE node[t]
          /\ \A t \in Task : parent'[t] = IF t = c THEN task_curr ELSE parent[t]
      BY <1>1, <1>10, <2>1 DEF sys_fork, ListTypes, OtherTypes
    <2>4. UNCHANGED <<kstack, sig, n_cli, task_alarm_list, panic>> /\ UserMode
      BY <1>10 DEF sys_fork, Syscall
    <2>5. task_curr \in Exists
      <3>1. tstate[task_curr] = "running"
        BY <2>4, BackFromSchedule
      <3> QED
        BY <1>1, <3>1 DEF RunInv, UnbornUnlinked
    <2>6. \A t \in Exists' : tstate'[t] \in {"running", "interruptible", "zombie"}
      BY <2>1, <2>3 DEF Quiet
    <2>7. \A t \in Exists' \ {0} : parent'[t] \in Exists'
      BY <2>1, <2>3, <2>5 DEF Quiet
    <2>8. ASSUME NEW t \in Task
          PROVE  /\ sig'[t] \subseteq {SIGCHLD} /\ n_cli'[t] = 0
                 /\ ~InStack(kstack'[t], OtherFrames)
                 /\ InStack(kstack'[t], {"exit_ret"}) => tstate'[t] = "zombie"
      BY <2>2, <2>3, <2>4 DEF Quiet, OtherFrames
    <2>9. node'[0] = "runnable" /\ task_alarm_list' = <<>>
      BY <2>1, <2>3, <2>4 DEF Quiet
    <2>10. Quiet'
      BY <2>6, <2>7, <2>8, <2>9 DEF Quiet, OtherFrames
    <2> QED
      BY <2>4, <2>10 DEF QuietInv, NoPanic, Running
  <1> QED
    BY <1>2, <1>5, <1>6, <1>7, <1>8, <1>9, <1>10
    DEF User, sys_wait, inode_lock, sys_alarm, sys_kill

\* Ticks and key presses
LEMMA InterruptQuiet ==
  ASSUME Running, RunInv, Quiet, do_timer \/ do_irq_keyboard
  PROVE  QuietInv'
PROOF
  <1>1. kstack \in [Task -> Seq(FrameSet)] /\ task_curr \in Task /\ OtherTypes
    BY DEF RunInv, OtherTypes
  <1>2. n_cli[task_curr] = 0
    BY <1>1 DEF Quiet
  <1>3. CASE do_timer
    <2>1. GainsNo(OtherFrames) /\ GainsNo({"exit_ret"})
      <3>1. /\ schedule(<<Frame("trap_ret")>>) \in Seq(FrameSet)
            /\ ~InStack(schedule(<<Frame("trap_ret")>>), OtherFrames)
        <4>1. "trap_ret" \in Frames /\ "trap_ret" \notin OtherFrames
              /\ "check_alarm" \notin OtherFrames
          BY DEF Frames, OtherFrames
        <4> QED
          BY <4>1, ScheduleStack
      <3>2. ~InStack(schedule(<<Frame("trap_ret")>>), {"exit_ret"})
        BY ScheduleStack DEF Frames
      <3> QED
        BY <1>1, <1>3, <3>1, <3>2, FramesGained DEF do_timer
    <2> QED
      BY <1>1, <1>2, <1>3, <2>1, QuietStep
      DEF do_timer, QuietStates, Quiet, listVars, famVars
  <1>4. CASE do_irq_keyboard
    <2>1. /\ Head(list["input"]) \in Task
          /\ tstate[Head(list["input"])] = "interruptible"
      BY <1>4, HeadOfList DEF do_irq_keyboard, Lists
    <2>2. QuietStates /\ node'[0] = "runnable"
      BY <1>4, <2>1, QuietWake DEF do_irq_keyboard
    <2>3. GainsNo(OtherFrames) /\ GainsNo({"exit_ret"})
      BY <1>1, <1>4, FramesGained DEF do_irq_keyboard
    <2> QED
      BY <1>1, <1>2, <1>4, <2>2, <2>3, QuietStep DEF do_irq_keyboard, famVars, timeVars
  <1> QED
    BY <1>3, <1>4

\* The frames that such programs never push are never returned to.
LEMMA NeverReturnedTo ==
  ASSUME RunInv, RunProc, Quiet
  PROVE  ~exit_ret /\ ~wait_ret /\ ~lock_ret /\ ~inode_unlock
PROOF
  <1>1. kstack[task_curr] \in Seq(FrameSet) /\ task_curr \in Task
    BY DEF RunInv, OtherTypes
  <1>2. ASSUME ~UserMode PROVE Top.pc \notin OtherFrames
    BY <1>1, <1>2, InTopOrTail DEF Quiet, UserMode, Top, OtherFrames
  <1>3. ASSUME ~UserMode, Top.pc = "exit_ret" PROVE FALSE
    <2>1. InStack(kstack[task_curr], {"exit_ret"})
      BY <1>1, <1>3, InTopOrTail DEF UserMode, Top
    <2>2. tstate[task_curr] = "running"
      BY <1>3, BackFromSchedule
    <2> QED
      BY <1>1, <2>1, <2>2 DEF Quiet
  <1> QED
    BY <1>2, <1>3 DEF exit_ret, wait_ret, lock_ret, inode_unlock, At, OtherFrames

\* QuietInv holds at the start
LEMMA InitQuiet == Init => QuietInv
PROOF
  <1> SUFFICES ASSUME Init PROVE QuietInv
    OBVIOUS
  <1>1. 0 \in Task /\ Frame("find") \in FrameSet /\ Exists = {0, 1} /\ 1 \in Task
    BY SchedAssumption, FrameIsFrame DEF Task, Frames, Exists, Init
  <1>2. \A P : ~InStack(<<>>, P)
    BY <1>1, SmallStacks
  <1>3. \A t \in Task : kstack[t] = <<>> /\ sig[t] = {} /\ n_cli[t] = 0
    BY DEF Init
  <1>4. /\ node[0] = "runnable" /\ task_alarm_list = <<>> /\ panic = "none"
        /\ tstate[0] = "running" /\ tstate[1] = "running" /\ parent[1] = 0
    BY <1>1 DEF Init
  <1> QED
    BY <1>1, <1>2, <1>3, <1>4 DEF QuietInv, NoPanic, Quiet

\* and every step keeps it.
LEMMA NextQuiet ==
  ASSUME Calls \subseteq QuietCalls
  PROVE  IndInv /\ IndInv' /\ ProcInv /\ QuietInv /\ [Next]_vars => QuietInv'
PROOF
  <1> SUFFICES ASSUME IndInv, IndInv', ProcInv, QuietInv, [Next]_vars PROVE QuietInv'
    OBVIOUS
  <1>1. CASE UNCHANGED vars
    BY <1>1 DEF vars, QuietInv, NoPanic, Running, Quiet, Exists
  <1>2. CASE ~Running /\ Next
    BY <1>1, <1>2, HaltsForGood
  <1>3. CASE Running /\ Next /\ window' = "stale"
    BY <1>3 DEF QuietInv, NoPanic
  <1>4. CASE Running /\ Next /\ window' # "stale"
    <2>1. RunInv /\ RunProc /\ Quiet
      BY <1>4, RunInvHolds, WindowStep DEF ProcInv, RunProc, Fresh, QuietInv
    <2>2. panic' # "runq_empty"
      BY DEF IndInv, RunqNeverEmpty
    <2>3. CASE Kernel
      BY <1>4, <2>1, <2>2, <2>3, ScheduleQuiet, NotifyQuiet, NeverReturnedTo
      DEF Kernel
    <2>4. CASE User
      BY <1>4, <2>1, <2>4, CallsQuiet
    <2>5. CASE do_timer \/ do_irq_keyboard
      BY <1>4, <2>1, <2>5, InterruptQuiet
    <2>6. CASE Halt
      BY <1>1, <2>6 DEF Halt
    <2> QED
      BY <1>4, <2>3, <2>4, <2>5, <2>6 DEF Next
  <1> QED
    BY <1>1, <1>2, <1>3, <1>4

\* Until schedule() switches to a stale task_next, programs that only fork,
\* sleep, read the console, pause, yield and exit meet no assertion and no
\* PANIC of the kernel, except that init must not exit.
THEOREM QuietProgramsNoPanic ==
  ASSUME Calls \subseteq QuietCalls
  PROVE  Spec => []NoPanic
PROOF
  <1>1. IndInv /\ IndInv' /\ ProcInv /\ QuietInv /\ [Next]_vars => QuietInv'
    BY NextQuiet
  <1>2. QuietInv => NoPanic
    BY DEF QuietInv
  <1> QED
    BY <1>1, <1>2, InitQuiet, InvariantHolds, ProcessorInvariant, PTL DEF Spec
=============================================================================
