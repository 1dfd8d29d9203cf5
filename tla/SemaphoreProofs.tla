-------------------------- MODULE SemaphoreProofs --------------------------
(***************************************************************************)
(* Proofs about Semaphore, for any number of tasks and semaphores, any     *)
(* slice length and any nesting of ticks: the semaphores implement the     *)
(* lock of Mutex until an assertion of the code fails.                     *)
(***************************************************************************)
EXTENDS Semaphore, ListLemmas

\* Nothing of do_sempost is left to do on a kernel stack.
NoPost(k) == \A i \in 1..Len(k) : k[i].pc \notin {"post", "wakeup"}

-----------------------------------------------------------------------------
(* Kernel stacks.                                                          *)

\* A frame put on a stack adds to WakeupFrames exactly when it is one.
LEMMA ConsStack ==
  ASSUME NEW k \in Seq(FrameSet), NEW f \in FrameSet
  PROVE  /\ <<f>> \o k \in Seq(FrameSet) /\ <<f>> \o k # <<>>
         /\ Head(<<f>> \o k) = f
         /\ Len(<<f>> \o k) = Len(k) + 1
         /\ WakeupFrames(<<f>> \o k) =
              WakeupFrames(k) \cup (IF f.pc = "wakeup" THEN {Len(k) + 1} ELSE {})
         /\ NoPost(<<f>> \o k) <=> NoPost(k) /\ f.pc \notin {"post", "wakeup"}
PROOF
  <1> DEFINE c == <<f>> \o k
  <1>1. /\ c \in Seq(FrameSet) /\ Len(c) = Len(k) + 1 /\ Len(k) \in Nat
        /\ c[1] = f
        /\ \A i \in 1..Len(k) : c[i + 1] = k[i]
    BY ConcatProperties
  <1>2. c # <<>> /\ Head(c) = f
    BY <1>1, HeadTailProperties
  <1> HIDE DEF c
  <1>3. ASSUME NEW i \in 1..Len(k) PROVE c[Len(c) + 1 - i] = k[Len(k) + 1 - i]
    <2>1. Len(k) + 1 - i \in 1..Len(k) /\ Len(c) + 1 - i = (Len(k) + 1 - i) + 1
      BY <1>1
    <2> QED
      BY <1>1, <2>1
  <1>4. c[Len(c) + 1 - (Len(k) + 1)] = f
    BY <1>1
  <1>5. 1..Len(c) = 1..Len(k) \cup {Len(k) + 1} /\ Len(k) + 1 \notin 1..Len(k)
    BY <1>1
  <1>6. WakeupFrames(c) =
          WakeupFrames(k) \cup (IF f.pc = "wakeup" THEN {Len(k) + 1} ELSE {})
    BY <1>3, <1>4, <1>5 DEF WakeupFrames
  <1>7. NoPost(c) <=> NoPost(k) /\ f.pc \notin {"post", "wakeup"}
    <2>1. ASSUME NoPost(c) PROVE NoPost(k) /\ f.pc \notin {"post", "wakeup"}
      <3>1. 1 \in 1..Len(c) /\ \A i \in 1..Len(k) : i + 1 \in 1..Len(c)
        BY <1>1
      <3> QED
        BY <1>1, <2>1, <3>1 DEF NoPost
    <2>2. ASSUME NoPost(k), f.pc \notin {"post", "wakeup"}, NEW i \in 1..Len(c)
          PROVE  c[i].pc \notin {"post", "wakeup"}
      <3>1. CASE i = 1
        BY <1>1, <2>2, <3>1
      <3>2. CASE i > 1
        <4>1. i - 1 \in 1..Len(k) /\ c[(i - 1) + 1] = k[i - 1]
          BY <1>1, <3>2
        <4> QED
          BY <4>1, <2>2 DEF NoPost
      <3> QED
        BY <1>1, <3>1, <3>2
    <2> QED
      BY <2>1, <2>2 DEF NoPost
  <1> QED
    BY <1>1, <1>2, <1>6, <1>7 DEF c

\* A stack that is not empty is its top frame on the rest.
LEMMA TailStack ==
  ASSUME NEW k \in Seq(FrameSet), k # <<>>
  PROVE  /\ Tail(k) \in Seq(FrameSet) /\ Head(k) \in FrameSet
         /\ Len(k) = Len(Tail(k)) + 1
         /\ Len(k) \notin WakeupFrames(Tail(k))
         /\ WakeupFrames(k) = WakeupFrames(Tail(k))
              \cup (IF Head(k).pc = "wakeup" THEN {Len(k)} ELSE {})
         /\ NoPost(k) => NoPost(Tail(k)) /\ Head(k).pc \notin {"post", "wakeup"}
PROOF
  <1>1. /\ Tail(k) \in Seq(FrameSet) /\ Head(k) \in FrameSet
        /\ Len(Tail(k)) = Len(k) - 1 /\ Len(k) >= 1 /\ Len(k) \in Nat
        /\ k = <<Head(k)>> \o Tail(k)
    BY HeadTailProperties, ConcatProperties
  <1>2. /\ WakeupFrames(k) = WakeupFrames(Tail(k))
             \cup (IF Head(k).pc = "wakeup" THEN {Len(Tail(k)) + 1} ELSE {})
        /\ NoPost(k) <=> NoPost(Tail(k)) /\ Head(k).pc \notin {"post", "wakeup"}
    BY <1>1, ConsStack, ZenonT(30)
  <1>3. Len(k) \notin WakeupFrames(Tail(k))
    BY <1>1 DEF WakeupFrames
  <1> QED
    BY <1>1, <1>2, <1>3

\* The type of the kernel stacks
StackTypes == task_curr \in Task /\ kstack \in [Task -> Seq(FrameSet)]

\* A step that leaves every half-done post where it is
QuietStacks ==
  /\ kstack' \in [Task -> Seq(FrameSet)]
  /\ \A t \in Task : /\ WakeupFrames(kstack'[t]) = WakeupFrames(kstack[t])
                     /\ NoPost(kstack[t]) => NoPost(kstack'[t])

\* A call of schedule() by the current task
LEMMA PushSchedule ==
  ASSUME StackTypes, Push(schedule)
  PROVE  QuietStacks /\ kstack'[task_curr] # <<>> /\ Head(kstack'[task_curr]).pc = "hook"
PROOF
  <1> DEFINE c == task_curr
             f == Frame("hook", None)
  <1>1. c \in Task /\ kstack[c] \in Seq(FrameSet)
    BY DEF StackTypes
  <1>2. f \in FrameSet /\ f.pc = "hook"
    BY DEF Frame, FrameSet
  <1>3. kstack' = [kstack EXCEPT ![c] = <<f>> \o kstack[c]]
    BY DEF Push, schedule, StackTypes
  <1> HIDE DEF c, f
  <1>4. /\ <<f>> \o kstack[c] \in Seq(FrameSet) /\ <<f>> \o kstack[c] # <<>>
        /\ Head(<<f>> \o kstack[c]) = f
        /\ WakeupFrames(<<f>> \o kstack[c]) = WakeupFrames(kstack[c])
        /\ NoPost(kstack[c]) => NoPost(<<f>> \o kstack[c])
    BY <1>1, <1>2, ConsStack
  <1>5. kstack' \in [Task -> Seq(FrameSet)]
    BY <1>1, <1>3, <1>4 DEF StackTypes
  <1>6. ASSUME NEW t \in Task
        PROVE  kstack'[t] = IF t = c THEN <<f>> \o kstack[c] ELSE kstack[t]
    BY <1>3, <1>1 DEF StackTypes
  <1>7. kstack'[c] = <<f>> \o kstack[c]
    BY <1>1, <1>6
  <1>8. Head(kstack'[c]).pc = "hook" /\ kstack'[c] # <<>>
    BY <1>7, <1>4, <1>2
  <1>9. QuietStacks
    BY <1>4, <1>5, <1>6 DEF QuietStacks
  <1> QED
    BY <1>8, <1>9 DEF c

\* The same when schedule() is called from sys_semwait and returns into it
LEMMA PushScheduleRet ==
  ASSUME StackTypes, NEW s \in Sem, Push(schedule \o <<Frame("wait_ret", s)>>)
  PROVE  QuietStacks /\ kstack'[task_curr] # <<>> /\ Head(kstack'[task_curr]).pc = "hook"
PROOF
  <1> DEFINE c == task_curr
             f == Frame("hook", None)
             g == Frame("wait_ret", s)
             k == <<g>> \o kstack[c]
  <1>1. c \in Task /\ kstack[c] \in Seq(FrameSet)
    BY DEF StackTypes
  <1>2. f \in FrameSet /\ f.pc = "hook" /\ g \in FrameSet /\ g.pc = "wait_ret"
    BY DEF Frame, FrameSet
  <1>3. (<<f>> \o <<g>>) \o kstack[c] = <<f>> \o k
    BY <1>1, <1>2, ConcatAssociative
  <1>4. kstack' = [kstack EXCEPT ![c] = <<f>> \o k]
    BY <1>3 DEF Push, schedule, StackTypes
  <1> HIDE DEF c, f, g
  <1>5. /\ k \in Seq(FrameSet) /\ WakeupFrames(k) = WakeupFrames(kstack[c])
        /\ NoPost(kstack[c]) => NoPost(k)
    BY <1>1, <1>2, ConsStack
  <1> HIDE DEF k
  <1>6. /\ <<f>> \o k \in Seq(FrameSet) /\ <<f>> \o k # <<>> /\ Head(<<f>> \o k) = f
        /\ WakeupFrames(<<f>> \o k) = WakeupFrames(k)
        /\ NoPost(k) => NoPost(<<f>> \o k)
    BY <1>5, <1>2, ConsStack
  <1>7. kstack' \in [Task -> Seq(FrameSet)]
    BY <1>1, <1>4, <1>6 DEF StackTypes
  <1>8. ASSUME NEW t \in Task
        PROVE  kstack'[t] = IF t = c THEN <<f>> \o k ELSE kstack[t]
    BY <1>4, <1>1 DEF StackTypes
  <1>9. kstack'[c] # <<>> /\ Head(kstack'[c]).pc = "hook"
    BY <1>1, <1>8, <1>6, <1>2
  <1>10. QuietStacks
    BY <1>5, <1>6, <1>7, <1>8 DEF QuietStacks
  <1> QED
    BY <1>9, <1>10 DEF c

\* The current task leaves its top frame f and goes on at frame g.
LEMMA GotoFrame ==
  ASSUME StackTypes, ~UserMode, NEW g \in FrameSet, Goto(g)
  PROVE  LET c == task_curr
             r == WakeupFrames(Tail(kstack[c]))
             n == Len(kstack[c])
         IN  /\ kstack' \in [Task -> Seq(FrameSet)]
             /\ kstack'[c] # <<>> /\ Head(kstack'[c]) = g /\ n \notin r
             /\ \A t \in Task \ {c} : kstack'[t] = kstack[t]
             /\ WakeupFrames(kstack[c]) = r \cup (IF Top.pc = "wakeup" THEN {n} ELSE {})
             /\ WakeupFrames(kstack'[c]) = r \cup (IF g.pc = "wakeup" THEN {n} ELSE {})
             /\ NoPost(kstack[c]) /\ g.pc \notin {"post", "wakeup"} => NoPost(kstack'[c])
             /\ Top.pc \in {"post", "wakeup"} => ~NoPost(kstack[c])
PROOF
  <1> DEFINE c == task_curr
             k == kstack[c]
             r == Tail(k)
  <1>1. c \in Task /\ k \in Seq(FrameSet) /\ k # <<>>
    BY DEF StackTypes, UserMode
  <1>2. kstack' = [kstack EXCEPT ![c] = <<g>> \o r]
    BY DEF Goto, StackTypes
  <1>3. /\ r \in Seq(FrameSet) /\ Len(k) = Len(r) + 1 /\ Len(k) \notin WakeupFrames(r)
        /\ WakeupFrames(k) = WakeupFrames(r)
              \cup (IF Head(k).pc = "wakeup" THEN {Len(k)} ELSE {})
        /\ NoPost(k) => NoPost(r) /\ Head(k).pc \notin {"post", "wakeup"}
    BY <1>1, TailStack
  <1>4. /\ <<g>> \o r \in Seq(FrameSet) /\ <<g>> \o r # <<>> /\ Head(<<g>> \o r) = g
        /\ WakeupFrames(<<g>> \o r) = WakeupFrames(r)
              \cup (IF g.pc = "wakeup" THEN {Len(r) + 1} ELSE {})
        /\ NoPost(<<g>> \o r) <=> NoPost(r) /\ g.pc \notin {"post", "wakeup"}
    BY <1>3, ConsStack
  <1>5. kstack' \in [Task -> Seq(FrameSet)]
    BY <1>1, <1>2, <1>4 DEF StackTypes
  <1>6. kstack'[c] = <<g>> \o r /\ \A t \in Task \ {c} : kstack'[t] = kstack[t]
    BY <1>1, <1>2 DEF StackTypes
  <1>7. Top = Head(k)
    BY DEF Top
  <1> QED
    BY <1>3, <1>4, <1>5, <1>6, <1>7

\* The current task drops a top frame that is no part of do_sempost.
LEMMA PopFrame ==
  ASSUME StackTypes, ~UserMode, Top.pc \notin {"post", "wakeup"},
         kstack' = [kstack EXCEPT ![task_curr] = Tail(@)]
  PROVE  QuietStacks
PROOF
  <1> DEFINE c == task_curr
             k == kstack[c]
  <1>1. c \in Task /\ k \in Seq(FrameSet) /\ k # <<>>
    BY DEF StackTypes, UserMode
  <1>2. Head(k).pc # "wakeup"
    BY DEF Top
  <1>3. /\ Tail(k) \in Seq(FrameSet)
        /\ WakeupFrames(k) = WakeupFrames(Tail(k))
        /\ NoPost(k) => NoPost(Tail(k))
    <2> HIDE DEF k
    <2>1. /\ Tail(k) \in Seq(FrameSet)
          /\ WakeupFrames(k) = WakeupFrames(Tail(k))
               \cup (IF Head(k).pc = "wakeup" THEN {Len(k)} ELSE {})
          /\ NoPost(k) => NoPost(Tail(k))
      BY <1>1, TailStack
    <2> QED
      BY <2>1, <1>2
  <1>4. kstack' \in [Task -> Seq(FrameSet)]
    BY <1>1, <1>3 DEF StackTypes
  <1>5. \A t \in Task : kstack'[t] = IF t = c THEN Tail(k) ELSE kstack[t]
    BY <1>1 DEF StackTypes
  <1> QED
    BY <1>3, <1>4, <1>5 DEF QuietStacks

-----------------------------------------------------------------------------
(* The queues.                                                             *)

QueueTypes == runq \in Seq(Task) /\ wait_list \in [Sem -> Seq(Task)]

\* A user task goes from the runnable queue to the wait list of s.
LEMMA QueueSleep ==
  ASSUME QueueTypes, QueueInv, NEW s \in Sem, NEW c \in Task, c # 0,
         Contains(runq, c), runq' = RemoveFirst(runq, c),
         wait_list' = [wait_list EXCEPT ![s] = Append(@, c)]
  PROVE  /\ QueueTypes' /\ QueueInv'
         /\ \A r \in Sem, t \in Task : Contains(wait_list'[r], t) <=>
              Contains(wait_list[r], t) \/ (r = s /\ t = c)
         /\ ~Contains(wait_list[s], c)
PROOF
  <1>1. \A r \in Sem : /\ wait_list[r] \in Seq(Task) /\ IsInjective(wait_list[r])
                       /\ ~Contains(wait_list[r], c)
    BY DEF QueueTypes, QueueInv
  <1>2. /\ runq' \in Seq(Task) /\ IsInjective(runq')
        /\ \A x : Contains(runq', x) <=> Contains(runq, x) /\ x # c
    BY RemoveFirstList DEF QueueTypes, QueueInv
  <1>3. /\ Append(wait_list[s], c) \in Seq(Task) /\ IsInjective(Append(wait_list[s], c))
        /\ \A x : Contains(Append(wait_list[s], c), x) <=> Contains(wait_list[s], x) \/ x = c
    BY <1>1, AppendList
  <1>4. ASSUME NEW r \in Sem
        PROVE  wait_list'[r] = IF r = s THEN Append(wait_list[s], c) ELSE wait_list[r]
    BY DEF QueueTypes
  <1>5. QueueTypes'
    BY <1>2, <1>3 DEF QueueTypes
  <1>6. \A r \in Sem, t \in Task : Contains(wait_list'[r], t) <=>
              Contains(wait_list[r], t) \/ (r = s /\ t = c)
    BY <1>3, <1>4
  <1>7. \A r \in Sem : IsInjective(wait_list'[r])
    BY <1>1, <1>3, <1>4
  <1>8. QueueInv'
    BY <1>1, <1>2, <1>6, <1>7 DEF QueueInv
  <1> QED
    BY <1>1, <1>5, <1>6, <1>8

\* The first waiter of s becomes runnable.
LEMMA QueueWake ==
  ASSUME QueueTypes, QueueInv, NEW s \in Sem, wait_list[s] # <<>>,
         runq' = Append(runq, Head(wait_list[s])),
         wait_list' = [wait_list EXCEPT ![s] = Tail(@)]
  PROVE  /\ QueueTypes' /\ QueueInv'
         /\ Head(wait_list[s]) \in Task /\ Contains(wait_list[s], Head(wait_list[s]))
         /\ \A r \in Sem, t \in Task : Contains(wait_list'[r], t) <=>
              Contains(wait_list[r], t) /\ ~(r = s /\ t = Head(wait_list[s]))
         /\ \A t \in Task : Contains(runq, t) => Contains(runq', t)
PROOF
  <1> DEFINE w == wait_list[s]
             h == Head(w)
  <1>1. w \in Seq(Task) /\ IsInjective(w) /\ w # <<>>
    BY DEF QueueTypes, QueueInv
  <1>2. /\ h \in Task /\ Contains(w, h) /\ Tail(w) \in Seq(Task) /\ IsInjective(Tail(w))
        /\ \A x : Contains(Tail(w), x) <=> Contains(w, x) /\ x # h
    BY <1>1, TailList, TailContains
  <1>3. runq \in Seq(Task) /\ IsInjective(runq) /\ ~Contains(runq, h)
    BY <1>2 DEF QueueTypes, QueueInv
  <1>4. /\ runq' \in Seq(Task) /\ IsInjective(runq')
        /\ \A x : Contains(runq', x) <=> Contains(runq, x) \/ x = h
    BY <1>2, <1>3, AppendList
  <1>5. ASSUME NEW r \in Sem
        PROVE  wait_list'[r] = IF r = s THEN Tail(w) ELSE wait_list[r]
    BY DEF QueueTypes
  <1>6. QueueTypes'
    BY <1>2, <1>4 DEF QueueTypes
  <1>7. \A r \in Sem : Contains(wait_list[r], h) => r = s
    BY <1>2 DEF QueueInv
  <1>8. \A r \in Sem, t \in Task : Contains(wait_list'[r], t) <=>
              Contains(wait_list[r], t) /\ ~(r = s /\ t = h)
    BY <1>2, <1>5
  <1>9. \A r \in Sem : IsInjective(wait_list'[r])
    BY <1>2, <1>5 DEF QueueInv
  <1>10. ASSUME NEW r \in Sem, NEW t \in Task, Contains(wait_list'[r], t)
         PROVE  /\ ~Contains(runq', t)
                /\ \A q \in Sem : Contains(wait_list'[q], t) => q = r
    <2>1. Contains(wait_list[r], t) /\ ~(r = s /\ t = h)
      BY <1>8, <1>10
    <2>2. t # h
      BY <2>1, <1>7
    <2> QED
      BY <2>1, <2>2, <1>4, <1>8 DEF QueueInv
  <1>11. QueueInv'
    BY <1>4, <1>9, <1>10 DEF QueueInv
  <1> QED
    BY <1>2, <1>4, <1>6, <1>8, <1>11

\* A user task leaves the runnable queue for good.
LEMMA QueueLeave ==
  ASSUME QueueTypes, QueueInv, NEW c, c # 0, runq' = RemoveFirst(runq, c),
         wait_list' = wait_list
  PROVE  QueueTypes' /\ QueueInv'
PROOF
  <1>1. /\ runq' \in Seq(Task) /\ IsInjective(runq')
        /\ \A x : Contains(runq', x) <=> Contains(runq, x) /\ x # c
    BY RemoveFirstList DEF QueueTypes, QueueInv
  <1> QED
    BY <1>1 DEF QueueTypes, QueueInv

\* Round robin
LEMMA QueueRotate ==
  ASSUME QueueTypes, QueueInv, runq' = Append(Tail(runq), Head(runq)),
         wait_list' = wait_list
  PROVE  QueueTypes' /\ QueueInv' /\ Head(runq) \in Task /\ Contains(runq', Head(runq))
PROOF
  <1>1. runq \in Seq(Task) /\ IsInjective(runq) /\ runq # <<>>
    BY DEF QueueTypes, QueueInv, Contains
  <1>2. /\ runq' \in Seq(Task) /\ IsInjective(runq')
        /\ \A x : Contains(runq', x) <=> Contains(runq, x)
    BY <1>1, RotateList
  <1>3. Head(runq) \in Task /\ Contains(runq, Head(runq))
    BY <1>1, TailList
  <1> QED
    BY <1>2, <1>3 DEF QueueTypes, QueueInv

-----------------------------------------------------------------------------
(* Every step keeps the invariant.                                         *)

\* The types of the stacks and queues, from TypeOK
LEMMA Types ==
  ASSUME TypeOK
  PROVE  StackTypes /\ QueueTypes
  BY DEF TypeOK, StackTypes, QueueTypes

\* The tokens and hooks do not notice a step that leaves them and the
\* half-done posts alone.
LEMMA QuietKeeps ==
  ASSUME TokenInv, HookInv, QuietStacks, UNCHANGED <<value, owner, hook, hook_p>>
  PROVE  TokenInv' /\ HookInv'
PROOF
  <1>1. \A s \in Sem : NoneInFlight(s) => NoneInFlight(s)'
    BY DEF NoneInFlight, QuietStacks
  <1>2. ASSUME NEW s \in Sem, OneInFlight(s) PROVE OneInFlight(s)'
    <2> SUFFICES ASSUME NEW t \in Task, NEW u \in Task, hook_p[t] = s, hook_p[u] = s,
                        NEW i \in WakeupFrames(kstack'[t]),
                        NEW j \in WakeupFrames(kstack'[u])
                 PROVE  t = u /\ i = j
      BY DEF OneInFlight
    <2>1. i \in WakeupFrames(kstack[t]) /\ j \in WakeupFrames(kstack[u])
      BY DEF QuietStacks
    <2> QED
      BY <1>2, <2>1 DEF OneInFlight
  <1>4. TokenInv'
    BY <1>1, <1>2 DEF TokenInv
  <1>3. HookInv'
    <2>1. ASSUME NEW t \in Task, hook_p'[t] = None PROVE ~hook'[t] /\ NoPost(kstack'[t])
      <3>1. ~hook[t] /\ NoPost(kstack[t])
        BY <2>1 DEF HookInv, NoPost
      <3> QED
        BY <3>1 DEF QuietStacks
    <2> QED
      BY <2>1 DEF HookInv, NoPost
  <1> QED
    BY <1>3, <1>4

\* A task in user mode that makes a call is runnable.
LEMMA CallerRunnable ==
  ASSUME IndInv, Running, Syscall
  PROVE  task_curr \in Task /\ task_curr # 0 /\ Contains(runq, task_curr)
  BY DEF IndInv, TypeOK, CurrInv, Syscall

\* sleep_uninterruptible in sem_wait
LEMMA SleepInv ==
  ASSUME IndInv, Running, Syscall, NEW s \in Sem, info[s],
         \/ sleep_uninterruptible(s, <<Frame("wait_ret", s)>>)
         \/ sleep_uninterruptible(s, <<>>)
  PROVE  IndInv'
PROOF
  <1>1. StackTypes /\ QueueTypes
    BY Types DEF IndInv
  <1>2. task_curr \in Task /\ task_curr # 0 /\ Contains(runq, task_curr)
    BY CallerRunnable
  <1>3. /\ runq' = RemoveFirst(runq, task_curr)
        /\ wait_list' = [wait_list EXCEPT ![s] = Append(@, task_curr)]
        /\ intr' = FALSE
        /\ UNCHANGED <<task_curr, counter, info, value, hook, hook_p, owner, panic>>
    BY DEF sleep_uninterruptible, hookVars
  <1>4. QueueTypes' /\ QueueInv'
    BY <1>1, <1>2, <1>3, QueueSleep DEF IndInv
  <1>5. QuietStacks /\ kstack'[task_curr] # <<>> /\ Head(kstack'[task_curr]).pc = "hook"
    <2>1. CASE sleep_uninterruptible(s, <<Frame("wait_ret", s)>>)
      BY <2>1, <1>1, PushScheduleRet DEF sleep_uninterruptible
    <2>2. CASE sleep_uninterruptible(s, <<>>)
      <3>1. schedule \o <<>> = schedule
        <4>1. schedule \in Seq(FrameSet)
          BY DEF schedule, Frame, FrameSet
        <4> QED
          BY <4>1, ConcatEmptySeq
      <3> QED
        BY <2>2, <3>1, <1>1, PushSchedule DEF sleep_uninterruptible
    <2> QED
      BY <2>1, <2>2
  <1>6. TokenInv' /\ HookInv'
    BY <1>3, <1>5, QuietKeeps DEF IndInv
  <1>7. CurrInv'
    BY <1>3, <1>5 DEF CurrInv, UserMode, Top
  <1>8. InfoInv'
    BY <1>1, <1>3 DEF InfoInv, QueueTypes, IndInv
  <1>9. TypeOK'
    BY <1>3, <1>4, <1>5 DEF TypeOK, QueueTypes, QuietStacks, IndInv, Running
  <1> QED
    BY <1>4, <1>6, <1>7, <1>8, <1>9 DEF IndInv

\* sem_init of a semaphore nobody has used
LEMMA SemgetInv ==
  ASSUME IndInv, Running, NEW s \in Sem, sys_semget(s)
  PROVE  IndInv'
PROOF
  <1>1. /\ task_curr \in Task /\ Contains(runq, task_curr)
        /\ UNCHANGED <<task_curr, runq, kstack, counter, intr, hook, hook_p, owner, panic>>
    BY CallerRunnable DEF sys_semget, schedVars, hookVars
  <1>2. /\ ~info[s] /\ value[s] = 0 /\ owner[s] = None /\ wait_list[s] = <<>>
        /\ \A t \in Task : hook_p[t] # s
    BY DEF IndInv, InfoInv, sys_semget
  <1>3. wait_list' = wait_list /\ value' = [value EXCEPT ![s] = 1]
        /\ info' = [info EXCEPT ![s] = TRUE]
    BY <1>2 DEF sys_semget, IndInv, TypeOK
  <1>4. TypeOK'
    BY <1>1, <1>3 DEF IndInv, TypeOK, Running
  <1>5. QueueInv'
    BY <1>1, <1>3 DEF IndInv, QueueInv
  <1>6. TokenInv'
    <2>1. \A r \in Sem : /\ NoneInFlight(r)' <=> NoneInFlight(r)
                         /\ OneInFlight(r)' <=> OneInFlight(r)
      BY <1>1 DEF NoneInFlight, OneInFlight
    <2>2. NoneInFlight(s)
      BY <1>2 DEF NoneInFlight
    <2>3. \A r \in Sem : value'[r] = IF r = s THEN 1 ELSE value[r]
      BY <1>3 DEF IndInv, TypeOK
    <2> QED
      BY <1>1, <1>2, <2>1, <2>2, <2>3 DEF IndInv, TokenInv
  <1>7. CurrInv' /\ HookInv'
    BY <1>1 DEF IndInv, CurrInv, HookInv, UserMode, Top
  <1>8. InfoInv'
    BY <1>1, <1>3 DEF IndInv, InfoInv, TypeOK
  <1> QED
    BY <1>4, <1>5, <1>6, <1>7, <1>8 DEF IndInv

\* A free semaphore is taken: nobody owned it.
LEMMA TakeInv ==
  ASSUME IndInv, Running, Syscall, NEW s \in Sem, info[s], semwait_take(s)
  PROVE  IndInv' /\ owner[s] = None
PROOF
  <1>1. /\ task_curr \in Task /\ Contains(runq, task_curr)
        /\ UNCHANGED <<task_curr, runq, kstack, counter, intr, info, wait_list, hook, hook_p>>
        /\ owner' = [owner EXCEPT ![s] = task_curr]
        /\ value' = [value EXCEPT ![s] = @ - 1]
    BY CallerRunnable DEF semwait_take, schedVars, hookVars
  <1>2. value[s] = 1
    <2>1. value[s] \in 0..1
      BY DEF IndInv, TypeOK
    <2>2. value[s] > 0
      BY DEF semwait_take, ValueFree
    <2> QED
      BY <2>1, <2>2
  <1>3. panic' = "none"
    BY <1>2 DEF semwait_take, Asserted
  <1>4. owner[s] = None /\ NoneInFlight(s)
    BY <1>2 DEF IndInv, TokenInv
  <1>5. /\ \A r \in Sem : value'[r] = IF r = s THEN 0 ELSE value[r]
        /\ \A r \in Sem : owner'[r] = IF r = s THEN task_curr ELSE owner[r]
    BY <1>1, <1>2 DEF IndInv, TypeOK
  <1>6. TypeOK'
    BY <1>1, <1>2, <1>3 DEF IndInv, TypeOK, Running
  <1>7. QueueInv' /\ CurrInv' /\ HookInv'
    BY <1>1 DEF IndInv, QueueInv, CurrInv, HookInv, UserMode, Top
  <1>8. TokenInv'
    <2>1. \A r \in Sem : /\ NoneInFlight(r)' <=> NoneInFlight(r)
                         /\ OneInFlight(r)' <=> OneInFlight(r)
      BY <1>1 DEF NoneInFlight, OneInFlight
    <2> QED
      BY <1>1, <1>4, <1>5, <2>1 DEF IndInv, TokenInv
  <1>9. InfoInv'
    BY <1>1, <1>5 DEF IndInv, InfoInv
  <1> QED
    BY <1>4, <1>6, <1>7, <1>8, <1>9 DEF IndInv

\* sem_post: deferred, at once, or with nobody waiting
LEMMA SempostInv ==
  ASSUME IndInv, Running, NEW s \in Sem, sys_sempost(s)
  PROVE  IndInv'
PROOF
  <1> DEFINE c == task_curr
  <1>1. c \in Task /\ Contains(runq, c) /\ info[s] /\ owner[s] = c /\ kstack[c] = <<>>
    BY CallerRunnable DEF sys_sempost, Syscall, UserMode
  <1>2. c # None /\ None \notin Sem
    BY <1>1, SemAssumption DEF Task, None
  <1>3. NoneInFlight(s) /\ value[s] # 1
    BY <1>1, <1>2 DEF IndInv, TokenInv
  <1>4. value[s] = 0
    <2>1. value[s] \in 0..1
      BY DEF IndInv, TypeOK
    <2> QED
      BY <2>1, <1>3
  <1>5. panic' = "none"
    BY <1>4 DEF sys_sempost, Asserted
  <1>6. UNCHANGED <<task_curr, kstack, counter, intr, info>>
    BY DEF sys_sempost, sempost_defer, sempost_wake, sempost_free, schedVars
  <1>7. WakeupFrames(kstack[c]) = {}
    BY <1>1 DEF WakeupFrames
  <1>8. CASE sempost_defer(s)
    <2>1. /\ \A r \in Sem : value'[r] = IF r = s THEN 1 ELSE value[r]
          /\ \A r \in Sem : owner'[r] = IF r = s THEN None ELSE owner[r]
          /\ \A t \in Task : hook_p'[t] = IF t = c THEN s ELSE hook_p[t]
          /\ \A t \in Task : hook'[t] = IF t = c THEN TRUE ELSE hook[t]
      BY <1>1, <1>4, <1>8 DEF IndInv, TypeOK, sempost_defer
    <2>2. runq' = runq /\ wait_list' = wait_list
      BY <1>8 DEF sempost_defer, schedVars
    <2>3. TypeOK'
      <3>1. /\ value' \in [Sem -> Int] /\ owner' \in [Sem -> Task \cup {None}]
            /\ hook' \in [Task -> BOOLEAN] /\ hook_p' \in [Task -> Sem \cup {None}]
        BY <1>1, <1>8 DEF IndInv, TypeOK, sempost_defer
      <3>2. \A r \in Sem : value'[r] \in 0..1
        BY <2>1 DEF IndInv, TypeOK
      <3> QED
        BY <1>5, <1>6, <2>2, <3>1, <3>2 DEF IndInv, TypeOK
    <2>4. QueueInv' /\ CurrInv'
      BY <1>1, <1>6, <2>2 DEF IndInv, QueueInv, CurrInv
    <2>5. ASSUME NEW r \in Sem
          PROVE  (NoneInFlight(r) => NoneInFlight(r)') /\ (OneInFlight(r) => OneInFlight(r)')
      BY <1>6, <1>7, <2>1 DEF NoneInFlight, OneInFlight
    <2>6. TokenInv'
      BY <1>3, <2>1, <2>5 DEF IndInv, TokenInv
    <2>7. HookInv'
      <3>1. ASSUME NEW t \in Task, hook_p'[t] = None
            PROVE  t # c /\ hook_p[t] = None /\ hook'[t] = hook[t]
        BY <1>2, <2>1, <3>1
      <3> QED
        BY <1>6, <3>1 DEF IndInv, HookInv
    <2>8. InfoInv'
      BY <1>1, <1>6, <2>1, <2>2 DEF IndInv, InfoInv
    <2> QED
      BY <2>3, <2>4, <2>6, <2>7, <2>8 DEF IndInv
  <1>9. CASE sempost_wake(s)
    <2> DEFINE h == Head(wait_list[s])
    <2>1. /\ wait_list[s] # <<>> /\ runq' = Append(runq, h)
          /\ wait_list' = [wait_list EXCEPT ![s] = Tail(@)]
          /\ owner' = [owner EXCEPT ![s] = h]
          /\ hook' = [hook EXCEPT ![c] = FALSE]
          /\ value' = value /\ hook_p' = hook_p
      BY <1>9 DEF sempost_wake, wakeup_uninterruptible
    <2>2. QueueTypes /\ QueueInv
      BY Types DEF IndInv
    <2>3. /\ QueueTypes' /\ QueueInv' /\ h \in Task
          /\ \A t \in Task : Contains(runq, t) => Contains(runq', t)
      BY <2>1, <2>2, QueueWake
    <2>4. \A r \in Sem : owner'[r] = IF r = s THEN h ELSE owner[r]
      BY <2>1 DEF IndInv, TypeOK
    <2>5. TypeOK'
      BY <1>5, <1>6, <2>1, <2>3 DEF IndInv, TypeOK, Running, QueueTypes
    <2>6. CurrInv'
      BY <1>1, <1>6, <2>3 DEF CurrInv
    <2>7. \A r \in Sem : (NoneInFlight(r)' <=> NoneInFlight(r)) /\ (OneInFlight(r)' <=> OneInFlight(r))
      BY <1>6, <2>1 DEF NoneInFlight, OneInFlight
    <2>8. TokenInv'
      BY <1>3, <2>1, <2>4, <2>7 DEF IndInv, TokenInv
    <2>9. HookInv'
      BY <1>6, <2>1 DEF IndInv, HookInv, TypeOK
    <2>10. InfoInv'
      <3>1. \A r \in Sem : r # s => wait_list'[r] = wait_list[r]
        BY <2>1, <2>2 DEF QueueTypes
      <3> QED
        BY <1>1, <1>6, <2>1, <2>4, <3>1 DEF IndInv, InfoInv
    <2> QED
      BY <2>3, <2>5, <2>6, <2>8, <2>9, <2>10 DEF IndInv
  <1>10. CASE sempost_free(s)
    <2>1. /\ \A r \in Sem : value'[r] = IF r = s THEN 1 ELSE value[r]
          /\ \A r \in Sem : owner'[r] = IF r = s THEN None ELSE owner[r]
          /\ runq' = runq /\ wait_list' = wait_list /\ hook' = hook /\ hook_p' = hook_p
      BY <1>1, <1>4, <1>10 DEF IndInv, TypeOK, sempost_free, schedVars, hookVars
    <2>2. TypeOK'
      BY <1>4, <1>5, <1>6, <1>10, <2>1 DEF IndInv, TypeOK, Running, sempost_free
    <2>3. QueueInv' /\ CurrInv' /\ HookInv'
      BY <1>1, <1>6, <2>1 DEF IndInv, QueueInv, CurrInv, HookInv
    <2>4. \A r \in Sem : (NoneInFlight(r)' <=> NoneInFlight(r)) /\ (OneInFlight(r)' <=> OneInFlight(r))
      BY <1>6, <2>1 DEF NoneInFlight, OneInFlight
    <2>5. TokenInv'
      BY <1>3, <2>1, <2>4 DEF IndInv, TokenInv
    <2>6. InfoInv'
      BY <1>1, <1>6, <2>1 DEF IndInv, InfoInv
    <2> QED
      BY <2>2, <2>3, <2>5, <2>6 DEF IndInv
  <1> QED
    BY <1>8, <1>9, <1>10 DEF sys_sempost

\* yield and exit only call schedule().
LEMMA YieldExitInv ==
  ASSUME IndInv, Running, sys_yield \/ sys_exit
  PROVE  IndInv'
PROOF
  <1>1. StackTypes /\ QueueTypes
    BY Types DEF IndInv
  <1>2. task_curr \in Task /\ task_curr # 0
    BY CallerRunnable DEF sys_yield, sys_exit
  <1>3. UNCHANGED <<task_curr, counter, intr, info, value, wait_list, owner, hook, hook_p, panic>>
    BY DEF sys_yield, sys_exit, semVars, hookVars
  <1>4. QuietStacks /\ kstack'[task_curr] # <<>> /\ Head(kstack'[task_curr]).pc = "hook"
    BY <1>1, PushSchedule DEF sys_yield, sys_exit
  <1>5. QueueTypes' /\ QueueInv'
    <2>1. CASE sys_yield
      BY <2>1, <1>1, <1>3 DEF sys_yield, IndInv, QueueInv, QueueTypes
    <2>2. CASE sys_exit
      BY <2>2, <1>1, <1>2, <1>3, QueueLeave DEF sys_exit, IndInv
    <2> QED
      BY <2>1, <2>2
  <1>6. TypeOK'
    BY <1>3, <1>4, <1>5 DEF IndInv, TypeOK, QuietStacks, QueueTypes, Running
  <1>7. CurrInv'
    BY <1>3, <1>4 DEF CurrInv, UserMode, Top
  <1>8. TokenInv' /\ HookInv'
    BY <1>3, <1>4, QuietKeeps DEF IndInv
  <1>9. InfoInv'
    BY <1>3 DEF IndInv, InfoInv
  <1> QED
    BY <1>5, <1>6, <1>7, <1>8, <1>9 DEF IndInv

\* A tick at the end of a slice calls schedule(), on top of what runs.
LEMMA TimerInv ==
  ASSUME IndInv, Running, do_timer
  PROVE  IndInv'
PROOF
  <1>1. StackTypes /\ QueueTypes
    BY Types DEF IndInv
  <1>2. UNCHANGED <<task_curr, runq, intr, info, value, wait_list, owner, hook, hook_p, panic>>
    BY DEF do_timer, semVars, hookVars
  <1>3. counter' \in [Task -> Int]
    <2>1. task_curr \in Task /\ counter \in [Task -> Int]
      BY DEF IndInv, TypeOK
    <2>2. counter[task_curr] \in Int
      BY <2>1
    <2> QED
      BY <2>1, <2>2 DEF do_timer
  <1>4. /\ QuietStacks
        /\ CurrInv'
    <2>1. CASE UNCHANGED kstack
      BY <2>1, <1>1, <1>2 DEF QuietStacks, StackTypes, IndInv, CurrInv, UserMode, Top
    <2>2. CASE Push(schedule)
      <3>1. QuietStacks /\ kstack'[task_curr] # <<>> /\ Head(kstack'[task_curr]).pc = "hook"
        BY <2>2, <1>1, PushSchedule
      <3> QED
        BY <3>1, <1>2 DEF CurrInv, UserMode, Top
    <2> QED
      BY <2>1, <2>2 DEF do_timer
  <1>5. TypeOK'
    BY <1>2, <1>3, <1>4 DEF IndInv, TypeOK, QuietStacks, Running
  <1>6. QueueInv' /\ InfoInv'
    BY <1>2 DEF IndInv, QueueInv, InfoInv
  <1>7. TokenInv' /\ HookInv'
    BY <1>2, <1>4, QuietKeeps DEF IndInv
  <1> QED
    BY <1>4, <1>5, <1>6, <1>7 DEF IndInv

\* schedule() tests the hook.
LEMMA TestHookInv ==
  ASSUME IndInv, Running, test_hook
  PROVE  IndInv'
PROOF
  <1> DEFINE c == task_curr
             g == Frame(IF Armed(c) THEN "post" ELSE "switch", None)
  <1>1. StackTypes /\ QueueTypes
    BY Types DEF IndInv
  <1>2. ~UserMode /\ Top.pc = "hook" /\ Goto(g)
    BY DEF test_hook, At
  <1>3. g \in FrameSet /\ g.pc = (IF hook[c] THEN "post" ELSE "switch")
    BY DEF Frame, FrameSet, Armed
  <1>4. UNCHANGED <<task_curr, runq, counter, intr, info, value, wait_list, owner, hook, hook_p, panic>>
    BY DEF test_hook, semVars, hookVars
  <1> HIDE DEF g
  <1>5. /\ kstack' \in [Task -> Seq(FrameSet)]
        /\ kstack'[c] # <<>> /\ Head(kstack'[c]) = g
        /\ \A t \in Task \ {c} : kstack'[t] = kstack[t]
        /\ WakeupFrames(kstack[c]) = WakeupFrames(Tail(kstack[c]))
        /\ WakeupFrames(kstack'[c]) = WakeupFrames(Tail(kstack[c]))
        /\ NoPost(kstack[c]) /\ g.pc \notin {"post", "wakeup"} => NoPost(kstack'[c])
    BY <1>1, <1>2, <1>3, GotoFrame
  <1>6. ASSUME NEW t \in Task, hook_p[t] = None
        PROVE  ~hook[t] /\ NoPost(kstack'[t])
    <2>1. ~hook[t] /\ NoPost(kstack[t])
      BY <1>6 DEF IndInv, HookInv, NoPost
    <2>2. CASE t = c
      BY <2>1, <2>2, <1>3, <1>5
    <2>3. CASE t # c
      BY <2>1, <2>3, <1>5
    <2> QED
      BY <2>1, <2>2, <2>3
  <1>7. \A t \in Task : WakeupFrames(kstack'[t]) = WakeupFrames(kstack[t])
    BY <1>5
  <1>8. HookInv'
    BY <1>4, <1>6 DEF HookInv, NoPost
  <1>9. TokenInv'
    <2>1. \A s \in Sem : /\ NoneInFlight(s)' <=> NoneInFlight(s)
                         /\ OneInFlight(s)' <=> OneInFlight(s)
      BY <1>4, <1>7 DEF NoneInFlight, OneInFlight
    <2> QED
      BY <1>4, <2>1 DEF IndInv, TokenInv
  <1>10. CurrInv'
    BY <1>3, <1>4, <1>5 DEF CurrInv, UserMode, Top
  <1>11. TypeOK'
    BY <1>4, <1>5 DEF IndInv, TypeOK, Running
  <1>12. QueueInv' /\ InfoInv'
    BY <1>4 DEF IndInv, QueueInv, InfoInv
  <1> QED
    BY <1>8, <1>9, <1>10, <1>11, <1>12 DEF IndInv

\* The code of do_sempost runs for a semaphore.
LEMMA PostHasSem ==
  ASSUME IndInv, Running, ~UserMode, Top.pc \in {"post", "wakeup"}
  PROVE  hook_p[task_curr] \in Sem /\ task_curr \in Task
PROOF
  <1>1. task_curr \in Task /\ hook_p[task_curr] \in Sem \cup {None}
    BY DEF IndInv, TypeOK
  <1>2. kstack[task_curr] \in Seq(FrameSet) /\ kstack[task_curr] # <<>>
    BY <1>1 DEF IndInv, TypeOK, UserMode
  <1>3. ~NoPost(kstack[task_curr])
    BY <1>2, TailStack DEF Top
  <1>4. hook_p[task_curr] # None
    BY <1>1, <1>3 DEF IndInv, HookInv, NoPost
  <1> QED
    BY <1>1, <1>4

\* The first half of a deferred post turns the value into a half-done post.
LEMMA DoSempostInv ==
  ASSUME IndInv, Running, do_sempost
  PROVE  IndInv'
PROOF
  <1> DEFINE c == task_curr
             s == hook_p[c]
             g == Frame("wakeup", None)
             r == WakeupFrames(Tail(kstack[c]))
             n == Len(kstack[c])
  <1>1. StackTypes /\ QueueTypes
    BY Types DEF IndInv
  <1>2. ~UserMode /\ Top.pc = "post" /\ Goto(g)
    BY DEF do_sempost, At
  <1>3. g \in FrameSet /\ g.pc = "wakeup"
    BY DEF Frame, FrameSet
  <1>4. s \in Sem /\ c \in Task
    BY <1>2, PostHasSem
  <1>5. /\ UNCHANGED <<task_curr, runq, counter, intr, info, wait_list, owner, hook, hook_p>>
        /\ value' = [value EXCEPT ![s] = @ - 1]
        /\ panic' = Asserted(value[s] = 1, "do_sempost")
    BY DEF do_sempost, hookVars
  <1> HIDE DEF g
  <1>6. /\ kstack' \in [Task -> Seq(FrameSet)]
        /\ kstack'[c] # <<>> /\ Head(kstack'[c]) = g
        /\ \A t \in Task \ {c} : kstack'[t] = kstack[t]
        /\ WakeupFrames(kstack[c]) = r
        /\ WakeupFrames(kstack'[c]) = r \cup {n}
    BY <1>1, <1>2, <1>3, GotoFrame
  <1>7. value' \in [Sem -> Int] /\ panic' \in Panics \cup {"none"}
    <2>1. value \in [Sem -> Int] /\ value[s] \in Int
      BY <1>4 DEF IndInv, TypeOK
    <2> QED
      BY <1>4, <1>5, <2>1 DEF Asserted, Panics
  <1>8. CASE value[s] # 1
    <2>1. ~Running'
      BY <1>5, <1>8 DEF Running, Asserted
    <2>2. TypeOK'
      BY <1>5, <1>6, <1>7, <2>1 DEF IndInv, TypeOK
    <2> QED
      BY <2>1, <2>2 DEF IndInv
  <1>9. CASE value[s] = 1
    <2>1. panic' = "none" /\ \A q \in Sem : value'[q] = IF q = s THEN 0 ELSE value[q]
      BY <1>4, <1>5, <1>9 DEF IndInv, TypeOK, Asserted
    <2>2. owner[s] = None /\ NoneInFlight(s)
      BY <1>4, <1>9 DEF IndInv, TokenInv
    <2>3. r = {}
      BY <1>4, <1>6, <2>2 DEF NoneInFlight
    <2>4. TypeOK'
      <3>1. \A q \in Sem : value'[q] \in 0..1
        BY <2>1 DEF IndInv, TypeOK
      <3> QED
        BY <1>5, <1>6, <1>7, <3>1 DEF IndInv, TypeOK
    <2>5. QueueInv' /\ InfoInv'
      <3>1. info[s]
        BY <1>4 DEF IndInv, InfoInv
      <3> QED
        BY <1>5, <2>1, <3>1 DEF IndInv, QueueInv, InfoInv
    <2>6. CurrInv'
      BY <1>3, <1>5, <1>6 DEF CurrInv, UserMode, Top
    <2>7. HookInv'
      <3>1. ASSUME NEW t \in Task, hook_p[t] = None PROVE t # c
        BY <3>1, <1>4, SemAssumption DEF None
      <3> QED
        BY <1>5, <1>6, <3>1 DEF IndInv, HookInv
    <2>8. OneInFlight(s)'
      <3> SUFFICES ASSUME NEW t \in Task, NEW u \in Task, hook_p[t] = s, hook_p[u] = s,
                          NEW i \in WakeupFrames(kstack'[t]),
                          NEW j \in WakeupFrames(kstack'[u])
                   PROVE  t = u /\ i = j
        BY <1>5 DEF OneInFlight
      <3>1. \A x \in Task \ {c} : hook_p[x] = s => WakeupFrames(kstack'[x]) = {}
        BY <1>6, <2>2 DEF NoneInFlight
      <3> QED
        BY <3>1, <1>6, <2>3, SMTT(30)
    <2>9. ASSUME NEW q \in Sem, q # s
          PROVE  (NoneInFlight(q) => NoneInFlight(q)') /\ (OneInFlight(q) => OneInFlight(q)')
      <3>1. \A x \in Task : hook_p[x] = q => kstack'[x] = kstack[x]
        BY <1>6, <2>9
      <3> QED
        BY <1>5, <3>1 DEF NoneInFlight, OneInFlight
    <2>10. TokenInv'
      BY <1>5, <2>1, <2>2, <2>8, <2>9 DEF IndInv, TokenInv
    <2> QED
      BY <2>4, <2>5, <2>6, <2>7, <2>10 DEF IndInv
  <1> QED
    BY <1>8, <1>9

\* What the invariant says when the second half of a deferred post is due
LEMMA HalfDone ==
  ASSUME IndInv, Running, ~UserMode, Top.pc = "wakeup"
  PROVE  LET s == hook_p[task_curr]
         IN  /\ s \in Sem /\ value[s] # 1 /\ owner[s] = None
             /\ WakeupFrames(Tail(kstack[task_curr])) = {}
             /\ \A t \in Task \ {task_curr} : hook_p[t] = s => WakeupFrames(kstack[t]) = {}
PROOF
  <1> DEFINE c == task_curr
             s == hook_p[c]
             n == Len(kstack[c])
             r == WakeupFrames(Tail(kstack[c]))
  <1>1. s \in Sem /\ c \in Task
    BY PostHasSem
  <1>2. kstack[c] \in Seq(FrameSet) /\ kstack[c] # <<>> /\ Head(kstack[c]).pc = "wakeup"
    BY <1>1 DEF IndInv, TypeOK, UserMode, Top
  <1>3. WakeupFrames(kstack[c]) = r \cup {n} /\ n \notin r
    BY <1>2, TailStack
  <1>4. value[s] # 1 /\ owner[s] = None /\ OneInFlight(s)
    BY <1>1, <1>3 DEF IndInv, TokenInv, NoneInFlight
  <1>5. r = {}
    <2>1. ASSUME NEW i \in r PROVE FALSE
      <3>1. i \in WakeupFrames(kstack[c]) /\ n \in WakeupFrames(kstack[c])
        BY <1>3
      <3>2. i = n
        BY <3>1, <1>1, <1>4 DEF OneInFlight
      <3> QED
        BY <3>2, <1>3
    <2> QED
      BY <2>1
  <1>6. ASSUME NEW t \in Task \ {c}, hook_p[t] = s PROVE WakeupFrames(kstack[t]) = {}
    BY <1>1, <1>3, <1>4, <1>6 DEF OneInFlight
  <1> QED
    BY <1>1, <1>4, <1>5, <1>6

\* The second half of do_sempost gives the token to the waiter it wakes.
LEMMA PostWakeupInv ==
  ASSUME IndInv, Running, post_wakeup
  PROVE  IndInv'
PROOF
  <1> DEFINE c == task_curr
             s == hook_p[c]
             g == Frame("clear", None)
             h == Head(wait_list[s])
  <1>1. StackTypes /\ QueueTypes
    BY Types DEF IndInv
  <1>2. ~UserMode /\ Top.pc = "wakeup" /\ Goto(g)
    BY DEF post_wakeup, At
  <1>3. g \in FrameSet /\ g.pc = "clear"
    BY DEF Frame, FrameSet
  <1>4. /\ s \in Sem /\ value[s] # 1 /\ owner[s] = None
        /\ WakeupFrames(Tail(kstack[c])) = {}
        /\ \A t \in Task \ {c} : hook_p[t] = s => WakeupFrames(kstack[t]) = {}
    BY <1>2, HalfDone
  <1>5. UNCHANGED <<task_curr, counter, intr, info, value, hook, hook_p>>
    BY DEF post_wakeup, hookVars
  <1> HIDE DEF g
  <1>6. /\ kstack' \in [Task -> Seq(FrameSet)]
        /\ kstack'[c] # <<>> /\ Head(kstack'[c]) = g
        /\ \A t \in Task \ {c} : kstack'[t] = kstack[t]
        /\ WakeupFrames(kstack'[c]) = {}
    <2>1. /\ kstack' \in [Task -> Seq(FrameSet)]
          /\ kstack'[c] # <<>> /\ Head(kstack'[c]) = g
          /\ \A t \in Task \ {c} : kstack'[t] = kstack[t]
          /\ WakeupFrames(kstack'[c]) = WakeupFrames(Tail(kstack[c]))
      BY <1>1, <1>2, <1>3, GotoFrame
    <2> QED
      BY <2>1, <1>4
  <1>7. CASE wait_list[s] = <<>>
    <2>1. panic' = "wakeup" /\ UNCHANGED <<runq, wait_list, owner>>
      BY <1>7 DEF post_wakeup
    <2>2. ~Running' /\ TypeOK'
      BY <1>5, <1>6, <2>1 DEF IndInv, TypeOK, Running, Panics
    <2> QED
      BY <2>2 DEF IndInv
  <1>8. CASE wait_list[s] # <<>>
    <2>1. wakeup_uninterruptible(s) /\ UNCHANGED panic
      BY <1>8 DEF post_wakeup
    <2>2. /\ QueueTypes' /\ QueueInv' /\ h \in Task
      BY <1>1, <1>4, <1>8, <2>1, QueueWake DEF IndInv, wakeup_uninterruptible
    <2>3. owner' = [owner EXCEPT ![s] = h]
      BY <2>1 DEF wakeup_uninterruptible
    <2>4. \A q \in Sem : owner'[q] = IF q = s THEN h ELSE owner[q]
      BY <2>3 DEF IndInv, TypeOK
    <2>5. TypeOK'
      BY <1>5, <1>6, <2>1, <2>2, <2>3 DEF IndInv, TypeOK, QueueTypes, Running
    <2>6. CurrInv'
      BY <1>3, <1>5, <1>6 DEF CurrInv, UserMode, Top
    <2>7. HookInv'
      <3>1. ASSUME NEW t \in Task, hook_p[t] = None PROVE t # c
        BY <3>1, <1>4, SemAssumption DEF None
      <3> QED
        BY <1>5, <1>6, <3>1 DEF IndInv, HookInv
    <2>8. InfoInv'
      <3>1. info[s]
        BY <1>1, <1>4, <1>8 DEF IndInv, InfoInv
      <3>2. \A q \in Sem : q # s => wait_list'[q] = wait_list[q]
        BY <1>1, <2>1 DEF wakeup_uninterruptible, QueueTypes
      <3> QED
        BY <1>5, <2>4, <3>1, <3>2 DEF IndInv, InfoInv
    <2>9. \A t \in Task : hook_p'[t] = s => WakeupFrames(kstack'[t]) = {}
      BY <1>4, <1>5, <1>6
    <2>10. NoneInFlight(s)' /\ OneInFlight(s)'
      BY <2>9, <1>5 DEF NoneInFlight, OneInFlight
    <2>11. ASSUME NEW q \in Sem, q # s
           PROVE  (NoneInFlight(q) => NoneInFlight(q)') /\ (OneInFlight(q) => OneInFlight(q)')
      <3>1. \A x \in Task : hook_p[x] = q => kstack'[x] = kstack[x]
        BY <1>6, <2>11
      <3> QED
        BY <1>5, <3>1 DEF NoneInFlight, OneInFlight
    <2>12. TokenInv'
      BY <1>4, <1>5, <2>4, <2>10, <2>11 DEF IndInv, TokenInv
    <2> QED
      BY <2>2, <2>5, <2>6, <2>7, <2>8, <2>12 DEF IndInv
  <1> QED
    BY <1>7, <1>8

\* schedule() clears the hook.
LEMMA ClearHookInv ==
  ASSUME IndInv, Running, clear_hook
  PROVE  IndInv'
PROOF
  <1> DEFINE c == task_curr
             g == Frame("switch", None)
  <1>1. StackTypes /\ QueueTypes
    BY Types DEF IndInv
  <1>2. ~UserMode /\ Top.pc = "clear" /\ Goto(g)
    BY DEF clear_hook, At
  <1>3. g \in FrameSet /\ g.pc = "switch"
    BY DEF Frame, FrameSet
  <1>4. /\ UNCHANGED <<task_curr, runq, counter, intr, info, value, wait_list, owner, hook_p, panic>>
        /\ hook' = [hook EXCEPT ![c] = FALSE]
    BY DEF clear_hook, semVars
  <1> HIDE DEF g
  <1>5. /\ kstack' \in [Task -> Seq(FrameSet)]
        /\ kstack'[c] # <<>> /\ Head(kstack'[c]) = g
        /\ \A t \in Task \ {c} : kstack'[t] = kstack[t]
        /\ WakeupFrames(kstack[c]) = WakeupFrames(Tail(kstack[c]))
        /\ WakeupFrames(kstack'[c]) = WakeupFrames(Tail(kstack[c]))
        /\ NoPost(kstack[c]) => NoPost(kstack'[c])
    BY <1>1, <1>2, <1>3, GotoFrame
  <1>6. ASSUME NEW t \in Task, hook_p[t] = None PROVE ~hook'[t] /\ NoPost(kstack'[t])
    <2>1. ~hook[t] /\ NoPost(kstack[t])
      BY <1>6 DEF IndInv, HookInv, NoPost
    <2>2. ~hook'[t]
      BY <2>1, <1>4 DEF IndInv, TypeOK
    <2> QED
      BY <2>1, <2>2, <1>5
  <1>7. HookInv'
    BY <1>4, <1>6 DEF HookInv, NoPost
  <1>8. TokenInv'
    <2>1. \A t \in Task : WakeupFrames(kstack'[t]) = WakeupFrames(kstack[t])
      BY <1>5
    <2>2. \A s \in Sem : /\ NoneInFlight(s)' <=> NoneInFlight(s)
                         /\ OneInFlight(s)' <=> OneInFlight(s)
      BY <1>4, <2>1 DEF NoneInFlight, OneInFlight
    <2> QED
      BY <1>4, <2>2 DEF IndInv, TokenInv
  <1>9. CurrInv'
    BY <1>3, <1>4, <1>5 DEF CurrInv, UserMode, Top
  <1>10. TypeOK'
    <2>1. hook' \in [Task -> BOOLEAN]
      BY <1>4 DEF IndInv, TypeOK
    <2> QED
      BY <1>4, <1>5, <2>1 DEF IndInv, TypeOK, Running
  <1>11. QueueInv' /\ InfoInv'
    BY <1>4 DEF IndInv, QueueInv, InfoInv
  <1> QED
    BY <1>7, <1>8, <1>9, <1>10, <1>11 DEF IndInv

\* schedule() switches to the next task of the queue.
LEMMA SwitchInv ==
  ASSUME IndInv, Running, switch_to_task
  PROVE  IndInv'
PROOF
  <1>1. StackTypes /\ QueueTypes
    BY Types DEF IndInv
  <1>2. /\ UNCHANGED <<info, value, wait_list, owner, hook, hook_p, panic>>
        /\ task_curr' = Head(runq) /\ intr' = TRUE
        /\ runq' = Append(Tail(runq), Head(runq))
        /\ counter' = [counter EXCEPT ![Head(runq)] = Priority]
    BY DEF switch_to_task, semVars, hookVars
  <1>3. QueueTypes' /\ QueueInv' /\ Head(runq) \in Task /\ Contains(runq', Head(runq))
    BY <1>1, <1>2, QueueRotate DEF IndInv
  <1>4. QuietStacks
    BY <1>1, PopFrame DEF switch_to_task, At
  <1>5. TypeOK'
    <2>1. counter' \in [Task -> Int]
      <3>1. counter \in [Task -> Int] /\ Priority \in Int
        BY SemAssumption DEF IndInv, TypeOK
      <3> QED
        BY <3>1, <1>2, <1>3
    <2> QED
      BY <1>2, <1>3, <1>4, <2>1 DEF IndInv, TypeOK, QueueTypes, QuietStacks, Running
  <1>6. TokenInv' /\ HookInv'
    BY <1>2, <1>4, QuietKeeps DEF IndInv
  <1>7. CurrInv' /\ InfoInv'
    BY <1>2, <1>3 DEF IndInv, CurrInv, InfoInv
  <1> QED
    BY <1>3, <1>5, <1>6, <1>7 DEF IndInv

\* sem_wait goes on behind its sleep.
LEMMA WaitRetInv ==
  ASSUME IndInv, Running, wait_ret
  PROVE  IndInv'
PROOF
  <1>1. StackTypes /\ QueueTypes
    BY Types DEF IndInv
  <1>2. UNCHANGED <<task_curr, runq, counter, intr, info, value, wait_list, owner, hook, hook_p>>
    BY DEF wait_ret, semVars, hookVars
  <1>3. QuietStacks
    BY <1>1, PopFrame DEF wait_ret, At
  <1>4. panic' \in Panics \cup {"none"}
    BY DEF wait_ret, Asserted, Panics
  <1>5. TypeOK'
    BY <1>2, <1>3, <1>4 DEF IndInv, TypeOK, QuietStacks
  <1>6. TokenInv' /\ HookInv'
    BY <1>2, <1>3, QuietKeeps DEF IndInv
  <1>7. CurrInv'
    <2>1. Contains(runq, task_curr)
      BY DEF IndInv, CurrInv, wait_ret, At
    <2> QED
      BY <1>2, <2>1 DEF CurrInv
  <1>8. QueueInv' /\ InfoInv'
    BY <1>2 DEF IndInv, QueueInv, InfoInv
  <1> QED
    BY <1>5, <1>6, <1>7, <1>8 DEF IndInv

\* sem_wait: take, give way, or sleep
LEMMA SemwaitInv ==
  ASSUME IndInv, Running, NEW s \in Sem, sys_semwait(s)
  PROVE  IndInv'
PROOF
  <1>1. Syscall /\ info[s]
    BY DEF sys_semwait
  <1>2. CASE semwait_take(s)
    BY <1>1, <1>2, TakeInv
  <1>3. CASE semwait_yield(s)
    BY <1>1, <1>3, SleepInv DEF semwait_yield
  <1>4. CASE semwait_block(s)
    <2>1. CASE hook[task_curr]
      <3>1. panic' = "semwait hook" /\ UNCHANGED <<schedVars, semVars, hookVars>>
        BY <1>4, <2>1 DEF semwait_block
      <3>2. ~Running' /\ TypeOK'
        BY <3>1 DEF IndInv, TypeOK, Running, Panics, schedVars, semVars, hookVars
      <3> QED
        BY <3>2 DEF IndInv
    <2>2. CASE ~hook[task_curr]
      BY <1>1, <1>4, <2>2, SleepInv DEF semwait_block
    <2> QED
      BY <2>1, <2>2
  <1> QED
    BY <1>2, <1>3, <1>4 DEF sys_semwait

\* No semaphore is made and no hook armed.
LEMMA InitInv ==
  Init => IndInv
PROOF
  <1> SUFFICES ASSUME Init PROVE IndInv
    OBVIOUS
  <1>1. 0 \in Task /\ MaxTasks \in Nat /\ MaxTasks >= 2 /\ None \notin Sem
    BY SemAssumption DEF Task, None
  <1>2. runq \in Seq(Task) /\ Len(runq) = MaxTasks /\ \A i \in 1..MaxTasks : runq[i] = i - 1
    <2>1. runq = [i \in 1..MaxTasks |-> i - 1] /\ \A i \in 1..MaxTasks : i - 1 \in Task
      BY <1>1 DEF Init, Task
    <2> QED
      BY <1>1, <2>1
  <1>3. TypeOK
    BY <1>1, <1>2 DEF Init, TypeOK, Running
  <1>4. QueueInv
    <2>1. IsInjective(runq)
      BY <1>1, <1>2 DEF IsInjective
    <2>2. Contains(runq, 0)
      <3>1. 1 \in 1..MaxTasks /\ runq[1] = 0
        BY <1>1, <1>2
      <3> QED
        BY <3>1, <1>2 DEF Contains
    <2>3. \A s \in Sem : IsInjective(wait_list[s]) /\ \A t : ~Contains(wait_list[s], t)
      BY DEF Init, IsInjective, Contains
    <2> QED
      BY <2>1, <2>2, <2>3 DEF QueueInv
  <1>5. CurrInv
    BY <1>4 DEF Init, CurrInv, QueueInv
  <1>6. TokenInv
    BY <1>1 DEF Init, TokenInv, NoneInFlight, OneInFlight, WakeupFrames
  <1>7. HookInv /\ InfoInv
    BY <1>1 DEF Init, HookInv, InfoInv
  <1> QED
    BY <1>3, <1>4, <1>5, <1>6, <1>7 DEF IndInv

\* Every step keeps the invariant.
LEMMA NextInv ==
  ASSUME IndInv, [Next]_vars
  PROVE  IndInv'
PROOF
  <1>1. CASE UNCHANGED vars
    BY <1>1 DEF vars, schedVars, semVars, hookVars, IndInv, TypeOK, Running, QueueInv,
      CurrInv, UserMode, Top, TokenInv, NoneInFlight, OneInFlight, HookInv, InfoInv
  <1>2. CASE Kernel
    <2>1. Running
      BY <1>2 DEF Kernel, test_hook, do_sempost, post_wakeup, clear_hook, switch_to_task,
        wait_ret, At
    <2> QED
      BY <1>2, <2>1, TestHookInv, DoSempostInv, PostWakeupInv, ClearHookInv, SwitchInv,
        WaitRetInv DEF Kernel
  <1>3. CASE User
    <2>1. Running
      BY <1>3 DEF User, sys_yield, sys_exit, sys_semget, sys_semwait, sys_sempost, Syscall
    <2> QED
      BY <1>3, <2>1, YieldExitInv, SemgetInv, SemwaitInv, SempostInv DEF User
  <1>4. CASE do_timer
    BY <1>4, TimerInv DEF do_timer
  <1>5. CASE Halt
    BY <1>1, <1>5 DEF Halt
  <1> QED
    BY <1>1, <1>2, <1>3, <1>4, <1>5 DEF Next

\* However semaphores are waited for and posted, and however ticks nest in the
\* hook of schedule(), there is one token per semaphore until an assertion of
\* semaphore.cpp fails.
THEOREM SemInvariant == Spec => []IndInv
  BY InitInv, NextInv, PTL DEF Spec

-----------------------------------------------------------------------------
(* The semaphores implement the lock.                                      *)

\* The refinement mapping's waiting
Waiting == [s \in Sem |-> {t \in Task : Contains(wait_list[s], t)}]

\* A step that changes neither owners nor wait lists changes nothing abstract.
LEMMA Invisible ==
  ASSUME UNCHANGED <<owner, wait_list>>
  PROVE  UNCHANGED M!mutexVars
  BY DEF M!mutexVars

\* A task that goes to sleep on s asks for it.
LEMMA SleepAsks ==
  ASSUME IndInv, Running, Syscall, NEW s \in Sem, owner[s] # task_curr,
         NEW ret, sleep_uninterruptible(s, ret)
  PROVE  M!Next
PROOF
  <1>1. QueueTypes /\ QueueInv
    BY Types DEF IndInv
  <1>2. task_curr \in Task /\ task_curr # 0 /\ Contains(runq, task_curr)
    BY CallerRunnable
  <1>3. /\ \A r \in Sem, t \in Task : Contains(wait_list'[r], t) <=>
              Contains(wait_list[r], t) \/ (r = s /\ t = task_curr)
        /\ ~Contains(wait_list[s], task_curr)
    BY <1>1, <1>2, QueueSleep DEF sleep_uninterruptible
  <1>4. Waiting' = [Waiting EXCEPT ![s] = @ \cup {task_curr}]
    BY <1>2, <1>3 DEF Waiting
  <1>5. task_curr \notin Waiting[s] /\ owner' = owner
    BY <1>3 DEF Waiting, sleep_uninterruptible
  <1>6. M!Ask(task_curr, s)
    BY <1>4, <1>5 DEF M!Ask, Waiting
  <1> QED
    BY <1>2, <1>6 DEF M!Next

\* sem_wait takes the lock or asks for it.
LEMMA SemwaitSim ==
  ASSUME IndInv, Running, NEW s \in Sem, sys_semwait(s)
  PROVE  M!Next \/ UNCHANGED M!mutexVars
PROOF
  <1>1. Syscall /\ info[s] /\ owner[s] # task_curr
    BY DEF sys_semwait
  <1>2. task_curr \in Task /\ Contains(runq, task_curr)
    BY <1>1, CallerRunnable
  <1>3. CASE semwait_take(s)
    <2>1. owner[s] = None
      BY <1>1, <1>3, TakeInv
    <2>2. task_curr \notin Waiting[s]
      BY <1>2 DEF Waiting, IndInv, QueueInv
    <2>3. owner' = [owner EXCEPT ![s] = task_curr] /\ wait_list' = wait_list
      BY <1>3 DEF semwait_take
    <2>4. M!Take(task_curr, s)
      BY <2>1, <2>2, <2>3 DEF M!Take, Waiting
    <2> QED
      BY <1>2, <2>4 DEF M!Next
  <1>4. CASE semwait_yield(s)
    BY <1>1, <1>4, SleepAsks DEF semwait_yield
  <1>5. CASE semwait_block(s)
    <2>1. CASE hook[task_curr]
      BY <1>5, <2>1, Invisible DEF semwait_block, semVars
    <2>2. CASE ~hook[task_curr]
      BY <1>1, <1>5, <2>2, SleepAsks DEF semwait_block
    <2> QED
      BY <2>1, <2>2
  <1> QED
    BY <1>3, <1>4, <1>5 DEF sys_semwait

\* Waking the first waiter of s hands s to it.
LEMMA WakeGrants ==
  ASSUME IndInv, Running, NEW s \in Sem, wait_list[s] # <<>>, wakeup_uninterruptible(s)
  PROVE  /\ Head(wait_list[s]) \in Task /\ Head(wait_list[s]) \in Waiting[s]
         /\ Waiting' = [Waiting EXCEPT ![s] = @ \ {Head(wait_list[s])}]
         /\ owner' = [owner EXCEPT ![s] = Head(wait_list[s])]
PROOF
  <1>1. QueueTypes /\ QueueInv
    BY Types DEF IndInv
  <1>2. /\ Head(wait_list[s]) \in Task /\ Contains(wait_list[s], Head(wait_list[s]))
        /\ \A r \in Sem, t \in Task : Contains(wait_list'[r], t) <=>
              Contains(wait_list[r], t) /\ ~(r = s /\ t = Head(wait_list[s]))
    BY <1>1, QueueWake DEF wakeup_uninterruptible
  <1> QED
    BY <1>2 DEF Waiting, wakeup_uninterruptible

\* sem_post releases the lock or hands it over.
LEMMA SempostSim ==
  ASSUME IndInv, Running, NEW s \in Sem, sys_sempost(s)
  PROVE  M!Next
PROOF
  <1>1. task_curr \in Task /\ owner[s] = task_curr
    BY CallerRunnable DEF sys_sempost
  <1>2. CASE sempost_defer(s) \/ sempost_free(s)
    <2>1. owner' = [owner EXCEPT ![s] = None] /\ wait_list' = wait_list
      BY <1>2 DEF sempost_defer, sempost_free
    <2>2. M!Release(task_curr, s)
      BY <1>1, <2>1 DEF M!Release
    <2> QED
      BY <1>1, <2>2 DEF M!Next
  <1>3. CASE sempost_wake(s)
    <2> DEFINE h == Head(wait_list[s])
    <2>1. /\ h \in Task /\ h \in Waiting[s]
          /\ Waiting' = [Waiting EXCEPT ![s] = @ \ {h}]
          /\ owner' = [owner EXCEPT ![s] = h]
      BY <1>3, WakeGrants DEF sempost_wake
    <2>2. M!HandOver(task_curr, h, s)
      BY <1>1, <2>1 DEF M!HandOver, Waiting
    <2> QED
      BY <1>1, <2>1, <2>2 DEF M!Next
  <1> QED
    BY <1>2, <1>3 DEF sys_sempost

\* The wake-up of a deferred post grants the lock.
LEMMA PostWakeupSim ==
  ASSUME IndInv, Running, post_wakeup
  PROVE  M!Next \/ UNCHANGED M!mutexVars
PROOF
  <1> DEFINE s == hook_p[task_curr]
             h == Head(wait_list[s])
  <1>1. s \in Sem /\ owner[s] = None
    BY HalfDone DEF post_wakeup, At
  <1>2. CASE wait_list[s] = <<>>
    BY <1>2, Invisible DEF post_wakeup
  <1>3. CASE wait_list[s] # <<>>
    <2>1. wakeup_uninterruptible(s)
      BY <1>3 DEF post_wakeup
    <2>2. /\ h \in Task /\ h \in Waiting[s]
          /\ Waiting' = [Waiting EXCEPT ![s] = @ \ {h}]
          /\ owner' = [owner EXCEPT ![s] = h]
      BY <1>1, <1>3, <2>1, WakeGrants
    <2>3. M!Grant(h, s)
      BY <1>1, <2>2 DEF M!Grant, Waiting
    <2> QED
      BY <1>1, <2>2, <2>3 DEF M!Next
  <1> QED
    BY <1>2, <1>3

\* Every step is a step of the lock or changes nothing of it.
LEMMA NextSim ==
  ASSUME IndInv, [Next]_vars
  PROVE  [M!Next]_M!mutexVars
PROOF
  <1>1. CASE UNCHANGED vars
    BY <1>1, Invisible DEF vars, semVars
  <1>2. CASE test_hook \/ do_sempost \/ clear_hook \/ switch_to_task \/ wait_ret \/ do_timer
    BY <1>2, Invisible DEF test_hook, do_sempost, clear_hook, switch_to_task, wait_ret,
      do_timer, semVars
  <1>3. CASE post_wakeup
    BY <1>3, PostWakeupSim DEF post_wakeup, At
  <1>4. CASE sys_yield \/ sys_exit
    BY <1>4, Invisible DEF sys_yield, sys_exit, semVars
  <1>5. ASSUME NEW s \in Sem, sys_semget(s) PROVE UNCHANGED M!mutexVars
    <2>1. Running /\ ~info[s]
      BY <1>5 DEF sys_semget, Syscall
    <2>2. wait_list[s] = <<>>
      BY <2>1 DEF IndInv, InfoInv
    <2>3. wait_list' = wait_list /\ owner' = owner
      BY <1>5, <2>2 DEF sys_semget, IndInv, TypeOK
    <2> QED
      BY <2>3, Invisible
  <1>6. ASSUME NEW s \in Sem, sys_semwait(s) PROVE M!Next \/ UNCHANGED M!mutexVars
    BY <1>6, SemwaitSim DEF sys_semwait, Syscall
  <1>7. ASSUME NEW s \in Sem, sys_sempost(s) PROVE M!Next
    BY <1>7, SempostSim DEF sys_sempost, Syscall
  <1>8. CASE Halt
    BY <1>1, <1>8 DEF Halt
  <1> QED
    BY <1>1, <1>2, <1>3, <1>4, <1>5, <1>6, <1>7, <1>8 DEF Next, Kernel, User

\* With any number of tasks and semaphores, deferred posts and nested ticks
\* never give a semaphore to two owners: semaphore.cpp implements Mutex.
THEOREM SemaphoresAreLocks == Spec => ImplementsMutex
PROOF
  <1>1. Init => M!Init
    <2>1. Init => \A s \in Sem, t \in Task : ~Contains(wait_list[s], t)
      BY DEF Init, Contains
    <2> QED
      BY <2>1 DEF Init, M!Init
  <1>2. IndInv /\ [Next]_vars => [M!Next]_M!mutexVars
    BY NextSim
  <1> QED
    BY <1>1, <1>2, SemInvariant, PTL DEF Spec, ImplementsMutex, M!Spec
-----------------------------------------------------------------------------
(* Nobody is left behind.                                                  *)

\* Every semaphore variable keeps its type, and its value is 0 or 1 until an
\* assertion fails.
THEOREM TypeCorrect == Spec => []TypeOK
PROOF
  <1>1. IndInv => TypeOK
    BY DEF IndInv
  <1> QED
    BY <1>1, SemInvariant, PTL

\* The frames of a stack are those below its top and the top.
LEMMA ConsFrame ==
  ASSUME NEW k \in Seq(FrameSet), NEW f \in FrameSet, NEW pc
  PROVE  HasFrame(<<f>> \o k, pc) <=> f.pc = pc \/ HasFrame(k, pc)
PROOF
  <1> DEFINE c == <<f>> \o k
  <1>1. /\ Len(c) = Len(k) + 1 /\ Len(k) \in Nat /\ c[1] = f
        /\ \A i \in 1..Len(k) : c[i + 1] = k[i]
    BY ConcatProperties
  <1> HIDE DEF c
  <1>2. ASSUME HasFrame(c, pc) PROVE f.pc = pc \/ HasFrame(k, pc)
    <2>1. PICK i \in 1..Len(c) : c[i].pc = pc
      BY <1>2 DEF HasFrame
    <2>2. CASE i = 1
      BY <1>1, <2>1, <2>2
    <2>3. CASE i # 1
      <3>1. i - 1 \in 1..Len(k) /\ c[(i - 1) + 1] = k[i - 1] /\ (i - 1) + 1 = i
        BY <1>1, <2>3
      <3> QED
        BY <2>1, <3>1 DEF HasFrame
    <2> QED
      BY <2>2, <2>3
  <1>3. ASSUME f.pc = pc PROVE HasFrame(c, pc)
    <2>1. 1 \in 1..Len(c)
      BY <1>1
    <2> QED
      BY <1>1, <1>3, <2>1 DEF HasFrame
  <1>4. ASSUME HasFrame(k, pc) PROVE HasFrame(c, pc)
    <2>1. PICK i \in 1..Len(k) : k[i].pc = pc
      BY <1>4 DEF HasFrame
    <2>2. i + 1 \in 1..Len(c) /\ c[i + 1] = k[i]
      BY <1>1
    <2> QED
      BY <2>1, <2>2 DEF HasFrame
  <1> QED
    BY <1>2, <1>3, <1>4 DEF c

\* The same, seen from a stack that is not empty
LEMMA TopFrame ==
  ASSUME NEW k \in Seq(FrameSet), k # <<>>, NEW pc
  PROVE  HasFrame(k, pc) <=> Head(k).pc = pc \/ HasFrame(Tail(k), pc)
PROOF
  <1>1. /\ Tail(k) \in Seq(FrameSet) /\ Head(k) \in FrameSet
        /\ k = <<Head(k)>> \o Tail(k)
    BY HeadTailProperties, ConcatProperties
  <1> QED
    BY <1>1, ConsFrame

\* A task that calls the kernel from user mode has no old schedule() to finish.
LEMMA CallerFrames ==
  ASSUME StackTypes, UserMode,
         \/ kstack' = kstack
         \/ Push(schedule)
         \/ \E s \in Sem : Push(schedule \o <<Frame("wait_ret", s)>>),
         NEW pc \in {"switch", "clear"}
  PROVE  ~HasFrame(kstack'[task_curr], pc)
PROOF
  <1> DEFINE c == task_curr
             f == Frame("hook", None)
  <1>1. c \in Task /\ kstack[c] = <<>> /\ <<>> \in Seq(FrameSet) /\ ~HasFrame(<<>>, pc)
    BY DEF StackTypes, UserMode, HasFrame
  <1>2. f \in FrameSet /\ f.pc = "hook"
    BY DEF Frame, FrameSet
  <1>3. CASE kstack' = kstack
    BY <1>1, <1>3
  <1>4. CASE Push(schedule)
    <2>1. kstack'[c] = <<f>> \o kstack[c]
      BY <1>1, <1>4 DEF Push, schedule, StackTypes
    <2> HIDE DEF f
    <2>2. ~HasFrame(<<f>> \o <<>>, pc)
      BY <1>1, <1>2, ConsFrame
    <2> QED
      BY <1>1, <2>1, <2>2
  <1>5. ASSUME NEW s \in Sem, Push(schedule \o <<Frame("wait_ret", s)>>)
        PROVE  ~HasFrame(kstack'[c], pc)
    <2> DEFINE g == Frame("wait_ret", s)
               k == <<g>> \o <<>>
    <2>1. g \in FrameSet /\ g.pc = "wait_ret"
      BY DEF Frame, FrameSet
    <2>2. (<<f>> \o <<g>>) \o <<>> = <<f>> \o k
      BY <1>1, <1>2, <2>1, ConcatAssociative
    <2>3. kstack'[c] = <<f>> \o k
      BY <1>1, <1>5, <2>2 DEF Push, schedule, StackTypes
    <2> HIDE DEF f, g
    <2>4. k \in Seq(FrameSet)
      BY <1>1, <2>1, ConsStack
    <2>5. ~HasFrame(k, pc)
      BY <1>1, <2>1, ConsFrame
    <2> HIDE DEF k
    <2>6. ~HasFrame(<<f>> \o k, pc)
      BY <1>2, <2>4, <2>5, ConsFrame
    <2> QED
      BY <2>3, <2>6
  <1> QED
    BY <1>3, <1>4, <1>5

\* What NoLostWakeup needs of a state
WakeInv == Running => HookOnProcessor /\ NoLostWakeup

\* A step of the task on the processor that leaves the others' hooks, and at
\* most clears its own or arms it without old frames, keeps HookOnProcessor.
LEMMA HookKept ==
  ASSUME IndInv, HookOnProcessor, task_curr' = task_curr,
         \A t \in Task \ {task_curr} : hook'[t] = hook[t],
         hook'[task_curr] =>
           /\ ~HasFrame(kstack'[task_curr], "switch")
           /\ HasFrame(kstack'[task_curr], "clear") => value'[hook_p'[task_curr]] = 0
  PROVE  HookOnProcessor'
PROOF
  <1> SUFFICES ASSUME NEW t \in Task, hook'[t]
               PROVE  /\ t = task_curr'
                      /\ ~HasFrame(kstack'[t], "switch")
                      /\ HasFrame(kstack'[t], "clear") => value'[hook_p'[t]] = 0
    BY DEF HookOnProcessor
  <1>1. t = task_curr
    BY DEF HookOnProcessor
  <1> QED
    BY <1>1

\* Programs share a single semaphore.
OneSem == \A r, s \in Sem : r = s

\* sem_wait: a task goes to sleep on a free semaphore only when it gives way,
\* with the hook for that very semaphore armed.
LEMMA SemwaitWake ==
  ASSUME OneSem, IndInv, WakeInv, Running, NEW s \in Sem, sys_semwait(s)
  PROVE  WakeInv'
PROOF
  <1> DEFINE c == task_curr
  <1> SUFFICES ASSUME Running' PROVE HookOnProcessor' /\ NoLostWakeup'
    BY DEF WakeInv
  <1>1. /\ StackTypes /\ UserMode /\ c \in Task /\ HookOnProcessor /\ NoLostWakeup
        /\ value \in [Sem -> Int] /\ wait_list \in [Sem -> Seq(Task)]
        /\ hook \in [Task -> BOOLEAN] /\ hook_p \in [Task -> Sem \cup {None}]
    BY Types DEF IndInv, TypeOK, sys_semwait, Syscall, WakeInv
  <1>2. task_curr' = task_curr /\ hook' = hook /\ hook_p' = hook_p
    BY DEF sys_semwait, semwait_take, semwait_yield, semwait_block, sleep_uninterruptible,
      schedVars, hookVars
  <1>3. \A r \in Sem : r = s
    BY DEF OneSem
  <1>4. CASE semwait_take(s)
    <2>1. kstack' = kstack /\ value' = [value EXCEPT ![s] = @ - 1] /\ value[s] = 1
      BY <1>4 DEF semwait_take, schedVars, Asserted, Running
    <2>2. ~HasFrame(kstack'[c], "switch") /\ ~HasFrame(kstack'[c], "clear")
      BY <1>1, <2>1, CallerFrames
    <2>3. HookOnProcessor'
      BY <1>1, <1>2, <2>2, HookKept
    <2>4. \A r \in Sem : value'[r] = 0
      BY <1>1, <1>3, <2>1
    <2> QED
      BY <2>3, <2>4 DEF NoLostWakeup
  <1>5. CASE semwait_yield(s)
    <2>1. Push(schedule \o <<Frame("wait_ret", s)>>) /\ hook[c]
      BY <1>5 DEF semwait_yield, sleep_uninterruptible, SlicePost
    <2>2. ~HasFrame(kstack'[c], "switch") /\ ~HasFrame(kstack'[c], "clear")
      BY <1>1, <2>1, CallerFrames
    <2>3. HookOnProcessor'
      BY <1>1, <1>2, <2>2, HookKept
    <2>4. hook_p[c] # None
      BY <1>1, <2>1 DEF IndInv, HookInv
    <2>5. \A r \in Sem : hook_p[c] = r
      BY <1>1, <1>3, <2>4
    <2> QED
      BY <1>2, <2>1, <2>3, <2>5 DEF NoLostWakeup
  <1>6. CASE semwait_block(s)
    <2>1. sleep_uninterruptible(s, <<>>) /\ ~ValueFree(s)
      BY <1>6 DEF semwait_block, Running
    <2>2. schedule \o <<>> = schedule
      <3>1. schedule \in Seq(FrameSet)
        BY DEF schedule, Frame, FrameSet
      <3> QED
        BY <3>1, ConcatEmptySeq
    <2>3. Push(schedule) /\ value' = value
      BY <2>1, <2>2 DEF sleep_uninterruptible
    <2>4. ~HasFrame(kstack'[c], "switch") /\ ~HasFrame(kstack'[c], "clear")
      BY <1>1, <2>3, CallerFrames
    <2>5. HookOnProcessor'
      BY <1>1, <1>2, <2>4, HookKept
    <2>6. \A r \in Sem : ~(value'[r] > 0)
      BY <1>3, <2>1, <2>3 DEF ValueFree
    <2> QED
      BY <2>5, <2>6 DEF NoLostWakeup
  <1> QED
    BY <1>4, <1>5, <1>6 DEF sys_semwait

\* sem_post: the value rises above waiters only where the hook is armed.
LEMMA SempostWake ==
  ASSUME OneSem, IndInv, WakeInv, Running, NEW s \in Sem, sys_sempost(s)
  PROVE  WakeInv'
PROOF
  <1> DEFINE c == task_curr
  <1> SUFFICES ASSUME Running' PROVE HookOnProcessor' /\ NoLostWakeup'
    BY DEF WakeInv
  <1>1. /\ StackTypes /\ UserMode /\ c \in Task /\ HookOnProcessor /\ NoLostWakeup
        /\ value \in [Sem -> Int] /\ wait_list \in [Sem -> Seq(Task)]
        /\ hook \in [Task -> BOOLEAN] /\ hook_p \in [Task -> Sem \cup {None}]
        /\ value[s] \in 0..1
    BY Types DEF IndInv, TypeOK, sys_sempost, Syscall, WakeInv
  <1>2. task_curr' = task_curr /\ kstack' = kstack
    BY DEF sys_sempost, sempost_defer, sempost_wake, sempost_free, schedVars
  <1>3. \A r \in Sem : r = s
    BY DEF OneSem
  <1>4. ~HasFrame(kstack'[c], "switch") /\ ~HasFrame(kstack'[c], "clear")
    BY <1>1, <1>2, CallerFrames
  <1>5. \A t \in Task \ {c} : hook'[t] = hook[t]
    BY <1>1 DEF sys_sempost, sempost_defer, sempost_wake, sempost_free, hookVars
  <1>6. HookOnProcessor'
    BY <1>1, <1>2, <1>4, <1>5, HookKept
  <1>7. CASE sempost_defer(s)
    <2>1. hook'[c] /\ hook_p'[c] = s
      BY <1>1, <1>7 DEF sempost_defer
    <2> QED
      BY <1>2, <1>3, <1>6, <2>1 DEF NoLostWakeup
  <1>8. CASE sempost_wake(s)
    <2>1. value' = value
      BY <1>8 DEF sempost_wake
    <2>2. owner[s] # None
      BY <1>1, SemAssumption DEF sys_sempost, Task, None
    <2>3. value[s] = 0
      BY <1>1, <2>2 DEF IndInv, TokenInv
    <2> QED
      BY <1>3, <1>6, <2>1, <2>3 DEF NoLostWakeup
  <1>9. CASE sempost_free(s)
    <2>1. wait_list'[s] = <<>>
      BY <1>9 DEF sempost_free
    <2> QED
      BY <1>3, <1>6, <2>1 DEF NoLostWakeup
  <1> QED
    BY <1>7, <1>8, <1>9 DEF sys_sempost

\* The other system calls and the tick leave semaphores and hooks alone; a
\* tick in user mode or in the kernel only starts another schedule().
LEMMA CallsWake ==
  ASSUME IndInv, WakeInv, Running, sys_yield \/ sys_exit \/ do_timer
  PROVE  WakeInv'
PROOF
  <1> DEFINE c == task_curr
             f == Frame("hook", None)
  <1> SUFFICES ASSUME Running' PROVE HookOnProcessor' /\ NoLostWakeup'
    BY DEF WakeInv
  <1>1. /\ StackTypes /\ c \in Task /\ kstack[c] \in Seq(FrameSet)
        /\ HookOnProcessor /\ NoLostWakeup
    BY Types DEF IndInv, TypeOK, WakeInv
  <1>2. UNCHANGED <<task_curr, value, wait_list, hook, hook_p, panic>>
    BY DEF sys_yield, sys_exit, do_timer, semVars, hookVars
  <1>3. NoLostWakeup'
    BY <1>1, <1>2 DEF NoLostWakeup
  <1>4. kstack' = kstack \/ Push(schedule)
    BY DEF sys_yield, sys_exit, do_timer
  <1>5. ASSUME NEW pc \in {"switch", "clear"}
        PROVE  HasFrame(kstack'[c], pc) => HasFrame(kstack[c], pc)
    <2>1. CASE kstack' = kstack
      BY <2>1
    <2>2. CASE Push(schedule)
      <3>1. f \in FrameSet /\ f.pc = "hook"
        BY DEF Frame, FrameSet
      <3>2. kstack'[c] = <<f>> \o kstack[c]
        BY <1>1, <2>2 DEF Push, schedule, StackTypes
      <3> HIDE DEF f, c
      <3>3. HasFrame(<<f>> \o kstack[c], pc) => HasFrame(kstack[c], pc)
        BY <1>1, <3>1, ConsFrame
      <3> QED
        BY <3>2, <3>3
    <2> QED
      BY <1>4, <2>1, <2>2
  <1>6. HookOnProcessor'
    <2>1. hook'[c] =>
            /\ ~HasFrame(kstack'[c], "switch")
            /\ HasFrame(kstack'[c], "clear") => value'[hook_p'[c]] = 0
      BY <1>1, <1>2, <1>5 DEF HookOnProcessor
    <2> QED
      BY <1>1, <1>2, <2>1, HookKept
  <1> QED
    BY <1>3, <1>6

\* sem_init finds nobody waiting.
LEMMA SemgetWake ==
  ASSUME OneSem, IndInv, WakeInv, Running, NEW s \in Sem, sys_semget(s)
  PROVE  WakeInv'
PROOF
  <1> DEFINE c == task_curr
  <1> SUFFICES ASSUME Running' PROVE HookOnProcessor' /\ NoLostWakeup'
    BY DEF WakeInv
  <1>1. /\ StackTypes /\ UserMode /\ c \in Task /\ HookOnProcessor
        /\ wait_list \in [Sem -> Seq(Task)]
    BY Types DEF IndInv, TypeOK, sys_semget, Syscall, WakeInv
  <1>2. UNCHANGED <<task_curr, kstack, hook, hook_p>> /\ wait_list'[s] = <<>>
    BY <1>1 DEF sys_semget, schedVars, hookVars
  <1>3. ~HasFrame(kstack'[c], "switch") /\ ~HasFrame(kstack'[c], "clear")
    BY <1>1, <1>2, CallerFrames
  <1>4. HookOnProcessor'
    BY <1>1, <1>2, <1>3, HookKept
  <1>5. \A r \in Sem : wait_list'[r] = <<>>
    BY <1>2 DEF OneSem
  <1> QED
    BY <1>4, <1>5 DEF NoLostWakeup

\* The current task goes on in schedule() at frame g.
LEMMA GotoWake ==
  ASSUME IndInv, HookOnProcessor, ~UserMode, NEW g \in FrameSet, Goto(g),
         task_curr' = task_curr, hook' = hook, hook_p' = hook_p,
         hook[task_curr] =>
           /\ g.pc # "switch"
           /\ g.pc = "clear" => value'[hook_p[task_curr]] = 0,
         value[hook_p[task_curr]] = 0 => value'[hook_p[task_curr]] = 0
  PROVE  HookOnProcessor'
PROOF
  <1> DEFINE c == task_curr
             r == Tail(kstack[c])
  <1>1. c \in Task /\ kstack[c] \in Seq(FrameSet) /\ kstack[c] # <<>> /\ StackTypes
    BY Types DEF IndInv, TypeOK, UserMode
  <1>2. r \in Seq(FrameSet)
    BY <1>1, TailStack
  <1>3. kstack'[c] = <<g>> \o r
    BY <1>1 DEF Goto, StackTypes
  <1>4. ASSUME NEW pc PROVE HasFrame(kstack'[c], pc) => g.pc = pc \/ HasFrame(kstack[c], pc)
    <2>1. HasFrame(r, pc) => HasFrame(kstack[c], pc)
      BY <1>1, TopFrame
    <2>2. HasFrame(<<g>> \o r, pc) <=> g.pc = pc \/ HasFrame(r, pc)
      <3> HIDE DEF r
      <3> QED
        BY <1>2, ConsFrame
    <2> QED
      BY <1>3, <2>1, <2>2
  <1>5. hook[c] => /\ ~HasFrame(kstack[c], "switch")
                   /\ HasFrame(kstack[c], "clear") => value[hook_p[c]] = 0
    BY <1>1 DEF HookOnProcessor
  <1>6. hook'[c] =>
          /\ ~HasFrame(kstack'[c], "switch")
          /\ HasFrame(kstack'[c], "clear") => value'[hook_p'[c]] = 0
    BY <1>4, <1>5
  <1> QED
    BY <1>6, HookKept

\* schedule() up to the switch: the deferred post takes the value before it
\* wakes, so the hook is cleared only when nothing is owed.
LEMMA HookWake ==
  ASSUME OneSem, IndInv, WakeInv, Running,
         test_hook \/ do_sempost \/ post_wakeup \/ clear_hook
  PROVE  WakeInv'
PROOF
  <1> DEFINE c == task_curr
             p == hook_p[c]
  <1> SUFFICES ASSUME Running' PROVE HookOnProcessor' /\ NoLostWakeup'
    BY DEF WakeInv
  <1>1. /\ StackTypes /\ c \in Task /\ kstack[c] \in Seq(FrameSet)
        /\ HookOnProcessor /\ NoLostWakeup
        /\ value \in [Sem -> Int] /\ \A r \in Sem : value[r] \in 0..1
        /\ hook \in [Task -> BOOLEAN]
    BY Types DEF IndInv, TypeOK, WakeInv
  <1>2. ~UserMode
    BY DEF test_hook, do_sempost, post_wakeup, clear_hook, At
  <1>3. CASE test_hook
    <2> DEFINE g == Frame(IF Armed(c) THEN "post" ELSE "switch", None)
    <2>1. /\ Goto(g) /\ UNCHANGED <<task_curr, value, wait_list, hook, hook_p>>
          /\ g \in FrameSet
          /\ hook[c] => g.pc = "post"
      BY <1>3 DEF test_hook, semVars, hookVars, Frame, FrameSet, Armed
    <2> HIDE DEF g
    <2>2. HookOnProcessor'
      BY <1>1, <1>2, <2>1, GotoWake
    <2>3. NoLostWakeup'
      BY <1>1, <2>1 DEF NoLostWakeup
    <2> QED
      BY <2>2, <2>3
  <1>4. CASE do_sempost
    <2> DEFINE g == Frame("wakeup", None)
    <2>1. p \in Sem
      BY <1>2, <1>4, PostHasSem DEF do_sempost, At
    <2>2. /\ Goto(g) /\ UNCHANGED <<task_curr, hook, hook_p>>
          /\ g \in FrameSet /\ g.pc = "wakeup"
          /\ value' = [value EXCEPT ![p] = @ - 1] /\ value[p] = 1
      BY <1>4 DEF do_sempost, hookVars, Frame, FrameSet, Asserted, Running
    <2> HIDE DEF g
    <2>3. HookOnProcessor'
      BY <1>1, <1>2, <2>2, GotoWake
    <2>4. \A r \in Sem : value'[r] = 0
      BY <1>1, <2>1, <2>2 DEF OneSem
    <2> QED
      BY <2>3, <2>4 DEF NoLostWakeup
  <1>5. CASE post_wakeup
    <2> DEFINE g == Frame("clear", None)
    <2>1. p \in Sem /\ value[p] = 0
      BY <1>1, <1>2, <1>5, HalfDone DEF post_wakeup, At
    <2>2. /\ Goto(g) /\ UNCHANGED <<task_curr, value, hook, hook_p>>
          /\ g \in FrameSet /\ g.pc = "clear"
      BY <1>5 DEF post_wakeup, hookVars, Frame, FrameSet
    <2> HIDE DEF g
    <2>3. HookOnProcessor'
      BY <1>1, <1>2, <2>1, <2>2, GotoWake
    <2>4. \A r \in Sem : value'[r] = 0
      BY <2>1, <2>2 DEF OneSem
    <2> QED
      BY <2>3, <2>4 DEF NoLostWakeup
  <1>6. CASE clear_hook
    <2>1. /\ UNCHANGED <<task_curr, value, wait_list, hook_p>>
          /\ hook' = [hook EXCEPT ![c] = FALSE] /\ Head(kstack[c]).pc = "clear"
      BY <1>6 DEF clear_hook, semVars, At, Top
    <2>2. HookOnProcessor'
      BY <1>1, <2>1, HookKept
    <2>3. HasFrame(kstack[c], "clear")
      BY <1>1, <1>2, <2>1, TopFrame DEF UserMode
    <2>4. ASSUME NEW r \in Sem PROVE ~(value[r] > 0 /\ wait_list[r] # <<>>)
      <3>1. CASE hook[c] /\ p = r
        BY <1>1, <2>3, <3>1 DEF HookOnProcessor
      <3>2. CASE ~(hook[c] /\ p = r)
        BY <1>1, <3>2 DEF NoLostWakeup
      <3> QED
        BY <3>1, <3>2
    <2> QED
      BY <2>1, <2>2, <2>4 DEF NoLostWakeup
  <1> QED
    BY <1>3, <1>4, <1>5, <1>6

\* The processor is given away with no hook armed, hence with no waiter for a
\* free semaphore.
LEMMA SwitchWake ==
  ASSUME IndInv, WakeInv, Running, switch_to_task
  PROVE  WakeInv'
PROOF
  <1> DEFINE c == task_curr
  <1>1. /\ c \in Task /\ kstack[c] \in Seq(FrameSet) /\ kstack[c] # <<>>
        /\ Head(kstack[c]).pc = "switch" /\ HookOnProcessor /\ NoLostWakeup
    BY DEF IndInv, TypeOK, WakeInv, switch_to_task, At, Top, UserMode
  <1>2. HasFrame(kstack[c], "switch")
    BY <1>1, TopFrame
  <1>3. \A t \in Task : ~hook[t]
    BY <1>1, <1>2 DEF HookOnProcessor
  <1>4. UNCHANGED <<value, wait_list, hook, hook_p>>
    BY DEF switch_to_task, semVars, hookVars
  <1>5. HookOnProcessor'
    BY <1>3, <1>4 DEF HookOnProcessor
  <1>6. \A s \in Sem : ~(value[s] > 0 /\ wait_list[s] # <<>>)
    BY <1>1, <1>3 DEF NoLostWakeup
  <1>7. NoLostWakeup'
    BY <1>4, <1>6 DEF NoLostWakeup
  <1> QED
    BY <1>5, <1>7 DEF WakeInv

\* A sem_wait that returns leaves the hooks alone.
LEMMA WaitRetWake ==
  ASSUME IndInv, WakeInv, Running, wait_ret
  PROVE  WakeInv'
PROOF
  <1> DEFINE c == task_curr
  <1> SUFFICES ASSUME Running' PROVE HookOnProcessor' /\ NoLostWakeup'
    BY DEF WakeInv
  <1>1. /\ c \in Task /\ kstack \in [Task -> Seq(FrameSet)] /\ kstack[c] # <<>>
        /\ HookOnProcessor /\ NoLostWakeup
    BY DEF IndInv, TypeOK, WakeInv, wait_ret, At, UserMode
  <1>2. /\ UNCHANGED <<task_curr, value, wait_list, hook, hook_p>>
        /\ kstack'[c] = Tail(kstack[c])
    BY <1>1 DEF wait_ret, semVars, hookVars
  <1>3. \A pc : HasFrame(Tail(kstack[c]), pc) => HasFrame(kstack[c], pc)
    BY <1>1, TopFrame
  <1>4. hook'[c] =>
          /\ ~HasFrame(kstack'[c], "switch")
          /\ HasFrame(kstack'[c], "clear") => value'[hook_p'[c]] = 0
    BY <1>1, <1>2, <1>3 DEF HookOnProcessor
  <1>5. HookOnProcessor'
    BY <1>1, <1>2, <1>4, HookKept
  <1>6. NoLostWakeup'
    BY <1>1, <1>2 DEF NoLostWakeup
  <1> QED
    BY <1>5, <1>6

\* Every step keeps WakeInv.
LEMMA WakeStep ==
  ASSUME OneSem, IndInv, WakeInv, [Next]_vars
  PROVE  WakeInv'
PROOF
  <1>1. CASE UNCHANGED vars
    BY <1>1 DEF vars, schedVars, semVars, hookVars, WakeInv, Running, HookOnProcessor,
      NoLostWakeup, HasFrame
  <1>2. CASE Kernel
    <2>1. Running
      BY <1>2 DEF Kernel, test_hook, do_sempost, post_wakeup, clear_hook, switch_to_task,
        wait_ret, At
    <2> QED
      BY <1>2, <2>1, HookWake, SwitchWake, WaitRetWake DEF Kernel
  <1>3. CASE User
    <2>1. Running
      BY <1>3 DEF User, sys_yield, sys_exit, sys_semget, sys_semwait, sys_sempost, Syscall
    <2> QED
      BY <1>3, <2>1, CallsWake, SemgetWake, SemwaitWake, SempostWake DEF User
  <1>4. CASE do_timer
    BY <1>4, CallsWake DEF do_timer
  <1>5. CASE Halt
    BY <1>1, <1>5 DEF Halt
  <1> QED
    BY <1>1, <1>2, <1>3, <1>4, <1>5 DEF Next

\* In programs that share one semaphore, with any number of tasks and any
\* nesting of ticks, a free semaphore with waiters always has its deferred
\* wake-up ahead of it on the processor: run_before_switch_f loses nobody.
THEOREM NoWaiterLost ==
  ASSUME \A r, s \in Sem : r = s
  PROVE  Spec => []NoLostWakeup
PROOF
  <1>1. OneSem
    BY DEF OneSem
  <1>2. Init => WakeInv
    BY DEF Init, WakeInv, HookOnProcessor, NoLostWakeup
  <1>3. IndInv /\ WakeInv /\ [Next]_vars => WakeInv'
    BY <1>1, WakeStep
  <1>4. WakeInv => NoLostWakeup
    BY DEF WakeInv, NoLostWakeup
  <1> QED
    BY <1>2, <1>3, <1>4, SemInvariant, PTL DEF Spec
=============================================================================
