------------------------------- MODULE Signal -------------------------------
(***************************************************************************)
(* Signal handlers of one task: send_signal, check_signals, push_stack,    *)
(* pop_stack and signal_return of kernel/signal.cpp, with the system calls *)
(* of kernel/sched.cpp that a handler may interrupt.                       *)
(*                                                                         *)
(* To run a handler, check_signals copies the kernel stack of the task to  *)
(* a new frame (push_stack), links the copy into sigstack and changes the  *)
(* user context the first stack returns to.  When the handler returns, a   *)
(* page fault ends in signal_return: pop_stack maps the copy as the second *)
(* kernel stack and jumps into it, so that check_signals returns once more *)
(* and the interrupted call ends on the copy.                              *)
(*                                                                         *)
(* The task is not task 1.  The other tasks appear only as the senders of  *)
(* signals.  They run while this task is switched out, so never while it   *)
(* is in user mode.                                                        *)
(***************************************************************************)
EXTENDS Integers, FiniteSets, Sequences, SequencesExt

CONSTANTS
  Signals,    \* the signals that are sent and handled, within 0 .. 32
  Deadlines,  \* the times sleep waits for
  MaxFrames   \* bound: handler frames on the user stack of a task that forks

ASSUME SignalAssumption ==
  /\ Signals \subseteq 0 .. 32 /\ IsFiniteSet(Signals)
  /\ Deadlines \subseteq Nat \ {0}
  /\ MaxFrames \in Nat

VARIABLES
  act,    \* signal.action: "dfl", a "handler" of the program, or a "bad"
          \* address (SIG_IGN is the address 1; exec keeps old addresses)
  sg,     \* the signal state of the task and what its stacks hold, see Init
  call,   \* the deadline of the sleep call that waits for schedule to return,
          \* 0 for pause, yield and the timer, which do nothing more
  mode,   \* where the task is
  kstack, \* the kernel stack it is on when it is not in user mode, 1 or 2
  self,   \* the bits of sg.sig that the task set with its own kill
  panic   \* the assertion or PANIC that stopped the kernel

vars == <<act, sg, call, mode, kstack, self, panic>>

SIG_DI == {17, 23}          \* SIGCHLD, SIGURG
SIG_DC == {18}              \* SIGCONT
SIG_DS == {19, 20, 21, 22}  \* SIGSTOP, SIGTSTP, SIGTTIN, SIGTTOU
SIGKILL == 9
SIGSTOP == 19

\* _S(x): the bit of a signal in an int of 32 bits; 32 shifts by 0
Bit(s) == s % 32
Bits == {Bit(s) : s \in Signals}

Calls == {0} \cup Deadlines
Frames == [sig : Bits, code : {"handler", "bad"}]
Stacks == 1 .. Cardinality(Signals) + 1  \* the frames of second stacks

NoCall == 0

\* Task::init: what fork leaves of the signal state.  ctx is the user
\* stack's handler frames, the running one last; mapped is the frame at
\* MMAP_KERNEL_STACK_2_BASE, 0 for none; ref counts references to frames.
Cleared(ctx, sleep) ==
  [sig |-> {}, pending |-> {}, ctx |-> ctx, sigstack |-> <<>>,
   sleep |-> sleep, mapped |-> 0, ref |-> [p \in Stacks |-> 0]]

DefaultActions == [b \in Bits |-> "dfl"]

Init ==
  /\ act = DefaultActions
  /\ sg = Cleared(<<>>, 0)
  /\ call = NoCall
  /\ mode = "user"
  /\ kstack = 1
  /\ self = {}
  /\ panic = "none"

Running == panic = "none"

\* The task is a zombie, or the kernel stands still; nothing reads the signal
\* state again, so the model forgets it.
Ended(m, why) ==
  /\ mode' = m /\ panic' = why
  /\ act' = DefaultActions /\ sg' = Cleared(<<>>, 0) /\ call' = NoCall
  /\ kstack' = 1 /\ self' = {}

\* The program runs; at a bad address it can only fault.
UserCode ==
  Running /\ mode = "user" /\ (sg.ctx # <<>> => Last(sg.ctx).code = "handler")

-----------------------------------------------------------------------------
(* Delivery.                                                               *)

Handled_Default(b) == b # 0
Handled(b) == b # 0 /\ act[b] # "dfl"
\* The default action of b ends or stops the task.
Deadly(b) == b # 0 /\ act[b] = "dfl" /\ b \notin SIG_DI \cup SIG_DC

\* The frame that segment_alloc takes; which free one it is does not matter
NewStack(k) == CHOOSE p \in Stacks : k.ref[p] = 0

\* Operators whose name ends in a capital and a reason are wrong versions of
\* the operator that follows them; no action uses them.
push_stack_KeepMapped(k, b) ==
  [k EXCEPT !.ref = [@ EXCEPT ![NewStack(k)] = 2],
            !.mapped = NewStack(k),
            !.sigstack = <<[sig |-> b, ctx |-> k.ctx, call |-> call,
                            sleep |-> k.sleep, stack |-> NewStack(k)]>> \o @]

\* push_stack: segment_alloc maps a new frame in the place of the last one,
\* and the copy of the stack is linked at the front of sigstack.  Running out
\* of memory is left out: kmalloc's NULL is not looked at (it is mapped), and
\* the ASSERT behind segment_alloc stops the kernel.
push_stack(k, b) ==
  [k EXCEPT !.ref = [p \in Stacks |->
                       IF p = NewStack(k) THEN 2
                       ELSE IF p = k.mapped THEN @[p] - 1 ELSE @[p]],
            !.mapped = NewStack(k),
            !.sigstack = <<[sig |-> b, ctx |-> k.ctx, call |-> call,
                            sleep |-> k.sleep, stack |-> NewStack(k)]>> \o @]

start_handler_NoPending(k, b) ==
  [push_stack(k, b) EXCEPT
     !.sig = @ \ {b},
     !.ctx = Append(@, [sig |-> b, code |-> act[b]])]

\* One turn of check_signals' loop for a signal with a handler: the handler
\* is a call on the user stack that returns to an address that faults.
start_handler(k, b) ==
  [push_stack(k, b) EXCEPT
     !.sig = @ \ {b},
     !.pending = @ \cup {b},
     !.ctx = Append(@, [sig |-> b, code |-> act[b]])]

\* The signals for which the loop of check_signals has something to do; bit 0
\* is outside of its range
Due == {b \in sg.sig : Handled(b) \/ Deadly(b)}

\* The loop goes from 31 down; a signal whose handler was started is not in
\* sg.sig any more.
Current == CHOOSE b \in Due : \A d \in Due : d <= b

\* check_signals has interrupts off, so it is alone from its first turn on.
Checking == Running /\ mode \in {"ready", "signals"}

\* A turn of the loop for a handler.  On the second stack push_stack replaces
\* the frame it runs on, which is undefined: the model counts it as a panic.
deliver ==
  /\ Checking /\ Due # {} /\ Handled(Current)
  /\ \/ kstack = 2 /\ Ended(mode, "stack 2")
     \/ /\ kstack = 1
        /\ sg' = start_handler(sg, Current)
        /\ mode' = "signals"
        /\ self' = self \ {Current}
        /\ UNCHANGED <<act, call, kstack, panic>>

\* A turn of the loop for a default action.  A stop panics, because the state
\* is already "stopped" when the task leaves the runnable list.
default_action ==
  /\ Checking /\ Due # {} /\ Deadly(Current)
  /\ IF Current \in SIG_DS THEN Ended(mode, "stopped") ELSE Ended("dead", "none")

loop_done_Handled == \A b \in sg.sig : ~Handled(b)
loop_done == Due = {}

\* The loop is over: the assertion on sigstack, and the end of schedule
check_signals ==
  /\ Checking /\ loop_done
  /\ panic' = IF sg.pending = {} /\ sg.sigstack # <<>> THEN "sigstack" ELSE "none"
  /\ mode' = IF kstack = 1 THEN "user" ELSE "kernel"
  /\ call' = IF kstack = 1 THEN NoCall ELSE call
  /\ UNCHANGED <<act, sg, kstack, self>>

-----------------------------------------------------------------------------
(* Sending.                                                                *)

\* send_signal by another task (a zombie's bits are never read).  Line 94
\* looks at the sender's action, not at the receiver's: dfl says whether the
\* sender has the default one.
wakes(s, dfl) == ~(dfl /\ Bit(s) \in SIG_DI \cup SIG_DC)

send_signal(s, dfl) ==
  /\ Running /\ mode \in {"ready", "blocked"}
  /\ Bit(s) \notin sg.pending
  /\ sg' = [sg EXCEPT !.sig = @ \cup {Bit(s)}]
  /\ mode' = IF mode = "blocked" /\ wakes(s, dfl) THEN "ready" ELSE mode
  /\ UNCHANGED <<act, call, kstack, self, panic>>

\* kill of the task itself: it is running, so only the bit is set
kill_self(s) ==
  /\ UserCode
  /\ Bit(s) \notin sg.pending
  /\ sg' = [sg EXCEPT !.sig = @ \cup {Bit(s)}]
  /\ self' = self \cup {Bit(s)}
  /\ UNCHANGED <<act, call, mode, kstack, panic>>

\* sys_signal
signal(s, a) ==
  /\ UserCode
  /\ s \notin {SIGKILL, SIGSTOP, 32}
  /\ act' = [act EXCEPT ![s] = a]
  /\ UNCHANGED <<sg, call, mode, kstack, self, panic>>

-----------------------------------------------------------------------------
(* Entering the kernel.                                                    *)

\* The timer at the end of a time slice, or sys_yield
preempt ==
  /\ Running /\ mode = "user"
  /\ mode' = "ready"
  /\ UNCHANGED <<act, sg, call, kstack, self, panic>>

\* sys_pause; with two handlers on the stack it returns at once
pause ==
  /\ UserCode
  /\ Len(sg.sigstack) <= 1
  /\ mode' = "blocked"
  /\ UNCHANGED <<act, sg, call, kstack, self, panic>>

sleep(d) ==
  /\ UserCode
  /\ sg' = [sg EXCEPT !.sleep = d]
  /\ mode' = "blocked"
  /\ call' = d
  /\ UNCHANGED <<act, kstack, self, panic>>

\* check_sleep_list, run by another task
check_sleep_list ==
  /\ Running /\ mode = "blocked" /\ call # NoCall
  /\ sg' = [sg EXCEPT !.sleep = 0]
  /\ mode' = "ready"
  /\ UNCHANGED <<act, call, kstack, self, panic>>

-----------------------------------------------------------------------------
(* The return of a handler.                                                *)

pop_stack_KeepSleep(k) ==
  LET s == Head(k.sigstack)
  IN  [k EXCEPT !.sigstack = Tail(@), !.ctx = s.ctx, !.mapped = s.stack,
                !.ref = [p \in Stacks |->
                           IF p = k.mapped THEN @[p] - 1 ELSE @[p]]]

\* pop_stack: page_insert maps the frame of the copy again, refcount_dec
\* drops the reference of sigstack, and the frame that was mapped loses one.
pop_stack(k) ==
  LET s == Head(k.sigstack)
  IN  [k EXCEPT !.sigstack = Tail(@), !.ctx = s.ctx, !.mapped = s.stack,
                !.sleep = s.sleep,
                !.ref = [p \in Stacks |->
                           IF p = k.mapped THEN @[p] - 1 ELSE @[p]]]

\* What page_insert returns for the frame of the copy
inserted(k) ==
  LET s == Head(k.sigstack).stack
  IN  IF s = k.mapped THEN k.ref[s] ELSE k.ref[s] + 1

\* do_page_fault at the address a handler returns to, and signal_return.  The
\* copy continues behind its push_stack: with no signal left it leaves
\* check_signals (without popif: the fault started at n_cli 0); otherwise it
\* handles its old signal again, until the assertion of push_stack or a popif
\* without a pushcli stops it.
signal_return ==
  /\ UserCode /\ sg.ctx # <<>> /\ sg.pending # {}
  /\ LET k == [sg EXCEPT !.pending = @ \ {Last(sg.ctx).sig}]
         why == IF sg.sigstack = <<>> THEN "pop_stack"
                ELSE IF inserted(k) # 2 THEN "page_insert"
                ELSE IF sg.sig # {} THEN "resumed"
                ELSE IF k.pending = {} /\ Len(sg.sigstack) > 1 THEN "sigstack"
                ELSE "none"
     IN  \/ why # "none" /\ Ended(mode, why)
         \/ /\ why = "none"
            /\ sg' = pop_stack(k)
            /\ call' = Head(sg.sigstack).call
            /\ mode' = "kernel" /\ kstack' = 2
            /\ UNCHANGED <<act, self, panic>>

\* The rest of the interrupted call on the second stack, up to trapret
return_from_trap ==
  /\ Running /\ mode = "kernel"
  /\ mode' = "user" /\ kstack' = 1 /\ call' = NoCall
  /\ UNCHANGED <<act, sg, self, panic>>

\* The timer interrupts that rest, and schedule switches to another task.
preempt_kernel ==
  /\ Running /\ mode = "kernel"
  /\ mode' = "ready"
  /\ UNCHANGED <<act, sg, call, kstack, self, panic>>

-----------------------------------------------------------------------------
(* Other calls that meet the signal state.                                 *)

\* The program exits or faults, or returns from a handler when no signal is
\* pending: do_exit
do_exit ==
  /\ Running /\ mode = "user"
  /\ Ended("dead", "none")

\* do_execve leaves signal state, handlers and sigstack as they are.
execve ==
  /\ UserCode
  /\ act' = [b \in Bits |-> IF act[b] = "dfl" THEN "dfl" ELSE "bad"]
  /\ sg' = [sg EXCEPT !.ctx = <<>>]
  /\ UNCHANGED <<call, mode, kstack, self, panic>>

\* do_fork, seen by the child: its sleep and its user stack are copies.
fork_child ==
  /\ UserCode /\ Len(sg.ctx) <= MaxFrames
  /\ sg' = Cleared(sg.ctx, sg.sleep)
  /\ self' = {}
  /\ UNCHANGED <<act, call, mode, kstack, panic>>

\* do_fork without memory for the kernel stack: task_free_kernel_stack of
\* the child frees the sigstack of the current task, the parent.  A frame
\* still mapped fails page_free's assertion on the count, another one its
\* assertion that the frame is not free yet.
bad_fork_copy_kernel_stack ==
  /\ UserCode /\ sg.sigstack # <<>>
  /\ Ended(mode, "free_sigstack")

Next ==
  \/ deliver
  \/ default_action
  \/ check_signals
  \/ \E s \in Signals, dfl \in BOOLEAN : send_signal(s, dfl)
  \/ \E s \in Signals : kill_self(s)
  \/ \E s \in Signals, a \in {"dfl", "handler", "bad"} : signal(s, a)
  \/ preempt
  \/ pause
  \/ \E d \in Deadlines : sleep(d)
  \/ check_sleep_list
  \/ signal_return
  \/ return_from_trap
  \/ preempt_kernel
  \/ do_exit
  \/ execve
  \/ fork_child
  \/ bad_fork_copy_kernel_stack

Spec == Init /\ [][Next]_vars

-----------------------------------------------------------------------------
(* Properties.                                                             *)

Records == [sig : Bits, ctx : Seq(Frames), call : Calls,
            sleep : Calls, stack : Stacks]
SignalStates == [sig : SUBSET Bits, pending : SUBSET Bits, ctx : Seq(Frames),
                 sigstack : Seq(Records), sleep : Calls,
                 mapped : {0} \cup Stacks, ref : [Stacks -> 0 .. 2]]

TypeOK ==
  /\ act \in [Bits -> {"dfl", "handler", "bad"}]
  /\ sg \in SignalStates
  /\ call \in Calls
  /\ mode \in {"user", "ready", "blocked", "signals", "kernel", "dead"}
  /\ kstack \in {1, 2}
  /\ self \subseteq sg.sig
  /\ panic \in {"none", "stack 2", "sigstack", "stopped", "pop_stack",
               "page_insert", "resumed", "free_sigstack"}

\* Saved stacks and user stack tell the same story: signal.pending is exactly
\* the signals of the saved stacks, each once, and the saved stack that a
\* handler's return will pop resumes the user context below that handler's
\* frame (check_signals, push_stack, signal_return, through fork and exec).
\* So the assertions on sigstack in schedule and in pop_stack hold.
HandlerStack ==
  /\ panic \notin {"sigstack", "pop_stack"}
  /\ Running =>
    /\ sg.pending = {sg.sigstack[i].sig : i \in DOMAIN sg.sigstack}
    /\ Cardinality(sg.pending) = Len(sg.sigstack)
    /\ \A i \in DOMAIN sg.sigstack : i <= Len(sg.ctx) =>
         LET n == Len(sg.ctx) - i + 1
         IN  /\ sg.sigstack[i].sig = sg.ctx[n].sig
             /\ sg.sigstack[i].ctx = SubSeq(sg.ctx, 1, n - 1)

\* The frames of the second stacks: one reference for the mapping, one for
\* each saved stack, so that pop_stack's page_insert always returns 2.
StackFramesExact ==
  /\ panic # "page_insert"
  /\ \A p \in Stacks :
       sg.ref[p] = (IF sg.mapped = p THEN 1 ELSE 0)
                   + Cardinality({i \in DOMAIN sg.sigstack :
                                    sg.sigstack[i].stack = p})

\* A sleep that handlers interrupted still ends with its own deadline in
\* task->sleep (or 0, once it is over), whatever the handlers slept for:
\* pop_stack restores what push_stack saved.
SleepRestored ==
  (Running /\ mode \in {"blocked", "ready", "signals", "kernel"} /\ call # NoCall)
    => sg.sleep \in {0, call}

\* While the program runs, waits, or ends a call behind a handler, no signal
\* is left undelivered except those it sent to itself and those no default
\* action takes (bit 0, and the ignored ones): exactly the signals that make a
\* handler's return panic, or that a pause sleeps over.
LeftoverExplained ==
  (Running /\ mode \in {"user", "blocked", "kernel"})
    => sg.sig \subseteq self \cup {0} \cup SIG_DI \cup SIG_DC
=============================================================================
