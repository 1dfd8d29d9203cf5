------------------------------- MODULE Mutex -------------------------------
(***************************************************************************)
(* What sem_wait and sem_post promise to programs that use a semaphore     *)
(* created with value 1 as a lock (user_programs/test/ipctest.c): at most  *)
(* one task owns it, only its owner gives it up, and only a task that asks *)
(* for it gets it.  A free semaphore may go to a newcomer before those     *)
(* that wait, as the comment in sys_sempost intends.                       *)
(***************************************************************************)
CONSTANTS Task, Sem, None

VARIABLES
  owner,   \* the task that owns each semaphore, or None
  waiting  \* the tasks that wait for each semaphore

mutexVars == <<owner, waiting>>

Init ==
  /\ owner = [s \in Sem |-> None]
  /\ waiting = [s \in Sem |-> {}]

\* A task that does not wait takes a free semaphore.
Take(t, s) ==
  /\ owner[s] = None /\ t \notin waiting[s]
  /\ owner' = [owner EXCEPT ![s] = t]
  /\ UNCHANGED waiting

\* A task that is not the owner starts to wait.
Ask(t, s) ==
  /\ owner[s] # t /\ t \notin waiting[s]
  /\ waiting' = [waiting EXCEPT ![s] = @ \cup {t}]
  /\ UNCHANGED owner

Release(t, s) ==
  /\ owner[s] = t
  /\ owner' = [owner EXCEPT ![s] = None]
  /\ UNCHANGED waiting

\* The free semaphore goes to one that waits.
Grant(u, s) ==
  /\ owner[s] = None /\ u \in waiting[s]
  /\ owner' = [owner EXCEPT ![s] = u]
  /\ waiting' = [waiting EXCEPT ![s] = @ \ {u}]

\* The owner gives the semaphore to one that waits without freeing it.
HandOver(t, u, s) ==
  /\ owner[s] = t /\ u \in waiting[s]
  /\ owner' = [owner EXCEPT ![s] = u]
  /\ waiting' = [waiting EXCEPT ![s] = @ \ {u}]

Next ==
  \E s \in Sem, t \in Task :
    \/ Take(t, s) \/ Ask(t, s) \/ Release(t, s) \/ Grant(t, s)
    \/ \E u \in Task : HandOver(t, u, s)

Spec == Init /\ [][Next]_mutexVars

=============================================================================
