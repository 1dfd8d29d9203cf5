------------------------------ MODULE MCSched ------------------------------
(* Workloads for Sched: which system calls the user programs make.         *)
EXTENDS Sched

ListCalls  == {"sleep", "pause", "cgetc", "alarm", "fork", "exit",
               "wait", "kill", "lock"}
SleepCalls == {"fork", "sleep", "cgetc", "pause", "yield", "exit"}
ReapCalls  == {"fork", "wait", "kill", "alarm"}

=============================================================================
