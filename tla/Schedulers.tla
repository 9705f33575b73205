------------------------------- MODULE Schedulers -------------------------------
(***************************************************************************)
(* The schedulers of both kernels, on machines with one processor or more: *)
(*   A7   Scheduler, the Assignment 7 kernel                               *)
(*   A4   SchedulerA4, the Assignment 4 kernel                             *)
(* A behaviour is of one machine.  They share the process table and the    *)
(* processors; a variable a kernel does not have keeps its first value.    *)
(***************************************************************************)
EXTENDS Scheduler

VARIABLE found               \* SchedulerA4

prioVars == <<priority, wait_ticks, cursor, best, best_priority>>
allVars == <<vars, found>>

Four == INSTANCE SchedulerA4

AnyInit == Init /\ Four!Init

AnyNext == \/ machine.kernel = "A7" /\ Next /\ UNCHANGED found
           \/ machine.kernel = "A4" /\ Four!Next /\ UNCHANGED prioVars

SafeSpec == AnyInit /\ [][AnyNext]_allVars

(***************************************************************************)
(* Fairness: a processor goes on executing the scheduler, every timer goes *)
(* on ticking (clockintr() programs the next interrupt), and a process     *)
(* does not keep interrupts off for ever.                                  *)
(***************************************************************************)
InA7(c, A) == machine.kernel = "A7" /\ c \in Online /\ A /\ UNCHANGED <<machine, found>>
InA4(c, A) == machine.kernel = "A4" /\ c \in Online /\ A /\ UNCHANGED <<machine, prioVars>>

Fairness ==
  \A c \in Cpu :
    /\ WF_allVars(InA7(c, CpuStep(c))) /\ WF_allVars(InA4(c, Four!CpuStep(c)))
    /\ WF_allVars(InA7(c, Timer(c))) /\ WF_allVars(InA4(c, Four!Timer(c)))
    /\ WF_allVars(InA7(c, Preempt(c))) /\ WF_allVars(InA4(c, Four!Preempt(c)))

Spec == SafeSpec /\ Fairness

-------------------------------------------------------------------------------
(***************************************************************************)
(* The scheduler of Assignment 7 claims the most urgent RUNNABLE process,  *)
(* and among equals the first after the one that ran last.                 *)
(***************************************************************************)
ClaimsMostUrgent == [][machine.kernel = "A7" => ClaimsMostUrgentNow]_allVars

(***************************************************************************)
(* Every RUNNABLE process runs: by aging in Assignment 7 on one processor  *)
(* (REPORT.md:45), unless somebody sets priorities for ever, which puts    *)
(* off every promotion (ksetpriority() resets wait_ticks); and by taking   *)
(* turns in Assignment 4, on any number of processors.                     *)
(***************************************************************************)
Serves(p, s) == state[p] = s /\ (machine.kernel = "A4" \/ \E c \in Cpu : Alone(c))

SetsPriority ==
  /\ machine.kernel = "A7"
  /\ \E c \in Online, p \in Used, prio \in Priorities : SetPriority(c, p, prio)

NoStarvation ==
  \/ []<><<SetsPriority>>_allVars
  \/ \A p \in Proc : Serves(p, "RUNNABLE") ~> Serves(p, "RUNNING")

===============================================================================
