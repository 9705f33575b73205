------------------------------- MODULE Scheduler -------------------------------
(***************************************************************************)
(* The priority scheduler of the Assignment 7 kernel: scheduler(),         *)
(* age_processes(), yield(), ksetpriority() (proc.c) and the timer         *)
(* interrupt that drives them (trap.c).                                    *)
(*                                                                         *)
(* Every processor searches the process table on its own, one entry and    *)
(* one p->lock at a time, remembers the best entry it has seen, and claims *)
(* it in a second, separate critical section: each of these is a step, and *)
(* so is each entry of the aging loop, which only processor 0 runs.        *)
(*                                                                         *)
(* BLOCKED stands for every state that is neither RUNNABLE nor RUNNING.    *)
(* Interrupts are off in the scheduler except at the top of its loop.      *)
(***************************************************************************)
EXTENDS SchedulerParameters

VARIABLES state,             \* p->state
          priority,          \* p->priority
          wait_ticks,        \* p->wait_ticks
          cpc,               \* what each processor is doing
          curproc,           \* c->proc
          cursor,            \* where its next search starts
          off,               \* entries seen in this search; in aging too
          best,              \* best entry seen
          best_priority,     \* its priority when it was seen
          pending            \* a timer interrupt is pending

procVars == <<state, priority, wait_ticks>>
searchVars == <<cursor, off, best, best_priority>>
vars == <<machine, procVars, cpc, curproc, searchVars, pending>>

(***************************************************************************)
(* top    between intr_on() and intr_off()                                 *)
(* aging  in clockintr(), interrupts off (processor 0)                     *)
(* scan   in the search loop        claim  after it, with a best entry     *)
(* wfi    stopped until an interrupt                                       *)
(* run    in a process                                                     *)
(***************************************************************************)
CpuPc == {"top", "aging", "scan", "claim", "wfi", "run"}

\* Some time after boot: set_priority may have been called before.
Init ==
  /\ machine \in Machines
  /\ state \in [Proc -> {"BLOCKED", "RUNNABLE"}]
  /\ priority \in [Proc -> Priorities \cup {DEFPRIO}]
  /\ \A p \in Proc \ Used : state[p] = "BLOCKED" /\ priority[p] = DEFPRIO
  /\ wait_ticks = [p \in Proc |-> 0]
  /\ cpc = [c \in Cpu |-> "top"]
  /\ curproc = [c \in Cpu |-> None]
  /\ cursor = [c \in Cpu |-> 0]
  /\ off = [c \in Cpu |-> 0]
  /\ best = [c \in Cpu |-> None]
  /\ best_priority = [c \in Cpu |-> MAXPRIO + 1]
  /\ pending = [c \in Cpu |-> FALSE]

Goto(c, l) == cpc' = [cpc EXCEPT ![c] = l]

\* A mistake: the search starts from the least urgent priority, not from above it.
StartSearchTooLow(c) ==
  /\ Goto(c, "scan")
  /\ off' = [off EXCEPT ![c] = 0]
  /\ best' = [best EXCEPT ![c] = None]
  /\ best_priority' = [best_priority EXCEPT ![c] = MAXPRIO]
  /\ UNCHANGED cursor

StartSearch(c) ==
  /\ Goto(c, "scan")
  /\ off' = [off EXCEPT ![c] = 0]
  /\ best' = [best EXCEPT ![c] = None]
  /\ best_priority' = [best_priority EXCEPT ![c] = MAXPRIO + 1]
  /\ UNCHANGED cursor

\* clockintr() on processor 0 goes on to age the processes.
StartAging(c) ==
  /\ Goto(c, "aging")
  /\ off' = [off EXCEPT ![c] = 0]
  /\ UNCHANGED <<cursor, best, best_priority>>

-------------------------------------------------------------------------------
(***************************************************************************)
(* scheduler()                                                             *)
(***************************************************************************)

\* intr_on(), intr_off(): a pending timer interrupt is taken here.
Top(c) ==
  /\ cpc[c] = "top"
  /\ IF pending[c] /\ c = 0 THEN StartAging(c) ELSE StartSearch(c)
  /\ pending' = [pending EXCEPT ![c] = FALSE]
  /\ UNCHANGED <<procVars, curproc>>

\* A mistake: the last of equals becomes the best.
ScanLastOfEquals(c) ==
  /\ cpc[c] = "scan" /\ off[c] < NPROC
  /\ LET p == (cursor[c] + off[c]) % NPROC IN
       IF state[p] = "RUNNABLE" /\ priority[p] <= best_priority[c]
         THEN /\ best' = [best EXCEPT ![c] = p]
              /\ best_priority' = [best_priority EXCEPT ![c] = priority[p]]
         ELSE UNCHANGED <<best, best_priority>>
  /\ off' = [off EXCEPT ![c] = @ + 1]
  /\ UNCHANGED <<procVars, cpc, curproc, cursor, pending>>

\* One entry of the search; the comparison is strict, so the first of equals,
\* counted from the cursor, stays the best.
Scan(c) ==
  /\ cpc[c] = "scan" /\ off[c] < NPROC
  /\ LET p == (cursor[c] + off[c]) % NPROC IN
       IF state[p] = "RUNNABLE" /\ priority[p] < best_priority[c]
         THEN /\ best' = [best EXCEPT ![c] = p]
              /\ best_priority' = [best_priority EXCEPT ![c] = priority[p]]
         ELSE UNCHANGED <<best, best_priority>>
  /\ off' = [off EXCEPT ![c] = @ + 1]
  /\ UNCHANGED <<procVars, cpc, curproc, cursor, pending>>

ScanDone(c) ==
  /\ cpc[c] = "scan" /\ off[c] = NPROC
  /\ Goto(c, IF best[c] = None THEN "wfi" ELSE "claim")
  /\ UNCHANGED <<procVars, curproc, searchVars, pending>>

\* A mistake: the state is not looked at again under the lock.
ClaimUnchecked(c) ==
  /\ cpc[c] = "claim"
  /\ state' = [state EXCEPT ![best[c]] = "RUNNING"]
  /\ wait_ticks' = [wait_ticks EXCEPT ![best[c]] = 0]
  /\ curproc' = [curproc EXCEPT ![c] = best[c]]
  /\ cursor' = [cursor EXCEPT ![c] = (best[c] + 1) % NPROC]
  /\ Goto(c, "run")
  /\ UNCHANGED <<priority, off, best, best_priority, pending>>

\* The best entry is still RUNNABLE when its lock is held again.
Claim(c) ==
  /\ cpc[c] = "claim" /\ state[best[c]] = "RUNNABLE"
  /\ state' = [state EXCEPT ![best[c]] = "RUNNING"]
  /\ wait_ticks' = [wait_ticks EXCEPT ![best[c]] = 0]
  /\ curproc' = [curproc EXCEPT ![c] = best[c]]
  /\ cursor' = [cursor EXCEPT ![c] = (best[c] + 1) % NPROC]
  /\ Goto(c, "run")
  /\ UNCHANGED <<priority, off, best, best_priority, pending>>

\* It is not: found is 0, as if there had been nothing to run.
ClaimLost(c) ==
  /\ cpc[c] = "claim" /\ state[best[c]] # "RUNNABLE"
  /\ Goto(c, "wfi")
  /\ UNCHANGED <<procVars, curproc, searchVars, pending>>

\* A pending interrupt ends wfi, although it is taken only at the top.
WakeCpu(c) ==
  /\ cpc[c] = "wfi" /\ pending[c]
  /\ Goto(c, "top")
  /\ UNCHANGED <<procVars, curproc, searchVars, pending>>

-------------------------------------------------------------------------------
(***************************************************************************)
(* The timer: clockintr(), age_processes(), yield()                        *)
(***************************************************************************)
Timer(c) ==
  /\ ~pending[c]
  /\ pending' = [pending EXCEPT ![c] = TRUE]
  /\ UNCHANGED <<procVars, cpc, curproc, searchVars>>

\* A mistake: the ticks are counted but nobody is promoted.
AgeWithoutPromotion(c) ==
  /\ cpc[c] = "aging" /\ off[c] < NPROC
  /\ wait_ticks' = [wait_ticks EXCEPT ![off[c]] =
                      IF state[off[c]] = "RUNNABLE" /\ @ + 1 < AGE THEN @ + 1 ELSE 0]
  /\ off' = [off EXCEPT ![c] = @ + 1]
  /\ UNCHANGED <<state, priority, cpc, curproc, cursor, best, best_priority, pending>>

\* One entry of age_processes().
AgeOne(c) ==
  /\ cpc[c] = "aging" /\ off[c] < NPROC
  /\ LET p == off[c]
         grown == wait_ticks[p] + 1
     IN IF state[p] = "RUNNABLE" /\ grown >= AGE
          THEN /\ priority' = [priority EXCEPT ![p] = IF @ > 1 THEN @ - 1 ELSE @]
               /\ wait_ticks' = [wait_ticks EXCEPT ![p] = 0]
          ELSE /\ wait_ticks' = [wait_ticks EXCEPT ![p] =
                                   IF state[p] = "RUNNABLE" THEN grown ELSE 0]
               /\ UNCHANGED priority
  /\ off' = [off EXCEPT ![c] = @ + 1]
  /\ UNCHANGED <<state, cpc, curproc, cursor, best, best_priority, pending>>

\* yield(): back to the scheduler, which starts over.
GiveUpCpu(c, newState) ==
  /\ state' = [state EXCEPT ![curproc[c]] = newState]
  /\ curproc' = [curproc EXCEPT ![c] = None]
  /\ Goto(c, "top")

\* The interrupt came in the scheduler, or it came in a process that yields now.
AgingDone(c) ==
  /\ cpc[c] = "aging" /\ off[c] = NPROC
  /\ \/ curproc[c] = None /\ StartSearch(c) /\ UNCHANGED <<state, curproc>>
     \/ curproc[c] # None /\ GiveUpCpu(c, "RUNNABLE") /\ UNCHANGED searchVars
  /\ UNCHANGED <<priority, wait_ticks, pending>>

\* The timer interrupt in a running process.
Preempt(c) ==
  /\ cpc[c] = "run" /\ pending[c]
  /\ pending' = [pending EXCEPT ![c] = FALSE]
  /\ \/ c = 0 /\ StartAging(c) /\ UNCHANGED <<state, curproc>>
     \/ c # 0 /\ GiveUpCpu(c, "RUNNABLE") /\ UNCHANGED searchVars
  /\ UNCHANGED <<priority, wait_ticks>>

-------------------------------------------------------------------------------
(***************************************************************************)
(* What running processes and device interrupts do                         *)
(***************************************************************************)

\* sleep() or kexit().
Block(c) ==
  /\ cpc[c] = "run"
  /\ GiveUpCpu(c, "BLOCKED")
  /\ UNCHANGED <<priority, wait_ticks, searchVars, pending>>

\* wakeup() or kkill(), from a process or from a device interrupt.
Wake(c, p) ==
  /\ cpc[c] \in {"run", "top"} /\ state[p] = "BLOCKED"
  /\ state' = [state EXCEPT ![p] = "RUNNABLE"]
  /\ UNCHANGED <<priority, wait_ticks, cpc, curproc, searchVars, pending>>

\* fork() or clone() into a free entry.
Fork(c, p) ==
  /\ cpc[c] = "run" /\ state[p] = "BLOCKED"
  /\ state' = [state EXCEPT ![p] = "RUNNABLE"]
  /\ priority' = [priority EXCEPT ![p] = DEFPRIO]
  /\ wait_ticks' = [wait_ticks EXCEPT ![p] = 0]
  /\ UNCHANGED <<cpc, curproc, searchVars, pending>>

\* ksetpriority().
SetPriority(c, p, prio) ==
  /\ cpc[c] = "run"
  /\ priority' = [priority EXCEPT ![p] = prio]
  /\ wait_ticks' = [wait_ticks EXCEPT ![p] = 0]
  /\ UNCHANGED <<state, cpc, curproc, searchVars, pending>>

-------------------------------------------------------------------------------
CpuStep(c) ==
  \/ Top(c) \/ Scan(c) \/ ScanDone(c) \/ Claim(c) \/ ClaimLost(c)
  \/ WakeCpu(c) \/ AgeOne(c) \/ AgingDone(c)

Next ==
  /\ \E c \in Online :
       \/ CpuStep(c) \/ Timer(c) \/ Preempt(c) \/ Block(c)
       \/ \E p \in Used : \/ Wake(c, p)
                          \/ Fork(c, p)
                          \/ \E prio \in Priorities : SetPriority(c, p, prio)
  /\ UNCHANGED machine

-------------------------------------------------------------------------------
TypeOK ==
  /\ machine \in Machines
  /\ state \in [Proc -> {"BLOCKED", "RUNNABLE", "RUNNING"}]
  /\ priority \in [Proc -> 1 .. MAXPRIO]
  /\ wait_ticks \in [Proc -> 0 .. AGE - 1]
  /\ cpc \in [Cpu -> CpuPc]
  /\ curproc \in [Cpu -> Proc \cup {None}]
  /\ cursor \in [Cpu -> Proc]
  /\ off \in [Cpu -> 0 .. NPROC]
  /\ best \in [Cpu -> Proc \cup {None}]
  /\ best_priority \in [Cpu -> 1 .. MAXPRIO + 1]
  /\ pending \in [Cpu -> BOOLEAN]

(***************************************************************************)
(* A process runs on at most one processor, and it is RUNNING exactly      *)
(* while some processor has it as its current process: two processors that *)
(* chose the same entry must not both resume it, on the same kernel stack. *)
(***************************************************************************)
RunsOnce ==
  /\ \A c \in Cpu : cpc[c] = "run" => curproc[c] # None
  /\ \A c, d \in Cpu : curproc[c] = curproc[d] /\ curproc[c] # None => c = d
  /\ \A p \in Proc : state[p] = "RUNNING" <=> \E c \in Cpu : curproc[c] = p

(***************************************************************************)
(* "nothing to run; stop running on this core until an interrupt"          *)
(* (proc.c:671): a processor that is alone waits for an interrupt only     *)
(* while no process is RUNNABLE.                                           *)
(***************************************************************************)
IdleOnlyWithoutWork ==
  \A c \in Cpu : Alone(c) /\ cpc[c] = "wfi" => \A p \in Proc : state[p] # "RUNNABLE"

(***************************************************************************)
(* On one processor a claimed process has the lowest priority number of    *)
(* all that are RUNNABLE at that moment (REPORT.md:45), and of those with  *)
(* this number it is the first one after the process that ran last         *)
(* (REPORT.md:48).                                                         *)
(***************************************************************************)
Distance(c, p) == (p - cursor[c]) % NPROC

ClaimsMostUrgentNow ==
  \A c \in Cpu, p \in Proc :
    Alone(c) /\ curproc[c] = None /\ curproc'[c] = p =>
      \A q \in Proc \ {p} : state[q] = "RUNNABLE" =>
        \/ priority[p] < priority[q]
        \/ priority[p] = priority[q] /\ Distance(c, p) < Distance(c, q)

===============================================================================
