------------------------------- MODULE SchedulerA4 -------------------------------
(***************************************************************************)
(* The round-robin scheduler of the Assignment 4 kernel: scheduler(),      *)
(* sched() and yield() (proc.c).  Every processor goes through the process *)
(* table and runs each RUNNABLE entry it meets, which it claims under the  *)
(* lock it has just taken.  BLOCKED is any state but RUNNABLE and RUNNING. *)
(***************************************************************************)
EXTENDS SchedulerParameters

VARIABLES state,             \* p->state
          cpc,               \* "top", "scan", "run" or "wfi"
          curproc,           \* c->proc
          off,               \* the entry the loop is at
          found,             \* a process has run in this round
          pending            \* a timer interrupt is pending

vars == <<machine, state, cpc, curproc, off, found, pending>>

Init ==
  /\ machine \in Machines
  /\ state \in [Proc -> {"BLOCKED", "RUNNABLE"}]
  /\ \A p \in Proc \ Used : state[p] = "BLOCKED"
  /\ cpc = [c \in Cpu |-> "top"]
  /\ curproc = [c \in Cpu |-> None]
  /\ off = [c \in Cpu |-> 0]
  /\ found = [c \in Cpu |-> FALSE]
  /\ pending = [c \in Cpu |-> FALSE]

Goto(c, l) == cpc' = [cpc EXCEPT ![c] = l]

\* intr_on(), intr_off(): a new round; a pending interrupt is taken.
Top(c) ==
  /\ cpc[c] = "top"
  /\ Goto(c, "scan")
  /\ off' = [off EXCEPT ![c] = 0]
  /\ found' = [found EXCEPT ![c] = FALSE]
  /\ pending' = [pending EXCEPT ![c] = FALSE]
  /\ UNCHANGED <<state, curproc>>

\* One entry, under its lock: it runs at once, or the loop passes it.
Scan(c) ==
  /\ cpc[c] = "scan" /\ off[c] < NPROC
  /\ LET p == off[c] IN
       IF state[p] = "RUNNABLE"
         THEN /\ state' = [state EXCEPT ![p] = "RUNNING"]
              /\ curproc' = [curproc EXCEPT ![c] = p]
              /\ found' = [found EXCEPT ![c] = TRUE]
              /\ Goto(c, "run")
              /\ UNCHANGED off
         ELSE /\ off' = [off EXCEPT ![c] = @ + 1]
              /\ UNCHANGED <<state, curproc, found, cpc>>
  /\ UNCHANGED pending

ScanDone(c) ==
  /\ cpc[c] = "scan" /\ off[c] = NPROC
  /\ Goto(c, IF found[c] THEN "top" ELSE "wfi")
  /\ UNCHANGED <<state, curproc, off, found, pending>>

\* sched(), from yield(), sleep() or kexit(): the loop goes on with the next
\* entry, and does not start over.
SwitchBack(c, newState) ==
  /\ state' = [state EXCEPT ![curproc[c]] = newState]
  /\ curproc' = [curproc EXCEPT ![c] = None]
  /\ off' = [off EXCEPT ![c] = @ + 1]
  /\ Goto(c, "scan")
  /\ UNCHANGED found

\* The timer interrupt in a running process: yield().
Preempt(c) ==
  /\ cpc[c] = "run" /\ pending[c]
  /\ pending' = [pending EXCEPT ![c] = FALSE]
  /\ SwitchBack(c, "RUNNABLE")

Block(c) ==
  /\ cpc[c] = "run"
  /\ SwitchBack(c, "BLOCKED")
  /\ UNCHANGED pending

\* fork(), wakeup() or kkill(), from a process or a device interrupt.
Wake(c, p) ==
  /\ cpc[c] \in {"run", "top"} /\ state[p] = "BLOCKED"
  /\ state' = [state EXCEPT ![p] = "RUNNABLE"]
  /\ UNCHANGED <<cpc, curproc, off, found, pending>>

Timer(c) ==
  /\ ~pending[c]
  /\ pending' = [pending EXCEPT ![c] = TRUE]
  /\ UNCHANGED <<state, cpc, curproc, off, found>>

WakeCpu(c) ==
  /\ cpc[c] = "wfi" /\ pending[c]
  /\ Goto(c, "top")
  /\ UNCHANGED <<state, curproc, off, found, pending>>

CpuStep(c) == Top(c) \/ Scan(c) \/ ScanDone(c) \/ WakeCpu(c)

Next ==
  /\ \E c \in Online : \/ CpuStep(c) \/ Timer(c) \/ Preempt(c) \/ Block(c)
                       \/ \E p \in Used : Wake(c, p)
  /\ UNCHANGED machine

===============================================================================
