----------------------------- MODULE SemaphoresA4 -----------------------------
(***************************************************************************)
(* The semaphore system calls of the Assignment 4 kernel (its sysproc.c):  *)
(* sys_sem_init, sys_sem_down and sys_sem_up.  The processes, sleep(),     *)
(* wakeup() and the signaller are those of Semaphores.  What differs:      *)
(*   - the locks themselves are initialised by the first sem_init;         *)
(*   - sem_down does not look whether a semaphore was initialised, blocks  *)
(*     on counts of zero and below, and never looks at killed();           *)
(*   - sem_init accepts negative counts.                                   *)
(* Here value[s] is sem_count[s] and lk[s] is sem_lock[s].                 *)
(***************************************************************************)
EXTENDS Semaphores

CONSTANTS MaxDebt,           \* bound: sem_init sets counts from -MaxDebt
          FirstInitAlone     \* does nobody call during the first sem_init?

ASSUME A4Assumption == MaxDebt \in Nat /\ FirstInitAlone \in BOOLEAN

VARIABLE sem_initialized     \* the flag of the lazy initialisation

a4Vars == <<vars, sem_initialized>>

(***************************************************************************)
(* initlocks  sys_sem_init has seen sem_initialized = 0                    *)
(* initflag   it has called initlock() on every lock                       *)
(* setcount   it is spinning for the lock of its semaphore                 *)
(***************************************************************************)
InitPc == {"initlocks", "initflag", "setcount"}

\* There is no per-semaphore flag: every semaphore can be used, with count 0.
A4Init ==
  /\ state = [p \in Proc |-> "UNUSED"]
  /\ chan = [p \in Proc |-> NoChan]
  /\ killed = [p \in Proc |-> FALSE]
  /\ pc = [p \in Proc |-> "user"]
  /\ arg = [p \in Proc |-> NoChan]
  /\ scan = [p \in Proc |-> 0]
  /\ lk = [s \in Sem |-> Free]
  /\ value = [s \in Sem |-> 0]
  /\ initialized = [s \in Sem |-> TRUE]
  /\ sem_initialized = FALSE

\* A mistake: the flag is not looked at.
InitCallAlways(p, s) ==
  /\ At(p, "user") /\ ~killed[p]
  /\ Goto(p, "initlocks")
  /\ arg' = [arg EXCEPT ![p] = s]
  /\ UNCHANGED <<procVars, scan, semaVars, sem_initialized>>

\* sys_sem_init: the first call goes on to initialise the locks.
InitCall(p, s) ==
  /\ At(p, "user") /\ ~killed[p]
  /\ Goto(p, IF sem_initialized THEN "setcount" ELSE "initlocks")
  /\ arg' = [arg EXCEPT ![p] = s]
  /\ UNCHANGED <<procVars, scan, semaVars, sem_initialized>>

\* initlock() stores locked = 0, whoever holds the lock.
InitLocks(p) ==
  /\ At(p, "initlocks")
  /\ lk' = [s \in Sem |-> Free]
  /\ Goto(p, "initflag")
  /\ UNCHANGED <<procVars, arg, scan, value, initialized, sem_initialized>>

InitFlag(p) ==
  /\ At(p, "initflag")
  /\ sem_initialized' = TRUE
  /\ Goto(p, "setcount")
  /\ UNCHANGED <<procVars, arg, scan, semaVars>>

InitCount(p, v) ==
  /\ At(p, "setcount")
  /\ InitWhileWaiting \/ \A q \in Proc : ~Waiting(q, arg[p])
  /\ lk[arg[p]] = Free
  /\ value' = [value EXCEPT ![arg[p]] = v]
  /\ Return(p)
  /\ UNCHANGED <<procVars, scan, lk, initialized, sem_initialized>>

\* The loop of sys_sem_down, with its test `<= 0'.
DownPrepare(p) ==
  /\ At(p, "test") /\ value[arg[p]] <= 0
  /\ chan' = [chan EXCEPT ![p] = arg[p]]
  /\ Goto(p, "prepared")
  /\ UNCHANGED <<state, killed, arg, scan, semaVars, sem_initialized>>

\* A mistake: the test is `!= 0', which a negative count passes.
DownTakeNonzero(p) ==
  /\ At(p, "test") /\ value[arg[p]] # 0
  /\ value' = [value EXCEPT ![arg[p]] = @ - 1]
  /\ Unlock(arg[p])
  /\ Return(p)
  /\ UNCHANGED <<procVars, scan, initialized, sem_initialized>>

DownTake(p) ==
  /\ At(p, "test") /\ value[arg[p]] > 0
  /\ value' = [value EXCEPT ![arg[p]] = @ - 1]
  /\ Unlock(arg[p])
  /\ Return(p)
  /\ UNCHANGED <<procVars, scan, initialized, sem_initialized>>

\* After sleep() the lock is taken and the count tested, dead or alive.
DownRelock(p) ==
  /\ At(p, "rewait")
  /\ Lock(p, arg[p])
  /\ Goto(p, "test")
  /\ UNCHANGED <<procVars, arg, scan, value, initialized, sem_initialized>>

\* Points of sys_sem_init where interrupts are on.
InitYield(p) ==
  /\ At(p, "initlocks") \/ At(p, "initflag")
  /\ state' = [state EXCEPT ![p] = "RUNNABLE"]
  /\ UNCHANGED <<chan, killed, callVars, semaVars, sem_initialized>>

A4Step(p) ==
  \/ InitLocks(p) \/ InitFlag(p) \/ \E v \in (-MaxDebt) .. MaxValue : InitCount(p, v)
  \/ DownPrepare(p) \/ DownTake(p) \/ DownRelock(p)
  \/ /\ WaitLock(p) \/ WaitUnlock(p) \/ Sleep(p)
        \/ SignalPost(p) \/ Wakeup(p) \/ SignalDone(p)
     /\ UNCHANGED sem_initialized

\* The constant FirstInitAlone is about the callers: the test programs of
\* Assignment 4 call sem_init before they fork, but two of them can be started
\* at the same time.
A4Call(p) ==
  /\ FirstInitAlone => sem_initialized \/ \A q \in Proc : pc[q] = "user"
  /\ \E s \in Sem : \/ InitCall(p, s)
                    \/ (SemWait(p, s) \/ SemSignal(p, s)) /\ UNCHANGED sem_initialized

A4Next ==
  \E p \in Proc : \/ A4Step(p)
                  \/ A4Call(p)
                  \/ InitYield(p)
                  \/ Life(p) /\ UNCHANGED sem_initialized

A4SafeSpec == A4Init /\ [][A4Next]_a4Vars

A4Fairness ==
  \A p \in Proc : /\ WF_a4Vars(Dispatch(p) /\ UNCHANGED sem_initialized)
                  /\ SF_a4Vars(A4Step(p))
                  /\ SF_a4Vars(killed[p] /\ Exit(p) /\ UNCHANGED sem_initialized)

A4Spec == A4SafeSpec /\ A4Fairness

-------------------------------------------------------------------------------
(***************************************************************************)
(* A unit is taken only from a positive count: a count is negative only    *)
(* when sem_init made it so, and then a waiter blocks until enough sem_up  *)
(* calls have come ("Block if the count is 0 or less", sysproc.c:199).     *)
(***************************************************************************)
NeverTakenBelowZero ==
  [][\A s \in Sem : value'[s] < value[s] =>
       value[s] > 0 \/ \E p \in Proc : pc[p] = "setcount" /\ pc'[p] = "user"]_a4Vars

(***************************************************************************)
(* The locks "protect each semaphore count atomically" (sysproc.c:162):    *)
(* whoever is in a critical section holds its lock, so release() does not  *)
(* panic and two calls never change a count at the same time.              *)
(***************************************************************************)
CriticalSectionsLocked ==
  \A p \in Proc : pc[p] \in LockedPc => lk[arg[p]] = p
===============================================================================
