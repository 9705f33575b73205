------------------------------ MODULE Semaphores ------------------------------
(***************************************************************************)
(* The semaphore system calls of the Assignment 7 kernel (sysproc.c) on    *)
(* top of its sleep and wakeup (proc.c).                                   *)
(*                                                                         *)
(* Grain of atomicity.  A section between acquire(&p->lock) and            *)
(* release(&p->lock) is one step: every field it touches is protected by   *)
(* that lock.  The spinlock of a semaphore is a variable of its own,       *)
(* because it is held across several such sections, and so is the position *)
(* of each wakeup() in the process table, because it locks one entry at a  *)
(* time and the system moves on in between.                                *)
(*                                                                         *)
(* A timer interrupt may take the processor away (Yield) in user space and *)
(* between sleep_prepare() and sleep(); acquire() turns interrupts off, so *)
(* neither a spinning process nor the holder of a spinlock is preempted.   *)
(* The number of processors is not bounded, which only adds behaviours.    *)
(***************************************************************************)
EXTENDS Integers

CONSTANTS NPROC,             \* entries of the process table
          Sem,               \* indices of the semaphore array
          NoChan,            \* the null channel
          MaxValue,          \* bound: no sem_signal is called above it
          InitWhileWaiting   \* may sem_init hit a semaphore with waiters?

ASSUME ConstantsAssumption ==
  /\ NPROC \in Nat \ {0}
  /\ MaxValue \in Nat
  /\ NoChan \notin Sem
  /\ InitWhileWaiting \in BOOLEAN

Proc == 1 .. NPROC
Free == 0                    \* no process: an unlocked spinlock

VARIABLES state,             \* p->state
          chan,              \* p->chan
          killed,            \* p->killed
          pc,                \* where p is inside the semaphore calls
          arg,               \* the semaphore p's call is about
          scan,              \* next table entry p's wakeup() looks at
          lk,                \* semaphores[s].lk: its holder, or Free
          value,             \* semaphores[s].value
          initialized        \* semaphores[s].initialized

procVars == <<state, chan, killed>>
callVars == <<pc, arg, scan>>
semaVars == <<lk, value, initialized>>
vars == <<procVars, callVars, semaVars>>

State == {"UNUSED", "RUNNABLE", "RUNNING", "SLEEPING", "ZOMBIE"}

(***************************************************************************)
(* user      in user space, or on the way in or out of the kernel          *)
(* wait      sys_sem_wait is spinning for the lock                         *)
(* test      it holds the lock, before the test of the while loop          *)
(* prepared  it holds the lock, its channel is registered                  *)
(* sleep     it has released the lock and is about to call sleep()         *)
(* rewait    it is in sleep(), or back from it and spinning for the lock   *)
(* recheck   it holds the lock again, before the test of killed()          *)
(* signal    sys_sem_signal is spinning for the lock                       *)
(* wakeup    it holds the lock and is inside wakeup()                      *)
(***************************************************************************)
WaitPc == {"wait", "test", "prepared", "sleep", "rewait", "recheck"}
LockedPc == {"test", "prepared", "recheck", "wakeup"}
Pc == WaitPc \cup {"user", "signal", "wakeup"}

Init ==
  /\ state = [p \in Proc |-> "UNUSED"]
  /\ chan = [p \in Proc |-> NoChan]
  /\ killed = [p \in Proc |-> FALSE]
  /\ pc = [p \in Proc |-> "user"]
  /\ arg = [p \in Proc |-> NoChan]
  /\ scan = [p \in Proc |-> 0]
  /\ lk = [s \in Sem |-> Free]
  /\ value = [s \in Sem |-> 0]
  /\ initialized = [s \in Sem |-> FALSE]

At(p, l) == state[p] = "RUNNING" /\ pc[p] = l
Goto(p, l) == pc' = [pc EXCEPT ![p] = l]
Lock(p, s) == lk[s] = Free /\ lk' = [lk EXCEPT ![s] = p]
Unlock(s) == lk' = [lk EXCEPT ![s] = Free]

\* Back in user space: a0 is set, the call is over.
Return(p) == Goto(p, "user") /\ arg' = [arg EXCEPT ![p] = NoChan]

-------------------------------------------------------------------------------
(***************************************************************************)
(* Mistakes in the steps below that the properties must notice; no action  *)
(* of the specification uses them.                                         *)
(***************************************************************************)

\* The test of killed() after sleep() is forgotten.
WaitAgainEvenKilled(p) ==
  /\ At(p, "recheck")
  /\ Goto(p, "test")
  /\ UNCHANGED <<procVars, arg, scan, semaVars>>

\* sleep() registers the channel itself, after the lock was released.
SleepRegisters(p) ==
  /\ At(p, "sleep")
  /\ state' = [state EXCEPT ![p] = "SLEEPING"]
  /\ chan' = [chan EXCEPT ![p] = arg[p]]
  /\ Goto(p, "rewait")
  /\ UNCHANGED <<killed, arg, scan, semaVars>>

\* sys_sem_wait goes to sleep with the lock.
WaitUnlockForgotten(p) ==
  /\ At(p, "prepared")
  /\ Goto(p, "sleep")
  /\ UNCHANGED <<procVars, arg, scan, semaVars>>

\* wakeup() clears the channel and leaves the process asleep.
WakeupClearsOnly(p) ==
  /\ At(p, "wakeup") /\ scan[p] <= NPROC
  /\ chan' = [chan EXCEPT ![scan[p]] = IF @ = arg[p] THEN NoChan ELSE @]
  /\ scan' = [scan EXCEPT ![p] = @ + 1]
  /\ UNCHANGED <<state, killed, pc, arg, semaVars>>

\* wakeup() skips the first entry of the table.
SignalPostFromSecond(p) ==
  /\ At(p, "signal") /\ initialized[arg[p]]
  /\ Lock(p, arg[p])
  /\ value' = [value EXCEPT ![arg[p]] = @ + 1]
  /\ scan' = [scan EXCEPT ![p] = 2]
  /\ Goto(p, "wakeup")
  /\ UNCHANGED <<procVars, arg, initialized>>

\* sys_sem_wait returns without taking its unit.
WaitTakeNothing(p) ==
  /\ At(p, "test") /\ value[arg[p]] # 0
  /\ Unlock(arg[p])
  /\ Return(p)
  /\ UNCHANGED <<procVars, scan, value, initialized>>

-------------------------------------------------------------------------------
(***************************************************************************)
(* sys_sem_wait                                                            *)
(***************************************************************************)

\* usertrap() sends a killed process to kexit() before it dispatches a call.
SemWait(p, s) ==
  /\ At(p, "user") /\ ~killed[p]
  /\ Goto(p, "wait")
  /\ arg' = [arg EXCEPT ![p] = s]
  /\ UNCHANGED <<procVars, scan, semaVars>>

WaitLock(p) ==
  /\ At(p, "wait") /\ initialized[arg[p]]
  /\ Lock(p, arg[p])
  /\ Goto(p, "test")
  /\ UNCHANGED <<procVars, arg, scan, value, initialized>>

\* The uninitialised semaphore is noticed under the lock, which is given back.
WaitRefused(p) ==
  /\ At(p, "wait") /\ ~initialized[arg[p]]
  /\ lk[arg[p]] = Free
  /\ Return(p)
  /\ UNCHANGED <<procVars, scan, semaVars>>

\* sleep_prepare(): the channel is registered before the lock is released.
WaitPrepare(p) ==
  /\ At(p, "test") /\ value[arg[p]] = 0
  /\ chan' = [chan EXCEPT ![p] = arg[p]]
  /\ Goto(p, "prepared")
  /\ UNCHANGED <<state, killed, arg, scan, semaVars>>

WaitTake(p) ==
  /\ At(p, "test") /\ value[arg[p]] # 0
  /\ value' = [value EXCEPT ![arg[p]] = @ - 1]
  /\ Unlock(arg[p])
  /\ Return(p)
  /\ UNCHANGED <<procVars, scan, initialized>>

WaitUnlock(p) ==
  /\ At(p, "prepared")
  /\ Unlock(arg[p])
  /\ Goto(p, "sleep")
  /\ UNCHANGED <<procVars, arg, scan, value, initialized>>

\* sleep(): a channel that was cleared meanwhile means the wakeup has happened.
Sleep(p) ==
  /\ At(p, "sleep")
  /\ state' = [state EXCEPT ![p] = IF chan[p] = NoChan THEN @ ELSE "SLEEPING"]
  /\ Goto(p, "rewait")
  /\ UNCHANGED <<chan, killed, arg, scan, semaVars>>

WaitRelock(p) ==
  /\ At(p, "rewait")
  /\ Lock(p, arg[p])
  /\ Goto(p, "recheck")
  /\ UNCHANGED <<procVars, arg, scan, value, initialized>>

WaitKilled(p) ==
  /\ At(p, "recheck") /\ killed[p]
  /\ Unlock(arg[p])
  /\ Return(p)
  /\ UNCHANGED <<procVars, scan, value, initialized>>

WaitAgain(p) ==
  /\ At(p, "recheck") /\ ~killed[p]
  /\ Goto(p, "test")
  /\ UNCHANGED <<procVars, arg, scan, semaVars>>

-------------------------------------------------------------------------------
(***************************************************************************)
(* sys_sem_signal and sys_sem_init                                         *)
(***************************************************************************)
SemSignal(p, s) ==
  /\ At(p, "user") /\ ~killed[p]
  /\ value[s] < MaxValue
  /\ Goto(p, "signal")
  /\ arg' = [arg EXCEPT ![p] = s]
  /\ UNCHANGED <<procVars, scan, semaVars>>

SignalRefused(p) ==
  /\ At(p, "signal") /\ ~initialized[arg[p]]
  /\ lk[arg[p]] = Free
  /\ Return(p)
  /\ UNCHANGED <<procVars, scan, semaVars>>

\* value++, and wakeup() starts at the first entry of the table.
SignalPost(p) ==
  /\ At(p, "signal") /\ initialized[arg[p]]
  /\ Lock(p, arg[p])
  /\ value' = [value EXCEPT ![arg[p]] = @ + 1]
  /\ scan' = [scan EXCEPT ![p] = 1]
  /\ Goto(p, "wakeup")
  /\ UNCHANGED <<procVars, arg, initialized>>

\* wakeup(): one entry q of the table.
Wakeup(p) ==
  /\ At(p, "wakeup") /\ scan[p] <= NPROC
  /\ LET q == scan[p] IN
       IF chan[q] = arg[p]
         THEN /\ chan' = [chan EXCEPT ![q] = NoChan]
              /\ state' = [state EXCEPT ![q] =
                             IF @ = "SLEEPING" THEN "RUNNABLE" ELSE @]
         ELSE UNCHANGED <<chan, state>>
  /\ scan' = [scan EXCEPT ![p] = @ + 1]
  /\ UNCHANGED <<killed, pc, arg, semaVars>>

SignalDone(p) ==
  /\ At(p, "wakeup") /\ scan[p] > NPROC
  /\ scan' = [scan EXCEPT ![p] = 0]
  /\ Unlock(arg[p])
  /\ Return(p)
  /\ UNCHANGED <<procVars, value, initialized>>

Waiting(p, s) == pc[p] \in WaitPc /\ arg[p] = s

\* The constant InitWhileWaiting is about the callers: the kernel never checks.
SemInit(p, s, v) ==
  /\ At(p, "user") /\ ~killed[p]
  /\ InitWhileWaiting \/ \A q \in Proc : ~Waiting(q, s)
  /\ lk[s] = Free
  /\ value' = [value EXCEPT ![s] = v]
  /\ initialized' = [initialized EXCEPT ![s] = TRUE]
  /\ UNCHANGED <<procVars, callVars, lk>>

-------------------------------------------------------------------------------
(***************************************************************************)
(* The processes around the calls                                          *)
(***************************************************************************)

\* A process table entry becomes a process: allocproc(), then fork or clone.
Spawn(p) ==
  /\ state[p] = "UNUSED"
  /\ state' = [state EXCEPT ![p] = "RUNNABLE"]
  /\ chan' = [chan EXCEPT ![p] = NoChan]
  /\ killed' = [killed EXCEPT ![p] = FALSE]
  /\ UNCHANGED <<callVars, semaVars>>

\* scheduler() picks p.
Dispatch(p) ==
  /\ state[p] = "RUNNABLE"
  /\ state' = [state EXCEPT ![p] = "RUNNING"]
  /\ UNCHANGED <<chan, killed, callVars, semaVars>>

\* The timer interrupt, at a point where interrupts are on: acquire() turns them
\* off before it spins, so a process that spins or holds a lock is not preempted.
Yield(p) ==
  /\ At(p, "user") \/ At(p, "sleep")
  /\ state' = [state EXCEPT ![p] = "RUNNABLE"]
  /\ UNCHANGED <<chan, killed, callVars, semaVars>>

\* kkill(): the channel of a sleeping victim stays registered.
Kill(p, q) ==
  /\ At(p, "user") /\ ~killed[p]
  /\ state[q] # "UNUSED"
  /\ killed' = [killed EXCEPT ![q] = TRUE]
  /\ state' = [state EXCEPT ![q] = IF @ = "SLEEPING" THEN "RUNNABLE" ELSE @]
  /\ UNCHANGED <<chan, callVars, semaVars>>

\* kexit(), called by the process or, once it is killed, by usertrap().
Exit(p) ==
  /\ At(p, "user")
  /\ state' = [state EXCEPT ![p] = "ZOMBIE"]
  /\ UNCHANGED <<chan, killed, callVars, semaVars>>

\* The parent's wait() or join() calls freeproc().
Reap(p) ==
  /\ state[p] = "ZOMBIE"
  /\ state' = [state EXCEPT ![p] = "UNUSED"]
  /\ chan' = [chan EXCEPT ![p] = NoChan]
  /\ killed' = [killed EXCEPT ![p] = FALSE]
  /\ UNCHANGED <<callVars, semaVars>>

-------------------------------------------------------------------------------
\* The steps a process takes inside a call, without asking anyone.
Step(p) ==
  \/ WaitLock(p) \/ WaitRefused(p) \/ WaitPrepare(p) \/ WaitTake(p)
  \/ WaitUnlock(p) \/ Sleep(p) \/ WaitRelock(p) \/ WaitKilled(p) \/ WaitAgain(p)
  \/ SignalRefused(p) \/ SignalPost(p) \/ Wakeup(p) \/ SignalDone(p)

Call(p) ==
  \E s \in Sem : \/ SemWait(p, s)
                 \/ SemSignal(p, s)
                 \/ \E v \in 0 .. MaxValue : SemInit(p, s, v)

Life(p) ==
  \/ Spawn(p) \/ Dispatch(p) \/ Yield(p) \/ Exit(p) \/ Reap(p)
  \/ \E q \in Proc : Kill(p, q)

Next == \E p \in Proc : Step(p) \/ Call(p) \/ Life(p)

SafeSpec == Init /\ [][Next]_vars

(***************************************************************************)
(* Fairness.  The scheduler does not starve a RUNNABLE process (aging, see *)
(* the module Scheduler).  A running process gets somewhere before it is   *)
(* interrupted, again and again: a time slice is a tenth of a second.  A   *)
(* spinlock is held for a bounded number of instructions with interrupts   *)
(* off, and a process that spins for it goes on spinning until it gets it  *)
(* (strong fairness of Step).  A killed process leaves user space at the   *)
(* next timer interrupt.  Nobody has to call anything.                     *)
(***************************************************************************)
Fairness ==
  \A p \in Proc : /\ WF_vars(Dispatch(p))
                  /\ SF_vars(Step(p))
                  /\ SF_vars(killed[p] /\ Exit(p))

Spec == SafeSpec /\ Fairness

-------------------------------------------------------------------------------
(***************************************************************************)
(* Properties                                                              *)
(***************************************************************************)
TypeOK ==
  /\ state \in [Proc -> State]
  /\ chan \in [Proc -> Sem \cup {NoChan}]
  /\ killed \in [Proc -> BOOLEAN]
  /\ pc \in [Proc -> Pc]
  /\ arg \in [Proc -> Sem \cup {NoChan}]
  /\ scan \in [Proc -> 0 .. NPROC + 1]
  /\ lk \in [Sem -> Proc \cup {Free}]
  /\ value \in [Sem -> Nat]
  /\ initialized \in [Sem -> BOOLEAN]

\* p has announced that it waits for s and will not look at the value again
\* before somebody wakes it: it sleeps, or nothing will keep it from sleeping.
Committed(p, s) ==
  /\ chan[p] = s
  /\ pc[p] \in {"prepared", "sleep"} \/ state[p] = "SLEEPING"

\* Some signaller of s is inside wakeup() and has not come to entry p yet.
WakeupPending(p, s) ==
  \E q \in Proc : lk[s] = q /\ pc[q] = "wakeup" /\ scan[q] <= p

(***************************************************************************)
(* No lost wakeup: a process never sleeps, and never goes to sleep, on a   *)
(* semaphore that has a unit for it, unless a signaller is on its way to   *)
(* it through the table.  This is what sleep_prepare() before the release  *)
(* of the semaphore's lock is for (sysproc.c, sys_sem_wait).               *)
(***************************************************************************)
NoLostWakeup ==
  \A p \in Proc, s \in Sem :
    Committed(p, s) /\ value[s] > 0 => WakeupPending(p, s)

(***************************************************************************)
(* sched() panics when the caller holds a lock besides its own p->lock: a  *)
(* process that does not run holds no semaphore lock, and each lock is     *)
(* held by exactly the process that is inside its critical section.        *)
(***************************************************************************)
LocksHeldRunning ==
  /\ \A p \in Proc : state[p] # "RUNNING" => \A s \in Sem : lk[s] # p
  /\ \A p \in Proc, s \in Sem :
       lk[s] = p <=> pc[p] \in LockedPc /\ arg[p] = s

(***************************************************************************)
(* Every sleeper can be reached: a SLEEPING process is registered on the   *)
(* semaphore its call is about (a SLEEPING process with no channel would   *)
(* sleep for ever), and a living process that is not inside the sleep of   *)
(* sys_sem_wait is registered nowhere, so a later wakeup of that semaphore *)
(* or a new sleep cannot confuse it.  Only a killed process keeps a stale  *)
(* channel, and it cannot start another call.                              *)
(***************************************************************************)
SleepersReachable ==
  \A p \in Proc :
    /\ state[p] = "SLEEPING" => /\ pc[p] = "rewait"
                                /\ arg[p] \in Sem
                                /\ chan[p] = arg[p]
    /\ chan[p] # NoChan /\ ~killed[p] =>
         /\ pc[p] \in {"prepared", "sleep", "rewait"}
         /\ pc[p] = "rewait" => state[p] = "SLEEPING"

-------------------------------------------------------------------------------
(***************************************************************************)
(* The abstract semaphore this kernel implements.                          *)
(***************************************************************************)
pendingWait == [p \in Proc |-> IF pc[p] \in WaitPc THEN arg[p] ELSE NoChan]

Abstract == INSTANCE CountingSemaphore WITH
              Process <- Proc, NoSem <- NoChan, InitialValue <- 0 .. MaxValue,
              count <- value, ready <- initialized,
              waiting <- pendingWait, doomed <- killed

\* Every step of the calls is a step of the abstract semaphore or invisible to
\* it: in particular a wait ends without a unit only for an uninitialised
\* semaphore or a killed caller, and a unit is taken exactly once.
ImplementsCountingSemaphore == Abstract!SafeSpec

\* While a caller of sem_wait could be served, callers are served: a unit that
\* is there is not left lying while everybody sleeps.
ServesWaiters == Abstract!Progress

(***************************************************************************)
(* Killing works on a waiter that is really asleep: the test of killed()   *)
(* after sleep() (sysproc.c:180) sends the victim out instead of back to   *)
(* the semaphore, even when the semaphore stays at zero.  It works         *)
(* everywhere else too, except between the entry of sys_sem_wait and its   *)
(* sleep(): there the kill finds no sleeper to wake, nobody looks at       *)
(* killed() before the sleep, and the victim may then sleep for ever.      *)
(***************************************************************************)
KilledSleeperDies ==
  \A p \in Proc :
    /\ killed[p] /\ state[p] # "SLEEPING"
    /\ pc[p] \in {"user", "rewait", "recheck", "signal", "wakeup"}
    ~> state[p] = "ZOMBIE"

-------------------------------------------------------------------------------
(***************************************************************************)
(* The inductive invariant behind the safety properties (the module        *)
(* SemaphoresProofs): what each place in a call implies.                   *)
(***************************************************************************)
CallsConsistent ==
  \A p \in Proc :
    /\ pc[p] = "user" <=> arg[p] = NoChan
    /\ pc[p] \in LockedPc \cup {"sleep", "rewait"} => initialized[arg[p]]
    /\ pc[p] = "wakeup" => scan[p] >= 1
    /\ state[p] \in {"UNUSED", "ZOMBIE"} => pc[p] = "user"
    /\ pc[p] \in {"prepared", "sleep"} => chan[p] \in {NoChan, arg[p]}

IInv ==
  /\ TypeOK
  /\ CallsConsistent
  /\ LocksHeldRunning
  /\ SleepersReachable
  /\ ~InitWhileWaiting => NoLostWakeup
===============================================================================
