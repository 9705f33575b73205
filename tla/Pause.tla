--------------------------------- MODULE Pause ---------------------------------
(***************************************************************************)
(* sys_pause() (sysproc.c) against clockintr() (trap.c): processes that    *)
(* sleep until enough clock ticks have passed, with kill (proc.c).         *)
(*                                                                         *)
(* tickslock is a variable; a section under p->lock is one step.  RUNNABLE *)
(* and RUNNING are not told apart: being preempted is taking no step.      *)
(* ticks is an unsigned counter that wraps around; WRAP stands for 2^32.   *)
(***************************************************************************)
EXTENDS PauseParameters

CONSTANT NPROC

Proc == 1 .. NPROC
Free == 0
Clock == NPROC + 1           \* the processor that handles the timer interrupt

VARIABLES ticks,
          tickslock,         \* its holder, or Free
          scan,              \* next table entry the clock's wakeup() looks at
          sleeping,          \* p->state = SLEEPING
          waiting,           \* p->chan = &ticks
          killed,            \* p->killed
          pc, n, ticks0,     \* sys_pause of p
          elapsed            \* history: the ticks since p read ticks0

callVars == <<pc, n, ticks0>>
vars == <<ticks, tickslock, scan, sleeping, waiting, killed, callVars, elapsed>>

(***************************************************************************)
(* user      outside of sys_pause                                          *)
(* lock      spinning for tickslock                                        *)
(* test      holding tickslock, before the test of the while loop          *)
(* prepared  holding tickslock, the channel is registered                  *)
(* sleep     has released tickslock and is about to call sleep()           *)
(* relock    in sleep(), or back from it and spinning for tickslock        *)
(***************************************************************************)
Started == {"test", "prepared", "sleep", "relock"}

Init ==
  /\ ticks \in 0 .. WRAP - 1
  /\ tickslock = Free
  /\ scan = 0
  /\ sleeping = [p \in Proc |-> FALSE]
  /\ waiting = [p \in Proc |-> FALSE]
  /\ killed = [p \in Proc |-> FALSE]
  /\ pc = [p \in Proc |-> "user"]
  /\ n = [p \in Proc |-> 0]
  /\ ticks0 = [p \in Proc |-> 0]
  /\ elapsed = [p \in Proc |-> 0]

At(p, l) == pc[p] = l /\ ~sleeping[p]
Goto(p, l) == pc' = [pc EXCEPT ![p] = l]
Acquire(who) == tickslock = Free /\ tickslock' = who
Release == tickslock' = Free

-------------------------------------------------------------------------------
\* A mistake: a deadline is computed, and wraps around before ticks does.
DeadlinePassed(p) == ticks >= (ticks0[p] + n[p]) % WRAP

\* The test of the while loop: the subtraction is unsigned.
TimeUp(p) == (ticks - ticks0[p]) % WRAP >= n[p]

Pause(p, k) ==
  /\ At(p, "user") /\ ~killed[p]
  /\ n' = [n EXCEPT ![p] = k]
  /\ Goto(p, "lock")
  /\ UNCHANGED <<ticks, tickslock, scan, sleeping, waiting, killed, ticks0, elapsed>>

Start(p) ==
  /\ At(p, "lock") /\ Acquire(p)
  /\ ticks0' = [ticks0 EXCEPT ![p] = ticks]
  /\ Goto(p, "test")
  /\ UNCHANGED <<ticks, scan, sleeping, waiting, killed, n, elapsed>>

\* Back to the caller; ticks0 is dead from here on.
Return(p) ==
  /\ Release
  /\ Goto(p, "user")
  /\ n' = [n EXCEPT ![p] = 0]
  /\ ticks0' = [ticks0 EXCEPT ![p] = 0]
  /\ elapsed' = [elapsed EXCEPT ![p] = 0]
  /\ UNCHANGED <<ticks, scan, sleeping, waiting, killed>>

Succeed(p) == At(p, "test") /\ TimeUp(p) /\ Return(p)

GiveUp(p) == At(p, "test") /\ ~TimeUp(p) /\ killed[p] /\ Return(p)

\* sleep_prepare(), under tickslock.
Prepare(p) ==
  /\ At(p, "test") /\ ~TimeUp(p) /\ ~killed[p]
  /\ waiting' = [waiting EXCEPT ![p] = TRUE]
  /\ Goto(p, "prepared")
  /\ UNCHANGED <<ticks, tickslock, scan, sleeping, killed, n, ticks0, elapsed>>

Unlock(p) ==
  /\ At(p, "prepared") /\ Release
  /\ Goto(p, "sleep")
  /\ UNCHANGED <<ticks, scan, sleeping, waiting, killed, n, ticks0, elapsed>>

\* A mistake: the channel is registered after tickslock was released.
SleepRegisters(p) ==
  /\ At(p, "sleep")
  /\ sleeping' = [sleeping EXCEPT ![p] = TRUE]
  /\ waiting' = [waiting EXCEPT ![p] = TRUE]
  /\ Goto(p, "relock")
  /\ UNCHANGED <<ticks, tickslock, scan, killed, n, ticks0, elapsed>>

\* sleep(): not when a tick has cleared the channel in the meantime.
Sleep(p) ==
  /\ At(p, "sleep")
  /\ sleeping' = [sleeping EXCEPT ![p] = waiting[p]]
  /\ Goto(p, "relock")
  /\ UNCHANGED <<ticks, tickslock, scan, waiting, killed, n, ticks0, elapsed>>

Relock(p) ==
  /\ At(p, "relock") /\ Acquire(p)
  /\ Goto(p, "test")
  /\ UNCHANGED <<ticks, scan, sleeping, waiting, killed, n, ticks0, elapsed>>

-------------------------------------------------------------------------------
Tick ==
  /\ \A p \in Proc : pc[p] \in Started => elapsed[p] < n[p] + MaxLate
  /\ Acquire(Clock)
  /\ ticks' = (ticks + 1) % WRAP
  /\ elapsed' = [p \in Proc |-> IF pc[p] \in Started THEN elapsed[p] + 1 ELSE 0]
  /\ scan' = 1
  /\ UNCHANGED <<sleeping, waiting, killed, callVars>>

\* A mistake: a process that sleeps already is not made RUNNABLE.
WakeClearsOnly ==
  /\ tickslock = Clock /\ scan <= NPROC
  /\ waiting' = [waiting EXCEPT ![scan] = FALSE]
  /\ scan' = scan + 1
  /\ UNCHANGED <<ticks, tickslock, sleeping, killed, callVars, elapsed>>

\* One entry of the table in wakeup(&ticks).
Wake ==
  /\ tickslock = Clock /\ scan <= NPROC
  /\ waiting' = [waiting EXCEPT ![scan] = FALSE]
  /\ sleeping' = [sleeping EXCEPT ![scan] = @ /\ ~waiting[scan]]
  /\ scan' = scan + 1
  /\ UNCHANGED <<ticks, tickslock, killed, callVars, elapsed>>

TickDone ==
  /\ tickslock = Clock /\ scan > NPROC
  /\ Release
  /\ scan' = 0
  /\ UNCHANGED <<ticks, sleeping, waiting, killed, callVars, elapsed>>

\* kkill() leaves p->chan alone.
Kill(p) ==
  /\ ~killed[p]
  /\ killed' = [killed EXCEPT ![p] = TRUE]
  /\ sleeping' = [sleeping EXCEPT ![p] = FALSE]
  /\ UNCHANGED <<ticks, tickslock, scan, waiting, callVars, elapsed>>

Step(p) ==
  \/ Start(p) \/ Succeed(p) \/ GiveUp(p) \/ Prepare(p)
  \/ Unlock(p) \/ Sleep(p) \/ Relock(p)

Next ==
  \/ Tick \/ Wake \/ TickDone
  \/ \E p \in Proc : Step(p) \/ Kill(p) \/ \E k \in 0 .. MaxTicks : Pause(p, k)

Spec == Init /\ [][Next]_vars

\* Timer interrupts keep coming, every process gets a processor again and
\* again, and nobody spins for tickslock for ever.
Fairness ==
  /\ SF_vars(Tick) /\ WF_vars(Wake) /\ WF_vars(TickDone)
  /\ \A p \in Proc : WF_vars(Step(p)) /\ SF_vars(Start(p)) /\ SF_vars(Relock(p))

LiveSpec == Spec /\ Fairness

-------------------------------------------------------------------------------
(***************************************************************************)
(* A pause never returns early, wherever ticks wraps around, unless its    *)
(* caller was killed (sysproc.c, the loop of sys_pause).                   *)
(***************************************************************************)
NeverEarly ==
  [][\A p \in Proc :
       pc[p] = "test" /\ pc'[p] = "user" => elapsed[p] >= n[p] \/ killed[p]]_vars

(***************************************************************************)
(* No tick is missed: once the clock has let go of tickslock, a process    *)
(* whose time is up is neither asleep nor about to fall asleep.            *)
(***************************************************************************)
NoTickMissed ==
  tickslock # Clock =>
    \A p \in Proc : pc[p] \in {"sleep", "relock"} /\ elapsed[p] >= n[p] =>
      ~sleeping[p] /\ (pc[p] = "sleep" => ~waiting[p])

(***************************************************************************)
(* Every pause ends.                                                       *)
(***************************************************************************)
PauseEnds == \A p \in Proc : pc[p] # "user" ~> pc[p] = "user"
===============================================================================
