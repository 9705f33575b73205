--------------------------- MODULE SemaphoresProofs ---------------------------
(*************************************************************************)
(* For every number of processes, every set of semaphores and every      *)
(* bound: the safety properties of Semaphores, that every behaviour of   *)
(* it is one of CountingSemaphore, and the safety properties of          *)
(* SemaphoresA4.                                                         *)
(*************************************************************************)
EXTENDS SemaphoresA4, TLAPS

(***************************************************************************)
(* The types are kept by every step, given that the semaphore of a call is *)
(* a semaphore (CallsConsistent) and that nothing is taken from zero.      *)
(***************************************************************************)
LEMMA TypeStep == TypeOK /\ CallsConsistent /\ [Next]_vars => TypeOK'
<1> SUFFICES ASSUME TypeOK, CallsConsistent, [Next]_vars
             PROVE  TypeOK'
  OBVIOUS
<1> USE ConstantsAssumption DEF TypeOK, State, Pc, WaitPc, Proc, Free
<1>1. CASE UNCHANGED vars
  BY <1>1 DEF vars, procVars, callVars, semaVars
<1>2. ASSUME NEW p \in Proc, Step(p)
      PROVE  TypeOK'
  <2> USE DEF At, Goto, Lock, Unlock, Return, procVars, callVars, semaVars
  <2>1. arg[p] \in Sem \/ pc[p] = "user"
    BY DEF CallsConsistent
  <2>2. CASE WaitLock(p)
    BY <2>1, <2>2 DEF WaitLock
  <2>3. CASE WaitRefused(p)
    BY <2>3 DEF WaitRefused
  <2>4. CASE WaitPrepare(p)
    BY <2>1, <2>4 DEF WaitPrepare
  <2>5. CASE WaitTake(p)
    BY <2>1, <2>5 DEF WaitTake
  <2>6. CASE WaitUnlock(p)
    BY <2>1, <2>6 DEF WaitUnlock
  <2>7. CASE Sleep(p)
    BY <2>7 DEF Sleep
  <2>8. CASE WaitRelock(p)
    BY <2>1, <2>8 DEF WaitRelock
  <2>9. CASE WaitKilled(p)
    BY <2>1, <2>9 DEF WaitKilled
  <2>10. CASE WaitAgain(p)
    BY <2>10 DEF WaitAgain
  <2>11. CASE SignalRefused(p)
    BY <2>11 DEF SignalRefused
  <2>12. CASE SignalPost(p)
    BY <2>1, <2>12 DEF SignalPost
  <2>13. CASE Wakeup(p)
    <3>1. scan[p] \in Proc
      BY <2>13 DEF Wakeup, CallsConsistent
    <3>2. /\ chan' \in [Proc -> Sem \cup {NoChan}]
          /\ state' \in [Proc -> State]
      BY <2>13, <3>1 DEF Wakeup
    <3>3. scan' \in [Proc -> 0 .. NPROC + 1]
      BY <2>13, <3>1 DEF Wakeup
    <3> QED
      BY <2>13, <3>2, <3>3 DEF Wakeup
  <2>14. CASE SignalDone(p)
    BY <2>1, <2>14 DEF SignalDone
  <2> QED
    BY <1>2, <2>2, <2>3, <2>4, <2>5, <2>6, <2>7, <2>8, <2>9, <2>10, <2>11, <2>12,
       <2>13, <2>14 DEF Step
<1>3. ASSUME NEW p \in Proc, Call(p)
      PROVE  TypeOK'
  <2> USE DEF At, Goto, procVars, callVars, semaVars
  <2>1. ASSUME NEW s \in Sem, SemWait(p, s)
        PROVE  TypeOK'
    BY <2>1 DEF SemWait
  <2>2. ASSUME NEW s \in Sem, SemSignal(p, s)
        PROVE  TypeOK'
    BY <2>2 DEF SemSignal
  <2>3. ASSUME NEW s \in Sem, NEW v \in 0 .. MaxValue, SemInit(p, s, v)
        PROVE  TypeOK'
    BY <2>3 DEF SemInit
  <2> QED
    BY <1>3, <2>1, <2>2, <2>3 DEF Call
<1>4. ASSUME NEW p \in Proc, Life(p)
      PROVE  TypeOK'
  BY <1>4 DEF Life, Spawn, Dispatch, Yield, Exit, Reap, Kill, At, callVars, semaVars
<1> QED
  BY <1>1, <1>2, <1>3, <1>4 DEF Next

(***************************************************************************)
(* What each place in a call implies about the process that is there.      *)
(***************************************************************************)
LEMMA CallsStep ==
  TypeOK /\ TypeOK' /\ CallsConsistent /\ [Next]_vars => CallsConsistent'
<1> SUFFICES ASSUME TypeOK, TypeOK', CallsConsistent, [Next]_vars
             PROVE  CallsConsistent'
  OBVIOUS
<1> USE ConstantsAssumption DEF
       TypeOK, State, Pc, WaitPc, LockedPc, Proc, Free, CallsConsistent,
       At, Goto, Lock, Unlock, Return,
       procVars, callVars, semaVars
<1>1. CASE UNCHANGED vars
  BY <1>1 DEF vars
<1>2. ASSUME NEW p \in Proc, Step(p)
      PROVE  CallsConsistent'
  <2>1. CASE WaitLock(p)
    BY <2>1 DEF WaitLock
  <2>2. CASE WaitRefused(p)
    BY <2>2 DEF WaitRefused
  <2>3. CASE WaitPrepare(p)
    BY <2>3 DEF WaitPrepare
  <2>4. CASE WaitTake(p)
    BY <2>4 DEF WaitTake
  <2>5. CASE WaitUnlock(p)
    BY <2>5 DEF WaitUnlock
  <2>6. CASE Sleep(p)
    BY <2>6 DEF Sleep
  <2>7. CASE WaitRelock(p)
    BY <2>7 DEF WaitRelock
  <2>8. CASE WaitKilled(p)
    BY <2>8 DEF WaitKilled
  <2>9. CASE WaitAgain(p)
    BY <2>9 DEF WaitAgain
  <2>10. CASE SignalRefused(p)
    BY <2>10 DEF SignalRefused
  <2>11. CASE SignalPost(p)
    BY <2>11 DEF SignalPost
  <2>12. CASE Wakeup(p)
    BY <2>12 DEF Wakeup
  <2>13. CASE SignalDone(p)
    BY <2>13 DEF SignalDone
  <2> QED
    BY <1>2, <2>1, <2>2, <2>3, <2>4, <2>5, <2>6, <2>7, <2>8,
       <2>9, <2>10, <2>11, <2>12, <2>13 DEF Step
<1>3. ASSUME NEW p \in Proc, Call(p)
      PROVE  CallsConsistent'
  <2>1. ASSUME NEW s \in Sem, SemWait(p, s)
        PROVE  CallsConsistent'
    BY <2>1 DEF SemWait
  <2>2. ASSUME NEW s \in Sem, SemSignal(p, s)
        PROVE  CallsConsistent'
    BY <2>2 DEF SemSignal
  <2>3. ASSUME NEW s \in Sem, NEW v \in 0 .. MaxValue, SemInit(p, s, v)
        PROVE  CallsConsistent'
    BY <2>3 DEF SemInit
  <2> QED
    BY <1>3, <2>1, <2>2, <2>3 DEF Call
<1>4. ASSUME NEW p \in Proc, Life(p)
      PROVE  CallsConsistent'
  <2>1. CASE Spawn(p)
    BY <2>1 DEF Spawn
  <2>2. CASE Dispatch(p)
    BY <2>2 DEF Dispatch
  <2>3. CASE Yield(p)
    BY <2>3 DEF Yield
  <2>4. CASE Exit(p)
    BY <2>4 DEF Exit
  <2>5. CASE Reap(p)
    BY <2>5 DEF Reap
  <2>6. ASSUME NEW q \in Proc, Kill(p, q)
        PROVE  CallsConsistent'
    BY <2>6 DEF Kill
  <2> QED
    BY <1>4, <2>1, <2>2, <2>3, <2>4, <2>5, <2>6 DEF Life
<1> QED
  BY <1>1, <1>2, <1>3, <1>4 DEF Next

(***************************************************************************)
(* A semaphore's lock is held by exactly the process in its critical       *)
(* section, and only while that process runs.                              *)
(***************************************************************************)
LEMMA LocksStep ==
  TypeOK /\ TypeOK' /\ CallsConsistent /\ LocksHeldRunning /\ [Next]_vars
    => LocksHeldRunning'
<1> SUFFICES ASSUME TypeOK, TypeOK', CallsConsistent, LocksHeldRunning, [Next]_vars
             PROVE  LocksHeldRunning'
  OBVIOUS
<1> USE ConstantsAssumption DEF
       TypeOK, State, Pc, WaitPc, LockedPc, Proc, Free, CallsConsistent,
       LocksHeldRunning, At, Goto, Lock, Unlock, Return,
       procVars, callVars, semaVars
<1>1. CASE UNCHANGED vars
  BY <1>1 DEF vars
<1>2. ASSUME NEW p \in Proc, Step(p)
      PROVE  LocksHeldRunning'
  <2>1. CASE WaitLock(p)
    BY <2>1 DEF WaitLock
  <2>2. CASE WaitRefused(p)
    BY <2>2 DEF WaitRefused
  <2>3. CASE WaitPrepare(p)
    BY <2>3 DEF WaitPrepare
  <2>4. CASE WaitTake(p)
    BY <2>4 DEF WaitTake
  <2>5. CASE WaitUnlock(p)
    BY <2>5 DEF WaitUnlock
  <2>6. CASE Sleep(p)
    BY <2>6 DEF Sleep
  <2>7. CASE WaitRelock(p)
    BY <2>7 DEF WaitRelock
  <2>8. CASE WaitKilled(p)
    BY <2>8 DEF WaitKilled
  <2>9. CASE WaitAgain(p)
    BY <2>9 DEF WaitAgain
  <2>10. CASE SignalRefused(p)
    BY <2>10 DEF SignalRefused
  <2>11. CASE SignalPost(p)
    BY <2>11 DEF SignalPost
  <2>12. CASE Wakeup(p)
    BY <2>12 DEF Wakeup
  <2>13. CASE SignalDone(p)
    BY <2>13 DEF SignalDone
  <2> QED
    BY <1>2, <2>1, <2>2, <2>3, <2>4, <2>5, <2>6, <2>7, <2>8,
       <2>9, <2>10, <2>11, <2>12, <2>13 DEF Step
<1>3. ASSUME NEW p \in Proc, Call(p)
      PROVE  LocksHeldRunning'
  <2>1. ASSUME NEW s \in Sem, SemWait(p, s)
        PROVE  LocksHeldRunning'
    BY <2>1 DEF SemWait
  <2>2. ASSUME NEW s \in Sem, SemSignal(p, s)
        PROVE  LocksHeldRunning'
    BY <2>2 DEF SemSignal
  <2>3. ASSUME NEW s \in Sem, NEW v \in 0 .. MaxValue, SemInit(p, s, v)
        PROVE  LocksHeldRunning'
    BY <2>3 DEF SemInit
  <2> QED
    BY <1>3, <2>1, <2>2, <2>3 DEF Call
<1>4. ASSUME NEW p \in Proc, Life(p)
      PROVE  LocksHeldRunning'
  <2>1. CASE Spawn(p)
    BY <2>1 DEF Spawn
  <2>2. CASE Dispatch(p)
    BY <2>2 DEF Dispatch
  <2>3. CASE Yield(p)
    <3>1. \A s \in Sem : lk[s] # p
      BY <2>3, ZenonT(40) DEF Yield
    <3>2. state' = [state EXCEPT ![p] = "RUNNABLE"] /\ UNCHANGED <<pc, arg, lk>>
      BY <2>3 DEF Yield
    <3> QED
      BY <3>1, <3>2
  <2>4. CASE Exit(p)
    BY <2>4 DEF Exit
  <2>5. CASE Reap(p)
    BY <2>5 DEF Reap
  <2>6. ASSUME NEW q \in Proc, Kill(p, q)
        PROVE  LocksHeldRunning'
    BY <2>6 DEF Kill
  <2> QED
    BY <1>4, <2>1, <2>2, <2>3, <2>4, <2>5, <2>6 DEF Life
<1> QED
  BY <1>1, <1>2, <1>3, <1>4 DEF Next

(***************************************************************************)
(* A sleeper is registered on its semaphore; nobody else is, except the    *)
(* dying.                                                                  *)
(***************************************************************************)
LEMMA SleepersStep ==
  TypeOK /\ TypeOK' /\ CallsConsistent /\ SleepersReachable /\ [Next]_vars
    => SleepersReachable'
<1> SUFFICES ASSUME TypeOK, TypeOK', CallsConsistent, SleepersReachable, [Next]_vars
             PROVE  SleepersReachable'
  OBVIOUS
<1> USE ConstantsAssumption DEF
       TypeOK, State, Pc, WaitPc, LockedPc, Proc, Free, CallsConsistent,
       SleepersReachable, At, Goto, Lock, Unlock, Return,
       procVars, callVars, semaVars
<1>1. CASE UNCHANGED vars
  BY <1>1 DEF vars
<1>2. ASSUME NEW p \in Proc, Step(p)
      PROVE  SleepersReachable'
  <2>1. CASE WaitLock(p)
    <3>1. /\ state[p] = "RUNNING" /\ pc[p] = "wait"
          /\ pc' = [pc EXCEPT ![p] = "test"]
          /\ UNCHANGED <<state, chan, killed, arg>>
      BY <2>1 DEF WaitLock
    <3>2. chan[p] = NoChan \/ killed[p]
      BY <3>1
    <3>3. \A q \in Proc \ {p} : pc'[q] = pc[q]
      BY <3>1
    <3> QED
      BY <3>1, <3>2, <3>3
  <2>2. CASE WaitRefused(p)
    BY <2>2 DEF WaitRefused
  <2>3. CASE WaitPrepare(p)
    BY <2>3 DEF WaitPrepare
  <2>4. CASE WaitTake(p)
    BY <2>4 DEF WaitTake
  <2>5. CASE WaitUnlock(p)
    BY <2>5 DEF WaitUnlock
  <2>6. CASE Sleep(p)
    BY <2>6 DEF Sleep
  <2>7. CASE WaitRelock(p)
    BY <2>7 DEF WaitRelock
  <2>8. CASE WaitKilled(p)
    BY <2>8 DEF WaitKilled
  <2>9. CASE WaitAgain(p)
    BY <2>9 DEF WaitAgain
  <2>10. CASE SignalRefused(p)
    BY <2>10 DEF SignalRefused
  <2>11. CASE SignalPost(p)
    <3>1. /\ state[p] = "RUNNING" /\ pc[p] = "signal"
          /\ pc' = [pc EXCEPT ![p] = "wakeup"]
          /\ UNCHANGED <<state, chan, killed, arg>>
      BY <2>11 DEF SignalPost
    <3>2. chan[p] = NoChan \/ killed[p]
      BY <3>1
    <3>3. \A q \in Proc \ {p} : pc'[q] = pc[q]
      BY <3>1
    <3> QED
      BY <3>1, <3>2, <3>3
  <2>12. CASE Wakeup(p)
    <3>1. scan[p] \in Proc
      BY <2>12 DEF Wakeup
    <3>2. UNCHANGED <<pc, arg, killed>>
      BY <2>12 DEF Wakeup
    <3>3. CASE chan[scan[p]] = arg[p]
      <4>1. /\ chan' = [chan EXCEPT ![scan[p]] = NoChan]
            /\ state' = [state EXCEPT ![scan[p]] =
                           IF @ = "SLEEPING" THEN "RUNNABLE" ELSE @]
        BY <2>12, <3>3 DEF Wakeup
      <4>2. chan'[scan[p]] = NoChan /\ state'[scan[p]] # "SLEEPING"
        BY <3>1, <4>1
      <4>3. \A q \in Proc \ {scan[p]} : chan'[q] = chan[q] /\ state'[q] = state[q]
        BY <3>1, <4>1
      <4> QED
        BY SMTT(30), <3>2, <4>2, <4>3
    <3>4. CASE chan[scan[p]] # arg[p]
      BY <2>12, <3>2, <3>4 DEF Wakeup
    <3> QED
      BY <3>3, <3>4
  <2>13. CASE SignalDone(p)
    BY <2>13 DEF SignalDone
  <2> QED
    BY <1>2, <2>1, <2>2, <2>3, <2>4, <2>5, <2>6, <2>7, <2>8,
       <2>9, <2>10, <2>11, <2>12, <2>13 DEF Step
<1>3. ASSUME NEW p \in Proc, Call(p)
      PROVE  SleepersReachable'
  <2>1. ASSUME NEW s \in Sem, SemWait(p, s)
        PROVE  SleepersReachable'
    BY <2>1 DEF SemWait
  <2>2. ASSUME NEW s \in Sem, SemSignal(p, s)
        PROVE  SleepersReachable'
    BY <2>2 DEF SemSignal
  <2>3. ASSUME NEW s \in Sem, NEW v \in 0 .. MaxValue, SemInit(p, s, v)
        PROVE  SleepersReachable'
    BY <2>3 DEF SemInit
  <2> QED
    BY <1>3, <2>1, <2>2, <2>3 DEF Call
<1>4. ASSUME NEW p \in Proc, Life(p)
      PROVE  SleepersReachable'
  <2>1. CASE Spawn(p)
    BY <2>1 DEF Spawn
  <2>2. CASE Dispatch(p)
    BY <2>2 DEF Dispatch
  <2>3. CASE Yield(p)
    BY <2>3 DEF Yield
  <2>4. CASE Exit(p)
    BY <2>4 DEF Exit
  <2>5. CASE Reap(p)
    BY <2>5 DEF Reap
  <2>6. ASSUME NEW q \in Proc, Kill(p, q)
        PROVE  SleepersReachable'
    BY <2>6 DEF Kill
  <2> QED
    BY <1>4, <2>1, <2>2, <2>3, <2>4, <2>5, <2>6 DEF Life
<1> QED
  BY <1>1, <1>2, <1>3, <1>4 DEF Next

(***************************************************************************)
(* No step loses a wakeup.  Only SignalPost makes a value positive, and it *)
(* starts a wakeup() at the first entry; only that wakeup() and the end of *)
(* its scan can retire the promise, and they have passed the entry then.   *)
(***************************************************************************)
LEMMA WakeupStep ==
  TypeOK /\ TypeOK' /\ CallsConsistent /\ LocksHeldRunning /\ SleepersReachable
  /\ ~InitWhileWaiting /\ NoLostWakeup /\ [Next]_vars
    => NoLostWakeup'
<1> SUFFICES ASSUME TypeOK, TypeOK', CallsConsistent, LocksHeldRunning,
                    SleepersReachable, ~InitWhileWaiting, NoLostWakeup,
                    [Next]_vars
             PROVE  NoLostWakeup'
  OBVIOUS
<1> SUFFICES ASSUME NEW x \in Proc, NEW s \in Sem, Committed(x, s)', value'[s] > 0
             PROVE  WakeupPending(x, s)'
  BY DEF NoLostWakeup
<1>a. Committed(x, s) /\ value[s] > 0 => WakeupPending(x, s)
  BY DEF NoLostWakeup
<1> USE ConstantsAssumption DEF
       TypeOK, State, Pc, WaitPc, LockedPc, Proc, Free, Committed,
       WakeupPending, Waiting, At, Goto, Lock, Unlock, Return,
       procVars, callVars, semaVars
<1>1. CASE UNCHANGED vars
  BY <1>a, <1>1 DEF vars
<1>2. ASSUME NEW p \in Proc, Step(p)
      PROVE  WakeupPending(x, s)'
  <2>1. CASE WaitLock(p)
    BY <1>a, <2>1 DEF WaitLock
  <2>2. CASE WaitRefused(p)
    BY <1>a, <2>2 DEF WaitRefused
  <2>3. CASE WaitPrepare(p)
    BY <1>a, <2>3 DEF WaitPrepare
  <2>4. CASE WaitTake(p)
    <3>1. Committed(x, s) /\ value[s] > 0
      <4>1. Committed(x, s)
        BY <2>4 DEF WaitTake
      <4>2. value[s] > 0
        BY <2>4 DEF WaitTake
      <4> QED
        BY <4>1, <4>2
    <3>2. PICK q \in Proc : lk[s] = q /\ pc[q] = "wakeup" /\ scan[q] <= x
      BY <1>a, <3>1
    <3>3. q # p /\ s # arg[p]
      BY <2>4, <3>2 DEF WaitTake, LocksHeldRunning
    <3>4. lk'[s] = q /\ pc'[q] = "wakeup" /\ scan'[q] <= x
      BY <2>4, <3>2, <3>3 DEF WaitTake
    <3> QED
      BY <3>4
  <2>5. CASE WaitUnlock(p)
    <3>1. Committed(x, s) /\ value[s] > 0
      BY <2>5 DEF WaitUnlock
    <3>2. PICK q \in Proc : lk[s] = q /\ pc[q] = "wakeup" /\ scan[q] <= x
      BY <1>a, <3>1
    <3>3. q # p /\ s # arg[p]
      BY <2>5, <3>2 DEF WaitUnlock, LocksHeldRunning
    <3>4. lk'[s] = q /\ pc'[q] = "wakeup" /\ scan'[q] <= x
      BY <2>5, <3>2, <3>3 DEF WaitUnlock
    <3> QED
      BY <3>4
  <2>6. CASE Sleep(p)
    BY <1>a, <2>6 DEF Sleep
  <2>7. CASE WaitRelock(p)
    BY SMTT(30), <1>a, <2>7 DEF WaitRelock
  <2>8. CASE WaitKilled(p)
    <3>1. Committed(x, s) /\ value[s] > 0
      BY <2>8 DEF WaitKilled
    <3>2. PICK q \in Proc : lk[s] = q /\ pc[q] = "wakeup" /\ scan[q] <= x
      BY <1>a, <3>1
    <3>3. q # p /\ s # arg[p]
      BY <2>8, <3>2 DEF WaitKilled, LocksHeldRunning
    <3>4. lk'[s] = q /\ pc'[q] = "wakeup" /\ scan'[q] <= x
      BY <2>8, <3>2, <3>3 DEF WaitKilled
    <3> QED
      BY <3>4
  <2>9. CASE WaitAgain(p)
    BY <1>a, <2>9 DEF WaitAgain
  <2>10. CASE SignalRefused(p)
    BY <1>a, <2>10 DEF SignalRefused
  <2>11. CASE SignalPost(p)
    BY <1>a, <2>11 DEF SignalPost
  <2>12. CASE Wakeup(p)
    <3>1. UNCHANGED <<pc, arg, lk, value>> /\ scan' = [scan EXCEPT ![p] = @ + 1]
      BY <2>12 DEF Wakeup
    <3>2. chan'[x] = chan[x] /\ (state'[x] = "SLEEPING" => state[x] = "SLEEPING")
      BY <2>12 DEF Wakeup, CallsConsistent
    <3>3. PICK q \in Proc : lk[s] = q /\ pc[q] = "wakeup" /\ scan[q] <= x
      BY <1>a, <3>1, <3>2
    <3>4. CASE q # p
      BY <3>1, <3>3, <3>4
    <3>5. CASE q = p
      <4>1. arg[p] = s /\ chan[x] = arg[p]
        BY <3>2, <3>3, <3>5 DEF LocksHeldRunning
      <4>2. scan[p] # x
        BY <2>12, <3>2, <4>1 DEF Wakeup
      <4> QED
        BY <3>1, <3>3, <3>5, <4>2
    <3> QED
      BY <3>4, <3>5
  <2>13. CASE SignalDone(p)
    <3>1. Committed(x, s) /\ value[s] > 0
      BY <2>13 DEF SignalDone
    <3>2. PICK q \in Proc : lk[s] = q /\ pc[q] = "wakeup" /\ scan[q] <= x
      BY <1>a, <3>1
    <3>3. q # p
      BY <2>13, <3>2 DEF SignalDone
    <3>4. s # arg[p]
      BY <2>13, <3>2, <3>3 DEF SignalDone, LocksHeldRunning
    <3>5. lk'[s] = q /\ pc'[q] = "wakeup" /\ scan'[q] <= x
      BY <2>13, <3>2, <3>3, <3>4 DEF SignalDone
    <3> QED
      BY <3>5
  <2> QED
    BY <1>2, <2>1, <2>2, <2>3, <2>4, <2>5, <2>6, <2>7, <2>8,
       <2>9, <2>10, <2>11, <2>12, <2>13 DEF Step
<1>3. ASSUME NEW p \in Proc, Call(p)
      PROVE  WakeupPending(x, s)'
  <2>1. ASSUME NEW t \in Sem, SemWait(p, t)
        PROVE  WakeupPending(x, s)'
    BY <1>a, <2>1 DEF SemWait
  <2>2. ASSUME NEW t \in Sem, SemSignal(p, t)
        PROVE  WakeupPending(x, s)'
    BY <1>a, <2>2 DEF SemSignal
  <2>3. ASSUME NEW t \in Sem, NEW v \in 0 .. MaxValue, SemInit(p, t, v)
        PROVE  WakeupPending(x, s)'
    <3>1. Committed(x, s) /\ UNCHANGED <<lk, pc, scan>>
      BY <2>3 DEF SemInit
    <3>2. Waiting(x, s)
      BY <3>1 DEF CallsConsistent, SleepersReachable
    <3>3. s # t
      BY <2>3, <3>2 DEF SemInit
    <3>4. value[s] > 0
      BY <2>3, <3>3 DEF SemInit
    <3> QED
      BY <1>a, <3>1, <3>4
  <2> QED
    BY <1>3, <2>1, <2>2, <2>3 DEF Call
<1>4. ASSUME NEW p \in Proc, Life(p)
      PROVE  WakeupPending(x, s)'
  <2>1. CASE Spawn(p)
    BY <1>a, <2>1 DEF Spawn
  <2>2. CASE Dispatch(p)
    BY <1>a, <2>2 DEF Dispatch
  <2>3. CASE Yield(p)
    BY <1>a, <2>3 DEF Yield
  <2>4. CASE Exit(p)
    BY <1>a, <2>4 DEF Exit
  <2>5. CASE Reap(p)
    BY <1>a, <2>5 DEF Reap
  <2>6. ASSUME NEW q \in Proc, Kill(p, q)
        PROVE  WakeupPending(x, s)'
    BY <1>a, <2>6 DEF Kill
  <2> QED
    BY <1>4, <2>1, <2>2, <2>3, <2>4, <2>5, <2>6 DEF Life
<1> QED
  BY <1>1, <1>2, <1>3, <1>4 DEF Next

-------------------------------------------------------------------------------
(***************************************************************************)
(* IInv holds in every reachable state: each lemma above keeps one part of *)
(* it, from the parts before.                                              *)
(***************************************************************************)
THEOREM InductiveInvariant == SafeSpec => []IInv
<1>1. Init => IInv
  BY ConstantsAssumption DEF Init, IInv, TypeOK, CallsConsistent, LocksHeldRunning,
     SleepersReachable, NoLostWakeup, Committed, State, Pc, WaitPc, LockedPc, Proc, Free
<1>2. IInv /\ [Next]_vars => IInv'
  <2> SUFFICES ASSUME IInv, [Next]_vars
               PROVE  IInv'
    OBVIOUS
  <2>1. TypeOK'
    BY TypeStep DEF IInv
  <2>2. CallsConsistent'
    BY <2>1, CallsStep DEF IInv
  <2>3. LocksHeldRunning'
    BY <2>1, LocksStep DEF IInv
  <2>4. SleepersReachable'
    BY <2>1, SleepersStep DEF IInv
  <2>5. ~InitWhileWaiting => NoLostWakeup'
    BY <2>1, WakeupStep DEF IInv
  <2> QED
    BY <2>1, <2>2, <2>3, <2>4, <2>5 DEF IInv
<1> QED
  BY <1>1, <1>2, PTL DEF SafeSpec

(***************************************************************************)
(* Types: in particular a semaphore's value is never negative, which the   *)
(* test "value == 0" of sys_sem_wait relies on.                            *)
(***************************************************************************)
THEOREM TypeCorrect == SafeSpec => []TypeOK
<1>1. IInv => TypeOK
  BY DEF IInv
<1> QED
  BY <1>1, InductiveInvariant, PTL

(***************************************************************************)
(* Nobody sleeps on a semaphore with a unit left, except for as long as a  *)
(* signaller is on its way: for programs that call sem_init only on idle   *)
(* semaphores.                                                             *)
(***************************************************************************)
THEOREM NoWakeupLost == ~InitWhileWaiting => (SafeSpec => []NoLostWakeup)
<1> SUFFICES ASSUME ~InitWhileWaiting
             PROVE  SafeSpec => []NoLostWakeup
  OBVIOUS
<1>1. IInv => NoLostWakeup
  BY DEF IInv
<1> QED
  BY <1>1, InductiveInvariant, PTL

(***************************************************************************)
(* sched() never panics with "sched locks", and each semaphore lock is a   *)
(* mutual exclusion lock.                                                  *)
(***************************************************************************)
THEOREM LocksCorrect == SafeSpec => []LocksHeldRunning
<1>1. IInv => LocksHeldRunning
  BY DEF IInv
<1> QED
  BY <1>1, InductiveInvariant, PTL

(***************************************************************************)
(* Every sleeper can be woken through the channel its call registered.     *)
(***************************************************************************)
THEOREM SleepersCorrect == SafeSpec => []SleepersReachable
<1>1. IInv => SleepersReachable
  BY DEF IInv
<1> QED
  BY <1>1, InductiveInvariant, PTL

-------------------------------------------------------------------------------
(***************************************************************************)
(* Each step of the kernel is a step of the abstract semaphore, or changes *)
(* nothing the abstract semaphore shows.                                   *)
(***************************************************************************)
LEMMA StepRefines ==
  IInv /\ IInv' /\ [Next]_vars => [Abstract!Next]_(Abstract!semVars)
<1> SUFFICES ASSUME IInv, IInv', [Next]_vars
             PROVE  [Abstract!Next]_(Abstract!semVars)
  OBVIOUS
<1> USE ConstantsAssumption DEF At, Goto, Lock, Unlock, Return, Proc,
        procVars, callVars, semaVars, IInv, TypeOK, Pc, WaitPc
<1>1. CASE UNCHANGED vars
  BY <1>1 DEF vars, pendingWait, Abstract!semVars
<1>2. ASSUME NEW p \in Proc, Step(p)
      PROVE  [Abstract!Next]_(Abstract!semVars)
  <2>1. CASE \/ WaitLock(p) \/ WaitPrepare(p) \/ WaitUnlock(p) \/ Sleep(p)
             \/ WaitRelock(p) \/ WaitAgain(p) \/ Wakeup(p)
    <3>1. UNCHANGED <<value, initialized, killed>>
      BY <2>1
        DEF WaitLock, WaitPrepare, WaitUnlock, Sleep, WaitRelock, WaitAgain, Wakeup
    <3>2. UNCHANGED pendingWait
      BY <2>1 DEF WaitLock, WaitPrepare, WaitUnlock, Sleep, WaitRelock, WaitAgain,
                  Wakeup, pendingWait
    <3> QED
      BY <3>1, <3>2 DEF Abstract!semVars
  <2>2. CASE SignalRefused(p) \/ SignalDone(p)
    <3>1. UNCHANGED <<value, initialized, killed>>
      BY <2>2 DEF SignalRefused, SignalDone
    <3>2. UNCHANGED pendingWait
      BY <2>2 DEF SignalRefused, SignalDone, pendingWait
    <3> QED
      BY <3>1, <3>2 DEF Abstract!semVars
  <2>3. CASE WaitRefused(p)
    <3>1. pendingWait' = [pendingWait EXCEPT ![p] = NoChan]
      BY <2>3 DEF WaitRefused, pendingWait
    <3>2. arg[p] \in Sem /\ pendingWait[p] = arg[p]
      BY <2>3 DEF WaitRefused, pendingWait, CallsConsistent
    <3>3. Abstract!Refuse(p, arg[p])
      BY <2>3, <3>1, <3>2 DEF WaitRefused, Abstract!Refuse, Abstract!Leave
    <3> QED
      BY <3>2, <3>3 DEF Abstract!Next
  <2>4. CASE WaitTake(p)
    <3>1. pendingWait' = [pendingWait EXCEPT ![p] = NoChan]
      BY <2>4 DEF WaitTake, pendingWait
    <3>2. arg[p] \in Sem /\ pendingWait[p] = arg[p] /\ initialized[arg[p]]
      BY <2>4 DEF WaitTake, pendingWait, CallsConsistent, LockedPc
    <3>3. value[arg[p]] > 0
      BY <2>4, <3>2 DEF WaitTake
    <3>4. Abstract!Take(p, arg[p])
      BY <2>4, <3>1, <3>2, <3>3 DEF WaitTake, Abstract!Take, Abstract!Leave
    <3> QED
      BY <3>2, <3>4 DEF Abstract!Next
  <2>5. CASE WaitKilled(p)
    <3>1. pendingWait' = [pendingWait EXCEPT ![p] = NoChan]
      BY <2>5 DEF WaitKilled, pendingWait
    <3>2. arg[p] \in Sem /\ pendingWait[p] = arg[p]
      BY <2>5 DEF WaitKilled, pendingWait, CallsConsistent
    <3>3. Abstract!GiveUp(p)
      BY <2>5, <3>1, <3>2 DEF WaitKilled, Abstract!GiveUp, Abstract!Leave
    <3> QED
      BY <3>3 DEF Abstract!Next
  <2>6. CASE SignalPost(p)
    <3>1. UNCHANGED pendingWait
      BY <2>6 DEF SignalPost, pendingWait
    <3>2. arg[p] \in Sem
      BY <2>6 DEF SignalPost, CallsConsistent
    <3>3. Abstract!Post(arg[p])
      BY <2>6, <3>1, <3>2 DEF SignalPost, Abstract!Post
    <3> QED
      BY <3>2, <3>3 DEF Abstract!Next
  <2> QED
    BY <1>2, <2>1, <2>2, <2>3, <2>4, <2>5, <2>6 DEF Step
<1>3. ASSUME NEW p \in Proc, Call(p)
      PROVE  [Abstract!Next]_(Abstract!semVars)
  <2>1. ASSUME NEW s \in Sem, SemWait(p, s)
        PROVE  Abstract!Arrive(p, s)
    <3>1. pendingWait' = [pendingWait EXCEPT ![p] = s] /\ pendingWait[p] = NoChan
      BY <2>1 DEF SemWait, pendingWait
    <3> QED
      BY <2>1, <3>1 DEF SemWait, Abstract!Arrive
  <2>2. ASSUME NEW s \in Sem, SemSignal(p, s)
        PROVE  UNCHANGED Abstract!semVars
    <3>1. UNCHANGED pendingWait
      BY <2>2 DEF SemSignal, pendingWait
    <3> QED
      BY <2>2, <3>1 DEF SemSignal, Abstract!semVars
  <2>3. ASSUME NEW s \in Sem, NEW v \in 0 .. MaxValue, SemInit(p, s, v)
        PROVE  Abstract!Setup(s, v)
    BY <2>3 DEF SemInit, Abstract!Setup, pendingWait
  <2> QED
    BY <1>3, <2>1, <2>2, <2>3 DEF Call, Abstract!Next
<1>4. ASSUME NEW p \in Proc, Life(p)
      PROVE  [Abstract!Next]_(Abstract!semVars)
  <2>1. UNCHANGED <<value, initialized, pendingWait>>
    BY <1>4 DEF Life, Spawn, Dispatch, Yield, Exit, Reap, Kill, pendingWait
  <2>2. CASE Spawn(p) \/ Reap(p)
    <3>1. pendingWait[p] = NoChan
      BY <2>2 DEF Spawn, Reap, pendingWait, CallsConsistent
    <3>2. Abstract!Replace(p)
      BY <2>1, <2>2, <3>1 DEF Spawn, Reap, Abstract!Replace
    <3> QED
      BY <3>2 DEF Abstract!Next
  <2>3. CASE Dispatch(p) \/ Yield(p) \/ Exit(p)
    BY <2>1, <2>3 DEF Dispatch, Yield, Exit, Abstract!semVars
  <2>4. ASSUME NEW q \in Proc, Kill(p, q)
        PROVE  Abstract!Doom(q)
    BY <2>1, <2>4 DEF Kill, Abstract!Doom
  <2> QED
    BY <1>4, <2>2, <2>3, <2>4 DEF Life, Abstract!Next
<1> QED
  BY <1>1, <1>2, <1>3, <1>4 DEF Next

(***************************************************************************)
(* The semaphores of this kernel are counting semaphores: every behaviour, *)
(* seen through value, initialized, killed and the waits in progress, is   *)
(* one of CountingSemaphore.                                               *)
(***************************************************************************)
THEOREM ImplementsSemaphore == SafeSpec => ImplementsCountingSemaphore
<1>1. Init => Abstract!Init
  BY DEF Init, Abstract!Init, pendingWait, WaitPc
<1>2. IInv /\ IInv' /\ [Next]_vars => [Abstract!Next]_(Abstract!semVars)
  BY StepRefines
<1> QED
  BY <1>1, <1>2, InductiveInvariant, PTL DEF SafeSpec, ImplementsCountingSemaphore,
     Abstract!SafeSpec

-------------------------------------------------------------------------------
(*************************************************************************)
(* The semaphores of Assignment 4.  Their locks are safe because of the  *)
(* callers, not because of the kernel: the theorem about them has        *)
(* FirstInitAlone as its hypothesis.  Without it TLC finds a first       *)
(* sem_init that frees the lock a sem_down holds.                        *)
(*************************************************************************)

(***************************************************************************)
(* The inductive invariant.                                                *)
(***************************************************************************)
A4Types ==
  /\ state \in [Proc -> State]
  /\ chan \in [Proc -> Sem \cup {NoChan}]
  /\ killed \in [Proc -> BOOLEAN]
  /\ pc \in [Proc -> Pc \cup InitPc]
  /\ arg \in [Proc -> Sem \cup {NoChan}]
  /\ scan \in [Proc -> 0 .. NPROC + 1]
  /\ lk \in [Sem -> Proc \cup {Free}]
  /\ value \in [Sem -> Int]
  /\ sem_initialized \in BOOLEAN

\* A process in a call is alive, and its call is about a semaphore.
InCall ==
  \A p \in Proc : /\ pc[p] # "user" => arg[p] \in Sem
                  /\ pc[p] = "wakeup" => scan[p] \in Proc \cup {NPROC + 1}

\* Before the locks are initialised one process at most is in a call; from
\* then on nobody initialises them again.
FirstCallAlone ==
  /\ ~sem_initialized => \A p, q \in Proc : pc[p] # "user" /\ pc[q] # "user" => p = q
  /\ sem_initialized => \A p \in Proc : pc[p] \notin {"initlocks", "initflag"}

A4Inv ==
  /\ A4Types
  /\ InCall
  /\ FirstInitAlone => FirstCallAlone /\ CriticalSectionsLocked

-------------------------------------------------------------------------------
(***************************************************************************)
(* The types, and the semaphore of a call, are kept by every step.         *)
(***************************************************************************)
LEMMA A4TypeStep == A4Types /\ InCall /\ [A4Next]_a4Vars => A4Types' /\ InCall'
<1> SUFFICES ASSUME A4Types, InCall, [A4Next]_a4Vars
             PROVE  A4Types' /\ InCall'
  OBVIOUS
<1> USE ConstantsAssumption, A4Assumption
    DEF A4Types, InCall, State, Pc, WaitPc, InitPc, Proc, Free,
        At, Goto, Lock, Unlock, Return, procVars, callVars, semaVars
<1>1. CASE UNCHANGED a4Vars
  BY <1>1 DEF a4Vars, vars
<1>2. ASSUME NEW p \in Proc, A4Step(p)
      PROVE  A4Types' /\ InCall'
  <2>1. CASE InitLocks(p)
    BY <2>1 DEF InitLocks
  <2>2. CASE InitFlag(p)
    BY <2>2 DEF InitFlag
  <2>3. ASSUME NEW v \in (-MaxDebt) .. MaxValue, InitCount(p, v)
        PROVE  A4Types' /\ InCall'
    BY <2>3 DEF InitCount
  <2>4. CASE DownPrepare(p)
    BY <2>4 DEF DownPrepare
  <2>5. CASE DownTake(p)
    BY <2>5 DEF DownTake
  <2>6. CASE DownRelock(p)
    BY <2>6 DEF DownRelock
  <2>7. CASE WaitLock(p) /\ UNCHANGED sem_initialized
    BY <2>7 DEF WaitLock
  <2>8. CASE WaitUnlock(p) /\ UNCHANGED sem_initialized
    BY <2>8 DEF WaitUnlock
  <2>9. CASE Sleep(p) /\ UNCHANGED sem_initialized
    BY <2>9 DEF Sleep
  <2>10. CASE SignalPost(p) /\ UNCHANGED sem_initialized
    BY <2>10 DEF SignalPost
  <2>11. CASE Wakeup(p) /\ UNCHANGED sem_initialized
    <3>1. scan[p] \in Proc
      BY <2>11 DEF Wakeup
    <3>2. /\ chan' \in [Proc -> Sem \cup {NoChan}]
          /\ state' \in [Proc -> State]
      BY <2>11, <3>1 DEF Wakeup
    <3>3. /\ scan' = [scan EXCEPT ![p] = @ + 1]
          /\ UNCHANGED <<killed, pc, arg, lk, value, sem_initialized>>
      BY <2>11 DEF Wakeup
    <3>4. scan' \in [Proc -> 0 .. NPROC + 1]
      BY <3>1, <3>3
    <3>5. InCall'
      BY <3>1, <3>3
    <3> QED
      BY <3>2, <3>3, <3>4, <3>5
  <2>12. CASE SignalDone(p) /\ UNCHANGED sem_initialized
    BY <2>12 DEF SignalDone
  <2> QED
    BY <1>2, <2>1, <2>2, <2>3, <2>4, <2>5, <2>6, <2>7, <2>8, <2>9, <2>10, <2>11,
       <2>12 DEF A4Step
<1>3. ASSUME NEW p \in Proc, A4Call(p)
      PROVE  A4Types' /\ InCall'
  <2>1. PICK s \in Sem : \/ InitCall(p, s)
                         \/ (SemWait(p, s) \/ SemSignal(p, s)) /\ UNCHANGED sem_initialized
    BY <1>3 DEF A4Call
  <2>2. CASE InitCall(p, s)
    BY <2>2 DEF InitCall
  <2>3. CASE SemWait(p, s) /\ UNCHANGED sem_initialized
    BY <2>3 DEF SemWait
  <2>4. CASE SemSignal(p, s) /\ UNCHANGED sem_initialized
    BY <2>4 DEF SemSignal
  <2> QED
    BY <2>1, <2>2, <2>3, <2>4
<1>4. ASSUME NEW p \in Proc, InitYield(p)
      PROVE  A4Types' /\ InCall'
  BY <1>4 DEF InitYield
<1>5. ASSUME NEW p \in Proc, Life(p), UNCHANGED sem_initialized
      PROVE  A4Types' /\ InCall'
  BY <1>5 DEF Life, Spawn, Dispatch, Yield, Exit, Reap, Kill
<1> QED
  BY <1>1, <1>2, <1>3, <1>4, <1>5 DEF A4Next

(***************************************************************************)
(* When the callers keep out of the first sem_init, it finds no lock taken *)
(* and every later call leaves the locks alone that it did not take.       *)
(***************************************************************************)
LEMMA A4LockStep ==
  /\ FirstInitAlone
  /\ A4Types /\ InCall /\ FirstCallAlone /\ CriticalSectionsLocked
  /\ [A4Next]_a4Vars
  => FirstCallAlone' /\ CriticalSectionsLocked'
<1> SUFFICES ASSUME FirstInitAlone, A4Types, InCall, FirstCallAlone,
                    CriticalSectionsLocked, [A4Next]_a4Vars
             PROVE  FirstCallAlone' /\ CriticalSectionsLocked'
  OBVIOUS
<1> USE ConstantsAssumption
    DEF A4Types, InCall, FirstCallAlone, CriticalSectionsLocked,
        Pc, WaitPc, InitPc, LockedPc, Proc, Free,
        At, Goto, Lock, Unlock, Return, procVars, callVars, semaVars
<1>1. CASE UNCHANGED a4Vars
  BY <1>1 DEF a4Vars, vars
<1>2. ASSUME NEW p \in Proc, A4Step(p)
      PROVE  FirstCallAlone' /\ CriticalSectionsLocked'
  <2>1. CASE InitLocks(p)
    BY <2>1 DEF InitLocks
  <2>2. CASE InitFlag(p)
    BY SMTT(30), <2>2 DEF InitFlag
  <2>3. ASSUME NEW v \in (-MaxDebt) .. MaxValue, InitCount(p, v)
        PROVE  FirstCallAlone' /\ CriticalSectionsLocked'
    BY <2>3 DEF InitCount
  <2>4. CASE DownPrepare(p)
    BY <2>4 DEF DownPrepare
  <2>5. CASE DownTake(p)
    BY <2>5 DEF DownTake
  <2>6. CASE DownRelock(p)
    BY <2>6 DEF DownRelock
  <2>7. CASE WaitLock(p) /\ UNCHANGED sem_initialized
    BY <2>7 DEF WaitLock
  <2>8. CASE WaitUnlock(p) /\ UNCHANGED sem_initialized
    BY <2>8 DEF WaitUnlock
  <2>9. CASE Sleep(p) /\ UNCHANGED sem_initialized
    BY <2>9 DEF Sleep
  <2>10. CASE SignalPost(p) /\ UNCHANGED sem_initialized
    BY <2>10 DEF SignalPost
  <2>11. CASE Wakeup(p) /\ UNCHANGED sem_initialized
    BY <2>11 DEF Wakeup
  <2>12. CASE SignalDone(p) /\ UNCHANGED sem_initialized
    BY <2>12 DEF SignalDone
  <2> QED
    BY <1>2, <2>1, <2>2, <2>3, <2>4, <2>5, <2>6, <2>7, <2>8, <2>9, <2>10, <2>11,
       <2>12 DEF A4Step
<1>3. ASSUME NEW p \in Proc, A4Call(p)
      PROVE  FirstCallAlone' /\ CriticalSectionsLocked'
  BY SMTT(30), <1>3 DEF A4Call, InitCall, SemWait, SemSignal
<1>4. ASSUME NEW p \in Proc, InitYield(p)
      PROVE  FirstCallAlone' /\ CriticalSectionsLocked'
  BY <1>4 DEF InitYield
<1>5. ASSUME NEW p \in Proc, Life(p), UNCHANGED sem_initialized
      PROVE  FirstCallAlone' /\ CriticalSectionsLocked'
  BY <1>5 DEF Life, Spawn, Dispatch, Yield, Exit, Reap, Kill
<1> QED
  BY <1>1, <1>2, <1>3, <1>4, <1>5 DEF A4Next

\* The calls of Assignment 4 keep it when the first sem_init() runs alone.
LEMMA A4Invariant == A4SafeSpec => []A4Inv
<1>1. A4Init => A4Inv
  <2> SUFFICES ASSUME A4Init PROVE A4Inv
    OBVIOUS
  <2> USE ConstantsAssumption DEF A4Init
  <2>1. A4Types
    <3>1. lk \in [Sem -> Proc \cup {Free}] /\ value \in [Sem -> Int]
      BY DEF Free
    <3>2. 0 \in 0 .. NPROC + 1
      OBVIOUS
    <3> QED
      BY <3>1, <3>2 DEF A4Types, State, Pc
  <2>2. \A p \in Proc : pc[p] = "user"
    OBVIOUS
  <2>3. InCall /\ FirstCallAlone /\ CriticalSectionsLocked
    BY <2>2 DEF InCall, FirstCallAlone, CriticalSectionsLocked, LockedPc
  <2> QED
    BY <2>1, <2>3 DEF A4Inv
<1>2. A4Inv /\ [A4Next]_a4Vars => A4Inv'
  BY A4TypeStep, A4LockStep DEF A4Inv
<1> QED
  BY <1>1, <1>2, PTL DEF A4SafeSpec

-------------------------------------------------------------------------------
(***************************************************************************)
(* When nobody calls during the first sem_init, whoever is in a critical   *)
(* section of a semaphore holds its lock (sysproc.c:162): the lazy         *)
(* initlock() calls of sys_sem_init free no lock that is in use.           *)
(***************************************************************************)
THEOREM SectionsLockedA4 ==
  ASSUME FirstInitAlone
  PROVE  A4SafeSpec => []CriticalSectionsLocked
<1>1. A4Inv => CriticalSectionsLocked
  BY DEF A4Inv
<1> QED
  BY <1>1, A4Invariant, PTL

(***************************************************************************)
(* A unit is taken only from a positive count, whoever calls sem_init and  *)
(* whenever: the other way for a count to fall is a sem_init that sets it. *)
(***************************************************************************)
THEOREM TakesFromPositive == A4SafeSpec => NeverTakenBelowZero
<1> DEFINE Taken ==
      \A s \in Sem : value'[s] < value[s] =>
        value[s] > 0 \/ \E p \in Proc : pc[p] = "setcount" /\ pc'[p] = "user"
<1>1. A4Inv /\ [A4Next]_a4Vars => [Taken]_a4Vars
  <2> SUFFICES ASSUME A4Inv, A4Next, NEW s \in Sem, value'[s] < value[s]
               PROVE  value[s] > 0 \/ \E p \in Proc : pc[p] = "setcount" /\ pc'[p] = "user"
    BY DEF Taken
  <2> USE DEF A4Inv, A4Types, InCall, Pc, InitPc, WaitPc,
             At, Goto, Return, procVars, callVars, semaVars
  <2>1. value[s] \in Int
    OBVIOUS
  <2>2. UNCHANGED value \/ value' # value
    OBVIOUS
  <2>3. value' # value
    BY <2>1
  <2>4. PICK p \in Proc : A4Step(p) \/ A4Call(p) \/ InitYield(p)
                          \/ (Life(p) /\ UNCHANGED sem_initialized)
    BY DEF A4Next
  <2>5. ~A4Call(p) /\ ~InitYield(p) /\ ~Life(p)
    BY <2>3 DEF A4Call, InitCall, SemWait, SemSignal, InitYield,
                Life, Spawn, Dispatch, Yield, Exit, Reap, Kill
  <2>6. \/ \E v \in (-MaxDebt) .. MaxValue : InitCount(p, v)
        \/ DownTake(p)
        \/ SignalPost(p)
    BY <2>3, <2>4, <2>5
    DEF A4Step, InitLocks, InitFlag, DownPrepare, DownRelock, WaitLock, WaitUnlock,
        Sleep, Wakeup, SignalDone
  <2>7. CASE \E v \in (-MaxDebt) .. MaxValue : InitCount(p, v)
    BY <2>7 DEF InitCount
  <2>8. CASE DownTake(p)
    BY <2>8 DEF DownTake
  <2>9. CASE SignalPost(p)
    BY <2>9 DEF SignalPost
  <2> QED
    BY <2>6, <2>7, <2>8, <2>9
<1> QED
  BY <1>1, A4Invariant, PTL DEF A4SafeSpec, NeverTakenBelowZero
===============================================================================
