---------------------------- MODULE ProcessesProofs ----------------------------
(*************************************************************************)
(* For process tables of any size, and a counter of ticks that wraps     *)
(* anywhere: the safety properties of Lifecycle, of both kernels, then   *)
(* those of the timed sleep, and of Processes, which is made of them.    *)
(*************************************************************************)
EXTENDS Processes, TLAPS

(***************************************************************************)
(* The types are kept by every step; the entry that fork or clone works on *)
(* is one of the table (ForksConsistent).                                  *)
(***************************************************************************)
LEMMA TypeStep ==
  TypeOK /\ PlacesConsistent /\ ForksConsistent /\ [Next]_vars => TypeOK'
<1> SUFFICES ASSUME TypeOK, PlacesConsistent, ForksConsistent, [Next]_vars
             PROVE  TypeOK'
  OBVIOUS
<1> USE TableAssumption DEF TypeOK, State, Pc, Slot, Nobody, InitProc
<1>1. CASE UNCHANGED vars
  BY <1>1 DEF vars, sleeping, tree, calls
<1>2. ASSUME NEW p \in Slot,
             Step(p) \/ CallWait(p) \/ CallJoin(p) \/ Exit(p)
      PROVE  TypeOK'
  <2> USE DEF At, Goto, MayCall, sleeping, tree, calls
  <2>1. CASE Link(p)
    BY <2>1 DEF Link, ForksConsistent, Forking
  <2>2. CASE Start(p)
    BY <2>2 DEF Start, ForksConsistent, Forking
  <2>3. CASE Reap(p)
    BY <2>3 DEF Reap, Zombies, Awaited, Children, PlacesConsistent
  <2>4. CASE WaitBadAddress(p)
    BY <2>4 DEF WaitBadAddress
  <2>5. CASE WaitFails(p)
    BY <2>5 DEF WaitFails
  <2>6. CASE WaitPrepare(p)
    BY <2>6 DEF WaitPrepare
  <2>7. CASE Sleep(p)
    BY <2>7 DEF Sleep
  <2>8. CASE CallWait(p)
    BY <2>8 DEF CallWait
  <2>9. CASE CallJoin(p)
    BY <2>9 DEF CallJoin
  <2>10. CASE Exit(p)
    BY <2>10 DEF Exit, PassedOn, Children, PlacesConsistent
  <2> QED
    BY <1>2, <2>1, <2>2, <2>3, <2>4, <2>5, <2>6, <2>7, <2>8, <2>9, <2>10 DEF Step
<1>3. ASSUME NEW p \in Slot, NEW np \in Slot, NEW thread \in BOOLEAN,
             Alloc(p, np, thread)
      PROVE  TypeOK'
  BY <1>3 DEF Alloc, At, Goto, MayCall
<1>4. ASSUME NEW p \in Slot, NEW q \in Slot, Kill(p, q)
      PROVE  TypeOK'
  BY <1>4 DEF Kill, At, MayCall, tree, calls
<1>5. ASSUME NEW p \in Slot, KillZero(p)
      PROVE  TypeOK'
  BY <1>5 DEF KillZero, At, MayCall, sleeping, tree, calls
<1> QED
  BY <1>1, <1>2, <1>3, <1>4, <1>5 DEF Next

(***************************************************************************)
(* What the state of an entry says about its place and its channel.        *)
(***************************************************************************)
LEMMA PlacesStep ==
  TypeOK /\ PlacesConsistent /\ ForksConsistent /\ [Next]_vars => PlacesConsistent'
<1> SUFFICES ASSUME TypeOK, PlacesConsistent, ForksConsistent, [Next]_vars
             PROVE  PlacesConsistent'
  OBVIOUS
<1> USE TableAssumption DEF TypeOK, State, Pc, Slot, Nobody, InitProc, PlacesConsistent, Alive
<1>1. CASE UNCHANGED vars
  BY <1>1 DEF vars, sleeping, tree, calls
<1>2. ASSUME NEW p \in Slot,
             Step(p) \/ CallWait(p) \/ CallJoin(p) \/ Exit(p)
      PROVE  PlacesConsistent'
  <2> USE DEF At, Goto, MayCall, sleeping, tree, calls
  <2>1. CASE Link(p)
    BY <2>1 DEF Link, ForksConsistent, Forking
  <2>2. CASE Start(p)
    BY <2>2 DEF Start, ForksConsistent, Forking
  <2>3. CASE Reap(p)
    BY <2>3 DEF Reap, Zombies, Awaited, Children
  <2>4. CASE WaitBadAddress(p)
    BY <2>4 DEF WaitBadAddress
  <2>5. CASE WaitFails(p)
    BY <2>5 DEF WaitFails
  <2>6. CASE WaitPrepare(p)
    BY <2>6 DEF WaitPrepare
  <2>7. CASE Sleep(p)
    BY <2>7 DEF Sleep
  <2>8. CASE CallWait(p)
    BY <2>8 DEF CallWait
  <2>9. CASE CallJoin(p)
    BY <2>9 DEF CallJoin
  <2>10. CASE Exit(p)
    BY <2>10 DEF Exit
  <2> QED
    BY <1>2, <2>1, <2>2, <2>3, <2>4, <2>5, <2>6, <2>7, <2>8, <2>9, <2>10 DEF Step
<1>3. ASSUME NEW p \in Slot, NEW np \in Slot, NEW thread \in BOOLEAN,
             Alloc(p, np, thread)
      PROVE  PlacesConsistent'
  BY <1>3 DEF Alloc, At, Goto, MayCall
<1>4. ASSUME NEW p \in Slot, NEW q \in Slot, Kill(p, q)
      PROVE  PlacesConsistent'
  BY <1>4 DEF Kill, At, MayCall, tree, calls
<1>5. ASSUME NEW p \in Slot, KillZero(p)
      PROVE  PlacesConsistent'
  BY <1>5 DEF KillZero, At, MayCall, sleeping, tree, calls
<1> QED
  BY <1>1, <1>2, <1>3, <1>4, <1>5 DEF Next

\* What the allocation of an entry does, in both kernels, to all but killed.
Adopts(p, np) ==
  /\ state[p] = "RUNNABLE" /\ pc[p] = "user" /\ state[np] = "UNUSED"
  /\ state' = [state EXCEPT ![np] = "USED"]
  /\ parent' = [parent EXCEPT ![np] = Nobody]
  /\ chan' = [chan EXCEPT ![np] = Nobody]
  /\ stranger' = [q \in Slot |-> IF q = np THEN FALSE
                                 ELSE stranger[q] \/ parent[q] = np]
  /\ child' = [child EXCEPT ![p] = np]
  /\ pc' = [pc EXCEPT ![p] = "link"]

(***************************************************************************)
(* A new entry is no other caller's, nor the parent of another new one.    *)
(***************************************************************************)
LEMMA AdoptForks ==
  ASSUME TypeOK, PlacesConsistent, ForksConsistent,
         NEW p \in Slot, NEW np \in Slot, Adopts(p, np)
  PROVE  ForksConsistent'
<1> USE TableAssumption DEF TypeOK, State, Pc, Slot, Nobody, InitProc, ForksConsistent, Forking, Adopts
<1>1. /\ \A q \in Slot : Forking(q) => child[q] # np
      /\ ~Forking(p) /\ p # np
  OBVIOUS
<1>2. ASSUME NEW q \in Slot, q # p, Forking(q)
      PROVE  /\ Forking(q)' /\ child'[q] = child[q] /\ child[q] \in Slot
             /\ state'[child[q]] = "USED"
             /\ parent'[child[q]] = parent[child[q]]
             /\ stranger'[child[q]] = (stranger[child[q]] \/ parent[child[q]] = np)
  BY <1>1, <1>2
<1>3. ASSUME NEW q \in Slot, q # p, Forking(q)
      PROVE  parent[child[q]] # np
  BY <1>1, <1>3 DEF PlacesConsistent
<1>4. /\ child'[p] = np /\ state'[np] = "USED" /\ parent'[np] = Nobody
      /\ ~stranger'[np] /\ pc'[p] = "link"
  OBVIOUS
<1>5. \A q \in Slot \ {p} : pc'[q] = pc[q]
  OBVIOUS
<1>6. ASSUME NEW q \in Slot, Forking(q)'
      PROVE  /\ child'[q] \in Slot
             /\ state'[child'[q]] = "USED"
             /\ parent'[child'[q]] = (IF pc'[q] = "start" THEN q ELSE Nobody)
             /\ ~stranger'[child'[q]]
  <2>1. CASE q = p
    BY <1>4, <2>1
  <2>2. CASE q # p
    <3>1. Forking(q) /\ pc'[q] = pc[q]
      BY <1>5, <1>6, <2>2
    <3> QED
      BY <1>2, <1>3, <2>2, <3>1
  <2> QED
    BY <2>1, <2>2
<1>7. ASSUME NEW q \in Slot, NEW r \in Slot, Forking(q)', Forking(r)', q # r
      PROVE  child'[q] # child'[r]
  BY <1>1, <1>2, <1>4, <1>5, <1>7
<1> HIDE DEF Adopts
<1> QED
  BY <1>6, <1>7 DEF ForksConsistent, Forking

(***************************************************************************)
(* An entry under construction belongs to one caller, and nobody else gives *)
(* it a parent, a state or an owner.                                       *)
(***************************************************************************)
LEMMA ForksStep ==
  TypeOK /\ PlacesConsistent /\ ForksConsistent /\ [Next]_vars => ForksConsistent'
<1> SUFFICES ASSUME TypeOK, PlacesConsistent, ForksConsistent, [Next]_vars
             PROVE  ForksConsistent'
  OBVIOUS
<1> USE TableAssumption DEF TypeOK, State, Pc, Slot, Nobody, InitProc, ForksConsistent, Forking
<1>1. CASE UNCHANGED vars
  BY <1>1 DEF vars, sleeping, tree, calls
<1>2. ASSUME NEW p \in Slot,
             Step(p) \/ CallWait(p) \/ CallJoin(p) \/ Exit(p)
      PROVE  ForksConsistent'
  <2> USE DEF At, Goto, MayCall, sleeping, tree, calls
  <2>1. CASE Link(p)
    BY <2>1 DEF Link
  <2>2. CASE Start(p)
    BY <2>2 DEF Start
  <2>3. CASE Reap(p)
    BY <2>3 DEF Reap, Zombies, Awaited, Children
  <2>4. CASE WaitBadAddress(p)
    BY <2>4 DEF WaitBadAddress
  <2>5. CASE WaitFails(p)
    BY <2>5 DEF WaitFails
  <2>6. CASE WaitPrepare(p)
    BY <2>6 DEF WaitPrepare
  <2>7. CASE Sleep(p)
    BY <2>7 DEF Sleep
  <2>8. CASE CallWait(p)
    BY <2>8 DEF CallWait
  <2>9. CASE CallJoin(p)
    BY <2>9 DEF CallJoin
  <2>10. CASE Exit(p)
    BY <2>10 DEF Exit, PassedOn, Children
  <2> QED
    BY <1>2, <2>1, <2>2, <2>3, <2>4, <2>5, <2>6, <2>7, <2>8, <2>9, <2>10 DEF Step
<1>3. ASSUME NEW p \in Slot, NEW np \in Slot, NEW thread \in BOOLEAN,
             Alloc(p, np, thread)
      PROVE  ForksConsistent'
  BY <1>3, AdoptForks DEF Alloc, At, Goto, MayCall, Adopts
<1>4. ASSUME NEW p \in Slot, NEW q \in Slot, Kill(p, q)
      PROVE  ForksConsistent'
  BY <1>4 DEF Kill, At, MayCall, tree, calls
<1>5. ASSUME NEW p \in Slot, KillZero(p)
      PROVE  ForksConsistent'
  BY <1>5 DEF KillZero, At, MayCall, sleeping, tree, calls
<1> QED
  BY <1>1, <1>2, <1>3, <1>4, <1>5 DEF Next

(***************************************************************************)
(* No step puts a zombie before a parent that sleeps or is about to.       *)
(***************************************************************************)
LEMMA MissedStep ==
  TypeOK /\ PlacesConsistent /\ ForksConsistent /\ NoMissedExit /\ [Next]_vars => NoMissedExit'
<1> SUFFICES ASSUME TypeOK, PlacesConsistent, ForksConsistent, NoMissedExit, [Next]_vars
             PROVE  NoMissedExit'
  OBVIOUS
<1> USE TableAssumption DEF TypeOK, State, Pc, Slot, Nobody, InitProc, PlacesConsistent, NoMissedExit, Committed, Zombies, Awaited, Children
<1>1. CASE UNCHANGED vars
  BY <1>1 DEF vars, sleeping, tree, calls
<1>2. ASSUME NEW p \in Slot,
             Step(p) \/ CallWait(p) \/ CallJoin(p) \/ Exit(p)
      PROVE  NoMissedExit'
  <2> USE DEF At, Goto, MayCall, sleeping, tree, calls
  <2>1. CASE Link(p)
    BY <2>1 DEF Link, ForksConsistent, Forking
  <2>2. CASE Start(p)
    BY <2>2 DEF Start, ForksConsistent, Forking
  <2>3. CASE Reap(p)
    BY <2>3 DEF Reap
  <2>4. CASE WaitBadAddress(p)
    BY <2>4 DEF WaitBadAddress
  <2>5. CASE WaitFails(p)
    BY <2>5 DEF WaitFails
  <2>6. CASE WaitPrepare(p)
    BY <2>6 DEF WaitPrepare
  <2>7. CASE Sleep(p)
    BY <2>7 DEF Sleep
  <2>8. CASE CallWait(p)
    BY <2>8 DEF CallWait
  <2>9. CASE CallJoin(p)
    BY <2>9 DEF CallJoin
  <2>10. CASE Exit(p)
    BY <2>10 DEF Exit, PassedOn
  <2> QED
    BY <1>2, <2>1, <2>2, <2>3, <2>4, <2>5, <2>6, <2>7, <2>8, <2>9, <2>10 DEF Step
<1>3. ASSUME NEW p \in Slot, NEW np \in Slot, NEW thread \in BOOLEAN,
             Alloc(p, np, thread)
      PROVE  NoMissedExit'
  BY <1>3 DEF Alloc, At, Goto, MayCall
<1>4. ASSUME NEW p \in Slot, NEW q \in Slot, Kill(p, q)
      PROVE  NoMissedExit'
  BY <1>4 DEF Kill, At, MayCall, tree, calls
<1>5. ASSUME NEW p \in Slot, KillZero(p)
      PROVE  NoMissedExit'
  BY <1>5 DEF KillZero, At, MayCall, sleeping, tree, calls
<1> QED
  BY <1>1, <1>2, <1>3, <1>4, <1>5 DEF Next

(***************************************************************************)
(* No step takes the living parent from a process that is not a thread.    *)
(***************************************************************************)
LEMMA ParentsStep ==
  TypeOK /\ PlacesConsistent /\ ForksConsistent /\ ProcessesHaveParents /\ [Next]_vars => ProcessesHaveParents'
<1> SUFFICES ASSUME TypeOK, PlacesConsistent, ForksConsistent, ProcessesHaveParents, [Next]_vars
             PROVE  ProcessesHaveParents'
  OBVIOUS
<1> USE TableAssumption DEF TypeOK, State, Pc, Slot, Nobody, InitProc, PlacesConsistent, ProcessesHaveParents, HasParent, Linked, Alive
<1>1. CASE UNCHANGED vars
  BY <1>1 DEF vars, sleeping, tree, calls
<1>2. ASSUME NEW p \in Slot,
             Step(p) \/ CallWait(p) \/ CallJoin(p) \/ Exit(p)
      PROVE  ProcessesHaveParents'
  <2> USE DEF At, Goto, MayCall, sleeping, tree, calls
  <2>1. CASE Link(p)
    BY <2>1 DEF Link, ForksConsistent, Forking
  <2>2. CASE Start(p)
    BY <2>2 DEF Start, ForksConsistent, Forking
  <2>3. CASE Reap(p)
    BY <2>3 DEF Reap, Zombies, Awaited, Children
  <2>4. CASE WaitBadAddress(p)
    BY <2>4 DEF WaitBadAddress
  <2>5. CASE WaitFails(p)
    BY <2>5 DEF WaitFails
  <2>6. CASE WaitPrepare(p)
    BY <2>6 DEF WaitPrepare
  <2>7. CASE Sleep(p)
    BY <2>7 DEF Sleep
  <2>8. CASE CallWait(p)
    BY <2>8 DEF CallWait
  <2>9. CASE CallJoin(p)
    BY <2>9 DEF CallJoin
  <2>10. CASE Exit(p)
    BY <2>10 DEF Exit, PassedOn, Children
  <2> QED
    BY <1>2, <2>1, <2>2, <2>3, <2>4, <2>5, <2>6, <2>7, <2>8, <2>9, <2>10 DEF Step
<1>3. ASSUME NEW p \in Slot, NEW np \in Slot, NEW thread \in BOOLEAN,
             Alloc(p, np, thread)
      PROVE  ProcessesHaveParents'
  BY <1>3 DEF Alloc, At, Goto, MayCall
<1>4. ASSUME NEW p \in Slot, NEW q \in Slot, Kill(p, q)
      PROVE  ProcessesHaveParents'
  BY <1>4 DEF Kill, At, MayCall, tree, calls
<1>5. ASSUME NEW p \in Slot, KillZero(p)
      PROVE  ProcessesHaveParents'
  BY <1>5 DEF KillZero, At, MayCall, sleeping, tree, calls
<1> QED
  BY <1>1, <1>2, <1>3, <1>4, <1>5 DEF Next

(***************************************************************************)
(* IInv is inductive.                                                      *)
(***************************************************************************)
LEMMA TableInit == Init => IInv
BY TableAssumption
DEF Init, IInv, TypeOK, State, Pc, Slot, InitProc, Nobody, PlacesConsistent,
    ForksConsistent, Forking, Alive, NoMissedExit, Committed,
    ProcessesHaveParents, Linked

\* Every step of Assignment 7 keeps the invariant.
LEMMA TableStep == IInv /\ [Next]_vars => IInv'
BY TypeStep, PlacesStep, ForksStep, MissedStep, ParentsStep DEF IInv

\* In both kernels fork, clone, exit, wait, join and kill keep the process table
\* well formed: types, places, forks under way, parents, and no missed exit.
THEOREM InductiveInvariant == SafeSpec => []IInv
BY TableInit, TableStep, PTL DEF SafeSpec

(***************************************************************************)
(* The variables of the process table keep their types, and a free entry   *)
(* is clean (freeproc() of proc.c).                                        *)
(***************************************************************************)
THEOREM TypeCorrect == SafeSpec => []TypeOK
<1>1. IInv => TypeOK
  BY DEF IInv
<1> QED
  BY <1>1, InductiveInvariant, PTL

(***************************************************************************)
(* No parent sleeps in wait() or join() while there is a zombie for it,    *)
(* with any number of processes and threads that exit at the same time     *)
(* (kwait, kjoin and kexit of proc.c).                                     *)
(***************************************************************************)
THEOREM NoExitMissed == SafeSpec => []NoMissedExit
<1>1. IInv => NoMissedExit
  BY DEF IInv
<1> QED
  BY <1>1, InductiveInvariant, PTL

(***************************************************************************)
(* Whoever is not a thread has a living parent that forked it, or init     *)
(* (reparent() of proc.c).                                                 *)
(***************************************************************************)
THEOREM ParentsCorrect == SafeSpec => []ProcessesHaveParents
<1>1. IInv => ProcessesHaveParents
  BY DEF IInv
<1> QED
  BY <1>1, InductiveInvariant, PTL

(***************************************************************************)
(* No process of the Assignment 7 kernel is born killed, whatever kill(0)  *)
(* has left in the table (allocproc() of proc.c).                          *)
(***************************************************************************)
THEOREM NobodyBornKilledCorrect == SafeSpec => NobodyBornKilled
<1>1. IInv /\ [Next]_vars => [BornAlive]_vars
  <2> SUFFICES ASSUME IInv, Next
               PROVE  BornAlive
    BY DEF BornAlive, vars, sleeping
  <2> USE TableAssumption DEF IInv, TypeOK, State, Slot, BornAlive, tree, sleeping, calls
  <2>1. ASSUME NEW p \in Slot, Step(p) \/ CallWait(p) \/ CallJoin(p) \/ Exit(p) \/ KillZero(p)
        PROVE  BornAlive
    <3>1. CASE Link(p) \/ Start(p)
      BY <3>1 DEF Link, Start
    <3>2. CASE Reap(p)
      BY <3>2 DEF Reap
    <3>3. CASE WaitBadAddress(p) \/ WaitFails(p) \/ WaitPrepare(p) \/ Sleep(p)
      BY <3>3 DEF WaitBadAddress, WaitFails, WaitPrepare, Sleep
    <3>4. CASE CallWait(p) \/ CallJoin(p) \/ KillZero(p)
      BY <3>4 DEF CallWait, CallJoin, KillZero
    <3>5. CASE Exit(p)
      BY <3>5 DEF Exit
    <3> QED
      BY <2>1, <3>1, <3>2, <3>3, <3>4, <3>5 DEF Step
  <2>2. ASSUME NEW p \in Slot, NEW np \in Slot, NEW thread \in BOOLEAN, Alloc(p, np, thread)
        PROVE  BornAlive
    BY <2>2 DEF Alloc
  <2>3. ASSUME NEW p \in Slot, NEW q \in Slot, Kill(p, q)
        PROVE  BornAlive
    BY <2>3 DEF Kill
  <2> QED
    BY <2>1, <2>2, <2>3 DEF Next
<1> QED
  BY <1>1, InductiveInvariant, PTL DEF SafeSpec, NobodyBornKilled

-------------------------------------------------------------------------------
(***************************************************************************)
(* The Assignment 4 kernel: a step is one of the other kernel's, or takes  *)
(* a free entry over as it is.                                             *)
(***************************************************************************)
LEMMA AllocStepA4 ==
  ASSUME IInv, NEW p \in Slot, NEW np \in Slot, AllocA4(p, np)
  PROVE  IInv'
<1> USE TableAssumption DEF IInv, TypeOK, State, Pc, Slot, Nobody, InitProc
<1> USE DEF AllocA4, At, Goto, MayCall, PlacesConsistent
<1>1. TypeOK'
  OBVIOUS
<1>2. PlacesConsistent'
  BY DEF Alive
<1>3. ForksConsistent'
  <2>1. Adopts(p, np)
    BY DEF Adopts
  <2> QED
    BY <2>1, AdoptForks DEF IInv
<1>4. NoMissedExit'
  BY DEF NoMissedExit, Committed, Zombies, Awaited, Children
<1>5. ProcessesHaveParents'
  BY DEF ProcessesHaveParents, HasParent, Linked, Alive, ForksConsistent, Forking
<1> QED
  BY <1>1, <1>2, <1>3, <1>4, <1>5

\* An entry whose memory could not be copied becomes unused again.
LEMMA ForkFailsStepA4 ==
  ASSUME IInv, NEW p \in Slot, NEW np \in Slot, ForkFailsA4(p, np)
  PROVE  IInv'
  BY DEF IInv, TypeOK, ForkFailsA4, sleeping, tree, calls, PlacesConsistent,
         ForksConsistent, Forking, NoMissedExit, Committed, Zombies, Awaited, Children,
         ProcessesHaveParents, HasParent, Linked, Alive

\* Every step of Assignment 4 keeps it, too.
LEMMA TableStepA4 == IInv /\ [NextA4]_vars => IInv'
<1> SUFFICES ASSUME IInv, [NextA4]_vars
             PROVE  IInv'
  OBVIOUS
<1>1. CASE [Next]_vars
  BY <1>1, TableStep
<1>2. ASSUME NEW p \in Slot, NEW q \in Slot, AllocA4(p, q) \/ ForkFailsA4(p, q)
      PROVE  IInv'
  BY <1>2, AllocStepA4, ForkFailsStepA4
<1>3. NextA4 => Next \/ \E p, q \in Slot : AllocA4(p, q) \/ ForkFailsA4(p, q)
  BY DEF NextA4, Next, Step, ForkA4, WaitA4, ExitA4, KillA4
<1> QED
  BY <1>1, <1>2, <1>3

(***************************************************************************)
(* In the Assignment 4 kernel, too, no exit is missed and every process    *)
(* has a living parent (kwait(), kexit() and reparent() of its proc.c).    *)
(***************************************************************************)
THEOREM NoExitMissedA4 == SafeSpecA4 => [](NoMissedExit /\ ProcessesHaveParents)
<1>1. IInv => NoMissedExit /\ ProcessesHaveParents
  BY DEF IInv
<1> QED
  BY <1>1, TableInit, TableStepA4, PTL DEF SafeSpecA4

-------------------------------------------------------------------------------
(*************************************************************************)
(* The timed sleep, and the composition.                                 *)
(*************************************************************************)

Place == {"user", "lock"} \cup Timed!Started

(***************************************************************************)
(* The inductive invariant of the timed sleep.                             *)
(***************************************************************************)
TimedTypes ==
  /\ ticks \in 0 .. WRAP - 1
  /\ tickslock \in 0 .. PAUSERS + 1
  /\ scan \in 0 .. PAUSERS + 1
  /\ asleep \in [Timed!Proc -> BOOLEAN]
  /\ waiting \in [Timed!Proc -> BOOLEAN]
  /\ doomed \in [Timed!Proc -> BOOLEAN]
  /\ place \in [Timed!Proc -> Place]
  /\ n \in [Timed!Proc -> 0 .. MaxTicks]
  /\ ticks0 \in [Timed!Proc -> 0 .. WRAP - 1]
  /\ elapsed \in [Timed!Proc -> Nat]

\* Who holds tickslock, and that the clock scans the table only with it.
TicksLocked ==
  /\ \A p \in Timed!Proc : place[p] \in {"test", "prepared"} <=> tickslock = p
  /\ tickslock = Timed!Clock <=> scan # 0

\* The unsigned difference that sys_pause tests is the number of ticks since
\* it started: fewer than WRAP of them can have passed.
CountsTicks ==
  \A p \in Timed!Proc :
    IF place[p] \in Timed!Started
      THEN elapsed[p] <= n[p] + MaxLate /\ elapsed[p] = (ticks - ticks0[p]) % WRAP
      ELSE elapsed[p] = 0

\* Has the clock, if it is inside wakeup(), come past entry p?
Passed(p) == tickslock # Timed!Clock \/ p < scan

\* Who sleeps can be woken.  Once the clock is past it, whoever's time is up
\* has been, or has lost the channel that would make it sleep.
NobodyLeftBehind ==
  \A p \in Timed!Proc :
    /\ asleep[p] => place[p] = "relock" /\ waiting[p]
    /\ place[p] = "prepared" => elapsed[p] < n[p]
    /\ place[p] \in {"sleep", "relock"} /\ elapsed[p] >= n[p] /\ Passed(p) =>
         ~asleep[p] /\ (place[p] = "sleep" => ~waiting[p])

TimedInv == TimedTypes /\ TicksLocked /\ CountsTicks /\ NobodyLeftBehind

-------------------------------------------------------------------------------
(***************************************************************************)
(* The difference of two counter values, and what one more tick does to it.*)
(***************************************************************************)
LEMMA Difference ==
  ASSUME NEW a \in 0 .. WRAP - 1, NEW b \in 0 .. WRAP - 1
  PROVE  (a - b) % WRAP = IF a >= b THEN a - b ELSE a - b + WRAP
BY PauseAssumption

\* The next value of a clock that wraps.
LEMMA OneMore ==
  ASSUME NEW a \in 0 .. WRAP - 1
  PROVE  (a + 1) % WRAP = IF a + 1 < WRAP THEN a + 1 ELSE 0
BY PauseAssumption

\* A tick adds one to the time since a start, unless it wraps.
LEMMA DifferenceGrows ==
  ASSUME NEW a \in 0 .. WRAP - 1, NEW b \in 0 .. WRAP - 1, ((a - b) % WRAP) + 1 < WRAP
  PROVE  /\ (a + 1) % WRAP \in 0 .. WRAP - 1
         /\ (((a + 1) % WRAP) - b) % WRAP = ((a - b) % WRAP) + 1
<1>1. PICK c \in 0 .. WRAP - 1 : c = (a + 1) % WRAP
  BY OneMore, PauseAssumption
<1>2. /\ (c - b) % WRAP = IF c >= b THEN c - b ELSE c - b + WRAP
      /\ (a - b) % WRAP = IF a >= b THEN a - b ELSE a - b + WRAP
      /\ c = IF a + 1 < WRAP THEN a + 1 ELSE 0
  BY <1>1, Difference, OneMore
<1>3. (c - b) % WRAP = ((a - b) % WRAP) + 1
  BY <1>2, PauseAssumption
<1> QED
  BY <1>1, <1>3

(***************************************************************************)
(* sys_pause: the test of its loop compares ticks that have passed.        *)
(***************************************************************************)
LEMMA TimeIsCounted ==
  ASSUME TimedTypes, CountsTicks, NEW p \in Timed!Proc, place[p] \in Timed!Started
  PROVE  Timed!TimeUp(p) <=> elapsed[p] >= n[p]
BY DEF TimedTypes, CountsTicks, Timed!TimeUp

(***************************************************************************)
(* A step of sys_pause keeps the invariant.                                *)
(***************************************************************************)
LEMMA PauseStep ==
  ASSUME TimedInv, NEW p \in Timed!Proc, Timed!Step(p)
  PROVE  TimedInv'
<1> USE PausersAssumption, PauseAssumption
    DEF TimedInv, TimedTypes, TicksLocked, NobodyLeftBehind, Passed,
        Place, Timed!Started, Timed!Proc, Timed!Clock, Timed!Free,
        Timed!At, Timed!Goto, Timed!Acquire, Timed!Release, Timed!Return
<1>1. place[p] \in Timed!Started => (Timed!TimeUp(p) <=> elapsed[p] >= n[p])
  BY TimeIsCounted
<1>2. CountsTicks'
  <2>1. CASE Timed!Start(p)
    <3>1. PICK a \in 0 .. WRAP - 1 : a = ticks
      OBVIOUS
    <3>2. (a - a) % WRAP = 0
      BY Difference
    <3>3. /\ place[p] = "lock" /\ place' = [place EXCEPT ![p] = "test"]
          /\ ticks0' = [ticks0 EXCEPT ![p] = a] /\ ticks' = a /\ UNCHANGED <<n, elapsed>>
      BY <2>1, <3>1 DEF Timed!Start
    <3>4. elapsed'[p] = 0 /\ ticks' - ticks0'[p] = a - a
      BY <3>3 DEF CountsTicks
    <3>5. elapsed'[p] <= n'[p] + MaxLate /\ elapsed'[p] = (ticks' - ticks0'[p]) % WRAP
      BY <3>2, <3>3, <3>4
    <3>6. ASSUME NEW q \in Timed!Proc, q # p
          PROVE  /\ place'[q] = place[q] /\ elapsed'[q] = elapsed[q] /\ n'[q] = n[q]
                 /\ ticks' = ticks /\ ticks0'[q] = ticks0[q]
      BY <3>1, <3>3, <3>6
    <3> QED
      <4>1. SUFFICES ASSUME NEW q \in Timed!Proc
                     PROVE  IF place'[q] \in Timed!Started
                              THEN /\ elapsed'[q] <= n'[q] + MaxLate
                                   /\ elapsed'[q] = (ticks' - ticks0'[q]) % WRAP
                              ELSE elapsed'[q] = 0
        BY ONLY <4>1 DEF CountsTicks
      <4>2. place'[p] \in Timed!Started
        BY <3>3
      <4>3. CASE q = p
        BY ONLY <4>2, <4>3, <3>5
      <4>4. CASE q # p
        <5>1. IF place[q] \in Timed!Started
                THEN elapsed[q] <= n[q] + MaxLate /\ elapsed[q] = (ticks - ticks0[q]) % WRAP
                ELSE elapsed[q] = 0
          BY ONLY TimedInv, q \in Timed!Proc DEF TimedInv, CountsTicks
        <5>2. /\ place'[q] = place[q] /\ elapsed'[q] = elapsed[q] /\ n'[q] = n[q]
              /\ ticks' = ticks /\ ticks0'[q] = ticks0[q]
          BY <3>6, <4>4
        <5> QED
          BY ONLY <5>1, <5>2
      <4> QED
        BY ONLY <4>3, <4>4
  <2>2. CASE Timed!Succeed(p)
    BY <2>2 DEF Timed!Succeed, CountsTicks
  <2>3. CASE Timed!GiveUp(p)
    BY <2>3 DEF Timed!GiveUp, CountsTicks
  <2>4. CASE Timed!Prepare(p)
    BY <2>4 DEF Timed!Prepare, CountsTicks
  <2>5. CASE Timed!Unlock(p)
    BY <2>5 DEF Timed!Unlock, CountsTicks
  <2>6. CASE Timed!Sleep(p)
    BY <2>6 DEF Timed!Sleep, CountsTicks
  <2>7. CASE Timed!Relock(p)
    BY <2>7 DEF Timed!Relock, CountsTicks
  <2> QED
    BY <2>1, <2>2, <2>3, <2>4, <2>5, <2>6, <2>7 DEF Timed!Step
<1>3. CASE Timed!Start(p)
  BY <1>2, <1>3 DEF Timed!Start
<1>4. CASE Timed!Succeed(p)
  BY <1>2, <1>4 DEF Timed!Succeed
<1>5. CASE Timed!GiveUp(p)
  BY <1>2, <1>5 DEF Timed!GiveUp
<1>6. CASE Timed!Prepare(p)
  BY SMTT(30), <1>1, <1>2, <1>6 DEF Timed!Prepare
<1>7. CASE Timed!Unlock(p)
  BY SMTT(30), <1>2, <1>7 DEF Timed!Unlock
<1>8. CASE Timed!Sleep(p)
  BY <1>2, <1>8 DEF Timed!Sleep
<1>9. CASE Timed!Relock(p)
  BY SMTT(30), <1>2, <1>9 DEF Timed!Relock
<1> QED
  BY <1>3, <1>4, <1>5, <1>6, <1>7, <1>8, <1>9 DEF Timed!Step

(***************************************************************************)
(* The clock keeps the invariant, and so do a call and a kill.             *)
(***************************************************************************)
LEMMA ClockStep ==
  ASSUME TimedInv, Timed!Tick \/ Timed!Wake \/ Timed!TickDone
  PROVE  TimedInv'
<1> USE PausersAssumption, PauseAssumption
    DEF TimedInv, TimedTypes, TicksLocked, NobodyLeftBehind, Passed,
        Place, Timed!Started, Timed!Proc, Timed!Clock, Timed!Free,
        Timed!Acquire, Timed!Release, Timed!callVars
<1>1. CASE Timed!Tick
  <2>1. ticks' \in 0 .. WRAP - 1
    BY <1>1, OneMore DEF Timed!Tick
  <2>2. CountsTicks'
    <3> SUFFICES ASSUME NEW p \in Timed!Proc
                 PROVE  IF place'[p] \in Timed!Started
                          THEN /\ elapsed'[p] <= n'[p] + MaxLate
                               /\ elapsed'[p] = (ticks' - ticks0'[p]) % WRAP
                          ELSE elapsed'[p] = 0
      BY DEF CountsTicks
    <3>1. CASE place[p] \in Timed!Started
      <4>1. PICK a \in 0 .. WRAP - 1, b \in 0 .. WRAP - 1 : a = ticks /\ b = ticks0[p]
        OBVIOUS
      <4>2. elapsed[p] = (a - b) % WRAP /\ elapsed[p] < n[p] + MaxLate
        BY <1>1, <3>1, <4>1 DEF Timed!Tick, CountsTicks
      <4>3. ((a - b) % WRAP) + 1 < WRAP
        BY <4>2
      <4>4. (((a + 1) % WRAP) - b) % WRAP = ((a - b) % WRAP) + 1
        BY <4>3, DifferenceGrows
      <4>5. /\ ticks' = (a + 1) % WRAP /\ UNCHANGED <<place, n, ticks0>>
            /\ elapsed'[p] = elapsed[p] + 1
        BY <1>1, <3>1, <4>1 DEF Timed!Tick
      <4>6. elapsed'[p] = (ticks' - ticks0'[p]) % WRAP
        BY <4>1, <4>2, <4>4, <4>5
      <4> QED
        BY <3>1, <4>2, <4>5, <4>6
    <3>2. CASE place[p] \notin Timed!Started
      BY <1>1, <3>2 DEF Timed!Tick
    <3> QED
      BY <3>1, <3>2
  <2>3. TimedTypes'
    <3>1. elapsed' \in [Timed!Proc -> Nat]
      BY <1>1 DEF Timed!Tick
    <3>2. /\ tickslock' = PAUSERS + 1 /\ scan' = 1
          /\ UNCHANGED <<asleep, waiting, doomed, place, n, ticks0>>
      BY <1>1 DEF Timed!Tick
    <3> QED
      BY <2>1, <3>1, <3>2
  <2>4. TicksLocked'
    BY <1>1 DEF Timed!Tick
  <2>5. NobodyLeftBehind'
    BY <1>1 DEF Timed!Tick
  <2> QED
    BY <2>2, <2>3, <2>4, <2>5
<1>2. CASE Timed!Wake
  <2>1. scan \in Timed!Proc
    BY <1>2 DEF Timed!Wake
  <2>2. CountsTicks'
    BY <1>2 DEF Timed!Wake, CountsTicks
  <2>3. TimedTypes'
    BY <1>2, <2>1 DEF Timed!Wake
  <2>4. TicksLocked'
    BY <1>2 DEF Timed!Wake
  <2>5. NobodyLeftBehind'
    <3>1. PICK s \in Timed!Proc : s = scan
      BY <2>1
    <3>2. /\ waiting' = [waiting EXCEPT ![s] = FALSE]
          /\ asleep' = [asleep EXCEPT ![s] = @ /\ ~waiting[s]]
          /\ scan' = s + 1 /\ UNCHANGED <<tickslock, place, n, elapsed>>
      BY <1>2, <3>1 DEF Timed!Wake
    <3>3. ~waiting'[s] /\ ~asleep'[s]
      BY <3>2
    <3>4. ASSUME NEW q \in Timed!Proc, q # s
          PROVE  waiting'[q] = waiting[q] /\ asleep'[q] = asleep[q] /\ (q < s + 1 => q < s)
      BY <3>2, <3>4
    <3> QED
      BY <3>1, <3>2, <3>3, <3>4
  <2> QED
    BY <2>2, <2>3, <2>4, <2>5
<1>3. CASE Timed!TickDone
  BY <1>3 DEF Timed!TickDone, CountsTicks
<1> QED
  BY <1>1, <1>2, <1>3

\* kill() and a new pause().
LEMMA CallerStep ==
  ASSUME TimedInv, NEW p \in Timed!Proc,
         Timed!Kill(p) \/ \E k \in 0 .. MaxTicks : Timed!Pause(p, k)
  PROVE  TimedInv'
<1> USE PausersAssumption, PauseAssumption
    DEF TimedInv, TimedTypes, TicksLocked, CountsTicks, NobodyLeftBehind, Passed,
        Place, Timed!Started, Timed!Proc, Timed!Clock, Timed!Free,
        Timed!At, Timed!Goto, Timed!callVars
<1>1. CASE Timed!Kill(p)
  BY <1>1 DEF Timed!Kill
<1>2. ASSUME NEW k \in 0 .. MaxTicks, Timed!Pause(p, k)
      PROVE  TimedInv'
  BY <1>2 DEF Timed!Pause
<1> QED
  BY <1>1, <1>2

\* Every step of pause() and of the clock keeps their invariant.
LEMMA TimedInvariant == AnySpec => []TimedInv
<1>1. AnyInit => TimedInv
  BY PausersAssumption, PauseAssumption
  DEF AnyInit, Timed!Init, TimedInv, TimedTypes, TicksLocked, CountsTicks,
      NobodyLeftBehind, Passed, Place, Timed!Started, Timed!Proc, Timed!Clock, Timed!Free
<1>2. TimedInv /\ [AnyNext]_allVars => TimedInv'
  <2> SUFFICES ASSUME TimedInv, [AnyNext]_allVars
               PROVE  TimedInv'
    OBVIOUS
  <2>1. CASE UNCHANGED timedVars
    BY <2>1
    DEF timedVars, TimedInv, TimedTypes, TicksLocked, CountsTicks, NobodyLeftBehind,
        Passed, Timed!Clock
  <2>2. CASE Timed!Next
    BY <2>2, PauseStep, ClockStep, CallerStep DEF Timed!Next
  <2> QED
    BY <2>1, <2>2 DEF AnyNext, allVars
<1> QED
  BY <1>1, <1>2, PTL DEF AnySpec

-------------------------------------------------------------------------------
(***************************************************************************)
(* Whichever kernel the behaviour is of, no parent sleeps in wait() or     *)
(* join() while there is a zombie for it, and whoever is not a thread has  *)
(* a living parent (kwait, kjoin, kexit and reparent of proc.c).           *)
(***************************************************************************)
THEOREM TablesCorrect == AnySpec => []NoMissedExit /\ []ProcessesHaveParents
<1>1. IInv /\ UNCHANGED vars => IInv'
  BY TableStep
<1>2. IInv /\ [AnyNext]_allVars => IInv'
  BY <1>1, TableStep, TableStepA4 DEF AnyNext, allVars
<1>3. AnyInit => IInv
  BY TableInit DEF AnyInit
<1>4. IInv => NoMissedExit /\ ProcessesHaveParents
  BY DEF IInv
<1> QED
  BY <1>2, <1>3, <1>4, PTL DEF AnySpec

(***************************************************************************)
(* With any number of processes in sys_pause: once the clock has let go of *)
(* tickslock, nobody whose time is up is asleep or about to fall asleep    *)
(* (sys_pause() and clockintr()).                                          *)
(***************************************************************************)
THEOREM TicksNotMissed == AnySpec => []NoTickMissed
<1>1. TimedInv => NoTickMissed
  BY DEF TimedInv, NobodyLeftBehind, Passed, NoTickMissed, Timed!NoTickMissed
<1> QED
  BY <1>1, TimedInvariant, PTL

(***************************************************************************)
(* A pause that is not killed lasts at least the ticks it was asked for,   *)
(* wherever the counter wraps around: the unsigned subtraction of          *)
(* sys_pause is right.                                                     *)
(***************************************************************************)
THEOREM PausesLastLongEnough == AnySpec => NeverEarly
<1> DEFINE LongEnough(p) ==
      place[p] = "test" /\ place'[p] = "user" => elapsed[p] >= n[p] \/ doomed[p]
<1>1. TimedInv /\ [AnyNext]_allVars =>
        \/ \A p \in Timed!Proc : LongEnough(p)
        \/ UNCHANGED timedVars
  <2> SUFFICES ASSUME TimedInv, Timed!Next, NEW p \in Timed!Proc,
                      place[p] = "test", place'[p] = "user"
               PROVE  elapsed[p] >= n[p] \/ doomed[p]
    BY DEF AnyNext, allVars
  <2> USE DEF TimedInv, TimedTypes, Place, Timed!Started, Timed!Goto, Timed!At,
              Timed!Return, Timed!callVars
  <2>1. Timed!TimeUp(p) <=> elapsed[p] >= n[p]
    BY TimeIsCounted
  <2>2. CASE Timed!Tick \/ Timed!Wake \/ Timed!TickDone
    BY <2>2 DEF Timed!Tick, Timed!Wake, Timed!TickDone
  <2>3. ASSUME NEW q \in Timed!Proc, Timed!Succeed(q) \/ Timed!GiveUp(q)
        PROVE  elapsed[p] >= n[p] \/ doomed[p]
    BY <2>1, <2>3 DEF Timed!Succeed, Timed!GiveUp
  <2>4. ASSUME NEW q \in Timed!Proc,
               \/ Timed!Start(q) \/ Timed!Prepare(q) \/ Timed!Unlock(q)
               \/ Timed!Sleep(q) \/ Timed!Relock(q) \/ Timed!Kill(q)
               \/ \E k \in 0 .. MaxTicks : Timed!Pause(q, k)
        PROVE  FALSE
    BY <2>4 DEF Timed!Start, Timed!Prepare, Timed!Unlock, Timed!Sleep, Timed!Relock,
                Timed!Kill, Timed!Pause
  <2> QED
    BY <2>2, <2>3, <2>4 DEF Timed!Next, Timed!Step
<1>2. UNCHANGED timedVars => UNCHANGED Timed!vars
  BY DEF timedVars, Timed!vars, Timed!callVars
<1>3. TimedInv /\ [AnyNext]_allVars => [\A p \in Timed!Proc : LongEnough(p)]_(Timed!vars)
  BY <1>1, <1>2
<1> QED
  BY <1>3, TimedInvariant, PTL DEF AnySpec, NeverEarly, Timed!NeverEarly
===============================================================================
