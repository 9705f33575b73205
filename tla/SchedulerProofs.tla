---------------------------- MODULE SchedulerProofs ----------------------------
(***************************************************************************)
(* For process tables of any size and any machines: the safety properties  *)
(* of Schedulers.                                                          *)
(***************************************************************************)
EXTENDS Schedulers, TLAPS

(***************************************************************************)
(* The inductive invariant of Assignment 7.                                *)
(***************************************************************************)

\* A processor that searches has put its last process down, and what it is
\* about to claim is a process.
SearchesConsistent ==
  /\ \A c \in Cpu : cpc[c] \in {"top", "scan", "claim", "wfi"} => curproc[c] = None
  /\ \A c \in Cpu : cpc[c] = "claim" => best[c] # None

\* Entry p is more urgent than entry q in a search, or it is q.
Precedes(c, p, q) ==
  \/ priority[p] < priority[q]
  \/ priority[p] = priority[q] /\ Distance(c, p) <= Distance(c, q)

\* What a processor that is alone knows of the entries its search has passed:
\* nobody changes them behind its back.
SearchKnows(c) ==
  /\ best[c] # None => /\ state[best[c]] = "RUNNABLE"
                       /\ best_priority[c] = priority[best[c]]
                       /\ Distance(c, best[c]) < off[c]
  /\ best[c] = None => best_priority[c] = MAXPRIO + 1
  /\ \A q \in Proc : state[q] = "RUNNABLE" /\ Distance(c, q) < off[c] =>
                       best[c] # None /\ Precedes(c, best[c], q)

SearchesAlone ==
  \A c \in Cpu : Alone(c) =>
    /\ cpc[c] \in {"scan", "claim"} => SearchKnows(c)
    /\ cpc[c] = "claim" => off[c] = NPROC
    /\ cpc[c] = "wfi" => \A p \in Proc : state[p] # "RUNNABLE"

IInv == TypeOK /\ SearchesConsistent /\ RunsOnce /\ SearchesAlone

(***************************************************************************)
(* The inductive invariant of Assignment 4, and both.                      *)
(***************************************************************************)
TypesA4 ==
  /\ machine \in Machines
  /\ state \in [Proc -> {"BLOCKED", "RUNNABLE", "RUNNING"}]
  /\ cpc \in [Cpu -> {"top", "scan", "run", "wfi"}]
  /\ curproc \in [Cpu -> Proc \cup {None}]
  /\ off \in [Cpu -> 0 .. NPROC]
  /\ found \in [Cpu -> BOOLEAN]

\* A processor in a process has come to its entry, and will not be idle after it.
RoundsConsistent ==
  \A c \in Cpu : IF cpc[c] = "run" THEN curproc[c] = off[c] /\ found[c]
                                    ELSE curproc[c] = None

RoundsAlone ==
  \A c \in Cpu : Alone(c) =>
    /\ cpc[c] = "scan" /\ ~found[c] => \A p \in Proc : p < off[c] => state[p] # "RUNNABLE"
    /\ cpc[c] = "wfi" => \A p \in Proc : state[p] # "RUNNABLE"

IInvA4 == TypesA4 /\ RoundsConsistent /\ RunsOnce /\ RoundsAlone

AnyInv == /\ machine.kernel = "A7" => IInv
          /\ machine.kernel = "A4" => IInvA4

-------------------------------------------------------------------------------
\* The processors, entries and priorities of a machine are those there are.
LEMMA MachineFits ==
  machine \in Machines =>
    Online \subseteq Cpu /\ Used \subseteq Proc /\ Priorities \subseteq 1 .. MAXPRIO
  BY SchedulerAssumption DEF Online, Used, Priorities

\* The entry a search looks at, and the cursor it leaves, are in the table.
LEMMA ModuloInTable ==
  \A i \in Nat : i % NPROC \in Proc
  BY SchedulerAssumption DEF Proc

\* No entry stands for no process.
LEMMA NoneIsNoProc == None \notin Proc
  BY SchedulerAssumption DEF Proc, None

(***************************************************************************)
(* The types are kept by every step: in particular a promotion stops at    *)
(* priority 1 and wait_ticks stays below AGE.                              *)
(***************************************************************************)
LEMMA TypeStep == IInv /\ [Next]_vars => TypeOK'
<1> SUFFICES ASSUME IInv, [Next]_vars
             PROVE  TypeOK'
  OBVIOUS
<1>0. machine' = machine
  BY DEF Next, vars
<1> USE SchedulerAssumption, <1>0 DEF TypeOK, CpuPc
<1>1. CASE UNCHANGED vars
  BY <1>1 DEF IInv, vars, procVars, searchVars
<1>2. ASSUME NEW c \in Cpu, CpuStep(c)
      PROVE  TypeOK'
  <2> USE DEF IInv, Goto, procVars, searchVars
  <2>1. CASE Top(c)
    BY <2>1 DEF Top, StartAging, StartSearch
  <2>2. CASE Scan(c)
    <3>1. (cursor[c] + off[c]) % NPROC \in Proc
      <4>1. cursor[c] \in Proc /\ off[c] \in 0 .. NPROC
        OBVIOUS
      <4>2. cursor[c] + off[c] \in Nat
        BY <4>1 DEF Proc
      <4> QED
        BY <4>2, ModuloInTable
    <3>2. off'[c] \in 0 .. NPROC
      BY <2>2 DEF Scan
    <3> QED
      BY <2>2, <3>1, <3>2 DEF Scan
  <2>3. CASE ScanDone(c)
    BY <2>3 DEF ScanDone
  <2>4. CASE Claim(c)
    <3>1. best[c] \in Proc
      BY <2>4 DEF Claim, SearchesConsistent
    <3>2. (best[c] + 1) % NPROC \in Proc
      <4>1. best[c] + 1 \in Nat
        BY <3>1 DEF Proc
      <4> QED
        BY <4>1, ModuloInTable
    <3> QED
      BY <2>4, <3>1, <3>2 DEF Claim
  <2>5. CASE ClaimLost(c)
    BY <2>5 DEF ClaimLost
  <2>6. CASE WakeCpu(c)
    BY <2>6 DEF WakeCpu
  <2>7. CASE AgeOne(c)
    <3>1. off[c] \in Proc /\ off[c] + 1 \in 0 .. NPROC
      <4>1. off[c] \in 0 .. NPROC /\ off[c] < NPROC
        BY <2>7 DEF AgeOne
      <4> QED
        BY SMTT(30), <4>1 DEF Proc
    <3>2. priority' \in [Proc -> 1 .. MAXPRIO]
      BY <2>7, <3>1 DEF AgeOne
    <3>3. wait_ticks' \in [Proc -> 0 .. AGE - 1]
      BY <2>7, <3>1 DEF AgeOne
    <3> QED
      BY <2>7, <3>1, <3>2, <3>3 DEF AgeOne
  <2>8. CASE AgingDone(c)
    BY <2>8 DEF AgingDone, StartSearch, GiveUpCpu
  <2> QED
    BY <1>2, <2>1, <2>2, <2>3, <2>4, <2>5, <2>6, <2>7, <2>8 DEF CpuStep
<1>3. ASSUME NEW c \in Cpu, Timer(c) \/ Preempt(c) \/ Block(c)
      PROVE  TypeOK'
  <2> USE DEF IInv, Goto, procVars, searchVars
  <2>1. CASE Timer(c)
    BY <2>1 DEF Timer
  <2>2. CASE Preempt(c)
    BY <2>2 DEF Preempt, GiveUpCpu, StartAging
  <2>3. CASE Block(c)
    BY <2>3 DEF Block, GiveUpCpu
  <2> QED
    BY <1>3, <2>1, <2>2, <2>3
<1>4. ASSUME NEW c \in Cpu, NEW p \in Proc,
             Wake(c, p) \/ Fork(c, p)
               \/ \E prio \in Priorities : SetPriority(c, p, prio)
      PROVE  TypeOK'
  BY <1>4, MachineFits DEF IInv, Wake, Fork, SetPriority, searchVars
<1> QED
  BY <1>1, <1>2, <1>3, <1>4, MachineFits DEF IInv, Next

(***************************************************************************)
(* A processor leaves a process before it searches for another one.        *)
(***************************************************************************)
LEMMA SearchStep == IInv /\ [Next]_vars => SearchesConsistent'
<1> SUFFICES ASSUME IInv, [Next]_vars
             PROVE  SearchesConsistent'
  OBVIOUS
<1> USE DEF IInv, SearchesConsistent, TypeOK
<1>1. CASE UNCHANGED vars
  BY <1>1 DEF vars, procVars, searchVars
<1>2. ASSUME NEW c \in Cpu, CpuStep(c)
      PROVE  SearchesConsistent'
  <2> USE DEF Goto, procVars, searchVars
  <2>1. CASE Top(c)
    BY <2>1 DEF Top, StartAging, StartSearch
  <2>2. CASE Scan(c)
    BY <2>2 DEF Scan
  <2>3. CASE ScanDone(c)
    BY <2>3 DEF ScanDone
  <2>4. CASE Claim(c)
    BY <2>4 DEF Claim
  <2>5. CASE ClaimLost(c) \/ WakeCpu(c) \/ AgeOne(c)
    BY <2>5 DEF ClaimLost, WakeCpu, AgeOne
  <2>6. CASE AgingDone(c)
    BY <2>6 DEF AgingDone, StartSearch, GiveUpCpu
  <2> QED
    BY <1>2, <2>1, <2>2, <2>3, <2>4, <2>5, <2>6 DEF CpuStep
<1>3. ASSUME NEW c \in Cpu, Timer(c) \/ Preempt(c) \/ Block(c)
      PROVE  SearchesConsistent'
  BY <1>3 DEF Timer, Preempt, Block, GiveUpCpu, StartAging, Goto, procVars, searchVars
<1>4. ASSUME NEW c \in Cpu, NEW p \in Proc,
             Wake(c, p) \/ Fork(c, p)
               \/ \E prio \in Priorities : SetPriority(c, p, prio)
      PROVE  SearchesConsistent'
  BY <1>4 DEF Wake, Fork, SetPriority, searchVars
<1> QED
  BY <1>1, <1>2, <1>3, <1>4, MachineFits DEF Next

(***************************************************************************)
(* The claim looks at the state again under the lock, so it takes a        *)
(* process that nobody runs; GiveUpCpu puts down the only one it has.      *)
(***************************************************************************)
LEMMA RunsStep == IInv /\ [Next]_vars => RunsOnce'
<1> SUFFICES ASSUME IInv, [Next]_vars
             PROVE  RunsOnce'
  OBVIOUS
<1> USE DEF IInv, TypeOK, RunsOnce
<1>1. CASE UNCHANGED vars
  BY <1>1 DEF vars, procVars, searchVars
<1>2. ASSUME NEW c \in Cpu, NEW s \in {"RUNNABLE", "BLOCKED"}, curproc[c] # None,
             GiveUpCpu(c, s)
      PROVE  RunsOnce'
  <2>1. curproc[c] \in Proc
    BY <1>2
  <2>2. curproc' = [curproc EXCEPT ![c] = None]
    BY <1>2 DEF GiveUpCpu
  <2>3. state' = [state EXCEPT ![curproc[c]] = s]
    BY <1>2 DEF GiveUpCpu
  <2>4. \A d \in Cpu : cpc'[d] = "run" => curproc'[d] # None
    BY <1>2, <2>2 DEF GiveUpCpu, Goto
  <2>5. \A d, e \in Cpu : curproc'[d] = curproc'[e] /\ curproc'[d] # None => d = e
    BY <2>2
  <2>6. \A p \in Proc : state'[p] = "RUNNING" <=> \E d \in Cpu : curproc'[d] = p
    BY <1>2, <2>1, <2>2, <2>3, NoneIsNoProc
  <2> QED
    BY <2>4, <2>5, <2>6
<1>3. ASSUME NEW c \in Cpu, CpuStep(c)
      PROVE  RunsOnce'
  <2> USE DEF Goto, procVars, searchVars
  <2>1. CASE Top(c)
    BY <2>1 DEF Top, StartAging, StartSearch
  <2>2. CASE Scan(c) \/ AgeOne(c)
    BY <2>2 DEF Scan, AgeOne
  <2>3. CASE ScanDone(c)
    BY <2>3 DEF ScanDone
  <2>4. CASE Claim(c)
    <3>1. best[c] \in Proc /\ best[c] # None /\ state[best[c]] = "RUNNABLE"
      BY <2>4 DEF Claim, SearchesConsistent
    <3>2. \A d \in Cpu : curproc[d] # best[c]
      BY <3>1
    <3>3. curproc' = [curproc EXCEPT ![c] = best[c]]
      BY <2>4 DEF Claim
    <3>4. state' = [state EXCEPT ![best[c]] = "RUNNING"]
      BY <2>4 DEF Claim
    <3>5. curproc[c] = None
      BY <2>4 DEF Claim, SearchesConsistent
    <3>6. \A d \in Cpu : cpc'[d] = "run" => curproc'[d] # None
      BY <2>4, <3>1, <3>3 DEF Claim
    <3>7. \A d, e \in Cpu : curproc'[d] = curproc'[e] /\ curproc'[d] # None => d = e
      BY <3>2, <3>3
    <3>8. \A p \in Proc : state'[p] = "RUNNING" <=> \E d \in Cpu : curproc'[d] = p
      BY <3>1, <3>2, <3>3, <3>4, <3>5, NoneIsNoProc
    <3> QED
      BY <3>6, <3>7, <3>8
  <2>5. CASE ClaimLost(c) \/ WakeCpu(c)
    BY <2>5 DEF ClaimLost, WakeCpu
  <2>6. CASE AgingDone(c)
    BY <1>2, <2>6 DEF AgingDone, StartSearch
  <2> QED
    BY <1>3, <2>1, <2>2, <2>3, <2>4, <2>5, <2>6 DEF CpuStep
<1>4. ASSUME NEW c \in Cpu, Timer(c) \/ Preempt(c) \/ Block(c)
      PROVE  RunsOnce'
  BY <1>2, <1>4 DEF Timer, Preempt, Block, StartAging, Goto, procVars, searchVars
<1>5. ASSUME NEW c \in Cpu, NEW p \in Proc,
             Wake(c, p) \/ Fork(c, p)
               \/ \E prio \in Priorities : SetPriority(c, p, prio)
      PROVE  RunsOnce'
  BY <1>5 DEF Wake, Fork, SetPriority, searchVars
<1> QED
  BY <1>1, <1>3, <1>4, <1>5, MachineFits DEF Next

(***************************************************************************)
(* The entries of the table in the order of a search, from its cursor on.  *)
(***************************************************************************)
LEMMA RoundTheTable ==
  ASSUME NEW a \in Proc, NEW b \in Proc
  PROVE  /\ (a - b) % NPROC = IF a >= b THEN a - b ELSE a - b + NPROC
         /\ (a - b) % NPROC \in 0 .. NPROC - 1
BY SchedulerAssumption DEF Proc

\* Every distance from the cursor is that of one entry,
LEMMA EntryAtDistance ==
  ASSUME NEW a \in Proc, NEW k \in 0 .. NPROC - 1
  PROVE  (a + k) % NPROC \in Proc /\ (((a + k) % NPROC) - a) % NPROC = k
<1>1. (a + k) % NPROC = IF a + k < NPROC THEN a + k ELSE a + k - NPROC
  BY SchedulerAssumption DEF Proc
<1>2. PICK b \in Proc : b = (a + k) % NPROC
  BY SchedulerAssumption, <1>1 DEF Proc
<1>3. (b - a) % NPROC = IF b >= a THEN b - a ELSE b - a + NPROC
  BY RoundTheTable
<1> QED
  BY SchedulerAssumption, <1>1, <1>2, <1>3 DEF Proc

\* and of no other.
LEMMA DistancesDiffer ==
  ASSUME NEW a \in Proc, NEW b \in Proc, NEW d \in Proc,
         (a - d) % NPROC = (b - d) % NPROC
  PROVE  a = b
<1>1. /\ (a - d) % NPROC = IF a >= d THEN a - d ELSE a - d + NPROC
      /\ (b - d) % NPROC = IF b >= d THEN b - d ELSE b - d + NPROC
  BY RoundTheTable
<1> QED
  BY SchedulerAssumption, <1>1 DEF Proc

\* Every entry has its place in a search, below NPROC.
LEMMA DistanceBounded ==
  ASSUME TypeOK, NEW c \in Cpu, NEW p \in Proc
  PROVE  Distance(c, p) \in 0 .. NPROC - 1
<1>1. PICK a \in Proc : a = cursor[c]
  BY DEF TypeOK
<1>2. (p - a) % NPROC \in 0 .. NPROC - 1
  BY RoundTheTable
<1> QED
  BY <1>1, <1>2 DEF Distance

(***************************************************************************)
(* One entry of a search: it is passed, and the best of those passed is    *)
(* known as before.                                                        *)
(***************************************************************************)
LEMMA ScanKnows ==
  ASSUME TypeOK, NEW c \in Cpu, Scan(c), SearchKnows(c)
  PROVE  SearchKnows(c)'
<1> USE SchedulerAssumption
<1>1. PICK a \in Proc, k \in 0 .. NPROC - 1 : a = cursor[c] /\ k = off[c]
  BY DEF TypeOK, Scan
<1>2. PICK e : e = (a + k) % NPROC
  OBVIOUS
<1>3. PICK b \in Proc \cup {None} : b = best[c]
  BY DEF TypeOK
<1>4. e \in Proc /\ Distance(c, e) = k /\ e # None
  BY <1>1, <1>2, EntryAtDistance, NoneIsNoProc DEF Distance
<1>5. \A q \in Proc : Distance(c, q) = k => q = e
  BY <1>1, <1>4, DistancesDiffer DEF Distance
<1>6. /\ off[c] = k /\ off'[c] = k + 1 /\ UNCHANGED <<state, priority, cursor>>
      /\ best_priority[c] \in 1 .. MAXPRIO + 1 /\ priority \in [Proc -> 1 .. MAXPRIO]
  BY <1>1 DEF Scan, procVars, TypeOK
<1>7. \A q \in Proc : Distance(c, q)' = Distance(c, q) /\ Distance(c, q) \in Nat
  BY <1>6, DistanceBounded DEF Distance
<1>8. \A q \in Proc : Distance(c, q) < k + 1 => Distance(c, q) < k \/ q = e
  BY <1>5, <1>7
<1>9. \A p, q \in Proc : Precedes(c, p, q)' <=> Precedes(c, p, q)
  BY <1>6, <1>7 DEF Precedes
<1>10. /\ b # None => state[b] = "RUNNABLE" /\ best_priority[c] = priority[b]
                       /\ Distance(c, b) < k
       /\ b = None => best_priority[c] = MAXPRIO + 1
       /\ \A q \in Proc : state[q] = "RUNNABLE" /\ Distance(c, q) < k =>
                            b # None /\ Precedes(c, b, q)
  BY <1>3, <1>6 DEF SearchKnows
<1>11. CASE state[e] = "RUNNABLE" /\ priority[e] < best_priority[c]
  <2>1. best'[c] = e /\ best_priority'[c] = priority[e]
    BY <1>1, <1>2, <1>11 DEF Scan, TypeOK
  <2>2. ASSUME NEW q \in Proc, state[q] = "RUNNABLE", Distance(c, q) < k + 1
        PROVE  Precedes(c, e, q)
    <3>1. CASE q = e
      BY <1>4, <1>7, <3>1 DEF Precedes
    <3>2. CASE Distance(c, q) < k
      BY <1>3, <1>4, <1>6, <1>10, <1>11, <2>2, <3>2 DEF Precedes
    <3> QED
      BY <1>8, <2>2, <3>1, <3>2
  <2> QED
    BY <1>4, <1>6, <1>7, <1>9, <1>11, <2>1, <2>2 DEF SearchKnows
<1>12. CASE ~(state[e] = "RUNNABLE" /\ priority[e] < best_priority[c])
  <2>1. best'[c] = b /\ best_priority'[c] = best_priority[c]
    BY <1>1, <1>2, <1>3, <1>12 DEF Scan
  <2>2. ASSUME NEW q \in Proc, state[q] = "RUNNABLE", Distance(c, q) < k + 1
        PROVE  b # None /\ Precedes(c, b, q)
    <3>1. CASE q = e
      <4>1. best_priority[c] <= priority[e]
        BY <1>4, <1>6, <1>12, <2>2, <3>1
      <4>2. b # None
        BY <1>4, <1>6, <1>10, <4>1
      <4> QED
        BY <1>3, <1>4, <1>6, <1>7, <1>10, <3>1, <4>1, <4>2 DEF Precedes
    <3>2. CASE Distance(c, q) < k
      BY <1>10, <2>2, <3>2
    <3> QED
      BY <1>8, <2>2, <3>1, <3>2
  <2>3. b # None => Distance(c, b)' < k + 1
    BY <1>3, <1>6, <1>7, <1>10
  <2> QED
    BY <1>3, <1>6, <1>7, <1>9, <1>10, <2>1, <2>2, <2>3 DEF SearchKnows
<1> QED
  BY <1>11, <1>12

\* A new search knows nothing yet.
LEMMA NewSearchKnows ==
  ASSUME TypeOK, TypeOK', NEW c \in Cpu, StartSearch(c)
  PROVE  SearchKnows(c)'
<1>1. best'[c] = None /\ best_priority'[c] = MAXPRIO + 1 /\ off'[c] = 0
  BY DEF StartSearch, TypeOK
<1>2. \A q \in Proc : ~(Distance(c, q)' < off'[c])
  <2>1. cursor' = cursor
    BY DEF StartSearch
  <2>2. \A q \in Proc : Distance(c, q)' = Distance(c, q)
    BY <2>1 DEF Distance
  <2> QED
    BY <1>1, <2>2, DistanceBounded
<1> QED
  BY <1>1, <1>2 DEF SearchKnows

(***************************************************************************)
(* On one processor nothing happens between two entries of a search, or    *)
(* between the search and the claim.                                       *)
(***************************************************************************)
LEMMA AloneStep == IInv /\ TypeOK' /\ [Next]_vars => SearchesAlone'
<1> DEFINE Known(c) ==
      /\ cpc[c] \in {"scan", "claim"} => SearchKnows(c)
      /\ cpc[c] = "claim" => off[c] = NPROC
      /\ cpc[c] = "wfi" => \A p \in Proc : state[p] # "RUNNABLE"
<1> SUFFICES ASSUME IInv, TypeOK', [Next]_vars, NEW c \in Cpu, Alone(c)'
             PROVE  Known(c)'
  BY DEF SearchesAlone
<1>1. Alone(c) /\ Known(c)
  BY DEF Next, vars, Alone, Online, IInv, SearchesAlone
<1>2. CASE UNCHANGED vars
  BY <1>1, <1>2 DEF vars, procVars, searchVars, SearchKnows, Precedes, Distance
<1>3. CASE Next
  <2>1. \/ CpuStep(c) \/ Timer(c) \/ Preempt(c) \/ Block(c)
        \/ \E p \in Used : \/ Wake(c, p) \/ Fork(c, p)
                           \/ \E prio \in Priorities : SetPriority(c, p, prio)
    BY <1>1, <1>3 DEF Next, Alone
  <2> USE DEF IInv, TypeOK, CpuPc, Goto
  <2>2. CASE Top(c)
    BY <2>2, NewSearchKnows DEF Top, StartAging, StartSearch
  <2>3. CASE Scan(c)
    <3>1. SearchKnows(c)'
      BY <1>1, <2>3, ScanKnows DEF Scan
    <3> QED
      BY <2>3, <3>1 DEF Scan
  <2>4. CASE ScanDone(c)
    <3>1. SearchKnows(c) /\ off[c] = NPROC
      BY <1>1, <2>4 DEF ScanDone
    <3>2. UNCHANGED <<state, priority, off, best, best_priority, cursor>>
      BY <2>4 DEF ScanDone, procVars, searchVars
    <3>3. SearchKnows(c)' /\ off'[c] = NPROC
      BY <3>1, <3>2 DEF SearchKnows, Precedes, Distance
    <3>4. best[c] = None => \A p \in Proc : state[p] # "RUNNABLE"
      BY <3>1, DistanceBounded DEF SearchKnows
    <3> QED
      BY <2>4, <3>2, <3>3, <3>4 DEF ScanDone
  <2>5. CASE ClaimLost(c)
    BY <1>1, <2>5 DEF ClaimLost, SearchKnows, SearchesConsistent
  <2>6. CASE Claim(c) \/ WakeCpu(c) \/ AgeOne(c)
    BY <2>6 DEF Claim, WakeCpu, AgeOne
  <2>7. CASE AgingDone(c)
    BY <2>7, NewSearchKnows DEF AgingDone, StartSearch, GiveUpCpu
  <2>8. CASE Timer(c)
    BY <1>1, <2>8 DEF Timer, procVars, searchVars, SearchKnows, Precedes, Distance
  <2>9. CASE Preempt(c) \/ Block(c)
    BY <2>9 DEF Preempt, Block, GiveUpCpu, StartAging
  <2>10. ASSUME NEW p \in Used,
                Wake(c, p) \/ Fork(c, p)
                  \/ \E prio \in Priorities : SetPriority(c, p, prio)
         PROVE  Known(c)'
    BY <2>10 DEF Wake, Fork, SetPriority
  <2> QED
    BY <2>1, <2>2, <2>3, <2>4, <2>5, <2>6, <2>7, <2>8, <2>9, <2>10 DEF CpuStep
<1> QED
  BY <1>2, <1>3

\* Every step of the priority scheduler keeps the invariant.
LEMMA StepA7 == IInv /\ [Next]_vars => IInv'
BY TypeStep, SearchStep, RunsStep, AloneStep DEF IInv

-------------------------------------------------------------------------------
(***************************************************************************)
(* Assignment 4: the loop tests and claims an entry under one lock.        *)
(***************************************************************************)
LEMMA SameMachine ==
  /\ Four!Proc = Proc /\ Four!Cpu = Cpu /\ Four!None = None
  /\ Four!Online = Online /\ Four!Used = Used
BY DEF Four!Proc, Proc, Four!Cpu, Cpu, Four!None, None, Four!Online, Online, Four!Used, Used

StepA4(c) ==
  \/ Four!CpuStep(c) \/ Four!Timer(c) \/ Four!Preempt(c) \/ Four!Block(c)
  \/ \E p \in Used : Four!Wake(c, p)

\* A step of round robin is one of a processor that is switched on.
LEMMA StepOfA4 == TypesA4 /\ Four!Next => \E c \in Online : c \in Cpu /\ StepA4(c)
<1> SUFFICES ASSUME TypesA4, Four!Next
             PROVE  \E c \in Online : c \in Cpu /\ StepA4(c)
  OBVIOUS
<1>1. Online \subseteq Cpu
  BY MachineFits DEF TypesA4
<1>2. \E c \in Online : StepA4(c)
  BY SameMachine DEF Four!Next, StepA4
<1> QED
  BY <1>1, <1>2

\* Round robin keeps its types and the bounds of a round.
LEMMA TypeStepA4 ==
  IInvA4 /\ Four!Next => TypesA4' /\ RoundsConsistent'
<1> SUFFICES ASSUME IInvA4, Four!Next
             PROVE  TypesA4' /\ RoundsConsistent'
  OBVIOUS
<1>1. PICK c \in Cpu : StepA4(c)
  BY StepOfA4 DEF IInvA4
<1>2. machine' = machine /\ Used \subseteq Proc
  BY MachineFits DEF Four!Next, IInvA4, TypesA4
<1> USE SchedulerAssumption, <1>2 DEF IInvA4, TypesA4, RoundsConsistent, Four!Goto
<1>3. CASE Four!Top(c)
  BY <1>3 DEF Four!Top
<1>4. CASE Four!Scan(c)
  <2>1. off[c] \in Proc /\ off[c] + 1 \in 0 .. NPROC
    BY <1>4 DEF Four!Scan, Proc
  <2>2. CASE state[off[c]] = "RUNNABLE"
    <3>1. /\ state' = [state EXCEPT ![off[c]] = "RUNNING"]
          /\ curproc' = [curproc EXCEPT ![c] = off[c]]
          /\ found' = [found EXCEPT ![c] = TRUE]
          /\ cpc' = [cpc EXCEPT ![c] = "run"] /\ off' = off
      BY <1>4, <2>2 DEF Four!Scan
    <3> QED
      BY <2>1, <3>1
  <2>3. CASE state[off[c]] # "RUNNABLE"
    BY <1>4, <2>1, <2>3 DEF Four!Scan
  <2> QED
    BY <2>2, <2>3
<1>5. CASE Four!ScanDone(c) \/ Four!WakeCpu(c)
  BY <1>5 DEF Four!ScanDone, Four!WakeCpu
<1>6. ASSUME NEW s \in {"RUNNABLE", "BLOCKED"}, cpc[c] = "run", Four!SwitchBack(c, s)
      PROVE  TypesA4' /\ RoundsConsistent'
  <2>1. curproc[c] \in Proc /\ curproc[c] = off[c] /\ off[c] + 1 \in 0 .. NPROC
    BY <1>6, NoneIsNoProc DEF Proc, None
  <2>2. /\ state' = [state EXCEPT ![curproc[c]] = s]
        /\ curproc' = [curproc EXCEPT ![c] = None]
        /\ off' = [off EXCEPT ![c] = @ + 1]
        /\ cpc' = [cpc EXCEPT ![c] = "scan"] /\ found' = found
    BY <1>6, SameMachine DEF Four!SwitchBack
  <2> QED
    BY <2>1, <2>2
<1>7. CASE Four!Timer(c) \/ Four!Preempt(c) \/ Four!Block(c)
  BY <1>6, <1>7 DEF Four!Timer, Four!Preempt, Four!Block
<1>8. ASSUME NEW p \in Used, Four!Wake(c, p)
      PROVE  TypesA4' /\ RoundsConsistent'
  BY <1>8 DEF Four!Wake
<1> QED
  BY <1>1, <1>3, <1>4, <1>5, <1>7, <1>8 DEF Four!CpuStep, StepA4

\* No process runs on two processors under round robin.
LEMMA RunsStepA4 == IInvA4 /\ Four!Next => RunsOnce'
<1> SUFFICES ASSUME IInvA4, Four!Next
             PROVE  RunsOnce'
  OBVIOUS
<1>1. PICK c \in Cpu : StepA4(c)
  BY StepOfA4 DEF IInvA4
<1> USE DEF IInvA4, TypesA4, RoundsConsistent, RunsOnce, Four!Goto
<1>2. CASE Four!Top(c) \/ Four!ScanDone(c) \/ Four!WakeCpu(c) \/ Four!Timer(c)
  BY <1>2 DEF Four!Top, Four!ScanDone, Four!WakeCpu, Four!Timer
<1>3. CASE Four!Scan(c)
  <2>1. PICK p \in Proc : p = off[c]
    BY <1>3, SchedulerAssumption DEF Four!Scan, Proc
  <2>2. CASE state[p] = "RUNNABLE"
    <3>1. /\ state' = [state EXCEPT ![p] = "RUNNING"] /\ curproc' = [curproc EXCEPT ![c] = p]
          /\ cpc' = [cpc EXCEPT ![c] = "run"] /\ curproc[c] = None
      BY <1>3, <2>1, <2>2 DEF Four!Scan
    <3>2. \A d \in Cpu : curproc[d] # p
      BY <2>2
    <3> QED
      BY <3>1, <3>2, NoneIsNoProc
  <2>3. CASE state[p] # "RUNNABLE"
    BY <1>3, <2>1, <2>3 DEF Four!Scan
  <2> QED
    BY <2>2, <2>3
<1>4. ASSUME NEW s \in {"RUNNABLE", "BLOCKED"}, cpc[c] = "run", Four!SwitchBack(c, s)
      PROVE  RunsOnce'
  <2>1. PICK p \in Proc : p = curproc[c]
    BY <1>4
  <2>2. /\ state' = [state EXCEPT ![p] = s] /\ curproc' = [curproc EXCEPT ![c] = None]
        /\ cpc' = [cpc EXCEPT ![c] = "scan"]
    BY <1>4, <2>1, SameMachine DEF Four!SwitchBack
  <2> QED
    BY <1>4, <2>1, <2>2, NoneIsNoProc
<1>5. CASE Four!Preempt(c) \/ Four!Block(c)
  BY <1>4, <1>5 DEF Four!Preempt, Four!Block
<1>6. ASSUME NEW p \in Used, Four!Wake(c, p)
      PROVE  RunsOnce'
  BY <1>6, MachineFits DEF Four!Wake
<1> QED
  BY <1>1, <1>2, <1>3, <1>5, <1>6 DEF Four!CpuStep, StepA4

\* On one processor nobody becomes RUNNABLE behind the loop, unless the loop
\* has run somebody in this round.
LEMMA AloneStepA4 == IInvA4 /\ TypesA4' /\ Four!Next => RoundsAlone'
<1> DEFINE Known(c) ==
      /\ cpc[c] = "scan" /\ ~found[c] => \A p \in Proc : p < off[c] => state[p] # "RUNNABLE"
      /\ cpc[c] = "wfi" => \A p \in Proc : state[p] # "RUNNABLE"
<1> SUFFICES ASSUME IInvA4, TypesA4', Four!Next, NEW c \in Cpu, Alone(c)'
             PROVE  Known(c)'
  BY DEF RoundsAlone
<1>1. Alone(c) /\ Known(c)
  BY DEF Four!Next, Alone, Online, IInvA4, RoundsAlone
<1>2. StepA4(c)
  BY <1>1, StepOfA4 DEF Alone, IInvA4
<1> USE SchedulerAssumption DEF IInvA4, TypesA4, RoundsConsistent, Four!Goto
<1>3. CASE Four!Top(c)
  BY <1>3 DEF Four!Top, Proc
<1>4. CASE Four!Scan(c)
  <2>1. PICK p \in Proc : p = off[c]
    BY <1>4 DEF Four!Scan, Proc
  <2>2. CASE state[p] = "RUNNABLE"
    BY <1>4, <2>1, <2>2 DEF Four!Scan
  <2>3. CASE state[p] # "RUNNABLE"
    <3>1. off'[c] = p + 1 /\ UNCHANGED <<state, cpc, found>> /\ cpc[c] = "scan"
      BY <1>4, <2>1, <2>3 DEF Four!Scan
    <3>2. \A q \in Proc : q < p + 1 => q < p \/ q = p
      BY DEF Proc
    <3> QED
      BY <1>1, <2>1, <2>3, <3>1, <3>2
  <2> QED
    BY <2>2, <2>3
<1>5. CASE Four!ScanDone(c)
  <2>1. \A q \in Proc : q < NPROC
    BY DEF Proc
  <2> QED
    BY <1>1, <1>5, <2>1 DEF Four!ScanDone
<1>6. CASE Four!WakeCpu(c)
  BY <1>6 DEF Four!WakeCpu
<1>7. CASE Four!Timer(c)
  BY <1>1, <1>7 DEF Four!Timer
<1>8. CASE Four!Preempt(c) \/ Four!Block(c)
  BY <1>8 DEF Four!Preempt, Four!Block, Four!SwitchBack
<1>9. ASSUME NEW p \in Used, Four!Wake(c, p)
      PROVE  Known(c)'
  BY <1>9 DEF Four!Wake
<1> QED
  BY <1>2, <1>3, <1>4, <1>5, <1>6, <1>7, <1>8, <1>9 DEF Four!CpuStep, StepA4

-------------------------------------------------------------------------------
(***************************************************************************)
(* The invariant of a machine's kernel holds initially and is kept by every*)
(* step.                                                                   *)
(***************************************************************************)
LEMMA AnyInvInit == AnyInit => AnyInv
<1> SUFFICES ASSUME AnyInit
             PROVE  IInv /\ IInvA4
  BY DEF AnyInv
<1> USE SchedulerAssumption DEF AnyInit, Init, Four!Init
<1>1. Priorities \subseteq 1 .. MAXPRIO
  BY MachineFits
<1>2. TypeOK /\ TypesA4
  <2>1. 0 \in Proc /\ 0 \in 0 .. NPROC /\ MAXPRIO + 1 \in 1 .. MAXPRIO + 1 /\ 0 \in 0 .. AGE - 1
    BY DEF Proc
  <2>2. priority \in [Proc -> 1 .. MAXPRIO]
    <3>1. priority \in [Proc -> Priorities \cup {DEFPRIO}]
      OBVIOUS
    <3>2. Priorities \cup {DEFPRIO} \subseteq 1 .. MAXPRIO
      BY ONLY <1>1, SchedulerAssumption DEF SchedulerAssumption
    <3> QED
      BY ONLY <3>1, <3>2
  <2> QED
    BY <2>1, <2>2 DEF TypeOK, TypesA4, CpuPc
<1>3. RunsOnce
  BY NoneIsNoProc DEF RunsOnce
<1>4. \A c \in Cpu : cpc[c] = "top" /\ curproc[c] = None
  OBVIOUS
<1> QED
  BY <1>2, <1>3, <1>4
  DEF IInv, IInvA4, SearchesConsistent, SearchesAlone, RoundsConsistent, RoundsAlone

\* Every step of either kernel keeps the invariant of its own.
LEMMA AnyInvStep == AnyInv /\ [AnyNext]_allVars => AnyInv'
<1> SUFFICES ASSUME AnyInv, [AnyNext]_allVars
             PROVE  AnyInv'
  OBVIOUS
<1>1. CASE UNCHANGED allVars
  <2>1. IInv => IInv'
    BY <1>1, StepA7 DEF allVars
  <2>2. IInvA4 => IInvA4'
    BY <1>1
    DEF allVars, vars, procVars, searchVars, IInvA4, TypesA4, RoundsConsistent, RunsOnce,
        RoundsAlone, Alone, Online
  <2> QED
    BY <1>1, <2>1, <2>2 DEF AnyInv, allVars, vars
<1>2. CASE machine.kernel = "A7" /\ Next
  BY <1>2, StepA7 DEF AnyInv, Next
<1>3. CASE machine.kernel = "A4" /\ Four!Next
  BY <1>3, TypeStepA4, RunsStepA4, AloneStepA4 DEF AnyInv, IInvA4, Four!Next
<1> QED
  BY <1>1, <1>2, <1>3 DEF AnyNext

\* Both schedulers, on any machine: the types, that a process runs on one
\* processor only, and what a search or a round knows of the entries it has passed.
THEOREM InductiveInvariant == SafeSpec => []AnyInv
BY AnyInvInit, AnyInvStep, PTL DEF SafeSpec

\* A machine has one of the two kernels, and keeps it.
LEMMA OneKernel == SafeSpec => [](machine.kernel \in {"A7", "A4"})
<1>1. AnyInit => machine.kernel \in {"A7", "A4"}
  BY SchedulerAssumption DEF AnyInit, Init
<1>2. machine.kernel \in {"A7", "A4"} /\ [AnyNext]_allVars => (machine.kernel \in {"A7", "A4"})'
  BY DEF AnyNext, allVars, vars, Next, Four!Next
<1> QED
  BY <1>1, <1>2, PTL DEF SafeSpec

(***************************************************************************)
(* In both kernels no process runs on two processors, and RUNNING means    *)
(* that one of them has it (scheduler() and sched(), proc.c).              *)
(***************************************************************************)
THEOREM RunsOnceCorrect == SafeSpec => []RunsOnce
<1>1. AnyInv /\ machine.kernel \in {"A7", "A4"} => RunsOnce
  BY DEF AnyInv, IInv, IInvA4
<1> QED
  BY <1>1, InductiveInvariant, OneKernel, PTL

(***************************************************************************)
(* A processor that is alone waits for an interrupt only while there is    *)
(* nothing to run, in both kernels ("nothing to run; stop running on this  *)
(* core until an interrupt", proc.c:671).                                  *)
(***************************************************************************)
THEOREM IdleCorrect == SafeSpec => []IdleOnlyWithoutWork
<1>1. AnyInv /\ machine.kernel \in {"A7", "A4"} => IdleOnlyWithoutWork
  BY DEF AnyInv, IInv, IInvA4, SearchesAlone, RoundsAlone, IdleOnlyWithoutWork
<1> QED
  BY <1>1, InductiveInvariant, OneKernel, PTL

(***************************************************************************)
(* On one processor the scheduler of Assignment 7 runs the most urgent     *)
(* process, and among equals the first after the one that ran last         *)
(* (REPORT.md:45, 48), with any number of processes and priorities.        *)
(***************************************************************************)
THEOREM ClaimsCorrect == SafeSpec => ClaimsMostUrgent
<1>1. AnyInv /\ [AnyNext]_allVars => [machine.kernel = "A7" => ClaimsMostUrgentNow]_allVars
  <2> SUFFICES ASSUME IInv, Next, NEW c \in Cpu, NEW p \in Proc,
                      Alone(c), curproc[c] = None, curproc'[c] = p,
                      NEW q \in Proc \ {p}, state[q] = "RUNNABLE"
               PROVE  \/ priority[p] < priority[q]
                      \/ priority[p] = priority[q] /\ Distance(c, p) < Distance(c, q)
    BY DEF AnyInv, AnyNext, ClaimsMostUrgentNow
  <2>1. curproc'[c] # curproc[c]
    BY NoneIsNoProc
  <2>2. Claim(c)
    <3> USE DEF IInv, TypeOK
    <3>1. \/ CpuStep(c) \/ Timer(c) \/ Preempt(c) \/ Block(c)
          \/ \E r \in Used : \/ Wake(c, r) \/ Fork(c, r)
                             \/ \E prio \in Priorities : SetPriority(c, r, prio)
      BY DEF Next, Alone
    <3>2. ~(Timer(c) \/ Preempt(c) \/ Block(c))
      BY <2>1 DEF Timer, Preempt, Block, StartAging, GiveUpCpu, RunsOnce
    <3>3. \A r \in Used : ~(\/ Wake(c, r) \/ Fork(c, r)
                             \/ \E prio \in Priorities : SetPriority(c, r, prio))
      BY <2>1 DEF Wake, Fork, SetPriority
    <3>4. ~(\/ Top(c) \/ Scan(c) \/ ScanDone(c) \/ ClaimLost(c) \/ WakeCpu(c)
            \/ AgeOne(c) \/ AgingDone(c))
      BY <2>1 DEF Top, Scan, ScanDone, ClaimLost, WakeCpu, AgeOne, AgingDone
    <3> QED
      BY <3>1, <3>2, <3>3, <3>4 DEF CpuStep
  <2>3. p = best[c] /\ cpc[c] = "claim"
    BY <2>2 DEF Claim, IInv, TypeOK
  <2>4. SearchKnows(c) /\ off[c] = NPROC
    BY <2>3 DEF IInv, SearchesAlone
  <2>5. Distance(c, q) < off[c]
    BY <2>4, DistanceBounded, SchedulerAssumption DEF IInv
  <2>6. Precedes(c, p, q)
    BY <2>3, <2>4, <2>5 DEF SearchKnows
  <2>7. Distance(c, p) # Distance(c, q)
    BY DistancesDiffer DEF Distance, IInv, TypeOK
  <2>8. Distance(c, p) \in Nat /\ Distance(c, q) \in Nat
    BY DistanceBounded, SchedulerAssumption DEF IInv
  <2> QED
    BY <2>6, <2>7, <2>8 DEF Precedes
<1> QED
  BY <1>1, InductiveInvariant, PTL DEF SafeSpec, ClaimsMostUrgent
===============================================================================
