------------------------------ MODULE UserPrograms ------------------------------
(***************************************************************************)
(* The user programs that synchronise processes, one of which the shell    *)
(* starts:                                                                 *)
(*   peterson    Assignment 4, on a shared page (module Peterson)          *)
(*   prodcons    Assignment 4, and the buffer of synctest in Assignment 7  *)
(*   readwrite   Assignment 4                                              *)
(*   dining      Assignment 4        \                                     *)
(*   fixed       `resourceorder fixed', Assignment 6 Q3  | ResourceOrder   *)
(*   sync        syncdeadlock, Assignment 6 Q4           /                 *)
(* All but the first run on the abstract semaphores of CountingSemaphore,  *)
(* which the kernel implements.  The variables of a program that was not   *)
(* started keep the value they have here before it is.                     *)
(***************************************************************************)
EXTENDS Integers, FiniteSets

CONSTANTS Programs,          \* those the shell may start
          Process, Sem,      \* as numbered by the programs
          TURNS,             \* peterson: rounds of each process, 10 in the code
          BUF_SIZE, ITEMS,   \* prodcons and synctest: 5 and 20
          Reader, Writer,    \* readwrite: 3 and 2 processes
          ROUNDS,            \* readwrite: rounds of each, 2
          NUM_PHIL,          \* dining: 5
          CYCLES             \* dining and syncdeadlock: rounds of each, 5 and 3

ASSUME ProgramsAssumption ==
  /\ 0 .. 4 \cup 0 .. NUM_PHIL - 1 \cup Reader \cup Writer \subseteq Process
  /\ 0 .. 2 \cup 0 .. NUM_PHIL - 1 \subseteq Sem /\ Sem \subseteq Nat
  /\ BUF_SIZE \in Nat \ {0} /\ NUM_PHIL \in Nat \ {0, 1}
  /\ TURNS \in Nat /\ ITEMS \in Nat /\ ROUNDS \in Nat /\ CYCLES \in Nat
  /\ IsFiniteSet(Reader) /\ IsFiniteSet(Writer) /\ Reader \cap Writer = {}

VARIABLES program,                                           \* the one it started
          count, ready, waiting, doomed, pc,                 \* SemaphoreClient
          buf, in, out, produced, consumed, item,            \* BoundedBuffer
          shared_data, read_count, round, late,              \* ReadersWriters
          cycle,                                             \* ResourceOrder
          memory, buffer, temp, overtaken                    \* Peterson

bufferVars == <<buf, in, out, produced, consumed, item>>
dataVars == <<shared_data, read_count, late>>
pageVars == <<memory, buffer, temp, overtaken>>
semVars == <<count, ready, waiting, doomed>>
vars == <<program, semVars, pc, bufferVars, dataVars, round, cycle, pageVars>>

NoSem == -1
InitialValue == Nat

Turns == INSTANCE Peterson WITH ITERS <- TURNS, InOrder <- TRUE
Buffer == INSTANCE BoundedBuffer WITH ITERS <- ITEMS
Data == INSTANCE ReadersWriters

-------------------------------------------------------------------------------
(***************************************************************************)
(* Who needs what in the programs of ResourceOrder                         *)
(***************************************************************************)
Right(id) == (id + 1) % NUM_PHIL

\* A mistake: everybody picks up the left fork first.
DiningNeedsLeftFirst == [id \in 0 .. NUM_PHIL - 1 |-> <<id, Right(id)>>]

\* dining.c: the fork with the lower index first.
DiningNeeds == [id \in 0 .. NUM_PHIL - 1 |->
                  IF id < Right(id) THEN <<id, Right(id)>> ELSE <<Right(id), id>>]

DiningCapacity == [fork \in 0 .. NUM_PHIL - 1 |-> 1]

\* resourceorder.c, fixed_process: both take Lock1 first, once.
FixedNeeds == [id \in 0 .. 1 |-> <<1, 2>>]

FixedCapacity == [lock \in 1 .. 2 |-> 1]

\* syncdeadlock.c: Printer = 0, Scanner = 1, Disk = 2.
SyncNeeds ==
  [id \in 0 .. 4 |-> <<<<0, 1>>, <<0, 2>>, <<1, 2>>, <<0, 1>>, <<1, 2>>>>[id + 1]]

SyncCapacity == [r \in 0 .. 2 |-> IF r = 1 THEN 1 ELSE 2]

Needs == [dining |-> DiningNeeds, fixed |-> FixedNeeds, sync |-> SyncNeeds]
Capacity == [dining |-> DiningCapacity, fixed |-> FixedCapacity, sync |-> SyncCapacity]
Cycles == [dining |-> CYCLES, fixed |-> 1, sync |-> CYCLES]

Order == INSTANCE ResourceOrder
Ordered == {"dining", "fixed", "sync"}

-------------------------------------------------------------------------------
NoBuffer == /\ buf = [i \in 0 .. BUF_SIZE - 1 |-> 0]
            /\ in = 0 /\ out = 0 /\ produced = 0 /\ consumed = 0 /\ item = 0
NoData == shared_data = 0 /\ read_count = 0 /\ late = [w \in Writer |-> {}]
NoRounds == round = [p \in Process |-> 0]
NoCycles == cycle = [p \in Process |-> 0]
NoPage == /\ memory = [a \in Turns!Address |-> 0]
          /\ buffer = [i \in Turns!Id |-> <<>>]
          /\ temp = [i \in Turns!Id |-> 0]
          /\ overtaken = [i \in Turns!Id |-> 0]
NoSemaphores == /\ count = [s \in Sem |-> 0]
                /\ ready = [s \in Sem |-> FALSE]
                /\ waiting = [p \in Process |-> NoSem]
                /\ doomed = [p \in Process |-> FALSE]

Init ==
  /\ program \in Programs
  /\ \/ program = "peterson" /\ Turns!Init /\ NoSemaphores /\ NoBuffer /\ NoData /\ NoCycles
     \/ program = "prodcons" /\ Buffer!BufferInit /\ NoData /\ NoRounds /\ NoCycles /\ NoPage
     \/ program = "readwrite" /\ Data!RWInit /\ NoBuffer /\ NoCycles /\ NoPage
     \/ program \in Ordered /\ Order!OrderInit /\ NoBuffer /\ NoData /\ NoRounds /\ NoPage

\* One step of process p of the program that runs.
Run(p) ==
  \/ /\ program = "peterson" /\ p \in Turns!Id /\ Turns!Run(p)
     /\ UNCHANGED <<program, semVars, bufferVars, dataVars, cycle>>
  \/ /\ program = "prodcons" /\ Buffer!Run(p)
     /\ UNCHANGED <<program, dataVars, round, cycle, pageVars>>
  \/ /\ program = "readwrite" /\ Data!Run(p)
     /\ UNCHANGED <<program, bufferVars, cycle, pageVars>>
  \/ /\ program \in Ordered /\ Order!Run(p)
     /\ UNCHANGED <<program, bufferVars, dataVars, round, pageVars>>

\* A store of peterson reaches memory.
Commit(i) ==
  /\ program = "peterson" /\ Turns!Commit(i)
  /\ UNCHANGED <<program, semVars, bufferVars, dataVars, cycle>>

Next == (\E p \in Process : Run(p)) \/ (\E i \in Turns!Id : Commit(i))

(***************************************************************************)
(* Fairness: every process is scheduled, every store reaches memory, and   *)
(* the kernel serves a semaphore while some caller of it could be served   *)
(* (the promise Progress of CountingSemaphore, checked of both kernels).   *)
(* Which of several callers it serves is left open.                        *)
(***************************************************************************)
Fairness ==
  /\ \A p \in Process : WF_vars(waiting[p] = NoSem /\ Run(p))
  /\ \A s \in Sem : WF_vars(\E p \in Process : waiting[p] = s /\ Run(p))
  /\ \A i \in Turns!Id : WF_vars(Commit(i))

Spec == Init /\ [][Next]_vars /\ Fairness

-------------------------------------------------------------------------------
(***************************************************************************)
(* Critical sections exclude each other: those of Peterson's algorithm     *)
(* with its stores in program order ("strict mutual exclusion", Assignment *)
(* 4 README.md:14), those of the two sides of the circular buffer of       *)
(* prodcons.c and synctest.c, and a writer of readwrite.c and everybody    *)
(* else.                                                                   *)
(***************************************************************************)
MutualExclusion == /\ program = "peterson" => Turns!MutualExclusion
                   /\ program = "prodcons" => Buffer!BufferExclusive
                   /\ program = "readwrite" => Data!WritersAlone

(***************************************************************************)
(* Under Peterson's algorithm no increment is lost (peterson.c, the        *)
(* critical section).                                                      *)
(***************************************************************************)
CounterCorrect == program = "peterson" => Turns!CounterCorrect

(***************************************************************************)
(* Who is next is not passed by again and again: in peterson.c a process   *)
(* past its barrier is overtaken at most once, and in readwrite.c no       *)
(* reader gets in between a writer's passing of the turnstile and its      *)
(* write (Assignment 4 README.md:21).                                      *)
(***************************************************************************)
NotOvertaken == /\ program = "peterson" => Turns!OvertakenOnce
                /\ program = "readwrite" => Data!NotOvertaken

(***************************************************************************)
(* The circular buffer of prodcons.c and synctest.c is a first-in first-   *)
(* out channel that neither underflows nor overflows (Assignment 7         *)
(* REPORT.md:23).                                                          *)
(***************************************************************************)
ImplementsChannel == Buffer!ImplementsChannel

(***************************************************************************)
(* In the three programs that acquire resources in an order, no circular   *)
(* wait arises (dining.c, resourceorder.c, syncdeadlock.c).                *)
(***************************************************************************)
NoCircularWait == program \in Ordered => Order!NoCircularWait

(***************************************************************************)
(* Every program ends: nobody spins for ever, no writer and no worker is   *)
(* left behind, although the kernel may serve the callers of a semaphore   *)
(* in any order.                                                           *)
(***************************************************************************)
Completed == /\ program = "peterson" => Turns!Completed
             /\ program = "prodcons" => Buffer!Completed
             /\ program = "readwrite" => Data!Completed
             /\ program \in Ordered => Order!Completed

EveryoneFinishes == <>Completed
===============================================================================
