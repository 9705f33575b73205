----------------------------- MODULE ResourceOrder -----------------------------
(***************************************************************************)
(* Workers that need two resources at a time, each resource a semaphore    *)
(* with as many units as it has instances: the dining philosophers         *)
(* (Assignment 4, user/dining.c), the children of `resourceorder fixed'    *)
(* (Assignment 6, Q3) and the workers of syncdeadlock (Assignment 6, Q4).  *)
(* The three programs are one algorithm, and differ in who needs what.     *)
(***************************************************************************)
EXTENDS SemaphoreClient, Integers

CONSTANTS Cycles,            \* program |-> rounds of each worker
          Needs,             \* program |-> worker |-> <<first, second>>, as requested
          Capacity           \* program |-> resource |-> its number of instances

VARIABLES program,           \* the one that runs
          cycle              \* cycles completed

Worker == DOMAIN Needs[program]
Resource == DOMAIN Capacity[program]
First(w) == Needs[program][w][1]
Second(w) == Needs[program][w][2]

-------------------------------------------------------------------------------
OrderInit ==
  /\ ClientInit([s \in Sem |-> IF s \in Resource THEN Capacity[program][s] ELSE 0],
                [w \in Process |-> IF w \in Worker THEN "first" ELSE "absent"])
  /\ cycle = [w \in Process |-> 0]

RequestFirst(w) ==
  /\ cycle[w] < Cycles[program]
  /\ Down(w, "first", First(w), "second")
  /\ UNCHANGED cycle

RequestSecond(w) ==
  /\ Down(w, "second", Second(w), "work")
  /\ UNCHANGED cycle

\* The work, and after it the resource taken last is given back first.
ReleaseSecond(w) ==
  /\ Up(w, "work", Second(w), "release")
  /\ UNCHANGED cycle

ReleaseFirst(w) ==
  /\ Up(w, "release", First(w), "first")
  /\ cycle' = [cycle EXCEPT ![w] = @ + 1]

Run(w) ==
  /\ w \in Worker
  /\ RequestFirst(w) \/ RequestSecond(w) \/ ReleaseSecond(w) \/ ReleaseFirst(w)

-------------------------------------------------------------------------------
Holds(w, s) ==
  \/ s = First(w) /\ pc[w] \in {"second", "work", "release"}
  \/ s = Second(w) /\ pc[w] = "work"

(***************************************************************************)
(* No circular wait ("the circular wait condition is entirely broken",     *)
(* Assignment 4 README.md:24; "circular wait cannot form", Q4/expl.txt):   *)
(* no set of workers exists whose members all wait for a resource all of   *)
(* whose instances are held inside the set.                                *)
(***************************************************************************)
WaitsFor(w, s) == waiting[w] = s /\ count[s] = 0

NoCircularWait ==
  \A D \in (SUBSET Worker) \ {{}} :
    \E w \in D : \A s \in Resource : WaitsFor(w, s) => \E v \in Worker \ D : Holds(v, s)

\* Every worker has completed its cycles.
Completed == \A w \in Worker : cycle[w] = Cycles[program]
===============================================================================
