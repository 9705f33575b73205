-------------------------------- MODULE Banker --------------------------------
(***************************************************************************)
(* The banker's algorithm: bankers.c (Assignment 6, Q1) with its trial     *)
(* allocation and rollback on the program's own tables, and the variant of *)
(* deadlock.c (Assignment 7), which decides on copies of the tables.       *)
(* Processes and resources are numbered from 0 as in the code.             *)
(***************************************************************************)
EXTENDS Integers, SequencesExt, FiniteSetsExt

CONSTANTS NUM_PROCS, NUM_RES,
          Demand, Allocation, Available,   \* the tables the program starts with
          MaxRequest                       \* bound: units of a kind in a request

Proc == 0 .. NUM_PROCS - 1
Res == 0 .. NUM_RES - 1

VARIABLES alloc_table, current_avail,
          trial              \* the request whose units are taken on trial

vars == <<alloc_table, current_avail, trial>>

Plus(v, w) == [r \in Res |-> v[r] + w[r]]
Minus(v, w) == [r \in Res |-> v[r] - w[r]]
AtMost(v, w) == \A r \in Res : v[r] <= w[r]
Nothing == [r \in Res |-> 0]

NoTrial == [by |-> -1, units |-> Nothing]

\* build_need_matrix
Need(alloc, p) == Minus(Demand[p], alloc[p])

-------------------------------------------------------------------------------
(***************************************************************************)
(* The safety algorithm.  A pass runs over all processes in order and      *)
(* finishes those whose need fits into the work vector, which grows as it  *)
(* goes.  The passes end when all are done or when one finishes nobody;    *)
(* after that a further pass would change nothing, so NUM_PROCS passes     *)
(* compute what the loop computes.                                         *)
(***************************************************************************)

CanExecute(alloc, p, work) == AtMost(Need(alloc, p), work)

\* A mistake: a process that finishes is taken to return all it may ever hold.
PassReturnsDemand(alloc, s) ==
  FoldLeft(LAMBDA t, p :
             IF p \notin ToSet(t.order) /\ CanExecute(alloc, p, t.work)
               THEN [work |-> Plus(t.work, Demand[p]), order |-> Append(t.order, p)]
               ELSE t,
           s, [i \in 1 .. NUM_PROCS |-> i - 1])

Pass(alloc, s) ==
  FoldLeft(LAMBDA t, p :
             IF p \notin ToSet(t.order) /\ CanExecute(alloc, p, t.work)
               THEN [work |-> Plus(t.work, alloc[p]), order |-> Append(t.order, p)]
               ELSE t,
           s, [i \in 1 .. NUM_PROCS |-> i - 1])

SafeOrder(alloc, avail) ==
  LET after[k \in 0 .. NUM_PROCS] ==
        IF k = 0 THEN [work |-> avail, order |-> <<>>] ELSE Pass(alloc, after[k - 1])
  IN after[NUM_PROCS].order

CheckSafeState(alloc, avail) == Len(SafeOrder(alloc, avail)) = NUM_PROCS

\* A mistake: the hypothetical state keeps the whole pool.
BankerRequestWholePool(alloc, avail, p, units) ==
  /\ AtMost(units, Need(alloc, p)) /\ AtMost(units, avail)
  /\ CheckSafeState([alloc EXCEPT ![p] = Plus(@, units)], avail)

\* banker_request (deadlock.c): the answer, computed on copies of the tables.
BankerRequest(alloc, avail, p, units) ==
  /\ AtMost(units, Need(alloc, p)) /\ AtMost(units, avail)
  /\ CheckSafeState([alloc EXCEPT ![p] = Plus(@, units)], Minus(avail, units))

-------------------------------------------------------------------------------
Init ==
  /\ alloc_table = Allocation
  /\ current_avail = Available
  /\ trial = NoTrial

\* process_request: the two limits are checked, then the units are taken on trial.
Trial(p, units) ==
  /\ trial = NoTrial
  /\ AtMost(units, Need(alloc_table, p)) /\ AtMost(units, current_avail)
  /\ current_avail' = Minus(current_avail, units)
  /\ alloc_table' = [alloc_table EXCEPT ![p] = Plus(@, units)]
  /\ trial' = [by |-> p, units |-> units]

\* A mistake: the safety algorithm is not asked.
CommitUnchecked ==
  /\ trial # NoTrial
  /\ trial' = NoTrial
  /\ UNCHANGED <<alloc_table, current_avail>>

Commit ==
  /\ trial # NoTrial
  /\ CheckSafeState(alloc_table, current_avail)
  /\ trial' = NoTrial
  /\ UNCHANGED <<alloc_table, current_avail>>

\* A mistake: the units go back to the pool but stay with the process as well.
RollbackPoolOnly ==
  /\ trial # NoTrial
  /\ ~CheckSafeState(alloc_table, current_avail)
  /\ current_avail' = Plus(current_avail, trial.units)
  /\ trial' = NoTrial
  /\ UNCHANGED alloc_table

Rollback ==
  /\ trial # NoTrial
  /\ ~CheckSafeState(alloc_table, current_avail)
  /\ current_avail' = Plus(current_avail, trial.units)
  /\ alloc_table' = [alloc_table EXCEPT ![trial.by] = Minus(@, trial.units)]
  /\ trial' = NoTrial

Next ==
  \/ \E p \in Proc, units \in [Res -> 0 .. MaxRequest] : Trial(p, units)
  \/ Commit
  \/ Rollback

-------------------------------------------------------------------------------
(***************************************************************************)
(* The tables stay consistent: no unit is lost or invented, nobody gets    *)
(* more than it declared, and the pool does not run below zero.            *)
(***************************************************************************)
Held(alloc, S) ==
  [r \in Res |-> FoldFunctionOnSet(+, 0, [p \in Proc |-> alloc[p][r]], S)]

TablesConsistent ==
  /\ Plus(current_avail, Held(alloc_table, Proc))
       = Plus(Available, Held(Allocation, Proc))
  /\ AtMost(Nothing, current_avail)
  /\ \A p \in Proc : AtMost(alloc_table[p], Demand[p])

(***************************************************************************)
(* A state is unsafe when some processes cannot all finish: a set D each   *)
(* of whose members needs more than there is once everybody outside D has  *)
(* finished.  Between requests the state is never unsafe.                  *)
(***************************************************************************)
Unsafe ==
  \E D \in (SUBSET Proc) \ {{}} : \A p \in D :
    ~AtMost(Need(alloc_table, p), Plus(current_avail, Held(alloc_table, Proc \ D)))

AlwaysSafe == trial = NoTrial => ~Unsafe

(***************************************************************************)
(* The safety algorithm decides exactly that, in every state it is asked   *)
(* about, and the sequence it prints is one in which all can finish.       *)
(***************************************************************************)
SafetyAlgorithmCorrect ==
  LET order == SafeOrder(alloc_table, current_avail)
      before(k) == {order[j] : j \in 1 .. k - 1}
  IN /\ CheckSafeState(alloc_table, current_avail) <=> ~Unsafe
     /\ \A k \in DOMAIN order :
          /\ order[k] \notin before(k)
          /\ AtMost(Need(alloc_table, order[k]),
                    Plus(current_avail, Held(alloc_table, before(k))))

(***************************************************************************)
(* The two banker's algorithms agree: a trial allocation of Assignment 6   *)
(* is committed exactly when banker_request() of Assignment 7, asked about *)
(* the state before the trial, would have granted it; otherwise the tables *)
(* are as they were.                                                       *)
(***************************************************************************)
DecisionsAgree ==
  [][trial # NoTrial /\ trial' = NoTrial =>
       LET before == [alloc_table EXCEPT ![trial.by] = Minus(@, trial.units)]
           pool == Plus(current_avail, trial.units)
       IN IF BankerRequest(before, pool, trial.by, trial.units)
            THEN alloc_table' = alloc_table /\ current_avail' = current_avail
            ELSE alloc_table' = before /\ current_avail' = pool]_vars
===============================================================================
