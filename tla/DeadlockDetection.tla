--------------------------- MODULE DeadlockDetection ---------------------------
(***************************************************************************)
(* detect_deadlock of user/deadlock.c (Assignment 7): processes that hold  *)
(* something are finished one by one, as far as the work vector allows,    *)
(* and those that cannot be finished are reported.  One step is one        *)
(* process looked at by the inner loop.  The printing is left out.         *)
(***************************************************************************)
EXTENDS Integers, FiniteSetsExt, Functions

CONSTANTS n, m,              \* processes and kinds of resources of the call
          MaxUnits           \* bound: the largest entry of a table

Proc == 0 .. n - 1
Res == 0 .. m - 1
Vector == [Res -> 0 .. MaxUnits]

VARIABLES allocation, request, available,      \* the arguments
          work, finished,                      \* the local variables
          at, progress, verdict                \* the loops: next p, done yet

input == <<allocation, request, available>>
vars == <<input, work, finished, at, progress, verdict>>

Plus(v, w) == [r \in Res |-> v[r] + w[r]]

\* A mistake: it is enough that one kind of resource fits.
FitsSomewhere(p) == \E r \in Res : request[p][r] <= work[r]

Fits(p) == \A r \in Res : request[p][r] <= work[r]

\* Whoever holds nothing is finished from the start.
Init ==
  /\ allocation \in [Proc -> Vector] /\ request \in [Proc -> Vector]
  /\ available \in Vector
  /\ work = available
  /\ finished = {p \in Proc : \A r \in Res : allocation[p][r] = 0}
  /\ at = 0 /\ progress = FALSE /\ verdict = FALSE

Finish ==
  /\ ~verdict /\ at < n /\ at \notin finished /\ Fits(at)
  /\ work' = Plus(work, allocation[at])
  /\ finished' = finished \cup {at}
  /\ progress' = TRUE
  /\ at' = at + 1
  /\ UNCHANGED <<input, verdict>>

PassOver ==
  /\ ~verdict /\ at < n /\ (at \in finished \/ ~Fits(at))
  /\ at' = at + 1
  /\ UNCHANGED <<input, work, finished, progress, verdict>>

\* A mistake: the last pass is repeated for ever once somebody has finished.
EndPassNeverReset ==
  /\ ~verdict /\ at = n
  /\ at' = IF progress THEN 0 ELSE at
  /\ verdict' = ~progress
  /\ UNCHANGED <<input, work, finished, progress>>

\* Another pass, or the verdict when this one finished nobody.
EndPass ==
  /\ ~verdict /\ at = n
  /\ at' = IF progress THEN 0 ELSE at
  /\ verdict' = ~progress
  /\ progress' = FALSE
  /\ UNCHANGED <<input, work, finished>>

Next == Finish \/ PassOver \/ EndPass

-------------------------------------------------------------------------------
Holders == {p \in Proc : \E r \in Res : allocation[p][r] # 0}
HeldBy(S) ==
  [r \in Res |-> FoldFunctionOnSet(+, 0, [p \in Proc |-> allocation[p][r]], S)]

(***************************************************************************)
(* A set of holders is deadlocked when each of them lacks something even   *)
(* if everybody outside the set gives back all it has.  The union of two   *)
(* such sets is one, so there is a largest.                                *)
(***************************************************************************)
IsDeadlocked(D) ==
  \A p \in D : \E r \in Res :
    request[p][r] > available[r] + HeldBy(Proc \ D)[r]

Deadlocked == UNION {D \in SUBSET Holders : IsDeadlocked(D)}

(***************************************************************************)
(* The reported processes are exactly the deadlocked ones, and all units   *)
(* of the others are back in the work vector.                              *)
(***************************************************************************)
ReportsExactlyDeadlocked ==
  verdict => /\ Proc \ finished = Deadlocked
             /\ work = Plus(available, HeldBy(Proc \ Deadlocked))
===============================================================================
