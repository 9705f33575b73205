------------------------------ MODULE WaitForGraph ------------------------------
(***************************************************************************)
(* deadlockdetect.c (Assignment 6, Q2): a wait-for graph is built from the *)
(* allocation and request tables, and a three-colour depth-first search    *)
(* looks for a cycle in it.  Every resource has one instance.  The call    *)
(* stack is explicit: trace holds its nodes, cursor the loop variable of   *)
(* each activation, and one step is one step of the innermost activation   *)
(* to its next edge or to its return.  The printing is left out.           *)
(***************************************************************************)
EXTENDS Integers, SequencesExt, FiniteSetsExt

CONSTANTS NUM_TASKS, NUM_RSRC,
          MaxPending         \* bound: requests a task has pending

Task == 0 .. NUM_TASKS - 1
Rsrc == 0 .. NUM_RSRC - 1
NoTask == NUM_TASKS

VARIABLES owner,             \* the task with alloc_mat[t][r] = 1, or NoTask
          pending,           \* the resources with req_mat[t][r] = 1
          visited,           \* 0, 1 or 2
          trace, cursor,     \* the activations of detect_cycle_dfs
          root,              \* i of the loop over the components
          deadlock_loop      \* the cycle that was found, or <<>>

tables == <<owner, pending>>
vars == <<tables, visited, trace, cursor, root, deadlock_loop>>

\* construct_wait_graph.
adj_matrix == [t \in Task |-> {owner[r] : r \in pending[t]} \ {NoTask}]

Init ==
  /\ owner \in [Rsrc -> Task \cup {NoTask}]
  /\ pending \in [Task -> {S \in SUBSET Rsrc : Cardinality(S) <= MaxPending}]
  /\ visited = [t \in Task |-> 0]
  /\ trace = <<>> /\ cursor = <<>> /\ root = 0 /\ deadlock_loop = <<>>

Found == deadlock_loop # <<>>

\* The call detect_cycle_dfs(t, ...) at the level of the innermost activation.
Enter(t) ==
  /\ visited' = [visited EXCEPT ![t] = 1]
  /\ trace' = Append(trace, t)

\* evaluate_scenario: the next component, if it is not visited yet.
NextRoot ==
  /\ ~Found /\ trace = <<>> /\ root < NUM_TASKS
  /\ root' = root + 1
  /\ IF visited[root] = 0 THEN Enter(root) /\ cursor' = <<0>>
                          ELSE UNCHANGED <<visited, trace, cursor>>
  /\ UNCHANGED <<tables, deadlock_loop>>

\* The edges the innermost activation has not looked at yet.
Remaining == {v \in adj_matrix[Last(trace)] : v >= Last(cursor)}

Advance(v) == [cursor EXCEPT ![Len(cursor)] = v + 1]

\* The next edge leads to a white task, a black one or a grey one, or there is
\* no edge left.
Recurse ==
  /\ ~Found /\ trace # <<>> /\ Remaining # {}
  /\ LET v == Min(Remaining) IN
       /\ visited[v] = 0
       /\ Enter(v)
       /\ cursor' = Append(Advance(v), 0)
  /\ UNCHANGED <<tables, root, deadlock_loop>>

\* A mistake: the loop does not go on after a black task.
SkipWithoutAdvance ==
  /\ ~Found /\ trace # <<>> /\ Remaining # {}
  /\ visited[Min(Remaining)] = 2
  /\ UNCHANGED vars

Skip ==
  /\ ~Found /\ trace # <<>> /\ Remaining # {}
  /\ LET v == Min(Remaining) IN visited[v] = 2 /\ cursor' = Advance(v)
  /\ UNCHANGED <<tables, visited, trace, root, deadlock_loop>>

Report ==
  /\ ~Found /\ trace # <<>> /\ Remaining # {}
  /\ LET v == Min(Remaining)
         start == Min({k \in DOMAIN trace : trace[k] = v})
     IN visited[v] = 1 /\ deadlock_loop' = Append(SubSeq(trace, start, Len(trace)), v)
  /\ UNCHANGED <<tables, visited, trace, cursor, root>>

Return ==
  /\ ~Found /\ trace # <<>> /\ Remaining = {}
  /\ visited' = [visited EXCEPT ![Last(trace)] = 2]
  /\ trace' = Front(trace) /\ cursor' = Front(cursor)
  /\ UNCHANGED <<tables, root, deadlock_loop>>

Next == NextRoot \/ Recurse \/ Skip \/ Report \/ Return

-------------------------------------------------------------------------------
Done == Found \/ (trace = <<>> /\ root = NUM_TASKS)

(***************************************************************************)
(* Tasks are deadlocked when there is a set of them each of which waits    *)
(* for a resource that a member of the set holds.                          *)
(***************************************************************************)
CircularWait ==
  \E D \in (SUBSET Task) \ {{}} : \A t \in D : \E r \in pending[t] : owner[r] \in D

(***************************************************************************)
(* The verdict is right for every pair of tables, and the loop that is     *)
(* printed is a cycle: each task in it waits for the next, and it closes.  *)
(* It also fits into deadlock_loop, which has NUM_TASKS + 1 entries.       *)
(***************************************************************************)
LoopIsCycle ==
  /\ deadlock_loop[1] = Last(deadlock_loop)
  /\ Len(deadlock_loop) \in 2 .. NUM_TASKS + 1
  /\ \A k \in 1 .. Len(deadlock_loop) - 1 :
       \E r \in pending[deadlock_loop[k]] : owner[r] = deadlock_loop[k + 1]

VerdictCorrect ==
  /\ Done => (Found <=> CircularWait)
  /\ Found => LoopIsCycle
===============================================================================
