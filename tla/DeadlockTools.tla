------------------------------ MODULE DeadlockTools ------------------------------
(***************************************************************************)
(* The programs that compute something about deadlocks, one of which the   *)
(* shell starts:                                                           *)
(*   bankers   bankers.c (Assignment 6, Q1), module Banker                 *)
(*   detect    detect_deadlock of deadlock.c (Assignment 7)                *)
(*   graph     deadlockdetect.c (Assignment 6, Q2), module WaitForGraph    *)
(* They share nothing.  The first works on its own tables and is checked   *)
(* for every sequence of requests; the others are checked for every pair   *)
(* of small tables.  The variables of a program that was not started keep  *)
(* one value.                                                              *)
(***************************************************************************)
EXTENDS Integers, Sequences

CONSTANTS Tools,                                             \* those the shell may start
          NUM_PROCS, NUM_RES, Demand, Allocation, Available, \* Banker
          MaxRequest,
          n, m, MaxUnits,                                    \* DeadlockDetection
          NUM_TASKS, NUM_RSRC, MaxPending                    \* WaitForGraph

VARIABLES tool,                                              \* the one it started
          alloc_table, current_avail, trial,                 \* Banker
          allocation, request, available,                    \* DeadlockDetection
          work, finished, at, progress, verdict,
          owner, pending, visited, trace, cursor, root,      \* WaitForGraph
          deadlock_loop

bankVars == <<alloc_table, current_avail, trial>>
detectVars == <<allocation, request, available, work, finished, at, progress, verdict>>
graphVars == <<owner, pending, visited, trace, cursor, root, deadlock_loop>>
vars == <<tool, bankVars, detectVars, graphVars>>

\* The tables of bankers.c.
Rows(rows) ==
  [p \in 0 .. Len(rows) - 1 |-> [r \in 0 .. Len(rows[1]) - 1 |-> rows[p + 1][r + 1]]]

BankersDemand ==
  Rows(<<<<7, 5, 3>>, <<3, 2, 2>>, <<9, 0, 2>>, <<2, 2, 2>>, <<4, 3, 3>>>>)
BankersAllocation ==
  Rows(<<<<0, 1, 0>>, <<2, 0, 0>>, <<3, 0, 2>>, <<2, 1, 1>>, <<0, 0, 2>>>>)
BankersAvailable == Rows(<<<<3, 3, 2>>>>)[0]

Bank == INSTANCE Banker
Detect == INSTANCE DeadlockDetection
Graph == INSTANCE WaitForGraph

\* No process holds more than it will ever need, and there is no negative entry
\* in a table.
ASSUME ToolsAssumption ==
  /\ Tools \subseteq {"bankers", "detect", "graph"}
  /\ NUM_PROCS \in Nat /\ NUM_RES \in Nat /\ MaxRequest \in Nat
  /\ Demand \in [Bank!Proc -> [Bank!Res -> Nat]]
  /\ Allocation \in [Bank!Proc -> [Bank!Res -> Nat]]
  /\ Available \in [Bank!Res -> Nat]
  /\ \A p \in Bank!Proc : Bank!AtMost(Allocation[p], Demand[p])
  /\ n \in Nat /\ m \in Nat /\ MaxUnits \in Nat
  /\ NUM_TASKS \in Nat /\ NUM_RSRC \in Nat /\ MaxPending \in Nat

\* The banker starts in a state that its own algorithm finds safe.
ASSUME SafeStartAssumption == Bank!CheckSafeState(Allocation, Available)

-------------------------------------------------------------------------------
NoDetection ==
  /\ allocation = <<>> /\ request = <<>> /\ available = <<>>
  /\ work = <<>> /\ finished = {} /\ at = 0 /\ progress = FALSE /\ verdict = FALSE

NoGraph ==
  /\ owner = <<>> /\ pending = <<>> /\ visited = <<>>
  /\ trace = <<>> /\ cursor = <<>> /\ root = 0 /\ deadlock_loop = <<>>

Init ==
  /\ tool \in Tools
  /\ Bank!Init
  /\ \/ tool = "bankers" /\ NoDetection /\ NoGraph
     \/ tool = "detect" /\ Detect!Init /\ NoGraph
     \/ tool = "graph" /\ NoDetection /\ Graph!Init

RunBankers == tool = "bankers" /\ Bank!Next /\ UNCHANGED <<tool, detectVars, graphVars>>
RunDetect == tool = "detect" /\ Detect!Next /\ UNCHANGED <<tool, bankVars, graphVars>>
RunGraph == tool = "graph" /\ Graph!Next /\ UNCHANGED <<tool, bankVars, detectVars>>

Next == RunBankers \/ RunDetect \/ RunGraph

\* The two searches are ordinary sequential programs: they go on until they end.
\* Nobody has to make a request.
Spec == Init /\ [][Next]_vars /\ WF_vars(RunDetect) /\ WF_vars(RunGraph)

-------------------------------------------------------------------------------
(***************************************************************************)
(* The banker: trials and rollbacks keep the tables consistent, the state  *)
(* is safe between requests, the safety test is exact, and the algorithms  *)
(* of bankers.c and deadlock.c decide alike (see the module Banker).       *)
(***************************************************************************)
TablesConsistent == tool = "bankers" => Bank!TablesConsistent
AlwaysSafe == tool = "bankers" => Bank!AlwaysSafe
SafetyAlgorithmCorrect == tool = "bankers" => Bank!SafetyAlgorithmCorrect
DecisionsAgree == Bank!DecisionsAgree

(***************************************************************************)
(* The searches report what there is: detect_deadlock exactly the          *)
(* processes that are deadlocked, the search in the wait-for graph a       *)
(* deadlock exactly when there is a circular wait, and it prints one.      *)
(***************************************************************************)
VerdictsCorrect == /\ tool = "detect" => Detect!ReportsExactlyDeadlocked
                   /\ tool = "graph" => Graph!VerdictCorrect

(***************************************************************************)
(* Both searches end, for every pair of tables.                            *)
(***************************************************************************)
SearchesEnd == <>(/\ tool = "detect" => verdict
                  /\ tool = "graph" => Graph!Done)
===============================================================================
