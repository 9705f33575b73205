------------------------------- MODULE Peterson -------------------------------
(***************************************************************************)
(* user/peterson.c of Assignment 4: Peterson's algorithm between a parent  *)
(* (0) and its child (1) on a page they share, around ITERS increments of  *)
(* a counter.                                                              *)
(*                                                                         *)
(* A store goes into the store buffer of its processor and reaches memory  *)
(* later; a processor sees its own stores at once.  __sync_synchronize()   *)
(* waits until the buffer is empty.  With InOrder the buffer is a queue    *)
(* (what QEMU gives on an x86 host); without it, stores to different       *)
(* addresses may leave in any order, as the RISC-V memory model allows     *)
(* where no fence separates them.  Loads happen in program order, which is *)
(* part of what RISC-V allows too.                                         *)
(***************************************************************************)
EXTENDS Integers, SequencesExt

CONSTANTS ITERS,             \* rounds of each process, 10 in the code
          InOrder            \* do stores reach memory in program order?

Id == {0, 1}
Other(i) == 1 - i

VARIABLES memory,            \* the shared page: flag0, flag1, turn, counter
          buffer,            \* stores on their way to memory, oldest first
          pc,                \* the statement each process is at
          round,             \* rounds completed
          temp,              \* the local copy of the counter
          overtaken          \* history: entries of the other while i waited

vars == <<memory, buffer, pc, round, temp, overtaken>>

Flag(i) == IF i = 0 THEN "flag0" ELSE "flag1"
Address == {"flag0", "flag1", "turn", "counter"}

Init ==
  /\ memory = [a \in Address |-> 0]
  /\ buffer = [i \in Id |-> <<>>]
  /\ pc = [i \in Id |-> "flag"]
  /\ round = [i \in Id |-> 0]
  /\ temp = [i \in Id |-> 0]
  /\ overtaken = [i \in Id |-> 0]

Goto(i, l) == pc' = [pc EXCEPT ![i] = l]

Store(i, a, v) == buffer' = [buffer EXCEPT ![i] = Append(@, [addr |-> a, val |-> v])]

\* The youngest of i's own stores to the address, or what memory has.
Load(i, a) ==
  LET own == {k \in DOMAIN buffer[i] : buffer[i][k].addr = a}
  IN IF own = {} THEN memory[a] ELSE buffer[i][Max(own)].val

\* A store leaves the buffer; stores to one address never pass each other.
Commit(i) ==
  \E k \in DOMAIN buffer[i] :
    /\ \A j \in 1 .. k - 1 : ~InOrder /\ buffer[i][j].addr # buffer[i][k].addr
    /\ memory' = [memory EXCEPT ![buffer[i][k].addr] = buffer[i][k].val]
    /\ buffer' = [buffer EXCEPT ![i] = RemoveAt(@, k)]
    /\ UNCHANGED <<pc, round, temp, overtaken>>

SetFlag(i) ==
  /\ pc[i] = "flag" /\ round[i] < ITERS
  /\ Store(i, Flag(i), 1)
  /\ Goto(i, "turn")
  /\ UNCHANGED <<memory, round, temp, overtaken>>

SetTurn(i) ==
  /\ pc[i] = "turn"
  /\ Store(i, "turn", Other(i))
  /\ Goto(i, "fence")
  /\ UNCHANGED <<memory, round, temp, overtaken>>

\* A mistake: no barrier before the loop.
NoFence(i) ==
  /\ pc[i] = "fence"
  /\ Goto(i, "spinflag")
  /\ overtaken' = [overtaken EXCEPT ![i] = 0]
  /\ UNCHANGED <<memory, buffer, round, temp>>

Fence(i) ==
  /\ pc[i] = "fence" /\ buffer[i] = <<>>
  /\ Goto(i, "spinflag")
  /\ overtaken' = [overtaken EXCEPT ![i] = 0]
  /\ UNCHANGED <<memory, buffer, round, temp>>

\* Entering the critical section, while the other may be past its fence.
Enter(i) ==
  /\ Goto(i, "load")
  /\ overtaken' = [overtaken EXCEPT ![Other(i)] =
                     IF pc[Other(i)] \in {"spinflag", "spinturn"} THEN @ + 1 ELSE @]

\* The two loads of the loop's condition.
SpinFlag(i) ==
  /\ pc[i] = "spinflag"
  /\ IF Load(i, Flag(Other(i))) = 1
       THEN Goto(i, "spinturn") /\ UNCHANGED overtaken
       ELSE Enter(i)
  /\ UNCHANGED <<memory, buffer, round, temp>>

SpinTurn(i) ==
  /\ pc[i] = "spinturn"
  /\ IF Load(i, "turn") = Other(i)
       THEN Goto(i, "spinflag") /\ UNCHANGED overtaken
       ELSE Enter(i)
  /\ UNCHANGED <<memory, buffer, round, temp>>

\* The critical section: a read, a pause, a write.
ReadCounter(i) ==
  /\ pc[i] = "load"
  /\ temp' = [temp EXCEPT ![i] = Load(i, "counter")]
  /\ Goto(i, "store")
  /\ UNCHANGED <<memory, buffer, round, overtaken>>

WriteCounter(i) ==
  /\ pc[i] = "store"
  /\ Store(i, "counter", temp[i] + 1)
  /\ Goto(i, "fence2")
  /\ UNCHANGED <<memory, round, temp, overtaken>>

Fence2(i) ==
  /\ pc[i] = "fence2" /\ buffer[i] = <<>>
  /\ Goto(i, "clear")
  /\ UNCHANGED <<memory, buffer, round, temp, overtaken>>

ClearFlag(i) ==
  /\ pc[i] = "clear"
  /\ Store(i, Flag(i), 0)
  /\ Goto(i, "flag")
  /\ round' = [round EXCEPT ![i] = @ + 1]
  /\ UNCHANGED <<memory, temp, overtaken>>

Run(i) ==
  \/ SetFlag(i) \/ SetTurn(i) \/ Fence(i) \/ SpinFlag(i) \/ SpinTurn(i)
  \/ ReadCounter(i) \/ WriteCounter(i) \/ Fence2(i) \/ ClearFlag(i)

Next == \E i \in Id : Run(i) \/ Commit(i)

SafeSpec == Init /\ [][Next]_vars

-------------------------------------------------------------------------------
InCS(i) == pc[i] \in {"load", "store", "fence2", "clear"}

(***************************************************************************)
(* "Strict mutual exclusion is enforced via busy-waiting" (README.md:14).  *)
(***************************************************************************)
MutualExclusion == ~(InCS(0) /\ InCS(1))

(***************************************************************************)
(* The counter is protected: every increment of a process that has left    *)
(* its critical section is in memory, none is lost, none comes from a      *)
(* stale copy.                                                             *)
(***************************************************************************)
Written(i) == round[i] + (IF pc[i] = "clear" THEN 1 ELSE 0)

CounterCorrect ==
  (\A i \in Id : pc[i] \notin {"store", "fence2"}) =>
    memory["counter"] = Written(0) + Written(1)

(***************************************************************************)
(* Bounded waiting: past its barrier, a process is overtaken at most once. *)
(***************************************************************************)
OvertakenOnce == \A i \in Id : overtaken[i] <= 1

\* Both processes have ended.
Completed == \A i \in Id : round[i] = ITERS
===============================================================================
