--------------------------- MODULE SchedulerParameters ---------------------------
(***************************************************************************)
(* The process table, the processors, and the machine a behaviour is of.   *)
(***************************************************************************)
EXTENDS Integers

CONSTANTS NPROC,             \* entries of the process table
          NCPU,              \* entries of the array cpus
          MAXPRIO,           \* 20 in the code, the least urgent priority
          DEFPRIO,           \* 10 in the code, the priority of a new process
          AGE,               \* 30 in the code, ticks before a promotion
          Machines           \* bound: the machines that are looked at

Proc == 0 .. NPROC - 1
Cpu == 0 .. NCPU - 1
None == -1                   \* a null process pointer

(***************************************************************************)
(* A machine has a kernel, the processors that run its scheduler (all that *)
(* qemu was told to have), the entries that processes ever come to, and    *)
(* the priorities that set_priority gives them.                            *)
(***************************************************************************)
ASSUME SchedulerAssumption ==
  /\ NPROC \in Nat \ {0} /\ NCPU \in Nat \ {0}
  /\ MAXPRIO \in Nat \ {0} /\ DEFPRIO \in 1 .. MAXPRIO
  /\ AGE \in Nat \ {0}
  /\ \A m \in Machines : /\ m.kernel \in {"A7", "A4"}
                         /\ m.online \subseteq Cpu /\ m.online # {}
                         /\ m.used \subseteq Proc
                         /\ m.priorities \subseteq 1 .. MAXPRIO

VARIABLE machine             \* one of Machines, throughout

Online == machine.online
Used == machine.used
Priorities == machine.priorities

\* One processor alone: c.
Alone(c) == Online = {c}

===============================================================================
