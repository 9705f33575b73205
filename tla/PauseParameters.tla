----------------------------- MODULE PauseParameters -----------------------------
(***************************************************************************)
(* The tick counter and the bounds of the module Pause.                    *)
(***************************************************************************)
EXTENDS Integers

CONSTANTS WRAP,
          MaxTicks,          \* bound: ticks a caller asks for
          MaxLate            \* bound: ticks a woken process may wait for the CPU

ASSUME PauseAssumption ==
  /\ MaxTicks \in Nat /\ MaxLate \in Nat
  /\ WRAP \in Nat /\ MaxTicks + MaxLate < WRAP

===============================================================================
