------------------------------ MODULE MCSchedulers ------------------------------
(***************************************************************************)
(* The machines Schedulers is checked on: Assignment 7 with one processor  *)
(* and three processes, and with two of each; Assignment 4 with two        *)
(* processors and three processes, and with one processor.                 *)
(***************************************************************************)
EXTENDS Schedulers

SomeMachines ==
  {[kernel |-> "A7", online |-> {0}, used |-> 0 .. 2, priorities |-> 1 .. 3],
   [kernel |-> "A7", online |-> 0 .. 1, used |-> 0 .. 1, priorities |-> 1 .. 2],
   [kernel |-> "A4", online |-> 0 .. 1, used |-> 0 .. 2, priorities |-> {}],
   [kernel |-> "A4", online |-> {0}, used |-> 0 .. 2, priorities |-> {}]}

===============================================================================
