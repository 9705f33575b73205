---------------------------- MODULE SemaphoreClient ----------------------------
(***************************************************************************)
(* What the user programs that synchronise with semaphores have in common: *)
(* processes that are each at one statement (pc) and call the semaphores   *)
(* of CountingSemaphore, which the kernel implements (module Semaphores).  *)
(* The programs call sem_init before they create their processes, never    *)
(* kill one, and use only semaphores they initialised.  Processes and      *)
(* semaphores are numbered as in the programs; a number that a program     *)
(* does not use is at the statement "absent", or has no units.             *)
(***************************************************************************)
EXTENDS CountingSemaphore

VARIABLE pc                  \* the statement each process is at

clientVars == <<semVars, pc>>

\* The semaphores as main() leaves them, and nobody in a call.
ClientInit(value, start) ==
  /\ count = value
  /\ ready = [s \in Sem |-> TRUE]
  /\ waiting = [p \in Process |-> NoSem]
  /\ doomed = [p \in Process |-> FALSE]
  /\ pc = start

Goto(p, l) == pc' = [pc EXCEPT ![p] = l]

\* The statement l of p, which touches no semaphore.
Local(p, l, next) == pc[p] = l /\ Goto(p, next) /\ UNCHANGED semVars

\* sem_down or sem_wait at l: the call begins, and later it ends with a unit.
Call(p, l, s) == pc[p] = l /\ Arrive(p, s) /\ UNCHANGED pc
Granted(p, l, s, next) == pc[p] = l /\ Take(p, s) /\ Goto(p, next)
Down(p, l, s, next) == Call(p, l, s) \/ Granted(p, l, s, next)

\* sem_up, sem_signal or sem_post at l.
Up(p, l, s, next) == pc[p] = l /\ Post(s) /\ Goto(p, next)
===============================================================================
