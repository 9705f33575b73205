-------------------------- MODULE CountingSemaphore --------------------------
(***************************************************************************)
(* What sem_init, sem_wait and sem_signal promise to a program: a set of   *)
(* counters that are never negative, a wait that ends by taking one unit,  *)
(* and only two other ways for a wait to end, an uninitialised semaphore   *)
(* and the death of the waiter.  There are no locks, no channels and no    *)
(* process states here; the module Semaphores implements this one with     *)
(* spinlocks, sleep and wakeup.                                            *)
(***************************************************************************)
EXTENDS Naturals

CONSTANTS Process,      \* the callers
          Sem,          \* the semaphore identifiers
          InitialValue, \* the values sem_init may set
          NoSem         \* "not waiting for any semaphore"

VARIABLES count,        \* [Sem -> Nat] units that can be taken
          ready,        \* [Sem -> BOOLEAN] sem_init has been called
          waiting,      \* [Process -> Sem \cup {NoSem}] the call in progress
          doomed        \* [Process -> BOOLEAN] killed, not yet replaced

semVars == <<count, ready, waiting, doomed>>

Init ==
  /\ count = [s \in Sem |-> 0]
  /\ ready = [s \in Sem |-> FALSE]
  /\ waiting = [p \in Process |-> NoSem]
  /\ doomed = [p \in Process |-> FALSE]

\* sem_init(s, v): at any time, for any reason.
Setup(s, v) ==
  /\ count' = [count EXCEPT ![s] = v]
  /\ ready' = [ready EXCEPT ![s] = TRUE]
  /\ UNCHANGED <<waiting, doomed>>

\* sem_signal(s) on an initialised semaphore.
Post(s) ==
  /\ ready[s]
  /\ count' = [count EXCEPT ![s] = @ + 1]
  /\ UNCHANGED <<ready, waiting, doomed>>

\* sem_wait(s) is called.
Arrive(p, s) ==
  /\ waiting[p] = NoSem
  /\ ~doomed[p]
  /\ waiting' = [waiting EXCEPT ![p] = s]
  /\ UNCHANGED <<count, ready, doomed>>

Leave(p) == waiting' = [waiting EXCEPT ![p] = NoSem]

\* sem_wait returns 0, having taken one unit.
Take(p, s) ==
  /\ waiting[p] = s
  /\ ready[s]
  /\ count[s] > 0
  /\ count' = [count EXCEPT ![s] = @ - 1]
  /\ Leave(p)
  /\ UNCHANGED <<ready, doomed>>

\* sem_wait returns -1 because nobody initialised the semaphore.
Refuse(p, s) ==
  /\ waiting[p] = s
  /\ ~ready[s]
  /\ Leave(p)
  /\ UNCHANGED <<count, ready, doomed>>

\* sem_wait returns -1 because the caller was killed.
GiveUp(p) ==
  /\ waiting[p] # NoSem
  /\ doomed[p]
  /\ Leave(p)
  /\ UNCHANGED <<count, ready, doomed>>

Doom(p) ==
  /\ doomed' = [doomed EXCEPT ![p] = TRUE]
  /\ UNCHANGED <<count, ready, waiting>>

\* A new process takes the place of one that died outside the calls.
Replace(p) ==
  /\ waiting[p] = NoSem
  /\ doomed' = [doomed EXCEPT ![p] = FALSE]
  /\ UNCHANGED <<count, ready, waiting>>

Next ==
  \/ \E s \in Sem : \/ \E v \in InitialValue : Setup(s, v)
                    \/ Post(s)
  \/ \E p \in Process : \/ \E s \in Sem : Arrive(p, s) \/ Take(p, s) \/ Refuse(p, s)
                        \/ GiveUp(p)
                        \/ Doom(p)
                        \/ Replace(p)

(***************************************************************************)
(* Progress: while some caller could be served, one is, again and again.   *)
(* This is weak fairness of Serve(s) with its enabling condition written   *)
(* out, so that it can also be checked under a refinement mapping.  Which  *)
(* caller is served is not promised: a semaphore may starve one of them.   *)
(***************************************************************************)
Serve(s) == \E p \in Process : Take(p, s) \/ Refuse(p, s)

Servable(s) ==
  /\ count[s] > 0 \/ ~ready[s]
  /\ \E p \in Process : waiting[p] = s

Progress == \A s \in Sem : []<>(~Servable(s)) \/ []<><<Serve(s)>>_semVars

SafeSpec == Init /\ [][Next]_semVars

Spec == SafeSpec /\ Progress
=============================================================================
