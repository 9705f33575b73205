------------------------------- MODULE Processes -------------------------------
(***************************************************************************)
(* The life of processes in both kernels, and their timed sleep:           *)
(*   A7      Lifecycle, the Assignment 7 kernel                            *)
(*   A4      LifecycleA4, the Assignment 4 kernel                          *)
(*   pause   Pause, which is the same code in both                         *)
(* A behaviour is of one of them; the others stay as they are at the boot. *)
(***************************************************************************)
EXTENDS LifecycleA4, PauseParameters

CONSTANT PAUSERS             \* entries of the process table of Pause

ASSUME PausersAssumption == PAUSERS \in Nat \ {0}

VARIABLES part,
          ticks, tickslock, scan, asleep, waiting, doomed, place,
          n, ticks0, elapsed                                 \* Pause

timedVars == <<ticks, tickslock, scan, asleep, waiting, doomed, place, n, ticks0, elapsed>>
allVars == <<part, vars, timedVars>>

Timed == INSTANCE Pause WITH NPROC <- PAUSERS, sleeping <- asleep, killed <- doomed, pc <- place

AnyInit == /\ part \in {"A7", "A4", "pause"}
           /\ Init
           /\ Timed!Init /\ (ticks = 0 \/ part = "pause")

AnyNext == \/ part = "A7" /\ Next /\ UNCHANGED <<part, timedVars>>
           \/ part = "A4" /\ NextA4 /\ UNCHANGED <<part, timedVars>>
           \/ part = "pause" /\ Timed!Next /\ UNCHANGED <<part, vars>>

(***************************************************************************)
(* Fairness: that of Lifecycle for both kernels, and that of Pause.        *)
(***************************************************************************)
InTable(A) == part # "pause" /\ A /\ UNCHANGED <<part, timedVars>>
InPause(A) == part = "pause" /\ A /\ UNCHANGED <<part, vars>>

AnyFairness ==
  /\ \A p \in Slot : /\ WF_allVars(InTable(Step(p)))
                     /\ WF_allVars(InTable(killed[p] /\ Exit(p)))
  /\ SF_allVars(InPause(Timed!Tick))
  /\ WF_allVars(InPause(Timed!Wake)) /\ WF_allVars(InPause(Timed!TickDone))
  /\ \A p \in Timed!Proc : /\ WF_allVars(InPause(Timed!Step(p)))
                           /\ SF_allVars(InPause(Timed!Start(p)))
                           /\ SF_allVars(InPause(Timed!Relock(p)))

AnySpec == AnyInit /\ [][AnyNext]_allVars /\ AnyFairness

-------------------------------------------------------------------------------
\* A sleep for a time: no tick is missed, and it neither ends early, wherever
\* ticks wraps around, nor lasts for ever (sys_pause() and clockintr()).
NoTickMissed == Timed!NoTickMissed
NeverEarly == Timed!NeverEarly
PauseEnds == Timed!PauseEnds

===============================================================================
