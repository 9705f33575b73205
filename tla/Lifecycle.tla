------------------------------- MODULE Lifecycle -------------------------------
(***************************************************************************)
(* Processes and threads of the Assignment 7 kernel from fork() or clone() *)
(* to wait() or join(): allocproc, kfork, kclone, kexit with reparent,     *)
(* kwait, kjoin, kkill, freeproc, and the sleep and wakeup between a       *)
(* waiting parent and its dying children (proc.c).                         *)
(*                                                                         *)
(* Grain of atomicity.  A section under wait_lock is one step: it protects *)
(* every parent field, a process becomes a ZOMBIE and a zombie is freed    *)
(* only under it, and wakeup() is called on a process only under it.  Of   *)
(* the fields that others change without it, the scans of kwait and kjoin  *)
(* read killed once and the state of an entry once.                        *)
(* RUNNABLE stands for RUNNABLE and RUNNING: the module Scheduler tells    *)
(* them apart.  Process identifiers are left out: a process is its table   *)
(* entry, and the history variable stranger tells its successive owners    *)
(* apart.                                                                  *)
(***************************************************************************)
EXTENDS Integers

CONSTANT NPROC               \* entries of the process table

ASSUME TableAssumption == NPROC \in Nat \ {0}

Slot == 1 .. NPROC
InitProc == 1                \* initproc, which never exits
Nobody == 0                  \* the null pointer

VARIABLES state,             \* p->state
          parent,            \* p->parent
          isThread,          \* p->is_thread
          detached,          \* p->detached
          killed,            \* p->killed
          chan,              \* p->chan: the entry p waits on, or Nobody
          pc,                \* where p is in the kernel
          child,             \* np of p's unfinished fork or clone
          stranger           \* history: p's parent entry changed hands

tree == <<parent, isThread, detached, stranger>>
sleeping == <<state, chan>>
calls == <<pc, child>>
vars == <<sleeping, tree, killed, calls>>

State == {"UNUSED", "USED", "RUNNABLE", "SLEEPING", "ZOMBIE"}

(***************************************************************************)
(* user       in user space, or on the way in or out of the kernel         *)
(* link       in fork or clone, the child is allocated but has no parent   *)
(* start      the child has a parent but is not RUNNABLE                   *)
(* wait join  about to take wait_lock in kwait, in kjoin                   *)
(* waitsleep joinsleep   prepared, wait_lock released, before sleep()      *)
(***************************************************************************)
Pc == {"user", "link", "start", "wait", "join", "waitsleep", "joinsleep"}

Init ==
  /\ state = [p \in Slot |-> IF p = InitProc THEN "RUNNABLE" ELSE "UNUSED"]
  /\ parent = [p \in Slot |-> Nobody]
  /\ isThread = [p \in Slot |-> FALSE]
  /\ detached = [p \in Slot |-> FALSE]
  /\ killed = [p \in Slot |-> FALSE]
  /\ chan = [p \in Slot |-> Nobody]
  /\ pc = [p \in Slot |-> "user"]
  /\ child = [p \in Slot |-> Nobody]
  /\ stranger = [p \in Slot |-> FALSE]

At(p, l) == state[p] = "RUNNABLE" /\ pc[p] = l
Goto(p, l) == pc' = [pc EXCEPT ![p] = l]
MayCall(p) == At(p, "user") /\ ~killed[p]

\* States in which an entry is a process that can still do something.
Alive(p) == state[p] \in {"RUNNABLE", "SLEEPING"}

-------------------------------------------------------------------------------
(***************************************************************************)
(* fork and clone                                                          *)
(***************************************************************************)

\* allocproc() on any entry that is free when the search reaches it, and what
\* fork or clone does to it before they release its lock.  When they run out of
\* memory they free it under the same lock, and nobody sees a difference.
\* Children that still point to the entry get its new owner as their parent.
Alloc(p, np, thread) ==
  /\ MayCall(p) /\ (thread => p # InitProc)
  /\ state[np] = "UNUSED"
  /\ state' = [state EXCEPT ![np] = "USED"]
  /\ parent' = [parent EXCEPT ![np] = Nobody]
  /\ chan' = [chan EXCEPT ![np] = Nobody]
  /\ killed' = [killed EXCEPT ![np] = FALSE]
  /\ isThread' = [isThread EXCEPT ![np] = thread]
  /\ detached' = [detached EXCEPT ![np] = FALSE]
  /\ stranger' = [q \in Slot |-> IF q = np THEN FALSE
                                 ELSE stranger[q] \/ parent[q] = np]
  /\ child' = [child EXCEPT ![p] = np]
  /\ Goto(p, "link")

Link(p) ==
  /\ At(p, "link")
  /\ parent' = [parent EXCEPT ![child[p]] = p]
  /\ Goto(p, "start")
  /\ UNCHANGED <<sleeping, isThread, detached, stranger, killed, child>>

Start(p) ==
  /\ At(p, "start")
  /\ state' = [state EXCEPT ![child[p]] = "RUNNABLE"]
  /\ child' = [child EXCEPT ![p] = Nobody]
  /\ Goto(p, "user")
  /\ UNCHANGED <<chan, tree, killed>>

-------------------------------------------------------------------------------
(***************************************************************************)
(* wait and join                                                           *)
(***************************************************************************)
Children(p) == {q \in Slot : parent[q] = p}

\* kjoin looks only at threads; kwait looks at every child.
Awaited(p) == {q \in Children(p) : pc[p] \in {"join", "joinsleep"} => isThread[q]}
Zombies(p) == {q \in Awaited(p) : state[q] = "ZOMBIE"}

\* init (user/init.c) waits only while it has a child, and never joins.
CallWait(p) ==
  /\ MayCall(p) /\ (p = InitProc => Children(p) # {})
  /\ Goto(p, "wait")
  /\ UNCHANGED <<sleeping, tree, killed, child>>

CallJoin(p) ==
  /\ MayCall(p) /\ p # InitProc
  /\ Goto(p, "join")
  /\ UNCHANGED <<sleeping, tree, killed, child>>

\* freeproc() on the first zombie of the table.
Reap(p) ==
  /\ At(p, "wait") \/ At(p, "join")
  /\ \E q \in Zombies(p) :
       /\ \A r \in Zombies(p) : q <= r
       /\ state' = [state EXCEPT ![q] = "UNUSED"]
       /\ parent' = [parent EXCEPT ![q] = Nobody]
       /\ chan' = [chan EXCEPT ![q] = Nobody]
       /\ killed' = [killed EXCEPT ![q] = FALSE]
       /\ isThread' = [isThread EXCEPT ![q] = FALSE]
       /\ detached' = [detached EXCEPT ![q] = FALSE]
       /\ stranger' = [stranger EXCEPT ![q] = FALSE]
  /\ Goto(p, "user")
  /\ UNCHANGED child

\* copyout() of the status fails: the zombie stays.
WaitBadAddress(p) ==
  /\ p # InitProc
  /\ At(p, "wait") /\ Zombies(p) # {}
  /\ Goto(p, "user")
  /\ UNCHANGED <<sleeping, tree, killed, child>>

WaitFails(p) ==
  /\ At(p, "wait") \/ At(p, "join")
  /\ Zombies(p) = {}
  /\ Awaited(p) = {} \/ killed[p]
  /\ Goto(p, "user")
  /\ UNCHANGED <<sleeping, tree, killed, child>>

\* A mistake: the caller sleeps whether it is killed or not.
WaitPrepareKilled(p) ==
  /\ At(p, "wait") \/ At(p, "join")
  /\ Zombies(p) = {} /\ Awaited(p) # {}
  /\ chan' = [chan EXCEPT ![p] = p]
  /\ Goto(p, IF pc[p] = "wait" THEN "waitsleep" ELSE "joinsleep")
  /\ UNCHANGED <<state, tree, killed, child>>

\* sleep_prepare(p), then wait_lock is released.
WaitPrepare(p) ==
  /\ At(p, "wait") \/ At(p, "join")
  /\ Zombies(p) = {} /\ Awaited(p) # {} /\ ~killed[p]
  /\ chan' = [chan EXCEPT ![p] = p]
  /\ Goto(p, IF pc[p] = "wait" THEN "waitsleep" ELSE "joinsleep")
  /\ UNCHANGED <<state, tree, killed, child>>

\* A mistake: sleep() registers the channel, after wait_lock was released.
SleepRegisters(p) ==
  /\ At(p, "waitsleep") \/ At(p, "joinsleep")
  /\ state' = [state EXCEPT ![p] = "SLEEPING"]
  /\ chan' = [chan EXCEPT ![p] = p]
  /\ Goto(p, IF pc[p] = "waitsleep" THEN "wait" ELSE "join")
  /\ UNCHANGED <<tree, killed, child>>

\* sleep(), unless the wakeup came first.
Sleep(p) ==
  /\ At(p, "waitsleep") \/ At(p, "joinsleep")
  /\ state' = [state EXCEPT ![p] = IF chan[p] = Nobody THEN @ ELSE "SLEEPING"]
  /\ Goto(p, IF pc[p] = "waitsleep" THEN "wait" ELSE "join")
  /\ UNCHANGED <<chan, tree, killed, child>>

-------------------------------------------------------------------------------
(***************************************************************************)
(* exit and kill                                                           *)
(***************************************************************************)

\* A mistake: only children that still run are passed on.
PassedOnAlive(p) == {q \in Children(p) : ~isThread[q] /\ Alive(q)}

\* reparent(): threads are passed on only when they are detached.
PassedOn(p) == {q \in Children(p) : ~isThread[q] \/ detached[q]}

\* kexit() under wait_lock: reparent, wake init and the parent, become a zombie.
Exit(p) ==
  /\ At(p, "user") /\ p # InitProc
  /\ LET woken == {q \in Slot : \/ chan[q] = parent[p]
                                \/ chan[q] = InitProc /\ PassedOn(p) # {}}
     IN /\ chan' = [q \in Slot |-> IF q \in woken THEN Nobody ELSE chan[q]]
        /\ state' = [q \in Slot |->
                       IF q = p THEN "ZOMBIE"
                       ELSE IF q \in woken /\ state[q] = "SLEEPING" THEN "RUNNABLE"
                       ELSE state[q]]
  /\ parent' = [q \in Slot |-> IF q \in PassedOn(p) THEN InitProc ELSE parent[q]]
  /\ stranger' = [q \in Slot |-> stranger[q] /\ q \notin PassedOn(p)]
  /\ UNCHANGED <<isThread, detached, killed, calls>>

\* kkill(): init is left alone, or the kernel would panic ("init exiting").
Kill(p, q) ==
  /\ MayCall(p)
  /\ q # InitProc /\ state[q] # "UNUSED"
  /\ killed' = [killed EXCEPT ![q] = TRUE]
  /\ state' = [state EXCEPT ![q] = IF @ = "SLEEPING" THEN "RUNNABLE" ELSE @]
  /\ UNCHANGED <<chan, tree, calls>>

\* kill(0): the pid of a free entry is 0, and the first one takes the signal.
KillZero(p) ==
  /\ MayCall(p)
  /\ \E q \in Slot : /\ state[q] = "UNUSED"
                     /\ \A r \in Slot : r < q => state[r] # "UNUSED"
                     /\ killed' = [killed EXCEPT ![q] = TRUE]
  /\ UNCHANGED <<sleeping, tree, calls>>

-------------------------------------------------------------------------------
Step(p) ==
  \/ Link(p) \/ Start(p)
  \/ Reap(p) \/ WaitBadAddress(p) \/ WaitFails(p) \/ WaitPrepare(p) \/ Sleep(p)

Next ==
  \E p \in Slot : \/ Step(p)
                  \/ CallWait(p) \/ CallJoin(p) \/ Exit(p) \/ KillZero(p)
                  \/ \E q \in Slot : \/ \E thread \in BOOLEAN : Alloc(p, q, thread)
                                     \/ Kill(p, q)

SafeSpec == Init /\ [][Next]_vars

(***************************************************************************)
(* Fairness: a runnable process runs on inside the kernel (the scheduler   *)
(* starves nobody) and a killed one leaves user space at the next timer    *)
(* interrupt.                                                              *)
(***************************************************************************)
Fairness == \A p \in Slot : WF_vars(Step(p)) /\ WF_vars(killed[p] /\ Exit(p))

Spec == SafeSpec /\ Fairness

-------------------------------------------------------------------------------
TypeOK ==
  /\ state \in [Slot -> State]
  /\ parent \in [Slot -> Slot \cup {Nobody}]
  /\ isThread \in [Slot -> BOOLEAN]
  /\ detached \in [Slot -> BOOLEAN]
  /\ killed \in [Slot -> BOOLEAN]
  /\ chan \in [Slot -> Slot \cup {Nobody}]
  /\ pc \in [Slot -> Pc]
  /\ child \in [Slot -> Slot \cup {Nobody}]
  /\ stranger \in [Slot -> BOOLEAN]
  /\ \A p \in Slot : state[p] = "UNUSED" =>
       /\ parent[p] = Nobody /\ chan[p] = Nobody /\ ~isThread[p] /\ pc[p] = "user"

\* p sleeps in wait or join, or nothing will keep it from going to sleep there.
Committed(p) ==
  /\ chan[p] = p
  /\ state[p] = "SLEEPING" \/ pc[p] \in {"waitsleep", "joinsleep"}

(***************************************************************************)
(* No exit is missed: a parent never sleeps in wait() while a child of it  *)
(* is a zombie, nor in join() while a thread of it is, however the exits   *)
(* of several children, of their parents (whose children become init's)    *)
(* and the parent's way into sleep interleave (proc.c, kwait and kexit).   *)
(***************************************************************************)
NoMissedExit == \A p \in Slot : Committed(p) => Zombies(p) = {}

(***************************************************************************)
(* The process tree: whoever is not a thread always has a parent that is   *)
(* still there to wait for it, namely the process that forked it or init   *)
(* ("Pass p's abandoned children to init", proc.c:466).  Without this a    *)
(* zombie would occupy its entry for ever, or be waited for by a process   *)
(* that never forked it.  Threads are the exception: reparent() passes on  *)
(* a thread only when it is detached, and no code detaches one, so the     *)
(* thread of a process that exits keeps pointing to a zombie, then to a    *)
(* free entry, and at last to a stranger.                                  *)
(***************************************************************************)
HasParent(q) == /\ parent[q] # Nobody
                /\ Alive(parent[q])
                /\ ~stranger[q]

Linked(q) == q # InitProc /\ state[q] \in {"RUNNABLE", "SLEEPING", "ZOMBIE"}

ProcessesHaveParents == \A q \in Slot : Linked(q) /\ ~isThread[q] => HasParent(q)

(***************************************************************************)
(* A signal reaches the process that has the pid ("Kill the process with   *)
(* the given pid", proc.c:827), never one that is not yet born.            *)
(***************************************************************************)
BornAlive == \A q \in Slot : state[q] = "UNUSED" /\ state'[q] = "USED" => ~killed'[q]

NobodyBornKilled == [][BornAlive]_vars

(***************************************************************************)
(* wait() and join() come back: a caller for which a zombie is waiting     *)
(* returns, and so does a caller that is killed in its sleep.              *)
(***************************************************************************)
InWait(p) == pc[p] \in {"wait", "join", "waitsleep", "joinsleep"}

WaitReturns ==
  \A p \in Slot : /\ InWait(p) /\ Zombies(p) # {} ~> pc[p] = "user"
                  /\ InWait(p) /\ killed[p] /\ state[p] = "RUNNABLE"
                       /\ pc[p] \in {"wait", "join"} ~> pc[p] = "user"

-------------------------------------------------------------------------------
(***************************************************************************)
(* The inductive invariant behind the safety properties (the module        *)
(* ProcessesProofs): what the places in the kernel imply.  An entry that   *)
(* fork or clone has allocated is owned by one caller and nobody else      *)
(* touches it, nobody registers on any channel but its own, and init lives.*)
(***************************************************************************)
Forking(p) == pc[p] \in {"link", "start"}

ForksConsistent ==
  /\ \A p \in Slot : Forking(p) =>
       /\ child[p] \in Slot
       /\ state[child[p]] = "USED"
       /\ parent[child[p]] = (IF pc[p] = "start" THEN p ELSE Nobody)
       /\ ~stranger[child[p]]
  /\ \A p, q \in Slot : Forking(p) /\ Forking(q) /\ p # q => child[p] # child[q]

PlacesConsistent ==
  /\ \A p \in Slot : chan[p] \in {p, Nobody}
  /\ \A p \in Slot : state[p] \in {"UNUSED", "USED", "ZOMBIE"} => pc[p] = "user"
  /\ Alive(InitProc)

IInv ==
  /\ TypeOK
  /\ PlacesConsistent
  /\ ForksConsistent
  /\ NoMissedExit
  /\ ProcessesHaveParents
===============================================================================
