------------------------------- MODULE LifecycleA4 -------------------------------
(***************************************************************************)
(* The processes of the Assignment 4 kernel (proc.c): the same operations  *)
(* as in Lifecycle, without threads, except that allocproc() takes a free  *)
(* entry over as it is, where the other kernel clears killed, parent and   *)
(* chan.  The two kernels share what comes after: the definitions below    *)
(* say which actions each function of this one is.                         *)
(***************************************************************************)
EXTENDS Lifecycle

\* allocproc(), and kfork() up to the release of np->lock.
AllocA4(p, np) ==
  /\ MayCall(p) /\ state[np] = "UNUSED"
  /\ state' = [state EXCEPT ![np] = "USED"]
  /\ stranger' = [q \in Slot |-> IF q = np THEN FALSE
                                 ELSE stranger[q] \/ parent[q] = np]
  /\ child' = [child EXCEPT ![p] = np]
  /\ Goto(p, "link")
  /\ UNCHANGED <<parent, isThread, detached, killed, chan>>

\* No memory: freeproc() clears what it finds.
ForkFailsA4(p, np) ==
  /\ MayCall(p) /\ state[np] = "UNUSED"
  /\ killed' = [killed EXCEPT ![np] = FALSE]
  /\ UNCHANGED <<sleeping, tree, calls>>

\* The rest of kfork().
ForkA4(p) == Link(p) \/ Start(p)

\* kwait(): with no thread about, every child is awaited.
WaitA4(p) == CallWait(p) \/ Reap(p) \/ WaitBadAddress(p) \/ WaitFails(p) \/ WaitPrepare(p)

\* kexit() and reparent(): every child is passed on.
ExitA4(p) == Exit(p)

\* kkill(), with the pid of a process or with 0.
KillA4(p, q) == Kill(p, q) \/ KillZero(p)

NextA4 ==
  \E p \in Slot : \/ ForkA4(p) \/ WaitA4(p) \/ Sleep(p) \/ ExitA4(p)
                  \/ \E q \in Slot : AllocA4(p, q) \/ ForkFailsA4(p, q) \/ KillA4(p, q)

SafeSpecA4 == Init /\ [][NextA4]_vars

===============================================================================
