----------------------------- MODULE BoundedBuffer -----------------------------
(***************************************************************************)
(* The producer and the consumer of user/prodcons.c (Assignment 4, two     *)
(* processes on a shared page) and of user/synctest.c (Assignment 7, two   *)
(* threads): a circular buffer, a mutex and two counting semaphores.  The  *)
(* assignments to the buffer and to its indices are steps of their own.    *)
(* The pauses only slow one side down, so they are left out.               *)
(***************************************************************************)
EXTENDS SemaphoreClient, Integers

CONSTANTS BUF_SIZE, ITERS    \* 5 and 20 in both programs

producer == 0                \* the parent
consumer == 1                \* its child

MUTEX == 0
EMPTY == 1
FULL == 2

VARIABLES buf, in, out,      \* struct shared_data
          produced,          \* items written, i of the producer's loop
          consumed,          \* items read, i of the consumer's loop
          item               \* the consumer's local variable

bufferVars == <<buf, in, out, produced, consumed, item>>

BufferInit ==
  /\ ClientInit([s \in Sem |-> CASE s = MUTEX -> 1
                                 [] s = EMPTY -> BUF_SIZE
                                 [] OTHER -> 0],
                [p \in Process |-> CASE p = producer -> "empty"
                                     [] p = consumer -> "full"
                                     [] OTHER -> "absent"])
  /\ buf \in [0 .. BUF_SIZE - 1 -> {0}]
  /\ in = 0 /\ out = 0
  /\ produced = 0 /\ consumed = 0 /\ item = 0

-------------------------------------------------------------------------------
(***************************************************************************)
(* The producer                                                            *)
(***************************************************************************)

\* A mistake: the producer does not wait for an empty slot.
ProducerSkipsEmpty ==
  /\ produced < ITERS
  /\ Local(producer, "empty", "lock")
  /\ UNCHANGED bufferVars

ProducerWaitsEmpty ==
  /\ produced < ITERS
  /\ Down(producer, "empty", EMPTY, "lock")
  /\ UNCHANGED bufferVars

ProducerLocks == Down(producer, "lock", MUTEX, "write") /\ UNCHANGED bufferVars

WriteItem ==
  /\ Local(producer, "write", "advance")
  /\ buf' = [buf EXCEPT ![in] = produced + 1]
  /\ produced' = produced + 1
  /\ UNCHANGED <<in, out, consumed, item>>

AdvanceIn ==
  /\ Local(producer, "advance", "unlock")
  /\ in' = (in + 1) % BUF_SIZE
  /\ UNCHANGED <<buf, out, produced, consumed, item>>

ProducerUnlocks == Up(producer, "unlock", MUTEX, "post") /\ UNCHANGED bufferVars

ProducerPostsFull == Up(producer, "post", FULL, "empty") /\ UNCHANGED bufferVars

\* wait(0), or join(), after the loop.
ProducerDone ==
  /\ produced = ITERS /\ pc[consumer] = "done"
  /\ Local(producer, "empty", "done")
  /\ UNCHANGED bufferVars

-------------------------------------------------------------------------------
(***************************************************************************)
(* The consumer                                                            *)
(***************************************************************************)
ConsumerWaitsFull ==
  /\ consumed < ITERS
  /\ Down(consumer, "full", FULL, "lock")
  /\ UNCHANGED bufferVars

ConsumerLocks == Down(consumer, "lock", MUTEX, "read") /\ UNCHANGED bufferVars

ReadItem ==
  /\ Local(consumer, "read", "advance")
  /\ item' = buf[out]
  /\ consumed' = consumed + 1
  /\ UNCHANGED <<buf, in, out, produced>>

AdvanceOut ==
  /\ Local(consumer, "advance", "unlock")
  /\ out' = (out + 1) % BUF_SIZE
  /\ UNCHANGED <<buf, in, produced, consumed, item>>

ConsumerUnlocks == Up(consumer, "unlock", MUTEX, "post") /\ UNCHANGED bufferVars

ConsumerPostsEmpty == Up(consumer, "post", EMPTY, "full") /\ UNCHANGED bufferVars

ConsumerDone ==
  /\ consumed = ITERS
  /\ Local(consumer, "full", "done")
  /\ UNCHANGED bufferVars

-------------------------------------------------------------------------------
Producer ==
  \/ ProducerWaitsEmpty \/ ProducerLocks \/ WriteItem \/ AdvanceIn
  \/ ProducerUnlocks \/ ProducerPostsFull \/ ProducerDone

Consumer ==
  \/ ConsumerWaitsFull \/ ConsumerLocks \/ ReadItem \/ AdvanceOut
  \/ ConsumerUnlocks \/ ConsumerPostsEmpty \/ ConsumerDone

Run(p) == (p = producer /\ Producer) \/ (p = consumer /\ Consumer)

-------------------------------------------------------------------------------
(***************************************************************************)
(* The buffer is a first-in first-out channel: every item is received      *)
(* once, in order, none is overwritten before it is read and none is read  *)
(* before it is written ("without underflow or overflow", REPORT.md:23).   *)
(***************************************************************************)
First == IF pc[consumer] = "advance" THEN out + 1 ELSE out

Stored == [k \in 1 .. produced - consumed |-> buf[(First + k - 1) % BUF_SIZE]]

FIFO == INSTANCE Channel WITH Capacity <- BUF_SIZE, Items <- ITERS,
                              queue <- Stored, sent <- produced, received <- item

ImplementsChannel == FIFO!Spec

(***************************************************************************)
(* The two never work on the buffer at the same time.                      *)
(***************************************************************************)
InBuffer(p) == pc[p] \in {"write", "read", "advance", "unlock"}

BufferExclusive == ~(InBuffer(producer) /\ InBuffer(consumer))

\* Both loops have come to their end.
Completed == pc[producer] = "done"
===============================================================================
