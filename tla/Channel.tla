-------------------------------- MODULE Channel --------------------------------
(***************************************************************************)
(* What the producer and the consumer of prodcons.c and synctest.c share:  *)
(* a first-in first-out channel of bounded capacity that carries the items *)
(* 1, 2, ..., Items, each exactly once and in this order.                  *)
(***************************************************************************)
EXTENDS Naturals, Sequences

CONSTANTS Capacity, Items

VARIABLES queue,             \* items sent and not received
          sent,              \* the last item sent
          received           \* the last item received

channelVars == <<queue, sent, received>>

Init == queue = <<>> /\ sent = 0 /\ received = 0

Send ==
  /\ Len(queue) < Capacity /\ sent < Items
  /\ sent' = sent + 1
  /\ queue' = Append(queue, sent')
  /\ UNCHANGED received

Receive ==
  /\ queue # <<>>
  /\ received' = Head(queue)
  /\ queue' = Tail(queue)
  /\ UNCHANGED sent

Spec == Init /\ [][Send \/ Receive]_channelVars
===============================================================================
