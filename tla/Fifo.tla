--------------------------------- MODULE Fifo ---------------------------------
(***************************************************************************)
(* What a ring of Transfer Request Blocks is for: an ordered channel of    *)
(* bounded capacity.  Ring (software to controller) and EventRing          *)
(* (controller to software) implement it in memory that both sides read    *)
(* and write, with a cycle bit in each block as the only signal.           *)
(***************************************************************************)
EXTENDS Naturals, Sequences

CONSTANTS
  TRBs,      \* the blocks that are sent
  Capacity,  \* how many may be on the way
  NoTRB      \* nothing received yet, or nothing any more

VARIABLES
  queue,     \* on the way, oldest first
  got        \* the block received last

vars == <<queue, got>>

Init == queue = <<>> /\ got = NoTRB

Put(trb) ==
  /\ Len(queue) < Capacity
  /\ queue' = Append(queue, trb)
  /\ UNCHANGED got

Get ==
  /\ queue # <<>>
  /\ got' = Head(queue)
  /\ queue' = Tail(queue)

\* The receiver is done with what it got, and may say so.
Finish ==
  /\ got' = NoTRB
  /\ UNCHANGED queue

Next == Get \/ Finish \/ \E trb \in TRBs : Put(trb)

Spec == Init /\ [][Next]_vars
===============================================================================
