--------------------------------- MODULE Ring ---------------------------------
(***************************************************************************)
(* class Ring of kernel/usb/xhci/ring.cpp: the command ring and the        *)
(* transfer rings.  The driver is the producer; the xHC, which reads the   *)
(* memory whenever it likes, is the consumer.  The last slot holds a link  *)
(* TRB that sends the consumer back to the first slot and toggles its      *)
(* cycle state.                                                            *)
(*                                                                         *)
(* Push stores the first three words of a block and then the word with the *)
(* cycle bit: the xHC may look between any two stores.                     *)
(***************************************************************************)
EXTENDS Integers, Sequences

CONSTANTS
  buf_size_,     \* slots, the one of the link TRB included: 32 in the code
  TRBs,          \* contents of blocks
  NoTRB,         \* zeroed memory
  MaxInFlight    \* blocks the driver leaves unconsumed at most

(***************************************************************************)
(* Push does not look whether the ring is full.  Its callers keep far      *)
(* fewer blocks in flight than there are slots: a command or a transfer is *)
(* issued when the completion of the one before has arrived.  The bound    *)
(* they must keep is two below the number of slots, not one: with          *)
(* buf_size_ - 1 in flight, the push that ends a lap can rewrite the link  *)
(* TRB while the xHC has yet to follow it from the lap before.             *)
(***************************************************************************)
ASSUME RingAssumption ==
  /\ buf_size_ \in Nat /\ buf_size_ >= 3
  /\ MaxInFlight \in 1..(buf_size_ - 2)
  /\ NoTRB \notin TRBs
  /\ "link" \notin TRBs /\ NoTRB # "link"

Slots == 0..(buf_size_ - 1)
LinkSlot == buf_size_ - 1

VARIABLES
  buf_,          \* body (words 0 to 2, and the type) and cycle bit per slot
  write_index_, cycle_bit_,
  pc, trb,       \* the driver: where it is in Push, and Push's argument
  dequeue, ccs,  \* the xHC: its dequeue pointer and consumer cycle state
  got            \* the block it executed last

driverVars == <<write_index_, cycle_bit_, pc, trb>>
xhcVars == <<dequeue, ccs, got>>
vars == <<buf_, driverVars, xhcVars>>

\* Ring::Initialize; the controller is told to start with cycle state 1.
Init ==
  /\ buf_ = [n \in Slots |-> [body |-> NoTRB, cycle |-> FALSE]]
  /\ write_index_ = 0 /\ cycle_bit_ = TRUE
  /\ pc = "idle" /\ trb = NoTRB
  /\ dequeue = 0 /\ ccs = TRUE /\ got = NoTRB

\* Blocks written and not yet consumed.
InFlight ==
  IF cycle_bit_ = ccs THEN write_index_ - dequeue
  ELSE (LinkSlot - dequeue) + write_index_

\* Mutant: blocks are pushed without regard to those on the way.
PushAnyway == TRUE

\* What the driver relies on to call Push (see RingAssumption).
MayPush == InFlight < MaxInFlight

\* Push: CopyToLast stores data[0..2] ...
PushBody(t) ==
  /\ pc = "idle"
  /\ MayPush
  /\ trb' = t
  /\ buf_' = [buf_ EXCEPT ![write_index_].body = t]
  /\ pc' = "cycle"
  /\ UNCHANGED <<write_index_, cycle_bit_, xhcVars>>

\* ... then data[3]; write_index_ moves on, to the link slot at the end.
PushCycle ==
  /\ pc = "cycle"
  /\ buf_' = [buf_ EXCEPT ![write_index_].cycle = cycle_bit_]
  /\ write_index_' = write_index_ + 1
  /\ trb' = NoTRB   \* Push's argument, of no use from here on
  /\ pc' = IF write_index_' = LinkSlot THEN "link_body" ELSE "idle"
  /\ UNCHANGED <<cycle_bit_, xhcVars>>

\* The link TRB, by CopyToLast too, then back to slot 0 with the bit flipped.
LinkBody ==
  /\ pc = "link_body"
  /\ buf_' = [buf_ EXCEPT ![write_index_].body = "link"]
  /\ pc' = "link_cycle"
  /\ UNCHANGED <<write_index_, cycle_bit_, trb, xhcVars>>

LinkCycle ==
  /\ pc = "link_cycle"
  /\ buf_' = [buf_ EXCEPT ![write_index_].cycle = cycle_bit_]
  /\ write_index_' = 0
  /\ cycle_bit_' = ~cycle_bit_
  /\ pc' = "idle"
  /\ UNCHANGED <<trb, xhcVars>>

\* The xHC (hardware) takes a block whose cycle bit is its cycle state; it
\* follows a link TRB and toggles.
Owned == buf_[dequeue].cycle = ccs

Execute ==
  /\ Owned
  /\ buf_[dequeue].body # "link"
  /\ got' = buf_[dequeue].body
  /\ dequeue' = dequeue + 1
  /\ UNCHANGED <<buf_, driverVars, ccs>>

FollowLink ==
  /\ Owned
  /\ buf_[dequeue].body = "link"
  /\ dequeue' = 0
  /\ ccs' = ~ccs
  /\ UNCHANGED <<buf_, driverVars, got>>

Next ==
  \/ \E t \in TRBs : PushBody(t)
  \/ PushCycle \/ LinkBody \/ LinkCycle
  \/ Execute \/ FollowLink

Spec == Init /\ [][Next]_vars
-----------------------------------------------------------------------------
(* Safety *)

\* Every variable keeps its type.
TypeOK ==
  /\ buf_ \in [Slots -> [body : TRBs \cup {NoTRB, "link"}, cycle : BOOLEAN]]
  /\ write_index_ \in Slots /\ cycle_bit_ \in BOOLEAN
  /\ pc \in {"idle", "cycle", "link_body", "link_cycle"}
  /\ trb \in TRBs \cup {NoTRB}
  /\ dequeue \in Slots /\ ccs \in BOOLEAN
  /\ got \in TRBs \cup {NoTRB}

\* The slots between the xHC's and the driver's position, around the link.
SlotOf(k) == IF dequeue + k - 1 < LinkSlot THEN dequeue + k - 1 ELSE dequeue + k - 1 - LinkSlot
Queue == [k \in 1..InFlight |-> buf_[SlotOf(k)].body]

\* The cycle bits tell exactly which slots the xHC may take: those between
\* the two positions and no other, at every moment of a Push and whatever
\* the number of laps.
CycleBitsMark ==
  /\ InFlight \in 0..(buf_size_ - 2)
  /\ Owned <=> \/ InFlight > 0 /\ dequeue # LinkSlot
               \/ dequeue = LinkSlot /\ cycle_bit_ # ccs

\* Types, and the ownership the cycle bits express.
RingInv == TypeOK /\ CycleBitsMark

\* No block is lost, duplicated, reordered or seen half-written: the ring is
\* an ordered channel, a Push taking effect when it stores the cycle bit.
FF == INSTANCE Fifo WITH
        Capacity <- MaxInFlight,
        queue <- Queue
ImplementsFifo == FF!Spec
===============================================================================
