------------------------------ MODULE EventRing ------------------------------
(***************************************************************************)
(* class EventRing of kernel/usb/xhci/ring.cpp and the loop that drains it *)
(* (ProcessEvents in xhci.cpp).  The xHC is the producer: it writes events *)
(* with its producer cycle state and stops before it would catch up with   *)
(* ERDP.  The driver is the consumer: it compares the cycle bit of the     *)
(* front with cycle_bit_, handles the event and only then advances ERDP.   *)
(***************************************************************************)
EXTENDS Integers, Sequences

CONSTANTS
  buf_size_,   \* slots of the one segment: 32 in the code
  Events,      \* what events can be
  NoEvent      \* zeroed memory

\* Whoever instantiates the ring assumes this of its constants.
EventRingAssumption ==
  /\ buf_size_ \in Nat /\ buf_size_ >= 2
  /\ NoEvent \notin Events

Slots == 0..(buf_size_ - 1)

VARIABLES
  buf_,              \* event and cycle bit per slot
  enqueue, pcs,      \* the xHC: next slot to write, producer cycle state
  erdp, cycle_bit_,  \* the driver: ERDP (a slot) and its cycle state
  pc, front,         \* inside ProcessEvent: the event being handled
  ehb, interrupt     \* Event Handler Busy; an interrupt has been raised

driverVars == <<erdp, cycle_bit_, pc, front>>
vars == <<buf_, enqueue, pcs, driverVars, ehb, interrupt>>

\* EventRing::Initialize
Init ==
  /\ buf_ = [n \in Slots |-> [event |-> NoEvent, cycle |-> FALSE]]
  /\ enqueue = 0 /\ pcs = TRUE
  /\ erdp = 0 /\ cycle_bit_ = TRUE
  /\ pc = "wait" /\ front = NoEvent
  /\ ehb = FALSE /\ interrupt = FALSE

Following(slot) == IF slot = buf_size_ - 1 THEN 0 ELSE slot + 1

\* The xHC (hardware): the ring is full when one more would reach ERDP.
Full == Following(enqueue) = erdp

PostEvent(e) ==
  /\ ~Full
  /\ buf_' = [buf_ EXCEPT ![enqueue] = [event |-> e, cycle |-> pcs]]
  /\ enqueue' = Following(enqueue)
  /\ pcs' = IF enqueue = buf_size_ - 1 THEN ~pcs ELSE pcs
  /\ UNCHANGED <<driverVars, ehb, interrupt>>

\* It interrupts for a non-empty ring while EHB is clear.
RaiseInterrupt ==
  /\ enqueue # erdp /\ ~ehb
  /\ ehb' = TRUE
  /\ interrupt' = TRUE
  /\ UNCHANGED <<buf_, enqueue, pcs, driverVars>>

\* Mutant: any block that is not zero counts as an event.
HasBlock == buf_[erdp].event # NoEvent

\* The cycle bit of the front against the driver's cycle state.
HasFront == buf_[erdp].cycle = cycle_bit_

\* The kInterruptXHCI message makes main call ProcessEvents.
StartProcessing ==
  /\ pc = "wait" /\ interrupt
  /\ interrupt' = FALSE
  /\ pc' = "loop"
  /\ UNCHANGED <<buf_, enqueue, pcs, erdp, cycle_bit_, front, ehb>>

StopProcessing ==
  /\ pc = "loop" /\ ~HasFront
  /\ pc' = "wait"
  /\ UNCHANGED <<buf_, enqueue, pcs, erdp, cycle_bit_, front, ehb, interrupt>>

\* ProcessEvent: the handler works on the TRB in place, ...
HandleFront ==
  /\ pc = "loop" /\ HasFront
  /\ front' = buf_[erdp].event
  /\ pc' = "pop"
  /\ UNCHANGED <<buf_, enqueue, pcs, erdp, cycle_bit_, ehb, interrupt>>

\* ... then Pop.  WriteDequeuePointer writes back the EHB it read, and a 1
\* written to EHB clears it.
Pop ==
  /\ pc = "pop"
  /\ erdp' = Following(erdp)
  /\ cycle_bit_' = IF erdp = buf_size_ - 1 THEN ~cycle_bit_ ELSE cycle_bit_
  /\ ehb' = FALSE
  /\ front' = NoEvent
  /\ pc' = "loop"
  /\ UNCHANGED <<buf_, enqueue, pcs, interrupt>>

Next ==
  \/ \E e \in Events : PostEvent(e)
  \/ RaiseInterrupt
  \/ StartProcessing \/ StopProcessing \/ HandleFront \/ Pop

Spec == Init /\ [][Next]_vars
-----------------------------------------------------------------------------
(* Safety *)

\* Every variable keeps its type.
TypeOK ==
  /\ buf_ \in [Slots -> [event : Events \cup {NoEvent}, cycle : BOOLEAN]]
  /\ enqueue \in Slots /\ pcs \in BOOLEAN
  /\ erdp \in Slots /\ cycle_bit_ \in BOOLEAN
  /\ pc \in {"wait", "loop", "pop"}
  /\ front \in Events \cup {NoEvent}
  /\ ehb \in BOOLEAN /\ interrupt \in BOOLEAN

Pending == IF pcs = cycle_bit_ THEN enqueue - erdp ELSE (buf_size_ - erdp) + enqueue
SlotOf(k) == IF erdp + k - 1 < buf_size_ THEN erdp + k - 1 ELSE erdp + k - 1 - buf_size_
Queue == [k \in 1..Pending |-> buf_[SlotOf(k)].event]

\* Comparing one cycle bit tells the driver whether the controller has posted
\* an event: never a stale block of an earlier lap, never a missed one.
HasFrontIsExact == HasFront <=> enqueue # erdp

\* The event a handler is working on stays in place, unchanged, until Pop:
\* the controller cannot reuse the slot meanwhile.
FrontStays == pc = "pop" => enqueue # erdp /\ buf_[erdp].event = front

\* Types, an exact test for a new event, and a front that stays put.
EventRingInv == TypeOK /\ HasFrontIsExact /\ FrontStays

\* Events are handled once each and in the order in which they were posted.
Unhandled == IF pc = "pop" THEN SubSeq(Queue, 2, Pending) ELSE Queue
FF == INSTANCE Fifo WITH
        TRBs <- Events,
        NoTRB <- NoEvent,
        Capacity <- buf_size_ - 1,
        queue <- Unhandled,
        got <- front
ImplementsFifo == FF!Spec
===============================================================================
