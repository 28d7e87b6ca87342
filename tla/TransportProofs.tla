--------------------------- MODULE TransportProofs ---------------------------
(***************************************************************************)
(* Proofs about what lies between the kernel and the USB devices:          *)
(*  - a command or transfer ring keeps RingInv, the event ring keeps       *)
(*    EventRingInv, and both implement Fifo, for any number of slots (and  *)
(*    any number of blocks in flight up to buf_size_ - 2), alone and when  *)
(*    the handlers of one feed the other;                                  *)
(*  - the controller is set up in order, with blocks of a memory pool of   *)
(*    any size;                                                            *)
(*  - the scan of the PCI buses lists what can be reached.                 *)
(*                                                                         *)
(* RingInv speaks of one cycle bit, the one at the xHC's position; to be   *)
(* preserved it needs those of all slots, the one of the link TRB apart,   *)
(* and how far the two sides can be from one another.                      *)
(***************************************************************************)
EXTENDS Transport, Induction, FiniteSetTheorems

-----------------------------------------------------------------------------
(* Command and transfer rings *)

\* The driver is in the link slot exactly while it writes the link TRB.
AtLink == write_index_ = LinkSlot <=> pc \in {"link_body", "link_cycle"}
\* Same lap, the xHC not ahead; or the driver a lap ahead and not as far.
Laps == IF cycle_bit_ = ccs THEN dequeue <= write_index_ ELSE write_index_ < dequeue
\* A block being written counts as one in flight.
Started == IF pc = "cycle" THEN 1 ELSE 0
Room == InFlight + Started <= MaxInFlight
DataCycles == \A n \in Slots \ {LinkSlot} :
                buf_[n].cycle = IF n < write_index_ THEN cycle_bit_ ELSE ~cycle_bit_
DataBodies == \A n \in Slots \ {LinkSlot} : buf_[n].body # "link"
LinkCycleBit == buf_[LinkSlot].cycle = ~cycle_bit_
\* Once the xHC may follow the link TRB, it is there.
LinkWritten == cycle_bit_ # ccs \/ pc = "link_cycle" => buf_[LinkSlot].body = "link"
BodyWritten == pc = "cycle" => trb \in TRBs /\ buf_[write_index_].body = trb

IInv == /\ TypeOK /\ AtLink /\ Laps /\ Room
        /\ DataCycles /\ DataBodies /\ LinkCycleBit /\ LinkWritten /\ BodyWritten

Block == [body : TRBs \cup {NoTRB, "link"}, cycle : BOOLEAN]

LEMMA Sizes ==
  /\ buf_size_ \in Nat /\ LinkSlot = buf_size_ - 1 /\ LinkSlot \in Nat /\ LinkSlot >= 2
  /\ MaxInFlight \in Nat /\ MaxInFlight <= LinkSlot - 1 /\ LinkSlot \in Slots
  /\ Slots = 0..LinkSlot
BY RingAssumption DEF LinkSlot, Slots

\* What the invariant says of the two positions.
LEMMA Positions ==
  ASSUME IInv
  PROVE  /\ write_index_ \in Slots /\ dequeue \in Slots
         /\ cycle_bit_ \in BOOLEAN /\ ccs \in BOOLEAN /\ buf_ \in [Slots -> Block]
         /\ InFlight \in 0..MaxInFlight /\ InFlight + Started <= MaxInFlight /\ Started \in 0..1
         /\ cycle_bit_ # ccs => write_index_ < dequeue /\ InFlight = (LinkSlot - dequeue) + write_index_
         /\ cycle_bit_ = ccs => dequeue <= write_index_ /\ InFlight = write_index_ - dequeue
<1>1. /\ write_index_ \in Slots /\ dequeue \in Slots
      /\ cycle_bit_ \in BOOLEAN /\ ccs \in BOOLEAN /\ buf_ \in [Slots -> Block]
  BY DEF IInv, TypeOK, Block
<1>2. Started \in 0..1 /\ InFlight + Started <= MaxInFlight BY DEF IInv, Room, Started
<1>3. CASE cycle_bit_ = ccs
  <2>1. dequeue <= write_index_ /\ InFlight = write_index_ - dequeue
    BY <1>3 DEF IInv, Laps, InFlight
  <2> QED BY <2>1, <1>1, <1>2, <1>3, Sizes
<1>4. CASE cycle_bit_ # ccs
  <2>1. write_index_ < dequeue /\ InFlight = (LinkSlot - dequeue) + write_index_
    BY <1>4 DEF IInv, Laps, InFlight
  <2> QED BY <2>1, <1>1, <1>2, <1>4, Sizes
<1> QED BY <1>3, <1>4

\* The cycle bit at the xHC's position tells it exactly whether there is
\* something for it to take.
LEMMA Marked == IInv => CycleBitsMark
<1> SUFFICES ASSUME IInv PROVE CycleBitsMark
  OBVIOUS
<1>1. InFlight \in 0..(buf_size_ - 2) BY Positions, Sizes
<1>2. CASE dequeue = LinkSlot
  <2>1. buf_[dequeue].cycle = ~cycle_bit_ BY <1>2 DEF IInv, LinkCycleBit
  <2>2. Owned <=> cycle_bit_ # ccs BY <2>1, Positions DEF Owned
  <2> QED BY <1>1, <1>2, <2>2 DEF CycleBitsMark
<1>3. CASE dequeue # LinkSlot
  <2>0. dequeue \in Slots \ {LinkSlot} BY <1>3, Positions
  <2>1. buf_[dequeue].cycle = IF dequeue < write_index_ THEN cycle_bit_ ELSE ~cycle_bit_
    BY <2>0 DEF IInv, DataCycles
  <2>2. CASE cycle_bit_ = ccs
    <3>1. dequeue < write_index_ <=> InFlight > 0 BY <2>2, Positions, Sizes
    <3>2. Owned <=> dequeue < write_index_ BY <2>1, <2>2, Positions DEF Owned
    <3> QED BY <3>1, <3>2, <1>1, <1>3 DEF CycleBitsMark
  <2>3. CASE cycle_bit_ # ccs
    <3>1. ~(dequeue < write_index_) /\ InFlight > 0 BY <2>3, <1>3, Positions, Sizes
    <3>2. Owned BY <2>1, <2>3, <3>1, Positions DEF Owned
    <3> QED BY <3>1, <3>2, <1>1, <1>3 DEF CycleBitsMark
  <2> QED BY <2>2, <2>3
<1> QED BY <1>2, <1>3

LEMMA InitIInv == Init => IInv
<1> SUFFICES ASSUME Init PROVE IInv
  OBVIOUS
<1>1. 0 \in Slots /\ 0 # LinkSlot BY Sizes
<1>2. TypeOK BY <1>1 DEF Init, TypeOK
<1>3. AtLink /\ Laps BY <1>1 DEF Init, AtLink, Laps
<1>4. Room
  <2>1. InFlight = 0 /\ Started = 0 BY DEF Init, InFlight, Started
  <2> QED BY <2>1, Sizes DEF Room
<1>5. DataCycles
  <2> SUFFICES ASSUME NEW n \in Slots
               PROVE  buf_[n].cycle = IF n < write_index_ THEN cycle_bit_ ELSE ~cycle_bit_
    BY DEF DataCycles
  <2>1. ~(n < write_index_) BY Sizes DEF Init
  <2> QED BY <2>1 DEF Init
<1>6. DataBodies BY RingAssumption DEF Init, DataBodies
<1>7. LinkCycleBit /\ LinkWritten /\ BodyWritten
  BY Sizes DEF Init, LinkCycleBit, LinkWritten, BodyWritten
<1> QED BY <1>2, <1>3, <1>4, <1>5, <1>6, <1>7 DEF IInv

\* Push, first part: only the body of the slot at write_index_ changes, which
\* is not the link slot.
LEMMA PushBodyPreserves ==
  ASSUME IInv, NEW t \in TRBs, PushBody(t)
  PROVE  IInv'
<1>1. /\ pc = "idle" /\ InFlight < MaxInFlight /\ pc' = "cycle" /\ trb' = t
      /\ buf_' = [buf_ EXCEPT ![write_index_].body = t]
      /\ UNCHANGED <<write_index_, cycle_bit_, dequeue, ccs, got>>
  BY DEF PushBody, MayPush, xhcVars
<1>2. write_index_ # LinkSlot BY <1>1 DEF IInv, AtLink
<1>3. /\ \A n \in Slots : buf_'[n].cycle = buf_[n].cycle
      /\ \A n \in Slots : n # write_index_ => buf_'[n] = buf_[n]
      /\ buf_'[write_index_].body = t
  BY <1>1, Positions DEF Block
<1>4. TypeOK'
  <2>1. buf_' \in [Slots -> Block]
    <3>1. [buf_[write_index_] EXCEPT !.body = t] \in Block BY Positions DEF Block
    <3> QED BY <3>1, <1>1, Positions
  <2> QED BY <2>1, <1>1 DEF IInv, TypeOK, Block
<1>5. AtLink' /\ Laps' BY <1>1, <1>2 DEF IInv, AtLink, Laps
<1>6. Room'
  <2>1. InFlight' = InFlight /\ Started' = 1 BY <1>1 DEF InFlight, Started
  <2> QED BY <2>1, <1>1, Positions, Sizes DEF Room
<1>7. DataCycles' BY <1>1, <1>3 DEF IInv, DataCycles
<1>8. DataBodies' BY <1>1, <1>3, RingAssumption DEF IInv, DataBodies
<1>9. LinkCycleBit' /\ LinkWritten' BY <1>1, <1>2, <1>3, Sizes DEF IInv, LinkCycleBit, LinkWritten
<1>10. BodyWritten' BY <1>1, <1>3 DEF BodyWritten
<1> QED BY <1>4, <1>5, <1>6, <1>7, <1>8, <1>9, <1>10 DEF IInv

\* Push, second part: the cycle bit hands the slot over, and write_index_
\* moves on, possibly into the link slot.
LEMMA PushCyclePreserves ==
  ASSUME IInv, PushCycle
  PROVE  IInv'
<1>1. /\ pc = "cycle" /\ trb' = NoTRB
      /\ buf_' = [buf_ EXCEPT ![write_index_].cycle = cycle_bit_]
      /\ write_index_' = write_index_ + 1
      /\ pc' = IF write_index_' = LinkSlot THEN "link_body" ELSE "idle"
      /\ UNCHANGED <<cycle_bit_, dequeue, ccs, got>>
  BY DEF PushCycle, xhcVars
<1>2. write_index_ \in Slots \ {LinkSlot} BY <1>1, Positions DEF IInv, AtLink
<1>3. /\ \A n \in Slots : buf_'[n].body = buf_[n].body
      /\ \A n \in Slots : n # write_index_ => buf_'[n] = buf_[n]
      /\ buf_'[write_index_].cycle = cycle_bit_
  BY <1>1, Positions DEF Block
<1>4. write_index_ + 1 \in Slots BY <1>2, Sizes
<1>5. TypeOK'
  <2>1. buf_' \in [Slots -> Block]
    <3>1. [buf_[write_index_] EXCEPT !.cycle = cycle_bit_] \in Block BY Positions DEF Block
    <3> QED BY <3>1, <1>1, Positions
  <2> QED BY <2>1, <1>1, <1>4 DEF IInv, TypeOK, Block
<1>6. AtLink' BY <1>1 DEF AtLink
<1>7. Started = 1 /\ Started' = 0 BY <1>1 DEF Started
<1>8. InFlight' = InFlight + 1 BY <1>1, <1>2, Positions, Sizes, SMTT(20) DEF InFlight
<1>9. Laps'
  <2>1. CASE cycle_bit_ = ccs BY <2>1, <1>1, <1>2, Positions, Sizes DEF Laps
  <2>2. CASE cycle_bit_ # ccs
    <3>1. write_index_ + 1 < dequeue BY <2>2, <1>7, <1>2, Positions, Sizes
    <3> QED BY <3>1, <2>2, <1>1 DEF Laps
  <2> QED BY <2>1, <2>2
<1>10. Room' BY <1>7, <1>8, Positions, Sizes DEF Room
<1>11. DataCycles'
  <2> SUFFICES ASSUME NEW n \in Slots \ {LinkSlot}
               PROVE  buf_'[n].cycle = IF n < write_index_ + 1 THEN cycle_bit_ ELSE ~cycle_bit_
    BY <1>1 DEF DataCycles
  <2>1. buf_[n].cycle = IF n < write_index_ THEN cycle_bit_ ELSE ~cycle_bit_ BY DEF IInv, DataCycles
  <2>2. n < write_index_ + 1 <=> n < write_index_ \/ n = write_index_ BY <1>2, Sizes
  <2> QED BY <2>1, <2>2, <1>3
<1>12. DataBodies' BY <1>3 DEF IInv, DataBodies
<1>13. LinkCycleBit' /\ LinkWritten'
  BY <1>1, <1>2, <1>3, Sizes DEF IInv, LinkCycleBit, LinkWritten
<1>14. BodyWritten' BY <1>1 DEF BodyWritten
<1> QED BY <1>5, <1>6, <1>9, <1>10, <1>11, <1>12, <1>13, <1>14 DEF IInv

\* The link TRB is written when the xHC is in the same lap, so it has
\* followed the one of the lap before.
LEMMA LinkInSameLap ==
  ASSUME IInv, pc \in {"link_body", "link_cycle"}
  PROVE  cycle_bit_ = ccs /\ write_index_ = LinkSlot
<1>1. write_index_ = LinkSlot BY DEF IInv, AtLink
<1> QED BY <1>1, Positions, Sizes

LEMMA LinkBodyPreserves ==
  ASSUME IInv, LinkBody
  PROVE  IInv'
<1>1. /\ pc = "link_body" /\ pc' = "link_cycle"
      /\ buf_' = [buf_ EXCEPT ![write_index_].body = "link"]
      /\ UNCHANGED <<write_index_, cycle_bit_, trb, dequeue, ccs, got>>
  BY DEF LinkBody, xhcVars
<1>2. write_index_ = LinkSlot /\ write_index_ \in Slots BY <1>1, Positions DEF IInv, AtLink
<1>3. /\ \A n \in Slots : buf_'[n].cycle = buf_[n].cycle
      /\ \A n \in Slots : n # write_index_ => buf_'[n] = buf_[n]
      /\ buf_'[write_index_].body = "link"
  BY <1>1, Positions DEF Block
<1>4. TypeOK'
  <2>1. buf_' \in [Slots -> Block]
    <3>1. [buf_[write_index_] EXCEPT !.body = "link"] \in Block BY Positions DEF Block
    <3> QED BY <3>1, <1>1, Positions
  <2> QED BY <2>1, <1>1 DEF IInv, TypeOK, Block
<1>5. AtLink' /\ Laps' BY <1>1, <1>2 DEF IInv, AtLink, Laps
<1>6. Room' BY <1>1 DEF IInv, Room, InFlight, Started
<1>7. DataCycles' /\ DataBodies' BY <1>1, <1>2, <1>3 DEF IInv, DataCycles, DataBodies
<1>8. LinkCycleBit' /\ LinkWritten' BY <1>1, <1>2, <1>3 DEF IInv, LinkCycleBit, LinkWritten
<1>9. BodyWritten' BY <1>1 DEF BodyWritten
<1> QED BY <1>4, <1>5, <1>6, <1>7, <1>8, <1>9 DEF IInv

\* The cycle bit of the link TRB ends the lap.
LEMMA LinkCyclePreserves ==
  ASSUME IInv, LinkCycle
  PROVE  IInv'
<1>1. /\ pc = "link_cycle" /\ pc' = "idle"
      /\ buf_' = [buf_ EXCEPT ![write_index_].cycle = cycle_bit_]
      /\ write_index_' = 0 /\ cycle_bit_' = ~cycle_bit_
      /\ UNCHANGED <<trb, dequeue, ccs, got>>
  BY DEF LinkCycle, xhcVars
<1>2. write_index_ = LinkSlot /\ cycle_bit_ = ccs BY <1>1, LinkInSameLap
<1>3. /\ \A n \in Slots : buf_'[n].body = buf_[n].body
      /\ \A n \in Slots : n # write_index_ => buf_'[n] = buf_[n]
      /\ buf_'[write_index_].cycle = cycle_bit_
  BY <1>1, Positions DEF Block
<1>4. TypeOK'
  <2>1. buf_' \in [Slots -> Block]
    <3>1. [buf_[write_index_] EXCEPT !.cycle = cycle_bit_] \in Block BY Positions DEF Block
    <3> QED BY <3>1, <1>1, Positions
  <2>2. 0 \in Slots BY Sizes
  <2> QED BY <2>1, <2>2, <1>1, Positions DEF IInv, TypeOK, Block
<1>5. AtLink' BY <1>1, Sizes DEF AtLink
<1>6. cycle_bit_' # ccs' BY <1>1, <1>2, Positions
<1>7. InFlight' = InFlight /\ InFlight = LinkSlot - dequeue
  BY <1>1, <1>2, <1>6, Positions, Sizes DEF InFlight
<1>8. Laps'
  <2>1. 0 < dequeue BY <1>7, Positions, Sizes
  <2> QED BY <2>1, <1>1, <1>6 DEF Laps
<1>9. Room'
  <2>1. Started' = 0 /\ Started = 0 BY <1>1 DEF Started
  <2> QED BY <2>1, <1>7, Positions, Sizes DEF Room
<1>10. DataCycles'
  <2> SUFFICES ASSUME NEW n \in Slots \ {LinkSlot}
               PROVE  buf_'[n].cycle = IF n < 0 THEN cycle_bit_' ELSE ~cycle_bit_'
    BY <1>1 DEF DataCycles
  <2>1. buf_[n].cycle = IF n < write_index_ THEN cycle_bit_ ELSE ~cycle_bit_ BY DEF IInv, DataCycles
  <2>2. n < write_index_ /\ ~(n < 0) /\ n # write_index_ BY <1>2, Sizes
  <2>3. buf_'[n].cycle = cycle_bit_ BY <2>1, <2>2, <1>3
  <2> QED BY <2>2, <2>3, <1>1, Positions
<1>11. DataBodies' BY <1>3 DEF IInv, DataBodies
<1>12. LinkCycleBit'
  <2>1. buf_'[LinkSlot].cycle = cycle_bit_ BY <1>2, <1>3
  <2> QED BY <2>1, <1>1, Positions DEF LinkCycleBit
<1>13. LinkWritten'
  <2>1. buf_[LinkSlot].body = "link" BY <1>1 DEF IInv, LinkWritten
  <2> QED BY <2>1, <1>3, Sizes DEF LinkWritten
<1>14. BodyWritten' BY <1>1 DEF BodyWritten
<1> QED BY <1>4, <1>5, <1>8, <1>9, <1>10, <1>11, <1>12, <1>13, <1>14 DEF IInv

\* The xHC takes a block: there was one, and the slot is not the link slot.
LEMMA ExecuteTakes ==
  ASSUME IInv, Execute
  PROVE  dequeue # LinkSlot /\ InFlight >= 1 /\ InFlight' = InFlight - 1
<1>1. /\ buf_[dequeue].body # "link" /\ dequeue' = dequeue + 1
      /\ UNCHANGED <<write_index_, cycle_bit_, ccs>> /\ Owned
  BY DEF Execute, driverVars
<1>2. dequeue # LinkSlot
  <2> SUFFICES ASSUME dequeue = LinkSlot PROVE FALSE OBVIOUS
  <2>1. cycle_bit_ # ccs BY <1>1, Marked DEF CycleBitsMark
  <2> QED BY <2>1, <1>1 DEF IInv, LinkWritten
<1>3. InFlight > 0 BY <1>1, <1>2, Marked DEF CycleBitsMark
<1>4. InFlight' = InFlight - 1
  BY <1>1, Positions, Sizes, SMTT(30) DEF InFlight
<1> QED BY <1>2, <1>3, <1>4, Positions

LEMMA ExecutePreserves ==
  ASSUME IInv, Execute
  PROVE  IInv'
<1>1. /\ got' = buf_[dequeue].body /\ dequeue' = dequeue + 1 /\ buf_[dequeue].body # "link"
      /\ UNCHANGED <<buf_, write_index_, cycle_bit_, pc, trb, ccs>>
  BY DEF Execute, driverVars
<1>2. dequeue # LinkSlot /\ InFlight >= 1 /\ InFlight' = InFlight - 1 BY ExecuteTakes
<1>3. TypeOK'
  <2>1. dequeue + 1 \in Slots BY <1>2, Positions, Sizes
  <2>2. buf_[dequeue].body \in TRBs \cup {NoTRB} BY <1>1, Positions DEF Block
  <2> QED BY <2>1, <2>2, <1>1 DEF IInv, TypeOK
<1>4. Laps' BY <1>1, <1>2, Positions, Sizes DEF Laps
<1>5. Room'
  <2>1. Started' = Started BY <1>1 DEF Started
  <2> QED BY <2>1, <1>2, Positions, Sizes DEF Room
<1>6. /\ AtLink' /\ DataCycles' /\ DataBodies'
      /\ LinkCycleBit' /\ LinkWritten' /\ BodyWritten'
  BY <1>1 DEF IInv, AtLink, DataCycles, DataBodies, LinkCycleBit, LinkWritten, BodyWritten
<1> QED BY <1>3, <1>4, <1>5, <1>6 DEF IInv

LEMMA FollowLinkTurns ==
  ASSUME IInv, FollowLink
  PROVE  /\ dequeue = LinkSlot /\ cycle_bit_ # ccs /\ cycle_bit_ = ccs'
         /\ InFlight = write_index_ /\ InFlight' = write_index_
<1>1. /\ buf_[dequeue].body = "link" /\ dequeue' = 0 /\ ccs' = ~ccs
      /\ UNCHANGED <<write_index_, cycle_bit_>> /\ Owned
  BY DEF FollowLink, driverVars
<1>2. dequeue = LinkSlot
  <2> SUFFICES ASSUME dequeue # LinkSlot PROVE FALSE OBVIOUS
  <2>1. dequeue \in Slots \ {LinkSlot} BY Positions
  <2> QED BY <2>1, <1>1 DEF IInv, DataBodies
<1>3. cycle_bit_ # ccs BY <1>1, <1>2, Marked DEF CycleBitsMark
<1>4. cycle_bit_ = ccs' BY <1>1, <1>3, Positions
<1>5. InFlight = write_index_ BY <1>2, <1>3, Positions, Sizes
<1>6. InFlight' = write_index_ BY <1>1, <1>4, Positions, Sizes DEF InFlight
<1> QED BY <1>2, <1>3, <1>4, <1>5, <1>6

LEMMA FollowLinkPreserves ==
  ASSUME IInv, FollowLink
  PROVE  IInv'
<1>1. /\ dequeue' = 0 /\ ccs' = ~ccs
      /\ UNCHANGED <<buf_, write_index_, cycle_bit_, pc, trb, got>>
  BY DEF FollowLink, driverVars
<1>2. /\ cycle_bit_ # ccs /\ cycle_bit_ = ccs' /\ InFlight' = InFlight
  BY FollowLinkTurns
<1>3. TypeOK' BY <1>1, Sizes, Positions DEF IInv, TypeOK
<1>4. Laps' BY <1>1, <1>2, Positions, Sizes DEF Laps
<1>5. Room'
  <2>1. Started' = Started BY <1>1 DEF Started
  <2> QED BY <2>1, <1>2 DEF IInv, Room
<1>6. LinkWritten' BY <1>1, <1>2 DEF IInv, LinkWritten
<1>7. AtLink' /\ DataCycles' /\ DataBodies' /\ LinkCycleBit' /\ BodyWritten'
  BY <1>1 DEF IInv, AtLink, DataCycles, DataBodies, LinkCycleBit, BodyWritten
<1> QED BY <1>3, <1>4, <1>5, <1>6, <1>7 DEF IInv

LEMMA StepIInv == IInv /\ [Next]_vars => IInv'
<1> SUFFICES ASSUME IInv, [Next]_vars PROVE IInv'
  OBVIOUS
<1>1. ASSUME NEW t \in TRBs, PushBody(t) PROVE IInv' BY <1>1, PushBodyPreserves
<1>2. CASE PushCycle BY <1>2, PushCyclePreserves
<1>3. CASE LinkBody BY <1>3, LinkBodyPreserves
<1>4. CASE LinkCycle BY <1>4, LinkCyclePreserves
<1>5. CASE Execute BY <1>5, ExecutePreserves
<1>6. CASE FollowLink BY <1>6, FollowLinkPreserves
<1>7. CASE UNCHANGED vars
  BY <1>7 DEF vars, driverVars, xhcVars, IInv, TypeOK, AtLink, Laps, Room, InFlight, Started,
              DataCycles, DataBodies, LinkCycleBit, LinkWritten, BodyWritten
<1> QED BY <1>1, <1>2, <1>3, <1>4, <1>5, <1>6, <1>7 DEF Next

\* At every moment of a Push the cycle bits tell the xHC exactly which slots
\* it may take, whatever the size of the ring and the number of laps, as long
\* as no more than buf_size_ - 2 blocks are in flight.
THEOREM RingInvariant == Spec => []RingInv
<1>1. IInv => RingInv BY Marked DEF IInv, RingInv
<1> QED BY <1>1, InitIInv, StepIInv, PTL DEF Spec

-----------------------------------------------------------------------------
(* The refinement of Fifo *)

\* A function on 1..n is a sequence; two that agree on a common part are
\* related by Append, or by Head and Tail.
LEMMA FnIsSeq ==
  ASSUME NEW S, NEW n \in Nat, NEW f \in [1..n -> S]
  PROVE  f \in Seq(S) /\ Len(f) = n
<1>1. f \in Seq(S) BY SeqDef
<1>2. DOMAIN f = 1..Len(f) /\ Len(f) \in Nat BY <1>1, LenProperties
<1> QED BY <1>1, <1>2

LEMMA FnAppend ==
  ASSUME NEW S, NEW n \in Nat, NEW f \in [1..n -> S], NEW g \in [1..(n + 1) -> S],
         \A i \in 1..n : g[i] = f[i]
  PROVE  g = Append(f, g[n + 1])
<1>1. f \in Seq(S) /\ Len(f) = n BY FnIsSeq
<1>2. g \in Seq(S) /\ Len(g) = n + 1
  <2>1. n + 1 \in Nat OBVIOUS
  <2> QED BY <2>1, FnIsSeq
<1>3. g[n + 1] \in S OBVIOUS
<1> DEFINE h == Append(f, g[n + 1])
<1>4. h \in Seq(S) /\ Len(h) = n + 1 /\ (\A i \in 1..n : h[i] = f[i]) /\ h[n + 1] = g[n + 1]
  BY <1>1, <1>3, AppendProperties
<1> HIDE DEF h
<1>5. \A i \in 1..(n + 1) : g[i] = h[i]
  <2> SUFFICES ASSUME NEW i \in 1..(n + 1) PROVE g[i] = h[i] OBVIOUS
  <2>1. i \in 1..n \/ i = n + 1 OBVIOUS
  <2> QED BY <2>1, <1>4
<1>6. g = h BY <1>2, <1>4, <1>5, SeqEqual
<1> QED BY <1>6 DEF h

LEMMA FnTail ==
  ASSUME NEW S, NEW n \in Nat, n >= 1, NEW f \in [1..n -> S], NEW g \in [1..(n - 1) -> S],
         \A i \in 1..(n - 1) : g[i] = f[i + 1]
  PROVE  f # <<>> /\ Head(f) = f[1] /\ Tail(f) = g
<1>1. f \in Seq(S) /\ Len(f) = n BY FnIsSeq
<1>2. g \in Seq(S) /\ Len(g) = n - 1
  <2>1. n - 1 \in Nat OBVIOUS
  <2> QED BY <2>1, FnIsSeq
<1>3. f # <<>> BY <1>1
<1>4. Tail(f) \in Seq(S) /\ Len(Tail(f)) = n - 1 /\ \A i \in 1..(n - 1) : Tail(f)[i] = f[i + 1]
  BY <1>1, <1>3, HeadTailProperties
<1>5. g = Tail(f) BY <1>2, <1>4, SeqEqual
<1> QED BY <1>1, <1>3, <1>5

\* The blocks in flight are in slots of their own, none the one being written.
Content == TRBs \cup {NoTRB, "link"}

LEMMA SlotsInFlight ==
  ASSUME IInv
  PROVE  /\ \A i \in 1..InFlight : SlotOf(i) \in Slots /\ SlotOf(i) # write_index_ /\ SlotOf(i) # LinkSlot
         /\ pc = "cycle" => SlotOf(InFlight + 1) = write_index_
         /\ InFlight >= 1 /\ dequeue # LinkSlot => SlotOf(1) = dequeue
<1>1. \A i \in 1..InFlight : SlotOf(i) \in Slots /\ SlotOf(i) # write_index_ /\ SlotOf(i) # LinkSlot
  BY Positions, Sizes DEF SlotOf
<1>2. ASSUME pc = "cycle" PROVE SlotOf(InFlight + 1) = write_index_
  <2>1. write_index_ # LinkSlot BY <1>2 DEF IInv, AtLink
  <2> QED BY <2>1, Positions, Sizes DEF SlotOf
<1>3. dequeue # LinkSlot => SlotOf(1) = dequeue BY Positions, Sizes DEF SlotOf
<1> QED BY <1>1, <1>2, <1>3

LEMMA QueueIs ==
  ASSUME IInv
  PROVE  /\ InFlight \in Nat /\ Queue \in [1..InFlight -> Content]
         /\ \A i \in 1..InFlight : Queue[i] = buf_[SlotOf(i)].body
<1>1. \A i \in 1..InFlight : buf_[SlotOf(i)].body \in Content
  BY Positions, SlotsInFlight DEF Block, Content
<1> QED BY <1>1, Positions, Sizes DEF Queue

LEMMA QueueNext ==
  ASSUME IInv'
  PROVE  /\ InFlight' \in Nat /\ Queue' \in [1..InFlight' -> Content]
         /\ \A i \in 1..InFlight' : Queue'[i] = buf_'[SlotOf(i)'].body
<1>1. (IInv => /\ InFlight \in Nat /\ Queue \in [1..InFlight -> Content]
               /\ \A i \in 1..InFlight : Queue[i] = buf_[SlotOf(i)].body)'
  BY QueueIs, PTL
<1> QED BY <1>1

\* Steps that leave every block in flight where it is leave the queue alone.
LEMMA QueueSame ==
  ASSUME IInv, IInv', InFlight' = InFlight,
         \A i \in 1..InFlight : buf_'[SlotOf(i)'].body = buf_[SlotOf(i)].body
  PROVE  Queue' = Queue
BY QueueIs, QueueNext

\* Storing the cycle bit is when a block is sent, whole.
LEMMA PushCycleIsPut ==
  ASSUME IInv, IInv', PushCycle
  PROVE  \E t \in TRBs : FF!Put(t)
<1>1. /\ pc = "cycle" /\ buf_' = [buf_ EXCEPT ![write_index_].cycle = cycle_bit_]
      /\ write_index_' = write_index_ + 1
      /\ UNCHANGED <<cycle_bit_, dequeue, ccs, got>>
  BY DEF PushCycle, xhcVars
<1>2. trb \in TRBs /\ buf_[write_index_].body = trb BY <1>1 DEF IInv, BodyWritten
<1>3. InFlight' = InFlight + 1 /\ Started = 1
  <2>1. write_index_ \in Slots \ {LinkSlot} BY <1>1, Positions DEF IInv, AtLink
  <2>2. InFlight' = InFlight + 1 BY <2>1, <1>1, Positions, Sizes, SMTT(30) DEF InFlight
  <2> QED BY <2>2, <1>1 DEF Started
<1>4. \A i : SlotOf(i)' = SlotOf(i) BY <1>1 DEF SlotOf
<1>5. \A n \in Slots : buf_'[n].body = buf_[n].body BY <1>1, Positions DEF Block
<1>6. /\ InFlight \in Nat /\ Queue \in [1..InFlight -> Content]
      /\ Queue' \in [1..(InFlight + 1) -> Content]
  BY <1>3, QueueIs, QueueNext
<1>7. \A i \in 1..InFlight : Queue'[i] = Queue[i]
  <2> SUFFICES ASSUME NEW i \in 1..InFlight PROVE Queue'[i] = Queue[i] OBVIOUS
  <2>1. i \in 1..(InFlight + 1) BY <1>6
  <2> QED BY <2>1, <1>3, <1>4, <1>5, QueueIs, QueueNext, SlotsInFlight
<1>8. Queue'[InFlight + 1] = trb
  <2>1. InFlight + 1 \in 1..(InFlight + 1) BY <1>6
  <2>2. SlotOf(InFlight + 1) = write_index_ BY <1>1, SlotsInFlight
  <2> QED BY <2>1, <2>2, <1>2, <1>3, <1>4, <1>5, QueueNext, Positions
<1>9. Queue' = Append(Queue, trb) BY <1>6, <1>7, <1>8, FnAppend
<1>10. Len(Queue) < MaxInFlight
  <2>1. Len(Queue) = InFlight BY <1>6, FnIsSeq
  <2> QED BY <2>1, <1>3, Positions, Sizes
<1> QED BY <1>1, <1>2, <1>9, <1>10 DEF FF!Put

LEMMA ExecuteIsGet ==
  ASSUME IInv, IInv', Execute
  PROVE  FF!Get
<1>1. /\ got' = buf_[dequeue].body /\ dequeue' = dequeue + 1 /\ UNCHANGED buf_
  BY DEF Execute, driverVars
<1>2. dequeue # LinkSlot /\ InFlight >= 1 /\ InFlight' = InFlight - 1 BY ExecuteTakes
<1>3. /\ InFlight \in Nat /\ Queue \in [1..InFlight -> Content]
      /\ Queue' \in [1..(InFlight - 1) -> Content]
  BY <1>2, QueueIs, QueueNext
<1>4. \A i \in 1..(InFlight - 1) : SlotOf(i)' = SlotOf(i + 1)
  <2> SUFFICES ASSUME NEW i \in 1..(InFlight - 1) PROVE SlotOf(i)' = SlotOf(i + 1)
    OBVIOUS
  <2>1. dequeue \in Int /\ LinkSlot \in Int /\ i \in Int BY <1>3, Positions, Sizes
  <2>2. SlotOf(i)' = IF (dequeue + 1) + i - 1 < LinkSlot THEN (dequeue + 1) + i - 1
                     ELSE (dequeue + 1) + i - 1 - LinkSlot
    BY <1>1 DEF SlotOf
  <2>3. SlotOf(i + 1) = IF dequeue + (i + 1) - 1 < LinkSlot THEN dequeue + (i + 1) - 1
                        ELSE dequeue + (i + 1) - 1 - LinkSlot
    BY DEF SlotOf
  <2> QED BY <2>1, <2>2, <2>3
<1>5. \A i \in 1..(InFlight - 1) : Queue'[i] = Queue[i + 1]
  <2> SUFFICES ASSUME NEW i \in 1..(InFlight - 1) PROVE Queue'[i] = Queue[i + 1] OBVIOUS
  <2>1. i + 1 \in 1..InFlight BY <1>3
  <2> QED BY <2>1, <1>1, <1>2, <1>4, QueueIs, QueueNext
<1>6. Queue # <<>> /\ Head(Queue) = Queue[1] /\ Tail(Queue) = Queue'
  BY <1>2, <1>3, <1>5, FnTail
<1>7. Queue[1] = buf_[dequeue].body
  <2>1. 1 \in 1..InFlight BY <1>2, <1>3
  <2> QED BY <2>1, <1>2, QueueIs, SlotsInFlight
<1> QED BY <1>1, <1>6, <1>7 DEF FF!Get

\* The other steps are invisible: a body without its cycle bit, the link TRB
\* written or followed.
LEMMA OthersAreInvisible ==
  ASSUME IInv, IInv', (\E t \in TRBs : PushBody(t)) \/ LinkBody \/ LinkCycle \/ FollowLink
  PROVE  Queue' = Queue /\ got' = got
<1>1. ASSUME NEW t \in TRBs, PushBody(t) PROVE Queue' = Queue /\ got' = got
  <2>1. /\ buf_' = [buf_ EXCEPT ![write_index_].body = t]
        /\ UNCHANGED <<write_index_, cycle_bit_, dequeue, ccs, got>>
    BY <1>1 DEF PushBody, xhcVars
  <2>2. InFlight' = InFlight /\ \A i : SlotOf(i)' = SlotOf(i) BY <2>1 DEF InFlight, SlotOf
  <2>3. \A i \in 1..InFlight : buf_'[SlotOf(i)'].body = buf_[SlotOf(i)].body
    BY <2>1, <2>2, SlotsInFlight, Positions
  <2> QED BY <2>1, <2>2, <2>3, QueueSame
<1>2. CASE LinkBody
  <2>1. /\ buf_' = [buf_ EXCEPT ![write_index_].body = "link"]
        /\ UNCHANGED <<write_index_, cycle_bit_, dequeue, ccs, got>>
    BY <1>2 DEF LinkBody, xhcVars
  <2>2. InFlight' = InFlight /\ \A i : SlotOf(i)' = SlotOf(i) BY <2>1 DEF InFlight, SlotOf
  <2>3. \A i \in 1..InFlight : buf_'[SlotOf(i)'].body = buf_[SlotOf(i)].body
    BY <2>1, <2>2, SlotsInFlight, Positions
  <2> QED BY <2>1, <2>2, <2>3, QueueSame
<1>3. CASE LinkCycle
  <2>1. /\ buf_' = [buf_ EXCEPT ![write_index_].cycle = cycle_bit_]
        /\ write_index_' = 0 /\ cycle_bit_' = ~cycle_bit_ /\ pc = "link_cycle"
        /\ UNCHANGED <<dequeue, ccs, got>>
    BY <1>3 DEF LinkCycle, xhcVars
  <2>2. cycle_bit_ = ccs /\ write_index_ = LinkSlot BY <2>1, LinkInSameLap
  <2>3. InFlight' = InFlight
    <3>1. cycle_bit_' # ccs' BY <2>1, <2>2, Positions
    <3> QED BY <3>1, <2>1, <2>2, Positions, Sizes DEF InFlight
  <2>4. \A i : SlotOf(i)' = SlotOf(i) BY <2>1 DEF SlotOf
  <2>5. \A i \in 1..InFlight : buf_'[SlotOf(i)'].body = buf_[SlotOf(i)].body
    BY <2>1, <2>4, SlotsInFlight, Positions DEF Block
  <2> QED BY <2>1, <2>3, <2>5, QueueSame
<1>4. CASE FollowLink
  <2>1. dequeue' = 0 /\ UNCHANGED <<buf_, write_index_, got>>
    BY <1>4 DEF FollowLink, driverVars
  <2>2. dequeue = LinkSlot /\ InFlight = write_index_ /\ InFlight' = InFlight /\ cycle_bit_ # ccs
    BY <1>4, FollowLinkTurns
  <2>3. \A i \in 1..InFlight : SlotOf(i)' = SlotOf(i)
    BY <2>1, <2>2, Positions, Sizes DEF SlotOf
  <2> QED BY <2>1, <2>2, <2>3, QueueSame
<1> QED BY <1>1, <1>2, <1>3, <1>4

\* Every step of the ring is one of the channel, or none.
LEMMA StepIsFifo == IInv /\ IInv' /\ [Next]_vars => [FF!Next]_(FF!vars)
<1> SUFFICES ASSUME IInv, IInv', [Next]_vars PROVE [FF!Next]_(FF!vars)
  OBVIOUS
<1>1. CASE PushCycle BY <1>1, PushCycleIsPut DEF FF!Next
<1>2. CASE Execute BY <1>2, ExecuteIsGet DEF FF!Next
<1>3. CASE (\E t \in TRBs : PushBody(t)) \/ LinkBody \/ LinkCycle \/ FollowLink
  BY <1>3, OthersAreInvisible DEF FF!vars
<1>4. CASE UNCHANGED vars
  BY <1>4 DEF vars, driverVars, xhcVars, Queue, InFlight, SlotOf, FF!vars
<1> QED BY <1>1, <1>2, <1>3, <1>4 DEF Next

\* No block is lost, duplicated, reordered or seen half-written by the xHC:
\* the ring is an ordered channel, whatever its size and the number of laps.
THEOREM RingRefinesFifo == Spec => ImplementsFifo
<1>1. Init => FF!Init
  <2> SUFFICES ASSUME Init PROVE Queue = <<>> /\ got = NoTRB
    BY DEF FF!Init
  <2>1. InFlight = 0 /\ got = NoTRB BY DEF Init, InFlight
  <2>2. Queue = [k \in 1..0 |-> buf_[SlotOf(k)].body] BY <2>1 DEF Queue
  <2> QED BY <2>1, <2>2
<1> QED BY <1>1, StepIsFifo, InitIInv, StepIInv, PTL DEF Spec, ImplementsFifo, FF!Spec

-----------------------------------------------------------------------------
(* The event ring.  What makes EventRingInv inductive is the cycle bit of  *)
(* every slot: the slots before the controller's position carry its cycle  *)
(* state, the others the opposite one, and the driver is in the same lap   *)
(* as the controller or one behind.                                        *)

\* Where the two sides are: in one lap, the driver not ahead, or the
\* controller one lap ahead and not as far.
EventLaps == IF pcs = ecycle_bit_ THEN erdp <= enqueue ELSE enqueue < erdp
SlotCycles == \A n \in ER!Slots : ebuf_[n].cycle = IF n < enqueue THEN pcs ELSE ~pcs
FrontHeld == epc # "pop" => front = NoTRB
EventIInv == ER!TypeOK /\ EventLaps /\ SlotCycles /\ ER!FrontStays /\ FrontHeld

\* The comparison of one cycle bit is exact.
LEMMA Exact == ER!EventRingAssumption /\ EventIInv => ER!HasFrontIsExact
<1> SUFFICES ASSUME ER!EventRingAssumption, EventIInv PROVE ER!HasFront <=> enqueue # erdp
  BY DEF ER!HasFrontIsExact
<1>1. erdp \in ER!Slots /\ enqueue \in ER!Slots /\ pcs \in BOOLEAN /\ ecycle_bit_ \in BOOLEAN
  BY DEF EventIInv, ER!TypeOK
<1>2. ebuf_[erdp].cycle = IF erdp < enqueue THEN pcs ELSE ~pcs
  BY <1>1 DEF EventIInv, SlotCycles
<1>3. CASE pcs = ecycle_bit_ BY <1>1, <1>2, <1>3 DEF EventIInv, EventLaps, ER!HasFront, ER!Slots, ER!EventRingAssumption
<1>4. CASE pcs # ecycle_bit_ BY <1>1, <1>2, <1>4 DEF EventIInv, EventLaps, ER!HasFront, ER!Slots, ER!EventRingAssumption
<1> QED BY <1>3, <1>4

LEMMA FollowingIsSlot ==
  ASSUME ER!EventRingAssumption, NEW n \in ER!Slots
  PROVE  ER!Following(n) \in ER!Slots /\ (n # ebuf_size_ - 1 => ER!Following(n) = n + 1)
BY DEF ER!EventRingAssumption, ER!Slots, ER!Following

LEMMA InitEventIInv == ER!EventRingAssumption /\ ER!Init => EventIInv
<1> SUFFICES ASSUME ER!EventRingAssumption, ER!Init PROVE EventIInv
  OBVIOUS
<1>1. 0 \in ER!Slots BY DEF ER!EventRingAssumption, ER!Slots
<1>2. ER!TypeOK BY <1>1 DEF ER!Init, ER!TypeOK
<1>3. SlotCycles
  <2> SUFFICES ASSUME NEW n \in ER!Slots PROVE ebuf_[n].cycle = IF n < enqueue THEN pcs ELSE ~pcs
    BY DEF SlotCycles
  <2>1. ~(n < enqueue) BY DEF ER!Init, ER!Slots, ER!EventRingAssumption
  <2> QED BY <2>1 DEF ER!Init
<1>4. EventLaps /\ ER!FrontStays /\ FrontHeld BY DEF ER!Init, EventLaps, ER!FrontStays, FrontHeld
<1> QED BY <1>2, <1>3, <1>4 DEF EventIInv

\* A post fills the slot at the controller's position and moves on, which the
\* test for a full ring keeps from reaching the driver.
LEMMA PostPreserves ==
  ASSUME ER!EventRingAssumption, EventIInv, NEW e \in Events, ER!PostEvent(e)
  PROVE  EventIInv'
<1>1. /\ erdp \in ER!Slots /\ enqueue \in ER!Slots /\ pcs \in BOOLEAN /\ ecycle_bit_ \in BOOLEAN
      /\ ebuf_ \in [ER!Slots -> [event : Events \cup {NoTRB}, cycle : BOOLEAN]]
  BY DEF EventIInv, ER!TypeOK
<1>2. /\ enqueue' = ER!Following(enqueue) /\ ER!Following(enqueue) # erdp
      /\ ebuf_' = [ebuf_ EXCEPT ![enqueue] = [event |-> e, cycle |-> pcs]]
      /\ pcs' = IF enqueue = ebuf_size_ - 1 THEN ~pcs ELSE pcs
      /\ UNCHANGED <<erdp, ecycle_bit_, epc, front, ehb, interrupt>>
  BY DEF ER!PostEvent, ER!Full, ER!driverVars
<1>3. enqueue' \in ER!Slots BY <1>1, <1>2, FollowingIsSlot
<1>4. ER!TypeOK'
  <2>1. ebuf_' \in [ER!Slots -> [event : Events \cup {NoTRB}, cycle : BOOLEAN]] BY <1>1, <1>2
  <2> QED BY <2>1, <1>1, <1>2, <1>3 DEF EventIInv, ER!TypeOK
<1>5. EventLaps'
  BY <1>1, <1>2 DEF EventIInv, EventLaps, ER!Following, ER!Slots, ER!EventRingAssumption
<1>6. SlotCycles'
  <2> SUFFICES ASSUME NEW n \in ER!Slots PROVE ebuf_'[n].cycle = IF n < enqueue' THEN pcs' ELSE ~pcs'
    BY DEF SlotCycles
  <2>1. ebuf_[n].cycle = IF n < enqueue THEN pcs ELSE ~pcs BY DEF EventIInv, SlotCycles
  <2>2. ebuf_'[n].cycle = IF n = enqueue THEN pcs ELSE ebuf_[n].cycle BY <1>1, <1>2
  <2>3. CASE enqueue = ebuf_size_ - 1
    <3>1. enqueue' = 0 /\ pcs' = ~pcs BY <2>3, <1>2 DEF ER!Following
    <3>2. n < enqueue \/ n = enqueue BY <2>3, <1>1 DEF ER!Slots, ER!EventRingAssumption
    <3>3. ~(n < enqueue') BY <3>1 DEF ER!Slots, ER!EventRingAssumption
    <3>4. ebuf_'[n].cycle = pcs BY <3>2, <2>1, <2>2
    <3> QED BY <3>1, <3>3, <3>4, <1>1
  <2>4. CASE enqueue # ebuf_size_ - 1
    <3>1. enqueue' = enqueue + 1 /\ pcs' = pcs BY <2>4, <1>2 DEF ER!Following
    <3>2. n < enqueue' <=> n < enqueue \/ n = enqueue BY <3>1, <1>1 DEF ER!Slots, ER!EventRingAssumption
    <3> QED BY <3>1, <3>2, <2>1, <2>2
  <2> QED BY <2>3, <2>4
<1>7. ER!FrontStays'
  <2> SUFFICES ASSUME epc = "pop" PROVE enqueue' # erdp' /\ ebuf_'[erdp].event = front
    BY <1>2 DEF ER!FrontStays
  <2>1. enqueue # erdp /\ ebuf_[erdp].event = front BY DEF EventIInv, ER!FrontStays
  <2>2. ebuf_'[erdp] = ebuf_[erdp] BY <2>1, <1>1, <1>2
  <2> QED BY <2>1, <2>2, <1>2
<1>8. FrontHeld' BY <1>2 DEF EventIInv, FrontHeld
<1> QED BY <1>4, <1>5, <1>6, <1>7, <1>8 DEF EventIInv

\* Pop moves the driver on; the front was there, so it does not overtake.
LEMMA PopPreserves ==
  ASSUME ER!EventRingAssumption, EventIInv, ER!Pop
  PROVE  EventIInv'
<1>1. /\ erdp \in ER!Slots /\ enqueue \in ER!Slots /\ pcs \in BOOLEAN /\ ecycle_bit_ \in BOOLEAN
  BY DEF EventIInv, ER!TypeOK
<1>2. /\ epc = "pop" /\ epc' = "loop" /\ front' = NoTRB /\ ehb' = FALSE
      /\ erdp' = ER!Following(erdp)
      /\ ecycle_bit_' = IF erdp = ebuf_size_ - 1 THEN ~ecycle_bit_ ELSE ecycle_bit_
      /\ UNCHANGED <<ebuf_, enqueue, pcs, interrupt>>
  BY DEF ER!Pop
<1>3. enqueue # erdp BY <1>2 DEF EventIInv, ER!FrontStays
<1>4. erdp' \in ER!Slots BY <1>1, <1>2, FollowingIsSlot
<1>5. ER!TypeOK' BY <1>1, <1>2, <1>4 DEF EventIInv, ER!TypeOK
<1>6. EventLaps' BY <1>1, <1>2, <1>3 DEF EventIInv, EventLaps, ER!Following, ER!Slots, ER!EventRingAssumption
<1>7. SlotCycles' BY <1>2 DEF EventIInv, SlotCycles
<1>8. ER!FrontStays' /\ FrontHeld' BY <1>2 DEF ER!FrontStays, FrontHeld
<1> QED BY <1>5, <1>6, <1>7, <1>8 DEF EventIInv

LEMMA StepEventIInv == ER!EventRingAssumption /\ EventIInv /\ [ER!Next]_(ER!vars) => EventIInv'
<1> SUFFICES ASSUME ER!EventRingAssumption, EventIInv, [ER!Next]_(ER!vars) PROVE EventIInv'
  OBVIOUS
<1>1. ASSUME NEW e \in Events, ER!PostEvent(e) PROVE EventIInv' BY <1>1, PostPreserves
<1>2. CASE ER!RaiseInterrupt
  BY <1>2 DEF ER!RaiseInterrupt, ER!driverVars, EventIInv, ER!TypeOK, EventLaps, SlotCycles, ER!FrontStays, FrontHeld
<1>3. CASE ER!StartProcessing
  BY <1>3 DEF ER!StartProcessing, EventIInv, ER!TypeOK, EventLaps, SlotCycles, ER!FrontStays, FrontHeld
<1>4. CASE ER!StopProcessing
  BY <1>4 DEF ER!StopProcessing, EventIInv, ER!TypeOK, EventLaps, SlotCycles, ER!FrontStays, FrontHeld
<1>5. CASE ER!HandleFront
  <2>1. /\ epc' = "pop" /\ front' = ebuf_[erdp].event
        /\ UNCHANGED <<ebuf_, enqueue, pcs, erdp, ecycle_bit_, ehb, interrupt>>
    BY <1>5 DEF ER!HandleFront
  <2>2. enqueue # erdp BY <1>5, Exact DEF ER!HandleFront, ER!HasFrontIsExact
  <2>3. ebuf_[erdp].event \in Events \cup {NoTRB} BY DEF EventIInv, ER!TypeOK
  <2>4. ER!TypeOK' BY <2>1, <2>3 DEF EventIInv, ER!TypeOK
  <2> QED BY <2>1, <2>2, <2>4 DEF EventIInv, EventLaps, SlotCycles, ER!FrontStays, FrontHeld
<1>6. CASE ER!Pop BY <1>6, PopPreserves
<1>7. CASE UNCHANGED ER!vars
  BY <1>7 DEF ER!vars, ER!driverVars, EventIInv, ER!TypeOK, EventLaps, SlotCycles, ER!FrontStays, FrontHeld
<1> QED BY <1>1, <1>2, <1>3, <1>4, <1>5, <1>6, <1>7 DEF ER!Next

\* The driver's test for a new event is exact, and the event a handler works
\* on stays in place until Pop, whatever the number of slots and laps.
THEOREM EventRingInvariant ==
  ASSUME ER!EventRingAssumption
  PROVE  ER!Spec => []ER!EventRingInv
<1>1. ER!Init => EventIInv BY InitEventIInv
<1>2. EventIInv /\ [ER!Next]_(ER!vars) => EventIInv' BY StepEventIInv
<1>3. EventIInv => ER!EventRingInv BY Exact DEF EventIInv, ER!EventRingInv
<1> QED BY <1>1, <1>2, <1>3, PTL DEF ER!Spec
-----------------------------------------------------------------------------
(* The refinement of Fifo *)

\* What the refinement mapping is: the events from the first one that no
\* handler has seen to the controller's position.
Seen == IF epc = "pop" THEN 1 ELSE 0
EventContent == Events \cup {NoTRB}

LEMMA UnhandledIs ==
  ASSUME ER!EventRingAssumption, EventIInv
  PROVE  /\ ER!Pending \in 0..(ebuf_size_ - 1) /\ Seen \in 0..1 /\ ER!Pending - Seen \in Nat
         /\ ER!Unhandled \in [1..(ER!Pending - Seen) -> EventContent]
         /\ \A i \in 1..(ER!Pending - Seen) : ER!Unhandled[i] = ebuf_[ER!SlotOf(i + Seen)].event
         /\ \A i \in 1..ER!Pending : ER!SlotOf(i) \in ER!Slots /\ ER!SlotOf(i) # enqueue
         /\ ER!Pending < ebuf_size_ - 1 => ER!SlotOf(ER!Pending + 1) = enqueue
<1>1. /\ erdp \in ER!Slots /\ enqueue \in ER!Slots /\ pcs \in BOOLEAN /\ ecycle_bit_ \in BOOLEAN
      /\ ebuf_ \in [ER!Slots -> [event : EventContent, cycle : BOOLEAN]]
  BY DEF EventIInv, ER!TypeOK, EventContent
<1>2. ER!Pending \in 0..(ebuf_size_ - 1) /\ Seen \in 0..1
  BY <1>1 DEF EventIInv, EventLaps, ER!Pending, ER!Slots, ER!EventRingAssumption, Seen
<1>3. ER!Pending - Seen \in Nat
  <2>1. epc = "pop" => ER!Pending # 0 BY <1>1 DEF EventIInv, EventLaps, ER!FrontStays, ER!Pending, ER!Slots, ER!EventRingAssumption
  <2> QED BY <2>1, <1>2 DEF Seen
<1>4. \A i \in 1..ER!Pending : ER!SlotOf(i) \in ER!Slots /\ ER!SlotOf(i) # enqueue
  BY <1>1, <1>2 DEF EventIInv, EventLaps, ER!Pending, ER!Slots, ER!EventRingAssumption, ER!SlotOf
<1>5. ER!SlotOf(ER!Pending + 1) = enqueue
  BY <1>1, <1>2 DEF EventIInv, EventLaps, ER!Pending, ER!Slots, ER!EventRingAssumption, ER!SlotOf
<1>6. ER!Queue \in [1..ER!Pending -> EventContent] /\ \A i \in 1..ER!Pending : ER!Queue[i] = ebuf_[ER!SlotOf(i)].event
  <2>1. \A i \in 1..ER!Pending : ebuf_[ER!SlotOf(i)].event \in EventContent BY <1>1, <1>4
  <2> QED BY <2>1 DEF ER!Queue
<1>7. CASE epc = "pop"
  <2> DEFINE r == SubSeq(ER!Queue, 2, ER!Pending)
  <2>1. Seen = 1 /\ ER!Pending >= 1 /\ ER!Pending \in Nat BY <1>2, <1>3, <1>7 DEF Seen
  <2>2. r \in Seq(EventContent) /\ Len(r) = ER!Pending - 1 /\ \A i \in 1..(ER!Pending - 1) : r[i] = ER!Queue[i + 1]
    <3>1. \A i \in 2..ER!Pending : ER!Queue[i] \in EventContent BY <1>6, <2>1
    <3>2. /\ r \in Seq(EventContent) /\ Len(r) = IF 2 <= ER!Pending THEN ER!Pending - 2 + 1 ELSE 0
          /\ \A i \in 1..(ER!Pending - 2 + 1) : r[i] = ER!Queue[2 + i - 1]
      BY <3>1, <2>1, SubSeqProperties
    <3> HIDE DEF r
    <3>3. Len(r) = ER!Pending - 1 BY <3>2, <2>1
    <3>4. \A i \in 1..(ER!Pending - 1) : r[i] = ER!Queue[i + 1]
      <4> SUFFICES ASSUME NEW i \in 1..(ER!Pending - 1) PROVE r[i] = ER!Queue[i + 1] OBVIOUS
      <4>1. i \in 1..(ER!Pending - 2 + 1) /\ 2 + i - 1 = i + 1 BY <2>1
      <4> QED BY <4>1, <3>2
    <3> QED BY <3>2, <3>3, <3>4
  <2>3. ER!Unhandled = r BY <1>7 DEF ER!Unhandled
  <2> HIDE DEF r
  <2>4. ER!Unhandled \in [1..(ER!Pending - 1) -> EventContent] BY <2>2, <2>3, LenProperties
  <2>5. \A i \in 1..(ER!Pending - 1) : ER!Unhandled[i] = ebuf_[ER!SlotOf(i + 1)].event
    <3> SUFFICES ASSUME NEW i \in 1..(ER!Pending - 1) PROVE ER!Unhandled[i] = ebuf_[ER!SlotOf(i + 1)].event
      OBVIOUS
    <3>1. i + 1 \in 1..ER!Pending BY <2>1
    <3> QED BY <3>1, <2>2, <2>3, <1>6
  <2> QED BY <2>1, <2>4, <2>5, <1>2, <1>3, <1>4, <1>5
<1>8. CASE epc # "pop"
  <2>1. Seen = 0 /\ ER!Unhandled = ER!Queue BY <1>8 DEF Seen, ER!Unhandled
  <2>2. ER!Pending - 0 = ER!Pending /\ \A i \in 1..ER!Pending : i + 0 = i BY <1>2
  <2> QED BY <2>1, <2>2, <1>2, <1>3, <1>4, <1>5, <1>6
<1> QED BY <1>7, <1>8

LEMMA UnhandledNext ==
  ASSUME ER!EventRingAssumption, EventIInv'
  PROVE  /\ ER!Pending' \in 0..(ebuf_size_ - 1) /\ Seen' \in 0..1 /\ (ER!Pending - Seen)' \in Nat
         /\ ER!Unhandled' \in [1..(ER!Pending - Seen)' -> EventContent]
         /\ \A i \in 1..(ER!Pending - Seen)' : ER!Unhandled'[i] = ebuf_'[ER!SlotOf(i + Seen)'].event
<1>1. (ER!EventRingAssumption /\ EventIInv =>
      /\ ER!Pending \in 0..(ebuf_size_ - 1) /\ Seen \in 0..1 /\ (ER!Pending - Seen) \in Nat
         /\ ER!Unhandled \in [1..(ER!Pending - Seen) -> EventContent]
         /\ \A i \in 1..(ER!Pending - Seen) : ER!Unhandled[i] = ebuf_[ER!SlotOf(i + Seen)].event)'
  BY UnhandledIs, PTL
<1> QED BY <1>1

\* Every step of the ring is a step of the channel, or leaves it alone: a post
\* is Put, the start of a handler Get, Pop is Finish.
LEMMA PostIsPut ==
  ASSUME ER!EventRingAssumption, EventIInv, EventIInv', NEW e \in Events, ER!PostEvent(e)
  PROVE  ER!FF!Put(e)
<1>1. /\ erdp \in ER!Slots /\ enqueue \in ER!Slots /\ pcs \in BOOLEAN /\ ecycle_bit_ \in BOOLEAN
      /\ ebuf_ \in [ER!Slots -> [event : EventContent, cycle : BOOLEAN]]
  BY DEF EventIInv, ER!TypeOK, EventContent
<1>2. /\ enqueue' = ER!Following(enqueue) /\ ER!Following(enqueue) # erdp
      /\ ebuf_' = [ebuf_ EXCEPT ![enqueue] = [event |-> e, cycle |-> pcs]]
      /\ pcs' = IF enqueue = ebuf_size_ - 1 THEN ~pcs ELSE pcs
      /\ UNCHANGED <<erdp, ecycle_bit_, epc, front>>
  BY DEF ER!PostEvent, ER!Full, ER!driverVars
<1> DEFINE n == ER!Pending - Seen
<1>3. ER!Pending < ebuf_size_ - 1 /\ ER!Pending' = ER!Pending + 1
  BY <1>1, <1>2 DEF EventIInv, EventLaps, ER!Pending, ER!Following, ER!Slots, ER!EventRingAssumption
<1>4. Seen' = Seen /\ \A i : ER!SlotOf(i)' = ER!SlotOf(i)
  BY <1>2 DEF Seen, ER!SlotOf
<1>5. /\ ER!Pending \in 0..(ebuf_size_ - 1) /\ Seen \in 0..1 /\ n \in Nat
      /\ ER!Unhandled \in [1..n -> EventContent]
      /\ \A i \in 1..n : ER!Unhandled[i] = ebuf_[ER!SlotOf(i + Seen)].event
      /\ \A i \in 1..ER!Pending : ER!SlotOf(i) \in ER!Slots /\ ER!SlotOf(i) # enqueue
      /\ ER!SlotOf(ER!Pending + 1) = enqueue
  BY <1>3, UnhandledIs
<1>6. n' = n + 1 BY <1>3, <1>4, <1>5
<1>7. /\ ER!Unhandled' \in [1..(n + 1) -> EventContent]
      /\ \A i \in 1..(n + 1) : ER!Unhandled'[i] = ebuf_'[ER!SlotOf(i + Seen)].event
  BY <1>4, <1>6, UnhandledNext
<1>8. \A i \in 1..n : ER!Unhandled'[i] = ER!Unhandled[i]
  <2> SUFFICES ASSUME NEW i \in 1..n PROVE ER!Unhandled'[i] = ER!Unhandled[i] OBVIOUS
  <2>1. i + Seen \in 1..ER!Pending BY <1>5
  <2>2. ebuf_'[ER!SlotOf(i + Seen)] = ebuf_[ER!SlotOf(i + Seen)] BY <2>1, <1>1, <1>2, <1>5
  <2>3. i \in 1..(n + 1) BY <1>5
  <2> QED BY <2>2, <2>3, <1>5, <1>7
<1>9. ER!Unhandled'[n + 1] = e
  <2>1. n + 1 \in 1..(n + 1) /\ (n + 1) + Seen = ER!Pending + 1 BY <1>5
  <2>2. ebuf_'[enqueue].event = e BY <1>1, <1>2
  <2> QED BY <2>1, <2>2, <1>5, <1>7
<1> HIDE DEF n
<1>10. ER!Unhandled' = Append(ER!Unhandled, e) BY <1>5, <1>7, <1>8, <1>9, FnAppend
<1>11. Len(ER!Unhandled) < ebuf_size_ - 1
  <2>1. Len(ER!Unhandled) = n BY <1>5, FnIsSeq
  <2> QED BY <2>1, <1>3, <1>5 DEF n, ER!EventRingAssumption
<1> QED BY <1>10, <1>11, <1>2 DEF ER!FF!Put

LEMMA HandleIsGet ==
  ASSUME ER!EventRingAssumption, EventIInv, EventIInv', ER!HandleFront
  PROVE  ER!FF!Get
<1>1. /\ epc = "loop" /\ epc' = "pop" /\ front' = ebuf_[erdp].event
      /\ UNCHANGED <<ebuf_, enqueue, pcs, erdp, ecycle_bit_>>
  BY DEF ER!HandleFront
<1>2. Seen = 0 /\ Seen' = 1 /\ ER!Pending' = ER!Pending /\ \A i : ER!SlotOf(i)' = ER!SlotOf(i)
  BY <1>1 DEF Seen, ER!Pending, ER!SlotOf
<1>3. /\ ER!Pending \in 0..(ebuf_size_ - 1) /\ ER!Pending - 0 \in Nat
      /\ ER!Unhandled \in [1..(ER!Pending - 0) -> EventContent]
      /\ \A i \in 1..(ER!Pending - 0) : ER!Unhandled[i] = ebuf_[ER!SlotOf(i + 0)].event
  BY <1>2, UnhandledIs
<1>4. /\ ER!Pending - 1 \in Nat
      /\ ER!Unhandled' \in [1..(ER!Pending - 1) -> EventContent]
      /\ \A i \in 1..(ER!Pending - 1) : ER!Unhandled'[i] = ebuf_[ER!SlotOf(i + 1)].event
  BY <1>1, <1>2, UnhandledNext
<1>5. \A i \in 1..(ER!Pending - 1) : ER!Unhandled'[i] = ER!Unhandled[i + 1]
  <2> SUFFICES ASSUME NEW i \in 1..(ER!Pending - 1) PROVE ER!Unhandled'[i] = ER!Unhandled[i + 1] OBVIOUS
  <2>1. i + 1 \in 1..(ER!Pending - 0) /\ (i + 1) + 0 = i + 1 BY <1>3
  <2> QED BY <2>1, <1>3, <1>4
<1>6. ER!Unhandled # <<>> /\ Head(ER!Unhandled) = ER!Unhandled[1] /\ Tail(ER!Unhandled) = ER!Unhandled'
  <2>1. ER!Pending \in Nat /\ ER!Pending >= 1 /\ ER!Unhandled \in [1..ER!Pending -> EventContent] BY <1>3, <1>4
  <2> QED BY <2>1, <1>4, <1>5, FnTail
<1>7. ER!Unhandled[1] = ebuf_[erdp].event
  <2>1. 1 \in 1..(ER!Pending - 0) /\ 1 + 0 = 1 BY <1>3, <1>4
  <2>2. ER!SlotOf(1) = erdp BY DEF EventIInv, ER!TypeOK, ER!SlotOf, ER!Slots, ER!EventRingAssumption
  <2> QED BY <2>1, <2>2, <1>3
<1> QED BY <1>1, <1>6, <1>7 DEF ER!FF!Get

LEMMA PopIsFinish ==
  ASSUME ER!EventRingAssumption, EventIInv, EventIInv', ER!Pop
  PROVE  ER!FF!Finish
<1>1. /\ erdp \in ER!Slots /\ enqueue \in ER!Slots /\ pcs \in BOOLEAN /\ ecycle_bit_ \in BOOLEAN
  BY DEF EventIInv, ER!TypeOK
<1>2. /\ epc = "pop" /\ epc' = "loop" /\ front' = NoTRB
      /\ erdp' = ER!Following(erdp)
      /\ ecycle_bit_' = IF erdp = ebuf_size_ - 1 THEN ~ecycle_bit_ ELSE ecycle_bit_
      /\ UNCHANGED <<ebuf_, enqueue, pcs>>
  BY DEF ER!Pop
<1>3. enqueue # erdp BY <1>2 DEF EventIInv, ER!FrontStays
<1>4. Seen = 1 /\ Seen' = 0 BY <1>2 DEF Seen
<1>5. ER!Pending' = ER!Pending - 1
  BY <1>1, <1>2, <1>3 DEF EventIInv, EventLaps, ER!Pending, ER!Following, ER!Slots, ER!EventRingAssumption
<1>6. /\ ER!Pending \in 0..(ebuf_size_ - 1) /\ ER!Pending - 1 \in Nat
      /\ ER!Unhandled \in [1..(ER!Pending - 1) -> EventContent]
      /\ \A i \in 1..(ER!Pending - 1) : ER!Unhandled[i] = ebuf_[ER!SlotOf(i + 1)].event
  BY <1>4, UnhandledIs
<1>7. (ER!Pending - Seen)' = ER!Pending - 1 BY <1>4, <1>5, <1>6
<1>8. /\ ER!Unhandled' \in [1..(ER!Pending - 1) -> EventContent]
      /\ \A i \in 1..(ER!Pending - 1) : ER!Unhandled'[i] = ebuf_[ER!SlotOf(i + 0)'].event
  BY <1>2, <1>4, <1>7, UnhandledNext
<1>9. \A i \in 1..(ER!Pending - 1) : ER!SlotOf(i + 0)' = ER!SlotOf(i + 1)
  BY <1>1, <1>2, <1>6 DEF ER!SlotOf, ER!Following, ER!Slots, ER!EventRingAssumption
<1>10. ER!Unhandled' = ER!Unhandled BY <1>6, <1>8, <1>9
<1> QED BY <1>2, <1>10 DEF ER!FF!Finish

\* Events are handled once each and in the order in which the controller
\* posted them, and no more than ebuf_size_ - 1 wait: the event ring is an
\* ordered channel, whatever its size and the number of laps.
THEOREM EventRingRefinesFifo ==
  ASSUME ER!EventRingAssumption
  PROVE  ER!Spec => ER!ImplementsFifo
<1>1. ER!Init => ER!FF!Init
  <2> SUFFICES ASSUME ER!Init PROVE ER!Unhandled = <<>> /\ front = NoTRB
    BY DEF ER!FF!Init
  <2>1. ER!Pending = 0 /\ epc # "pop" /\ front = NoTRB BY DEF ER!Init, ER!Pending
  <2>2. ER!Unhandled = [k \in 1..0 |-> ebuf_[ER!SlotOf(k)].event] BY <2>1 DEF ER!Unhandled, ER!Queue
  <2> QED BY <2>1, <2>2
<1>2. EventIInv /\ EventIInv' /\ [ER!Next]_(ER!vars) => [ER!FF!Next]_(ER!FF!vars)
  <2> SUFFICES ASSUME EventIInv, EventIInv', [ER!Next]_(ER!vars) PROVE [ER!FF!Next]_(ER!FF!vars)
    OBVIOUS
  <2>1. ASSUME NEW e \in Events, ER!PostEvent(e) PROVE ER!FF!Next BY <2>1, PostIsPut DEF ER!FF!Next
  <2>2. CASE ER!HandleFront BY <2>2, HandleIsGet DEF ER!FF!Next
  <2>3. CASE ER!Pop BY <2>3, PopIsFinish DEF ER!FF!Next
  <2>4. ASSUME UNCHANGED <<ebuf_, enqueue, pcs, erdp, ecycle_bit_, front>>, epc # "pop", epc' # "pop"
        PROVE  UNCHANGED <<ER!Unhandled, front>>
    BY <2>4 DEF ER!Unhandled, ER!Queue, ER!Pending, ER!SlotOf
  <2>5. ASSUME UNCHANGED <<ebuf_, enqueue, pcs, erdp, ecycle_bit_, front, epc>>
        PROVE  UNCHANGED <<ER!Unhandled, front>>
    BY <2>5 DEF ER!Unhandled, ER!Queue, ER!Pending, ER!SlotOf
  <2>6. CASE ER!RaiseInterrupt BY <2>6, <2>5 DEF ER!RaiseInterrupt, ER!driverVars, ER!FF!vars
  <2>7. CASE ER!StartProcessing BY <2>7, <2>4 DEF ER!StartProcessing, ER!FF!vars
  <2>8. CASE ER!StopProcessing BY <2>8, <2>4 DEF ER!StopProcessing, ER!FF!vars
  <2>9. CASE UNCHANGED ER!vars BY <2>9, <2>5 DEF ER!vars, ER!driverVars, ER!FF!vars
  <2> QED BY <2>1, <2>2, <2>3, <2>6, <2>7, <2>8, <2>9 DEF ER!Next
<1>3. ER!Init => EventIInv BY InitEventIInv
<1>4. EventIInv /\ [ER!Next]_(ER!vars) => EventIInv' BY StepEventIInv
<1> QED BY <1>1, <1>2, <1>3, <1>4, PTL DEF ER!Spec, ER!ImplementsFifo, ER!FF!Spec

-----------------------------------------------------------------------------
(***************************************************************************)
(* The composition.  Every step of Transport is a step of each ring or     *)
(* leaves it alone, so that what was proved of the rings holds of the      *)
(* whole.  That the controller answers with an event of the event ring     *)
(* needs what the command ring promises: a block it takes is one that was  *)
(* pushed.                                                                 *)
(***************************************************************************)

\* What is on the way was pushed, and so is what the xHC takes.
Pushed == Queue \in Seq(TRBs)

LEMMA InitPushed == Init => Pushed
<1> SUFFICES ASSUME Init PROVE Pushed
  OBVIOUS
<1>1. InFlight = 0 BY DEF Init, InFlight
<1>2. Queue = [k \in 1..0 |-> buf_[SlotOf(k)].body] BY <1>1 DEF Queue
<1> QED BY <1>2 DEF Pushed

LEMMA StepPushed == IInv /\ IInv' /\ Pushed /\ [Next]_vars => Pushed'
<1> SUFFICES ASSUME Pushed, [FF!Next]_(FF!vars) PROVE Pushed'
  BY StepIsFifo
<1>1. ASSUME NEW t \in TRBs, FF!Put(t) PROVE Pushed'
  BY <1>1, AppendProperties DEF FF!Put, Pushed
<1>2. CASE FF!Get
  <2>1. Queue # <<>> /\ Queue' = Tail(Queue) BY <1>2 DEF FF!Get
  <2> QED BY <2>1, HeadTailProperties DEF Pushed
<1>3. CASE FF!Finish BY <1>3 DEF FF!Finish, Pushed
<1>4. CASE UNCHANGED FF!vars BY <1>4 DEF FF!vars, Pushed
<1> QED BY <1>1, <1>2, <1>3, <1>4 DEF FF!Next

LEMMA TakenWasPushed ==
  ASSUME IInv, IInv', Pushed, Execute
  PROVE  got' \in TRBs
<1>1. Queue # <<>> /\ got' = Head(Queue) BY ExecuteIsGet DEF FF!Get
<1> QED BY <1>1, HeadTailProperties DEF Pushed

\* The steps of Transport that a ring does not see.
LEMMA SetUpLeavesRings ==
  ASSUME Initialize \/ BiosLetsGo \/ FollowRunStop \/ Stop
  PROVE  UNCHANGED <<vars, eventVars>>
<1> USE DEF SetUpKeeping, SetUpAlloc, SetUpRegs, SetUp
<1>1. CASE Initialize
  BY <1>1 DEF Initialize, ScanPci, FindXhc, DeviceManagerInitialize, RequestHCOwnership,
    StopController, ResetController, SetMaxSlots, AllocScratchpads, SetDCBAAP, RingInitialize,
    RegisterCommandRing, EventRingInitialize, RegisterEventRing, EnableInterrupts, Run, Running
<1>2. CASE BiosLetsGo \/ FollowRunStop \/ Stop
  BY <1>2 DEF BiosLetsGo, FollowRunStop, Stop, allVars
<1> QED BY <1>1, <1>2

LEMMA TransportStepRing == [TransportNext]_allVars => [Next]_vars
<1> SUFFICES ASSUME [TransportNext]_allVars PROVE [Next]_vars
  OBVIOUS
<1>1. CASE Initialize \/ BiosLetsGo \/ FollowRunStop \/ Stop
  BY <1>1, SetUpLeavesRings
<1>2. CASE Controller \/ PortChanges
  BY <1>2 DEF Controller, PortChanges, ExecuteCommand, PassLink, RingEmpty, Interrupt, Next
<1>3. CASE Main
  BY <1>3 DEF Main, BeginEvents, EndEvents, HandleEvent, ContinuePush, RingDoorbell, EndEvent, Next
<1>4. CASE \E t \in TRBs : IssueCommand(t)
  BY <1>4 DEF IssueCommand, Next
<1>5. CASE UNCHANGED allVars
  BY <1>5 DEF allVars
<1> QED BY <1>1, <1>2, <1>3, <1>4, <1>5 DEF TransportNext

LEMMA TransportStepEvents ==
  IInv /\ IInv' /\ Pushed /\ [TransportNext]_allVars => [ER!Next]_(ER!vars)
<1> SUFFICES ASSUME IInv, IInv', Pushed, [TransportNext]_allVars PROVE [ER!Next]_(ER!vars)
  OBVIOUS
<1>0. eventVars' = eventVars => UNCHANGED ER!vars
  BY DEF eventVars, ER!vars, ER!driverVars
<1>1. CASE Initialize \/ BiosLetsGo \/ FollowRunStop \/ Stop
  BY <1>0, <1>1, SetUpLeavesRings
<1>2. CASE ExecuteCommand
  <2>1. Execute /\ ER!PostEvent(got') BY <1>2 DEF ExecuteCommand
  <2>2. got' \in Events BY <2>1, TakenWasPushed DEF Events
  <2> QED BY <2>1, <2>2 DEF ER!Next
<1>3. CASE PortChanges
  <2>1. ER!PostEvent(PortEvent) /\ PortEvent \in Events BY <1>3 DEF PortChanges, Events
  <2> QED BY <2>1 DEF ER!Next
<1>4. CASE PassLink \/ RingEmpty
  BY <1>0, <1>4 DEF PassLink, RingEmpty
<1>5. CASE Interrupt
  BY <1>5 DEF Interrupt, ER!Next
<1>6. CASE BeginEvents \/ EndEvents \/ HandleEvent \/ EndEvent
  BY <1>6 DEF BeginEvents, EndEvents, HandleEvent, EndEvent, ER!Next
<1>7. CASE ContinuePush \/ RingDoorbell \/ \E t \in TRBs : IssueCommand(t)
  BY <1>0, <1>7 DEF ContinuePush, RingDoorbell, IssueCommand
<1>8. CASE UNCHANGED allVars
  BY <1>0, <1>8 DEF allVars
<1> QED BY <1>1, <1>2, <1>3, <1>4, <1>5, <1>6, <1>7, <1>8 DEF TransportNext, Controller, Main

\* The command ring stays an ordered channel whatever the event ring, the
\* handlers and the set-up do around it.
THEOREM CommandsInOrder == TransportSpec => ImplementsFifo /\ []RingInv
<1>1. TransportInit => Init BY DEF TransportInit
<1> QED BY <1>1, TransportStepRing, RingRefinesFifo, RingInvariant, PTL DEF TransportSpec, Spec

\* TransportSpec takes the event ring through a behaviour of its own.
LEMMA EventsBehave == TransportSpec => ER!Spec
<1>1. TransportInit => Init /\ ER!Init BY DEF TransportInit
<1>2. IInv /\ [TransportNext]_allVars => IInv' BY StepIInv, TransportStepRing
<1>3. IInv /\ Pushed /\ [TransportNext]_allVars => Pushed'
  BY <1>2, StepPushed, TransportStepRing
<1>4. IInv /\ Pushed /\ [TransportNext]_allVars => [ER!Next]_(ER!vars)
  BY <1>2, TransportStepEvents
<1> QED BY <1>1, <1>2, <1>3, <1>4, InitIInv, InitPushed, PTL DEF TransportSpec, ER!Spec

\* The event ring is an ordered channel also when the events answer commands
\* that handlers issue while they work on earlier events.
THEOREM EventsInOrder == TransportSpec => EventRingIsFifo /\ []ER!EventRingInv
<1>1. ER!EventRingAssumption BY TransportAssumption
<1>2. ER!Spec => ER!ImplementsFifo /\ []ER!EventRingInv
  <2>1. ER!Spec => ER!ImplementsFifo BY <1>1, EventRingRefinesFifo
  <2>2. ER!Spec => []ER!EventRingInv BY <1>1, EventRingInvariant
  <2> QED BY <2>1, <2>2
<1> QED BY <1>2, EventsBehave, PTL DEF EventRingIsFifo

-----------------------------------------------------------------------------
(***************************************************************************)
(* The memory pool.  alloc_ptr is above everything handed out, so a block  *)
(* taken there overlaps none; that it keeps to its alignment and boundary  *)
(* is arithmetic about Ceil.                                               *)
(***************************************************************************)

\* Ceil is the least multiple of a from x on.
LEMMA CeilIs ==
  ASSUME NEW x \in Nat, NEW a \in Nat \ {0}
  PROVE  \E q \in Nat : /\ Ceil(x, a) = q * a /\ x <= q * a
                        /\ q * a < x + a
<1> DEFINE y == x + a - 1
           q == y \div a
<1>1. y \in Nat /\ a > 0 OBVIOUS
<1> HIDE DEF y
<1>2. q \in Nat /\ y = a * q + (y % a) /\ y % a \in 0..(a - 1) BY <1>1
<1>3. y = x + a - 1 BY DEF y
<1>4. PICK m \in Nat : m = q * a BY <1>2
<1>5. a * q = m BY <1>2, <1>4
<1>6. x <= m /\ m < x + a
  <2>1. y = m + (y % a) BY <1>2, <1>5
  <2> QED BY <1>2, <1>3, <1>4, <2>1
<1>7. Ceil(x, a) = m BY <1>4 DEF Ceil, y
<1> QED BY <1>2, <1>4, <1>6, <1>7

\* The numbers from one multiple of a up to the next all have its quotient.
LEMMA SameQuotient ==
  ASSUME NEW a \in Nat \ {0}, NEW q \in Int, NEW y \in Nat, q * a <= y, y < q * a + a
  PROVE  y \div a = q
OBVIOUS

LEMMA MultipleOf ==
  ASSUME NEW a \in Nat \ {0}, NEW q \in Nat
  PROVE  (q * a) % a = 0 /\ (q * a) \div a = q
OBVIOUS

\* size from x on crosses no multiple of a.
Within(x, size, a) == x \div a = (x + size - 1) \div a

\* What AllocMem promises of the place x of a block above ptr.
PlaceOK(x, ptr, size, alignment, boundary) ==
  /\ x \in Nat /\ ptr <= x
  /\ alignment > 0 => x % alignment = 0
  /\ size <= boundary => Within(x, size, boundary)

IsMultiple(m, a) == \E q \in Nat : m = q * a

\* Inside its boundary: from x, which is past one multiple, to no further than
\* the next.
LEMMA WithinBoundary ==
  ASSUME NEW a \in Nat \ {0}, NEW m \in Nat, IsMultiple(m, a),
         NEW x \in Nat, NEW size \in Nat \ {0}, m < x + a, x + size <= m
  PROVE  Within(x, size, a)
<1>1. PICK q \in Nat : m = q * a BY DEF IsMultiple
<1>2. PICK p \in Int : p = q - 1 OBVIOUS
<1>3. p * a = m - a BY <1>1, <1>2
<1>4. m - a <= x /\ x < m - a + a OBVIOUS
<1>5. x + size - 1 \in Nat /\ m - a <= x + size - 1 /\ x + size - 1 < m - a + a OBVIOUS
<1>6. x \div a = p BY <1>3, <1>4, SameQuotient
<1>7. (x + size - 1) \div a = p BY <1>3, <1>5, SameQuotient
<1> QED BY <1>6, <1>7 DEF Within

LEMMA FromBoundary ==
  ASSUME NEW a \in Nat \ {0}, NEW q \in Nat, NEW size \in Nat \ {0}, size <= a
  PROVE  Within(q * a, size, a)
<1>1. PICK m \in Nat : m = q * a OBVIOUS
<1>2. m + size - 1 \in Nat /\ m <= m + size - 1 /\ m + size - 1 < m + a BY <1>1
<1>3. (m + size - 1) \div a = q BY <1>1, <1>2, SameQuotient
<1> QED BY <1>1, <1>3, MultipleOf DEF Within

LEMMA AlignedIs ==
  ASSUME NEW ptr \in Nat, NEW alignment \in Nat
  PROVE  \E x \in Nat : /\ x = (IF alignment > 0 THEN Ceil(ptr, alignment) ELSE ptr)
                        /\ ptr <= x /\ (alignment > 0 => x % alignment = 0)
<1>1. CASE alignment > 0
  <2>1. alignment \in Nat \ {0} BY <1>1
  <2>2. PICK q \in Nat : Ceil(ptr, alignment) = q * alignment /\ ptr <= q * alignment BY <2>1, CeilIs
  <2>3. (q * alignment) % alignment = 0 /\ q * alignment \in Nat BY <2>1, MultipleOf
  <2> QED BY <1>1, <2>2, <2>3
<1>2. CASE ~(alignment > 0) BY <1>2
<1> QED BY <1>1, <1>2

\* The alignments AllocMem is called with: none, 1, or the boundary itself.
LEMMA PlacedIs ==
  ASSUME NEW ptr \in Nat, NEW size \in Nat \ {0}, NEW boundary \in Nat, NEW alignment \in {0, 1, boundary}
  PROVE  PlaceOK(Placed(ptr, size, alignment, boundary), ptr, size, alignment, boundary)
<1>0. alignment \in Nat OBVIOUS
<1>1. PICK x \in Nat : /\ x = (IF alignment > 0 THEN Ceil(ptr, alignment) ELSE ptr)
                       /\ ptr <= x /\ (alignment > 0 => x % alignment = 0)
  BY <1>0, AlignedIs
<1>2. Placed(ptr, size, alignment, boundary) =
        IF boundary > 0 /\ Ceil(x, boundary) < x + size THEN Ceil(x, boundary) ELSE x
  BY <1>1 DEF Placed
<1>3. CASE boundary = 0
  <2>1. ~(boundary > 0) /\ ~(size <= boundary) BY <1>3
  <2>2. Placed(ptr, size, alignment, boundary) = x BY <1>2, <2>1
  <2> QED BY <1>1, <2>1, <2>2 DEF PlaceOK
<1>4. CASE boundary # 0
  <2>1. boundary \in Nat \ {0} /\ boundary > 0 BY <1>4
  <2>2. PICK q \in Nat : Ceil(x, boundary) = q * boundary /\ x <= q * boundary /\ q * boundary < x + boundary
    BY <2>1, CeilIs
  <2>3. PICK m \in Nat : m = q * boundary BY <2>1
  <2>4. CASE m < x + size
    <3>1. Placed(ptr, size, alignment, boundary) = m BY <1>2, <2>1, <2>2, <2>3, <2>4
    <3>2. m % boundary = 0 BY <2>1, <2>3, MultipleOf
    <3>3. alignment > 0 => m % alignment = 0
      <4>1. alignment = 1 => m % alignment = 0 BY <2>3
      <4> QED BY <3>2, <4>1
    <3>4. ASSUME size <= boundary PROVE Within(m, size, boundary)
      BY <2>1, <2>3, <3>4, FromBoundary
    <3>5. ptr <= m BY <1>1, <2>2, <2>3
    <3> QED BY <3>1, <3>3, <3>4, <3>5 DEF PlaceOK
  <2>5. CASE ~(m < x + size)
    <3>1. Placed(ptr, size, alignment, boundary) = x BY <1>2, <2>1, <2>2, <2>3, <2>5
    <3>2. x + size <= m /\ m < x + boundary /\ IsMultiple(m, boundary)
      BY <2>1, <2>2, <2>3, <2>5 DEF IsMultiple
    <3>3. Within(x, size, boundary) BY <2>1, <3>2, WithinBoundary
    <3> QED BY <1>1, <3>1, <3>3 DEF PlaceOK
  <2> QED BY <2>4, <2>5
<1> QED BY <1>3, <1>4

Whats == {"devices_", "device_context_pointers_", "scratchpad", "cr_", "er_", "erst_"} \X Nat
MemBlocks == [what : Whats, first : Nat, size : Nat \ {0}, alignment : Nat, boundary : Nat]
Apart(b, c) == b.first + b.size <= c.first \/ c.first + c.size <= b.first
BlockOK(b, top, base) ==
  /\ base <= b.first /\ b.first + b.size <= top /\ b.first + b.size <= base + PoolSize
  /\ b.alignment > 0 => b.first % b.alignment = 0
  /\ b.size <= b.boundary => Within(b.first, b.size, b.boundary)

\* The pools there can be: every block in its place, and below alloc_ptr.
Pools(base) ==
  {p \in [ptr : Nat, blocks : SUBSET MemBlocks, nulls : SUBSET Whats] :
     /\ base <= p.ptr
     /\ \A b \in p.blocks : BlockOK(b, p.ptr, base)
     /\ \A b, c \in p.blocks : b # c => Apart(b, c)}

\* There is a block for what, or what is one of the null pointers.
Allocated(d, p, what) ==
  /\ p.blocks \subseteq d.blocks
  /\ \/ d.nulls = p.nulls /\ \E b \in d.blocks : b.what = what
     \/ d.nulls = p.nulls \cup {what}

LEMMA SmallConstants ==
  /\ PoolSize \in Nat \ {0} /\ Page \in Nat \ {0} /\ RingUnits \in Nat \ {0} /\ Page16 \in Nat
  /\ MaxScratchpads \in Nat
BY TransportAssumption DEF Page16

\* A block at the top of the pool.
LEMMA NewBlock ==
  ASSUME NEW base \in Nat, NEW p \in Pools(base), NEW x \in Nat, NEW b \in MemBlocks,
         p.ptr <= x, b.first = x, BlockOK(b, x + b.size, base),
         NEW d \in [ptr : Nat, blocks : SUBSET MemBlocks, nulls : SUBSET Whats],
         d.ptr = x + b.size, d.blocks = p.blocks \cup {b}
  PROVE  d \in Pools(base)
<1>1. p.ptr \in Nat /\ base <= p.ptr /\ p.blocks \in SUBSET MemBlocks
  BY DEF Pools
<1>2. PICK s \in Nat : s = b.size /\ s >= 1 BY DEF MemBlocks
<1>3. base <= d.ptr BY <1>1, <1>2
<1>4. ASSUME NEW c \in p.blocks PROVE BlockOK(c, d.ptr, base) /\ Apart(c, b) /\ Apart(b, c)
  <2>1. c.first \in Nat /\ c.size \in Nat BY <1>1 DEF MemBlocks
  <2>2. BlockOK(c, p.ptr, base) BY DEF Pools
  <2>3. c.first + c.size <= p.ptr BY <2>2 DEF BlockOK
  <2>4. c.first + c.size <= x /\ c.first + c.size <= x + s BY <1>1, <2>1, <2>3
  <2> QED BY <1>2, <2>2, <2>4 DEF BlockOK, Apart
<1>5. ASSUME NEW c \in d.blocks PROVE BlockOK(c, d.ptr, base) BY <1>4
<1>6. ASSUME NEW c \in d.blocks, NEW e \in d.blocks, c # e PROVE Apart(c, e)
  <2>1. c \in p.blocks /\ e \in p.blocks => Apart(c, e) BY <1>6 DEF Pools
  <2> QED BY <1>4, <1>6, <2>1
<1> QED BY <1>3, <1>5, <1>6 DEF Pools

\* AllocMem keeps the pool in order, and either finds a place or says so.
LEMMA AllocMemIs ==
  ASSUME pool_base \in Nat, NEW p \in Pools(pool_base), NEW what \in Whats, NEW size \in Nat \ {0},
         NEW boundary \in Nat, NEW alignment \in {0, 1, boundary},
         NEW d, d = AllocMem(p, what, size, alignment, boundary)
  PROVE  d \in Pools(pool_base) /\ Allocated(d, p, what)
<1>1. /\ p \in [ptr : Nat, blocks : SUBSET MemBlocks, nulls : SUBSET Whats]
      /\ p.ptr \in Nat /\ pool_base <= p.ptr
  BY DEF Pools
<1>2. PICK x \in Nat : /\ x = Placed(p.ptr, size, alignment, boundary)
                       /\ PlaceOK(x, p.ptr, size, alignment, boundary)
  <2>1. PlaceOK(Placed(p.ptr, size, alignment, boundary), p.ptr, size, alignment, boundary)
    BY <1>1, PlacedIs
  <2> QED BY <2>1 DEF PlaceOK
<1>3. p.ptr <= x BY <1>2 DEF PlaceOK
<1>4. CASE pool_base + PoolSize < x + size
  <2>1. d = [p EXCEPT !.ptr = x, !.nulls = @ \cup {what}] BY <1>2, <1>4 DEF AllocMem
  <2>2. /\ d \in [ptr : Nat, blocks : SUBSET MemBlocks, nulls : SUBSET Whats]
        /\ d.ptr = x /\ d.blocks = p.blocks /\ d.nulls = p.nulls \cup {what}
    BY <1>1, <2>1
  <2>3. pool_base <= x BY <1>1, <1>3
  <2>4. ASSUME NEW b \in p.blocks PROVE BlockOK(b, x, pool_base)
    <3>1. BlockOK(b, p.ptr, pool_base) /\ b \in MemBlocks BY DEF Pools
    <3>2. b.first \in Nat /\ b.size \in Nat /\ b.first + b.size <= p.ptr BY <3>1 DEF MemBlocks, BlockOK
    <3>3. b.first + b.size <= x BY <1>1, <1>3, <3>2
    <3> QED BY <3>1, <3>3 DEF BlockOK
  <2> QED BY <2>2, <2>3, <2>4 DEF Pools, Allocated
<1>5. CASE ~(pool_base + PoolSize < x + size)
  <2> DEFINE b == [what |-> what, first |-> x, size |-> size,
                   alignment |-> alignment, boundary |-> boundary]
  <2>1. d = [ptr |-> x + size, nulls |-> p.nulls, blocks |-> p.blocks \cup {b}]
    BY <1>2, <1>5 DEF AllocMem
  <2>2. /\ b \in MemBlocks /\ b.what = what /\ b.first = x /\ b.size = size
        /\ b.alignment = alignment /\ b.boundary = boundary
    BY DEF MemBlocks
  <2> HIDE DEF b
  <2>3. /\ d \in [ptr : Nat, blocks : SUBSET MemBlocks, nulls : SUBSET Whats]
        /\ d.ptr = x + b.size /\ d.blocks = p.blocks \cup {b} /\ d.nulls = p.nulls
    BY <1>1, <2>1, <2>2
  <2>4. BlockOK(b, x + b.size, pool_base)
    <3>1. /\ pool_base <= x /\ x + size <= x + size /\ x + size <= pool_base + PoolSize
      BY <1>1, <1>3, <1>5, SmallConstants
    <3> QED BY <1>2, <2>2, <3>1 DEF BlockOK, PlaceOK
  <2>5. d \in Pools(pool_base) BY <1>3, <2>2, <2>3, <2>4, NewBlock
  <2> QED BY <2>2, <2>3, <2>5 DEF Allocated
<1> QED BY <1>4, <1>5

\* What a scratchpad buffer adds to the pool: perhaps nothing.
OnlyScratchpads(d, p) ==
  /\ p.blocks \subseteq d.blocks
  /\ \A w \in d.nulls : w \in p.nulls \/ w[1] = "scratchpad"

LEMMA AllocScratchpadIs ==
  ASSUME pool_base \in Nat, NEW p \in Pools(pool_base), NEW i \in Nat
  PROVE  AllocScratchpad(p, i) \in Pools(pool_base) /\ OnlyScratchpads(AllocScratchpad(p, i), p)
<1>1. <<"scratchpad", i>> \in Whats /\ Page \in Nat \ {0} BY SmallConstants DEF Whats
<1>2. PICK d : d = AllocMem(p, <<"scratchpad", i>>, Page, Page, Page) OBVIOUS
<1>3. d \in Pools(pool_base) /\ Allocated(d, p, <<"scratchpad", i>>)
  <2>1. Page \in Nat /\ Page \in {0, 1, Page} BY <1>1
  <2> QED BY <1>1, <1>2, <2>1, AllocMemIs
<1> QED BY <1>2, <1>3 DEF AllocScratchpad, Allocated, OnlyScratchpads

AllocAll(q, s) == FoldLeft(AllocScratchpad, q, s)

\* The loop over the scratchpad buffers, unrolled.
LEMMA ScratchpadSteps ==
  ASSUME pool_base \in Nat, NEW q \in Pools(pool_base), NEW s \in Seq(Nat), NEW n \in Nat, n = Len(s)
  PROVE  \E f \in [0..n -> Pools(pool_base)] : /\ f[0] = q /\ f[n] = AllocAll(q, s)
                                   /\ \A i \in 1..n : f[i] = AllocScratchpad(f[i - 1], s[i])
<1> DEFINE F == [p \in Pools(pool_base) \X Nat |-> AllocScratchpad(p[1], p[2])]
           Eqn(it) == it = [T \in SUBSET (DOMAIN s) |->
              IF T = {} THEN q ELSE AllocScratchpad(it[T \ {Max(T)}], s[Max(T)])]
           iter == CHOOSE it : Eqn(it)
<1>1. DOMAIN s = 1..n /\ n \in 0..Len(s) /\ s \in [1..n -> Nat]
  OBVIOUS
<1>2. F \in [Pools(pool_base) \X Nat -> Pools(pool_base)]
  BY AllocScratchpadIs
<1>3. AllocAll(q, s) = iter[DOMAIN s]
  BY DEF AllocAll, FoldLeft, MapThenFoldSet
<1>4. ASSUME NEW a \in Pools(pool_base), NEW T \in SUBSET (1..n), T # {}
      PROVE  F[<<a, s[Max(T)]>>] = AllocScratchpad(a, s[Max(T)])
  <2>1. Max(T) \in 1..n
    BY <1>1, <1>4, MaxOf
  <2>2. PICK b \in Nat : b = s[Max(T)]
    BY <1>1, <2>1
  <2> QED  BY <2>2
<1> HIDE DEF F
<1>5. PICK it \in [SUBSET (1..n) -> Pools(pool_base)] : IsIter(it, F, q, s, n)
  BY <1>1, <1>2, IterExists
<1>6. Eqn(it)
  BY <1>1, <1>4, <1>5 DEF IsIter
<1>7. Eqn(iter)
  BY <1>6
<1> HIDE DEF iter
<1>8. IsFold(iter, F, q, s, n, Pools(pool_base), Nat)
  BY <1>1, <1>2, <1>4, <1>7 DEF IsFold
<1>9. PICK f \in [0..n -> Pools(pool_base)] : Steps(f, F, q, s, n) /\ f[n] = iter[1..n]
  BY <1>8, FoldSteps
<1>10. \A i \in 1..n : f[i] = AllocScratchpad(f[i - 1], s[i])
  <2> SUFFICES ASSUME NEW i \in 1..n PROVE f[i] = AllocScratchpad(f[i - 1], s[i])
    OBVIOUS
  <2>1. s[i] \in Nat
    BY <1>1
  <2>2. f[i - 1] \in Pools(pool_base)
    BY SMTT(30)
  <2> QED  BY <1>9, <2>1, <2>2, ZenonT(30) DEF F, Steps
<1> QED  BY <1>1, <1>3, <1>9, <1>10 DEF Steps

\* However many buffers the controller asks for.
LEMMA ScratchpadsAre ==
  ASSUME pool_base \in Nat, NEW p \in Pools(pool_base), NEW m \in Nat,
         NEW d, d = AllocScratchpadsIn(p, m)
  PROVE  d \in Pools(pool_base) /\ OnlyScratchpads(d, p)
<1>1. CASE m = 0
  BY <1>1 DEF AllocScratchpadsIn, OnlyScratchpads
<1>2. CASE m # 0
  <2>1. PICK q : q = AllocMem(p, <<"scratchpad", 0>>, 1, 1, Page) OBVIOUS
  <2>2. q \in Pools(pool_base) /\ Allocated(q, p, <<"scratchpad", 0>>)
    <3>1. <<"scratchpad", 0>> \in Whats /\ Page \in Nat BY SmallConstants DEF Whats
    <3>2. 1 \in Nat \ {0} /\ 1 \in {0, 1, Page} OBVIOUS
    <3> QED BY <2>1, <3>1, <3>2, AllocMemIs
  <2>3. OnlyScratchpads(q, p) BY <2>2 DEF Allocated, OnlyScratchpads
  <2>4. PICK s \in Seq(Nat) : s = [i \in 1..m |-> i] /\ Len(s) = m
    <3>1. [i \in 1..m |-> i] \in Seq(Nat) OBVIOUS
    <3>2. Len([i \in 1..m |-> i]) = m OBVIOUS
    <3> QED BY <3>1, <3>2
  <2>5. d = AllocAll(q, s) BY <1>2, <2>1, <2>4 DEF AllocScratchpadsIn, AllocAll
  <2>6. PICK f \in [0..m -> Pools(pool_base)] :
          /\ f[0] = q /\ f[m] = d
          /\ \A i \in 1..m : f[i] = AllocScratchpad(f[i - 1], s[i])
    <3>1. q \in Pools(pool_base) /\ m = Len(s) BY <2>2, <2>4
    <3> QED BY <2>5, <3>1, ScratchpadSteps, SMTT(30)
  <2> DEFINE G == {i \in 0..m : OnlyScratchpads(f[i], p)}
  <2>7. 0 \in G BY <2>3, <2>6
  <2>8. ASSUME NEW i \in 1..m, (i - 1) \in G PROVE i \in G
    <3>1. f[i - 1] \in Pools(pool_base) /\ s[i] \in Nat /\ OnlyScratchpads(f[i - 1], p)
      BY <2>4, <2>6, <2>8
    <3>2. OnlyScratchpads(AllocScratchpad(f[i - 1], s[i]), f[i - 1]) BY <3>1, AllocScratchpadIs
    <3>3. f[i] = AllocScratchpad(f[i - 1], s[i]) BY <2>6
    <3> QED BY <3>1, <3>2, <3>3 DEF OnlyScratchpads
  <2>9. \A i \in 0..m : i \in G
    <3> HIDE DEF G
    <3> QED BY <2>7, <2>8, CountUp
  <2>10. m \in 0..m OBVIOUS
  <2> QED BY <2>6, <2>9, <2>10
<1> QED BY <1>1, <1>2

-----------------------------------------------------------------------------
(***************************************************************************)
(* The set-up, stage by stage: what has been given memory, which registers *)
(* are set, and whether the controller is halted.                          *)
(***************************************************************************)

WithEventRing == {"erst", "interrupter", "run", "starting", "running"}
WithCommandRing == {"crcr", "event_ring"} \cup WithEventRing
WithDevices == {"ownership", "stop", "stopping", "config", "scratchpads", "dcbaap",
                "command_ring"} \cup WithCommandRing
NoMemory == {"pci", "find", "devmgr"}

Has(p, name) == \E b \in p.blocks : b.what = <<name, 0>>
OnlyScratchpadsNull(p) == \A w \in p.nulls : w[1] = "scratchpad"

\* Until memory is asked for there are no null pointers, and after that no
\* other ones than the scratchpads': the others are tested for.
MemoryHeld ==
  /\ pool_base \in Nat /\ pool \in Pools(pool_base)
  /\ stage \in NoMemory => pool.nulls = {}
  /\ stage # "exit" => OnlyScratchpadsNull(pool)
  /\ stage \in WithDevices => Has(pool, "devices_") /\ Has(pool, "device_context_pointers_")
  /\ stage \in WithCommandRing => Has(pool, "cr_")
  /\ stage \in WithEventRing => Has(pool, "er_") /\ Has(pool, "erst_")

Halting == {"config", "scratchpads", "dcbaap", "command_ring", "crcr", "event_ring",
            "erst", "interrupter", "run"}
RegistersHeld ==
  /\ stage = "config" => regs = {}
  /\ stage \in {"scratchpads", "dcbaap"} => regs = {"CONFIG"}
  /\ stage \in {"command_ring", "crcr"} => regs = {"CONFIG", "DCBAAP"}
  /\ stage \in {"event_ring", "erst"} => regs = {"CONFIG", "DCBAAP", "CRCR"}
  /\ stage = "interrupter" => regs = {"CONFIG", "DCBAAP", "CRCR", "ERSTSZ", "ERDP", "ERSTBA"}
  /\ stage \in {"run", "starting", "running"} => regs = Registers
  /\ stage \in Halting \cup {"stopping"} => run_stop = FALSE
  /\ stage \in Halting => halted = TRUE

SetUpHeld == TransportTypeOK /\ MemoryHeld /\ RegistersHeld

LEMMA InitSetUpHeld == TransportInit => SetUpHeld
<1> SUFFICES ASSUME TransportInit PROVE SetUpHeld
  OBVIOUS
<1>1. /\ stage = "pci" /\ pool_base \in Nat /\ regs = {} /\ push = "done" /\ doorbell = FALSE
      /\ pool = [ptr |-> pool_base, blocks |-> {}, nulls |-> {}]
  BY TransportAssumption DEF TransportInit
<1>2. pool \in Pools(pool_base) BY <1>1 DEF Pools
<1>3. pool.nulls = {} BY <1>1
<1>4. MemoryHeld
  BY <1>1, <1>2, <1>3 DEF MemoryHeld, OnlyScratchpadsNull, WithDevices, WithCommandRing, WithEventRing
<1>5. RegistersHeld BY <1>1 DEF RegistersHeld, Halting
<1>6. run_stop \in BOOLEAN
  <2>1. CASE halted BY <2>1 DEF TransportInit
  <2>2. CASE ~halted BY <2>2 DEF TransportInit
  <2> QED BY <2>1, <2>2
<1>7. TransportTypeOK BY <1>1, <1>6 DEF TransportInit, TransportTypeOK, Stages, Registers
<1> QED BY <1>4, <1>5, <1>7 DEF SetUpHeld

\* What the stages after the set-up leave alone.
LEMMA SetUpKept ==
  ASSUME SetUpHeld, UNCHANGED setUpVars, doorbell' \in BOOLEAN, push' \in {"may", "due", "done"}
  PROVE  SetUpHeld'
<1>1. UNCHANGED <<stage, topology, found, xhc, routed, msi, pool_base, pool, bios, run_stop, halted, regs>>
  BY DEF setUpVars, pciVars, hcVars
<1>2. TransportTypeOK' BY <1>1 DEF SetUpHeld, TransportTypeOK
<1>3. MemoryHeld' BY <1>1 DEF SetUpHeld, MemoryHeld
<1>4. RegistersHeld' BY <1>1 DEF SetUpHeld, RegistersHeld
<1> QED BY <1>2, <1>3, <1>4 DEF SetUpHeld

\* So do all steps that follow it, on both rings.
LEMMA WorksKeepsSetUp ==
  ASSUME SetUpHeld,
         Controller \/ PortChanges \/ Main \/ (\E t \in TRBs : IssueCommand(t))
         \/ UNCHANGED allVars
  PROVE  SetUpHeld'
<1>1. doorbell \in BOOLEAN /\ push \in {"may", "due", "done"}
  BY DEF SetUpHeld, TransportTypeOK
<1>2. UNCHANGED setUpVars
  BY DEF Controller, ExecuteCommand, PassLink, RingEmpty, Interrupt, PortChanges,
    Main, BeginEvents, EndEvents, HandleEvent, ContinuePush, RingDoorbell, EndEvent, IssueCommand,
    Works, allVars
<1>3. doorbell' \in BOOLEAN /\ push' \in {"may", "due", "done"}
  BY <1>1 DEF Controller, ExecuteCommand, PassLink, RingEmpty, Interrupt, PortChanges,
    Main, BeginEvents, EndEvents, HandleEvent, ContinuePush, RingDoorbell, EndEvent, IssueCommand,
    linkVars, allVars
<1> QED BY <1>2, <1>3, SetUpKept

\* The steps of xhci::Initialize that allocate no memory.
NoAllocation ==
  \/ ScanPci \/ FindXhc \/ RequestHCOwnership \/ BiosLetsGo
  \/ StopController \/ ResetController \/ SetMaxSlots \/ SetDCBAAP
  \/ RegisterCommandRing \/ RegisterEventRing \/ EnableInterrupts \/ Run \/ Running
  \/ FollowRunStop \/ Stop

LEMMA NoAllocationMemory ==
  ASSUME MemoryHeld, NoAllocation
  PROVE  MemoryHeld'
<1> USE DEF SetUp, SetUpKeeping, SetUpRegs, WithDevices, WithCommandRing, WithEventRing, NoMemory
<1>1. pool' = pool /\ pool_base' = pool_base
  BY DEF NoAllocation, ScanPci, FindXhc, RequestHCOwnership, BiosLetsGo, StopController,
    ResetController, SetMaxSlots, SetDCBAAP, RegisterCommandRing, RegisterEventRing,
    EnableInterrupts, Run, Running, FollowRunStop, Stop, allVars, setUpVars
<1>2. /\ stage' \in NoMemory => stage \in NoMemory
      /\ stage' # "exit" => stage # "exit"
      /\ stage' \in WithDevices => stage \in WithDevices
      /\ stage' \in WithCommandRing => stage \in WithCommandRing
      /\ stage' \in WithEventRing => stage \in WithEventRing
  <2>1. CASE ScanPci \/ FindXhc BY <2>1 DEF ScanPci, FindXhc
  <2>2. CASE RequestHCOwnership \/ BiosLetsGo \/ StopController \/ ResetController
    BY <2>2 DEF RequestHCOwnership, BiosLetsGo, StopController, ResetController
  <2>3. CASE SetMaxSlots \/ SetDCBAAP \/ RegisterCommandRing \/ RegisterEventRing
    BY <2>3 DEF SetMaxSlots, SetDCBAAP, RegisterCommandRing, RegisterEventRing
  <2>4. CASE EnableInterrupts \/ Run \/ Running
    BY <2>4 DEF EnableInterrupts, Run, Running
  <2>5. CASE FollowRunStop \/ Stop BY <2>5 DEF FollowRunStop, Stop, allVars, setUpVars
  <2> QED BY <2>1, <2>2, <2>3, <2>4, <2>5 DEF NoAllocation
<1> QED BY <1>1, <1>2 DEF MemoryHeld

\* Every set-up step does to the registers what its stage says.
LEMMA RegistersPreserved ==
  ASSUME SetUpHeld, Initialize \/ BiosLetsGo \/ FollowRunStop \/ Stop
  PROVE  RegistersHeld'
<1> USE DEF SetUp, SetUpKeeping, SetUpRegs, SetUpAlloc, RegistersHeld, Halting, hcVars
<1>0. RegistersHeld /\ halted \in BOOLEAN /\ run_stop \in BOOLEAN
  BY DEF SetUpHeld, TransportTypeOK
<1>1. CASE ScanPci BY <1>0, <1>1 DEF ScanPci
<1>2. CASE FindXhc BY <1>0, <1>2 DEF FindXhc
<1>3. CASE DeviceManagerInitialize BY <1>0, <1>3 DEF DeviceManagerInitialize
<1>4. CASE RequestHCOwnership BY <1>0, <1>4 DEF RequestHCOwnership
<1>5. CASE StopController BY <1>0, <1>5 DEF StopController
<1>6. CASE ResetController BY <1>0, <1>6 DEF ResetController
<1>7. CASE SetMaxSlots BY <1>0, <1>7 DEF SetMaxSlots
<1>8. CASE AllocScratchpads BY <1>0, <1>8 DEF AllocScratchpads
<1>9. CASE SetDCBAAP BY <1>0, <1>9 DEF SetDCBAAP
<1>10. CASE RingInitialize BY <1>0, <1>10 DEF RingInitialize
<1>11. CASE RegisterCommandRing BY <1>0, <1>11 DEF RegisterCommandRing
<1>12. CASE EventRingInitialize BY <1>0, <1>12 DEF EventRingInitialize
<1>13. CASE RegisterEventRing BY <1>0, <1>13 DEF RegisterEventRing
<1>14. CASE EnableInterrupts BY <1>0, <1>14 DEF EnableInterrupts, Registers
<1>15. CASE Run BY <1>0, <1>15 DEF Run
<1>16. CASE Running BY <1>0, <1>16 DEF Running
<1>17. CASE BiosLetsGo BY <1>0, <1>17 DEF BiosLetsGo
<1>18. CASE FollowRunStop BY <1>0, <1>18 DEF FollowRunStop
<1>19. CASE Stop BY <1>0, <1>19 DEF Stop, allVars, setUpVars
<1> QED BY <1>1, <1>2, <1>3, <1>4, <1>5, <1>6, <1>7, <1>8, <1>9, <1>10, <1>11, <1>12,
           <1>13, <1>14, <1>15, <1>16, <1>17, <1>18, <1>19 DEF Initialize

LEMMA TypesPreserved ==
  ASSUME SetUpHeld, Initialize \/ BiosLetsGo \/ FollowRunStop \/ Stop
  PROVE  TransportTypeOK'
<1> USE DEF SetUp, SetUpKeeping, SetUpRegs, SetUpAlloc, hcVars, pciVars, linkVars, Stages
<1>0. TransportTypeOK BY DEF SetUpHeld
<1>1. doorbell' = doorbell /\ push' = push
  <2>1. CASE Initialize
    BY <2>1 DEF Initialize, ScanPci, FindXhc, DeviceManagerInitialize, RequestHCOwnership,
      StopController, ResetController, SetMaxSlots, AllocScratchpads, SetDCBAAP, RingInitialize,
      RegisterCommandRing, EventRingInitialize, RegisterEventRing, EnableInterrupts, Run, Running
  <2>2. CASE BiosLetsGo \/ FollowRunStop \/ Stop
    BY <2>2 DEF BiosLetsGo, FollowRunStop, Stop, allVars
  <2> QED BY <2>1, <2>2
<1>2. CASE FindXhc
  <2>1. /\ stage' \in Stages /\ UNCHANGED <<topology, bios, run_stop, halted, regs>>
    BY <1>2 DEF FindXhc
  <2>2. PICK none \in BOOLEAN, caps \in SUBSET {"msi", "msix"} :
          msi' = (~none /\ ConfigureMSI(caps) = "kSuccess")
    <3>1. (Xhcs(found.devices) = {}) \in BOOLEAN OBVIOUS
    <3> QED BY <1>2, <3>1 DEF FindXhc
  <2>3. msi' \in BOOLEAN
    <3> HIDE DEF SetUp, SetUpKeeping, SetUpRegs, SetUpAlloc, hcVars, pciVars, linkVars, Stages
    <3> QED BY <2>2, Zenon
  <2>4. routed' \in BOOLEAN
    <3>1. routed' = (SwitchEhci2Xhci(found.devices) /\ \E f \in xhc' : f.vendor = "intel")
      BY <1>2 DEF FindXhc
    <3> QED BY <3>1, Zenon
  <2> QED BY <1>0, <1>1, <2>1, <2>3, <2>4 DEF TransportTypeOK
<1>3. CASE ScanPci \/ RequestHCOwnership \/ Running
  BY <1>0, <1>1, <1>3 DEF ScanPci, RequestHCOwnership, Running, TransportTypeOK
<1>4. CASE DeviceManagerInitialize \/ AllocScratchpads \/ RingInitialize \/ EventRingInitialize
  <2>1. stage' \in Stages /\ UNCHANGED <<topology, routed, msi, bios, run_stop, halted, regs>>
    BY <1>4 DEF DeviceManagerInitialize, AllocScratchpads, RingInitialize, EventRingInitialize
  <2> QED BY <1>0, <1>1, <2>1 DEF TransportTypeOK
<1>5. CASE SetMaxSlots \/ SetDCBAAP \/ RegisterCommandRing \/ RegisterEventRing \/ EnableInterrupts
  <2>1. stage' \in Stages /\ UNCHANGED <<topology, routed, msi, bios, run_stop, halted>>
    BY <1>5 DEF SetMaxSlots, SetDCBAAP, RegisterCommandRing, RegisterEventRing, EnableInterrupts
  <2>2. regs' \subseteq Registers
    BY <1>0, <1>5 DEF SetMaxSlots, SetDCBAAP, RegisterCommandRing, RegisterEventRing,
      EnableInterrupts, Registers, TransportTypeOK
  <2> QED BY <1>0, <1>1, <2>1, <2>2 DEF TransportTypeOK
<1>6. CASE StopController \/ ResetController \/ Run
  <2>1. /\ stage' \in Stages /\ UNCHANGED <<topology, routed, msi, bios, halted>>
        /\ run_stop' \in BOOLEAN /\ regs' \subseteq Registers
    BY <1>0, <1>6 DEF StopController, ResetController, Run, TransportTypeOK
  <2> QED BY <1>0, <1>1, <2>1 DEF TransportTypeOK
<1>7. CASE BiosLetsGo
  BY <1>0, <1>1, <1>7 DEF BiosLetsGo, TransportTypeOK
<1>8. CASE FollowRunStop
  BY <1>0, <1>1, <1>8 DEF FollowRunStop, TransportTypeOK
<1>9. CASE Stop
  BY <1>0, <1>1, <1>9 DEF Stop, allVars, setUpVars, TransportTypeOK
<1> QED BY <1>2, <1>3, <1>4, <1>5, <1>6, <1>7, <1>8, <1>9 DEF Initialize

\* An allocation that is tested for: when the set-up goes on, the block exists.
LEMMA TestedAllocation ==
  ASSUME NEW p, NEW d, NEW name \in {"devices_", "device_context_pointers_", "cr_", "er_", "erst_"},
         OnlyScratchpadsNull(p), Allocated(d, p, <<name, 0>>), d.nulls \subseteq p.nulls
  PROVE  Has(d, name) /\ d.nulls = p.nulls
<1>1. <<name, 0>> \notin p.nulls BY DEF OnlyScratchpadsNull
<1>2. d.nulls # p.nulls \cup {<<name, 0>>} BY <1>1
<1> QED BY <1>2 DEF Allocated, Has

LEMMA StillThere ==
  ASSUME NEW p, NEW d, NEW name, p.blocks \subseteq d.blocks, Has(p, name)
  PROVE  Has(d, name)
BY DEF Has

LEMMA NamesAre ==
  \A name \in {"devices_", "device_context_pointers_", "cr_", "er_", "erst_"} : <<name, 0>> \in Whats
BY DEF Whats

LEMMA DeviceManagerInitializePreserves ==
  ASSUME MemoryHeld, DeviceManagerInitialize
  PROVE  MemoryHeld'
<1> DEFINE devices == AllocMem(pool, <<"devices_", 0>>, 1, 0, 0)
           both == AllocMem(devices, <<"device_context_pointers_", 0>>, 1, 1, Page)
<1>1. /\ stage = "devmgr" /\ pool_base' = pool_base
      /\ pool' = (IF devices.nulls # {} THEN devices ELSE both)
      /\ stage' = (IF pool'.nulls \subseteq pool.nulls THEN "ownership" ELSE "exit")
  BY DEF DeviceManagerInitialize, SetUpAlloc, SetUp
<1>2. pool_base \in Nat /\ pool \in Pools(pool_base) /\ pool.nulls = {} /\ OnlyScratchpadsNull(pool)
  BY <1>1 DEF MemoryHeld, NoMemory
<1>3. devices \in Pools(pool_base) /\ Allocated(devices, pool, <<"devices_", 0>>)
  <2>1. 1 \in Nat \ {0} /\ 0 \in Nat /\ 0 \in {0, 1, 0} /\ <<"devices_", 0>> \in Whats
    BY NamesAre
  <2> QED BY <1>2, <2>1, AllocMemIs
<1> HIDE DEF devices
<1>4. both \in Pools(pool_base) /\ Allocated(both, devices, <<"device_context_pointers_", 0>>)
  <2>1. /\ 1 \in Nat \ {0} /\ Page \in Nat /\ 1 \in {0, 1, Page}
        /\ <<"device_context_pointers_", 0>> \in Whats
    BY NamesAre, SmallConstants
  <2> QED BY <1>2, <1>3, <2>1, AllocMemIs
<1> HIDE DEF both
<1>5. pool' \in Pools(pool_base) BY <1>1, <1>3, <1>4
<1>6. CASE pool'.nulls \subseteq pool.nulls
  <2>1. devices.nulls = {} /\ pool' = both /\ both.nulls \subseteq devices.nulls
    BY <1>1, <1>2, <1>6
  <2>2. Has(devices, "devices_") BY <1>2, <1>3, <2>1, TestedAllocation
  <2>3. OnlyScratchpadsNull(devices) BY <2>1 DEF OnlyScratchpadsNull
  <2>4. Has(both, "device_context_pointers_") /\ both.nulls = {} BY <1>4, <2>1, <2>3, TestedAllocation
  <2>5. Has(both, "devices_") BY <1>4, <2>2, StillThere DEF Allocated
  <2>6. stage' = "ownership" BY <1>1, <1>6
  <2> QED BY <1>1, <1>2, <1>5, <2>1, <2>4, <2>5, <2>6
          DEF MemoryHeld, OnlyScratchpadsNull, NoMemory, WithCommandRing, WithEventRing
<1>7. CASE ~(pool'.nulls \subseteq pool.nulls)
  <2>1. stage' = "exit" BY <1>1, <1>7
  <2> QED BY <1>1, <1>2, <1>5, <2>1
          DEF MemoryHeld, NoMemory, WithDevices, WithCommandRing, WithEventRing
<1> QED BY <1>6, <1>7

\* One ring's memory, at the stage that is for it.
LEMMA RingInitializePreserves ==
  ASSUME MemoryHeld, RingInitialize
  PROVE  MemoryHeld'
<1> DEFINE d == AllocMem(pool, <<"cr_", 0>>, RingUnits, 1, Page16)
<1>1. /\ stage = "command_ring" /\ pool_base' = pool_base /\ pool' = d
      /\ stage' = (IF d.nulls \subseteq pool.nulls THEN "crcr" ELSE "exit")
  BY DEF RingInitialize, SetUpAlloc, SetUp
<1>2. /\ pool_base \in Nat /\ pool \in Pools(pool_base) /\ OnlyScratchpadsNull(pool)
      /\ Has(pool, "devices_") /\ Has(pool, "device_context_pointers_")
  BY <1>1 DEF MemoryHeld, WithDevices
<1>3. d \in Pools(pool_base) /\ Allocated(d, pool, <<"cr_", 0>>)
  <2>1. RingUnits \in Nat \ {0} /\ Page16 \in Nat /\ 1 \in {0, 1, Page16} /\ <<"cr_", 0>> \in Whats
    BY NamesAre, SmallConstants
  <2> QED BY <1>2, <2>1, AllocMemIs
<1> HIDE DEF d
<1>4. CASE d.nulls \subseteq pool.nulls
  <2>1. Has(d, "cr_") /\ d.nulls = pool.nulls BY <1>2, <1>3, <1>4, TestedAllocation
  <2>2. Has(d, "devices_") /\ Has(d, "device_context_pointers_")
    BY <1>2, <1>3, StillThere DEF Allocated
  <2>3. stage' = "crcr" BY <1>1, <1>4
  <2> QED BY <1>1, <1>2, <1>3, <2>1, <2>2, <2>3
          DEF MemoryHeld, OnlyScratchpadsNull, NoMemory, WithEventRing
<1>5. CASE ~(d.nulls \subseteq pool.nulls)
  <2>1. stage' = "exit" BY <1>1, <1>5
  <2> QED BY <1>1, <1>2, <1>3, <2>1
          DEF MemoryHeld, NoMemory, WithDevices, WithCommandRing, WithEventRing
<1> QED BY <1>4, <1>5

LEMMA EventRingInitializePreserves ==
  ASSUME MemoryHeld, EventRingInitialize
  PROVE  MemoryHeld'
<1> DEFINE ring == AllocMem(pool, <<"er_", 0>>, RingUnits, 1, Page16)
           both == AllocMem(ring, <<"erst_", 0>>, 1, 1, Page16)
<1>1. /\ stage = "event_ring" /\ pool_base' = pool_base
      /\ pool' = (IF ring.nulls # pool.nulls THEN ring ELSE both)
      /\ stage' = (IF pool'.nulls \subseteq pool.nulls THEN "erst" ELSE "exit")
  BY DEF EventRingInitialize, SetUpAlloc, SetUp
<1>2. /\ pool_base \in Nat /\ pool \in Pools(pool_base) /\ OnlyScratchpadsNull(pool)
      /\ Has(pool, "devices_") /\ Has(pool, "device_context_pointers_") /\ Has(pool, "cr_")
  BY <1>1 DEF MemoryHeld, WithDevices, WithCommandRing
<1>3. ring \in Pools(pool_base) /\ Allocated(ring, pool, <<"er_", 0>>)
  <2>1. RingUnits \in Nat \ {0} /\ Page16 \in Nat /\ 1 \in {0, 1, Page16} /\ <<"er_", 0>> \in Whats
    BY NamesAre, SmallConstants
  <2> QED BY <1>2, <2>1, AllocMemIs
<1> HIDE DEF ring
<1>4. both \in Pools(pool_base) /\ Allocated(both, ring, <<"erst_", 0>>)
  <2>1. 1 \in Nat \ {0} /\ Page16 \in Nat /\ 1 \in {0, 1, Page16} /\ <<"erst_", 0>> \in Whats
    BY NamesAre, SmallConstants
  <2> QED BY <1>2, <1>3, <2>1, AllocMemIs
<1> HIDE DEF both
<1>5. pool' \in Pools(pool_base) BY <1>1, <1>3, <1>4
<1>6. CASE pool'.nulls \subseteq pool.nulls
  <2>1. ring.nulls = pool.nulls
    <3> SUFFICES ASSUME ring.nulls # pool.nulls PROVE FALSE OBVIOUS
    <3>1. ring.nulls \subseteq pool.nulls BY <1>1, <1>6
    <3> QED BY <1>2, <1>3, <3>1, TestedAllocation
  <2>2. pool' = both /\ both.nulls \subseteq ring.nulls BY <1>1, <1>6, <2>1
  <2>3. Has(ring, "er_") BY <1>2, <1>3, <2>1, TestedAllocation
  <2>4. OnlyScratchpadsNull(ring) BY <1>2, <2>1 DEF OnlyScratchpadsNull
  <2>5. Has(both, "erst_") /\ both.nulls = pool.nulls BY <1>4, <2>1, <2>2, <2>4, TestedAllocation
  <2>6. Has(ring, "devices_") /\ Has(ring, "device_context_pointers_") /\ Has(ring, "cr_")
    BY <1>2, <1>3, StillThere DEF Allocated
  <2>7. /\ Has(both, "devices_") /\ Has(both, "device_context_pointers_")
        /\ Has(both, "cr_") /\ Has(both, "er_")
    BY <1>4, <2>3, <2>6, StillThere DEF Allocated
  <2>8. stage' = "erst" BY <1>1, <1>6
  <2>9. OnlyScratchpadsNull(both) BY <1>2, <2>5 DEF OnlyScratchpadsNull
  <2> QED BY <1>1, <1>2, <1>5, <2>2, <2>5, <2>7, <2>8, <2>9 DEF MemoryHeld, NoMemory
<1>7. CASE ~(pool'.nulls \subseteq pool.nulls)
  <2>1. stage' = "exit" BY <1>1, <1>7
  <2> QED BY <1>1, <1>2, <1>5, <2>1
          DEF MemoryHeld, NoMemory, WithDevices, WithCommandRing, WithEventRing
<1> QED BY <1>6, <1>7

LEMMA AllocScratchpadsPreserves ==
  ASSUME MemoryHeld, AllocScratchpads
  PROVE  MemoryHeld'
<1>1. stage = "scratchpads" /\ stage' = "dcbaap" /\ pool_base' = pool_base
  BY DEF AllocScratchpads, SetUp
<1>2. PICK m \in Nat : pool' = AllocScratchpadsIn(pool, m)
  BY SmallConstants DEF AllocScratchpads
<1>3. /\ pool_base \in Nat /\ pool \in Pools(pool_base) /\ OnlyScratchpadsNull(pool)
      /\ Has(pool, "devices_") /\ Has(pool, "device_context_pointers_")
  BY <1>1 DEF MemoryHeld, WithDevices
<1>4. pool' \in Pools(pool_base) /\ OnlyScratchpads(pool', pool)
  BY <1>2, <1>3, ScratchpadsAre
<1>5. OnlyScratchpadsNull(pool') BY <1>3, <1>4 DEF OnlyScratchpads, OnlyScratchpadsNull
<1>6. Has(pool', "devices_") /\ Has(pool', "device_context_pointers_")
  BY <1>3, <1>4, StillThere DEF OnlyScratchpads
<1> QED BY <1>1, <1>3, <1>4, <1>5, <1>6
        DEF MemoryHeld, OnlyScratchpadsNull, Has, NoMemory, WithCommandRing, WithEventRing

LEMMA StepSetUpHeld == SetUpHeld /\ [TransportNext]_allVars => SetUpHeld'
<1> SUFFICES ASSUME SetUpHeld, [TransportNext]_allVars PROVE SetUpHeld'
  OBVIOUS
<1>1. CASE Initialize \/ BiosLetsGo \/ FollowRunStop \/ Stop
  <2>1. MemoryHeld'
    <3>1. MemoryHeld BY DEF SetUpHeld
    <3>2. CASE NoAllocation BY <3>1, <3>2, NoAllocationMemory
    <3>3. CASE DeviceManagerInitialize BY <3>1, <3>3, DeviceManagerInitializePreserves
    <3>4. CASE AllocScratchpads BY <3>1, <3>4, AllocScratchpadsPreserves
    <3>5. CASE RingInitialize BY <3>1, <3>5, RingInitializePreserves
    <3>6. CASE EventRingInitialize BY <3>1, <3>6, EventRingInitializePreserves
    <3> QED BY <1>1, <3>2, <3>3, <3>4, <3>5, <3>6 DEF Initialize, NoAllocation
  <2> QED BY <1>1, <2>1, RegistersPreserved, TypesPreserved DEF SetUpHeld
<1>2. CASE Controller \/ PortChanges \/ Main \/ (\E t \in TRBs : IssueCommand(t)) \/ UNCHANGED allVars
  BY <1>2, WorksKeepsSetUp
<1> QED BY <1>1, <1>2 DEF TransportNext

\* What the stage-by-stage invariant comes to once the controller may run.
LEMMA SetUpIsBeforeRun ==
  ASSUME SetUpHeld
  PROVE  PoolBlocks /\ SetUpBeforeRun /\ ResetWhileHalted
<1>1. PoolBlocks
  <2>1. pool \in Pools(pool_base) BY DEF SetUpHeld, MemoryHeld
  <2>2. ASSUME NEW b \in pool.blocks
        PROVE  /\ b.alignment > 0 => b.first % b.alignment = 0
               /\ pool_base <= b.first /\ b.first + b.size <= pool_base + PoolSize
               /\ b.size <= b.boundary =>
                    b.first \div b.boundary = (b.first + b.size - 1) \div b.boundary
    BY <2>1 DEF Pools, BlockOK, Within
  <2>3. ASSUME NEW b \in pool.blocks, NEW c \in pool.blocks, b # c PROVE Apart(b, c)
    BY <2>1, <2>3 DEF Pools
  <2> QED BY <2>2, <2>3 DEF PoolBlocks, Apart
<1>2. SetUpBeforeRun
  <2> SUFFICES ASSUME stage \in {"starting", "running"}
               PROVE  /\ regs = Registers
                      /\ \A s \in {"devices_", "device_context_pointers_", "cr_", "er_", "erst_"} :
                           Has(pool, s)
                      /\ OnlyScratchpadsNull(pool)
    BY DEF SetUpBeforeRun, Has, OnlyScratchpadsNull
  <2> QED BY DEF SetUpHeld, MemoryHeld, RegistersHeld, WithDevices, WithCommandRing, WithEventRing
<1>3. ResetWhileHalted
  BY DEF SetUpHeld, RegistersHeld, Halting, ResetWhileHalted
<1> QED BY <1>1, <1>2, <1>3

\* Both rings keep their invariants in the whole, AllocMem hands out aligned
\* blocks that do not overlap or leave the pool, wherever the linker put it and
\* however many scratchpad buffers are asked for, and the controller is reset
\* while it is halted and runs with its memory and registers set up.
THEOREM TransportInvariant == TransportSpec => []TransportInv
<1>1. SetUpHeld => TransportTypeOK /\ PoolBlocks /\ SetUpBeforeRun /\ ResetWhileHalted
  BY SetUpIsBeforeRun DEF SetUpHeld
<1>2. RingInv /\ ER!EventRingInv /\ SetUpHeld => TransportInv
  BY <1>1 DEF TransportInv
<1> QED BY <1>2, InitSetUpHeld, StepSetUpHeld, CommandsInOrder, EventsInOrder, PTL DEF TransportSpec

-----------------------------------------------------------------------------
(* The scan of the PCI buses *)

Buses == 0..MaxBus
\* Tables with at least n entries.
LongTables(t, n) == {y \in Tables(t) : Len(y.devices) >= n}
\* From tables with more than n entries g makes tables, and forgets no device.
ScansFrom(t, g, n) ==
  \A y \in Tables(t) : \A b \in Buses : Len(y.devices) > n =>
    g[y][b] \in Tables(t) /\ Len(g[y][b].devices) >= Len(y.devices)

\* The loops of ScanDevice, ScanBus and ScanAllBus.
FunctionStep(t, g, bus, dev, y, fn) ==
  IF y.full \/ ~Present(t, bus, dev, fn) THEN y
  ELSE ScanFunction(g, y, FunctionAt(t, bus, dev, fn))
FunctionLoop(t, g, bus, dev, y, s) ==
  LET Step(a, e) == FunctionStep(t, g, bus, dev, a, e) IN FoldLeft(Step, y, s)

DeviceStep(t, g, bus, y, dev) ==
  IF y.full \/ ~Present(t, bus, dev, 0) THEN y ELSE ScanDevice(t, g, y, bus, dev)
DeviceLoop(t, g, bus, y, s) ==
  LET Step(a, e) == DeviceStep(t, g, bus, a, e) IN FoldLeft(Step, y, s)

RootStep(t, y, bus) ==
  IF y.full \/ bus \notin HostFunctions(t) THEN y ELSE ScanBus(t, y, bus)
RootLoop(t, y, s) ==
  LET Step(a, e) == RootStep(t, a, e) IN FoldLeft(Step, y, s)

LEMMA LoopsAre ==
  ASSUME NEW t, NEW g, NEW bus, NEW dev, NEW y
  PROVE  /\ ScanDevice(t, g, y, bus, dev) =
              IF FunctionAt(t, bus, dev, 0).multi
              THEN FunctionLoop(t, g, bus, dev, ScanFunction(g, y, FunctionAt(t, bus, dev, 0)), [fn \in 1..MaxFn |-> fn])
              ELSE ScanFunction(g, y, FunctionAt(t, bus, dev, 0))
         /\ ScanDevices(t, g, y, bus) = DeviceLoop(t, g, bus, y, [i \in 1..(MaxDev + 1) |-> i - 1])
         /\ ScanAllBus(t) = RootLoop(t, NoDevices, [i \in 1..(MaxFn + 1) |-> i - 1])
<1>1. ScanDevice(t, g, y, bus, dev) =
              IF FunctionAt(t, bus, dev, 0).multi
              THEN FunctionLoop(t, g, bus, dev, ScanFunction(g, y, FunctionAt(t, bus, dev, 0)), [fn \in 1..MaxFn |-> fn])
              ELSE ScanFunction(g, y, FunctionAt(t, bus, dev, 0))
  BY DEF ScanDevice, FunctionLoop, FunctionStep
<1>2. ScanDevices(t, g, y, bus) = DeviceLoop(t, g, bus, y, [i \in 1..(MaxDev + 1) |-> i - 1])
  BY DEF ScanDevices, DeviceLoop, DeviceStep
<1>3. ScanAllBus(t) = RootLoop(t, NoDevices, [i \in 1..(MaxFn + 1) |-> i - 1])
  BY DEF ScanAllBus, RootLoop, RootStep
<1> QED BY <1>1, <1>2, <1>3

LEMMA PciNumbers ==
  /\ MaxBus \in Nat /\ MaxDev \in Nat /\ MaxFn \in Nat /\ MaxDevices \in Nat /\ MaxFn <= MaxBus
BY PciAssumption

LEMMA AddDeviceIs ==
  ASSUME NEW t, NEW y \in Tables(t), NEW f \in t, y.full = FALSE
  PROVE  /\ AddDevice(y, f) \in Tables(t)
         /\ Len(y.devices) \in Nat
         /\ \/ /\ Len(y.devices) = MaxDevices
               /\ AddDevice(y, f).full = TRUE /\ AddDevice(y, f).devices = y.devices
            \/ /\ Len(y.devices) < MaxDevices
               /\ AddDevice(y, f).full = FALSE /\ AddDevice(y, f).devices = Append(y.devices, f)
<1>1. y.devices \in Seq(t) /\ Len(y.devices) \in Nat /\ Len(y.devices) <= MaxDevices
  BY DEF Tables
<1>2. y \in [devices : Seq(t), full : BOOLEAN] BY DEF Tables
<1>3. CASE Len(y.devices) = MaxDevices
  <2>1. AddDevice(y, f) = [y EXCEPT !.full = TRUE] BY <1>3 DEF AddDevice
  <2> QED BY <1>1, <1>2, <1>3, <2>1 DEF Tables
<1>4. CASE Len(y.devices) # MaxDevices
  <2>1. AddDevice(y, f) = [y EXCEPT !.devices = Append(@, f)] BY <1>4 DEF AddDevice
  <2>2. Append(y.devices, f) \in Seq(t) /\ Len(Append(y.devices, f)) = Len(y.devices) + 1
    BY <1>1
  <2>3. Len(y.devices) < MaxDevices BY <1>1, <1>4, PciNumbers
  <2>4. Len(Append(y.devices, f)) <= MaxDevices BY <1>1, <2>2, <2>3, PciNumbers
  <2> QED BY <1>1, <1>2, <2>1, <2>2, <2>3, <2>4 DEF Tables
<1> QED BY <1>3, <1>4

\* Of a topology: a function is where it says.
LEMMA FunctionAtIs ==
  ASSUME NEW t, NEW bus, NEW dev, NEW fn, Present(t, bus, dev, fn)
  PROVE  \E f \in t : f = FunctionAt(t, bus, dev, fn) /\ f.bus = bus /\ f.dev = dev /\ f.fn = fn
BY DEF Present, FunctionAt

LEMMA ScanFunctionIs ==
  ASSUME NEW t, IsTopology(t), NEW g, NEW n \in Nat, ScansFrom(t, g, n),
         NEW y \in LongTables(t, n), NEW f \in t, y.full = FALSE
  PROVE  /\ ScanFunction(g, y, f) \in Tables(t)
         /\ Len(ScanFunction(g, y, f).devices) >= Len(y.devices)
<1>0. y \in Tables(t) /\ y.devices \in Seq(t) /\ Len(y.devices) \in Nat /\ Len(y.devices) >= n
  BY DEF LongTables, Tables
<1>1. PICK z : z = AddDevice(y, f) OBVIOUS
<1>2. z \in Tables(t) BY <1>0, <1>1, AddDeviceIs
<1>3. Len(z.devices) \in Nat BY <1>2 DEF Tables
<1>4. CASE Len(y.devices) = MaxDevices
  <2>1. ~(Len(y.devices) < MaxDevices) BY <1>0, <1>4
  <2>2. z.full = TRUE /\ z.devices = y.devices BY <1>0, <1>1, <2>1, AddDeviceIs
  <2> QED BY <1>0, <1>1, <1>2, <2>2 DEF ScanFunction
<1>5. CASE Len(y.devices) # MaxDevices
  <2>1. z.full = FALSE /\ z.devices = Append(y.devices, f) BY <1>0, <1>1, <1>5, AddDeviceIs
  <2>2. Len(z.devices) = Len(y.devices) + 1 BY <1>0, <2>1
  <2>3. CASE f.class = "bridge"
    <3>1. PICK c \in Buses : c = f.secondary BY <2>3 DEF IsTopology, Buses
    <3>2. Len(z.devices) > n BY <1>0, <2>2
    <3>3. g[z][c] \in Tables(t) /\ Len(g[z][c].devices) >= Len(z.devices) BY <1>2, <3>2 DEF ScansFrom
    <3>4. Len(g[z][c].devices) \in Nat BY <3>3 DEF Tables
    <3>5. ScanFunction(g, y, f) = g[z][c] BY <1>1, <2>1, <2>3, <3>1 DEF ScanFunction
    <3> QED BY <1>0, <1>3, <2>2, <3>3, <3>4, <3>5
  <2>4. CASE f.class # "bridge"
    <3>1. ScanFunction(g, y, f) = z BY <1>1, <2>4 DEF ScanFunction
    <3> QED BY <1>0, <1>2, <1>3, <2>2, <3>1
  <2> QED BY <2>3, <2>4
<1> QED BY <1>4, <1>5

LEMMA FunctionStepIs ==
  ASSUME NEW t, IsTopology(t), NEW g, NEW n \in Nat, ScansFrom(t, g, n), NEW bus, NEW dev, NEW fn,
         NEW y \in LongTables(t, n)
  PROVE  FunctionStep(t, g, bus, dev, y, fn) \in LongTables(t, n)
<1>1. y \in Tables(t) /\ Len(y.devices) \in Nat /\ Len(y.devices) >= n BY DEF LongTables, Tables
<1>2. CASE y.full \/ ~Present(t, bus, dev, fn)
  BY <1>2 DEF FunctionStep
<1>3. CASE ~(y.full \/ ~Present(t, bus, dev, fn))
  <2>1. PICK f \in t : f = FunctionAt(t, bus, dev, fn) BY <1>3, FunctionAtIs
  <2>2. y.full = FALSE BY <1>1, <1>3 DEF Tables
  <2>3. PICK z : z = ScanFunction(g, y, f) OBVIOUS
  <2>4. z \in Tables(t) /\ Len(z.devices) >= Len(y.devices)
    BY <2>2, <2>3, ScanFunctionIs
  <2>5. Len(z.devices) \in Nat BY <2>4 DEF Tables
  <2>6. FunctionStep(t, g, bus, dev, y, fn) = z BY <1>3, <2>1, <2>3 DEF FunctionStep
  <2> QED BY <1>1, <2>4, <2>5, <2>6 DEF LongTables
<1> QED BY <1>2, <1>3

FunctionLoopRun(f, t, g, bus, dev, y, s, m, n) ==
  /\ f \in [0..m -> LongTables(t, n)] /\ f[0] = y /\ f[m] = FunctionLoop(t, g, bus, dev, y, s)
  /\ \A i \in 1..m : f[i] = FunctionStep(t, g, bus, dev, f[i - 1], s[i])

\* The loop of ScanDevice, unrolled.
LEMMA FunctionLoopSteps ==
  ASSUME NEW t, IsTopology(t), NEW g, NEW n \in Nat, ScansFrom(t, g, n), NEW bus, NEW dev,
         NEW y \in LongTables(t, n), NEW s \in Seq(Nat), NEW m \in Nat, m = Len(s)
  PROVE  \E f : FunctionLoopRun(f, t, g, bus, dev, y, s, m, n)
<1> DEFINE F == [p \in LongTables(t, n) \X Nat |-> FunctionStep(t, g, bus, dev, p[1], p[2])]
           Eqn(it) == it = [T \in SUBSET (DOMAIN s) |->
              IF T = {} THEN y ELSE FunctionStep(t, g, bus, dev, it[T \ {Max(T)}], s[Max(T)])]
           iter == CHOOSE it : Eqn(it)
<1>1. DOMAIN s = 1..m /\ m \in 0..Len(s) /\ s \in [1..m -> Nat]
  OBVIOUS
<1>2. F \in [LongTables(t, n) \X Nat -> LongTables(t, n)]
  BY FunctionStepIs
<1>3. FunctionLoop(t, g, bus, dev, y, s) = iter[DOMAIN s]
  BY DEF FunctionLoop, FoldLeft, MapThenFoldSet
<1>4. ASSUME NEW a \in LongTables(t, n), NEW T \in SUBSET (1..m), T # {}
      PROVE  F[<<a, s[Max(T)]>>] = FunctionStep(t, g, bus, dev, a, s[Max(T)])
  <2>1. Max(T) \in 1..m
    BY <1>1, <1>4, MaxOf
  <2>2. PICK b \in Nat : b = s[Max(T)]
    BY <1>1, <2>1
  <2> QED  BY <2>2
<1> HIDE DEF F
<1>5. PICK it \in [SUBSET (1..m) -> LongTables(t, n)] : IsIter(it, F, y, s, m)
  BY <1>1, <1>2, IterExists
<1>6. Eqn(it)
  BY <1>1, <1>4, <1>5 DEF IsIter
<1>7. Eqn(iter)
  BY <1>6
<1> HIDE DEF iter
<1>8. IsFold(iter, F, y, s, m, LongTables(t, n), Nat)
  BY <1>1, <1>2, <1>4, <1>7 DEF IsFold
<1>9. PICK f \in [0..m -> LongTables(t, n)] : Steps(f, F, y, s, m) /\ f[m] = iter[1..m]
  BY <1>8, FoldSteps
<1>10. \A i \in 1..m : f[i] = FunctionStep(t, g, bus, dev, f[i - 1], s[i])
  <2> SUFFICES ASSUME NEW i \in 1..m PROVE f[i] = FunctionStep(t, g, bus, dev, f[i - 1], s[i])
    OBVIOUS
  <2>1. s[i] \in Nat
    BY <1>1
  <2>2. f[i - 1] \in LongTables(t, n)
    OBVIOUS
  <2> QED  BY <1>9, <2>1, <2>2 DEF F, Steps
<1>11. FunctionLoopRun(f, t, g, bus, dev, y, s, m, n)
  BY <1>1, <1>3, <1>9, <1>10 DEF Steps, FunctionLoopRun
<1> QED  BY <1>11

\* The numbers a loop runs over.
LEMMA CountingUp ==
  ASSUME NEW m \in Nat
  PROVE  /\ [i \in 1..m |-> i] \in Seq(Nat) /\ Len([i \in 1..m |-> i]) = m
         /\ [i \in 1..m |-> i - 1] \in Seq(Nat) /\ Len([i \in 1..m |-> i - 1]) = m
<1>1. \A i \in 1..m : i \in Nat /\ i - 1 \in Nat OBVIOUS
<1>2. [i \in 1..m |-> i] \in Seq(Nat) /\ [i \in 1..m |-> i - 1] \in Seq(Nat) BY <1>1
<1> QED BY <1>2

\* f[fn] is the table after function fn.
FunctionRun(f, t, g, bus, dev, y, n) ==
  /\ f \in [0..MaxFn -> LongTables(t, n)] /\ f[0] = y
  /\ \A fn \in 1..MaxFn : f[fn] = FunctionStep(t, g, bus, dev, f[fn - 1], fn)

LEMMA FunctionRuns ==
  ASSUME NEW t, IsTopology(t), NEW g, NEW n \in Nat, ScansFrom(t, g, n), NEW bus, NEW dev,
         NEW y \in LongTables(t, n)
  PROVE  \E f : /\ FunctionRun(f, t, g, bus, dev, y, n)
                /\ f[MaxFn] = FunctionLoop(t, g, bus, dev, y, [fn \in 1..MaxFn |-> fn])
<1>1. PICK s \in Seq(Nat) : s = [fn \in 1..MaxFn |-> fn] /\ MaxFn = Len(s)
  BY CountingUp, PciNumbers
<1>2. PICK f \in [0..MaxFn -> LongTables(t, n)] :
        /\ f[0] = y /\ f[MaxFn] = FunctionLoop(t, g, bus, dev, y, s)
        /\ \A i \in 1..MaxFn : f[i] = FunctionStep(t, g, bus, dev, f[i - 1], s[i])
  <2>1. PICK f : FunctionLoopRun(f, t, g, bus, dev, y, s, MaxFn, n)
    BY <1>1, PciNumbers, FunctionLoopSteps
  <2> QED BY <2>1 DEF FunctionLoopRun
<1>3. \A i \in 1..MaxFn : f[i] = FunctionStep(t, g, bus, dev, f[i - 1], i)
  BY <1>1, <1>2
<1> QED BY <1>1, <1>2, <1>3 DEF FunctionRun

LEMMA ScanDeviceIs ==
  ASSUME NEW t, IsTopology(t), NEW g, NEW n \in Nat, ScansFrom(t, g, n), NEW bus, NEW dev,
         NEW y \in LongTables(t, n), y.full = FALSE, Present(t, bus, dev, 0)
  PROVE  ScanDevice(t, g, y, bus, dev) \in LongTables(t, n)
<1>1. PICK first \in t : first = FunctionAt(t, bus, dev, 0) BY FunctionAtIs
<1>2. PICK z : z = ScanFunction(g, y, first) OBVIOUS
<1>3. z \in LongTables(t, n)
  <2>1. FunctionStep(t, g, bus, dev, y, 0) = z BY <1>1, <1>2 DEF FunctionStep
  <2> QED BY <2>1, FunctionStepIs
<1>4. CASE first.multi
  <2>1. PICK f : /\ FunctionRun(f, t, g, bus, dev, z, n)
                 /\ f[MaxFn] = FunctionLoop(t, g, bus, dev, z, [fn \in 1..MaxFn |-> fn])
    BY <1>3, FunctionRuns
  <2>2. ScanDevice(t, g, y, bus, dev) = f[MaxFn]
    BY <1>1, <1>2, <1>4, <2>1, LoopsAre
  <2>3. MaxFn \in 0..MaxFn BY PciNumbers
  <2> QED BY <2>1, <2>2, <2>3 DEF FunctionRun
<1>5. CASE ~first.multi
  <2>1. ScanDevice(t, g, y, bus, dev) = z BY <1>1, <1>2, <1>5, LoopsAre
  <2> QED BY <1>3, <2>1
<1> QED BY <1>4, <1>5

LEMMA DeviceStepIs ==
  ASSUME NEW t, IsTopology(t), NEW g, NEW n \in Nat, ScansFrom(t, g, n), NEW bus, NEW dev,
         NEW y \in LongTables(t, n)
  PROVE  DeviceStep(t, g, bus, y, dev) \in LongTables(t, n)
<1>1. CASE y.full \/ ~Present(t, bus, dev, 0)
  BY <1>1 DEF DeviceStep
<1>2. CASE ~(y.full \/ ~Present(t, bus, dev, 0))
  <2>1. y.full = FALSE BY <1>2 DEF LongTables, Tables
  <2>2. DeviceStep(t, g, bus, y, dev) = ScanDevice(t, g, y, bus, dev) BY <1>2 DEF DeviceStep
  <2> QED BY <1>2, <2>1, <2>2, ScanDeviceIs
<1> QED BY <1>1, <1>2

DeviceLoopRun(f, t, g, bus, y, s, m, n) ==
  /\ f \in [0..m -> LongTables(t, n)] /\ f[0] = y /\ f[m] = DeviceLoop(t, g, bus, y, s)
  /\ \A i \in 1..m : f[i] = DeviceStep(t, g, bus, f[i - 1], s[i])

\* The loop of ScanBus, unrolled.
LEMMA DeviceLoopSteps ==
  ASSUME NEW t, IsTopology(t), NEW g, NEW n \in Nat, ScansFrom(t, g, n), NEW bus,
         NEW y \in LongTables(t, n), NEW s \in Seq(Nat), NEW m \in Nat, m = Len(s)
  PROVE  \E f : DeviceLoopRun(f, t, g, bus, y, s, m, n)
<1> DEFINE F == [p \in LongTables(t, n) \X Nat |-> DeviceStep(t, g, bus, p[1], p[2])]
           Eqn(it) == it = [T \in SUBSET (DOMAIN s) |->
              IF T = {} THEN y ELSE DeviceStep(t, g, bus, it[T \ {Max(T)}], s[Max(T)])]
           iter == CHOOSE it : Eqn(it)
<1>1. DOMAIN s = 1..m /\ m \in 0..Len(s) /\ s \in [1..m -> Nat]
  OBVIOUS
<1>2. F \in [LongTables(t, n) \X Nat -> LongTables(t, n)]
  BY DeviceStepIs
<1>3. DeviceLoop(t, g, bus, y, s) = iter[DOMAIN s]
  BY DEF DeviceLoop, FoldLeft, MapThenFoldSet
<1>4. ASSUME NEW a \in LongTables(t, n), NEW T \in SUBSET (1..m), T # {}
      PROVE  F[<<a, s[Max(T)]>>] = DeviceStep(t, g, bus, a, s[Max(T)])
  <2>1. Max(T) \in 1..m
    BY <1>1, <1>4, MaxOf
  <2>2. PICK b \in Nat : b = s[Max(T)]
    BY <1>1, <2>1
  <2> QED  BY <2>2
<1> HIDE DEF F
<1>5. PICK it \in [SUBSET (1..m) -> LongTables(t, n)] : IsIter(it, F, y, s, m)
  BY <1>1, <1>2, IterExists
<1>6. Eqn(it)
  BY <1>1, <1>4, <1>5 DEF IsIter
<1>7. Eqn(iter)
  BY <1>6
<1> HIDE DEF iter
<1>8. IsFold(iter, F, y, s, m, LongTables(t, n), Nat)
  BY <1>1, <1>2, <1>4, <1>7 DEF IsFold
<1>9. PICK f \in [0..m -> LongTables(t, n)] : Steps(f, F, y, s, m) /\ f[m] = iter[1..m]
  BY <1>8, FoldSteps
<1>10. \A i \in 1..m : f[i] = DeviceStep(t, g, bus, f[i - 1], s[i])
  <2> SUFFICES ASSUME NEW i \in 1..m PROVE f[i] = DeviceStep(t, g, bus, f[i - 1], s[i])
    OBVIOUS
  <2>1. s[i] \in Nat
    BY <1>1
  <2>2. f[i - 1] \in LongTables(t, n)
    OBVIOUS
  <2> QED  BY <1>9, <2>1, <2>2 DEF F, Steps
<1>11. DeviceLoopRun(f, t, g, bus, y, s, m, n)
  BY <1>1, <1>3, <1>9, <1>10 DEF Steps, DeviceLoopRun
<1> QED  BY <1>11

\* f[dev] is the table before device dev.
DeviceRun(f, t, g, bus, y, n) ==
  /\ f \in [0..(MaxDev + 1) -> LongTables(t, n)] /\ f[0] = y
  /\ \A dev \in 0..MaxDev : f[dev + 1] = DeviceStep(t, g, bus, f[dev], dev)

LEMMA DeviceRuns ==
  ASSUME NEW t, IsTopology(t), NEW g, NEW n \in Nat, ScansFrom(t, g, n), NEW bus,
         NEW y \in LongTables(t, n)
  PROVE  \E f : DeviceRun(f, t, g, bus, y, n) /\ f[MaxDev + 1] = ScanDevices(t, g, y, bus)
<1>0. PICK m \in Nat : m = MaxDev + 1 BY PciNumbers
<1>1. PICK s \in Seq(Nat) : s = [i \in 1..m |-> i - 1] /\ m = Len(s)
  BY CountingUp
<1>2. PICK f \in [0..m -> LongTables(t, n)] :
        /\ f[0] = y /\ f[m] = DeviceLoop(t, g, bus, y, s)
        /\ \A i \in 1..m : f[i] = DeviceStep(t, g, bus, f[i - 1], s[i])
  <2>1. PICK f : DeviceLoopRun(f, t, g, bus, y, s, m, n) BY <1>1, DeviceLoopSteps
  <2> QED BY <2>1 DEF DeviceLoopRun
<1>3. ASSUME NEW dev \in 0..MaxDev PROVE f[dev + 1] = DeviceStep(t, g, bus, f[dev], dev)
  <2>1. PICK i \in 1..m : i = dev + 1 /\ i - 1 = dev BY <1>0, PciNumbers
  <2> QED BY <1>1, <1>2, <2>1
<1>4. f[m] = ScanDevices(t, g, y, bus) BY <1>0, <1>1, <1>2, LoopsAre
<1> QED BY <1>0, <1>2, <1>3, <1>4 DEF DeviceRun

\* What a call does with g depends only on g at longer tables.
Alike(t, g, h, n) ==
  \A y \in Tables(t) : \A b \in Buses : Len(y.devices) > n => g[y][b] = h[y][b]

\* Wrapped, so that the provers take the equation for a fact about its names.
Same(y, z) == y = z

LEMMA SameFunctions ==
  ASSUME NEW t, IsTopology(t), NEW g, NEW h, NEW n \in Nat, ScansFrom(t, g, n), ScansFrom(t, h, n),
         Alike(t, g, h, n), NEW y \in LongTables(t, n), NEW f \in t, y.full = FALSE
  PROVE  Same(ScanFunction(g, y, f), ScanFunction(h, y, f))
<1>1. PICK z : z = AddDevice(y, f) OBVIOUS
<1>2. CASE ~z.full /\ f.class = "bridge"
  <2>1. y \in Tables(t) /\ y.devices \in Seq(t) /\ Len(y.devices) \in Nat /\ Len(y.devices) >= n
    BY DEF LongTables, Tables
  <2>2. z \in Tables(t) /\ z.devices = Append(y.devices, f) BY <1>1, <1>2, <2>1, AddDeviceIs
  <2>3. Len(z.devices) > n BY <2>1, <2>2
  <2>4. f.secondary \in Buses BY <1>2 DEF IsTopology, Buses
  <2>5. g[z][f.secondary] = h[z][f.secondary] BY <2>2, <2>3, <2>4 DEF Alike
  <2> QED BY <1>1, <1>2, <2>5 DEF ScanFunction, Same
<1>3. CASE ~(~z.full /\ f.class = "bridge")
  BY <1>1, <1>3 DEF ScanFunction, Same
<1> QED BY <1>2, <1>3

LEMMA SameFunctionSteps ==
  ASSUME NEW t, IsTopology(t), NEW g, NEW h, NEW n \in Nat, ScansFrom(t, g, n), ScansFrom(t, h, n),
         Alike(t, g, h, n), NEW y \in LongTables(t, n), NEW bus, NEW dev, NEW fn
  PROVE  Same(FunctionStep(t, g, bus, dev, y, fn), FunctionStep(t, h, bus, dev, y, fn))
<1>1. CASE y.full \/ ~Present(t, bus, dev, fn)
  BY <1>1 DEF FunctionStep, Same
<1>2. CASE ~(y.full \/ ~Present(t, bus, dev, fn))
  <2>1. PICK f \in t : f = FunctionAt(t, bus, dev, fn) BY <1>2, FunctionAtIs
  <2>2. y.full = FALSE BY <1>2 DEF LongTables, Tables
  <2>3. Same(ScanFunction(g, y, f), ScanFunction(h, y, f)) BY <2>2, SameFunctions
  <2> QED BY <1>2, <2>1, <2>3 DEF FunctionStep, Same
<1> QED BY <1>1, <1>2

LEMMA SameDevices ==
  ASSUME NEW t, IsTopology(t), NEW g, NEW h, NEW n \in Nat, ScansFrom(t, g, n), ScansFrom(t, h, n),
         Alike(t, g, h, n), NEW y \in LongTables(t, n), NEW bus, NEW dev,
         y.full = FALSE, Present(t, bus, dev, 0)
  PROVE  Same(ScanDevice(t, g, y, bus, dev), ScanDevice(t, h, y, bus, dev))
<1>1. PICK first \in t : first = FunctionAt(t, bus, dev, 0) BY FunctionAtIs
<1>2. PICK z : z = ScanFunction(g, y, first) /\ z = ScanFunction(h, y, first)
  <2>1. Same(ScanFunction(g, y, first), ScanFunction(h, y, first)) BY SameFunctions
  <2> QED BY <2>1 DEF Same
<1>3. z \in LongTables(t, n)
  <2>1. FunctionStep(t, g, bus, dev, y, 0) = z BY <1>1, <1>2 DEF FunctionStep
  <2> QED BY <2>1, FunctionStepIs
<1>4. CASE first.multi
  <2>1. PICK f : /\ FunctionRun(f, t, g, bus, dev, z, n)
                 /\ f[MaxFn] = FunctionLoop(t, g, bus, dev, z, [fn \in 1..MaxFn |-> fn])
    BY <1>3, FunctionRuns
  <2>2. PICK e : /\ FunctionRun(e, t, h, bus, dev, z, n)
                 /\ e[MaxFn] = FunctionLoop(t, h, bus, dev, z, [fn \in 1..MaxFn |-> fn])
    BY <1>3, FunctionRuns
  <2> DEFINE S == {i \in 0..MaxFn : f[i] = e[i]}
  <2>3. 0 \in S BY <2>1, <2>2, PciNumbers DEF FunctionRun
  <2>4. ASSUME NEW i \in 1..MaxFn, (i - 1) \in S PROVE i \in S
    <3>1. i - 1 \in 0..MaxFn /\ i \in 0..MaxFn BY PciNumbers
    <3>2. PICK a \in LongTables(t, n) : a = f[i - 1] /\ a = e[i - 1] BY <2>1, <2>4, <3>1 DEF FunctionRun
    <3>3. f[i] = FunctionStep(t, g, bus, dev, a, i) BY <2>1, <3>2 DEF FunctionRun
    <3>4. e[i] = FunctionStep(t, h, bus, dev, a, i) BY <2>2, <3>2 DEF FunctionRun
    <3>5. Same(FunctionStep(t, g, bus, dev, a, i), FunctionStep(t, h, bus, dev, a, i))
      BY SameFunctionSteps
    <3> QED BY <3>1, <3>3, <3>4, <3>5 DEF Same
  <2>5. \A i \in 0..MaxFn : i \in S
    <3> HIDE DEF S
    <3> QED BY <2>3, <2>4, PciNumbers, CountUp
  <2>6. f[MaxFn] = e[MaxFn] BY <2>5, PciNumbers
  <2>7. ScanDevice(t, g, y, bus, dev) = f[MaxFn] BY <1>1, <1>2, <1>4, <2>1, LoopsAre
  <2>8. ScanDevice(t, h, y, bus, dev) = e[MaxFn] BY <1>1, <1>2, <1>4, <2>2, LoopsAre
  <2> QED BY <2>6, <2>7, <2>8 DEF Same
<1>5. CASE ~first.multi
  <2>1. ScanDevice(t, g, y, bus, dev) = z BY <1>1, <1>2, <1>5, LoopsAre
  <2>2. ScanDevice(t, h, y, bus, dev) = z BY <1>1, <1>2, <1>5, LoopsAre
  <2> QED BY <2>1, <2>2 DEF Same
<1> QED BY <1>4, <1>5

LEMMA SameDeviceSteps ==
  ASSUME NEW t, IsTopology(t), NEW g, NEW h, NEW n \in Nat, ScansFrom(t, g, n), ScansFrom(t, h, n),
         Alike(t, g, h, n), NEW y \in LongTables(t, n), NEW bus, NEW dev
  PROVE  Same(DeviceStep(t, g, bus, y, dev), DeviceStep(t, h, bus, y, dev))
<1>1. CASE y.full \/ ~Present(t, bus, dev, 0)
  BY <1>1 DEF DeviceStep, Same
<1>2. CASE ~(y.full \/ ~Present(t, bus, dev, 0))
  <2>1. y.full = FALSE BY <1>2 DEF LongTables, Tables
  <2>2. Same(ScanDevice(t, g, y, bus, dev), ScanDevice(t, h, y, bus, dev)) BY <1>2, <2>1, SameDevices
  <2> QED BY <1>2, <2>2 DEF DeviceStep, Same
<1> QED BY <1>1, <1>2

LEMMA SameBuses ==
  ASSUME NEW t, IsTopology(t), NEW g, NEW h, NEW n \in Nat, ScansFrom(t, g, n), ScansFrom(t, h, n),
         Alike(t, g, h, n), NEW y \in LongTables(t, n), NEW bus
  PROVE  Same(ScanDevices(t, g, y, bus), ScanDevices(t, h, y, bus))
<1>0. PICK m \in Nat : m = MaxDev + 1 /\ m \in 0..(MaxDev + 1) BY PciNumbers
<1>1. PICK f : DeviceRun(f, t, g, bus, y, n) /\ f[m] = ScanDevices(t, g, y, bus)
  BY <1>0, DeviceRuns
<1>2. PICK e : DeviceRun(e, t, h, bus, y, n) /\ e[m] = ScanDevices(t, h, y, bus)
  BY <1>0, DeviceRuns
<1> DEFINE S == {i \in 0..m : f[i] = e[i]}
<1>3. 0 \in S BY <1>1, <1>2 DEF DeviceRun
<1>4. ASSUME NEW i \in 1..m, (i - 1) \in S PROVE i \in S
  <2>1. PICK d \in 0..MaxDev : d = i - 1 /\ i = d + 1 /\ d \in 0..(MaxDev + 1) BY <1>0, PciNumbers
  <2>2. PICK a \in LongTables(t, n) : a = f[d] /\ a = e[d] BY <1>1, <1>4, <2>1 DEF DeviceRun
  <2>3. f[d + 1] = DeviceStep(t, g, bus, a, d) BY <1>1, <2>2 DEF DeviceRun
  <2>4. e[d + 1] = DeviceStep(t, h, bus, a, d) BY <1>2, <2>2 DEF DeviceRun
  <2>5. Same(DeviceStep(t, g, bus, a, d), DeviceStep(t, h, bus, a, d)) BY SameDeviceSteps
  <2>6. i \in 0..m OBVIOUS
  <2> QED BY <2>1, <2>3, <2>4, <2>5, <2>6 DEF Same
<1>5. \A i \in 0..m : i \in S
  <2> HIDE DEF S
  <2> QED BY <1>3, <1>4, CountUp
<1>6. f[m] = e[m] BY <1>5
<1> QED BY <1>1, <1>2, <1>6 DEF Same

LEMMA ScanDevicesIs ==
  ASSUME NEW t, IsTopology(t), NEW g, NEW n \in Nat, ScansFrom(t, g, n),
         NEW y \in LongTables(t, n), NEW bus
  PROVE  ScanDevices(t, g, y, bus) \in LongTables(t, n)
<1>0. PICK m \in Nat : m = MaxDev + 1 /\ m \in 0..(MaxDev + 1) BY PciNumbers
<1>1. PICK f : DeviceRun(f, t, g, bus, y, n) /\ f[m] = ScanDevices(t, g, y, bus)
  BY <1>0, DeviceRuns
<1> QED BY <1>0, <1>1 DEF DeviceRun

\* g makes tables of tables, forgets nothing, and does what ScanBus does with
\* tables of n entries or more.
Solves(t, g, n) ==
  /\ g \in [Tables(t) -> [Buses -> Tables(t)]]
  /\ \A y \in Tables(t) : \A b \in Buses : Len(g[y][b].devices) >= Len(y.devices)
  /\ \A y \in LongTables(t, n) : \A b \in Buses : Same(g[y][b], ScanDevices(t, g, y, b))

LEMMA SolveOneMore ==
  ASSUME NEW t, IsTopology(t), NEW n \in Nat, NEW m \in Nat, m = n + 1, NEW g, Solves(t, g, m)
  PROVE  \E h : Solves(t, h, n)
<1> DEFINE h == [y \in Tables(t) |-> [b \in Buses |->
                   IF Len(y.devices) = n THEN ScanDevices(t, g, y, b) ELSE g[y][b]]]
<1>1. ScansFrom(t, g, n) BY DEF ScansFrom, Solves
<1>2. ASSUME NEW y \in Tables(t), NEW b \in Buses
      PROVE  /\ h[y][b] \in Tables(t) /\ Len(h[y][b].devices) >= Len(y.devices)
             /\ Len(y.devices) = n => h[y][b] = ScanDevices(t, g, y, b)
             /\ Len(y.devices) # n => h[y][b] = g[y][b]
  <2>1. Len(y.devices) \in Nat BY DEF Tables
  <2>2. CASE Len(y.devices) = n
    <3>1. y \in LongTables(t, n) BY <2>1, <2>2 DEF LongTables
    <3>2. PICK z : z = ScanDevices(t, g, y, b) OBVIOUS
    <3>3. z \in LongTables(t, n) BY <1>1, <3>1, <3>2, ScanDevicesIs
    <3>4. h[y][b] = z BY <2>2, <3>2
    <3>5. z \in Tables(t) /\ Len(z.devices) >= n BY <3>3 DEF LongTables
    <3> QED BY <2>2, <3>2, <3>4, <3>5
  <2>3. CASE Len(y.devices) # n
    <3>1. h[y][b] = g[y][b] BY <2>3
    <3> QED BY <2>3, <3>1 DEF Solves
  <2> QED BY <2>2, <2>3
<1>3. h \in [Tables(t) -> [Buses -> Tables(t)]]
  <2>1. h = [y \in Tables(t) |-> [b \in Buses |-> h[y][b]]] OBVIOUS
  <2> HIDE DEF h
  <2> QED BY <1>2, <2>1
<1> HIDE DEF h
<1>4. ScansFrom(t, h, n) BY <1>2 DEF ScansFrom
<1>5. Alike(t, g, h, n)
  <2> SUFFICES ASSUME NEW y \in Tables(t), NEW b \in Buses, Len(y.devices) > n PROVE g[y][b] = h[y][b]
    BY DEF Alike
  <2>1. Len(y.devices) \in Nat BY DEF Tables
  <2>2. Len(y.devices) # n BY <2>1
  <2> QED BY <1>2, <2>2
<1>6. ASSUME NEW y \in LongTables(t, n), NEW b \in Buses
      PROVE  Same(h[y][b], ScanDevices(t, h, y, b))
  <2>1. y \in Tables(t) /\ Len(y.devices) \in Nat /\ Len(y.devices) >= n BY DEF LongTables, Tables
  <2>2. Same(ScanDevices(t, g, y, b), ScanDevices(t, h, y, b)) BY <1>1, <1>4, <1>5, SameBuses
  <2>3. CASE Len(y.devices) = n
    <3>1. h[y][b] = ScanDevices(t, g, y, b) BY <1>2, <2>1, <2>3
    <3> QED BY <2>2, <3>1 DEF Same
  <2>4. CASE Len(y.devices) # n
    <3>1. y \in LongTables(t, m) BY <2>1, <2>4 DEF LongTables
    <3>2. Same(g[y][b], ScanDevices(t, g, y, b)) BY <3>1 DEF Solves
    <3>3. h[y][b] = g[y][b] BY <1>2, <2>1, <2>4
    <3> QED BY <2>2, <3>2, <3>3 DEF Same
  <2> QED BY <2>3, <2>4
<1>7. Solves(t, h, n) BY <1>2, <1>3, <1>6 DEF Solves
<1> QED BY <1>7

LEMMA SolutionExists ==
  ASSUME NEW t, IsTopology(t)
  PROVE  \E g : Solves(t, g, 0)
<1>0. PICK top \in Nat : top = MaxDevices + 1 BY PciNumbers
<1> DEFINE S == {k \in 0..top : \E g : Solves(t, g, top - k)}
<1>1. 0 \in S
  <2> DEFINE g == [y \in Tables(t) |-> [b \in Buses |-> y]]
  <2>1. g \in [Tables(t) -> [Buses -> Tables(t)]] OBVIOUS
  <2>2. \A y \in Tables(t) : \A b \in Buses : Len(g[y][b].devices) >= Len(y.devices) BY DEF Tables
  <2>3. \A y \in LongTables(t, top) : FALSE BY <1>0, PciNumbers DEF LongTables, Tables
  <2> HIDE DEF g
  <2>4. Solves(t, g, top) BY <2>1, <2>2, <2>3 DEF Solves
  <2>5. top - 0 = top /\ 0 \in 0..top OBVIOUS
  <2> QED BY <2>4, <2>5
<1>2. ASSUME NEW k \in 1..top, (k - 1) \in S PROVE k \in S
  <2>1. PICK n \in Nat, m \in Nat : n = top - k /\ m = top - (k - 1) /\ m = n + 1 OBVIOUS
  <2>2. PICK g : Solves(t, g, m) BY <1>2, <2>1
  <2>3. \E h : Solves(t, h, n) BY <2>1, <2>2, SolveOneMore
  <2> QED BY <2>1, <2>3
<1>3. top \in S
  <2> HIDE DEF S
  <2>1. \A k \in 0..top : k \in S BY <1>1, <1>2, CountUp
  <2> QED BY <2>1
<1>4. top - top = 0 OBVIOUS
<1> QED BY <1>3, <1>4

\* A function that does what ScanBus does with every table.
IsScan(t, g) == g = [y \in Tables(t) |-> [bus \in 0..MaxBus |-> ScanDevices(t, g, y, bus)]]

LEMMA ScanIs ==
  ASSUME NEW t, IsTopology(t), NEW x \in Tables(t), NEW bus \in Buses
  PROVE  \E g : IsScan(t, g) /\ ScanBus(t, x, bus) = g[x][bus]
<1> DEFINE scan == CHOOSE g : IsScan(t, g)
<1>1. PICK g : Solves(t, g, 0) BY SolutionExists
<1>2. IsScan(t, g)
  <2>1. \A y \in Tables(t) : y \in LongTables(t, 0) BY DEF LongTables, Tables
  <2>2. \A y \in Tables(t) : \A b \in Buses : g[y][b] = ScanDevices(t, g, y, b)
    BY <1>1, <2>1 DEF Solves, Same
  <2>3. g = [y \in Tables(t) |-> [b \in Buses |-> g[y][b]]] BY <1>1 DEF Solves
  <2> QED BY <2>2, <2>3 DEF IsScan, Buses
<1>3. IsScan(t, scan) BY <1>2
<1>4. ScanBus(t, x, bus) = scan[x][bus] BY DEF ScanBus, IsScan
<1> HIDE DEF scan
<1> QED BY <1>3, <1>4

-----------------------------------------------------------------------------
(* What a call of ScanBus promises, if the calls below it do *)

Listed(y) == 1..Len(y.devices)

LEMMA TableIs ==
  ASSUME NEW t, NEW y \in Tables(t)
  PROVE  /\ y.devices \in Seq(t) /\ Len(y.devices) \in Nat /\ Len(y.devices) <= MaxDevices
         /\ y.full \in BOOLEAN /\ \A i \in Listed(y) : y.devices[i] \in t
BY DEF Tables, Listed

\* Nothing is listed that cannot be reached, and only a full table fails.
TableOK(t, y) ==
  /\ y \in Tables(t)
  /\ y.full => Len(y.devices) = MaxDevices
  /\ \A i \in Listed(y) : y.devices[i] \in Reachable(t)

Grows(x, y) ==
  Len(x.devices) <= Len(y.devices) /\ \A i \in Listed(x) : y.devices[i] = x.devices[i]

Lists(y, f) == \E i \in Listed(y) : y.devices[i] = f
Before(f, dev, fn) == f.dev < dev \/ (f.dev = dev /\ f.fn < fn)
\* The functions of a bus, those before (dev, fn) and all.
ListsBefore(t, y, bus, dev, fn) ==
  \A f \in t : (f.bus = bus /\ Visible(t, f) /\ Before(f, dev, fn)) => Lists(y, f)
ListsBus(t, y, bus) == \A f \in t : (f.bus = bus /\ Visible(t, f)) => Lists(y, f)

\* The bridges up to entry n that were not in x have been explored.
Explored(t, x, y, n) ==
  \A i \in Listed(y) : (i > Len(x.devices) /\ i <= n /\ y.devices[i].class = "bridge") =>
    ListsBus(t, y, y.devices[i].secondary)

\* Where every bus has one parent: nothing is listed twice, every function is
\* behind a bridge listed before it, and a failed table does lack something.
IsParent(y, j, bus) == y.devices[j].class = "bridge" /\ y.devices[j].secondary = bus
HasParent(t, y, bus, n) ==
  bus \in HostFunctions(t) \/ \E j \in Listed(y) : j < n /\ IsParent(y, j, bus)
Lacks(t, y) == \E f \in Reachable(t) : ~Lists(y, f)
Once(t, y) ==
  /\ \A i, j \in Listed(y) : y.devices[i] = y.devices[j] => i = j
  /\ \A i \in Listed(y) : HasParent(t, y, y.devices[i].bus, i)
  /\ y.full => Lacks(t, y)

FreshBus(y, bus) == \A i \in Listed(y) : y.devices[i].bus # bus
OnlyBefore(y, bus, dev, fn) ==
  \A i \in Listed(y) : y.devices[i].bus = bus => Before(y.devices[i], dev, fn)
\* What was added is on the bus scanned or behind a bridge added before it.
Origin(x, bus, y) ==
  \A i \in Listed(y) : i > Len(x.devices) =>
    \/ y.devices[i].bus = bus
    \/ \E j \in Listed(y) : Len(x.devices) < j /\ j < i /\ IsParent(y, j, y.devices[i].bus)

PreOnce(t, x, bus) == Once(t, x) /\ FreshBus(x, bus) /\ HasParent(t, x, bus, Len(x.devices) + 1)
Pre(t, x, bus) ==
  /\ TableOK(t, x) /\ x.full = FALSE /\ bus \in ReachableBuses(t)
  /\ OneParent(t) => PreOnce(t, x, bus)

\* Within the call: the devices before (dev, fn) have been scanned.
MidOnce(t, x, bus, y, dev, fn) == Once(t, y) /\ Origin(x, bus, y) /\ OnlyBefore(y, bus, dev, fn)
Mid(t, x, bus, y, dev, fn) ==
  /\ TableOK(t, y) /\ Grows(x, y)
  /\ y.full = FALSE => Explored(t, x, y, Len(y.devices)) /\ ListsBefore(t, y, bus, dev, fn)
  /\ OneParent(t) => MidOnce(t, x, bus, y, dev, fn)

PostOnce(t, x, bus, y) == Once(t, y) /\ Origin(x, bus, y)
Post(t, x, bus, y) ==
  /\ TableOK(t, y) /\ Grows(x, y)
  /\ y.full = FALSE => Explored(t, x, y, Len(y.devices)) /\ ListsBus(t, y, bus)
  /\ OneParent(t) => PostOnce(t, x, bus, y)

\* The calls with more than n entries keep their promise.
Kept(t, g, n) ==
  \A x \in Tables(t) : \A bus \in Buses :
    (Len(x.devices) > n /\ Pre(t, x, bus)) => Post(t, x, bus, g[x][bus])

LEMMA ReachableFacts ==
  ASSUME NEW t, IsTopology(t)
  PROVE  /\ ReachableBuses(t) \subseteq Buses
         /\ HostFunctions(t) \subseteq ReachableBuses(t)
         /\ \A f \in Reachable(t) : f \in t /\ f.bus \in ReachableBuses(t) /\ Visible(t, f)
         /\ \A f \in t : (f.bus \in ReachableBuses(t) /\ Visible(t, f)) => f \in Reachable(t)
<1>1. ReachableBuses(t) \subseteq Buses BY DEF ReachableBuses, Buses
<1>2. HostFunctions(t) \subseteq ReachableBuses(t)
  <2>1. HostFunctions(t) \subseteq 0..MaxBus BY PciNumbers DEF HostFunctions
  <2>2. \A buses : Closed(t, buses) => HostFunctions(t) \subseteq buses BY DEF Closed
  <2> QED BY <2>1, <2>2 DEF ReachableBuses
<1>3. \A f \in Reachable(t) : f \in t /\ f.bus \in ReachableBuses(t) /\ Visible(t, f)
  BY DEF Reachable, OnBuses
<1>4. \A f \in t : (f.bus \in ReachableBuses(t) /\ Visible(t, f)) => f \in Reachable(t)
  BY DEF Reachable, OnBuses
<1> QED BY <1>1, <1>2, <1>3, <1>4

LEMMA BridgesReach ==
  ASSUME NEW t, IsTopology(t), NEW f \in Reachable(t), f.class = "bridge"
  PROVE  f.secondary \in ReachableBuses(t) /\ f.secondary \in Buses
<1>0. f \in t /\ f.bus \in ReachableBuses(t) /\ Visible(t, f) BY ReachableFacts
<1>1. f.secondary \in 0..MaxBus BY <1>0 DEF IsTopology
<1>2. ASSUME NEW buses \in SUBSET (0..MaxBus), Closed(t, buses) PROVE f.secondary \in buses
  <2>1. f.bus \in buses BY <1>0, <1>2 DEF ReachableBuses
  <2>2. f \in OnBuses(t, buses) BY <1>0, <2>1 DEF OnBuses
  <2> QED BY <1>2, <2>2 DEF Closed
<1>3. f.secondary \in ReachableBuses(t) BY <1>1, <1>2 DEF ReachableBuses
<1> QED BY <1>1, <1>3 DEF Buses

LEMMA ParentsAre ==
  ASSUME NEW t, OneParent(t), NEW f \in Reachable(t), f.class = "bridge"
  PROVE  /\ f.secondary \notin HostFunctions(t)
         /\ \A g \in Reachable(t) : (g.class = "bridge" /\ g.secondary = f.secondary) => g = f
BY DEF OneParent

LEMMA GrowsLists ==
  ASSUME NEW t, NEW y \in Tables(t), NEW z \in Tables(t), Grows(y, z)
  PROVE  /\ \A f : Lists(y, f) => Lists(z, f)
         /\ \A bus : ListsBus(t, y, bus) => ListsBus(t, z, bus)
         /\ \A bus, dev, fn : ListsBefore(t, y, bus, dev, fn) => ListsBefore(t, z, bus, dev, fn)
         /\ \A i \in Listed(y) : i \in Listed(z) /\ z.devices[i] = y.devices[i]
<1>1. \A i \in Listed(y) : i \in Listed(z) /\ z.devices[i] = y.devices[i]
  BY TableIs DEF Grows, Listed
<1>2. \A f : Lists(y, f) => Lists(z, f) BY <1>1 DEF Lists
<1> QED BY <1>1, <1>2 DEF ListsBus, ListsBefore

LEMMA GrowsOn ==
  ASSUME NEW t, NEW x \in Tables(t), NEW y \in Tables(t), NEW z \in Tables(t), Grows(x, y), Grows(y, z)
  PROVE  Grows(x, z)
<1>1. Len(x.devices) \in Nat /\ Len(y.devices) \in Nat /\ Len(z.devices) \in Nat BY TableIs
<1>2. Len(x.devices) <= Len(y.devices) /\ Len(y.devices) <= Len(z.devices) BY DEF Grows
<1>3. \A i \in Listed(x) : i \in Listed(y) BY <1>1, <1>2 DEF Listed
<1>4. \A i \in Listed(x) : z.devices[i] = x.devices[i] BY <1>3 DEF Grows
<1> QED BY <1>1, <1>2, <1>4 DEF Grows

\* z is y with f at its end.
Appended(y, z, f) ==
  /\ z.full = FALSE /\ Len(z.devices) = Len(y.devices) + 1
  /\ z.devices[Len(z.devices)] = f
  /\ \A i \in Listed(y) : z.devices[i] = y.devices[i]

LEMMA AppendedIs ==
  ASSUME NEW t, NEW y \in Tables(t), NEW f \in t, y.full = FALSE, Len(y.devices) # MaxDevices
  PROVE  Appended(y, AddDevice(y, f), f) /\ AddDevice(y, f) \in Tables(t)
<1>1. PICK z : z = AddDevice(y, f) OBVIOUS
<1>2. z \in Tables(t) /\ z.full = FALSE /\ z.devices = Append(y.devices, f)
  BY <1>1, AddDeviceIs, PciNumbers
<1>3. y.devices \in Seq(t) BY TableIs
<1>4. Appended(y, z, f) BY <1>2, <1>3 DEF Appended, Listed
<1> QED BY <1>1, <1>2, <1>4

\* Function f, at (dev, fn) of the bus, is about to be added to y.
Adding(t, x, bus, y, dev, fn, next, f) ==
  /\ IsTopology(t) /\ Pre(t, x, bus) /\ Mid(t, x, bus, y, dev, fn) /\ y.full = FALSE
  /\ dev \in Nat /\ fn \in Nat /\ next = fn + 1
  /\ f \in t /\ f.bus = bus /\ f.dev = dev /\ f.fn = fn /\ Visible(t, f)

LEMMA AddingIs ==
  ASSUME NEW t, NEW x, NEW bus, NEW y, NEW dev, NEW fn, NEW next, NEW f,
         Adding(t, x, bus, y, dev, fn, next, f)
  PROVE  /\ x \in Tables(t) /\ y \in Tables(t) /\ f \in Reachable(t) /\ next \in Nat /\ Grows(x, y)
         /\ Before(f, dev, next) /\ ~Before(f, dev, fn)
         /\ \A g \in t : (g.bus = bus /\ Before(g, dev, next)) => g = f \/ Before(g, dev, fn)
         /\ \A g \in t : Before(g, dev, fn) => Before(g, dev, next)
<1> USE DEF Adding
<1>1. x \in Tables(t) /\ y \in Tables(t) /\ Grows(x, y) /\ bus \in ReachableBuses(t)
  <2>1. TableOK(t, x) /\ TableOK(t, y) /\ Grows(x, y) /\ bus \in ReachableBuses(t)
    BY Zenon DEF Pre, Mid
  <2> QED BY <2>1, Zenon DEF TableOK
<1>2. f \in Reachable(t) BY <1>1, ReachableFacts
<1>3. next \in Nat /\ Before(f, dev, next) /\ ~Before(f, dev, fn) BY DEF Before
<1>4. ASSUME NEW g \in t PROVE g.dev \in Int /\ g.fn \in Int
  <2>1. g.dev \in 0..MaxDev /\ g.fn \in 0..MaxFn BY DEF IsTopology
  <2> QED BY <2>1, PciNumbers
<1>5. ASSUME NEW g \in t, g.bus = bus, Before(g, dev, next) PROVE g = f \/ Before(g, dev, fn)
  <2>1. CASE g.dev = dev /\ g.fn = fn BY <1>5, <2>1 DEF IsTopology
  <2>2. CASE ~(g.dev = dev /\ g.fn = fn) BY <1>4, <1>5, <2>2 DEF Before
  <2> QED BY <2>1, <2>2
<1>6. \A g \in t : Before(g, dev, fn) => Before(g, dev, next) BY <1>4 DEF Before
<1> QED BY <1>1, <1>2, <1>3, <1>5, <1>6

LEMMA AppendedAny ==
  ASSUME NEW t, NEW x, NEW bus, NEW y, NEW dev, NEW fn, NEW next, NEW f,
         Adding(t, x, bus, y, dev, fn, next, f), NEW z \in Tables(t), Appended(y, z, f)
  PROVE  /\ TableOK(t, z) /\ Grows(y, z) /\ Grows(x, z) /\ Lists(z, f)
         /\ ListsBefore(t, z, bus, dev, next) /\ Explored(t, x, z, Len(y.devices))
<1>0. /\ x \in Tables(t) /\ y \in Tables(t) /\ f \in Reachable(t) /\ Grows(x, y)
      /\ Len(x.devices) \in Nat /\ Len(y.devices) \in Nat
      /\ Len(z.devices) = Len(y.devices) + 1
  BY AddingIs, TableIs DEF Appended
<1>1. Grows(y, z) BY <1>0 DEF Grows, Appended
<1>2. Grows(x, z) BY <1>0, <1>1, GrowsOn
<1>3. \A i \in Listed(z) : i \in Listed(y) \/ i = Len(z.devices) BY <1>0 DEF Listed
<1>4. TableOK(t, z)
  <2>1. \A i \in Listed(y) : y.devices[i] \in Reachable(t) BY DEF Adding, Mid, TableOK
  <2>2. \A i \in Listed(z) : z.devices[i] \in Reachable(t) BY <1>0, <1>3, <2>1 DEF Appended
  <2>3. z.full = FALSE BY DEF Appended
  <2> QED BY <2>2, <2>3 DEF TableOK
<1>5. Lists(z, f) /\ Len(z.devices) \in Listed(z) BY <1>0 DEF Lists, Listed, Appended
<1>6. ListsBefore(t, y, bus, dev, fn) /\ Explored(t, x, y, Len(y.devices)) BY DEF Adding, Mid
<1>7. ListsBefore(t, z, bus, dev, next)
  <2> SUFFICES ASSUME NEW g \in t, g.bus = bus, Visible(t, g), Before(g, dev, next) PROVE Lists(z, g)
    BY DEF ListsBefore
  <2>1. g = f \/ Before(g, dev, fn) BY AddingIs
  <2>2. CASE g = f BY <1>5, <2>2
  <2>3. CASE Before(g, dev, fn)
    <3>1. Lists(y, g) BY <1>6, <2>3 DEF ListsBefore
    <3> QED BY <1>0, <1>1, <3>1, GrowsLists
  <2> QED BY <2>1, <2>2, <2>3
<1>8. Explored(t, x, z, Len(y.devices))
  <2> SUFFICES ASSUME NEW i \in Listed(z), i > Len(x.devices), i <= Len(y.devices),
                      z.devices[i].class = "bridge"
               PROVE  ListsBus(t, z, z.devices[i].secondary)
    BY DEF Explored
  <2>1. i \in Listed(y) /\ z.devices[i] = y.devices[i] BY <1>0 DEF Listed, Appended
  <2>2. PICK c : c = y.devices[i].secondary OBVIOUS
  <2>3. ListsBus(t, y, c) BY <1>6, <2>1, <2>2 DEF Explored
  <2>4. ListsBus(t, z, c) BY <1>0, <1>1, <2>3, GrowsLists
  <2> QED BY <2>1, <2>2, <2>4
<1> QED BY <1>1, <1>2, <1>4, <1>5, <1>7, <1>8

LEMMA AppendedOnce ==
  ASSUME NEW t, NEW x, NEW bus, NEW y, NEW dev, NEW fn, NEW next, NEW f,
         Adding(t, x, bus, y, dev, fn, next, f), NEW z \in Tables(t), Appended(y, z, f), OneParent(t)
  PROVE  MidOnce(t, x, bus, z, dev, next)
<1>0. /\ x \in Tables(t) /\ y \in Tables(t) /\ f \in Reachable(t) /\ Grows(x, y) /\ Grows(x, z)
      /\ Len(x.devices) \in Nat /\ Len(y.devices) \in Nat /\ Len(x.devices) <= Len(y.devices)
      /\ Len(z.devices) = Len(y.devices) + 1 /\ z.full = FALSE
  <2>1. x \in Tables(t) /\ y \in Tables(t) /\ f \in Reachable(t) /\ Grows(x, y) BY AddingIs
  <2>2. Grows(x, z) BY AppendedAny
  <2> QED BY <2>1, <2>2, TableIs DEF Appended, Grows
<1>1. Once(t, y) /\ Origin(x, bus, y) /\ OnlyBefore(y, bus, dev, fn)
  BY DEF Adding, Mid, MidOnce
<1>2. PICK l \in Nat, m \in Nat, n \in Nat :
        l = Len(x.devices) /\ m = Len(y.devices) /\ n = Len(z.devices) /\ l <= m /\ n = m + 1
  BY <1>0
<1>3. /\ Listed(x) = 1..l /\ Listed(y) = 1..m /\ Listed(z) = 1..n
      /\ z.devices[n] = f /\ \A i \in 1..m : z.devices[i] = y.devices[i] /\ y.devices[i] \in t
  BY <1>0, <1>2, TableIs DEF Listed, Appended
<1>4. \A i \in 1..m : y.devices[i] # f
  <2> SUFFICES ASSUME NEW i \in 1..m, y.devices[i] = f PROVE FALSE OBVIOUS
  <2>1. y.devices[i].bus = bus BY DEF Adding
  <2>2. Before(f, dev, fn) BY <1>1, <1>3, <2>1 DEF OnlyBefore
  <2> QED BY <2>2, AddingIs
<1>5. \A i, j \in Listed(z) : z.devices[i] = z.devices[j] => i = j
  <2>1. \A i, j \in 1..m : y.devices[i] = y.devices[j] => i = j BY <1>1, <1>3 DEF Once
  <2>2. \A i \in 1..n : i \in 1..m \/ i = n BY <1>2
  <2> QED BY <1>3, <1>4, <2>1, <2>2
<1>6. \A i \in Listed(z) : HasParent(t, z, z.devices[i].bus, i)
  <2> SUFFICES ASSUME NEW i \in 1..n PROVE HasParent(t, z, z.devices[i].bus, i)
    BY <1>3
  <2>1. CASE i \in 1..m
    <3>1. HasParent(t, y, y.devices[i].bus, i) BY <1>1, <1>3, <2>1 DEF Once
    <3>2. \A j \in 1..m : j \in 1..n BY <1>2
    <3> QED BY <1>3, <2>1, <3>1, <3>2 DEF HasParent, IsParent
  <2>2. CASE i = n
    <3>1. z.devices[i].bus = bus BY <1>3, <2>2 DEF Adding
    <3>2. HasParent(t, x, bus, l + 1) BY <1>2 DEF Adding, Pre, PreOnce
    <3>3. ASSUME NEW j \in 1..l, IsParent(x, j, bus) PROVE j \in 1..n /\ j < n /\ IsParent(z, j, bus)
      <4>1. z.devices[j] = x.devices[j] BY <1>0, <1>3 DEF Grows
      <4> QED BY <1>2, <3>3, <4>1 DEF IsParent
    <3> QED BY <1>3, <2>2, <3>1, <3>2, <3>3 DEF HasParent
  <2>3. i \in 1..m \/ i = n BY <1>2
  <2> QED BY <2>1, <2>2, <2>3
<1>7. Once(t, z) BY <1>0, <1>5, <1>6 DEF Once
<1>8. Origin(x, bus, z)
  <2> SUFFICES ASSUME NEW i \in 1..n, i > l
               PROVE  \/ z.devices[i].bus = bus
                      \/ \E j \in 1..n : l < j /\ j < i /\ IsParent(z, j, z.devices[i].bus)
    BY <1>2, <1>3 DEF Origin
  <2>1. CASE i \in 1..m
    <3>1. \/ y.devices[i].bus = bus
          \/ \E j \in 1..m : l < j /\ j < i /\ IsParent(y, j, y.devices[i].bus)
      BY <1>1, <1>2, <1>3, <2>1 DEF Origin
    <3>2. \A j \in 1..m : j \in 1..n BY <1>2
    <3> QED BY <1>3, <2>1, <3>1, <3>2 DEF IsParent
  <2>2. CASE i = n BY <1>3, <2>2 DEF Adding
  <2>3. i \in 1..m \/ i = n BY <1>2
  <2> QED BY <2>1, <2>2, <2>3
<1>9. OnlyBefore(z, bus, dev, next)
  <2> SUFFICES ASSUME NEW i \in 1..n, z.devices[i].bus = bus PROVE Before(z.devices[i], dev, next)
    BY <1>3 DEF OnlyBefore
  <2>1. CASE i \in 1..m
    <3>1. Before(y.devices[i], dev, fn) BY <1>1, <1>3, <2>1 DEF OnlyBefore
    <3> QED BY <1>3, <2>1, <3>1, AddingIs
  <2>2. CASE i = n BY <1>3, <2>2, AddingIs
  <2>3. i \in 1..m \/ i = n BY <1>2
  <2> QED BY <2>1, <2>2, <2>3
<1> QED BY <1>7, <1>8, <1>9 DEF MidOnce

\* A function that is no bridge.
LEMMA PlainAdded ==
  ASSUME NEW t, NEW x, NEW bus, NEW y, NEW dev, NEW fn, NEW next, NEW f,
         Adding(t, x, bus, y, dev, fn, next, f), NEW z \in Tables(t), Appended(y, z, f),
         f.class # "bridge"
  PROVE  Mid(t, x, bus, z, dev, next)
<1>1. /\ TableOK(t, z) /\ Grows(x, z) /\ ListsBefore(t, z, bus, dev, next)
      /\ Explored(t, x, z, Len(y.devices))
  BY AppendedAny
<1>2. Explored(t, x, z, Len(z.devices))
  <2> SUFFICES ASSUME NEW i \in Listed(z), i > Len(x.devices), i <= Len(z.devices),
                      z.devices[i].class = "bridge"
               PROVE  ListsBus(t, z, z.devices[i].secondary)
    BY DEF Explored
  <2>1. i # Len(z.devices) BY DEF Appended
  <2>2. Len(y.devices) \in Nat /\ Len(z.devices) = Len(y.devices) + 1 BY AddingIs, TableIs DEF Appended
  <2>3. i <= Len(y.devices) BY <2>1, <2>2 DEF Listed
  <2> QED BY <1>1, <2>3 DEF Explored
<1>3. OneParent(t) => MidOnce(t, x, bus, z, dev, next) BY AppendedOnce
<1> QED BY <1>1, <1>2, <1>3, Zenon DEF Mid

\* The table is full: what could not be added is lacking.
LEMMA NotAdded ==
  ASSUME NEW t, NEW x, NEW bus, NEW y, NEW dev, NEW fn, NEW next, NEW f,
         Adding(t, x, bus, y, dev, fn, next, f), NEW z \in Tables(t),
         Len(y.devices) = MaxDevices, z.full = TRUE, z.devices = y.devices
  PROVE  Mid(t, x, bus, z, dev, next)
<1>0. f \in Reachable(t) /\ TableOK(t, y) /\ Grows(x, y)
  <2>1. f \in Reachable(t) BY AddingIs
  <2>2. Mid(t, x, bus, y, dev, fn) BY Zenon DEF Adding
  <2> QED BY <2>1, <2>2, Zenon DEF Mid
<1>1. TableOK(t, z) BY <1>0 DEF TableOK, Listed
<1>2. Grows(x, z) BY <1>0 DEF Grows
<1>3. ASSUME OneParent(t) PROVE MidOnce(t, x, bus, z, dev, next)
  <2>1. Once(t, y) /\ Origin(x, bus, y) /\ OnlyBefore(y, bus, dev, fn)
    BY <1>3, Zenon DEF Adding, Mid, MidOnce
  <2>2. Origin(x, bus, z) BY <2>1 DEF Origin, Listed, IsParent
  <2>3. \A i \in Listed(y) : y.devices[i] # f
    <3> SUFFICES ASSUME NEW i \in Listed(y), y.devices[i] = f PROVE FALSE OBVIOUS
    <3>1. y.devices[i].bus = bus BY DEF Adding
    <3>2. Before(f, dev, fn) BY <2>1, <3>1 DEF OnlyBefore
    <3> QED BY <3>2, AddingIs
  <2>4. Lacks(t, z) BY <1>0, <2>3 DEF Lacks, Lists, Listed
  <2>5. Once(t, z) BY <2>1, <2>4 DEF Once, Listed, HasParent, IsParent
  <2>6. OnlyBefore(z, bus, dev, next)
    <3> SUFFICES ASSUME NEW i \in Listed(y), y.devices[i].bus = bus PROVE Before(y.devices[i], dev, next)
      BY DEF OnlyBefore, Listed
    <3>1. Before(y.devices[i], dev, fn) BY <2>1 DEF OnlyBefore
    <3>2. y.devices[i] \in t BY AddingIs, TableIs
    <3> QED BY <3>1, <3>2, AddingIs
  <2> QED BY <2>2, <2>5, <2>6 DEF MidOnce
<1> QED BY <1>1, <1>2, <1>3, Zenon DEF Mid

\* The bus behind a bridge just added can be scanned.
LEMMA BridgePre ==
  ASSUME NEW t, NEW x, NEW bus, NEW y, NEW dev, NEW fn, NEW next, NEW f,
         Adding(t, x, bus, y, dev, fn, next, f), NEW z \in Tables(t), Appended(y, z, f),
         f.class = "bridge", NEW c, c = f.secondary
  PROVE  Pre(t, z, c)
<1>0. IsTopology(t) /\ f \in Reachable(t) /\ z.full = FALSE
  <2>1. f \in Reachable(t) BY AddingIs
  <2> QED BY <2>1, Zenon DEF Adding, Appended
<1>1. TableOK(t, z) BY AppendedAny
<1>2. c \in ReachableBuses(t) BY <1>0, BridgesReach
<1>3. ASSUME OneParent(t) PROVE PreOnce(t, z, c)
  <2>1. Once(t, z) BY <1>3, AppendedOnce DEF MidOnce
  <2>2. Len(z.devices) \in Nat /\ Len(y.devices) \in Nat /\ Len(z.devices) = Len(y.devices) + 1
    BY AddingIs, TableIs DEF Appended
  <2>3. PICK n \in Nat : n = Len(z.devices) /\ n \in Listed(z) /\ z.devices[n] = f
    BY <2>2 DEF Listed, Appended
  <2>4. ASSUME NEW i \in Listed(z), z.devices[i].bus = c PROVE FALSE
    <3>1. HasParent(t, z, c, i) BY <2>1, <2>4 DEF Once
    <3>2. c \notin HostFunctions(t) BY <1>0, <1>3, ParentsAre
    <3>3. PICK j \in Listed(z) : j < i /\ IsParent(z, j, c) BY <3>1, <3>2 DEF HasParent
    <3>4. z.devices[j] \in Reachable(t) BY <1>1 DEF TableOK
    <3>5. z.devices[j] = f BY <1>0, <1>3, <3>3, <3>4, ParentsAre DEF IsParent
    <3>6. j = n BY <2>1, <2>3, <3>5 DEF Once
    <3> QED BY <2>3, <3>3, <3>6 DEF Listed
  <2>5. FreshBus(z, c) BY <2>4 DEF FreshBus
  <2>6. HasParent(t, z, c, Len(z.devices) + 1)
    <3>1. n < n + 1 /\ IsParent(z, n, c) BY <2>3 DEF IsParent
    <3> QED BY <2>3, <3>1 DEF HasParent
  <2> QED BY <2>1, <2>5, <2>6 DEF PreOnce
<1> QED BY <1>0, <1>1, <1>2, <1>3, Zenon DEF Pre

\* What scanning it adds is on no bus that was scanned before.
LEMMA BridgeOnce ==
  ASSUME NEW t, NEW x, NEW bus, NEW y, NEW dev, NEW fn, NEW next, NEW f,
         Adding(t, x, bus, y, dev, fn, next, f), NEW z \in Tables(t), Appended(y, z, f),
         f.class = "bridge", NEW c, c = f.secondary,
         NEW w \in Tables(t), Post(t, z, c, w), OneParent(t)
  PROVE  MidOnce(t, x, bus, w, dev, next)
<1>0. /\ IsTopology(t) /\ f \in Reachable(t) /\ x \in Tables(t) /\ y \in Tables(t)
      /\ Grows(x, z) /\ Grows(z, w) /\ TableOK(t, w)
  <2>1. f \in Reachable(t) /\ x \in Tables(t) /\ y \in Tables(t) BY AddingIs
  <2>2. Grows(x, z) BY AppendedAny
  <2> QED BY <2>1, <2>2, Zenon DEF Adding, Post
<1>1. Once(t, w) /\ Origin(z, c, w) BY Zenon DEF Post, PostOnce
<1>2. Origin(x, bus, z) /\ OnlyBefore(z, bus, dev, next) BY AppendedOnce DEF MidOnce
<1>3. FreshBus(z, c) /\ HasParent(t, x, bus, Len(x.devices) + 1)
  <2>1. Pre(t, z, c) BY BridgePre
  <2>2. Pre(t, x, bus) BY Zenon DEF Adding
  <2> QED BY <2>1, <2>2, Zenon DEF Pre, PreOnce
<1>4. PICK l \in Nat, m \in Nat, n \in Nat :
        l = Len(x.devices) /\ m = Len(z.devices) /\ n = Len(w.devices) /\ l < m /\ m <= n
  <2>1. Len(x.devices) \in Nat /\ Len(y.devices) \in Nat /\ Len(z.devices) \in Nat /\ Len(w.devices) \in Nat
    BY <1>0, TableIs
  <2>2. Len(x.devices) <= Len(y.devices) BY AddingIs DEF Grows
  <2>3. Len(z.devices) = Len(y.devices) + 1 /\ Len(z.devices) <= Len(w.devices)
    BY <1>0 DEF Grows, Appended
  <2> QED BY <2>1, <2>2, <2>3
<1>5. /\ Listed(x) = 1..l /\ Listed(z) = 1..m /\ Listed(w) = 1..n
      /\ \A i \in 1..m : w.devices[i] = z.devices[i]
      /\ \A i \in 1..l : w.devices[i] = x.devices[i]
  <2>1. Listed(x) = 1..l /\ Listed(z) = 1..m /\ Listed(w) = 1..n BY <1>4 DEF Listed
  <2>2. \A i \in 1..l : i \in 1..m BY <1>4
  <2> QED BY <1>0, <2>1, <2>2 DEF Grows
<1>6. m \in 1..m /\ m \in 1..n /\ w.devices[m] = f /\ IsParent(w, m, c)
  <2>1. m \in 1..m /\ m \in 1..n BY <1>4
  <2>2. w.devices[m] = f BY <1>4, <1>5, <2>1 DEF Appended
  <2> QED BY <2>1, <2>2 DEF IsParent
<1>7. c # bus
  <2>1. z.devices[m].bus = bus BY <1>5, <1>6 DEF Adding
  <2> QED BY <1>3, <1>5, <1>6, <2>1 DEF FreshBus
<1>8. Origin(x, bus, w)
  <2> SUFFICES ASSUME NEW i \in 1..n, i > l
               PROVE  \/ w.devices[i].bus = bus
                      \/ \E j \in 1..n : l < j /\ j < i /\ IsParent(w, j, w.devices[i].bus)
    BY <1>4, <1>5 DEF Origin
  <2>1. CASE i \in 1..m
    <3>1. \/ z.devices[i].bus = bus
          \/ \E j \in 1..m : l < j /\ j < i /\ IsParent(z, j, z.devices[i].bus)
      BY <1>2, <1>4, <1>5, <2>1 DEF Origin
    <3>2. \A j \in 1..m : j \in 1..n BY <1>4
    <3> QED BY <1>5, <2>1, <3>1, <3>2 DEF IsParent
  <2>2. CASE i > m
    <3>1. \/ w.devices[i].bus = c
          \/ \E j \in 1..n : m < j /\ j < i /\ IsParent(w, j, w.devices[i].bus)
      BY <1>1, <1>4, <1>5, <2>2 DEF Origin
    <3>2. CASE w.devices[i].bus = c BY <1>4, <1>6, <2>2, <3>2
    <3>3. CASE \E j \in 1..n : m < j /\ j < i /\ IsParent(w, j, w.devices[i].bus)
      <4>1. PICK j \in 1..n : m < j /\ j < i /\ IsParent(w, j, w.devices[i].bus) BY <3>3
      <4>2. l < j BY <1>4, <4>1
      <4> QED BY <4>1, <4>2
    <3> QED BY <3>1, <3>2, <3>3
  <2>3. i \in 1..m \/ i > m BY <1>4
  <2> QED BY <2>1, <2>2, <2>3
<1>9. OnlyBefore(w, bus, dev, next)
  <2> SUFFICES ASSUME NEW i \in 1..n, w.devices[i].bus = bus PROVE Before(w.devices[i], dev, next)
    BY <1>5 DEF OnlyBefore
  <2>1. CASE i \in 1..m BY <1>2, <1>5, <2>1 DEF OnlyBefore
  <2>2. CASE i > m
    <3>1. PICK j \in 1..n : m < j /\ j < i /\ IsParent(w, j, bus)
      BY <1>1, <1>4, <1>5, <1>7, <2>2 DEF Origin
    <3>2. \A k \in 1..n : w.devices[k] \in Reachable(t) BY <1>0, <1>5 DEF TableOK
    <3>3. bus \notin HostFunctions(t) BY <3>1, <3>2, ParentsAre DEF IsParent
    <3>4. PICK k \in 1..l : IsParent(x, k, bus) BY <1>3, <1>5, <3>3 DEF HasParent
    <3>5. k \in 1..n /\ k < j BY <1>4, <3>1
    <3>6. IsParent(w, k, bus) BY <1>5, <3>4 DEF IsParent
    <3>7. w.devices[k] = w.devices[j] BY <3>1, <3>2, <3>5, <3>6, ParentsAre DEF IsParent
    <3>8. k = j BY <1>1, <1>5, <3>1, <3>5, <3>7 DEF Once
    <3> QED BY <3>1, <3>5, <3>8
  <2>3. i \in 1..m \/ i > m BY <1>4
  <2> QED BY <2>1, <2>2, <2>3
<1> QED BY <1>1, <1>8, <1>9 DEF MidOnce

LEMMA BridgeAdded ==
  ASSUME NEW t, NEW x, NEW bus, NEW y, NEW dev, NEW fn, NEW next, NEW f,
         Adding(t, x, bus, y, dev, fn, next, f), NEW z \in Tables(t), Appended(y, z, f),
         f.class = "bridge", NEW c, c = f.secondary, NEW w \in Tables(t), Post(t, z, c, w)
  PROVE  Mid(t, x, bus, w, dev, next)
<1>0. /\ x \in Tables(t) /\ y \in Tables(t) /\ Grows(x, z) /\ Grows(z, w) /\ TableOK(t, w)
      /\ ListsBefore(t, z, bus, dev, next) /\ Explored(t, x, z, Len(y.devices))
  BY AddingIs, AppendedAny, Zenon DEF Post
<1>1. Grows(x, w) BY <1>0, GrowsOn
<1>2. ListsBefore(t, w, bus, dev, next) BY <1>0, GrowsLists
<1>3. ASSUME w.full = FALSE PROVE Explored(t, x, w, Len(w.devices))
  <2>1. Explored(t, z, w, Len(w.devices)) /\ ListsBus(t, w, c) BY <1>3, Zenon DEF Post
  <2> SUFFICES ASSUME NEW i \in Listed(w), i > Len(x.devices), i <= Len(w.devices),
                      w.devices[i].class = "bridge"
               PROVE  ListsBus(t, w, w.devices[i].secondary)
    BY DEF Explored
  <2>2. Len(y.devices) \in Nat /\ Len(z.devices) = Len(y.devices) + 1 BY <1>0, TableIs DEF Appended
  <2>3. CASE i > Len(z.devices) BY <2>1, <2>3 DEF Explored
  <2>4. CASE i = Len(z.devices)
    <3>1. i \in Listed(z) BY <2>2, <2>4 DEF Listed
    <3>2. w.devices[i] = f BY <1>0, <2>4, <3>1 DEF Grows, Appended
    <3> QED BY <2>1, <3>2
  <2>5. CASE i <= Len(y.devices)
    <3>1. i \in Listed(z) BY <2>2, <2>5 DEF Listed
    <3>2. w.devices[i] = z.devices[i] BY <1>0, <3>1 DEF Grows
    <3>3. PICK d : d = z.devices[i].secondary OBVIOUS
    <3>4. ListsBus(t, z, d) BY <1>0, <2>5, <3>1, <3>2, <3>3 DEF Explored
    <3>5. ListsBus(t, w, d) BY <1>0, <3>4, GrowsLists
    <3> QED BY <3>2, <3>3, <3>5
  <2>6. i > Len(z.devices) \/ i = Len(z.devices) \/ i <= Len(y.devices) BY <2>2 DEF Listed
  <2> QED BY <2>3, <2>4, <2>5, <2>6
<1>4. OneParent(t) => MidOnce(t, x, bus, w, dev, next) BY BridgeOnce
<1> QED BY <1>0, <1>1, <1>2, <1>3, <1>4, Zenon DEF Mid

\* From one place to a later one, if the table has failed or no function that
\* answers is between them.
MayMove(t, y, bus, dev, fn, dev2, fn2) ==
  /\ \A f \in t : Before(f, dev, fn) => Before(f, dev2, fn2)
  /\ y.full = FALSE => \A f \in t : (f.bus = bus /\ Visible(t, f) /\ Before(f, dev2, fn2)) => Before(f, dev, fn)

LEMMA MidMoves ==
  ASSUME NEW t, NEW x, NEW bus, NEW y, NEW dev, NEW fn, NEW dev2, NEW fn2,
         Mid(t, x, bus, y, dev, fn), MayMove(t, y, bus, dev, fn, dev2, fn2)
  PROVE  Mid(t, x, bus, y, dev2, fn2)
<1>1. TableOK(t, y) /\ Grows(x, y) /\ y \in Tables(t) BY Zenon DEF Mid, TableOK
<1>2. ASSUME y.full = FALSE
      PROVE  Explored(t, x, y, Len(y.devices)) /\ ListsBefore(t, y, bus, dev2, fn2)
  <2>1. Explored(t, x, y, Len(y.devices)) /\ ListsBefore(t, y, bus, dev, fn) BY <1>2, Zenon DEF Mid
  <2> QED BY <1>2, <2>1, Zenon DEF ListsBefore, MayMove
<1>3. ASSUME OneParent(t) PROVE MidOnce(t, x, bus, y, dev2, fn2)
  <2>1. MidOnce(t, x, bus, y, dev, fn) BY <1>3, Zenon DEF Mid
  <2>2. \A i \in Listed(y) : y.devices[i] \in t BY <1>1, TableIs
  <2> QED BY <2>1, <2>2, Zenon DEF MidOnce, OnlyBefore, MayMove
<1> QED BY <1>1, <1>2, <1>3, Zenon DEF Mid

LEMMA PlacesAre ==
  ASSUME NEW t, IsTopology(t), NEW f \in t
  PROVE  f.bus \in Nat /\ f.dev \in Nat /\ f.fn \in Nat /\ f.fn <= MaxFn /\ f.dev <= MaxDev
<1>1. f.bus \in 0..MaxBus /\ f.dev \in 0..MaxDev /\ f.fn \in 0..MaxFn BY DEF IsTopology
<1> QED BY <1>1, PciNumbers

LEMMA FunctionStepKeeps ==
  ASSUME NEW t, IsTopology(t), NEW g, NEW n \in Nat, ScansFrom(t, g, n), Kept(t, g, n),
         NEW x, NEW bus, Pre(t, x, bus), NEW y \in LongTables(t, n),
         NEW dev \in Nat, NEW fn \in Nat, NEW next, next = fn + 1, Mid(t, x, bus, y, dev, fn),
         Present(t, bus, dev, 0), fn = 0 \/ FunctionAt(t, bus, dev, 0).multi
  PROVE  Mid(t, x, bus, FunctionStep(t, g, bus, dev, y, fn), dev, next)
<1>0. y \in Tables(t) /\ Len(y.devices) \in Nat /\ Len(y.devices) >= n /\ y.full \in BOOLEAN
  BY TableIs DEF LongTables
<1>1. CASE y.full \/ ~Present(t, bus, dev, fn)
  <2>1. FunctionStep(t, g, bus, dev, y, fn) = y BY <1>1 DEF FunctionStep
  <2>2. \A f \in t : Before(f, dev, fn) => Before(f, dev, next) BY PlacesAre DEF Before
  <2>3. ASSUME y.full = FALSE, NEW f \in t, f.bus = bus, Before(f, dev, next)
        PROVE  Before(f, dev, fn)
    <3>1. ~(f.dev = dev /\ f.fn = fn) BY <1>1, <2>3 DEF Present
    <3> QED BY <2>3, <3>1, PlacesAre DEF Before
  <2>4. MayMove(t, y, bus, dev, fn, dev, next) BY <2>2, <2>3, Zenon DEF MayMove
  <2>5. Mid(t, x, bus, y, dev, next) BY <2>4, MidMoves
  <2> QED BY <2>1, <2>5
<1>2. CASE ~(y.full \/ ~Present(t, bus, dev, fn))
  <2>1. PICK f \in t : f = FunctionAt(t, bus, dev, fn) /\ f.bus = bus /\ f.dev = dev /\ f.fn = fn
    BY <1>2, FunctionAtIs
  <2>2. Visible(t, f) BY <2>1 DEF Visible
  <2>3. y.full = FALSE BY <1>0, <1>2
  <2>4. Adding(t, x, bus, y, dev, fn, next, f) BY <2>1, <2>2, <2>3 DEF Adding
  <2>5. PICK z : z = AddDevice(y, f) OBVIOUS
  <2>6. PICK w : w = ScanFunction(g, y, f) OBVIOUS
  <2>7. FunctionStep(t, g, bus, dev, y, fn) = w BY <1>2, <2>1, <2>6 DEF FunctionStep
  <2>8. z \in Tables(t) BY <1>0, <2>3, <2>5, AddDeviceIs
  <2>9. CASE Len(y.devices) = MaxDevices
    <3>1. ~(Len(y.devices) < MaxDevices) BY <1>0, <2>9
    <3>2. z.full = TRUE /\ z.devices = y.devices BY <1>0, <2>3, <2>5, <3>1, AddDeviceIs
    <3>3. w = z BY <2>5, <2>6, <3>2 DEF ScanFunction
    <3>4. Mid(t, x, bus, z, dev, next) BY <2>4, <2>8, <2>9, <3>2, NotAdded
    <3> QED BY <2>7, <3>3, <3>4
  <2>10. CASE Len(y.devices) # MaxDevices
    <3>1. Appended(y, z, f) BY <1>0, <2>3, <2>5, <2>10, AppendedIs
    <3>2. z.full = FALSE /\ Len(z.devices) > n BY <1>0, <3>1 DEF Appended
    <3>3. CASE f.class = "bridge"
      <4>1. PICK c : c = f.secondary OBVIOUS
      <4>2. Pre(t, z, c) BY <2>4, <2>8, <3>1, <3>3, <4>1, BridgePre
      <4>3. c \in Buses BY <4>2, ReachableFacts DEF Pre
      <4>4. w = g[z][c] BY <2>5, <2>6, <3>2, <3>3, <4>1 DEF ScanFunction
      <4>5. w \in Tables(t) BY <2>8, <3>2, <4>3, <4>4 DEF ScansFrom
      <4>6. Post(t, z, c, w) BY <2>8, <3>2, <4>2, <4>3, <4>4 DEF Kept
      <4>7. Mid(t, x, bus, w, dev, next)
        BY <2>4, <2>8, <3>1, <3>3, <4>1, <4>5, <4>6, BridgeAdded
      <4> QED BY <2>7, <4>7
    <3>4. CASE f.class # "bridge"
      <4>1. w = z BY <2>5, <2>6, <3>4 DEF ScanFunction
      <4>2. Mid(t, x, bus, z, dev, next) BY <2>4, <2>8, <3>1, <3>4, PlainAdded
      <4> QED BY <2>7, <4>1, <4>2
    <3> QED BY <3>3, <3>4
  <2> QED BY <2>9, <2>10
<1> QED BY <1>1, <1>2

LEMMA DeviceStepKeeps ==
  ASSUME NEW t, IsTopology(t), NEW g, NEW n \in Nat, ScansFrom(t, g, n), Kept(t, g, n),
         NEW x, NEW bus, Pre(t, x, bus), NEW y \in LongTables(t, n),
         NEW dev \in Nat, NEW next, next = dev + 1, Mid(t, x, bus, y, dev, 0)
  PROVE  Mid(t, x, bus, DeviceStep(t, g, bus, y, dev), next, 0)
<1>0. y \in Tables(t) /\ y.full \in BOOLEAN BY TableIs DEF LongTables
<1>1. ASSUME NEW fn \in Nat, NEW f \in t, Before(f, dev, fn) PROVE Before(f, next, 0)
  BY <1>1, PlacesAre DEF Before
<1>2. CASE y.full \/ ~Present(t, bus, dev, 0)
  <2>1. DeviceStep(t, g, bus, y, dev) = y BY <1>2 DEF DeviceStep
  <2>2. ASSUME y.full = FALSE, NEW f \in t, f.bus = bus, Visible(t, f), Before(f, next, 0)
        PROVE  Before(f, dev, 0)
    <3>1. f.dev # dev BY <1>2, <2>2 DEF Visible
    <3> QED BY <2>2, <3>1, PlacesAre DEF Before
  <2>3. MayMove(t, y, bus, dev, 0, next, 0) BY <1>1, <2>2 DEF MayMove
  <2>4. Mid(t, x, bus, y, next, 0) BY <2>3, MidMoves
  <2> QED BY <2>1, <2>4
<1>3. CASE ~(y.full \/ ~Present(t, bus, dev, 0))
  <2>1. PICK first \in t : first = FunctionAt(t, bus, dev, 0) BY <1>3, FunctionAtIs
  <2>2. PICK z : z = ScanFunction(g, y, first) OBVIOUS
  <2>3. FunctionStep(t, g, bus, dev, y, 0) = z BY <1>3, <2>1, <2>2 DEF FunctionStep
  <2>4. z \in LongTables(t, n) BY <2>3, FunctionStepIs
  <2>5. Mid(t, x, bus, z, dev, 1)
    <3>1. PICK k \in Nat : k = 0 + 1 /\ k = 1 OBVIOUS
    <3>2. PICK zero \in Nat : zero = 0 OBVIOUS
    <3>3. Mid(t, x, bus, FunctionStep(t, g, bus, dev, y, zero), dev, k)
      BY <1>3, <3>1, <3>2, FunctionStepKeeps
    <3> QED BY <2>3, <3>1, <3>2, <3>3
  <2>6. ASSUME NEW f \in t, f.bus = bus, f.dev = dev, Visible(t, f) PROVE f.fn = 0 \/ first.multi
    BY <2>1, <2>6 DEF Visible
  <2>7. CASE first.multi
    <3>1. PICK r : /\ FunctionRun(r, t, g, bus, dev, z, n)
                   /\ r[MaxFn] = FunctionLoop(t, g, bus, dev, z, [fn \in 1..MaxFn |-> fn])
      BY <2>4, FunctionRuns
    <3> DEFINE S == {i \in 0..MaxFn : \A k \in Nat : k = i + 1 => Mid(t, x, bus, r[i], dev, k)}
    <3>2. 0 \in S BY <2>5, <3>1, PciNumbers DEF FunctionRun
    <3>3. ASSUME NEW i \in 1..MaxFn, (i - 1) \in S PROVE i \in S
      <4>0. i \in Nat /\ i - 1 \in 0..MaxFn /\ i \in 0..MaxFn BY PciNumbers
      <4>1. PICK a \in LongTables(t, n) : a = r[i - 1] BY <3>1, <4>0 DEF FunctionRun
      <4>2. Mid(t, x, bus, a, dev, i) BY <3>3, <4>0, <4>1
      <4>3. r[i] = FunctionStep(t, g, bus, dev, a, i) BY <3>1, <4>1 DEF FunctionRun
      <4>4. ASSUME NEW k \in Nat, k = i + 1 PROVE Mid(t, x, bus, r[i], dev, k)
        <5>1. Mid(t, x, bus, FunctionStep(t, g, bus, dev, a, i), dev, k)
          BY <1>3, <2>1, <2>7, <4>0, <4>2, <4>4, FunctionStepKeeps
        <5> QED BY <4>3, <5>1
      <4> QED BY <4>0, <4>4
    <3>4. \A i \in 0..MaxFn : i \in S
      <4> HIDE DEF S
      <4> QED BY <3>2, <3>3, PciNumbers, CountUp
    <3>5. PICK k \in Nat : k = MaxFn + 1 BY PciNumbers
    <3>6. Mid(t, x, bus, r[MaxFn], dev, k) BY <3>4, <3>5, PciNumbers
    <3>7. MayMove(t, r[MaxFn], bus, dev, k, next, 0)
      <4>1. ASSUME NEW f \in t, Before(f, next, 0) PROVE Before(f, dev, k)
        BY <3>5, <4>1, PlacesAre, PciNumbers DEF Before
      <4> QED BY <1>1, <4>1 DEF MayMove
    <3>8. Mid(t, x, bus, r[MaxFn], next, 0) BY <3>6, <3>7, MidMoves
    <3>9. ScanDevice(t, g, y, bus, dev) = r[MaxFn] BY <2>1, <2>2, <2>7, <3>1, LoopsAre
    <3> QED BY <1>3, <3>8, <3>9 DEF DeviceStep
  <2>8. CASE ~first.multi
    <3>1. ScanDevice(t, g, y, bus, dev) = z BY <2>1, <2>2, <2>8, LoopsAre
    <3>2. ASSUME NEW f \in t, f.bus = bus, Visible(t, f), Before(f, next, 0) PROVE Before(f, dev, 1)
      BY <2>6, <2>8, <3>2, PlacesAre DEF Before
    <3>3. MayMove(t, z, bus, dev, 1, next, 0) BY <1>1, <3>2 DEF MayMove
    <3>4. Mid(t, x, bus, z, next, 0) BY <2>5, <3>3, MidMoves
    <3> QED BY <1>3, <3>1, <3>4 DEF DeviceStep
  <2> QED BY <2>7, <2>8
<1> QED BY <1>2, <1>3

LEMMA MidStarts ==
  ASSUME NEW t, IsTopology(t), NEW x, NEW bus, Pre(t, x, bus)
  PROVE  Mid(t, x, bus, x, 0, 0)
<1>1. TableOK(t, x) /\ x \in Tables(t) BY Zenon DEF Pre, TableOK
<1>2. Grows(x, x) BY <1>1, TableIs DEF Grows
<1>3. Explored(t, x, x, Len(x.devices)) BY <1>1, TableIs DEF Explored, Listed
<1>4. ListsBefore(t, x, bus, 0, 0) BY PlacesAre DEF ListsBefore, Before
<1>5. ASSUME OneParent(t) PROVE MidOnce(t, x, bus, x, 0, 0)
  <2>1. Once(t, x) /\ FreshBus(x, bus) BY <1>5, Zenon DEF Pre, PreOnce
  <2>2. Origin(x, bus, x) BY <1>1, TableIs DEF Origin, Listed
  <2>3. OnlyBefore(x, bus, 0, 0) BY <2>1, Zenon DEF FreshBus, OnlyBefore
  <2> QED BY <2>1, <2>2, <2>3 DEF MidOnce
<1> QED BY <1>1, <1>2, <1>3, <1>4, <1>5, Zenon DEF Mid

LEMMA BusKeeps ==
  ASSUME NEW t, IsTopology(t), NEW g, NEW n \in Nat, ScansFrom(t, g, n), Kept(t, g, n),
         NEW x \in LongTables(t, n), NEW bus, Pre(t, x, bus)
  PROVE  Post(t, x, bus, ScanDevices(t, g, x, bus))
<1>0. PICK m \in Nat : m = MaxDev + 1 /\ m \in 0..(MaxDev + 1) BY PciNumbers
<1>1. PICK r : DeviceRun(r, t, g, bus, x, n) /\ r[m] = ScanDevices(t, g, x, bus)
  BY <1>0, DeviceRuns
<1> DEFINE S == {i \in 0..m : Mid(t, x, bus, r[i], i, 0)}
<1>2. 0 \in S BY <1>1, MidStarts DEF DeviceRun
<1>3. ASSUME NEW i \in 1..m, (i - 1) \in S PROVE i \in S
  <2>1. PICK d \in 0..MaxDev : d = i - 1 /\ i = d + 1 /\ d \in Nat /\ d \in 0..(MaxDev + 1) BY <1>0, PciNumbers
  <2>2. PICK a \in LongTables(t, n) : a = r[d] BY <1>1, <2>1 DEF DeviceRun
  <2>3. r[i] = DeviceStep(t, g, bus, a, d) BY <1>1, <2>1, <2>2 DEF DeviceRun
  <2>4. Mid(t, x, bus, a, d, 0) BY <1>3, <2>1, <2>2
  <2>5. Mid(t, x, bus, DeviceStep(t, g, bus, a, d), i, 0) BY <2>1, <2>4, DeviceStepKeeps
  <2> QED BY <2>3, <2>5
<1>4. \A i \in 0..m : i \in S
  <2> HIDE DEF S
  <2> QED BY <1>2, <1>3, CountUp
<1>5. PICK y : y = ScanDevices(t, g, x, bus) /\ Mid(t, x, bus, y, m, 0) BY <1>1, <1>4
<1>6. TableOK(t, y) /\ Grows(x, y) BY <1>5, Zenon DEF Mid
<1>7. ASSUME y.full = FALSE PROVE Explored(t, x, y, Len(y.devices)) /\ ListsBus(t, y, bus)
  <2>1. Explored(t, x, y, Len(y.devices)) /\ ListsBefore(t, y, bus, m, 0) BY <1>5, <1>7, Zenon DEF Mid
  <2>2. \A f \in t : Before(f, m, 0) BY <1>0, PlacesAre, PciNumbers DEF Before
  <2> QED BY <2>1, <2>2, Zenon DEF ListsBefore, ListsBus
<1>8. OneParent(t) => PostOnce(t, x, bus, y) BY <1>5, Zenon DEF Mid, MidOnce, PostOnce
<1>9. Post(t, x, bus, y) BY <1>6, <1>7, <1>8, Zenon DEF Post
<1> QED BY <1>5, <1>9

LEMMA IsScanIs ==
  ASSUME NEW t, NEW g, IsScan(t, g), NEW x \in Tables(t), NEW b \in Buses
  PROVE  Same(g[x][b], ScanDevices(t, g, x, b))
<1> DEFINE F == [y \in Tables(t) |-> [bus \in 0..MaxBus |-> ScanDevices(t, g, y, bus)]]
<1>1. g = F BY Zenon DEF IsScan
<1>2. F[x][b] = ScanDevices(t, g, x, b) BY DEF Buses
<1> HIDE DEF F
<1>3. g[x][b] = F[x][b] BY <1>1
<1> QED BY <1>2, <1>3, Zenon DEF Same

LEMMA ScanKeeps ==
  ASSUME NEW t, IsTopology(t), NEW g, IsScan(t, g)
  PROVE  ScansFrom(t, g, 0) /\ Kept(t, g, 0)
<1> DEFINE S == {k \in 0..MaxDevices : \A n \in Nat : n = MaxDevices - k => ScansFrom(t, g, n) /\ Kept(t, g, n)}
<1>1. 0 \in S
  <2>1. \A x \in Tables(t) : ~(Len(x.devices) > MaxDevices) BY TableIs, PciNumbers
  <2>2. ScansFrom(t, g, MaxDevices) /\ Kept(t, g, MaxDevices) BY <2>1 DEF ScansFrom, Kept
  <2>3. \A n \in Nat : n = MaxDevices - 0 => n = MaxDevices BY PciNumbers
  <2> QED BY <2>2, <2>3, PciNumbers
<1>2. ASSUME NEW k \in 1..MaxDevices, (k - 1) \in S PROVE k \in S
  <2> SUFFICES ASSUME NEW n \in Nat, n = MaxDevices - k PROVE ScansFrom(t, g, n) /\ Kept(t, g, n)
    BY PciNumbers
  <2>1. PICK m \in Nat : m = n + 1 /\ m = MaxDevices - (k - 1) BY PciNumbers
  <2>2. ScansFrom(t, g, m) /\ Kept(t, g, m) BY <1>2, <2>1
  <2>3. \A x \in Tables(t) : Len(x.devices) > n => x \in LongTables(t, m)
    BY <2>1, TableIs DEF LongTables
  <2>4. \A x \in Tables(t) : \A b \in Buses : g[x][b] = ScanDevices(t, g, x, b)
    BY IsScanIs, Zenon DEF Same
  <2>5. ASSUME NEW x \in Tables(t), NEW b \in Buses, Len(x.devices) > n
        PROVE  g[x][b] \in Tables(t) /\ Len(g[x][b].devices) >= Len(x.devices)
    <3>1. PICK l \in Nat : l = Len(x.devices) BY TableIs
    <3>2. x \in LongTables(t, l) BY <3>1 DEF LongTables
    <3>3. ScansFrom(t, g, l)
      <4> SUFFICES ASSUME NEW y \in Tables(t), NEW c \in Buses, Len(y.devices) > l
                   PROVE  g[y][c] \in Tables(t) /\ Len(g[y][c].devices) >= Len(y.devices)
        BY DEF ScansFrom
      <4>1. Len(y.devices) \in Nat /\ Len(x.devices) > n BY <2>5, TableIs
      <4>2. Len(y.devices) > m BY <2>1, <3>1, <4>1
      <4> QED BY <2>2, <4>2 DEF ScansFrom
    <3>4. PICK z : z = ScanDevices(t, g, x, b) OBVIOUS
    <3>5. z \in LongTables(t, l) BY <3>2, <3>3, <3>4, ScanDevicesIs
    <3> QED BY <2>4, <3>1, <3>4, <3>5 DEF LongTables
  <2>6. ScansFrom(t, g, n) BY <2>5 DEF ScansFrom
  <2>7. ASSUME NEW x \in Tables(t), NEW b \in Buses, Len(x.devices) > n, Pre(t, x, b)
        PROVE  Post(t, x, b, g[x][b])
    <3>1. x \in LongTables(t, m) BY <2>3, <2>7
    <3>2. Post(t, x, b, ScanDevices(t, g, x, b)) BY <2>2, <2>7, <3>1, BusKeeps
    <3> QED BY <2>4, <3>2
  <2> QED BY <2>6, <2>7 DEF Kept
<1>3. \A k \in 0..MaxDevices : k \in S
  <2> HIDE DEF S
  <2> QED BY <1>1, <1>2, PciNumbers, CountUp
<1>4. MaxDevices \in 0..MaxDevices /\ 0 = MaxDevices - MaxDevices /\ 0 \in Nat BY PciNumbers
<1> QED BY <1>3, <1>4

LEMMA ScanBusKeeps ==
  ASSUME NEW t, IsTopology(t), NEW x \in Tables(t), NEW bus \in Buses
  PROVE  /\ ScanBus(t, x, bus) \in Tables(t)
         /\ Pre(t, x, bus) => Post(t, x, bus, ScanBus(t, x, bus))
<1>1. PICK g : IsScan(t, g) /\ ScanBus(t, x, bus) = g[x][bus] BY ScanIs
<1>2. PICK zero \in Nat : zero = 0 OBVIOUS
<1>3. ScansFrom(t, g, zero) /\ Kept(t, g, zero) BY <1>1, <1>2, ScanKeeps
<1>4. x \in LongTables(t, zero) BY <1>2, TableIs DEF LongTables
<1>5. ScanBus(t, x, bus) = ScanDevices(t, g, x, bus) BY <1>1, IsScanIs, Zenon DEF Same
<1>6. PICK z : z = ScanDevices(t, g, x, bus) OBVIOUS
<1>7. z \in LongTables(t, zero) BY <1>3, <1>4, <1>6, ScanDevicesIs
<1>8. z \in Tables(t) BY <1>7 DEF LongTables
<1>9. Pre(t, x, bus) => Post(t, x, bus, z) BY <1>3, <1>4, <1>6, BusKeeps
<1> QED BY <1>5, <1>6, <1>8, <1>9

\* The functions of the host bridge up to k have been scanned.
RootMid(t, y, k) ==
  /\ TableOK(t, y)
  /\ y.full = FALSE => /\ Explored(t, NoDevices, y, Len(y.devices))
                       /\ \A b \in HostFunctions(t) : b < k => ListsBus(t, y, b)
  /\ OneParent(t) => /\ Once(t, y)
                     /\ \A i \in Listed(y) : y.devices[i].bus \in HostFunctions(t) => y.devices[i].bus < k

LEMMA RootStepIs ==
  ASSUME NEW t, IsTopology(t), NEW y \in Tables(t), NEW bus
  PROVE  RootStep(t, y, bus) \in Tables(t)
<1>1. CASE y.full \/ bus \notin HostFunctions(t) BY <1>1 DEF RootStep
<1>2. CASE ~(y.full \/ bus \notin HostFunctions(t))
  <2>1. bus \in Buses BY <1>2, ReachableFacts
  <2> QED BY <1>2, <2>1, ScanBusKeeps DEF RootStep
<1> QED BY <1>1, <1>2

LEMMA RootStepKeeps ==
  ASSUME NEW t, IsTopology(t), NEW y, NEW k \in Nat, NEW next, next = k + 1, RootMid(t, y, k)
  PROVE  RootMid(t, RootStep(t, y, k), next)
<1>0. TableOK(t, y) /\ y \in Tables(t) /\ y.full \in BOOLEAN /\ Len(y.devices) \in Nat
  <2>1. TableOK(t, y) /\ y \in Tables(t) BY Zenon DEF RootMid, TableOK
  <2> QED BY <2>1, TableIs
<1>1. \A b \in HostFunctions(t) : b \in Nat BY PciNumbers DEF HostFunctions
<1>2. CASE y.full \/ k \notin HostFunctions(t)
  <2>1. RootStep(t, y, k) = y BY <1>2 DEF RootStep
  <2>2. \A b \in HostFunctions(t) : b < k => b < next BY <1>1
  <2>3. ASSUME y.full = FALSE PROVE \A b \in HostFunctions(t) : b < next => b < k
    <3>1. \A b \in HostFunctions(t) : b # k BY <1>2, <2>3
    <3> QED BY <1>1, <3>1
  <2>4. RootMid(t, y, next) BY <2>2, <2>3, Zenon DEF RootMid
  <2> QED BY <2>1, <2>4
<1>3. CASE ~(y.full \/ k \notin HostFunctions(t))
  <2>1. k \in HostFunctions(t) /\ y.full = FALSE /\ k \in ReachableBuses(t) /\ k \in Buses
    BY <1>0, <1>3, ReachableFacts
  <2>2. ASSUME OneParent(t)
        PROVE  Once(t, y) /\ \A i \in Listed(y) : y.devices[i].bus \in HostFunctions(t) => y.devices[i].bus < k
    BY <2>2, Zenon DEF RootMid
  <2>3. ASSUME OneParent(t) PROVE PreOnce(t, y, k)
    <3>1. \A i \in Listed(y) : y.devices[i].bus # k BY <2>1, <2>2, <2>3
    <3> QED BY <2>1, <2>2, <2>3, <3>1 DEF PreOnce, FreshBus, HasParent
  <2>4. Pre(t, y, k) BY <1>0, <2>1, <2>3, Zenon DEF Pre
  <2>5. PICK z : z = ScanBus(t, y, k) /\ z = RootStep(t, y, k) BY <1>3 DEF RootStep
  <2>6. z \in Tables(t) /\ Post(t, y, k, z) BY <1>0, <2>1, <2>4, <2>5, ScanBusKeeps
  <2>7. TableOK(t, z) /\ Grows(y, z) BY <2>6, Zenon DEF Post
  <2>8. ASSUME z.full = FALSE
        PROVE  /\ Explored(t, NoDevices, z, Len(z.devices))
               /\ \A b \in HostFunctions(t) : b < next => ListsBus(t, z, b)
    <3>1. Explored(t, y, z, Len(z.devices)) /\ ListsBus(t, z, k) BY <2>6, <2>8, Zenon DEF Post
    <3>2. Explored(t, NoDevices, y, Len(y.devices)) /\ \A b \in HostFunctions(t) : b < k => ListsBus(t, y, b)
      BY <2>1, Zenon DEF RootMid
    <3>3. ASSUME NEW b \in HostFunctions(t), b < next PROVE ListsBus(t, z, b)
      <4>1. CASE b = k BY <3>1, <4>1
      <4>2. CASE b # k
        <5>1. b < k BY <1>1, <3>3, <4>2
        <5>2. ListsBus(t, y, b) BY <3>2, <5>1
        <5> QED BY <1>0, <2>6, <2>7, <5>2, GrowsLists
      <4> QED BY <4>1, <4>2
    <3>4. ASSUME NEW i \in Listed(z), z.devices[i].class = "bridge"
          PROVE  ListsBus(t, z, z.devices[i].secondary)
      <4>1. Len(z.devices) \in Nat BY <2>6, TableIs
      <4>2. CASE i > Len(y.devices) BY <3>1, <3>4, <4>1, <4>2 DEF Explored, Listed
      <4>3. CASE i <= Len(y.devices)
        <5>1. i \in Listed(y) BY <1>0, <4>1, <4>3 DEF Listed
        <5>2. z.devices[i] = y.devices[i] BY <2>7, <5>1 DEF Grows
        <5>3. Len(NoDevices.devices) = 0 BY DEF NoDevices
        <5>4. PICK d : d = y.devices[i].secondary OBVIOUS
        <5>5. ListsBus(t, y, d) BY <3>2, <3>4, <4>3, <5>1, <5>2, <5>3, <5>4 DEF Explored, Listed
        <5>6. ListsBus(t, z, d) BY <1>0, <2>6, <2>7, <5>5, GrowsLists
        <5> QED BY <5>2, <5>4, <5>6
      <4>4. i > Len(y.devices) \/ i <= Len(y.devices) BY <1>0 DEF Listed
      <4> QED BY <4>2, <4>3, <4>4
    <3> QED BY <3>3, <3>4 DEF Explored
  <2>9. ASSUME OneParent(t)
        PROVE  Once(t, z) /\ \A i \in Listed(z) : z.devices[i].bus \in HostFunctions(t) => z.devices[i].bus < next
    <3>1. Once(t, z) /\ Origin(y, k, z) BY <2>6, <2>9, Zenon DEF Post, PostOnce
    <3> SUFFICES ASSUME NEW i \in Listed(z), z.devices[i].bus \in HostFunctions(t)
                 PROVE  z.devices[i].bus < next
      BY <3>1
    <3>2. CASE i > Len(y.devices)
      <4>1. \/ z.devices[i].bus = k
            \/ \E j \in Listed(z) : IsParent(z, j, z.devices[i].bus)
        BY <3>1, <3>2 DEF Origin
      <4>2. CASE \E j \in Listed(z) : IsParent(z, j, z.devices[i].bus)
        <5>1. PICK j \in Listed(z) : IsParent(z, j, z.devices[i].bus) BY <4>2
        <5>2. z.devices[j] \in Reachable(t) BY <2>7 DEF TableOK
        <5> QED BY <2>9, <5>1, <5>2, ParentsAre DEF IsParent
      <4> QED BY <4>1, <4>2
    <3>3. CASE i <= Len(y.devices)
      <4>1. i \in Listed(y) BY <1>0, <2>6, <3>3, TableIs DEF Listed
      <4>2. z.devices[i] = y.devices[i] BY <2>7, <4>1 DEF Grows
      <4>3. y.devices[i].bus < k BY <2>2, <2>9, <4>1, <4>2
      <4> QED BY <1>1, <4>2, <4>3
    <3>4. i > Len(y.devices) \/ i <= Len(y.devices) BY <1>0 DEF Listed
    <3> QED BY <3>2, <3>3, <3>4
  <2>10. RootMid(t, z, next) BY <2>7, <2>8, <2>9, Zenon DEF RootMid
  <2> QED BY <2>5, <2>10
<1> QED BY <1>2, <1>3

RootLoopRun(f, t, y, s, m) ==
  /\ f \in [0..m -> Tables(t)] /\ f[0] = y /\ f[m] = RootLoop(t, y, s)
  /\ \A i \in 1..m : f[i] = RootStep(t, f[i - 1], s[i])

\* The loop of ScanAllBus, unrolled.
LEMMA RootLoopSteps ==
  ASSUME NEW t, IsTopology(t), NEW y \in Tables(t), NEW s \in Seq(Nat), NEW m \in Nat, m = Len(s)
  PROVE  \E f : RootLoopRun(f, t, y, s, m)
<1> DEFINE F == [p \in Tables(t) \X Nat |-> RootStep(t, p[1], p[2])]
           Eqn(it) == it = [T \in SUBSET (DOMAIN s) |->
              IF T = {} THEN y ELSE RootStep(t, it[T \ {Max(T)}], s[Max(T)])]
           iter == CHOOSE it : Eqn(it)
<1>1. DOMAIN s = 1..m /\ m \in 0..Len(s) /\ s \in [1..m -> Nat]
  OBVIOUS
<1>2. F \in [Tables(t) \X Nat -> Tables(t)]
  BY RootStepIs
<1>3. RootLoop(t, y, s) = iter[DOMAIN s]
  BY DEF RootLoop, FoldLeft, MapThenFoldSet
<1>4. ASSUME NEW a \in Tables(t), NEW T \in SUBSET (1..m), T # {}
      PROVE  F[<<a, s[Max(T)]>>] = RootStep(t, a, s[Max(T)])
  <2>1. Max(T) \in 1..m
    BY <1>1, <1>4, MaxOf
  <2>2. PICK b \in Nat : b = s[Max(T)]
    BY <1>1, <2>1
  <2> QED  BY <2>2
<1> HIDE DEF F
<1>5. PICK it \in [SUBSET (1..m) -> Tables(t)] : IsIter(it, F, y, s, m)
  BY <1>1, <1>2, IterExists
<1>6. Eqn(it)
  BY <1>1, <1>4, <1>5 DEF IsIter
<1>7. Eqn(iter)
  BY <1>6
<1> HIDE DEF iter
<1>8. IsFold(iter, F, y, s, m, Tables(t), Nat)
  BY <1>1, <1>2, <1>4, <1>7 DEF IsFold
<1>9. PICK f \in [0..m -> Tables(t)] : Steps(f, F, y, s, m) /\ f[m] = iter[1..m]
  BY <1>8, FoldSteps
<1>10. \A i \in 1..m : f[i] = RootStep(t, f[i - 1], s[i])
  <2> SUFFICES ASSUME NEW i \in 1..m PROVE f[i] = RootStep(t, f[i - 1], s[i])
    OBVIOUS
  <2>1. s[i] \in Nat
    BY <1>1
  <2>2. f[i - 1] \in Tables(t)
    OBVIOUS
  <2> QED  BY <1>9, <2>1, <2>2 DEF F, Steps
<1>11. RootLoopRun(f, t, y, s, m)
  BY <1>1, <1>3, <1>9, <1>10 DEF Steps, RootLoopRun
<1> QED  BY <1>11

LEMMA NothingYet ==
  ASSUME NEW t
  PROVE  RootMid(t, NoDevices, 0) /\ NoDevices \in Tables(t)
<1>1. NoDevices.devices = <<>> /\ NoDevices.full = FALSE BY DEF NoDevices
<1>2. Listed(NoDevices) = {} BY <1>1 DEF Listed
<1>3. NoDevices \in Tables(t)
  <2>1. <<>> \in Seq(t) OBVIOUS
  <2> QED BY <2>1, PciNumbers DEF NoDevices, Tables
<1>4. TableOK(t, NoDevices) BY <1>1, <1>2, <1>3 DEF TableOK
<1>5. Explored(t, NoDevices, NoDevices, Len(NoDevices.devices)) BY <1>2 DEF Explored
<1>6. \A b \in HostFunctions(t) : ~(b < 0) BY PciNumbers DEF HostFunctions
<1>7. Once(t, NoDevices) BY <1>1, <1>2 DEF Once
<1> QED BY <1>2, <1>3, <1>4, <1>5, <1>6, <1>7, Zenon DEF RootMid

LEMMA AllBuses ==
  ASSUME NEW t, IsTopology(t), NEW m, m = MaxFn + 1
  PROVE  RootMid(t, ScanAllBus(t), m)
<1>0. m \in Nat BY PciNumbers
<1>1. PICK s \in Seq(Nat) : s = [i \in 1..m |-> i - 1] /\ m = Len(s) BY <1>0, CountingUp
<1>2. PICK start \in Tables(t) : start = NoDevices BY NothingYet
<1>3. PICK f : RootLoopRun(f, t, start, s, m) BY <1>0, <1>1, RootLoopSteps
<1>4. f[m] = ScanAllBus(t)
  <2>1. ScanAllBus(t) = RootLoop(t, start, s) BY <1>1, <1>2, LoopsAre
  <2> QED BY <1>3, <2>1 DEF RootLoopRun
<1> DEFINE S == {i \in 0..m : RootMid(t, f[i], i)}
<1>5. 0 \in S BY <1>0, <1>2, <1>3, NothingYet DEF RootLoopRun
<1>6. ASSUME NEW i \in 1..m, (i - 1) \in S PROVE i \in S
  <2>1. PICK k \in Nat : k = i - 1 /\ i = k + 1 /\ k \in 0..m BY <1>0
  <2>2. PICK a : a = f[k] /\ RootMid(t, a, k) BY <1>6, <2>1
  <2>3. f[i] = RootStep(t, a, k)
    <3>1. s[i] = k BY <1>1, <2>1
    <3> QED BY <1>3, <2>1, <2>2, <3>1 DEF RootLoopRun
  <2>4. RootMid(t, RootStep(t, a, k), i) BY <2>1, <2>2, RootStepKeeps
  <2>5. i \in 0..m BY <1>0
  <2> QED BY <2>3, <2>4, <2>5
<1>7. \A i \in 0..m : i \in S
  <2> HIDE DEF S
  <2> QED BY <1>0, <1>5, <1>6, CountUp
<1> QED BY <1>0, <1>4, <1>7

\* A table that is not full lists all that can be reached.
LEMMA AllListed ==
  ASSUME NEW t, IsTopology(t), NEW y, NEW m, m = MaxFn + 1, RootMid(t, y, m), y.full = FALSE,
         NEW f \in Reachable(t)
  PROVE  Lists(y, f)
<1> DEFINE buses == HostFunctions(t) \cup
             {b \in 0..MaxBus : \E i \in Listed(y) : IsParent(y, i, b)}
<1>1. TableOK(t, y) /\ y \in Tables(t) BY Zenon DEF RootMid, TableOK
<1>2. Explored(t, NoDevices, y, Len(y.devices)) /\ \A b \in HostFunctions(t) : b < m => ListsBus(t, y, b)
  BY Zenon DEF RootMid
<1>3. ASSUME NEW b \in buses PROVE ListsBus(t, y, b)
  <2>1. CASE b \in HostFunctions(t)
    <3>1. b < m BY <2>1, PciNumbers DEF HostFunctions
    <3> QED BY <1>2, <2>1, <3>1
  <2>2. CASE b \notin HostFunctions(t)
    <3>1. PICK i \in Listed(y) : IsParent(y, i, b) BY <1>3, <2>2
    <3>2. i > Len(NoDevices.devices) /\ i <= Len(y.devices) BY DEF NoDevices, Listed
    <3> QED BY <1>2, <3>1, <3>2 DEF Explored, IsParent
  <2> QED BY <2>1, <2>2
<1>4. \A g \in OnBuses(t, buses) : Lists(y, g) /\ g \in t
  <2> HIDE DEF buses
  <2> QED BY <1>3 DEF OnBuses, ListsBus
<1>5. HostFunctions(t) \subseteq 0..MaxBus BY PciNumbers DEF HostFunctions
<1>6. ASSUME NEW g \in OnBuses(t, buses), g.class = "bridge" PROVE g.secondary \in buses
  <2>1. PICK i \in Listed(y) : y.devices[i] = g BY <1>4 DEF Lists
  <2>2. g.secondary \in 0..MaxBus BY <1>4, <1>6 DEF IsTopology
  <2>3. IsParent(y, i, g.secondary) BY <1>6, <2>1 DEF IsParent
  <2> QED BY <2>2, <2>3
<1>7. Closed(t, buses) /\ buses \in SUBSET (0..MaxBus)
  <2>1. buses \in SUBSET (0..MaxBus) /\ HostFunctions(t) \subseteq buses BY <1>5
  <2> HIDE DEF buses
  <2> QED BY <1>6, <2>1 DEF Closed
<1>8. f \in OnBuses(t, buses)
  <2> HIDE DEF buses
  <2>1. f \in t /\ f.bus \in ReachableBuses(t) /\ Visible(t, f) BY ReachableFacts
  <2>2. f.bus \in buses BY <1>7, <2>1 DEF ReachableBuses
  <2> QED BY <2>1, <2>2 DEF OnBuses
<1> QED BY <1>4, <1>8

LEMMA ReachableFinite ==
  ASSUME NEW t, IsTopology(t)
  PROVE  IsFiniteSet(Reachable(t)) /\ Cardinality(Reachable(t)) \in Nat
<1>1. Reachable(t) \in SUBSET t BY DEF Reachable, OnBuses
<1>2. IsFiniteSet(t) BY DEF IsTopology
<1>3. IsFiniteSet(Reachable(t)) BY <1>1, <1>2, FS_Subset
<1> QED BY <1>3, FS_CardinalityType

LEMMA RangeOfTable ==
  ASSUME NEW t, NEW y \in Tables(t), \A i, j \in Listed(y) : y.devices[i] = y.devices[j] => i = j
  PROVE  Cardinality(Range(y.devices)) = Len(y.devices)
<1>0. PICK n \in Nat : n = Len(y.devices) /\ Listed(y) = 1..n /\ DOMAIN y.devices = 1..n
  BY TableIs DEF Listed
<1>1. PICK d : d = y.devices /\ d \in [1..n -> t] BY <1>0, TableIs
<1>2. d \in [1..n -> Range(d)] BY <1>1 DEF Range
<1>3. d \in Injection(1..n, Range(d)) BY <1>0, <1>1, <1>2 DEF Injection, IsInjective
<1>4. d \in Surjection(1..n, Range(d)) BY <1>1, <1>2 DEF Surjection, Range
<1>5. ExistsBijection(1..n, Range(d)) BY <1>3, <1>4 DEF ExistsBijection, Bijection
<1>6. Cardinality(Range(d)) = n BY <1>5, FS_CountingElements
<1> QED BY <1>0, <1>1, <1>6

\* What the scan finds, as the property states it.
ScanComplete(t, y) ==
  /\ Len(y.devices) <= MaxDevices
  /\ ~y.full => Range(y.devices) = Reachable(t)
  /\ y.full => Len(y.devices) = MaxDevices /\ Range(y.devices) \subseteq Reachable(t)
  /\ OneParent(t) =>
       /\ y.full = (Cardinality(Reachable(t)) > MaxDevices)
       /\ IsInjective(y.devices)

LEMMA ScanAllIs ==
  ASSUME NEW t, IsTopology(t)
  PROVE  ScanComplete(t, ScanAllBus(t)) /\ ScanAllBus(t) \in Tables(t)
<1>0. PICK m : m = MaxFn + 1 OBVIOUS
<1>1. PICK y : y = ScanAllBus(t) /\ RootMid(t, y, m) BY <1>0, AllBuses
<1>2. TableOK(t, y) /\ y \in Tables(t) BY <1>1, Zenon DEF RootMid, TableOK
<1>3. /\ Len(y.devices) \in Nat /\ Len(y.devices) <= MaxDevices /\ y.full \in BOOLEAN
      /\ DOMAIN y.devices = Listed(y)
  BY <1>2, TableIs DEF Listed
<1>4. Range(y.devices) \subseteq Reachable(t) BY <1>2, <1>3 DEF TableOK, Range
<1>5. ASSUME ~y.full PROVE Range(y.devices) = Reachable(t)
  <2>1. ASSUME NEW f \in Reachable(t) PROVE f \in Range(y.devices)
    <3>1. y.full = FALSE BY <1>3, <1>5
    <3>2. Lists(y, f) BY <1>0, <1>1, <3>1, AllListed
    <3> QED BY <1>3, <3>2 DEF Lists, Range
  <2> QED BY <1>4, <2>1
<1>6. y.full => Len(y.devices) = MaxDevices BY <1>2, Zenon DEF TableOK
<1>7. ASSUME OneParent(t)
      PROVE  y.full = (Cardinality(Reachable(t)) > MaxDevices) /\ IsInjective(y.devices)
  <2>1. Once(t, y) BY <1>1, <1>7, Zenon DEF RootMid
  <2>2. \A i, j \in Listed(y) : y.devices[i] = y.devices[j] => i = j BY <2>1 DEF Once
  <2>3. IsInjective(y.devices) BY <1>3, <2>2 DEF IsInjective
  <2>4. PICK R : R = Range(y.devices) OBVIOUS
  <2>5. Cardinality(R) = Len(y.devices) BY <1>2, <2>2, <2>4, RangeOfTable
  <2>6. IsFiniteSet(Reachable(t)) /\ Cardinality(Reachable(t)) \in Nat BY ReachableFinite
  <2>7. R \in SUBSET Reachable(t) BY <1>4, <2>4
  <2>8. IsFiniteSet(R) BY <2>6, <2>7, FS_Subset
  <2>9. ASSUME y.full PROVE Cardinality(Reachable(t)) > MaxDevices
    <3>1. Lacks(t, y) BY <2>1, <2>9 DEF Once
    <3>2. PICK f \in Reachable(t) : ~Lists(y, f) BY <3>1 DEF Lacks
    <3>3. f \notin R BY <1>3, <2>4, <3>2 DEF Lists, Range
    <3>4. PICK Q : Q = R \cup {f} OBVIOUS
    <3>5. Cardinality(Q) = Cardinality(R) + 1 BY <2>8, <3>3, <3>4, FS_AddElement
    <3>6. Q \in SUBSET Reachable(t) BY <2>7, <3>4
    <3>7. Cardinality(Q) <= Cardinality(Reachable(t)) BY <2>6, <3>6, FS_Subset
    <3> QED BY <1>3, <1>6, <2>5, <2>6, <2>9, <3>5, <3>7, PciNumbers
  <2>10. ASSUME ~y.full PROVE ~(Cardinality(Reachable(t)) > MaxDevices)
    <3>1. Cardinality(Reachable(t)) = Len(y.devices) BY <1>5, <2>4, <2>5, <2>10
    <3> QED BY <1>3, <3>1, PciNumbers
  <2>11. y.full = (Cardinality(Reachable(t)) > MaxDevices) BY <1>3, <2>9, <2>10
  <2> QED BY <2>3, <2>11
<1>8. ScanComplete(t, y) BY <1>3, <1>4, <1>5, <1>6, <1>7, Zenon DEF ScanComplete
<1> QED BY <1>1, <1>2, <1>8

-----------------------------------------------------------------------------
(* The controller chosen *)

LEMMA FoundXhcIs ==
  ASSUME NEW t, NEW devices \in Seq(t), Xhcs(devices) # {}
  PROVE  /\ FoundXhc(devices) \in Xhcs(devices)
         /\ devices[FoundXhc(devices)].vendor = "intel"
              <=> \E i \in Xhcs(devices) : devices[i].vendor = "intel"
<1> DEFINE intel == {i \in Xhcs(devices) : devices[i].vendor = "intel"}
<1>0. PICK n \in Nat : n = Len(devices) OBVIOUS
<1>1. Xhcs(devices) \in SUBSET (1..n) BY <1>0 DEF Xhcs
<1>2. CASE intel # {}
  <2>1. intel \in SUBSET Nat BY <1>1
  <2>2. \E m \in intel : \A k \in intel : m <= k
    <3> HIDE DEF intel
    <3> QED BY <1>2, <2>1, LeastNatural
  <2>3. FoundXhc(devices) = CHOOSE i \in intel : \A j \in intel : i <= j BY <1>2 DEF FoundXhc
  <2>4. FoundXhc(devices) \in intel
    <3> HIDE DEF intel
    <3> QED BY <2>2, <2>3
  <2> QED BY <2>4
<1>3. CASE intel = {}
  <2>1. PICK m : m = Max(Xhcs(devices)) /\ m \in Xhcs(devices) /\ \A k \in Xhcs(devices) : k <= m
    BY <1>1, MaxOf
  <2>2. FoundXhc(devices) = CHOOSE i \in Xhcs(devices) : \A j \in Xhcs(devices) : j <= i
    BY <1>3 DEF FoundXhc
  <2>3. FoundXhc(devices) \in Xhcs(devices) BY <2>1, <2>2
  <2> QED BY <1>3, <2>3
<1> QED BY <1>2, <1>3

\* XhcChosen, of a table and what was made of it.
Chosen(t, y, c, r) ==
  LET intel(class) == \E f \in Reachable(t) : f.class = class /\ f.vendor = "intel"
  IN  \E f \in Reachable(t) :
        /\ c = {f} /\ f.class = "xhc"
        /\ ~y.full => /\ f.vendor = "intel" <=> intel("xhc")
                      /\ r <=> intel("xhc") /\ intel("ehc")

LEMMA ChoiceIsRight ==
  ASSUME NEW t, NEW y \in Tables(t), ScanComplete(t, y), NEW d, d = y.devices, Xhcs(d) # {},
         NEW c, c = {d[FoundXhc(d)]}, NEW r \in BOOLEAN,
         r = (SwitchEhci2Xhci(d) /\ \E f \in c : f.vendor = "intel")
  PROVE  Chosen(t, y, c, r)
<1>0. d \in Seq(t) BY TableIs
<1>1. PICK n : n = FoundXhc(d) OBVIOUS
<1>2. /\ n \in Xhcs(d)
      /\ d[n].vendor = "intel" <=> \E i \in Xhcs(d) : d[i].vendor = "intel"
  BY <1>0, <1>1, FoundXhcIs
<1>3. n \in DOMAIN d /\ d[n].class = "xhc" BY <1>0, <1>2 DEF Xhcs
<1>4. PICK f : f = d[n] OBVIOUS
<1>5. Range(d) \subseteq Reachable(t) BY Zenon DEF ScanComplete
<1>6. f \in Reachable(t) BY <1>3, <1>4, <1>5 DEF Range
<1>7. c = {f} BY <1>1, <1>4
<1>8. ASSUME ~y.full
      PROVE  /\ f.vendor = "intel" <=> \E g \in Reachable(t) : g.class = "xhc" /\ g.vendor = "intel"
             /\ r <=> /\ \E g \in Reachable(t) : g.class = "xhc" /\ g.vendor = "intel"
                      /\ \E g \in Reachable(t) : g.class = "ehc" /\ g.vendor = "intel"
  <2>1. Range(d) = Reachable(t) BY <1>8, Zenon DEF ScanComplete
  <2>2. \A g : g \in Reachable(t) <=> \E i \in 1..Len(d) : d[i] = g BY <1>0, <2>1 DEF Range
  <2>3. f.vendor = "intel" <=> \E g \in Reachable(t) : g.class = "xhc" /\ g.vendor = "intel"
    BY <1>2, <1>4, <2>2 DEF Xhcs
  <2>4. SwitchEhci2Xhci(d) <=> \E g \in Reachable(t) : g.class = "ehc" /\ g.vendor = "intel"
    BY <2>2 DEF SwitchEhci2Xhci
  <2>5. r <=> SwitchEhci2Xhci(d) /\ f.vendor = "intel" BY <1>7
  <2> QED BY <2>3, <2>4, <2>5
<1>9. f.class = "xhc" BY <1>3, <1>4
<1> QED BY <1>6, <1>7, <1>8, <1>9, Zenon DEF Chosen

PciHeld ==
  /\ topology \in Topologies
  /\ stage = "find" => found \in Tables(topology) /\ ScanComplete(topology, found)
  /\ stage = "devmgr" => Chosen(topology, found, xhc, routed)

LEMMA PciHeldIs == PciHeld => PciInv
<1> SUFFICES ASSUME PciHeld PROVE PciInv OBVIOUS
<1>1. PciScanComplete BY Zenon DEF PciHeld, PciScanComplete, ScanComplete
<1>2. XhcChosen BY Zenon DEF PciHeld, XhcChosen, Chosen
<1> QED BY <1>1, <1>2 DEF PciInv

LEMMA InitPciHeld == TransportInit => PciHeld
BY DEF TransportInit, PciHeld

LEMMA PciKept ==
  ASSUME PciHeld, UNCHANGED <<stage, pciVars>>
  PROVE  PciHeld'
<1>1. stage' = stage /\ topology' = topology /\ found' = found /\ xhc' = xhc /\ routed' = routed
  BY DEF pciVars
<1> QED BY <1>1, Zenon DEF PciHeld

LEMMA PciPast ==
  ASSUME PciHeld, topology' = topology, stage' # "find", stage' # "devmgr"
  PROVE  PciHeld'
BY Zenon DEF PciHeld

LEMMA ScanPciPreserves ==
  ASSUME PciHeld, ScanPci
  PROVE  PciHeld'
<1>1. IsTopology(topology) BY TransportAssumption DEF PciHeld
<1>2. topology' = topology /\ stage' = "find" /\ found' = ScanAllBus(topology) BY DEF ScanPci, SetUp
<1>3. PICK y : y = ScanAllBus(topology) OBVIOUS
<1>4. y \in Tables(topology) /\ ScanComplete(topology, y) BY <1>1, <1>3, ScanAllIs
<1>5. stage' # "devmgr" BY <1>2
<1> QED BY <1>2, <1>3, <1>4, <1>5, Zenon DEF PciHeld

LEMMA FindXhcPreserves ==
  ASSUME PciHeld, FindXhc
  PROVE  PciHeld'
<1>1. stage = "find" /\ topology' = topology /\ found' = found /\ stage' \in {"exit", "devmgr"}
  BY DEF FindXhc, SetUp
<1>2. CASE Xhcs(found.devices) = {}
  <2>1. stage' = "exit" BY <1>2 DEF FindXhc, SetUp
  <2> QED BY <1>1, <2>1, PciPast
<1>3. CASE Xhcs(found.devices) # {}
  <2>1. PICK d : d = found.devices OBVIOUS
  <2>2. PICK c : c = {d[FoundXhc(d)]} OBVIOUS
  <2>3. PICK r \in BOOLEAN : r = (SwitchEhci2Xhci(d) /\ \E f \in c : f.vendor = "intel") OBVIOUS
  <2>4. xhc' = c /\ routed' = r BY <1>3, <2>1, <2>2, <2>3 DEF FindXhc
  <2>5. found \in Tables(topology) /\ ScanComplete(topology, found) BY <1>1, Zenon DEF PciHeld
  <2>6. Chosen(topology, found, c, r) BY <1>3, <2>1, <2>2, <2>3, <2>5, ChoiceIsRight
  <2>7. stage' # "find" BY <1>1
  <2> QED BY <1>1, <2>4, <2>6, <2>7, Zenon DEF PciHeld
<1> QED BY <1>2, <1>3

LEMMA StepPciHeld == PciHeld /\ [TransportNext]_allVars => PciHeld'
<1> SUFFICES ASSUME PciHeld, [TransportNext]_allVars PROVE PciHeld' OBVIOUS
<1>1. CASE ScanPci BY <1>1, ScanPciPreserves
<1>2. CASE FindXhc BY <1>2, FindXhcPreserves
<1>3. CASE DeviceManagerInitialize
  <2>1. topology' = topology /\ stage' \in {"ownership", "exit"}
    BY <1>3 DEF DeviceManagerInitialize, SetUpAlloc, SetUp, pciVars
  <2> QED BY <2>1, PciPast
<1>4. CASE RequestHCOwnership \/ StopController \/ ResetController \/ SetMaxSlots \/ SetDCBAAP
  <2>1. topology' = topology /\ stage' # "find" /\ stage' # "devmgr"
    BY <1>4 DEF RequestHCOwnership, StopController, ResetController, SetMaxSlots, SetDCBAAP,
                SetUpKeeping, SetUpRegs, SetUpAlloc, SetUp, pciVars
  <2> QED BY <2>1, PciPast
<1>5. CASE \/ AllocScratchpads \/ RingInitialize \/ RegisterCommandRing \/ EventRingInitialize
           \/ RegisterEventRing \/ EnableInterrupts \/ Run \/ Running
  <2>1. topology' = topology /\ stage' # "find" /\ stage' # "devmgr"
    BY <1>5 DEF AllocScratchpads, RingInitialize, RegisterCommandRing, EventRingInitialize,
                RegisterEventRing, EnableInterrupts, Run, Running,
                SetUpKeeping, SetUpRegs, SetUpAlloc, SetUp, pciVars
  <2> QED BY <2>1, PciPast
<1>6. CASE BiosLetsGo \/ FollowRunStop
  <2>1. UNCHANGED <<stage, pciVars>> BY <1>6 DEF BiosLetsGo, FollowRunStop, pciVars
  <2> QED BY <2>1, PciKept
<1>7. CASE Works \/ Stop \/ UNCHANGED allVars
  <2>1. UNCHANGED <<stage, pciVars>> BY <1>7 DEF Works, Stop, allVars, setUpVars
  <2> QED BY <2>1, PciKept
<1>8. TransportNext => \/ Initialize \/ BiosLetsGo \/ FollowRunStop \/ Works \/ Stop
  BY DEF TransportNext, Controller, PortChanges, Main, IssueCommand, ExecuteCommand, PassLink,
         RingEmpty, Interrupt, BeginEvents, EndEvents, HandleEvent, ContinuePush, RingDoorbell, EndEvent
<1> QED BY <1>1, <1>2, <1>3, <1>4, <1>5, <1>6, <1>7, <1>8 DEF Initialize

\* PciInv is an invariant: whatever functions there are on the buses, and
\* wherever their bridges lead, the scan ends with what the device table has
\* room for, and the right controller is chosen from it.
THEOREM PciInvariant == TransportSpec => []PciInv
BY PciHeldIs, InitPciHeld, StepPciHeld, PTL DEF TransportSpec
===============================================================================
