---------------------------- MODULE FrameAllocator ----------------------------
(***************************************************************************)
(* What the memory manager promises: a first-fit allocator of contiguous   *)
(* physical frames.  An allocation takes the lowest run of free frames     *)
(* that is long enough, in one step, and fails only when there is none;    *)
(* freeing gives a block back.  BitmapMemoryManager implements it with a   *)
(* search of many steps over a bitmap.                                     *)
(***************************************************************************)
EXTENDS Naturals

CONSTANTS
  Frames,      \* the frames an allocation may use
  Requests     \* the sizes clients ask for

VARIABLES
  ready,       \* the boot code has decided which frames are free
  free,        \* the free frames
  owned        \* the blocks handed out: [start, num]

vars == <<ready, free, owned>>

BlockFrames(start, num) == start..(start + num - 1)
Fits(num) == {f \in Frames : BlockFrames(f, num) \subseteq free}

Init ==
  /\ ready = FALSE
  /\ free = {}
  /\ owned = {}

Boot ==
  /\ ~ready
  /\ ready' = TRUE
  /\ free' \in SUBSET Frames
  /\ UNCHANGED owned

\* A failed allocation changes nothing: as a step it is a stutter.
Allocate(num) ==
  /\ ready
  /\ \E f \in Fits(num) :
       /\ \A g \in Fits(num) : f <= g
       /\ free' = free \ BlockFrames(f, num)
       /\ owned' = owned \cup {[start |-> f, num |-> num]}
  /\ UNCHANGED ready

Free(b) ==
  /\ ready
  /\ free' = free \cup BlockFrames(b.start, b.num)
  /\ owned' = owned \ {b}
  /\ UNCHANGED ready

Next ==
  \/ Boot
  \/ \E num \in Requests : Allocate(num)
  \/ \E b \in owned : Free(b)

Spec == Init /\ [][Next]_vars
===============================================================================
