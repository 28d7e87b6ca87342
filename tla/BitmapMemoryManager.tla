------------------------- MODULE BitmapMemoryManager -------------------------
(***************************************************************************)
(* kernel/memory_manager.cpp: InitializeMemoryManager reads the memory map *)
(* the loader saved, marks every frame that is not available, and sets     *)
(* aside the kernel heap; Allocate searches the bitmap for the first run   *)
(* of free frames, one bit per iteration; Free clears bits; sbrk moves the *)
(* program break inside the heap.                                          *)
(*                                                                         *)
(* Addresses are counted in frames (UEFI pages and frames are both 4 KiB), *)
(* program breaks in units of 1/kBytesPerFrame of a frame.                 *)
(***************************************************************************)
EXTENDS Integers, Sequences, FiniteSets

CONSTANTS
  kFrameCount,      \* frames the bitmap has a bit for: 128 GiB / 4 KiB
  kBitsPerMapLine,  \* bits of a MapLineType: 64
  kHeapFrames,      \* 64 * 512 in the code
  kBytesPerFrame,   \* 4096 in the code
  PhysicalFrames,   \* bound: the memory map describes frames below this
  MaxDescriptors,   \* bound on the length of the memory map
  Requests,         \* sizes later allocations ask for
  MaxOwned          \* bound on the blocks clients hold

ASSUME MemoryAssumption ==
  /\ kBitsPerMapLine \in Nat \ {0}
  /\ kFrameCount \in Nat \ {0}
  /\ kFrameCount % kBitsPerMapLine = 0
  /\ kHeapFrames \in Nat \ {0}
  /\ kBytesPerFrame \in Nat \ {0}
  /\ PhysicalFrames \in Nat
  /\ MaxDescriptors \in Nat
  /\ Requests \subseteq Nat \ {0}
  /\ MaxOwned \in Nat

Lines == 0..((kFrameCount \div kBitsPerMapLine) - 1)
Bits == 0..(kBitsPerMapLine - 1)

BlockFrames(start, num) == start..(start + num - 1)

\* A memory map: descriptors in the order the firmware lists them, which the
\* UEFI specification leaves open.  It demands that they do not overlap.
Descriptor == [physical_start : 0..(PhysicalFrames - 1),
               number_of_pages : 1..PhysicalFrames,
               available : BOOLEAN]          \* IsAvailable(desc->type)
DescFrames(d) == BlockFrames(d.physical_start, d.number_of_pages)
MemoryMap(m) ==
  /\ \A i \in 1..Len(m) : DescFrames(m[i]) \subseteq 0..(PhysicalFrames - 1)
  /\ \A i, j \in 1..Len(m) : i # j => DescFrames(m[i]) \cap DescFrames(m[j]) = {}
MemoryMaps ==
  {m \in UNION {[1..n -> Descriptor] : n \in 0..MaxDescriptors} : MemoryMap(m)}

VARIABLES
  alloc_map_,       \* the bitmap: for each line, the bits that are set
  range_begin_, range_end_,
  memory_map,       \* the map, fixed
  iter,             \* the descriptor InitializeMemoryManager is at
  available_end,    \* its local variable
  mode,             \* "init", "alloc" (in Allocate), "ready", "halt" (exit(1))
  num_frames, start_frame_id, i,  \* argument and locals of Allocate
  heap,             \* the call in progress is that of InitializeHeap
  owned,            \* blocks handed out and not freed, the heap apart
  program_break, program_break_end,
  out_of_bounds     \* alloc_map_ has been indexed outside its bounds

mapVars == <<memory_map, iter, available_end>>
allocVars == <<num_frames, start_frame_id, i, heap>>
breakVars == <<program_break, program_break_end>>
rangeVars == <<range_begin_, range_end_>>
bitmapVars == <<alloc_map_, rangeVars, mapVars, mode, allocVars, owned, breakVars, out_of_bounds>>

GetBit(map, f) == (f % kBitsPerMapLine) \in map[f \div kBitsPerMapLine]

\* SetBit for each of a set of frames.  A write past the end of the array
\* hits other memory; here it only raises out_of_bounds.
SetBits(map, frames, allocated) ==
  [line \in Lines |->
     LET bits == {f % kBitsPerMapLine : f \in {g \in frames : g \div kBitsPerMapLine = line}}
     IN  IF allocated THEN map[line] \cup bits ELSE map[line] \ bits]

InBounds(frames) == \A f \in frames : f < kFrameCount

\* What a read of a frame's bit may find; outside the array, either.
ReadsUsed(f) == InBounds({f}) => GetBit(alloc_map_, f)
ReadsFree(f) == InBounds({f}) => ~GetBit(alloc_map_, f)

\* Mutant: the last frame of a block is not marked.
MarkShort(map, start, num) == SetBits(map, BlockFrames(start, num - 1), TRUE)

MarkAllocated(map, start, num) == SetBits(map, BlockFrames(start, num), TRUE)

-----------------------------------------------------------------------------
(* InitializeMemoryManager *)

BitmapInit ==
  /\ alloc_map_ = [line \in Lines |-> {}]
  /\ range_begin_ = 0 /\ range_end_ = kFrameCount
  /\ memory_map \in MemoryMaps
  /\ iter = 1
  /\ available_end = 0
  /\ mode = "init"
  /\ num_frames = 0 /\ start_frame_id = 0 /\ i = 0 /\ heap = FALSE
  /\ owned = {}
  /\ program_break = 0 /\ program_break_end = 0
  /\ out_of_bounds = FALSE

\* Mutant: holes between descriptors are not marked.
NoGap(d) == {}

\* The frames one iteration marks: the gap before the descriptor, and the
\* descriptor itself unless it is available.
GapBefore(d) ==
  IF available_end < d.physical_start
  THEN BlockFrames(available_end, d.physical_start - available_end)
  ELSE {}
MarkedFor(d) == GapBefore(d) \cup (IF d.available THEN {} ELSE DescFrames(d))

InitDescriptor ==
  /\ mode = "init" /\ iter <= Len(memory_map)
  /\ LET d == memory_map[iter]
     IN  /\ alloc_map_' = SetBits(alloc_map_, MarkedFor(d), TRUE)
         /\ out_of_bounds' = (out_of_bounds \/ ~InBounds(MarkedFor(d)))
         /\ available_end' = IF d.available THEN d.physical_start + d.number_of_pages
                             ELSE available_end
  /\ iter' = iter + 1
  /\ UNCHANGED <<rangeVars, memory_map, mode, allocVars, owned, breakVars>>

\* The call: the locals before the first iteration.
CallAllocate(num, begin, for_heap) ==
  /\ mode' = "alloc"
  /\ num_frames' = num
  /\ start_frame_id' = begin
  /\ i' = 0
  /\ heap' = for_heap

\* SetMemoryRange(1, available_end), then InitializeHeap calls Allocate.
InitRange ==
  /\ mode = "init" /\ iter > Len(memory_map)
  /\ range_begin_' = 1
  /\ range_end_' = available_end
  /\ CallAllocate(kHeapFrames, 1, TRUE)
  /\ UNCHANGED <<alloc_map_, mapVars, owned, breakVars, out_of_bounds>>

-----------------------------------------------------------------------------
(* Allocate: an iteration of the inner loop looks at one frame. *)

Allocate(num) ==
  /\ mode = "ready"
  /\ Cardinality(owned) < MaxOwned
  /\ CallAllocate(num, range_begin_, FALSE)
  /\ UNCHANGED <<alloc_map_, rangeVars, mapVars, owned, breakVars, out_of_bounds>>

Frame == start_frame_id + i

\* Mutant: the last frame of the range is never used.
AllocateFailsEarly ==
  /\ mode = "alloc" /\ i < num_frames
  /\ Frame + 1 >= range_end_
  /\ mode' = IF heap THEN "halt" ELSE "ready"
  /\ UNCHANGED <<alloc_map_, rangeVars, mapVars, allocVars, owned, breakVars, out_of_bounds>>

\* kNoEnoughMemory; InitializeMemoryManager then calls exit(1).
AllocateFails ==
  /\ mode = "alloc" /\ i < num_frames
  /\ Frame >= range_end_
  /\ mode' = IF heap THEN "halt" ELSE "ready"
  /\ UNCHANGED <<alloc_map_, rangeVars, mapVars, allocVars, owned, breakVars, out_of_bounds>>

\* Mutants: i is not reset; the search goes on a whole line further.
AllocateSkipsKeepingI ==
  /\ mode = "alloc" /\ i < num_frames /\ Frame < range_end_
  /\ ReadsUsed(Frame)
  /\ start_frame_id' = Frame + 1
  /\ UNCHANGED <<alloc_map_, rangeVars, mapVars, mode, num_frames, i, heap, owned, breakVars,
                 out_of_bounds>>
AllocateSkipsLine ==
  /\ mode = "alloc" /\ i < num_frames /\ Frame < range_end_
  /\ ReadsUsed(Frame)
  /\ start_frame_id' = Frame + kBitsPerMapLine
  /\ i' = 0
  /\ UNCHANGED <<alloc_map_, rangeVars, mapVars, mode, num_frames, heap, owned, breakVars,
                 out_of_bounds>>

\* A used frame: the search goes on behind it.
AllocateSkips ==
  /\ mode = "alloc" /\ i < num_frames /\ Frame < range_end_
  /\ ReadsUsed(Frame)
  /\ start_frame_id' = Frame + 1
  /\ i' = 0
  /\ out_of_bounds' = (out_of_bounds \/ ~InBounds({Frame}))
  /\ UNCHANGED <<alloc_map_, rangeVars, mapVars, mode, num_frames, heap, owned, breakVars>>

AllocateAdvances ==
  /\ mode = "alloc" /\ i < num_frames /\ Frame < range_end_
  /\ ReadsFree(Frame)
  /\ i' = i + 1
  /\ out_of_bounds' = (out_of_bounds \/ ~InBounds({Frame}))
  /\ UNCHANGED <<alloc_map_, rangeVars, mapVars, mode, num_frames, start_frame_id, heap,
                 owned, breakVars>>

\* Enough free frames: mark them and return the first.  InitializeHeap makes
\* them the heap.
AllocateSucceeds ==
  /\ mode = "alloc" /\ i = num_frames
  /\ alloc_map_' = MarkAllocated(alloc_map_, start_frame_id, num_frames)
  /\ mode' = "ready"
  /\ IF heap
     THEN /\ program_break' = start_frame_id * kBytesPerFrame
          /\ program_break_end' = program_break' + kHeapFrames * kBytesPerFrame
          /\ UNCHANGED owned
     ELSE /\ owned' = owned \cup {[start |-> start_frame_id, num |-> num_frames]}
          /\ UNCHANGED breakVars
  /\ UNCHANGED <<rangeVars, mapVars, allocVars, out_of_bounds>>

Free(b) ==
  /\ mode = "ready"
  /\ alloc_map_' = SetBits(alloc_map_, BlockFrames(b.start, b.num), FALSE)
  /\ owned' = owned \ {b}
  /\ UNCHANGED <<rangeVars, mapVars, mode, allocVars, breakVars, out_of_bounds>>

\* What malloc asks for: it may give back (a negative incr), though no more
\* than it has taken.  sbrk relies on that, it has no check on that side.
Increments ==
  LET bytes == kHeapFrames * kBytesPerFrame
  IN  {incr \in (-bytes)..bytes : program_break_end - bytes <= program_break + incr}

\* sbrk refuses (ENOMEM) what would reach program_break_end.
sbrk(incr) ==
  /\ mode = "ready"
  /\ program_break # 0 /\ program_break + incr < program_break_end
  /\ program_break' = program_break + incr
  /\ UNCHANGED <<alloc_map_, rangeVars, mapVars, mode, allocVars, owned, program_break_end,
                 out_of_bounds>>

\* exit(1) ends in _exit's hlt loop.
Halted == mode = "halt" /\ UNCHANGED bitmapVars

BitmapNext ==
  \/ InitDescriptor \/ InitRange
  \/ AllocateFails \/ AllocateSkips \/ AllocateAdvances \/ AllocateSucceeds
  \/ \E num \in Requests : Allocate(num)
  \/ \E b \in owned : Free(b)
  \/ \E incr \in Increments : sbrk(incr)
  \/ Halted

BitmapSpec == BitmapInit /\ [][BitmapNext]_bitmapVars
-----------------------------------------------------------------------------
(* Safety *)

\* Every variable keeps its type.
BitmapTypeOK ==
  /\ alloc_map_ \in [Lines -> SUBSET Bits]
  /\ range_begin_ \in 0..1 /\ range_end_ \in Nat
  /\ iter \in 1..(Len(memory_map) + 1)
  /\ available_end \in 0..PhysicalFrames
  /\ mode \in {"init", "alloc", "ready", "halt"}
  /\ num_frames \in Nat /\ start_frame_id \in Nat /\ i \in 0..num_frames
  /\ heap \in BOOLEAN
  /\ owned \subseteq [start : Nat, num : Requests]
  /\ program_break \in Nat /\ program_break_end \in Nat
  /\ out_of_bounds \in BOOLEAN

Booted == mode \in {"alloc", "ready", "halt"}
ManagedFrames == range_begin_..(range_end_ - 1)
FreeFrames == {f \in ManagedFrames : ~GetBit(alloc_map_, f)}
Available ==
  UNION {DescFrames(memory_map[n]) : n \in {k \in 1..Len(memory_map) : memory_map[k].available}}
HeapFrames ==
  IF program_break_end = 0 THEN {}
  ELSE BlockFrames((program_break_end \div kBytesPerFrame) - kHeapFrames, kHeapFrames)
OwnedFrames == UNION {BlockFrames(b.start, b.num) : b \in owned}

\* Only memory the firmware reports as available is ever free to allocate,
\* whatever the order of the descriptors and the holes between them: the gap
\* rule of the boot loop must catch every hole below range_end_.
OnlyAvailableIsFree == Booted => FreeFrames \subseteq Available

\* The blocks handed out and the heap are disjoint, inside the range, marked
\* in the bitmap, and made of available memory.
BlocksDisjoint ==
  /\ \A b \in owned : BlockFrames(b.start, b.num) \cap HeapFrames = {}
  /\ \A b, c \in owned : b # c => BlockFrames(b.start, b.num) \cap BlockFrames(c.start, c.num) = {}
  /\ \A f \in OwnedFrames \cup HeapFrames : f \in ManagedFrames /\ f \in Available /\ GetBit(alloc_map_, f)

\* When the firmware lists its descriptors by address nothing is lost: each
\* available frame from frame 1 on is free or in a block.
SortedMap ==
  \A n, k \in 1..Len(memory_map) :
    n < k => memory_map[n].physical_start < memory_map[k].physical_start
NothingLost ==
  (Booted /\ SortedMap) => Available \ {0} \subseteq FreeFrames \cup OwnedFrames \cup HeapFrames

\* Every frame is accounted for: in one block at most, and in none only if free.
FramesAccounted == BlocksDisjoint /\ NothingLost

\* The search is a first fit: no block of the requested size below the
\* current candidate is free, and the frames looked at are.
SearchInvariant ==
  mode = "alloc" =>
    /\ \A f \in ManagedFrames : f < start_frame_id => ~(BlockFrames(f, num_frames) \subseteq FreeFrames)
    /\ BlockFrames(start_frame_id, i) \subseteq FreeFrames

\* Allocate reports kNoEnoughMemory only when no run of free frames in the
\* range is long enough.
FailsOnlyWhenFull ==
  [][AllocateFails => \A f \in ManagedFrames : ~(BlockFrames(f, num_frames) \subseteq FreeFrames)]_bitmapVars

\* The program break stays inside the heap block, below its end.
BreakInsideHeap ==
  program_break_end # 0 =>
    /\ kHeapFrames * kBytesPerFrame <= program_break_end
    /\ program_break \in (program_break_end - kHeapFrames * kBytesPerFrame)..(program_break_end - 1)

\* The bitmap is indexed within its bounds only.
BitmapInBounds == ~out_of_bounds

\* What holds at every step of the boot loop and of the search.
BitmapInv == BitmapTypeOK /\ BitmapInBounds /\ SearchInvariant /\ BreakInsideHeap

(* Refinement *)

HeapReady == program_break_end # 0
FA == INSTANCE FrameAllocator WITH
        Frames <- 0..(PhysicalFrames - 1),
        ready <- HeapReady,
        free <- IF HeapReady THEN FreeFrames ELSE {}

\* Once the heap is set aside, the bitmap and the frame-by-frame search are a
\* first-fit allocator whose allocations happen in one step.
ImplementsFirstFit == FA!Spec
===============================================================================
