------------------------------- MODULE Transport -------------------------------
(***************************************************************************)
(* The path of a USB command: from the scan of the PCI buses that finds    *)
(* the host controller (xhci::Initialize, kernel/usb/xhci/xhci.cpp) over   *)
(* Controller::Initialize and Run, which give it its memory                *)
(* (kernel/usb/memory.cpp), to the command ring (Ring), which this module  *)
(* extends, and the event ring (ER) on which the controller answers.       *)
(***************************************************************************)
EXTENDS Ring, Pci, FiniteSets

CONSTANTS
  ebuf_size_,       \* slots of the event ring
  PortEvent,        \* an event no command has asked for
  Topologies,       \* the PCI topologies scanned
  FollowedTopology, \* the one whose controller is followed beyond set-up
  PoolBases,        \* where the linker may put memory_pool, in units of 64 bytes
  PoolSize, Page,   \* kMemoryPoolSize and 4096 bytes, in such units
  RingUnits,        \* what a ring takes
  MaxScratchpads    \* scratchpad buffers the controller asks for at most

Events == TRBs \cup {PortEvent}
Page16 == 16 * Page   \* the 64 KiB a ring must not cross

VARIABLES
  ebuf_, enqueue, pcs, erdp, ecycle_bit_, epc, front, ehb, interrupt,
  stage,            \* the next step of xhci::Initialize
  topology, found,  \* what there is on the buses, and what the scan found
  xhc, routed,      \* the controller chosen ({}: none); it has the EHC's ports
  msi,              \* interrupts of the controller reach the processor
  pool_base, pool,  \* memory_pool, alloc_ptr and the blocks handed out
  bios, run_stop, halted, regs,  \* the controller: RequestHCOwnership has to
                    \* wait for the firmware, state, registers set
  doorbell,         \* the command ring's has been rung
  push              \* the handler: may push, has to ring the doorbell, is done

ER == INSTANCE EventRing WITH
        buf_size_ <- ebuf_size_, NoEvent <- NoTRB,
        buf_ <- ebuf_, cycle_bit_ <- ecycle_bit_, pc <- epc

ASSUME TransportAssumption ==
  /\ ER!EventRingAssumption
  /\ FollowedTopology \in Topologies /\ \A t \in Topologies : IsTopology(t)
  /\ PoolBases \subseteq Nat /\ MaxScratchpads \in Nat
  /\ {PoolSize, Page, RingUnits} \subseteq Nat \ {0}

eventVars == <<ebuf_, enqueue, pcs, erdp, ecycle_bit_, epc, front, ehb, interrupt>>
pciVars == <<topology, found, xhc, routed, msi>>
hcVars == <<bios, run_stop, halted, regs>>
setUpVars == <<stage, pciVars, pool_base, pool, hcVars>>
linkVars == <<doorbell, push>>
allVars == <<vars, eventVars, setUpVars, linkVars>>

TransportInit ==
  /\ Init /\ ER!Init
  /\ stage = "pci"
  /\ topology \in Topologies /\ found = NoDevices
  /\ xhc = {} /\ routed = FALSE /\ msi = FALSE
  /\ pool_base \in PoolBases
  /\ pool = [ptr |-> pool_base, blocks |-> {}, nulls |-> {}]
  /\ bios \in BOOLEAN /\ halted \in BOOLEAN /\ run_stop = ~halted /\ regs = {}
  /\ doorbell = FALSE /\ push = "done"

-----------------------------------------------------------------------------
(* AllocMem *)

Ceil(value, alignment) == ((value + alignment - 1) \div alignment) * alignment

\* Mutant: the boundary is looked for below the block.
PlacedBelow(ptr, size, alignment, boundary) ==
  LET aligned == IF alignment > 0 THEN Ceil(ptr, alignment) ELSE ptr
  IN  IF boundary > 0 /\ Ceil(aligned, boundary) < aligned THEN Ceil(aligned, boundary)
      ELSE aligned

\* Where alloc_ptr goes before size is taken from it.
Placed(ptr, size, alignment, boundary) ==
  LET aligned == IF alignment > 0 THEN Ceil(ptr, alignment) ELSE ptr
  IN  IF boundary > 0 /\ Ceil(aligned, boundary) < aligned + size
      THEN Ceil(aligned, boundary) ELSE aligned

\* alloc_ptr keeps its new place even if there is no room and the result is
\* the null pointer.  FreeMem does nothing.
AllocMem(p, what, size, alignment, boundary) ==
  LET ptr == Placed(p.ptr, size, alignment, boundary)
  IN  IF pool_base + PoolSize < ptr + size
      THEN [p EXCEPT !.ptr = ptr, !.nulls = @ \cup {what}]
      ELSE [ptr |-> ptr + size, nulls |-> p.nulls,
            blocks |-> p.blocks \cup {[what |-> what, first |-> ptr, size |-> size,
                                       alignment |-> alignment, boundary |-> boundary]}]

-----------------------------------------------------------------------------
(* xhci::Initialize *)

SetUp(from, to) ==
  /\ stage = from /\ stage' = to
  /\ UNCHANGED <<vars, eventVars, linkVars, pool_base>>
SetUpKeeping(from, to) == SetUp(from, to) /\ UNCHANGED <<pciVars, pool, hcVars>>

\* Memory that is tested for: a null pointer ends in exit(1).
SetUpAlloc(from, to, p) ==
  /\ SetUp(from, IF p.nulls \subseteq pool.nulls THEN to ELSE "exit")
  /\ pool' = p
  /\ UNCHANGED <<pciVars, hcVars>>
SetUpRegs(from, to, new) ==
  SetUp(from, to) /\ regs' = regs \cup new /\ UNCHANGED <<pciVars, pool, bios, run_stop, halted>>

\* InitializePCI logs the error of the scan and goes on.
ScanPci ==
  /\ SetUp("pci", "find")
  /\ found' = ScanAllBus(topology)
  /\ UNCHANGED <<topology, xhc, routed, msi, pool, hcVars>>

\* Without an xHC: exit(1).  The result of ConfigureMSI is not looked at.
FindXhc ==
  LET devices == found.devices
      none == Xhcs(devices) = {}
  IN  /\ SetUp("find", IF none THEN "exit" ELSE "devmgr")
      /\ xhc' = IF none THEN {} ELSE {devices[FoundXhc(devices)]}
      /\ \E capabilities \in SUBSET {"msi", "msix"} :
           msi' = (~none /\ ConfigureMSI(capabilities) = "kSuccess")
      /\ routed' = (SwitchEhci2Xhci(devices) /\ \E f \in xhc' : f.vendor = "intel")
      /\ UNCHANGED <<topology, found, pool, hcVars>>

\* DeviceManager::Initialize
DeviceManagerInitialize ==
  topology = FollowedTopology /\ SetUpAlloc("devmgr", "ownership",
    LET devices == AllocMem(pool, <<"devices_", 0>>, 1, 0, 0)
    IN  IF devices.nulls # {} THEN devices
        ELSE AllocMem(devices, <<"device_context_pointers_", 0>>, 1, 1, Page))

\* RequestHCOwnership: the loop waits for the firmware to let go.  ~bios stands
\* for all that makes it wait for nothing: no such capability or a controller
\* the system owns already, both of which return early, or no firmware that does.
RequestHCOwnership == ~bios /\ SetUpKeeping("ownership", "stop")
BiosLetsGo ==
  /\ stage = "ownership" /\ bios
  /\ bios' = FALSE
  /\ UNCHANGED <<vars, eventVars, linkVars, stage, pciVars, pool_base, pool, run_stop, halted, regs>>

\* Controller::Initialize: stop, wait for HCHalted, reset, wait for its end.
StopController ==
  SetUp("stop", "stopping") /\ run_stop' = FALSE /\ UNCHANGED <<pciVars, pool, bios, halted, regs>>
ResetController ==
  /\ halted
  /\ SetUp("stopping", "config")
  /\ regs' = {}
  /\ UNCHANGED <<pciVars, pool, bios, run_stop, halted>>
SetMaxSlots == SetUpRegs("config", "scratchpads", {"CONFIG"})

\* The array of the buffers the controller asks for, then buffer by buffer.
\* None of these pointers is tested.
AllocScratchpad(p, i) == AllocMem(p, <<"scratchpad", i>>, Page, Page, Page)
AllocScratchpadsIn(p, n) ==
  IF n = 0 THEN p
  ELSE FoldLeft(AllocScratchpad, AllocMem(p, <<"scratchpad", 0>>, 1, 1, Page), [i \in 1..n |-> i])
AllocScratchpads ==
  /\ SetUp("scratchpads", "dcbaap")
  /\ \E n \in 0..MaxScratchpads : pool' = AllocScratchpadsIn(pool, n)
  /\ UNCHANGED <<pciVars, hcVars>>
SetDCBAAP == SetUpRegs("dcbaap", "command_ring", {"DCBAAP"})

RingInitialize ==
  SetUpAlloc("command_ring", "crcr", AllocMem(pool, <<"cr_", 0>>, RingUnits, 1, Page16))
RegisterCommandRing == SetUpRegs("crcr", "event_ring", {"CRCR"})

\* EventRing::Initialize: ring and segment table, ...
EventRingInitialize ==
  SetUpAlloc("event_ring", "erst",
    LET ring == AllocMem(pool, <<"er_", 0>>, RingUnits, 1, Page16)
    IN  IF ring.nulls # pool.nulls THEN ring ELSE AllocMem(ring, <<"erst_", 0>>, 1, 1, Page16))
\* ... ERSTSZ, ERDP and, last, ERSTBA, which makes the controller read them.
RegisterEventRing == SetUpRegs("erst", "interrupter", {"ERSTSZ", "ERDP", "ERSTBA"})

EnableInterrupts == SetUpRegs("interrupter", "run", {"IMAN", "INTE"})

Run ==
  SetUp("run", "starting") /\ run_stop' = TRUE /\ UNCHANGED <<pciVars, pool, bios, halted, regs>>

\* The wait in Run; then ConfigurePort for the ports with a device.
Running == ~halted /\ SetUpKeeping("starting", "running")

\* The controller (hardware) follows the Run/Stop bit.
FollowRunStop ==
  /\ halted = run_stop
  /\ halted' = ~run_stop
  /\ UNCHANGED <<vars, eventVars, linkVars, stage, pciVars, pool_base, pool, bios, run_stop, regs>>

Initialize ==
  \/ ScanPci \/ FindXhc \/ DeviceManagerInitialize \/ RequestHCOwnership
  \/ StopController \/ ResetController \/ SetMaxSlots \/ AllocScratchpads
  \/ SetDCBAAP \/ RingInitialize \/ RegisterCommandRing
  \/ EventRingInitialize \/ RegisterEventRing \/ EnableInterrupts \/ Run \/ Running

-----------------------------------------------------------------------------
(* Commands and events.  What the rings do does not depend on where they   *)
(* are, so one placement of them is followed.                              *)

Followed == stage = "running" /\ pool_base = 0 /\ \A b \in pool.blocks : b.what # <<"scratchpad", 0>>
Works == Followed /\ ~halted /\ UNCHANGED setUpVars

\* The controller (hardware): takes commands once the doorbell has been rung
\* until the ring is empty, and posts their completions.  It pauses while the
\* event ring is full.
ExecuteCommand ==
  /\ Works /\ doorbell
  /\ Execute
  /\ ER!PostEvent(got')
  /\ UNCHANGED linkVars
PassLink == Works /\ doorbell /\ FollowLink /\ UNCHANGED <<eventVars, linkVars>>
RingEmpty ==
  /\ Works /\ doorbell /\ ~Owned
  /\ doorbell' = FALSE
  /\ UNCHANGED <<vars, eventVars, push>>
\* One port: its change bit, which the handler clears, holds back the next.
PortChanges ==
  /\ Works
  /\ PortEvent \notin Range(ER!Queue)
  /\ ER!PostEvent(PortEvent)
  /\ UNCHANGED <<vars, linkVars>>
Interrupt == Works /\ ER!RaiseInterrupt /\ UNCHANGED <<vars, linkVars>>

\* Main: ProcessEvents, on the message of the interrupt handler.
BeginEvents == Works /\ msi /\ ER!StartProcessing /\ UNCHANGED <<vars, linkVars>>
EndEvents == Works /\ ER!StopProcessing /\ UNCHANGED <<vars, linkVars>>
HandleEvent ==
  /\ Works
  /\ ER!HandleFront
  /\ push' = "may"
  /\ UNCHANGED <<vars, doorbell>>

\* A handler issues at most one command: Push, then the doorbell.  What it says
\* has no influence here, so consecutive commands are taken to differ: that is
\* enough to tell those on the way apart.
LastIssued == buf_[(IF write_index_ = 0 THEN LinkSlot ELSE write_index_) - 1].body
IssueCommand(t) ==
  /\ Works /\ epc = "pop" /\ push = "may"
  /\ t # LastIssued
  /\ PushBody(t)
  /\ push' = "due"
  /\ UNCHANGED <<eventVars, doorbell>>
ContinuePush ==
  Works /\ (PushCycle \/ LinkBody \/ LinkCycle) /\ UNCHANGED <<eventVars, linkVars>>

\* Mutant: the doorbell is not rung.
NoDoorbell ==
  /\ Works /\ pc = "idle" /\ push = "due"
  /\ push' = "done"
  /\ UNCHANGED <<vars, eventVars, doorbell>>

RingDoorbell ==
  /\ Works /\ pc = "idle" /\ push = "due"
  /\ doorbell' = TRUE
  /\ push' = "done"
  /\ UNCHANGED <<vars, eventVars>>
EndEvent ==
  /\ Works /\ pc = "idle" /\ push # "due"
  /\ ER!Pop
  /\ push' = "done"
  /\ UNCHANGED <<vars, doorbell>>

Controller == ExecuteCommand \/ PassLink \/ RingEmpty \/ Interrupt
Main == BeginEvents \/ EndEvents \/ HandleEvent \/ ContinuePush \/ RingDoorbell \/ EndEvent

\* exit(1), a controller nobody hears of, and the set-ups not followed further.
Stop ==
  /\ \/ stage = "exit"
     \/ stage = "devmgr" /\ topology # FollowedTopology
     \/ stage = "running" /\ (~Followed \/ ~msi)
  /\ UNCHANGED allVars

TransportNext ==
  \/ Initialize \/ BiosLetsGo \/ FollowRunStop
  \/ Controller \/ PortChanges
  \/ Main \/ (\E t \in TRBs : IssueCommand(t))
  \/ Stop

\* The controller works, on its command ring too however often ports change in
\* between, and main gets to run; ports change and commands are issued when it
\* pleases devices and handlers.
TransportFairness ==
  /\ SF_allVars(ExecuteCommand \/ PassLink) /\ WF_allVars(Interrupt)
  /\ WF_allVars(Main)

TransportSpec == TransportInit /\ [][TransportNext]_allVars /\ TransportFairness
-----------------------------------------------------------------------------
(* Safety *)

Stages == {"pci", "find", "devmgr", "ownership", "stop", "stopping", "config", "scratchpads",
  "dcbaap", "command_ring", "crcr", "event_ring", "erst", "interrupter", "run", "starting",
  "running", "exit"}
Registers == {"CONFIG", "DCBAAP", "CRCR", "ERSTSZ", "ERDP", "ERSTBA", "IMAN", "INTE"}

TransportTypeOK ==
  /\ stage \in Stages
  /\ topology \in Topologies
  /\ {routed, msi, bios, run_stop, halted, doorbell} \subseteq BOOLEAN
  /\ regs \subseteq Registers
  /\ push \in {"may", "due", "done"}

\* What AllocMem's description promises: blocks are aligned, in the pool, do
\* not overlap, and do not cross a boundary they could keep to.
PoolBlocks ==
  \A b \in pool.blocks :
    /\ b.alignment > 0 => b.first % b.alignment = 0
    /\ pool_base <= b.first /\ b.first + b.size <= pool_base + PoolSize
    /\ b.size <= b.boundary => b.first \div b.boundary = (b.first + b.size - 1) \div b.boundary
    /\ \A c \in pool.blocks : b # c => b.first + b.size <= c.first \/ c.first + c.size <= b.first

\* From its reset on, the controller runs only with all its registers set and
\* all its structures in memory.  Its scratchpad buffers may be missing: a
\* pool too small for them can still have room for the rings.
SetUpBeforeRun ==
  stage \in {"starting", "running"} =>
    /\ regs = Registers
    /\ \A s \in {"devices_", "device_context_pointers_", "cr_", "er_", "erst_"} :
         \E b \in pool.blocks : b.what = <<s, 0>>
    /\ \A what \in pool.nulls : what[1] = "scratchpad"
ResetWhileHalted == stage \in {"config", "scratchpads", "dcbaap", "command_ring", "crcr",
                               "event_ring", "erst", "interrupter", "run"} => halted

\* Types; the invariants of both rings; the memory pool; a controller that is
\* reset while halted and runs only when its memory and registers are set up.
TransportInv ==
  /\ TransportTypeOK /\ RingInv /\ ER!EventRingInv
  /\ PoolBlocks /\ SetUpBeforeRun /\ ResetWhileHalted

\* A scan that does not fill the table finds every function that can be
\* reached from the host bridge and no other; one that fills it stops with
\* what fits.  Where every bus has one parent each function is listed once,
\* and the table is full only if there are too many functions: a bridge
\* nobody configured leads back to bus 0 and fills it with repetitions.
PciScanComplete ==
  stage = "find" =>
    /\ Len(found.devices) <= MaxDevices
    /\ ~found.full => Range(found.devices) = Reachable(topology)
    /\ found.full => Len(found.devices) = MaxDevices /\ Range(found.devices) \subseteq Reachable(topology)
    /\ OneParent(topology) =>
         /\ found.full = (Cardinality(Reachable(topology)) > MaxDevices)
         /\ IsInjective(found.devices)

\* The controller is one that can be reached, Intel's if there is one, and the
\* ports it shares with an Intel EHC, for which there is no driver, are routed
\* to it; a full device table may hide either.
XhcChosen ==
  stage = "devmgr" =>
    LET intel(class) == \E f \in Reachable(topology) : f.class = class /\ f.vendor = "intel"
    IN  \E f \in Reachable(topology) :
          /\ xhc = {f} /\ f.class = "xhc"
          /\ ~found.full => /\ f.vendor = "intel" <=> intel("xhc")
                            /\ routed <=> intel("xhc") /\ intel("ehc")

\* The scan lists what can be reached, and the right controller is chosen
\* from its list.
PciInv == PciScanComplete /\ XhcChosen

\* Like the command ring (ImplementsFifo), the event ring is an ordered
\* channel: nothing is lost, repeated or reordered, also when the events are
\* the answers to the commands and the handlers issue the next ones.
EventRingIsFifo == ER!ImplementsFifo

(* Liveness *)

\* Where message signalled interrupts work, every command a handler issues is
\* executed and its completion gets to a handler, whatever port events crowd
\* the event ring and at whatever moment the doorbell is rung.
CommandsAnswered ==
  \A t \in TRBs : (msi /\ pc = "cycle" /\ trb = t) ~> (epc = "pop" /\ front = t)
===============================================================================
