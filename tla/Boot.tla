--------------------------------- MODULE Boot ---------------------------------
(***************************************************************************)
(* From the UEFI firmware to the first timer tick: the loader              *)
(* (UhyokoLoaderPkg/Main.c), KernelMain (kernel/asmfunc.asm) and the       *)
(* start-up half of KernelMainNewStack (kernel/main.cpp), which ends in    *)
(* the behaviour of Timers.                                                *)
(*                                                                         *)
(* Memory is a set of regions.  What matters of a region is its type in    *)
(* the firmware's memory map and what still refers to it: the kernel takes *)
(* for free whatever the map it was handed calls available, the stack, the *)
(* descriptor tables and the page tables it was started with included.     *)
(***************************************************************************)
EXTENDS Timers, Console

CONSTANTS
  Texts,           \* what may be logged, a set of sequences of characters
  MaxPrints,       \* bound on the texts logged after the welcome
  MaxKey,          \* bound on the changes of the firmware's memory map
  PmPeriod,        \* 2^24 or 2^32: where the ACPI PM timer wraps around
  WaitCounts,      \* the counts of the PM timer in 100 ms
  PollStep,        \* counts that pass at most between two reads of it
  MaxWaited        \* bound on the counts waited

\* What is written to the console.
Characters == (UNION {Range(text) : text \in Texts}) \cup {"w", NewLine}

ASSUME BootAssumption ==
  /\ Texts \subseteq Seq(Characters)
  /\ {MaxPrints, MaxKey, WaitCounts, PollStep, MaxWaited, PmPeriod} \subseteq Nat \ {0}
  /\ WaitCounts + 2 * PollStep < PmPeriod

(***************************************************************************)
(* uefi_stack: the loader's frame, with config and memmap_buf in it.       *)
(* uefi_tables: the GDT, IDT and page tables of the firmware.  file: the   *)
(* copy of kernel.elf.  spare: memory the firmware takes and gives back.   *)
(***************************************************************************)
Regions == {"uefi_stack", "uefi_tables", "file", "kernel", "volume", "acpi", "spare"}
Types == {"BootServicesData", "RuntimeServicesData", "LoaderData", "Conventional", "ACPIReclaim"}

IsAvailable(type) == type \in {"BootServicesData", "Conventional"}

VARIABLES
  stage,        \* the next step of the start-up code
  types, key,   \* the firmware's memory map and its key
  memmap,       \* the copy in memmap_buf
  refs,         \* what the processor and the kernel refer to, by region
  free,         \* the regions the memory manager takes for free
  heap_used,    \* something has been allocated and written
  con, log, prints,           \* the console, all that was logged, how often
  pm, start, target, waited   \* PM timer, and WaitMilliseconds

memoryVars == <<types, key, memmap, refs, free, heap_used>>
consoleVars == <<con, log, prints>>
waitVars == <<pm, start, target, waited>>
bootVars == <<stage, memoryVars, consoleVars, waitVars>>
allVars == <<bootVars, vars>>

Referents == {"code", "rsp", "gdtr", "idtr", "cr3", "config", "memory_map",
              "map_buffer", "writer", "acpi", "volume"}
NoRefs == [r \in Referents |-> "none"]

BootInit ==
  /\ Init
  /\ stage = "memory_map"
  /\ types = [r \in Regions |->
       CASE r \in {"uefi_stack", "uefi_tables"} -> "BootServicesData"
         [] r = "acpi" -> "ACPIReclaim"
         [] OTHER -> "Conventional"]
  /\ key = 1
  /\ memmap = [key |-> 0, types |-> types]
  /\ refs = NoRefs /\ free = {} /\ heap_used = FALSE
  /\ con = NewConsole /\ log = NoLines /\ prints = 0
  /\ pm = 0 /\ start = 0 /\ target = 0 /\ waited = 0

Goto(from, to) == stage = from /\ stage' = to /\ UNCHANGED <<vars, waitVars>>
\* A step that changes nothing of what is modelled.
Pass(from, to) == Goto(from, to) /\ UNCHANGED <<memoryVars, consoleVars>>
\* A step of the loader that changes the firmware's map.
Allocates(region, type) ==
  /\ types' = [types EXCEPT ![region] = type]
  /\ key' = key + 1
  /\ UNCHANGED <<memmap, refs, free, heap_used, consoleVars>>
\* A step of the kernel that moves a reference.
Refers(r, region) ==
  /\ refs' = [refs EXCEPT ![r] = region]
  /\ UNCHANGED <<types, key, memmap, free, heap_used, consoleVars>>

-----------------------------------------------------------------------------
(* The loader.  Any call of a boot service may fail. *)

LoaderStages == {"memory_map", "root_dir", "memmap_file", "gop", "kernel_file",
                 "kernel_pages", "free_pool", "volume", "exit", "map_again", "exit_again"}

\* The firmware (external) allocates and frees memory of its own.
Firmware ==
  /\ stage \in LoaderStages
  /\ key < MaxKey
  /\ \E type \in {"BootServicesData", "RuntimeServicesData", "Conventional"} \ {types["spare"]} :
       Allocates("spare", type)
  /\ UNCHANGED <<stage, vars, waitVars>>

\* Halt, and exit(1) in the kernel: for ever in hlt.
Fallible == (LoaderStages \ {"exit"}) \cup
            {"call_kernel", "memory_manager", "layer", "set_window", "layers", "windows", "acpi"}
Halts ==
  /\ stage \in Fallible
  /\ stage' = "halt"
  /\ UNCHANGED <<memoryVars, consoleVars, waitVars, vars>>

\* Mutant: the second call asks for the key alone.
ReadKey(from, to) ==
  /\ Goto(from, to)
  /\ memmap' = [key |-> key, types |-> IF from = "memory_map" THEN types ELSE memmap.types]
  /\ UNCHANGED <<types, key, refs, free, heap_used, consoleVars>>

GetMemoryMap(from, to) ==
  /\ Goto(from, to)
  /\ memmap' = [key |-> key, types |-> types]
  /\ UNCHANGED <<types, key, refs, free, heap_used, consoleVars>>

FirstMemoryMap == GetMemoryMap("memory_map", "root_dir")
OpenRootDir == Pass("root_dir", "memmap_file")

\* A \memmap file that cannot be opened is ignored; one that cannot be written
\* or closed is not.
SaveMemoryMap == Pass("memmap_file", "gop")

\* LocateHandleBuffer allocates, FreePool gives back: the key moves on.
OpenGOP == Goto("gop", "kernel_file") /\ Allocates("file", "Conventional")

ReadKernelFile == Goto("kernel_file", "kernel_pages") /\ Allocates("file", "LoaderData")

\* CalcLoadAddressRange, AllocatePages, CopyLoadSegments
LoadKernel == Goto("kernel_pages", "free_pool") /\ Allocates("kernel", "LoaderData")

FreeKernelFile == Goto("free_pool", "volume") /\ Allocates("file", "Conventional")

\* The file fat_disk, or else the blocks of the boot device.
ReadVolume == Goto("volume", "exit") /\ Allocates("volume", "LoaderData")

\* ExitBootServices fails unless map_key is that of the current map.
ExitBootServices(from, otherwise) ==
  Pass(from, IF memmap.key = key THEN "call_kernel" ELSE otherwise)
FirstExit == ExitBootServices("exit", "map_again")
SecondMemoryMap == GetMemoryMap("map_again", "exit_again")
SecondExit == ExitBootServices("exit_again", "halt")

\* The processor still uses the firmware's tables; config and memmap are in
\* the loader's frame.  There may be no ACPI table.  Map keys mean nothing
\* from here on.
CallKernel ==
  /\ Goto("call_kernel", "kernel_main")
  /\ \E acpi_table \in {"acpi", "none"} :
       refs' = [r \in Referents |->
         CASE r = "code" -> "kernel"
           [] r \in {"rsp", "config", "memory_map", "map_buffer"} -> "uefi_stack"
           [] r \in {"gdtr", "idtr", "cr3"} -> "uefi_tables"
           [] r = "writer" -> "none"
           [] r = "acpi" -> acpi_table
           [] r = "volume" -> "volume"]
  /\ key' = 0
  /\ memmap' = [memmap EXCEPT !.key = 0]
  /\ UNCHANGED <<types, free, heap_used, consoleVars>>

Loader ==
  \/ FirstMemoryMap \/ OpenRootDir \/ SaveMemoryMap \/ OpenGOP
  \/ ReadKernelFile \/ LoadKernel \/ FreeKernelFile \/ ReadVolume
  \/ FirstExit \/ SecondMemoryMap \/ SecondExit \/ CallKernel

-----------------------------------------------------------------------------
(* The kernel *)

\* asmfunc.asm: rsp is the end of kernel_main_stack.
KernelMain == Goto("kernel_main", "copy_map") /\ Refers("rsp", "kernel")

\* The structure is copied, its buffer stays where it is.
CopyMemoryMap == Goto("copy_map", "graphics") /\ Refers("memory_map", "none")

\* The writer keeps a reference to its argument, which is the loader's config
\* and not the copy made of it: the parameter hides the global of its name.
InitializeGraphics ==
  /\ Goto("graphics", "console")
  /\ refs' = [refs EXCEPT !["writer"] = refs["config"], !["config"] = "none"]
  /\ UNCHANGED <<types, key, memmap, free, heap_used, consoleVars>>

InitializeConsole ==
  /\ Goto("console", "welcome")
  /\ con' = SetWriter(NewConsole)
  /\ UNCHANGED <<memoryVars, log, prints>>

\* printk and Log, of what passes the log level
Writes(text) == con' = PutString(con, text) /\ log' = Logged(log, text)

Welcome ==
  /\ Goto("welcome", "segmentation")
  /\ Writes(<<"w", NewLine>>)
  /\ UNCHANGED <<memoryVars, prints>>

InitializeSegmentation == Goto("segmentation", "paging") /\ Refers("gdtr", "kernel")

\* Mutant: CR3 is not set.
PagingNoCR3 == Pass("paging", "memory_manager")

InitializePaging == Goto("paging", "memory_manager") /\ Refers("cr3", "kernel")

\* The map's buffer is read for the last time; the heap is set apart.
InitializeMemoryManager ==
  /\ Goto("memory_manager", "interrupt")
  /\ free' = {r \in Regions : IsAvailable(memmap.types[r])}
  /\ refs' = [refs EXCEPT !["map_buffer"] = "none"]
  /\ UNCHANGED <<types, key, memmap, heap_used, consoleVars>>

InitializeInterrupt == Goto("interrupt", "fat") /\ Refers("idtr", "kernel")
fatInitialize == Pass("fat", "pci")
InitializePCI == Pass("pci", "layer")

\* InitializeLayer: the first use of the heap, for the two windows; then the
\* console moves to its window and lets go of screen_writer; then the rest.
MakeWindows ==
  /\ Goto("layer", "set_window")
  /\ heap_used' = TRUE
  /\ UNCHANGED <<types, key, memmap, refs, free, consoleVars>>
ConsoleToWindow ==
  /\ Goto("set_window", "layers")
  /\ con' = SetWindow(con)
  /\ refs' = [refs EXCEPT !["writer"] = "none"]
  /\ UNCHANGED <<types, key, memmap, free, heap_used, log, prints>>
MakeLayers == Pass("layers", "windows")

\* InitializeMainWindow, InitializeTextWindow and the first Draw
MakeTopWindows == Pass("windows", "acpi")

\* acpi::Initialize: without a valid RSDP, XSDT or FADT it exits.
acpiInitialize == refs["acpi"] = "acpi" /\ Pass("acpi", "lapic")

\* Any step may log once the console exists.
Logging ==
  /\ stage \in {"segmentation", "memory_manager", "pci", "layers", "windows", "acpi", "lapic"}
  /\ prints < MaxPrints
  /\ prints' = prints + 1
  /\ \E text \in Texts : Writes(text)
  /\ UNCHANGED <<stage, memoryVars, waitVars, vars>>

Kernel ==
  \/ KernelMain \/ CopyMemoryMap \/ InitializeGraphics
  \/ InitializeConsole \/ Welcome \/ Logging
  \/ InitializeSegmentation \/ InitializePaging \/ InitializeMemoryManager
  \/ InitializeInterrupt \/ fatInitialize \/ InitializePCI
  \/ MakeWindows \/ ConsoleToWindow \/ MakeLayers \/ MakeTopWindows
  \/ acpiInitialize

-----------------------------------------------------------------------------
(* InitializeLAPICTimer: the LAPIC timer is measured against the PM timer. *)

BeginWait ==
  /\ stage = "lapic"
  /\ \E now \in 0..(PmPeriod - 1) :
       /\ pm' = now /\ start' = now
       /\ target' = (now + WaitCounts) % PmPeriod
       /\ stage' = IF target' < now THEN "wait_wrap" ELSE "wait_end"
  /\ waited' = 0
  /\ UNCHANGED <<memoryVars, consoleVars, vars>>

\* Time passes until the next read; then the two loops of WaitMilliseconds.
Poll ==
  /\ stage \in {"wait_wrap", "wait_end"}
  /\ \E d \in 0..PollStep :
       /\ waited + d <= MaxWaited
       /\ pm' = (pm + d) % PmPeriod
       /\ waited' = waited + d
  /\ stage' = CASE stage = "wait_wrap" -> IF pm' >= start THEN "wait_wrap" ELSE "wait_end"
                [] stage = "wait_end"  -> IF pm' < target THEN "wait_end" ELSE "run"
  /\ UNCHANGED <<memoryVars, consoleVars, start, target, vars>>

\* The timers run.  What they do depends on nothing that came before, so they
\* are followed after one of the ways to get here only.
Followed == prints = 0 /\ start = 0 /\ waited = WaitCounts /\ types["spare"] = "Conventional"
TimersRun == stage = "run" /\ Followed /\ Next /\ UNCHANGED bootVars

\* The hlt of Halt and _exit, and the ends of what is modelled.
Stop ==
  /\ \/ stage = "halt"
     \/ stage = "run" /\ ~Followed
  /\ UNCHANGED allVars

BootNext == Firmware \/ Halts \/ Loader \/ Kernel \/ BeginWait \/ Poll \/ TimersRun \/ Stop

BootSpec == BootInit /\ [][BootNext]_allVars
-----------------------------------------------------------------------------
(* Safety *)

KernelStages == {"kernel_main", "copy_map", "graphics", "console", "welcome",
  "segmentation", "paging", "memory_manager", "interrupt", "fat", "pci", "layer",
  "set_window", "layers", "windows", "acpi", "lapic", "wait_wrap", "wait_end", "run"}

BootTypeOK ==
  /\ stage \in LoaderStages \cup KernelStages \cup {"call_kernel", "halt"}
  /\ types \in [Regions -> Types] /\ memmap.types \in [Regions -> Types]
  /\ key \in 0..(MaxKey + 6) /\ memmap.key \in 0..(MaxKey + 6)
  /\ refs \in [Referents -> Regions \cup {"none"}]
  /\ free \subseteq Regions /\ heap_used \in BOOLEAN
  /\ prints \in 0..MaxPrints
  /\ {pm, start, target} \subseteq 0..(PmPeriod - 1) /\ waited \in 0..MaxWaited

\* The map the kernel is handed is the firmware's last one: the loader's own
\* allocations since the first GetMemoryMap are in it, and whatever the
\* firmware did meanwhile; otherwise the loader halts.
MapIsCurrent == stage \in KernelStages => memmap.types = types

\* WaitMilliseconds never returns early, wherever the PM timer wraps around,
\* and late by at most two polls.  The exception is an end so close to the
\* wrap-around that the polls can step over it: then it waits another period.
WaitIsExact ==
  stage = "run" => /\ waited >= WaitCounts
                   /\ target <= PmPeriod - PollStep => waited < WaitCounts + 2 * PollStep

\* Types; the kernel's map is current; the LAPIC timer is measured over the
\* time it should be.
BootInv == BootTypeOK /\ MapIsCurrent /\ WaitIsExact

\* Once the heap is in use, nothing the processor or the kernel still refers
\* to lies in memory the memory manager takes for free: the stack, GDT, IDT,
\* page tables and memory map of the firmware have been left behind by then,
\* and the kernel, the volume and the ACPI tables are not available memory.
\* The exception is the configuration screen_writer refers to, from the first
\* allocation to SetWindow: nothing is logged there unless memory runs out.
RefsIntact ==
  heap_used => \A r \in Referents : refs[r] \in free => r = "writer" /\ stage \in {"set_window", "halt"}

\* Across the change from frame buffer to window, and however it scrolls in
\* either, the console shows the last lines logged, each cut off at its width.
ConsoleShowsTail == ShowsEndOf(con, log)

===============================================================================
