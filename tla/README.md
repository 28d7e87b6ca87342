# A TLA+ model of UhyokOS

UhyokOS is a small x86-64 operating system: a UEFI loader and a kernel with a
preemptive priority scheduler, logical timers, a bitmap allocator of physical
memory, a layered window system, an xHCI driver with HID keyboards and mice, and
a terminal. There is one processor, and no lock anywhere: what keeps shared
structures consistent is `cli`/`sti`, the priority of the main task, and the
order in which hardware and software write shared memory. Nothing in the
repository tests any of this. The modules here model the parts where that
matters, from the loader to the terminal; TLC checks them on small instances, and
TLAPS proves almost all of their safety properties for instances of any size
(section 6).

All paths below are relative to the repository; `kernel/` is `src/kernel/`.

## 1. Inventory

| Component | State it keeps | Operations | Why it is hard | What makes it correct |
|---|---|---|---|---|
| Task manager (`kernel/task.cpp`) | run queue per level, `current_level_`, `level_changed_`; per task a level, a running flag, a message queue, a saved context | `SwitchTask`, `Sleep`, `Wakeup`, `ChangeLevelRunning`, `SendMessage`, `ReceiveMessage`, `NewTask` | flag, level and queue are updated by separate statements; the search for a higher level is skipped unless a flag says otherwise; `SwitchTask` trusts that the front of the queue is the task that was running | flags, levels and queues agree; the CPU belongs to the front; the highest level runs; nobody starves |
| Main loop and interrupts (`kernel/main.cpp`, `interrupt.cpp`, `keyboard.cpp`) | the main task's queue, the interrupt flag, the active layer, `layer_task_map` | one handler per message type; timer and xHCI handlers | interrupts arrive between any two instructions while enabled; two tasks use the same windows without a lock | no lost wakeup, no lost message, no overlapping use of the screen, start-up order |
| Terminal task (`kernel/terminal.cpp`) | cursor, line buffer, history, the text in its window | `InputKey`, `BlinkCursor`, `Print`, `Scroll1`, `HistoryUpDown`, `ExecuteLine`, and its message loop | editor, cursor and window are kept in step by hand; the screen follows only through areas sent to main | what Enter executes is what is shown; every change reaches the screen; the history holds the last lines |
| Timers (`kernel/timer.cpp`) | tick, priority queue with a sentinel | `AddTimer`, `Tick`, the handler | several timers at one tick, timers added with a timeout already past, self re-registration | on time, in order, one task timer, no drift |
| Memory manager (`kernel/memory_manager.cpp`), `sbrk` | bitmap of 64-bit lines, range, heap block, program break | the boot loop, `Allocate`, `Free`, `MarkAllocated`, `sbrk` | any memory map the firmware likes; bit arithmetic at the edges | only available memory, disjoint blocks, first fit |
| Layers, windows, mouse (`kernel/layer.cpp`, `window.cpp`, `frame_buffer.cpp`, `mouse.cpp`) | layer stack, positions, back buffer, frame buffer, active layer, drag | `Draw` (three forms), `Move`, `MoveRelative`, `UpDown`, `Hide`, `Activate`, `OnInterrupt` | everything is redrawn partially | the screen shows the stack |
| xHCI rings (`kernel/usb/xhci/ring.cpp`) | slots, cycle bits, indices | `Push`; `HasFront`, `Pop` | memory shared with a device that reads and writes at any time | an ordered channel; nothing left behind |
| xHCI ports (`kernel/usb/xhci/xhci.cpp`) | phase per port, `addressing_port`, slots | three `OnEvent` handlers, the boot loop | devices come and go during the protocol, commands fail, events are stale | one port at a time, phases in order, everyone served |
| USB device and HID drivers (`kernel/usb/device.cpp`, `usb/xhci/device.cpp`, `usb/classdriver/`) | initialisation phase, two small maps, endpoint configurations, report buffers | completions of control and interrupt transfers | a chain of callbacks over maps that drop what does not fit; a buffer the controller writes by itself | completions find their requests; one poll; each key once |
| xHCI start-up (`kernel/usb/xhci/xhci.cpp`), memory pool (`kernel/usb/memory.cpp`), device manager | registers, device table, a bump pointer | `xhci::Initialize`, `Controller::Initialize`, `Run`, `AllocMem` | busy waits on hardware, placement constraints, results nobody looks at | the controller runs only when set up; blocks in the pool, aligned, disjoint |
| PCI (`kernel/pci.cpp`) | table of 32 devices | `ScanAllBus` and its recursion, `ConfigureMSI` | topology is data: bridges, multi-function devices, unconfigured bridges | everything that can be reached is listed, the right controller is chosen |
| Loader (`UhyokoLoaderPkg/Main.c`), kernel start-up, ACPI | memory map and key, what still refers to firmware memory, PM timer | boot services, `KernelMainNewStack`, `WaitMilliseconds` | the memory the kernel is started in counts as free memory | the map is current; nothing in use is handed out; the wait survives the wrap-around |
| Console and logger (`kernel/console.cpp`) | text buffer, cursor, mode | `PutString`, `Newline`, `SetWindow` | two ways of scrolling, one of which leaves the buffer stale | the last lines are shown |
| Paging, segments, FAT, fonts, pixel writers, build tools | written once, or output only | sequential | - | partly or not modelled, section 8 |

How they interact. The timer handler calls `Tick`, which sends messages to task 1
through the task manager and then switches tasks. The xHCI handler sends
`kInterruptXHCI` to task 1. The main task receives it and runs
`usb::xhci::ProcessEvents`, inside which port handling, device set-up and the HID
drivers run, inside which the keyboard observer sends `kKeyPush` to task 1 and the
mouse observer moves layers. Main forwards keys and cursor timeouts to the task of
the active layer, the terminal, which draws in its window and asks main with
`kLayer` to copy it to the screen; main answers `kLayerFinish`. Before all that
the loader hands the kernel a memory map and a pointer to its own frame, the kernel
moves itself out of the firmware's memory step by step, scans the PCI buses, and
gives the controller it finds its memory and registers.

## 2. Modules

| Module | Models | Notes |
|---|---|---|
| `TaskManager` | `kernel/task.cpp` | each operation is a function from manager state to manager state, so that a handler is a composition of calls; `cpu` is the task whose registers are loaded |
| `Kernel` | `main.cpp`, `TaskTerminal`, the handlers, the observers | uses `TaskManager`'s functions through `INSTANCE`; the interrupt flag is per task, since it is saved with the context |
| `Terminal`, `MCTerminal` | `terminal.cpp`, `fat::ReadName` | a cell of the window is the set of glyphs drawn over its background, so that a missing fill is seen; the screen is a second copy, brought up to date by the areas main reads |
| `Timers` | `timer.cpp` and the re-registration in `main.cpp` | the steps of `Tick`'s loop; a history (`id`, `added`) tells timers apart |
| `Console` | `console.cpp` | operators on one console, and the log it should show the end of |
| `Boot`, `MCBoot` | `Main.c`, `KernelMain`, the start-up half of `main.cpp`, `acpi.cpp` | extends `Timers` and `Console`; memory is a set of regions, with its type in the firmware's map and what refers to it; ends in the steps of `Timers` |
| `FrameAllocator` | abstract | a first-fit allocator in one step |
| `BitmapMemoryManager` | `memory_manager.cpp`, `sbrk` | the boot loop one descriptor per step, the search one bit per step; refines `FrameAllocator` |
| `Layers`, `MCLayers` | `layer.cpp`, `mouse.cpp`, `DrawTo`, `Copy`, rectangle operators | a pixel is the window that painted it and whether its title was active |
| `Fifo` | abstract | an ordered channel of bounded capacity |
| `Ring` | `class Ring` | a push stores the body and then the word with the cycle bit; the controller may look in between; refines `Fifo` |
| `EventRing` | `class EventRing`, `ProcessEvents` | ERDP, EHB and the interrupt; refines `Fifo` |
| `Pci` | `pci.cpp` | the scan as a recursive function over a topology, and the set it should find |
| `Transport`, `MCTransport` | `xhci::Initialize`, `Controller::Initialize`, `Run`, `memory.cpp`, and the two rings together | extends `Ring` and `Pci` and instantiates `EventRing`: the events are completions of the commands and port changes, the handlers of events issue the commands |
| `XhciPorts` | the port protocol of `xhci.cpp` | the controller, plugging, unplugging and failing commands are actions of their own |
| `UsbDevice`, `MCUsbDevice` | `usb/device.cpp`, `usb/xhci/device.cpp`, HID drivers | from the end of Address Device to the reports; the loop that configures the class drivers is one step per endpoint (`todo` holds those left), since each may issue a request |
| `TaskManagerProofs`, `KernelProofs`, `BootProofs`, `TransportProofs`, `XhciPortsProofs`, `UsbDeviceProofs`, `WindowProofs` | - | theorems and proofs (section 6) |
| `Induction` | - | induction over numbers, and what it gives for folds |

Variables and definitions keep the names of the code. `PROJECT.json` maps each
definition to its lines. Definitions marked *Mutant* are altered forms of the
definition that follows them; no specification uses them. They exist to show that
each property notices a mistake of that kind.

Granularity. Handlers run with interrupts masked (the gates are interrupt gates),
so a handler is one step in `Kernel`. A task's step is one shared access, or one
operation inside `cli`...`sti`; a masked section with several operations is
several steps with `iflag` clear. Two places work on a shared structure with
interrupts enabled. The keyboard observer's `SendMessage` is two steps (read the end
of the deque; write the element and the size), and what an interrupt between them
does is finding 1. When main creates the terminal task (`main.cpp:151-153`),
`NewTask` with `InitContext` is one step and `Wakeup` another: the xHC's interrupts
come later (`InitializeXHCI`), and the timer's handler looks neither at `tasks_`
beyond task 1 nor, since no second task is on main's level, at anything `Wakeup`
changes before it has put the task into its queue. In `Ring`
and `UsbDevice`, where the other side is a device, each store that the device can
observe is a step.

What is external: the xHC's behaviour (posting events, EHB, following link TRBs,
executing commands, resetting ports, transferring reports) and the firmware's (its
own allocations, the hand-over of the controller) are modelled from what the code
relies on and marked external in the map.

## 3. Runs

States are distinct states with the configurations in this directory.

| Run | States | What it shows |
|---|---|---|
| `scheduler` | 16 624 | `Inv`: flags, levels, queues, CPU, `level_changed_` and idle task agree in every order of calls. `DispatchesHighest`: whoever gets the CPU is on the highest runnable level. `RoundRobin`: once levels have settled, each runnable task of the top level runs again and again |
| `kernel` | 215 452 | `KernelInv` (the scheduler's invariant under interrupts; main gives up the CPU in `Sleep` only), `AsleepOnlyWithoutMail` (no lost wakeup), `ScreenExclusive`, `StartUpOrdered`, `CursorTimerChain`, `OnlyRaceDamagesQueues`, and the liveness of messages (`MailIsRead`) and xHC events (`EventsAreProcessed`) |
| `keyboard_race` | violation | finding 1 below |
| `boot` | 89 955 | from the loader's first call to the timers. `BootInv`: the kernel is handed the firmware's current memory map or the loader halts, and `WaitMilliseconds` waits at least its time wherever the PM timer wraps. `RefsIntact`: once the heap is used, nothing still referred to lies in memory that counts as free. `ConsoleShowsTail`: the console shows the last lines across the change of its mode. `TimersInv` (sentinel, exactly one task timer due within a period, a cursor timer that does not drift), `ExpiresOnTime` |
| `bitmap` | 153 117 | for every memory map of up to three descriptors in any order, up to the last bit of the bitmap: `OnlyAvailableIsFree`, `FramesAccounted` (blocks are disjoint, and for sorted maps no frame is lost), `FailsOnlyWhenFull`, `BitmapInv` (bounds, the loop invariant of the search, the program break), and `ImplementsFirstFit` |
| `bitmap_overflow` | violation | finding 2 |
| `layers` | 12 965 | `ScreenShowsStack` after every partial redraw, `WindowsInv` (stack, active title, cursor and drag agree), `PressRaises`, `DragKeepsOffset` |
| `transport` | 152 146 | for every topology of nine PCI functions on three buses: `PciInv` (the scan lists what can be reached, and the controller taken is the right one). For every place of the memory pool, number of scratchpads and state of the firmware: `TransportInv` (reset while halted, running only with its structures in memory and its registers set; blocks aligned, disjoint, within boundaries; cycle bits mark exactly the slots in flight, `HasFront` is exact, the front stays until `Pop`). Then commands and events: `ImplementsFifo` (command ring), `EventRingIsFifo`, and `CommandsAnswered`: with MSI every command is executed and its completion handled |
| `ports` | 340 311 | `PortsInv` (one port between reset and address, one slot per port, few enough commands in flight for the ring), `PhaseOrder`, and, unless something was unplugged or failed, `EveryPortConfigured`: each connected port whose device has a HID boot interface gets to `kConfigured`, any other to `kInitializingDevice`, where the code leaves it for ever, without holding up the rest |
| `ports_stuck` | violation | finding 3 |
| `usb_device` | 2 962 | `UsbInv` (every completion finds its request although the maps are small and the ring wraps around), `OnePoll`, `KeysSeenOnce`, `StartsPolling` |
| `terminal` | 492 623 | `TerminalInv`: what Enter would execute stands right before the cursor, with the prompt and nothing else in front of it unless a backspace has erased this line's prompt, and no cursor is left behind. `ScreenCatchesUp`: the areas on their way to main cover every cell where the screen is behind the window. `HistoryKeepsLines` |

Every property has a mutant of the code that violates it under the same
configuration.

### Findings

1. **The keyboard observer sends without masking interrupts**
   (`kernel/keyboard.cpp:67`). It runs in the main task, inside `ProcessEvents`,
   with interrupts enabled; every other `SendMessage` from a task is between `cli`
   and `sti`. A timer or xHCI interrupt in the middle of its `push_back` on main's
   queue loses a message or makes an unwritten slot one (`QueuesAreFifo`). `kernel`
   shows that this is the only way in which a queue is damaged, and what it costs:
   a lost cursor timeout stops the blinking for ever (`CursorTimerChain` needs
   `~raced`), while nothing deadlocks.
2. **The boot loop indexes beyond the bitmap** (`kernel/memory_manager.cpp:109`).
   `MarkAllocated` is not clipped to `kFrameCount`, so a memory map that describes
   anything above 128 GiB, a device window for instance, writes past
   `alloc_map_`.
3. **A port removed at the wrong moment blocks the others**
   (`kernel/usb/xhci/xhci.cpp:122`). If the device disappears between the reset of
   its port and the handling of the reset event, `EnableSlot` does nothing and
   `addressing_port` stays taken; ports in `kWaitingAddressed` wait for ever, unless
   a device is plugged into that port again and enabled without a reset (as USB 3
   ports do), so that `EnableSlot` can go on. The loop at line 258 has a second way
   into such a state: it breaks after the first waiting port even if that one was
   unplugged meanwhile, and the others wait until it is plugged in again.

Observations that no document contradicts, seen while modelling:

- the terminal's first `Activate` puts its window one below the top, and a click
  on a window that is already active does not raise it (early return), so it can
  stay partly covered until another window is activated; `PressRaises` is stated
  for presses that change the active window;
- `LayerManager::Draw(id)` of a layer that is not in the stack copies an
  uninitialised rectangle; the copy is from the back buffer and is clipped, so
  nothing visible changes;
- a ring is safe with at most `buf_size_ - 2` blocks in flight, one less than its
  slots suggest: the push that ends a lap rewrites the link TRB. `RingAssumption`
  states the bound and `PortsInv` shows that the command ring keeps it;
- a failed Enable Slot completes with slot 0, which is then allocated and
  addressed like any other: `LoadDCBAA(0)` replaces the scratchpad pointer;
- `event_waiters_` is never emptied, `SetProtocol` is sent once per endpoint
  number, and a report that fails ends the polling;
- a task that stays runnable can starve while other tasks of its level keep
  having their level changed, since `ChangeLevelRunning` re-appends; nothing in the
  kernel does so;
- a backspace on an empty line erases the prompt (`terminal.cpp:73` looks at the
  cursor only). A typed line then starts in column 0, a recalled one in column 1,
  and `HistoryUpDown` neither clears nor redraws column 0: after a backspace, an `e`
  and a recalled `c` the row reads `ec`, and Enter executes `c`. So `LineIsShown` says
  no more than that the line stands right before the cursor; `PromptIsShown` adds the
  prompt in front of it and holds for every line whose prompt was not erased;
- the first line entered calls `pop_back` on an empty deque (`terminal.cpp:53`).
  That is undefined; with the libraries at hand the line is lost or kept, and
  nothing else happens;
- `screen_writer` keeps a reference to the loader's configuration, not to the copy
  (`graphics.cpp:116`, where the parameter hides the global). It lies in memory that
  counts as free from `InitializeMemoryManager` on, and is used between the first
  allocation and `SetWindow` only if memory runs out there;
- the loader calls `Print` after `ExitBootServices` for a pixel format it does not
  know (`Main.c:485`); it halts right after;
- `WaitMilliseconds` waits a whole period of the PM timer more if its end is so
  close to the wrap-around that the polling steps over it (`WaitIsExact`);
- the results of `ConfigureMSI` and `ReadBar` are not looked at: a controller that
  has MSI-X only is started and never heard of. The scratchpad pointers are not
  tested: a controller may be started with null ones;
- `AllocMem` moves its pointer even when it fails, and `FreeMem` frees nothing, so
  that plugging devices again and again uses up the pool; `AllocDevice` then
  constructs a device at a null pointer (`devmgr.cpp:79`);
- a device without a HID boot interface gets an address and then stays in
  `kInitializingDevice` (`xhci.cpp:223`, `device.cpp:238-240`): nothing tells it from
  one that is still being set up;
- a PCI bridge that nobody configured reports bus 0 behind it: the scan goes round
  until the table is full (`PciScanComplete` excludes such topologies only from
  "listed once").

## 4. Bounds

- `scheduler`: three levels, four tasks, one kind of message, one message per
  queue. Two ordinary tasks besides main and idle are needed for two tasks to
  share a level that is neither; a third level for "above", "at" and "below" to
  differ. The theorem removes the bound.
- `kernel`: the real levels; the three tasks there are; two xHC events and two
  cursor expiries, so that a second interrupt arrives while the first is being
  handled. Events are keys, mouse reports or neither.
- `boot`: the firmware changes its map up to a key of 7, enough for a change between
  any two calls of the loader; the console has two rows of two characters and up to three
  texts are logged at any of seven moments, one of them longer than a row; the PM
  timer wraps at 16 and is polled at least every two counts, from every start (the
  wait and two polls together must be shorter than the period, `BootAssumption`: 100 ms
  are 357 954 counts of at least 2^24). The
  timers have the periods 2 and 3 for 2 and 50, so that they coincide at tick 6; two
  other timers, one already past when it is added; eight ticks. They are followed
  after one of the ways through the start-up (`Followed`): nothing in them depends
  on the others.
- `bitmap`: the heap grows and shrinks (`Increments`): `sbrk` has no check downwards, and
  `malloc` is assumed to give back no more than it has taken. Six frames in lines of three bits, so a block can straddle a line and
  end at the last bit; three descriptors, the fewest that can be listed with a hole
  and out of order; requests of one and two frames. `bitmap_overflow` lets the map
  describe ten frames for eight bits.
- `layers`: six layers as the kernel creates them on a screen of three by two
  pixels; windows overlap each other and the edge, the cursor has a transparent
  pixel, displacements go beyond the screen. The areas a task may ask main to draw
  (`DrawAreas`) are the whole window, parts of it, one that sticks out of it and an
  empty one.
- `transport`: nine candidate functions make 384 topologies, with two host bridges
  to choose from, bridges behind bridges, an unconfigured one, Intel and other
  controllers; the table holds five devices, so that it overflows. The pool is 20
  units with pages of 4, at five places around its boundaries, with up to four
  scratchpads, so that any allocation may be the one that fails. Beyond the set-up,
  one topology and one placement are followed. The command ring has four slots and
  two blocks in flight, the event ring three slots; all positions of both sides in
  both cycle states are reached. Consecutive commands differ, which tells apart
  those on the way: nothing depends on what a command says.
- `ports`: three ports (one addressed, two waiting), the device of one of them without a
  HID boot interface, one plugging or unplugging after boot, any command may fail. Two
  changes also pass, in more than four minutes; one is kept so that the run is short, and the
  theorems of section 6 are for any number.
- `usb_device`: four descriptors (one and two endpoints, a supported interface
  behind an unsupported one, none); maps of one and two entries instead of four and
  sixteen, so that they fill up; a control ring of five slots instead of 31, so that it
  wraps around twice during the set-up; three reports.

- `terminal`: two rows of four columns, a history of two lines, six keys or blinks
  (three lines of one character, the fewest that push one out of the history), two
  areas on their way to main. The commands have names of one character.

`XhciPorts`, `UsbDevice` and `Terminal` do not check for deadlock: with nobody
plugging or typing the system is quiet, and the number of keys is bounded. The
scheduler, the kernel, the start-up with its timers, the allocator, the windows and
the transport must always have a next step, and the check is on; where the code
halts (`Halt`, `exit(1)`) or a path is not followed further, a `Stop` action says so.

## 5. Fairness

- `TaskManager`: weak fairness of `Switch`: the task timer re-registers itself
  (`TimersInv` shows that it cannot stop).
- `Kernel`: weak fairness of the steps of main and the terminal together (the processor
  executes the task it has loaded), weak fairness of the controller's interrupt
  (it is raised when EHB is clear and the ring is not empty), and strong fairness of
  taking the xHCI and the timer interrupt: tasks mask and unmask interrupts in
  turn, and a pending interrupt is taken at an `sti`.
- `Transport`: weak fairness of the controller's interrupt and of main in
  `ProcessEvents`; strong fairness of the controller's work on its command ring,
  which can be interrupted by a full event ring again and again but goes on
  whenever there is room. No fairness of port changes or of issuing commands.
- `UsbDevice`, `XhciPorts`: weak fairness of the controller's
  execution and of the driver's handler, never of plugging, failing or sending.
  That the handler gets to run is what `EventsAreProcessed` shows of `Kernel`.

`Timers` assumes that boot is short (`BootIsShort`): between the registration of
the cursor timer and the creation of the task manager fewer than 50 ticks pass.
`Tick` would otherwise use a null `task_manager`. This is about real time and is
assumed.

## 6. Proofs

Every theorem is for every value of the constants that satisfies the module's named
assumption, which TLC evaluates in the runs. In each proof module the inductive
invariant comes first, then one lemma per action (`...Preserves` or `...OK`), the step
lemma, and the theorems. The invariants were checked with TLC before they were proved.

### Scheduler: `TaskManagerProofs`

For every `kMaxLevel`, `kDefaultLevel`, number of tasks
and set of messages (`LevelAssumption`, `BoundAssumption`: the default level is a
level, and there are at least the two tasks the constructor makes):

- `SchedulerInvariant`: `Spec => []Inv`;
- `RunQueues`, `CpuOwnsFront`, `Priorities`, `TypeCorrect`: its readable parts;
- `HighestIsDispatched`: `Spec => DispatchesHighest`.

The properties one cares about are not inductive alone. That the CPU belongs to
the front of the current level needs, after a `Sleep` of the last task of a level,
that some queue is not empty; that rests on the idle task being marked running and
on "marked running" meaning "in the queue of its level"; keeping that under
`Erase`, which removes one occurrence, needs that no queue holds a task twice. And
that `SwitchTask` may skip the search needs that a clear `level_changed_` means
nothing above. `SchedulerInv` is the conjunction of these.

The argument is about the operations as functions. `AppendProps`, `TailProps`,
`ConsProps`, `EraseProps` and `FrontProps` say what the deque operations do to
membership, repetition and the front; `HighestLevelProps` that the loop of
`SwitchTask` finds the highest level (by well-foundedness of the naturals);
`DispatchEstablishes` that loading the front of that level makes the state
consistent, whatever queue operation went before. Then there is one lemma per
operation, with a step for each case of the code, and one for the constructor.

### Kernel: `KernelProofs`

`KernelInvariant`, `NoLostWakeup`, `ScreenIsExclusive`, `StartUpIsOrdered`,
`CursorTimerSurvives` and `QueuesAreQueues`, for any number of events and expiries.
`KernelAssumption` asks that main's level be above the terminal's and the idle
task's, as `main.cpp` sets it. `Kernel` calls the scheduler's functions, so the module
instantiates `TaskManagerProofs` (as `TMP`) and takes the lemmas on the operations
from there; a first layer of lemmas turns each operation into who is on the CPU, who is
runnable and what the message queues hold.

What makes the properties inductive is mostly `Stopped` and `Masked`. Main is off the
CPU only in `Sleep`, since it alone has the highest level, and sleeps outside its
drawing code; the terminal is off the CPU in `Sleep` or where its interrupts are
enabled, which the code between its `cli` and `sti` is not. Together they are why
the windows are used by one task at a time. `NoneBeforeSleep` (between its check
and `Sleep` a task has no message) gives `AsleepOnlyWithoutMail`.

### Start-up and timers: `BootProofs`

`TimersInvariant` and `TimersExpireOnTime` are about `Timers` alone, for all periods
and timeouts; `BootTimersInvariant` and `BootTimersExpireOnTime` say the same of
`BootSpec`, whose other steps leave the timers alone. The invariant follows
the loop of `Tick` from inside: while it runs a timer may be due now, and never
overdue; the cursor timer is one token that is in the queue of timers or in main's queue.

`BootInvariant` (`BootSpec => []BootInv`) rests on two invariants:

- `WaitOK`: in the first loop of `WaitMilliseconds` the PM timer has not wrapped since
  `start`; in the second the time left is what the registers suggest, or the timer has
  stepped over an end close to the wrap-around, or the first loop has
  overslept the end by less than a poll. With `BootAssumption`'s former bound of one
  poll the proof fails, and rightly: with a period of 11, a wait of 2 and polls of 8
  counts the first loop can oversleep the end and the second loop's first read come after
  another wrap-around. The bound is two polls now, which the hardware leaves far behind.
- `MemoryOK`: the copy of the map is at most as new as the firmware's and equal if the
  keys are; each loader allocation is `LoaderData` from its step on; each reference is
  out of the firmware's memory from one stage on.

`RefsStayIntact` (`BootSpec => []RefsIntact`) follows from `MemoryOK`: what
`InitializeMemoryManager` takes for free is disjoint from the kernel, the volume and the
ACPI tables because the map is current, and only the writer is left when the heap is
first used.

`ConsoleIsTail` (`BootSpec => []ConsoleShowsTail`): `ConsoleHeld` says how the console
follows the log (`Follows`): the rows are its last lines, the cursor is behind the last one,
and without a window `buffer_` says the same. A text is put on the console by a fold
over its characters. `FoldSteps` (below) turns the fold into its intermediate consoles, and
each character, a line that wraps and a scroll in either mode preserve `Follows`.

### Memory manager: `BootProofs`

`BitmapInvariant`, `FreeIsAvailable`, `EveryFrameAccounted`, `AllocateFailsRightly` and
`BitmapRefinesFirstFit`, for bitmaps, lines, maps, heaps and requests of any size. They
assume `MapFitsBitmap`: no descriptor ends beyond the last bit. Without it
`BitmapInBounds` is false, which `bitmap_overflow` (finding 2) shows.
`SetBitsBits` says what `SetBit` over a range does to the bit of one frame (by
`DivMod`: a frame is its line and its bit). The boot loop's invariant is about the frames below
`available_end` and the descriptors read so far; the search's (`SearchInvariant`, which the
run checks) is about the starts it has passed over. In the refinement the last iteration
of a search is the allocation and every other step of it stutters.

### Rings, set-up, memory pool and PCI: `TransportProofs`

`RingInvariant` and `RingRefinesFifo`, for every number of slots and up to
`buf_size_ - 2` blocks in flight (`RingAssumption`); `EventRingInvariant` and
`EventRingRefinesFifo` for every number of slots (`EventRingAssumption`, an explicit
hypothesis since `Transport` instantiates the module). The cycle bit at one position is
not inductive: the invariant has the cycle bit of every slot relative to the writer's
position, and where the two sides are relative to one another (the same lap, or one
apart). The refinement mapping is the sequence of slots from reader to writer; the
lemmas say that a push appends to it and a pop takes its head, across the end of the
lap.

`CommandsInOrder` and `EventsInOrder` say the same of `TransportSpec`, in which both rings
are set up first and then drive each other: its steps are steps of each ring or leave it
alone.

`TransportInvariant` (`TransportSpec => []TransportInv`), for a pool of any size at any
place, any page size, any number of scratchpads and any topology. `CeilIs` and `PlacedIs` say
where `AllocMem` puts a block, and from them `AllocMemIs` that a pool of aligned, disjoint blocks
below `alloc_ptr` stays one, whether the call succeeds or fails; `ScratchpadsAre` takes that
through the loop of the scratchpads. What is inductive is `SetUpHeld`: `MemoryHeld` (at each
stage, which structures have a block, and that no pointer but a scratchpad's is null, since a
null one ends in `exit(1)`) and `RegistersHeld` (which registers are set, and when the
controller is halted).

`PciInvariant` (`TransportSpec => []PciInv`) is for any finite set of functions with
one function at a place and bus numbers in range (`IsTopology`), any size of the table, and
bridges that lead anywhere, back to the host or in a circle too. `MaxFn <= MaxBus`
(`PciAssumption`) is 7 against 255: the functions of the host bridge are bus numbers. The
argument:

- A recursive definition says nothing before it has a solution. Each call lists a device before
  it recurses, so what `ScanBus` makes of a table depends on longer tables only:
  `SolveOneMore` extends a solution for tables of more than `n` entries to those of `n`, and
  `SolutionExists` goes down from a full table to the empty one.
- A call of `ScanBus` has a contract. `Pre`: the table lists only what can be reached, and the
  bus can be reached. `Post`: what was listed stays, only what can be reached was added and,
  unless the table is full, all of the bus and of every bus behind a bridge it has added.
  `Mid` is the same inside the loops, up to a device and a function. Where every bus has one
  parent, all three also say that nothing is listed twice and that what a call adds is on
  its bus or behind a bridge it added before. `FunctionStepKeeps`, `DeviceStepKeeps` and `BusKeeps` carry
  it through the loops, `ScanKeeps` through the recursion, again from longer tables to shorter
  ones; `RootStepKeeps` is the loop over the host bridge's functions.
- A table that is not full then lists a set of buses that is `Closed`, and what can be reached is
  on the least such set (`AllListed`). Where every bus has one parent, no bus is
  entered twice, so no function is listed twice, and the length of the list is the number of
  functions.

### Ports: `XhciPortsProofs`

`PortsInvariant` and `PhasesInOrder`, for any number of ports and of connections and
removals, with and without failing commands. That one port at a time is addressed needs
to be said of what is on its way: each Enable Slot or Address Device command, and each
of their completions, is `addressing_port`'s, which is in the phase that waits for it,
and there is one in all. That the command ring has room is a counting argument:
commands and completions under way are at most the ports in a phase that waits for
one; `CountAppend`, `CountTail` and their like keep the books.

### USB devices: `UsbDeviceProofs`

`UsbInvariant`, `PollingIsSingle` and `KeysAnnouncedOnce`, for any sizes of the maps and of
the transfer ring, and every configuration descriptor that satisfies `UsbAssumption`:

- a supported interface has an IN endpoint;
- no interface has more endpoint numbers than `setup_stage_map_` has entries, and twice
  their number is less than the slots of the ring, since each may cost a request of two blocks.
  There are 15 numbers, 16 entries and 31 slots, so this is true of every descriptor;
- no interface has more endpoints than `ep_configs_` has entries, 16. This is assumed of the
  device: `device.cpp:227` writes without a check, and a descriptor that repeats endpoints
  could list more.

`Put` drops an entry
silently when a map is full, so what has to be shown is that it never is:
the set-up has one request at a time under way, and while the class drivers are
configured the entries of the map and the endpoints in `todo` together are no more than
the map holds. The keys of the map are addresses of TRBs, which the ring uses again after
a lap (`Place`). A completion finds the request it belongs to because the blocks that are
still needed, those of the requests not yet completed, are never more than a lap: the blocks
of the requests under way and of the endpoints in `todo` fit the ring together, so neither
their keys nor their TRBs (`ring`) are overwritten. A
transfer that fails leaves its entry behind, but also halts the pipe, so no later request
meets it. One poll at a time is an exclusive choice:
a transfer is asked for, on its way back, being handled, or the pipe is halted.

### Windows and terminal: `WindowProofs`

`WindowsAgree`, `ScreenIsTheStack`, `PressRaisesWindow` and `DragKeepsTheOffset`, for a
screen of any size and windows of any size and place. `WindowsAgree` does not say where in
the stack the active window is: it is below another one after the terminal's first `Activate`.
`PressRaisesWindow` is about presses that change the active window; one on the active window
raises nothing, as `ActiveLayer::Activate` returns early. A partial redraw is right for a reason
with three parts: drawing the layers from one of them up, over an area, leaves in that
area of the back buffer what is topmost from there up, or what was there; what was there
is right because it was right before the move, outside of the areas the layer left and
entered; and the copy takes exactly the area. The order of the stack enters through the
topmost layer at a pixel: moving a layer in the stack changes it inside that layer's
area only.

`LineIsWhatIsShown`, `ScreenFollowsWindow` and `HistoryIsKept`, for windows, lines and
histories of any length. The invariant `TerminalIInv` has three parts. `WindowHeld`: the row
of the cursor shows the line right before the cursor and the prompt before the line, the rest
of it is blank, and no other cell has a cursor.
`HistoryHeld`: the index points into the history, which holds the last lines entered.
`ScreenHeld`: a cell where the screen differs from the window is in an area on its way to main.
Each key and each command is a sequence of prints, erasures and scrolls, and a
lemma for each says what it does to a window of which the three parts hold. Where a
backspace has erased the prompt, column 0 is left out of `WindowHeld` (`Gap`) until Enter
starts the next line with a prompt again.

### Folds: `Induction`

The library's induction theorems take an operator as a parameter, which the provers at hand
cannot instantiate. `LeastNatural` derives the least element of a set of numbers from the
well-foundedness of their order, and `CountUp` from it induction over a set in place of an
operator. With it `FoldSteps` shows that the function by which `FoldLeft` is defined
exists, and turns a fold into the sequence of its intermediate results. That is how the loops over
texts (`Console`, `Terminal`), layers (`Layers`), scratchpads (`Transport`) and the functions and devices of a bus (`Pci`) are
followed.

### Only model-checked

- Liveness (`RoundRobin`, `MailIsRead`, `EventsAreProcessed`, `CommandsAnswered`,
  `EveryPortConfigured`, `StartsPolling`): fairness is out of the prover's reach.
- Deadlock freedom, which would need `ENABLED`.

## 7. Plan

All components whose own logic can be checked are modelled, and the invariants and
safety properties of the runs that pass are proved for every value of the constants. Left:
`BootIsShort` of `Timers` from a bound on the steps of the start-up, if somebody measures
them.

## 8. Not modelled

- Register, TRB and descriptor formats beyond the fields that control decisions;
  BAR addresses and the PCI capability list; descriptor bits of segments, the
  entries of the identity map; signatures and checksums of ACPI tables; ELF
  segment arithmetic in the loader; cluster addresses of the FAT volume: encodings,
  read or written once.
- Formatting of log texts and the log level; fonts, pixel formats, window
  decorations: output.
- USB configuration descriptors that are cut short, after which the endpoint loop
  of `usb/device.cpp:221` would go on with a null pointer, or that list more than 16
  endpoints for an interface: `UsbDevice` takes complete ones that fit `ep_configs_`.
- UEFI memory maps with overlapping descriptors, which the UEFI specification excludes.
- `malloc`: newlib's, not in the repository. A handler's `SendMessage` may need a new
  block of a deque while the interrupted task is inside `malloc`, and `NewTask`
  may grow `tasks_` while a handler looks up task 1 in it; both are below the grain
  of `Kernel`.
- `FindByPort`, `FindByState` and `Remove` of the device manager, the control and
  interrupt transfers that return `kNotImplemented`, `ArrayQueue` and the allocator
  template of `usb/memory.hpp`: no caller.
- The makefiles, build scripts and the font converter.

## 9. Running

    tlc -workers 2 -config TaskManager.cfg TaskManager
    tlapm BootProofs.tla

`PROJECT.json` lists the module and the configuration of each run.
