-------------------------------- MODULE Kernel --------------------------------
(***************************************************************************)
(* The running system: the main task (KernelMainNewStack), the terminal    *)
(* task (TaskTerminal) and the idle task on one processor, the timer and   *)
(* xHCI interrupts that may arrive between any two steps while the         *)
(* interrupt flag is set, and the messages they exchange through           *)
(* TaskManager.                                                            *)
(*                                                                         *)
(* A step of a task is a stretch of code in which only its first shared    *)
(* access matters, or a cli ... sti section around one operation; the      *)
(* sections that hold more than one operation are several steps, with      *)
(* iflag clear between them.  Handlers run with interrupts masked (they    *)
(* are interrupt gates) and are one step, the SwitchTask at the end of the *)
(* timer handler included.                                                 *)
(*                                                                         *)
(* Time is abstract: an armed timer may expire at any tick (Timers.tla has *)
(* the tick arithmetic).  Windows and layers are abstracted to who is      *)
(* using them; Layers.tla has the layer stack.                             *)
(***************************************************************************)
EXTENDS Integers, Sequences

CONSTANTS
  kMaxLevel, kDefaultLevel,  \* as in TaskManager
  MaxEvents,        \* bound on the events the xHC ever posts
  MaxTimeouts       \* bound on the expiries of the cursor timer

\* Main's level is above that of the tasks it creates.
ASSUME KernelAssumption ==
  /\ kMaxLevel \in Nat
  /\ kDefaultLevel \in 0..(kMaxLevel - 1)
  /\ MaxEvents \in Nat
  /\ MaxTimeouts \in Nat

\* Message::Type; src_task is meaningful in a kLayer message only.
MessageTypes ==
  {"kInterruptXHCI", "kTimerTimeout", "kKeyPush", "kLayer", "kLayerFinish"}
Message == [type : MessageTypes, src_task : 0..3]
Msg(type) == [type |-> type, src_task |-> 0]
NoMsg == Msg("none")  \* std::nullopt, or msg is not in scope

Main == 1
Idle == 2
Terminal == 3
Tasks == {Main, Idle, Terminal}

\* The layers a key press can be addressed to; 0 is "no active layer".
MainWindowLayer == 3
TextWindowLayer == 4
TerminalLayer == 6

VARIABLES
  tm,           \* the TaskManager
  pc,           \* where each task is
  iflag,        \* RFLAGS.IF of each task: live for the task on the CPU, saved
                \* in its context (or interrupt frame) for the others
  msg,          \* the local variable msg of each task
  cursor_timers,\* cursor timers in timer_manager->timers_
  mouse_layer,  \* active_layer->SetMouseLayer has been called
  active,       \* active_layer->active_layer_
  terminal_mapped, \* layer_task_map holds the terminal's layer
  ring,         \* the primary event ring: what the events stand for
  ehb, msi,     \* the xHC's Event Handler Busy bit; interrupt pending
  xhc_running,  \* usb::xhci::Initialize has started the controller
  base,         \* length of main's msgs_ read by an unfinished push_back
  raced,        \* a handler has sent to main during such a push_back
  events, timeouts \* how often the environment has acted (for the bounds)

taskVars == <<pc, iflag, msg>>
screenVars == <<mouse_layer, active, terminal_mapped>>
xhcVars == <<ring, ehb, msi, xhc_running>>
envVars == <<events, timeouts>>
raceVars == <<base, raced>>
vars == <<tm, taskVars, cursor_timers, screenVars, xhcVars, raceVars, envVars>>

TM == INSTANCE TaskManager WITH
        MaxTasks <- 3, Messages <- Message, MaxMessages <- 0

At(t, label) == tm.cpu = t /\ pc[t] = label
Goto(t, label) == pc' = [pc EXCEPT ![t] = label]
SetIF(t, on) == iflag' = [iflag EXCEPT ![t] = on]

-----------------------------------------------------------------------------
(* Interrupts.  A task that is preempted in a handler resumes with the IF  *)
(* of its interrupt frame, so iflag of the interrupted task stays as it is.*)

InterruptsEnabled == iflag[tm.cpu]

\* LAPICTimerOnInterrupt: Tick sends the message of an expired cursor timer,
\* then, after the EOI, an expired task timer switches tasks.
TimerInterrupt(cursor, task) ==
  /\ InterruptsEnabled
  /\ cursor \/ task
  /\ cursor => cursor_timers > 0 /\ timeouts < MaxTimeouts
  /\ LET ticked == IF cursor THEN TM!SendMessage(tm, Main, Msg("kTimerTimeout")) ELSE tm
     IN  tm' = IF task THEN TM!SwitchTask(ticked, FALSE) ELSE ticked
  /\ cursor_timers' = IF cursor THEN cursor_timers - 1 ELSE cursor_timers
  /\ timeouts' = IF cursor THEN timeouts + 1 ELSE timeouts
  /\ UNCHANGED <<taskVars, screenVars, xhcVars, raceVars, events>>

TaskSwitchInterrupt == \E cursor \in BOOLEAN : TimerInterrupt(cursor, TRUE)

\* IntHandlerXHCI
XHCIInterrupt ==
  /\ InterruptsEnabled
  /\ msi
  /\ msi' = FALSE
  /\ tm' = TM!SendMessage(tm, Main, Msg("kInterruptXHCI"))
  /\ UNCHANGED <<taskVars, cursor_timers, screenVars, ring, ehb, xhc_running, raceVars, envVars>>

-----------------------------------------------------------------------------
(* The xHC (hardware): it posts events, and raises an interrupt for a      *)
(* non-empty event ring unless EHB says that software is at work on it.    *)

PostEvent(e) ==
  /\ xhc_running
  /\ events < MaxEvents
  /\ ring' = Append(ring, e)
  /\ events' = events + 1
  /\ UNCHANGED <<tm, taskVars, cursor_timers, screenVars, ehb, msi, xhc_running, raceVars, timeouts>>

RaiseMSI ==
  /\ ring # <<>> /\ ~ehb
  /\ ehb' = TRUE
  /\ msi' = TRUE
  /\ UNCHANGED <<tm, taskVars, cursor_timers, screenVars, ring, xhc_running, raceVars, envVars>>

-----------------------------------------------------------------------------
(* The main task *)

MainStep(from, to) == At(Main, from) /\ Goto(Main, to)

\* NewTask().InitContext(TaskTerminal, 0).Wakeup() runs with interrupts enabled.
\* It is two steps, not one for each access: the only handler of that moment,
\* the timer's, sends to main and requeues main, alone on the highest level, and
\* never looks at the new task or at its level's queue.
MainNewTask ==
  /\ MainStep("new_task", "wakeup")
  /\ tm' = TM!NewTask(tm)
  /\ UNCHANGED <<iflag, msg, cursor_timers, screenVars, xhcVars, raceVars, envVars>>

\* Mutant: the terminal is put on main's level.
WakeupTerminalHigh ==
  /\ MainStep("wakeup", "init_xhci")
  /\ tm' = TM!Wakeup(tm, Terminal, kMaxLevel)
  /\ UNCHANGED <<iflag, msg, cursor_timers, screenVars, xhcVars, raceVars, envVars>>

MainWakeupTerminal ==
  /\ MainStep("wakeup", "init_xhci")
  /\ tm' = TM!Wakeup(tm, Terminal, -1)
  /\ UNCHANGED <<iflag, msg, cursor_timers, screenVars, xhcVars, raceVars, envVars>>

\* usb::xhci::Initialize and InitializeKeyboard
MainInitXHCI ==
  /\ MainStep("init_xhci", "init_mouse")
  /\ xhc_running' = TRUE
  /\ UNCHANGED <<tm, iflag, msg, cursor_timers, screenVars, ring, ehb, msi, raceVars, envVars>>

MainInitMouse ==
  /\ MainStep("init_mouse", "draw")
  /\ mouse_layer' = TRUE
  /\ UNCHANGED <<tm, iflag, msg, cursor_timers, active, terminal_mapped, xhcVars, raceVars, envVars>>

\* Mutant: no cli before ReceiveMessage and Sleep.
MainDrawNoCli ==
  /\ MainStep("draw", "receive")
  /\ msg' = [msg EXCEPT ![Main] = NoMsg]
  /\ UNCHANGED <<tm, iflag, cursor_timers, screenVars, xhcVars, raceVars, envVars>>

\* The head of the loop draws the counter (interrupts enabled), then masks;
\* the msg of the round before is out of scope.
MainDraw ==
  /\ MainStep("draw", "receive")
  /\ SetIF(Main, FALSE)
  /\ msg' = [msg EXCEPT ![Main] = NoMsg]
  /\ UNCHANGED <<tm, cursor_timers, screenVars, xhcVars, raceVars, envVars>>

MainReceive ==
  /\ At(Main, "receive")
  /\ tm' = TM!ReceiveMessage(tm, Main)
  /\ IF tm.msgs[Main] = <<>>
     THEN Goto(Main, "sleep") /\ UNCHANGED msg
     ELSE Goto(Main, "dispatch") /\ msg' = [msg EXCEPT ![Main] = Head(tm.msgs[Main])]
  /\ UNCHANGED <<iflag, cursor_timers, screenVars, xhcVars, raceVars, envVars>>

\* Mutant: main yields without leaving the running state.
MainSleepKeepsFlag ==
  /\ MainStep("sleep", "awake")
  /\ tm' = TM!SwitchTask(tm, TRUE)
  /\ UNCHANGED <<iflag, msg, cursor_timers, screenVars, xhcVars, raceVars, envVars>>

MainSleep ==
  /\ MainStep("sleep", "awake")
  /\ tm' = TM!Sleep(tm, Main)
  /\ UNCHANGED <<iflag, msg, cursor_timers, screenVars, xhcVars, raceVars, envVars>>

\* Sleep returns when main is scheduled again; sti; continue
MainAwake ==
  /\ MainStep("awake", "draw")
  /\ SetIF(Main, TRUE)
  /\ UNCHANGED <<tm, msg, cursor_timers, screenVars, xhcVars, raceVars, envVars>>

\* sti, then the switch on msg->type; its default branch only logs.
MainDispatch ==
  /\ MainStep("dispatch", CASE msg[Main].type = "kInterruptXHCI" -> "events"
                            [] msg[Main].type = "kTimerTimeout"  -> "rearm"
                            [] msg[Main].type = "kKeyPush"       -> "key"
                            [] msg[Main].type = "kLayer"         -> "layer"
                            [] OTHER                             -> "draw")
  /\ SetIF(Main, TRUE)
  /\ UNCHANGED <<tm, msg, cursor_timers, screenVars, xhcVars, raceVars, envVars>>

\* ProcessEvents: until HasFront is false, dispatch on the front event.
MainProcessEvents ==
  /\ MainStep("events", IF ring = <<>> THEN "draw" ELSE Head(ring))
  /\ UNCHANGED <<tm, iflag, msg, cursor_timers, screenVars, xhcVars, raceVars, envVars>>

\* An event that neither types nor clicks (a port change, a command).
MainOtherEvent ==
  /\ MainStep("other_event", "pop")
  /\ UNCHANGED <<tm, iflag, msg, cursor_timers, screenVars, xhcVars, raceVars, envVars>>

\* Mutant: whatever is hit is activated, the background too.
MouseActivatesAnything ==
  /\ MainStep("mouse_event", "pop")
  /\ active' \in {1, MainWindowLayer}
  /\ UNCHANGED <<tm, iflag, msg, cursor_timers, mouse_layer, terminal_mapped, xhcVars, raceVars, envVars>>

\* Mouse::OnInterrupt moves the cursor; a press also activates what is hit.
MainMouseEvent ==
  /\ MainStep("mouse_event", "pop")
  /\ \/ UNCHANGED active
     \/ \E hit \in {0, MainWindowLayer, TextWindowLayer} \cup (IF terminal_mapped THEN {TerminalLayer} ELSE {}) :
          active' = hit
  /\ UNCHANGED <<tm, iflag, msg, cursor_timers, mouse_layer, terminal_mapped, xhcVars, raceVars, envVars>>

\* The keyboard observer calls SendMessage(1, msg) with interrupts enabled.
\* Main is running, so all that remains of it is push_back on main's msgs_,
\* which reads the end of the deque first,
MainObserverBegin ==
  /\ MainStep("key_event", "push_back")
  /\ base' = Len(tm.msgs[Main])
  /\ UNCHANGED <<tm, iflag, msg, cursor_timers, screenVars, xhcVars, raced, envVars>>

\* writes the element there, and stores the size.  If a handler has appended
\* in between, its element is overwritten, and the size is either the stale
\* one plus one, or the new one plus one, which makes the slot after the last
\* element, whatever it holds, a message.
MainObserverEnd ==
  /\ MainStep("push_back", "pop")
  /\ LET q       == tm.msgs[Main]
         written == Append(SubSeq(q, 1, base), Msg("kKeyPush"))
     IN  /\ raced' = (raced \/ Len(q) > base)
         /\ \/ tm' = [tm EXCEPT !.msgs[Main] = written]
            \/ /\ Len(q) > base
               /\ \E junk \in {Msg(ty) : ty \in MessageTypes} :
                    tm' = [tm EXCEPT !.msgs[Main] =
                             written \o SubSeq(q, base + 2, Len(q)) \o <<junk>>]
  /\ base' = 0
  /\ UNCHANGED <<iflag, msg, cursor_timers, screenVars, xhcVars, envVars>>

\* Mutant: the write of ERDP leaves EHB set.
MainPopKeepsEHB ==
  /\ MainStep("pop", "events")
  /\ ring' = Tail(ring)
  /\ UNCHANGED <<tm, iflag, msg, cursor_timers, screenVars, ehb, msi, xhc_running, raceVars, envVars>>

\* EventRing::Pop advances the dequeue pointer; writing ERDP clears EHB.
MainPop ==
  /\ MainStep("pop", "events")
  /\ ring' = Tail(ring)
  /\ ehb' = FALSE
  /\ UNCHANGED <<tm, iflag, msg, cursor_timers, screenVars, msi, xhc_running, raceVars, envVars>>

\* Mutant: the cursor timer is not registered again.
MainForgetsRearm ==
  /\ MainStep("rearm", "draw_cursor")
  /\ UNCHANGED <<tm, iflag, msg, cursor_timers, screenVars, xhcVars, raceVars, envVars>>

\* cli; AddTimer; sti
MainRearm ==
  /\ MainStep("rearm", "draw_cursor")
  /\ cursor_timers' = cursor_timers + 1
  /\ UNCHANGED <<tm, iflag, msg, screenVars, xhcVars, raceVars, envVars>>

MainDrawCursor ==
  /\ MainStep("draw_cursor", "forward")
  /\ UNCHANGED <<tm, iflag, msg, cursor_timers, screenVars, xhcVars, raceVars, envVars>>

\* cli; SendMessage(task_terminal_id, *msg); sti
MainForward ==
  /\ MainStep("forward", "draw")
  /\ tm' = TM!SendMessage(tm, Terminal, msg[Main])
  /\ UNCHANGED <<iflag, msg, cursor_timers, screenVars, xhcVars, raceVars, envVars>>

\* A key goes to the text window, to the task of the active layer, or nowhere.
MainKey ==
  /\ MainStep("key", IF active = TextWindowLayer THEN "input_text"
                     ELSE IF active = TerminalLayer /\ terminal_mapped THEN "forward"
                     ELSE "draw")
  /\ UNCHANGED <<tm, iflag, msg, cursor_timers, screenVars, xhcVars, raceVars, envVars>>

\* InputTextWindow, then the loop again.
MainInputText ==
  /\ MainStep("input_text", "draw")
  /\ UNCHANGED <<tm, iflag, msg, cursor_timers, screenVars, xhcVars, raceVars, envVars>>

\* ProcessLayerMessage, then cli; SendMessage(msg->src_task, kLayerFinish); sti
MainLayer ==
  /\ MainStep("layer", "finish")
  /\ UNCHANGED <<tm, iflag, msg, cursor_timers, screenVars, xhcVars, raceVars, envVars>>

MainFinish ==
  /\ MainStep("finish", "draw")
  /\ tm' = TM!SendMessage(tm, msg[Main].src_task, Msg("kLayerFinish"))
  /\ UNCHANGED <<iflag, msg, cursor_timers, screenVars, xhcVars, raceVars, envVars>>

MainNext ==
  \/ MainNewTask \/ MainWakeupTerminal \/ MainInitXHCI \/ MainInitMouse
  \/ MainDraw \/ MainReceive \/ MainSleep \/ MainAwake \/ MainDispatch
  \/ MainProcessEvents \/ MainOtherEvent \/ MainMouseEvent
  \/ MainObserverBegin \/ MainObserverEnd \/ MainPop
  \/ MainRearm \/ MainDrawCursor \/ MainForward
  \/ MainKey \/ MainInputText \/ MainLayer \/ MainFinish

-----------------------------------------------------------------------------
(* The terminal task *)

TerminalStep(from, to) == At(Terminal, from) /\ Goto(Terminal, to)

\* Mutant: the set-up runs with interrupts enabled.
TerminalStartNoCli ==
  /\ TerminalStep("start", "create")
  /\ UNCHANGED <<tm, iflag, msg, cursor_timers, screenVars, xhcVars, raceVars, envVars>>

\* TaskTerminal begins with cli.
TerminalStart ==
  /\ TerminalStep("start", "create")
  /\ SetIF(Terminal, FALSE)
  /\ UNCHANGED <<tm, msg, cursor_timers, screenVars, xhcVars, raceVars, envVars>>

\* new Terminal, and Move of its layer
TerminalCreate ==
  /\ TerminalStep("create", "activate")
  /\ UNCHANGED <<tm, iflag, msg, cursor_timers, screenVars, xhcVars, raceVars, envVars>>

TerminalActivate ==
  /\ TerminalStep("activate", "map")
  /\ active' = TerminalLayer
  /\ UNCHANGED <<tm, iflag, msg, cursor_timers, mouse_layer, terminal_mapped, xhcVars, raceVars, envVars>>

TerminalMap ==
  /\ TerminalStep("map", "awake")
  /\ terminal_mapped' = TRUE
  /\ UNCHANGED <<tm, iflag, msg, cursor_timers, mouse_layer, active, xhcVars, raceVars, envVars>>

\* sti, at the end of the set-up and after Sleep returns
TerminalAwake ==
  /\ TerminalStep("awake", "loop")
  /\ SetIF(Terminal, TRUE)
  /\ UNCHANGED <<tm, msg, cursor_timers, screenVars, xhcVars, raceVars, envVars>>

TerminalLoop ==
  /\ TerminalStep("loop", "receive")
  /\ SetIF(Terminal, FALSE)
  /\ msg' = [msg EXCEPT ![Terminal] = NoMsg]
  /\ UNCHANGED <<tm, cursor_timers, screenVars, xhcVars, raceVars, envVars>>

\* The switch on msg->type follows with interrupts still masked; its default
\* branch (kLayerFinish) returns to the loop with them masked.
TerminalReceive ==
  /\ At(Terminal, "receive")
  /\ tm' = TM!ReceiveMessage(tm, Terminal)
  /\ IF tm.msgs[Terminal] = <<>>
     THEN Goto(Terminal, "sleep") /\ UNCHANGED msg
     ELSE LET m == Head(tm.msgs[Terminal])
          IN  /\ msg' = [msg EXCEPT ![Terminal] = m]
              /\ Goto(Terminal, IF m.type \in {"kTimerTimeout", "kKeyPush"}
                                THEN "handle" ELSE "loop")
  /\ UNCHANGED <<iflag, cursor_timers, screenVars, xhcVars, raceVars, envVars>>

TerminalSleep ==
  /\ TerminalStep("sleep", "awake")
  /\ tm' = TM!Sleep(tm, Terminal)
  /\ UNCHANGED <<iflag, msg, cursor_timers, screenVars, xhcVars, raceVars, envVars>>

\* BlinkCursor or InputKey writes the terminal's window.
TerminalHandle ==
  /\ TerminalStep("handle", "reply")
  /\ UNCHANGED <<tm, iflag, msg, cursor_timers, screenVars, xhcVars, raceVars, envVars>>

\* cli; SendMessage(1, the kLayer message); sti
TerminalReply ==
  /\ TerminalStep("reply", "loop")
  /\ tm' = TM!SendMessage(tm, Main, [type |-> "kLayer", src_task |-> Terminal])
  /\ SetIF(Terminal, TRUE)
  /\ UNCHANGED <<msg, cursor_timers, screenVars, xhcVars, raceVars, envVars>>

TerminalNext ==
  \/ TerminalStart \/ TerminalCreate \/ TerminalActivate \/ TerminalMap
  \/ TerminalAwake \/ TerminalLoop \/ TerminalReceive \/ TerminalSleep
  \/ TerminalHandle \/ TerminalReply

-----------------------------------------------------------------------------
\* After InitializeTask: the cursor timer and the task timer are armed and
\* interrupts are enabled.  TaskIdle only executes hlt.
Init ==
  /\ tm = TM!InitialState
  /\ pc = [t \in Tasks |-> CASE t = Main -> "new_task"
                             [] t = Idle -> "hlt"
                             [] OTHER -> "start"]
  /\ iflag = [t \in Tasks |-> TRUE]
  /\ msg = [t \in Tasks |-> NoMsg]
  /\ cursor_timers = 1
  /\ mouse_layer = FALSE /\ active = 0 /\ terminal_mapped = FALSE
  /\ ring = <<>> /\ ehb = FALSE /\ msi = FALSE /\ xhc_running = FALSE
  /\ base = 0 /\ raced = FALSE
  /\ events = 0 /\ timeouts = 0

Next ==
  \/ MainNext
  \/ TerminalNext
  \/ \E cursor, task \in BOOLEAN : TimerInterrupt(cursor, task)
  \/ XHCIInterrupt
  \/ RaiseMSI
  \/ \E e \in {"key_event", "mouse_event", "other_event"} : PostEvent(e)

\* The task on the CPU executes; a pending interrupt is taken when the
\* interrupt flag is set again and again; the hardware raises its interrupt.
Fairness ==
  /\ WF_vars(MainNext \/ TerminalNext)
  /\ WF_vars(RaiseMSI)
  /\ SF_vars(XHCIInterrupt)
  /\ SF_vars(TaskSwitchInterrupt)

Spec == Init /\ [][Next]_vars
FairSpec == Spec /\ Fairness
-----------------------------------------------------------------------------
(* Safety *)

\* The places a task can be at: main's start-up, the events and messages it
\* handles, and the stretches either task executes with interrupts masked.
StartLabels == {"new_task", "wakeup", "init_xhci", "init_mouse"}
EventLabels == {"key_event", "mouse_event", "other_event", "push_back", "pop"}
MsgLabels == {"dispatch", "rearm", "draw_cursor", "forward", "key", "layer", "finish"}
MaskedMain == {"receive", "sleep", "awake", "dispatch"}
MaskedTerminal == {"create", "activate", "map", "awake", "receive", "sleep", "handle", "reply"}
MainLabels ==
  StartLabels \cup EventLabels \cup MsgLabels \cup MaskedMain \cup {"draw", "events", "input_text"}
TerminalLabels == MaskedTerminal \cup {"start", "loop"}

\* Every variable keeps its type.
TypeOK ==
  /\ tm \in TM!TaskManagerState
  /\ pc \in [Tasks -> MainLabels \cup TerminalLabels \cup {"hlt"}]
  /\ iflag \in [Tasks -> BOOLEAN]
  /\ msg \in [Tasks -> Message \cup {NoMsg}]
  /\ cursor_timers \in Nat
  /\ mouse_layer \in BOOLEAN /\ active \in {0, MainWindowLayer, TextWindowLayer, TerminalLayer}
  /\ terminal_mapped \in BOOLEAN
  /\ ring \in Seq({"key_event", "mouse_event", "other_event"})
  /\ ehb \in BOOLEAN /\ msi \in BOOLEAN /\ xhc_running \in BOOLEAN
  /\ base \in Nat /\ raced \in BOOLEAN
  /\ events \in 0..MaxEvents /\ timeouts \in 0..MaxTimeouts

\* The run queues, the task on the CPU and the priorities stay consistent
\* although handlers and tasks call the manager at any point interrupts allow,
\* and main gives up the CPU in Sleep only: whenever another task runs, main
\* is inside its call of Sleep.  Everything main does to shared structures
\* with interrupts enabled rests on this.
KernelInv ==
  /\ TypeOK
  /\ TM!SchedulerInv(tm)
  /\ tm.cpu # Main => pc[Main] = "awake"

\* No lost wakeup: a task that is asleep has no message waiting.  The check
\* for a message and Sleep are two calls; cli must cover both.
AsleepOnlyWithoutMail ==
  \A t \in {Main, Terminal} : ~tm.running[t] => tm.msgs[t] = <<>>

\* layer_manager, active_layer, layer_task_map and the windows are used by
\* main with interrupts enabled and by the terminal under cli, with no lock:
\* the two are never both in (or stopped in the middle of) such a section.
MainUsesScreen ==
  pc[Main] \in {"init_mouse", "draw", "mouse_event", "draw_cursor", "key", "input_text", "layer"}
TerminalUsesScreen == pc[Terminal] \in {"create", "activate", "map", "handle"}
ScreenExclusive == ~(MainUsesScreen /\ TerminalUsesScreen)

\* The start-up steps of the two tasks happen in the order they need.  Activate
\* places a layer just below the mouse layer, and hides it when no mouse layer
\* is known: the terminal activates itself only after main has set it.  And a
\* key pressed while the terminal's layer is active finds the terminal in
\* layer_task_map: main never sees the one without the other.
StartUpOrdered ==
  /\ pc[Terminal] = "activate" => mouse_layer
  /\ (tm.cpu = Main /\ active = TerminalLayer) => terminal_mapped

\* The half-second cursor timer is re-armed by the handler of its own message
\* and is never lost nor doubled: it is in the timer queue, or its message is
\* in main's queue, or main is about to re-arm it.  (Once an unprotected
\* push_back has raced, its message may be overwritten, and the chain ends.)
PendingTimeouts ==
  {k \in 1..Len(tm.msgs[Main]) : tm.msgs[Main][k].type = "kTimerTimeout"}
CursorTimerChain ==
  LET queued   == IF PendingTimeouts = {} THEN 0 ELSE 1
      handling == IF \/ pc[Main] = "rearm"
                     \/ pc[Main] = "dispatch" /\ msg[Main].type = "kTimerTimeout"
                  THEN 1 ELSE 0
  IN  ~raced => /\ \A j, k \in PendingTimeouts : j = k
                /\ cursor_timers + queued + handling = 1

\* SendMessage "adds a message to message queue" and ReceiveMessage takes the
\* first one: a message queue changes in no other way, so no message that was
\* sent disappears or changes before it is received.
FifoStep ==
  \A t \in Tasks :
    LET q == tm.msgs[t]  qq == tm'.msgs[t]
    IN  \/ qq = q
        \/ q # <<>> /\ qq = Tail(q)
        \/ Len(qq) = Len(q) + 1 /\ SubSeq(qq, 1, Len(q)) = q
QueuesAreFifo == [][FifoStep]_tm

\* The observer's race is the only way in which a message queue is damaged:
\* in every other interleaving of tasks and handlers the queues are queues.
OnlyRaceDamagesQueues == [][raced' \/ FifoStep]_tm

(* Liveness *)

\* Every message is eventually taken from its queue by the task it was sent
\* to: main and the terminal are woken, scheduled, and drain their queues.
MailIsRead == \A t \in {Main, Terminal} : tm.msgs[t] # <<>> ~> tm.msgs[t] = <<>>

\* No event stays on the event ring: either main's ProcessEvents sees it
\* before it stops, or the xHC raises another interrupt for it.
EventsAreProcessed == ring # <<>> ~> ring = <<>>
===============================================================================
