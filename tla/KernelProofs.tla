----------------------------- MODULE KernelProofs -----------------------------
(***************************************************************************)
(* Proofs about Kernel, for any number of events and expiries and any      *)
(* levels with main's above the others.  The scheduler is used through     *)
(* TaskManagerProofs, instantiated as Kernel instantiates TaskManager: the *)
(* first part turns each operation of the manager into the few facts the   *)
(* rest needs (who is on the CPU, who runs, what the queues hold); from    *)
(* there on the run queues are not looked at again.                        *)
(***************************************************************************)
EXTENDS Kernel, SequenceTheorems, TLAPS

TMP == INSTANCE TaskManagerProofs WITH
         MaxTasks <- 3, Messages <- Message, MaxMessages <- 0

-----------------------------------------------------------------------------
(* The inductive invariant *)

\* Nobody ever changes a level: main's is the highest and only main has it.
Levelled(s) ==
  s.level[Main] = kMaxLevel /\ s.level[Idle] = 0 /\ s.level[Terminal] = kDefaultLevel

\* The tasks are where their code lets them be, and exist when they are named.
ControlOK ==
  /\ pc[Main] \in MainLabels /\ pc[Terminal] \in TerminalLabels /\ pc[Idle] = "hlt"
  /\ tm.latest_id_ = IF pc[Main] = "new_task" THEN 2 ELSE 3

\* Where a task that is not on the CPU can have been stopped: main in Sleep,
\* the terminal in Sleep or where its interrupts are enabled.
Stopped ==
  /\ tm.cpu # Main => pc[Main] = "awake"
  /\ tm.cpu # Terminal => pc[Terminal] \in {"start", "loop", "awake"}

\* cli and sti bracket what they are meant to bracket.
Masked ==
  /\ pc[Main] \in MaskedMain => ~iflag[Main]
  /\ pc[Terminal] \in MaskedTerminal => ~iflag[Terminal]

\* Between the check for a message and Sleep none arrives.
NoneBeforeSleep ==
  \A t \in {Main, Terminal} : pc[t] = "sleep" => tm.msgs[t] = <<>>

\* What main's code relies on where it is: a message to handle, an event on
\* the ring, the end of the deque it has read.
InScope ==
  /\ pc[Main] \in MsgLabels => msg[Main] \in Message
  /\ pc[Main] \in EventLabels => ring # <<>>
  /\ pc[Main] = "push_back" => base <= Len(tm.msgs[Main])

\* Main sets the mouse layer before it first gives up the CPU.
MouseFirst == pc[Main] \notin StartLabels => mouse_layer

\* The terminal's layer is active before it is mapped only within the
\* terminal's own masked section.
ActiveMapped == active = TerminalLayer => terminal_mapped \/ pc[Terminal] = "map"

IInv ==
  /\ TypeOK /\ TM!SchedulerInv(tm)
  /\ Levelled(tm) /\ ControlOK /\ Stopped /\ Masked
  /\ AsleepOnlyWithoutMail /\ NoneBeforeSleep
  /\ InScope /\ MouseFirst /\ ActiveMapped
  /\ CursorTimerChain
-----------------------------------------------------------------------------
(* What the scheduler's operations do, as far as the kernel can tell *)

\* TaskManager's assumptions hold of its instance.
LEMMA Assumptions == TMP!LevelAssumption /\ TMP!BoundAssumption
BY KernelAssumption DEF TMP!LevelAssumption, TMP!BoundAssumption

\* The two instances are the same definitions.
LEMMA SameInv == \A s : TM!SchedulerInv(s) <=> TMP!SchedulerInv(s)
BY DEF TM!SchedulerInv, TMP!SchedulerInv, TM!TaskManagerState, TMP!TaskManagerState,
   TM!Levels, TMP!Levels, TM!TaskIds, TMP!TaskIds, TM!IdleTask, TMP!IdleTask,
   TM!QueuedIffRunning, TMP!QueuedIffRunning, TM!QueuedOnce, TMP!QueuedOnce,
   TM!CpuIsFront, TMP!CpuIsFront, TM!IdleRuns, TMP!IdleRuns, TM!Front, TMP!Front,
   TM!NoneAboveUnlessChanged, TMP!NoneAboveUnlessChanged,
   TM!Exists, TMP!Exists, TM!InQueue, TMP!InQueue, TM!NoRepeats, TMP!NoRepeats

LEMMA SameSwitch == \A s, b : TM!SwitchTask(s, b) = TMP!SwitchTask(s, b)
BY Zenon DEF TM!SwitchTask, TMP!SwitchTask, TM!Rotate, TMP!Rotate, TM!HighestLevel, TMP!HighestLevel,
   TM!Levels, TMP!Levels

LEMMA SameErase ==
  /\ \A q, t : TM!Erase(q, t) = TMP!Erase(q, t)
  /\ \A s : TM!Front(s) = TMP!Front(s)
BY DEF TM!Front, TMP!Front, TM!Erase, TMP!Erase

LEMMA SameSleep == ASSUME NEW s, NEW t PROVE TM!Sleep(s, t) = TMP!Sleep(s, t)
BY SameSwitch, SameErase DEF TM!Sleep, TMP!Sleep

LEMMA SameChange ==
  ASSUME NEW s, NEW t, NEW level
  PROVE  TM!ChangeLevelRunning(s, t, level) = TMP!ChangeLevelRunning(s, t, level)
BY SameErase DEF TM!ChangeLevelRunning, TMP!ChangeLevelRunning

LEMMA SameWakeup ==
  ASSUME NEW s, NEW t, NEW level PROVE TM!Wakeup(s, t, level) = TMP!Wakeup(s, t, level)
BY SameChange DEF TM!Wakeup, TMP!Wakeup

LEMMA SameSend == \A s, id, m : TM!SendMessage(s, id, m) = TMP!SendMessage(s, id, m)
BY SameWakeup, Zenon DEF TM!SendMessage, TMP!SendMessage, TM!Exists, TMP!Exists

LEMMA SameRest ==
  /\ \A s, t : TM!ReceiveMessage(s, t) = TMP!ReceiveMessage(s, t)
  /\ \A s : TM!NewTask(s) = TMP!NewTask(s)
  /\ TM!InitialState = TMP!InitialState
BY DEF TM!ReceiveMessage, TMP!ReceiveMessage, TM!NewTask, TMP!NewTask,
   TM!InitialState, TMP!InitialState, TM!MainTask, TMP!MainTask, TM!IdleTask, TMP!IdleTask,
   TM!Levels, TMP!Levels, TM!TaskIds, TMP!TaskIds
\* The manager's record is well formed.
LEMMA StateFields ==
  ASSUME NEW s, TM!SchedulerInv(s)
  PROVE  /\ s \in TM!TaskManagerState
         /\ s.level \in [1..3 -> 0..kMaxLevel] /\ s.running \in [1..3 -> BOOLEAN]
         /\ s.msgs \in [1..3 -> Seq(Message)]
         /\ s.latest_id_ \in 2..3 /\ s.cpu \in 1..3
<1>1. s \in TM!TaskManagerState /\ s.latest_id_ >= 2
  BY DEF TM!SchedulerInv, TM!IdleTask
<1>2. /\ s.level \in [1..3 -> 0..kMaxLevel] /\ s.running \in [1..3 -> BOOLEAN]
      /\ s.msgs \in [1..3 -> Seq(Message)] /\ s.latest_id_ \in 1..3 /\ s.cpu \in 1..3
  BY <1>1 DEF TM!TaskManagerState, TM!TaskIds, TM!Levels
<1> QED BY <1>1, <1>2

\* The task on the CPU is running.
LEMMA CpuRuns ==
  ASSUME NEW s, TM!SchedulerInv(s)
  PROVE  s.running[s.cpu]
<1> DEFINE lv == s.current_level_
<1>1. /\ lv \in TM!Levels /\ s.running_[lv] \in Seq(1..3)
      /\ s.running_[lv] # <<>> /\ s.cpu = Head(s.running_[lv]) /\ s.cpu \in 1..3
  BY DEF TM!SchedulerInv, TM!TaskManagerState, TM!CpuIsFront, TM!Front, TM!TaskIds
<1>2. TM!InQueue(s.running_[lv], s.cpu)
  BY <1>1 DEF TM!InQueue
<1>3. \A t \in 1..3 : \A k \in TM!Levels : TM!InQueue(s.running_[k], t) => s.running[t]
  BY DEF TM!SchedulerInv, TM!QueuedIffRunning, TM!TaskIds
<1> HIDE DEF lv
<1> QED BY <1>1, <1>2, <1>3

\* After a switch a running main is on the CPU: nobody is on its level.
LEMMA MainFirst ==
  ASSUME NEW s, TM!SchedulerInv(s), Levelled(s), ~s.level_changed_, s.running[Main]
  PROVE  s.cpu = Main
<1>1. \A t \in 1..3 : s.running[t] => s.level[t] <= s.level[s.cpu]
  BY Assumptions, SameInv, TMP!ClearMeansHighest DEF TMP!TaskIds
<1>2. s.level[Main] <= s.level[s.cpu]
  BY <1>1 DEF Main
<1>3. s.cpu \in {1, 2, 3}
  BY StateFields
<1> QED
  BY <1>2, <1>3, KernelAssumption DEF Levelled, Main, Idle, Terminal

\* SwitchTask changes who is on the CPU and nothing else that tasks see.
LEMMA SwitchFacts ==
  ASSUME NEW s, TM!SchedulerInv(s), NEW r, r = TM!SwitchTask(s, FALSE)
  PROVE  /\ TM!SchedulerInv(r)
         /\ r.msgs = s.msgs /\ r.running = s.running /\ r.level = s.level
         /\ r.latest_id_ = s.latest_id_
         /\ Levelled(s) /\ s.running[Main] => r.cpu = Main
<1>1. TM!SchedulerInv(r)
  BY Assumptions, SameInv, SameSwitch, TMP!SwitchPreserves
<1>2. s \in TM!TaskManagerState
  BY StateFields
<1>3. /\ r.msgs = s.msgs /\ r.running = s.running /\ r.level = s.level
      /\ r.latest_id_ = s.latest_id_ /\ ~r.level_changed_
  BY <1>2 DEF TM!SwitchTask, TM!TaskManagerState
<1>4. Levelled(s) => Levelled(r)
  BY <1>3 DEF Levelled
<1> QED BY <1>1, <1>3, <1>4, MainFirst

\* Wakeup at the task's own level marks it as running.
LEMMA WakeupFacts ==
  ASSUME NEW s, TM!SchedulerInv(s), NEW t \in 1..s.latest_id_, NEW r, r = TM!Wakeup(s, t, -1)
  PROVE  /\ TM!SchedulerInv(r)
         /\ r.msgs = s.msgs /\ r.level = s.level /\ r.cpu = s.cpu
         /\ r.latest_id_ = s.latest_id_
         /\ r.running = [s.running EXCEPT ![t] = TRUE]
<1>1. s \in TM!TaskManagerState /\ t \in 1..3
  BY StateFields
<1>2. TM!SchedulerInv(r)
  BY <1>1, Assumptions, SameInv, SameWakeup, TMP!WakeupPreserves DEF TMP!TaskIds, TMP!Exists
<1>3. CASE s.running[t]
  <2>1. r = s
    BY <1>3 DEF TM!Wakeup, TM!ChangeLevelRunning
  <2> QED BY <2>1, <1>1, <1>2, <1>3, StateFields
<1>4. CASE ~s.running[t]
  <2>1. [s.level EXCEPT ![t] = s.level[t]] = s.level
    BY StateFields
  <2>2. /\ r.msgs = s.msgs /\ r.level = s.level /\ r.cpu = s.cpu /\ r.latest_id_ = s.latest_id_
        /\ r.running = [s.running EXCEPT ![t] = TRUE]
    BY <1>1, <1>4, <2>1 DEF TM!Wakeup, TM!TaskManagerState
  <2> QED BY <1>2, <2>2
<1> QED BY <1>3, <1>4

\* SendMessage appends to the queue of a task that exists, and wakes it.
LEMMA SendFacts ==
  ASSUME NEW s, TM!SchedulerInv(s), NEW id, id \in 0..3, NEW m \in Message,
         NEW r, r = TM!SendMessage(s, id, m)
  PROVE  /\ TM!SchedulerInv(r)
         /\ r.level = s.level /\ r.cpu = s.cpu /\ r.latest_id_ = s.latest_id_
         /\ id \notin 1..s.latest_id_ => r = s
         /\ id \in 1..s.latest_id_ =>
              /\ r.msgs[id] = Append(s.msgs[id], m) /\ r.running[id]
              /\ \A u \in 1..3 : u # id => r.msgs[u] = s.msgs[u] /\ r.running[u] = s.running[u]
<1>1. s \in TM!TaskManagerState /\ s.latest_id_ \in 2..3
  BY StateFields
<1>2. CASE id \in 1..s.latest_id_
  <2> DEFINE e == [s EXCEPT !.msgs[id] = Append(s.msgs[id], m)]
  <2>1. id \in 1..3
    BY <1>1, <1>2
  <2>2. TM!SchedulerInv(r)
    BY <2>1, Assumptions, SameInv, SameSend, TMP!SendPreserves DEF TMP!TaskIds
  <2>3. r = TM!Wakeup(e, id, -1)
    BY <1>2 DEF TM!SendMessage, TM!Exists
  <2>4. /\ e.msgs = [s.msgs EXCEPT ![id] = Append(s.msgs[id], m)]
        /\ e.running = s.running /\ e.level = s.level /\ e.cpu = s.cpu
        /\ e.latest_id_ = s.latest_id_ /\ e.running_ = s.running_
        /\ e.current_level_ = s.current_level_ /\ e.level_changed_ = s.level_changed_
    BY <1>1 DEF TM!TaskManagerState
  <2>5. /\ s.level \in [1..3 -> 0..kMaxLevel] /\ s.running \in [1..3 -> BOOLEAN]
        /\ s.msgs \in [1..3 -> Seq(Message)]
    BY StateFields
  <2>6. e \in TM!TaskManagerState
    <3>1. [s.msgs EXCEPT ![id] = Append(s.msgs[id], m)] \in [1..3 -> Seq(Message)]
      BY <2>1, <2>5
    <3> QED BY <1>1, <3>1 DEF TM!TaskManagerState, TM!TaskIds
  <2> HIDE DEF e
  <2>7. CASE s.running[id]
    <3>1. r = e
      BY <2>3, <2>4, <2>7 DEF TM!Wakeup, TM!ChangeLevelRunning
    <3> QED BY <1>2, <2>1, <2>2, <2>4, <2>5, <2>7, <3>1
  <2>8. CASE ~s.running[id]
    <3>1. [s.level EXCEPT ![id] = s.level[id]] = s.level
      BY <2>5
    <3>2. /\ r.msgs = e.msgs /\ r.level = s.level /\ r.cpu = e.cpu
          /\ r.latest_id_ = e.latest_id_ /\ r.running = [s.running EXCEPT ![id] = TRUE]
      BY <2>3, <2>4, <2>6, <2>8, <3>1 DEF TM!Wakeup, TM!TaskManagerState
    <3>3. r.msgs[id] = Append(s.msgs[id], m) /\ r.running[id]
      BY <2>1, <2>4, <2>5, <3>2
    <3>4. \A u \in 1..3 : u # id => r.msgs[u] = s.msgs[u] /\ r.running[u] = s.running[u]
      BY <2>1, <2>4, <2>5, <3>2
    <3>5. r.cpu = s.cpu /\ r.latest_id_ = s.latest_id_ /\ r.level = s.level
      BY <2>4, <3>2
    <3> QED BY <1>2, <2>2, <3>3, <3>4, <3>5
  <2> QED BY <2>7, <2>8
<1>3. CASE id \notin 1..s.latest_id_
  BY <1>3 DEF TM!SendMessage, TM!Exists
<1> QED BY <1>2, <1>3

LEMMA WakeupKeepsMsgs ==
  ASSUME NEW s, TM!SchedulerInv(s), NEW t, t \in 1..s.latest_id_, NEW r, r = TM!Wakeup(s, t, -1)
  PROVE  r.msgs = s.msgs
<1>1. s \in TM!TaskManagerState
  BY StateFields
<1>2. CASE s.running[t]
  BY <1>2 DEF TM!Wakeup, TM!ChangeLevelRunning
<1>3. CASE ~s.running[t]
  BY <1>1, <1>3 DEF TM!Wakeup, TM!TaskManagerState
<1> QED BY <1>2, <1>3

\* What a message does to the queue it is sent to, and to the others.
LEMMA SendArrives ==
  ASSUME NEW s, TM!SchedulerInv(s), NEW id, id \in 1..3, id \in 1..s.latest_id_, NEW m, m \in Message,
         NEW r, r = TM!SendMessage(s, id, m)
  PROVE  r.msgs[id] = Append(s.msgs[id], m) /\ r.running[id]
<1>1. id \in 0..3 OBVIOUS
<1>2. r.msgs[id] = Append(s.msgs[id], m) BY <1>1, SendFacts, SMTT(20)
<1>3. r.running[id] BY <1>1, SendFacts, SMTT(20)
<1> QED BY <1>2, <1>3

LEMMA SendElsewhere ==
  ASSUME NEW s, TM!SchedulerInv(s), NEW id, id \in 1..3, id \in 1..s.latest_id_, NEW m, m \in Message,
         NEW r, r = TM!SendMessage(s, id, m), NEW u, u \in 1..3, u # id
  PROVE  r.msgs[u] = s.msgs[u] /\ r.running[u] = s.running[u]
<1>1. id \in 0..3 OBVIOUS
<1>2. \A v \in 1..3 : v # id => r.msgs[v] = s.msgs[v] /\ r.running[v] = s.running[v]
  BY <1>1, SendFacts, SMTT(20)
<1> QED BY <1>2

\* The task on the CPU goes to sleep: somebody else gets it, main if it runs.
LEMMA SleepFacts ==
  ASSUME NEW s, TM!SchedulerInv(s), Levelled(s), NEW t \in {Main, Terminal}, s.cpu = t,
         NEW r, r = TM!Sleep(s, t)
  PROVE  /\ TM!SchedulerInv(r)
         /\ r.msgs = s.msgs /\ r.level = s.level /\ r.latest_id_ = s.latest_id_
         /\ r.running = [s.running EXCEPT ![t] = FALSE]
         /\ r.cpu # t
         /\ t = Terminal /\ s.running[Main] => r.cpu = Main
<1>1. s \in TM!TaskManagerState /\ t \in 1..3 /\ t # 2 /\ s.running[t]
  BY StateFields, CpuRuns DEF Main, Terminal
<1>2. TM!SchedulerInv(r)
  BY <1>1, Assumptions, SameInv, SameSleep, TMP!SleepPreserves DEF TMP!TaskIds, TMP!IdleTask
<1> DEFINE off == [s EXCEPT !.running[t] = FALSE]
<1>3. TM!Front(s) = t
  BY DEF TM!SchedulerInv, TM!CpuIsFront
<1>4. r = TM!SwitchTask(off, TRUE)
  BY <1>1, <1>3 DEF TM!Sleep
<1>5. /\ off.running = [s.running EXCEPT ![t] = FALSE] /\ off.msgs = s.msgs
      /\ off.level = s.level /\ off.latest_id_ = s.latest_id_
  BY <1>1 DEF TM!TaskManagerState
<1>6. off \in TM!TaskManagerState
  BY <1>1 DEF TM!TaskManagerState, TM!TaskIds
<1> HIDE DEF off
<1>7. /\ r.msgs = off.msgs /\ r.level = off.level /\ r.latest_id_ = off.latest_id_
      /\ r.running = off.running /\ ~r.level_changed_
  BY <1>4, <1>6 DEF TM!SwitchTask, TM!TaskManagerState
<1>8. r.running = [s.running EXCEPT ![t] = FALSE] /\ s.running \in [1..3 -> BOOLEAN]
  BY <1>5, <1>7, StateFields
<1>9. r.cpu # t
  BY <1>1, <1>2, <1>8, CpuRuns
<1>10. t = Terminal /\ s.running[Main] => r.cpu = Main
  <2> SUFFICES ASSUME t = Terminal, s.running[Main] PROVE r.cpu = Main
    OBVIOUS
  <2>1. r.running[Main]
    BY <1>8 DEF Main, Terminal
  <2>2. Levelled(r)
    BY <1>5, <1>7 DEF Levelled
  <2> QED BY <1>2, <1>7, <2>1, <2>2, MainFirst
<1> QED BY <1>2, <1>5, <1>7, <1>8, <1>9, <1>10

LEMMA SleepKeepsMsgs ==
  ASSUME NEW s, TM!SchedulerInv(s), Levelled(s), NEW t, t \in {Main, Terminal}, s.cpu = t,
         NEW r, r = TM!Sleep(s, t)
  PROVE  r.msgs = s.msgs
<1>1. s \in TM!TaskManagerState /\ t \in 1..3 /\ s.running[t] /\ TM!Front(s) = t
  BY StateFields, CpuRuns DEF Main, Terminal, TM!SchedulerInv, TM!CpuIsFront
<1> DEFINE off == [s EXCEPT !.running[t] = FALSE]
<1>2. r = TM!SwitchTask(off, TRUE)
  BY <1>1 DEF TM!Sleep
<1>3. off \in TM!TaskManagerState /\ off.msgs = s.msgs
  BY <1>1 DEF TM!TaskManagerState, TM!TaskIds
<1> HIDE DEF off
<1>4. r.msgs = off.msgs
  BY <1>2, <1>3 DEF TM!SwitchTask, TM!TaskManagerState
<1> QED BY <1>3, <1>4

\* A record that differs in the messages and in what NewTask changes.
LEMMA ReceiveFacts ==
  ASSUME NEW s, TM!SchedulerInv(s), NEW t \in 1..3, NEW r, r = TM!ReceiveMessage(s, t)
  PROVE  /\ TM!SchedulerInv(r)
         /\ r.level = s.level /\ r.cpu = s.cpu /\ r.latest_id_ = s.latest_id_
         /\ r.running = s.running
         /\ s.msgs[t] = <<>> => r.msgs = s.msgs
         /\ s.msgs[t] # <<>> => r.msgs[t] = Tail(s.msgs[t])
         /\ \A u \in 1..3 : u # t => r.msgs[u] = s.msgs[u]
<1>1. s \in TM!TaskManagerState /\ s.msgs \in [1..3 -> Seq(Message)]
  BY StateFields
<1>2. TM!SchedulerInv(r)
  BY Assumptions, SameInv, SameRest, TMP!ReceivePreserves DEF TMP!TaskIds
<1> QED BY <1>1, <1>2 DEF TM!ReceiveMessage, TM!TaskManagerState

LEMMA NewTaskFacts ==
  ASSUME NEW s, TM!SchedulerInv(s), s.latest_id_ = 2, NEW r, r = TM!NewTask(s)
  PROVE  /\ TM!SchedulerInv(r)
         /\ r.level = s.level /\ r.cpu = s.cpu /\ r.latest_id_ = 3
         /\ r.running = s.running /\ r.msgs = s.msgs
<1>1. s \in TM!TaskManagerState
  BY StateFields
<1>2. TM!SchedulerInv(r)
  BY Assumptions, SameInv, SameRest, TMP!NewTaskPreserves
<1> QED BY <1>1, <1>2 DEF TM!NewTask, TM!TaskManagerState

\* The observer's push_back replaces main's queue and nothing else.
LEMMA QueueFacts ==
  ASSUME NEW s, TM!SchedulerInv(s), NEW r \in TM!TaskManagerState,
         r.running_ = s.running_, r.current_level_ = s.current_level_,
         r.level_changed_ = s.level_changed_, r.latest_id_ = s.latest_id_,
         r.level = s.level, r.running = s.running, r.cpu = s.cpu
  PROVE  TM!SchedulerInv(r)
BY DEF TM!SchedulerInv, TM!QueuedIffRunning, TM!QueuedOnce, TM!CpuIsFront, TM!Front,
   TM!NoneAboveUnlessChanged, TM!IdleRuns, TM!Exists

-----------------------------------------------------------------------------
(* Steps that leave the scheduler alone *)

\* Everything of IInv but the scheduler, the types and the cursor timer.
Rest ==
  /\ ControlOK /\ Stopped /\ Masked /\ NoneBeforeSleep
  /\ InScope /\ MouseFirst /\ ActiveMapped

\* The types apart from that of the scheduler.
Types ==
  /\ pc \in [Tasks -> MainLabels \cup TerminalLabels \cup {"hlt"}]
  /\ iflag \in [Tasks -> BOOLEAN]
  /\ msg \in [Tasks -> Message \cup {NoMsg}]
  /\ cursor_timers \in Nat
  /\ mouse_layer \in BOOLEAN /\ active \in {0, MainWindowLayer, TextWindowLayer, TerminalLayer}
  /\ terminal_mapped \in BOOLEAN
  /\ ring \in Seq({"key_event", "mouse_event", "other_event"})
  /\ ehb \in BOOLEAN /\ msi \in BOOLEAN /\ xhc_running \in BOOLEAN
  /\ base \in Nat /\ raced \in BOOLEAN
  /\ events \in 0..MaxEvents /\ timeouts \in 0..MaxTimeouts

\* Main, where it calls no operation of the scheduler.
LEMMA MainQuiet ==
  ASSUME Rest, Types, TM!SchedulerInv(tm),
         \/ MainInitXHCI \/ MainInitMouse \/ MainDraw \/ MainAwake
         \/ MainDispatch \/ MainProcessEvents \/ MainOtherEvent \/ MainMouseEvent
         \/ MainObserverBegin \/ MainPop \/ MainRearm \/ MainDrawCursor
         \/ MainKey \/ MainInputText \/ MainLayer
  PROVE  Rest' /\ Types' /\ tm' = tm
<1> USE DEF MainStep, TerminalStep, At, Goto, SetIF, Main, Idle, Terminal, Tasks,
     taskVars, screenVars, xhcVars, envVars, raceVars,
     StartLabels, EventLabels, MsgLabels, MaskedMain, MaskedTerminal, MainLabels, TerminalLabels
<1>1. CASE MainInitXHCI
  <2>1. Types' /\ tm' = tm
    BY <1>1 DEF MainInitXHCI, Types
  <2>2. ControlOK' /\ Stopped' /\ Masked'
    BY <1>1 DEF MainInitXHCI, Types, Rest, ControlOK, Stopped, Masked
  <2>3. NoneBeforeSleep' /\ InScope'
    BY <1>1 DEF MainInitXHCI, Types, Rest, NoneBeforeSleep, InScope
  <2>4. MouseFirst' /\ ActiveMapped'
    BY <1>1 DEF MainInitXHCI, Types, Rest, Stopped, MouseFirst, ActiveMapped
  <2> QED BY <2>1, <2>2, <2>3, <2>4 DEF Rest
<1>2. CASE MainInitMouse
  <2>1. Types' /\ tm' = tm
    BY <1>2 DEF MainInitMouse, Types
  <2>2. ControlOK' /\ Stopped' /\ Masked'
    BY <1>2 DEF MainInitMouse, Types, Rest, ControlOK, Stopped, Masked
  <2>3. NoneBeforeSleep' /\ InScope'
    BY <1>2 DEF MainInitMouse, Types, Rest, NoneBeforeSleep, InScope
  <2>4. MouseFirst' /\ ActiveMapped'
    BY <1>2 DEF MainInitMouse, Types, Rest, Stopped, MouseFirst, ActiveMapped
  <2> QED BY <2>1, <2>2, <2>3, <2>4 DEF Rest
<1>3. CASE MainDraw
  <2>1. Types' /\ tm' = tm
    BY <1>3 DEF MainDraw, Types
  <2>2. ControlOK' /\ Stopped' /\ Masked'
    BY <1>3 DEF MainDraw, Types, Rest, ControlOK, Stopped, Masked
  <2>3. NoneBeforeSleep' /\ InScope'
    BY <1>3 DEF MainDraw, Types, Rest, NoneBeforeSleep, InScope
  <2>4. MouseFirst' /\ ActiveMapped'
    BY <1>3 DEF MainDraw, Types, Rest, Stopped, MouseFirst, ActiveMapped
  <2> QED BY <2>1, <2>2, <2>3, <2>4 DEF Rest
<1>4. CASE MainAwake
  <2>1. Types' /\ tm' = tm
    BY <1>4 DEF MainAwake, Types
  <2>2. ControlOK' /\ Stopped' /\ Masked'
    BY <1>4 DEF MainAwake, Types, Rest, ControlOK, Stopped, Masked
  <2>3. NoneBeforeSleep' /\ InScope'
    BY <1>4 DEF MainAwake, Types, Rest, NoneBeforeSleep, InScope
  <2>4. MouseFirst' /\ ActiveMapped'
    BY <1>4 DEF MainAwake, Types, Rest, Stopped, MouseFirst, ActiveMapped
  <2> QED BY <2>1, <2>2, <2>3, <2>4 DEF Rest
<1>5. CASE MainDispatch
  <2>1. Types' /\ tm' = tm
    BY <1>5 DEF MainDispatch, Types
  <2>2. ControlOK' /\ Stopped' /\ Masked'
    BY <1>5 DEF MainDispatch, Types, Rest, ControlOK, Stopped, Masked
  <2>3. NoneBeforeSleep' /\ InScope'
    BY <1>5 DEF MainDispatch, Types, Rest, NoneBeforeSleep, InScope
  <2>4. MouseFirst' /\ ActiveMapped'
    BY <1>5 DEF MainDispatch, Types, Rest, Stopped, MouseFirst, ActiveMapped
  <2> QED BY <2>1, <2>2, <2>3, <2>4 DEF Rest
<1>6. CASE MainProcessEvents
  <2>1. Types' /\ tm' = tm
    BY <1>6 DEF MainProcessEvents, Types
  <2>2. ControlOK' /\ Stopped' /\ Masked'
    BY <1>6 DEF MainProcessEvents, Types, Rest, ControlOK, Stopped, Masked
  <2>3. NoneBeforeSleep' /\ InScope'
    BY <1>6 DEF MainProcessEvents, Types, Rest, NoneBeforeSleep, InScope
  <2>4. MouseFirst' /\ ActiveMapped'
    BY <1>6 DEF MainProcessEvents, Types, Rest, Stopped, MouseFirst, ActiveMapped
  <2> QED BY <2>1, <2>2, <2>3, <2>4 DEF Rest
<1>7. CASE MainOtherEvent
  <2>1. Types' /\ tm' = tm
    BY <1>7 DEF MainOtherEvent, Types
  <2>2. ControlOK' /\ Stopped' /\ Masked'
    BY <1>7 DEF MainOtherEvent, Types, Rest, ControlOK, Stopped, Masked
  <2>3. NoneBeforeSleep' /\ InScope'
    BY <1>7 DEF MainOtherEvent, Types, Rest, NoneBeforeSleep, InScope
  <2>4. MouseFirst' /\ ActiveMapped'
    BY <1>7 DEF MainOtherEvent, Types, Rest, Stopped, MouseFirst, ActiveMapped
  <2> QED BY <2>1, <2>2, <2>3, <2>4 DEF Rest
<1>8. CASE MainMouseEvent
  <2>1. Types' /\ tm' = tm
    BY <1>8 DEF MainMouseEvent, Types
  <2>2. ControlOK' /\ Stopped' /\ Masked'
    BY <1>8 DEF MainMouseEvent, Types, Rest, ControlOK, Stopped, Masked
  <2>3. NoneBeforeSleep' /\ InScope'
    BY <1>8 DEF MainMouseEvent, Types, Rest, NoneBeforeSleep, InScope
  <2>4. MouseFirst' /\ ActiveMapped'
    BY <1>8 DEF MainMouseEvent, Types, Rest, Stopped, MouseFirst, ActiveMapped,
       MainWindowLayer, TextWindowLayer, TerminalLayer
  <2> QED BY <2>1, <2>2, <2>3, <2>4 DEF Rest
<1>9. CASE MainObserverBegin
  <2>1. Types' /\ tm' = tm
    BY <1>9 DEF MainObserverBegin, Types
  <2>2. ControlOK' /\ Stopped' /\ Masked'
    BY <1>9 DEF MainObserverBegin, Types, Rest, ControlOK, Stopped, Masked
  <2>3. NoneBeforeSleep' /\ InScope'
    BY <1>9 DEF MainObserverBegin, Types, Rest, NoneBeforeSleep, InScope
  <2>4. MouseFirst' /\ ActiveMapped'
    BY <1>9 DEF MainObserverBegin, Types, Rest, Stopped, MouseFirst, ActiveMapped
  <2> QED BY <2>1, <2>2, <2>3, <2>4 DEF Rest
<1>10. CASE MainPop
  <2>0. ring' \in Seq({"key_event", "mouse_event", "other_event"})
    BY <1>10 DEF MainPop, Types, Rest, InScope
  <2>1. Types' /\ tm' = tm
    BY <1>10, <2>0 DEF MainPop, Types
  <2>2. ControlOK' /\ Stopped' /\ Masked'
    BY <1>10 DEF MainPop, Types, Rest, ControlOK, Stopped, Masked
  <2>3. NoneBeforeSleep' /\ InScope'
    BY <1>10 DEF MainPop, Types, Rest, NoneBeforeSleep, InScope
  <2>4. MouseFirst' /\ ActiveMapped'
    BY <1>10 DEF MainPop, Types, Rest, Stopped, MouseFirst, ActiveMapped
  <2> QED BY <2>1, <2>2, <2>3, <2>4 DEF Rest
<1>11. CASE MainRearm
  <2>1. Types' /\ tm' = tm
    BY <1>11 DEF MainRearm, Types
  <2>2. ControlOK' /\ Stopped' /\ Masked'
    BY <1>11 DEF MainRearm, Types, Rest, ControlOK, Stopped, Masked
  <2>3. NoneBeforeSleep' /\ InScope'
    BY <1>11 DEF MainRearm, Types, Rest, NoneBeforeSleep, InScope
  <2>4. MouseFirst' /\ ActiveMapped'
    BY <1>11 DEF MainRearm, Types, Rest, Stopped, MouseFirst, ActiveMapped
  <2> QED BY <2>1, <2>2, <2>3, <2>4 DEF Rest
<1>12. CASE MainDrawCursor
  <2>1. Types' /\ tm' = tm
    BY <1>12 DEF MainDrawCursor, Types
  <2>2. ControlOK' /\ Stopped' /\ Masked'
    BY <1>12 DEF MainDrawCursor, Types, Rest, ControlOK, Stopped, Masked
  <2>3. NoneBeforeSleep' /\ InScope'
    BY <1>12 DEF MainDrawCursor, Types, Rest, NoneBeforeSleep, InScope
  <2>4. MouseFirst' /\ ActiveMapped'
    BY <1>12 DEF MainDrawCursor, Types, Rest, Stopped, MouseFirst, ActiveMapped
  <2> QED BY <2>1, <2>2, <2>3, <2>4 DEF Rest
<1>13. CASE MainKey
  <2>1. Types' /\ tm' = tm
    BY <1>13 DEF MainKey, Types
  <2>2. ControlOK' /\ Stopped' /\ Masked'
    BY <1>13 DEF MainKey, Types, Rest, ControlOK, Stopped, Masked
  <2>3. NoneBeforeSleep' /\ InScope'
    BY <1>13 DEF MainKey, Types, Rest, NoneBeforeSleep, InScope
  <2>4. MouseFirst' /\ ActiveMapped'
    BY <1>13 DEF MainKey, Types, Rest, Stopped, MouseFirst, ActiveMapped
  <2> QED BY <2>1, <2>2, <2>3, <2>4 DEF Rest
<1>14. CASE MainInputText
  <2>1. Types' /\ tm' = tm
    BY <1>14 DEF MainInputText, Types
  <2>2. ControlOK' /\ Stopped' /\ Masked'
    BY <1>14 DEF MainInputText, Types, Rest, ControlOK, Stopped, Masked
  <2>3. NoneBeforeSleep' /\ InScope'
    BY <1>14 DEF MainInputText, Types, Rest, NoneBeforeSleep, InScope
  <2>4. MouseFirst' /\ ActiveMapped'
    BY <1>14 DEF MainInputText, Types, Rest, Stopped, MouseFirst, ActiveMapped
  <2> QED BY <2>1, <2>2, <2>3, <2>4 DEF Rest
<1>15. CASE MainLayer
  <2>1. Types' /\ tm' = tm
    BY <1>15 DEF MainLayer, Types
  <2>2. ControlOK' /\ Stopped' /\ Masked'
    BY <1>15 DEF MainLayer, Types, Rest, ControlOK, Stopped, Masked
  <2>3. NoneBeforeSleep' /\ InScope'
    BY <1>15 DEF MainLayer, Types, Rest, NoneBeforeSleep, InScope
  <2>4. MouseFirst' /\ ActiveMapped'
    BY <1>15 DEF MainLayer, Types, Rest, Stopped, MouseFirst, ActiveMapped
  <2> QED BY <2>1, <2>2, <2>3, <2>4 DEF Rest
<1> QED BY <1>1, <1>2, <1>3, <1>4, <1>5, <1>6, <1>7, <1>8, <1>9, <1>10, <1>11, <1>12, <1>13, <1>14, <1>15

\* The terminal, likewise.
LEMMA TerminalQuiet ==
  ASSUME Rest, Types, TM!SchedulerInv(tm),
         \/ TerminalStart \/ TerminalCreate \/ TerminalActivate \/ TerminalMap
         \/ TerminalAwake \/ TerminalLoop \/ TerminalHandle
  PROVE  Rest' /\ Types' /\ tm' = tm
<1> USE DEF MainStep, TerminalStep, At, Goto, SetIF, Main, Idle, Terminal, Tasks,
     taskVars, screenVars, xhcVars, envVars, raceVars,
     StartLabels, EventLabels, MsgLabels, MaskedMain, MaskedTerminal, MainLabels, TerminalLabels
<1>1. CASE TerminalStart
  <2>1. Types' /\ tm' = tm
    BY <1>1 DEF TerminalStart, Types
  <2>2. ControlOK' /\ Stopped' /\ Masked'
    BY <1>1 DEF TerminalStart, Types, Rest, ControlOK, Stopped, Masked
  <2>3. NoneBeforeSleep' /\ InScope'
    BY <1>1 DEF TerminalStart, Types, Rest, NoneBeforeSleep, InScope
  <2>4. MouseFirst' /\ ActiveMapped'
    BY <1>1 DEF TerminalStart, Types, Rest, Stopped, MouseFirst, ActiveMapped
  <2> QED BY <2>1, <2>2, <2>3, <2>4 DEF Rest
<1>2. CASE TerminalCreate
  <2>1. Types' /\ tm' = tm
    BY <1>2 DEF TerminalCreate, Types
  <2>2. ControlOK' /\ Stopped' /\ Masked'
    BY <1>2 DEF TerminalCreate, Types, Rest, ControlOK, Stopped, Masked
  <2>3. NoneBeforeSleep' /\ InScope'
    BY <1>2 DEF TerminalCreate, Types, Rest, NoneBeforeSleep, InScope
  <2>4. MouseFirst' /\ ActiveMapped'
    BY <1>2 DEF TerminalCreate, Types, Rest, Stopped, MouseFirst, ActiveMapped
  <2> QED BY <2>1, <2>2, <2>3, <2>4 DEF Rest
<1>3. CASE TerminalActivate
  <2>1. Types' /\ tm' = tm
    BY <1>3 DEF TerminalActivate, Types
  <2>2. ControlOK' /\ Stopped' /\ Masked'
    BY <1>3 DEF TerminalActivate, Types, Rest, ControlOK, Stopped, Masked
  <2>3. NoneBeforeSleep' /\ InScope'
    BY <1>3 DEF TerminalActivate, Types, Rest, NoneBeforeSleep, InScope
  <2>4. MouseFirst' /\ ActiveMapped'
    BY <1>3 DEF TerminalActivate, Types, Rest, Stopped, MouseFirst, ActiveMapped
  <2> QED BY <2>1, <2>2, <2>3, <2>4 DEF Rest
<1>4. CASE TerminalMap
  <2>1. Types' /\ tm' = tm
    BY <1>4 DEF TerminalMap, Types
  <2>2. ControlOK' /\ Stopped' /\ Masked'
    BY <1>4 DEF TerminalMap, Types, Rest, ControlOK, Stopped, Masked
  <2>3. NoneBeforeSleep' /\ InScope'
    BY <1>4 DEF TerminalMap, Types, Rest, NoneBeforeSleep, InScope
  <2>4. MouseFirst' /\ ActiveMapped'
    BY <1>4 DEF TerminalMap, Types, Rest, Stopped, MouseFirst, ActiveMapped
  <2> QED BY <2>1, <2>2, <2>3, <2>4 DEF Rest
<1>5. CASE TerminalAwake
  <2>1. Types' /\ tm' = tm
    BY <1>5 DEF TerminalAwake, Types
  <2>2. ControlOK' /\ Stopped' /\ Masked'
    BY <1>5 DEF TerminalAwake, Types, Rest, ControlOK, Stopped, Masked
  <2>3. NoneBeforeSleep' /\ InScope'
    BY <1>5 DEF TerminalAwake, Types, Rest, NoneBeforeSleep, InScope
  <2>4. MouseFirst' /\ ActiveMapped'
    BY <1>5 DEF TerminalAwake, Types, Rest, Stopped, MouseFirst, ActiveMapped
  <2> QED BY <2>1, <2>2, <2>3, <2>4 DEF Rest
<1>6. CASE TerminalLoop
  <2>1. Types' /\ tm' = tm
    BY <1>6 DEF TerminalLoop, Types
  <2>2. ControlOK' /\ Stopped' /\ Masked'
    BY <1>6 DEF TerminalLoop, Types, Rest, ControlOK, Stopped, Masked
  <2>3. NoneBeforeSleep' /\ InScope'
    BY <1>6 DEF TerminalLoop, Types, Rest, NoneBeforeSleep, InScope
  <2>4. MouseFirst' /\ ActiveMapped'
    BY <1>6 DEF TerminalLoop, Types, Rest, Stopped, MouseFirst, ActiveMapped
  <2> QED BY <2>1, <2>2, <2>3, <2>4 DEF Rest
<1>7. CASE TerminalHandle
  <2>1. Types' /\ tm' = tm
    BY <1>7 DEF TerminalHandle, Types
  <2>2. ControlOK' /\ Stopped' /\ Masked'
    BY <1>7 DEF TerminalHandle, Types, Rest, ControlOK, Stopped, Masked
  <2>3. NoneBeforeSleep' /\ InScope'
    BY <1>7 DEF TerminalHandle, Types, Rest, NoneBeforeSleep, InScope
  <2>4. MouseFirst' /\ ActiveMapped'
    BY <1>7 DEF TerminalHandle, Types, Rest, Stopped, MouseFirst, ActiveMapped
  <2> QED BY <2>1, <2>2, <2>3, <2>4 DEF Rest
<1> QED BY <1>1, <1>2, <1>3, <1>4, <1>5, <1>6, <1>7
\* The xHC touches its ring and its interrupt.
LEMMA XhcQuiet ==
  ASSUME Rest, Types, RaiseMSI \/ \E e \in {"key_event", "mouse_event", "other_event"} : PostEvent(e)
  PROVE  Rest' /\ Types' /\ tm' = tm
<1> USE DEF Main, Idle, Terminal, Tasks, taskVars, screenVars, xhcVars, envVars, raceVars
<1>1. CASE RaiseMSI
  <2>1. Types' /\ tm' = tm
    BY <1>1 DEF RaiseMSI, Types
  <2>2. Rest'
    BY <1>1 DEF RaiseMSI, Rest, ControlOK, Stopped, Masked, NoneBeforeSleep, InScope, MouseFirst, ActiveMapped
  <2> QED BY <2>1, <2>2
<1>2. ASSUME NEW e \in {"key_event", "mouse_event", "other_event"}, PostEvent(e)
      PROVE  Rest' /\ Types' /\ tm' = tm
  <2>1. ring' \in Seq({"key_event", "mouse_event", "other_event"}) /\ ring' # <<>>
    BY <1>2 DEF PostEvent, Types
  <2>2. events' \in 0..MaxEvents
    BY <1>2, KernelAssumption DEF PostEvent, Types
  <2>3. Types' /\ tm' = tm
    BY <1>2, <2>1, <2>2 DEF PostEvent, Types
  <2>4. Rest'
    BY <1>2, <2>1 DEF PostEvent, Rest, ControlOK, Stopped, Masked, NoneBeforeSleep, InScope, MouseFirst, ActiveMapped
  <2> QED BY <2>3, <2>4
<1> QED BY <1>1, <1>2

-----------------------------------------------------------------------------
(* Steps that call the scheduler *)

\* The end of the observer's push_back: a race leaves a shorter queue or one
\* that ends in a stale message, but a queue of messages all the same; without
\* one the key is appended.
LEMMA ObserverFacts ==
  ASSUME TM!SchedulerInv(tm), Types, InScope, MainObserverEnd
  PROVE  /\ TM!SchedulerInv(tm') /\ tm'.level = tm.level /\ tm'.cpu = tm.cpu
         /\ tm'.latest_id_ = tm.latest_id_ /\ tm'.running = tm.running
         /\ \A u \in 1..3 : u # Main => tm'.msgs[u] = tm.msgs[u]
         /\ ~raced' => tm'.msgs[Main] = Append(tm.msgs[Main], Msg("kKeyPush")) /\ ~raced
<1> DEFINE q0 == tm.msgs[Main]
           w == Append(SubSeq(q0, 1, base), Msg("kKeyPush"))
           junk(ty) == w \o SubSeq(q0, base + 2, Len(q0)) \o <<Msg(ty)>>
<1>0. base \in Nat /\ base <= Len(q0)
  BY DEF MainObserverEnd, MainStep, At, Types, InScope
<1>1. q0 \in Seq(Message) /\ base \in 0..Len(q0)
  BY <1>0, StateFields DEF Main
<1>2. \A ty \in MessageTypes : Msg(ty) \in Message
  BY DEF Msg, Message, MessageTypes
<1>3. SubSeq(q0, 1, base) \in Seq(Message) /\ Msg("kKeyPush") \in Message
  BY <1>1, <1>2 DEF MessageTypes
<1>4. w \in Seq(Message)
  BY <1>3
<1>5. SubSeq(q0, base + 2, Len(q0)) \in Seq(Message)
  BY <1>1
<1>6. \A ty \in MessageTypes : junk(ty) \in Seq(Message)
  BY <1>2, <1>4, <1>5, SMTT(30)
<1>7. /\ raced' = (raced \/ Len(q0) > base)
      /\ \/ tm' = [tm EXCEPT !.msgs[Main] = w]
         \/ /\ Len(q0) > base
            /\ \E ty \in MessageTypes : tm' = [tm EXCEPT !.msgs[Main] = junk(ty)]
  BY DEF MainObserverEnd
<1>8. ~raced' => ~raced /\ w = Append(q0, Msg("kKeyPush")) /\ tm' = [tm EXCEPT !.msgs[Main] = w]
  <2> SUFFICES ASSUME ~raced' PROVE ~raced /\ w = Append(q0, Msg("kKeyPush")) /\ tm' = [tm EXCEPT !.msgs[Main] = w]
    OBVIOUS
  <2>1. ~raced /\ ~(Len(q0) > base)
    BY <1>7 DEF Types
  <2>2. base = Len(q0)
    BY <1>1, <2>1
  <2>3. SubSeq(q0, 1, Len(q0)) = q0
    BY <1>1
  <2> QED BY <1>7, <2>1, <2>2, <2>3
<1>9. PICK q \in Seq(Message) :
        /\ tm' = [tm EXCEPT !.msgs[Main] = q]
        /\ ~raced' => q = Append(q0, Msg("kKeyPush"))
  <2> HIDE DEF w, junk, q0
  <2> QED BY <1>4, <1>6, <1>7, <1>8
<1>10. /\ TM!SchedulerInv(tm') /\ tm'.level = tm.level /\ tm'.cpu = tm.cpu
       /\ tm'.latest_id_ = tm.latest_id_ /\ tm'.running = tm.running /\ tm'.msgs[Main] = q
       /\ \A u \in 1..3 : u # Main => tm'.msgs[u] = tm.msgs[u]
  <2> DEFINE mm == [tm.msgs EXCEPT ![Main] = q]
  <2>1. tm \in TM!TaskManagerState /\ tm.msgs \in [1..3 -> Seq(Message)]
    BY StateFields
  <2>2. mm \in [1..3 -> Seq(Message)] /\ mm[Main] = q /\ \A u \in 1..3 : u # Main => mm[u] = tm.msgs[u]
    BY <1>9, <2>1 DEF Main
  <2>3. tm' = [tm EXCEPT !.msgs = mm]
    BY <1>9
  <2> HIDE DEF mm
  <2>4. /\ tm'.running_ = tm.running_ /\ tm'.current_level_ = tm.current_level_
        /\ tm'.level_changed_ = tm.level_changed_ /\ tm'.latest_id_ = tm.latest_id_
        /\ tm'.level = tm.level /\ tm'.running = tm.running /\ tm'.cpu = tm.cpu
        /\ tm'.msgs = mm
    BY <2>1, <2>3 DEF TM!TaskManagerState
  <2>5. tm' \in TM!TaskManagerState
    BY <2>1, <2>2, <2>3 DEF TM!TaskManagerState, TM!TaskIds
  <2>6. TM!SchedulerInv(tm')
    BY <2>4, <2>5, QueueFacts
  <2> QED BY <2>2, <2>4, <2>6
<1> QED BY <1>8, <1>9, <1>10

\* The answer goes to the task that asked, or nowhere.
LEMMA FinishFacts ==
  ASSUME TM!SchedulerInv(tm), InScope, MainFinish
  PROVE  /\ TM!SchedulerInv(tm') /\ tm'.level = tm.level /\ tm'.cpu = tm.cpu
         /\ tm'.latest_id_ = tm.latest_id_
         /\ \A u \in 1..3 :
              \/ tm'.msgs[u] = tm.msgs[u] /\ tm'.running[u] = tm.running[u]
              \/ tm'.msgs[u] = Append(tm.msgs[u], Msg("kLayerFinish")) /\ tm'.running[u]
<1>1. msg[Main] \in Message
  BY DEF MainFinish, MainStep, At, InScope, MsgLabels
<1>2. PICK id : id = msg[Main].src_task /\ id \in 0..3
  BY <1>1 DEF Message
<1>3. Msg("kLayerFinish") \in Message
  BY DEF Msg, Message, MessageTypes
<1>4. PICK m : m = Msg("kLayerFinish") /\ m \in Message
  BY <1>3
<1>5. tm' = TM!SendMessage(tm, id, m)
  BY <1>2, <1>4 DEF MainFinish
<1>6. /\ TM!SchedulerInv(tm') /\ tm'.level = tm.level /\ tm'.cpu = tm.cpu
      /\ tm'.latest_id_ = tm.latest_id_
      /\ id \notin 1..tm.latest_id_ => tm' = tm
      /\ id \in 1..tm.latest_id_ =>
           /\ tm'.msgs[id] = Append(tm.msgs[id], m) /\ tm'.running[id]
           /\ \A u \in 1..3 : u # id => tm'.msgs[u] = tm.msgs[u] /\ tm'.running[u] = tm.running[u]
  <2>1. id \in 0..3 /\ m \in Message
    BY <1>2, <1>4
  <2>2. /\ TM!SchedulerInv(tm') /\ tm'.level = tm.level /\ tm'.cpu = tm.cpu
        /\ tm'.latest_id_ = tm.latest_id_
    BY <1>5, <2>1, SendFacts
  <2>3. id \notin 1..tm.latest_id_ => tm' = tm
    BY <1>5, <2>1, SendFacts
  <2>4. ASSUME id \in 1..tm.latest_id_
        PROVE  /\ tm'.msgs[id] = Append(tm.msgs[id], m) /\ tm'.running[id]
               /\ \A u \in 1..3 : u # id => tm'.msgs[u] = tm.msgs[u] /\ tm'.running[u] = tm.running[u]
    <3>0. id \in 1..3
      <4>1. tm.latest_id_ \in 2..3
        BY StateFields
      <4> QED BY <2>4, <4>1
    <3>1. tm'.msgs[id] = Append(tm.msgs[id], m) /\ tm'.running[id]
      BY <1>5, <2>1, <2>4, <3>0, SendArrives
    <3>2. ASSUME NEW u \in 1..3, u # id
          PROVE  tm'.msgs[u] = tm.msgs[u] /\ tm'.running[u] = tm.running[u]
      BY <1>5, <2>1, <2>4, <3>0, <3>2, SendElsewhere
    <3> QED BY <3>1, <3>2
  <2> QED BY <2>2, <2>3, <2>4
<1> QED BY <1>4, <1>6

\* Main's and the terminal's calls of the scheduler keep the rest.
LEMMA MainCalls ==
  ASSUME Rest, Types, TM!SchedulerInv(tm), Levelled(tm), AsleepOnlyWithoutMail,
         \/ MainNewTask \/ MainWakeupTerminal \/ MainReceive \/ MainSleep
         \/ MainObserverEnd \/ MainForward \/ MainFinish
  PROVE  /\ Rest' /\ Types'
         /\ TM!SchedulerInv(tm') /\ tm'.level = tm.level /\ AsleepOnlyWithoutMail'
<1> USE DEF MainStep, At, Goto, SetIF, Main, Idle, Terminal, Tasks,
     taskVars, screenVars, xhcVars, envVars, raceVars,
     StartLabels, EventLabels, MsgLabels, MaskedMain, MaskedTerminal, MainLabels, TerminalLabels
<1>0. /\ tm.msgs \in [1..3 -> Seq(Message)] /\ tm.running \in [1..3 -> BOOLEAN]
      /\ tm.latest_id_ \in 2..3 /\ tm.running[tm.cpu] /\ tm.cpu \in 1..3
  BY StateFields, CpuRuns
<1>1. CASE MainNewTask
  <2>1. /\ TM!SchedulerInv(tm') /\ tm'.level = tm.level /\ tm'.cpu = tm.cpu /\ tm'.latest_id_ = 3
        /\ tm'.running = tm.running /\ tm'.msgs = tm.msgs
    BY <1>1, NewTaskFacts DEF MainNewTask, Rest, ControlOK
  <2>2. Types'
    BY <1>1 DEF MainNewTask, Types
  <2>3. ControlOK' /\ Stopped' /\ Masked'
    BY <1>1, <2>1 DEF MainNewTask, Types, Rest, ControlOK, Stopped, Masked
  <2>4. NoneBeforeSleep' /\ InScope' /\ AsleepOnlyWithoutMail'
    BY <1>1, <2>1 DEF MainNewTask, Types, Rest, NoneBeforeSleep, InScope, AsleepOnlyWithoutMail
  <2>5. MouseFirst' /\ ActiveMapped'
    BY <1>1 DEF MainNewTask, Types, Rest, MouseFirst, ActiveMapped
  <2> QED BY <2>1, <2>2, <2>3, <2>4, <2>5 DEF Rest
<1>2. CASE MainWakeupTerminal
  <2>1. /\ TM!SchedulerInv(tm') /\ tm'.level = tm.level /\ tm'.cpu = tm.cpu
        /\ tm'.latest_id_ = tm.latest_id_ /\ tm'.msgs = tm.msgs
        /\ tm'.running = [tm.running EXCEPT ![3] = TRUE]
    <3>1. tm.latest_id_ = 3 /\ tm' = TM!Wakeup(tm, 3, -1)
      BY <1>2 DEF MainWakeupTerminal, Rest, ControlOK
    <3> QED BY <3>1, WakeupFacts
  <2>2. Types'
    BY <1>2 DEF MainWakeupTerminal, Types
  <2>3. ControlOK' /\ Stopped' /\ Masked'
    BY <1>2, <2>1 DEF MainWakeupTerminal, Types, Rest, ControlOK, Stopped, Masked
  <2>4. NoneBeforeSleep' /\ InScope' /\ AsleepOnlyWithoutMail'
    <3>1. tm'.running[1] = tm.running[1] /\ tm'.running[3]
      BY <1>0, <2>1
    <3>2. AsleepOnlyWithoutMail'
      BY <2>1, <3>1 DEF AsleepOnlyWithoutMail
    <3>3. NoneBeforeSleep' /\ InScope'
      BY <1>2, <2>1 DEF MainWakeupTerminal, Types, Rest, NoneBeforeSleep, InScope
    <3> QED BY <3>2, <3>3
  <2>5. MouseFirst' /\ ActiveMapped'
    BY <1>2 DEF MainWakeupTerminal, Types, Rest, MouseFirst, ActiveMapped
  <2> QED BY <2>1, <2>2, <2>3, <2>4, <2>5 DEF Rest
<1>3. CASE MainReceive
  <2>1. /\ TM!SchedulerInv(tm') /\ tm'.level = tm.level /\ tm'.cpu = tm.cpu
        /\ tm'.latest_id_ = tm.latest_id_ /\ tm'.running = tm.running
        /\ tm.msgs[1] = <<>> => tm'.msgs = tm.msgs
        /\ tm.msgs[1] # <<>> => tm'.msgs[1] = Tail(tm.msgs[1])
        /\ tm'.msgs[3] = tm.msgs[3]
    <3>1. tm' = TM!ReceiveMessage(tm, 1)
      BY <1>3 DEF MainReceive
    <3> QED BY <3>1, ReceiveFacts
  <2>2. tm.msgs[1] # <<>> => Head(tm.msgs[1]) \in Message
    BY <1>0
  <2>3. Types'
    <3>1. CASE tm.msgs[1] = <<>>
      BY <1>3, <3>1 DEF MainReceive, Types
    <3>2. CASE tm.msgs[1] # <<>>
      BY <1>3, <2>2, <3>2 DEF MainReceive, Types
    <3> QED BY <3>1, <3>2
  <2>4. ControlOK' /\ Stopped' /\ Masked'
    BY <1>3, <2>1 DEF MainReceive, Types, Rest, ControlOK, Stopped, Masked
  <2>5. NoneBeforeSleep' /\ InScope'
    <3>1. tm'.msgs[3] = tm.msgs[3] /\ (tm.msgs[1] = <<>> => tm'.msgs[1] = <<>>)
      BY <1>0, <2>1
    <3>2. CASE tm.msgs[1] = <<>>
      BY <1>3, <3>1, <3>2 DEF MainReceive, Types, Rest, NoneBeforeSleep, InScope
    <3>3. CASE tm.msgs[1] # <<>>
      BY <1>3, <2>2, <3>1, <3>3 DEF MainReceive, Types, Rest, NoneBeforeSleep, InScope
    <3> QED BY <3>2, <3>3
  <2>6. AsleepOnlyWithoutMail'
    BY <1>0, <1>3, <2>1 DEF MainReceive, AsleepOnlyWithoutMail
  <2>7. MouseFirst' /\ ActiveMapped'
    BY <1>3 DEF MainReceive, Types, Rest, MouseFirst, ActiveMapped
  <2> QED BY <2>1, <2>3, <2>4, <2>5, <2>6, <2>7 DEF Rest
<1>4. CASE MainSleep
  <2>1. /\ TM!SchedulerInv(tm') /\ tm'.level = tm.level /\ tm'.cpu # 1
        /\ tm'.latest_id_ = tm.latest_id_ /\ tm'.msgs = tm.msgs
        /\ tm'.running = [tm.running EXCEPT ![1] = FALSE]
    BY <1>4, SleepFacts DEF MainSleep
  <2>2. Types'
    BY <1>4 DEF MainSleep, Types
  <2>3. ControlOK' /\ Stopped' /\ Masked'
    BY <1>4, <2>1 DEF MainSleep, Types, Rest, ControlOK, Stopped, Masked
  <2>4. NoneBeforeSleep' /\ InScope' /\ AsleepOnlyWithoutMail'
    <3>1. NoneBeforeSleep'
      BY <1>4, <2>1 DEF MainSleep, Types, Rest, NoneBeforeSleep
    <3>2. InScope'
      BY <1>4, <2>1 DEF MainSleep, Types, Rest, InScope
    <3>3. AsleepOnlyWithoutMail'
      <4>1. tm.msgs[1] = <<>>
        BY <1>4 DEF MainSleep, Rest, NoneBeforeSleep
      <4>2. tm'.running[3] = tm.running[3]
        BY <1>0, <2>1
      <4> QED BY <2>1, <4>1, <4>2 DEF AsleepOnlyWithoutMail
    <3> QED BY <3>1, <3>2, <3>3
  <2>5. MouseFirst' /\ ActiveMapped'
    BY <1>4 DEF MainSleep, Types, Rest, MouseFirst, ActiveMapped
  <2> QED BY <2>1, <2>2, <2>3, <2>4, <2>5 DEF Rest
<1>5. CASE MainObserverEnd
  <2>1. /\ MainStep("push_back", "pop") /\ raced' \in BOOLEAN /\ base' = 0
        /\ UNCHANGED <<iflag, msg, cursor_timers, screenVars, xhcVars, envVars>>
    <3>1. raced' = (raced \/ Len(tm.msgs[Main]) > base)
      BY <1>5 DEF MainObserverEnd
    <3>2. raced' \in BOOLEAN
      BY <3>1
    <3> QED BY <1>5, <3>2, ZenonT(30) DEF MainObserverEnd
  <2>2. /\ TM!SchedulerInv(tm') /\ tm'.level = tm.level /\ tm'.cpu = tm.cpu
        /\ tm'.latest_id_ = tm.latest_id_ /\ tm'.running = tm.running
        /\ tm'.msgs[3] = tm.msgs[3]
    <3>1. 3 \in 1..3 /\ 3 # Main
      BY DEF Main
    <3>2. InScope
      BY DEF Rest
    <3> QED BY <1>5, <3>1, <3>2, ObserverFacts
  <2>3. Types'
    BY <2>1 DEF Types
  <2>4. ControlOK' /\ Stopped' /\ Masked'
    BY <2>1, <2>2 DEF Types, Rest, ControlOK, Stopped, Masked
  <2>5. NoneBeforeSleep' /\ InScope'
    <3>1. tm'.msgs[3] = tm.msgs[3]
      BY <2>2
    <3> QED BY <2>1, <3>1 DEF Types, Rest, NoneBeforeSleep, InScope
  <2>6. AsleepOnlyWithoutMail'
    <3>1. tm'.msgs[3] = tm.msgs[3] /\ tm'.running[1]
      BY <1>0, <2>1, <2>2
    <3> QED BY <2>2, <3>1 DEF AsleepOnlyWithoutMail
  <2>7. MouseFirst' /\ ActiveMapped'
    BY <2>1 DEF Types, Rest, MouseFirst, ActiveMapped
  <2> QED BY <2>2, <2>3, <2>4, <2>5, <2>6, <2>7 DEF Rest
<1>6. CASE MainForward
  <2>1. msg[1] \in Message /\ tm.latest_id_ = 3 /\ tm' = TM!SendMessage(tm, 3, msg[1])
    BY <1>6 DEF MainForward, Rest, InScope, ControlOK
  <2>2. /\ TM!SchedulerInv(tm') /\ tm'.level = tm.level /\ tm'.cpu = tm.cpu
        /\ tm'.latest_id_ = tm.latest_id_
        /\ tm'.msgs[1] = tm.msgs[1] /\ tm'.running[1] = tm.running[1] /\ tm'.running[3]
    <3>1. 3 \in 0..3 /\ 3 \in 1..tm.latest_id_ /\ 1 \in 1..3 /\ 1 # 3
      BY <2>1
    <3>2. /\ TM!SchedulerInv(tm') /\ tm'.level = tm.level /\ tm'.cpu = tm.cpu
          /\ tm'.latest_id_ = tm.latest_id_ /\ tm'.running[3]
      BY <2>1, <3>1, SendFacts
    <3>3. tm'.msgs[1] = tm.msgs[1] /\ tm'.running[1] = tm.running[1]
      <4>1. 3 \in 1..3
        OBVIOUS
      <4> QED BY <2>1, <3>1, <4>1, SendElsewhere
    <3> QED BY <3>2, <3>3
  <2>3. Types'
    BY <1>6 DEF MainForward, Types
  <2>4. ControlOK' /\ Stopped' /\ Masked'
    BY <1>6, <2>2 DEF MainForward, Types, Rest, ControlOK, Stopped, Masked
  <2>5. NoneBeforeSleep' /\ InScope' /\ AsleepOnlyWithoutMail'
    BY <1>0, <1>6, <2>2 DEF MainForward, Types, Rest, NoneBeforeSleep, InScope, AsleepOnlyWithoutMail, Stopped
  <2>6. MouseFirst' /\ ActiveMapped'
    BY <1>6 DEF MainForward, Types, Rest, MouseFirst, ActiveMapped
  <2> QED BY <2>2, <2>3, <2>4, <2>5, <2>6 DEF Rest
<1>7. CASE MainFinish
  <2>4. /\ TM!SchedulerInv(tm') /\ tm'.level = tm.level /\ tm'.cpu = tm.cpu
        /\ tm'.latest_id_ = tm.latest_id_
        /\ \A u \in 1..3 : \/ tm'.msgs[u] = tm.msgs[u] /\ tm'.running[u] = tm.running[u]
                           \/ tm'.running[u]
    BY <1>7, FinishFacts DEF Rest
  <2>5. Types'
    BY <1>7 DEF MainFinish, Types
  <2>6. ControlOK' /\ Stopped' /\ Masked'
    BY <1>7, <2>4 DEF MainFinish, Types, Rest, ControlOK, Stopped, Masked
  <2>7. NoneBeforeSleep' /\ InScope'
    BY <1>0, <1>7, <2>4 DEF MainFinish, Types, Rest, NoneBeforeSleep, InScope, Stopped
  <2>8. AsleepOnlyWithoutMail'
    BY <1>0, <2>4 DEF AsleepOnlyWithoutMail
  <2>9. MouseFirst' /\ ActiveMapped'
    BY <1>7 DEF MainFinish, Types, Rest, MouseFirst, ActiveMapped
  <2> QED BY <2>4, <2>5, <2>6, <2>7, <2>8, <2>9 DEF Rest
<1> QED BY <1>1, <1>2, <1>3, <1>4, <1>5, <1>6, <1>7
LEMMA TerminalCalls ==
  ASSUME Rest, Types, TM!SchedulerInv(tm), Levelled(tm), AsleepOnlyWithoutMail,
         TerminalReceive \/ TerminalSleep \/ TerminalReply
  PROVE  /\ Rest' /\ Types'
         /\ TM!SchedulerInv(tm') /\ tm'.level = tm.level /\ AsleepOnlyWithoutMail'
<1> USE DEF TerminalStep, At, Goto, SetIF, Main, Idle, Terminal, Tasks,
     taskVars, screenVars, xhcVars, envVars, raceVars,
     StartLabels, EventLabels, MsgLabels, MaskedMain, MaskedTerminal, MainLabels, TerminalLabels
<1>0. /\ tm.msgs \in [1..3 -> Seq(Message)] /\ tm.running \in [1..3 -> BOOLEAN]
      /\ tm.latest_id_ \in 2..3 /\ tm.running[tm.cpu] /\ tm.cpu \in 1..3
  BY StateFields, CpuRuns
<1>1. CASE TerminalReceive
  <2>1. /\ TM!SchedulerInv(tm') /\ tm'.level = tm.level /\ tm'.cpu = tm.cpu
        /\ tm'.latest_id_ = tm.latest_id_ /\ tm'.running = tm.running
        /\ tm.msgs[3] = <<>> => tm'.msgs = tm.msgs
        /\ tm'.msgs[1] = tm.msgs[1]
    <3>1. tm' = TM!ReceiveMessage(tm, 3)
      BY <1>1 DEF TerminalReceive
    <3> QED BY <3>1, ReceiveFacts
  <2>2. tm.msgs[3] # <<>> => Head(tm.msgs[3]) \in Message
    BY <1>0
  <2>3. CASE tm.msgs[3] = <<>>
    <3>1. Types'
      BY <1>1, <2>3 DEF TerminalReceive, Types
    <3>2. ControlOK' /\ Stopped' /\ Masked'
      BY <1>1, <2>1, <2>3 DEF TerminalReceive, Types, Rest, ControlOK, Stopped, Masked
    <3>3. NoneBeforeSleep' /\ InScope' /\ AsleepOnlyWithoutMail'
      BY <1>1, <2>1, <2>3 DEF TerminalReceive, Types, Rest, NoneBeforeSleep, InScope, AsleepOnlyWithoutMail
    <3>4. MouseFirst' /\ ActiveMapped'
      BY <1>1, <2>3 DEF TerminalReceive, Types, Rest, MouseFirst, ActiveMapped
    <3> QED BY <2>1, <3>1, <3>2, <3>3, <3>4 DEF Rest
  <2>4. CASE tm.msgs[3] # <<>>
    <3>0. /\ msg' = [msg EXCEPT ![3] = Head(tm.msgs[3])]
          /\ \E to \in {"handle", "loop"} : pc' = [pc EXCEPT ![3] = to]
          /\ pc[3] = "receive" /\ tm.cpu = 3 /\ iflag' = iflag
      BY <1>1, <2>4 DEF TerminalReceive
    <3>1. Types'
      BY <1>1, <2>2, <2>4, <3>0 DEF TerminalReceive, Types
    <3>2. ControlOK' /\ Stopped' /\ Masked'
      BY <2>1, <3>0 DEF Types, Rest, ControlOK, Stopped, Masked
    <3>3. NoneBeforeSleep' /\ InScope' /\ AsleepOnlyWithoutMail'
      <4>1. pc'[1] = pc[1] /\ pc'[3] # "sleep" /\ msg'[1] = msg[1]
        BY <3>0 DEF Types
      <4>2. ring' = ring /\ base' = base
        BY <1>1 DEF TerminalReceive
      <4>3. tm'.running[3]
        BY <1>0, <2>1, <3>0
      <4> QED
        BY <2>1, <4>1, <4>2, <4>3 DEF Rest, NoneBeforeSleep, InScope, AsleepOnlyWithoutMail
    <3>4. MouseFirst' /\ ActiveMapped'
      BY <1>1, <3>0 DEF TerminalReceive, Types, Rest, MouseFirst, ActiveMapped
    <3> QED BY <2>1, <3>1, <3>2, <3>3, <3>4 DEF Rest
  <2> QED BY <2>3, <2>4
<1>2. CASE TerminalSleep
  <2>1. /\ TM!SchedulerInv(tm') /\ tm'.level = tm.level /\ tm'.cpu # 3
        /\ tm'.latest_id_ = tm.latest_id_ /\ tm'.msgs = tm.msgs
        /\ tm'.running = [tm.running EXCEPT ![3] = FALSE]
    BY <1>2, SleepFacts DEF TerminalSleep
  <2>2. Types'
    BY <1>2 DEF TerminalSleep, Types
  <2>3. ControlOK' /\ Stopped' /\ Masked'
    BY <1>2, <2>1 DEF TerminalSleep, Types, Rest, ControlOK, Stopped, Masked
  <2>4. NoneBeforeSleep' /\ InScope' /\ AsleepOnlyWithoutMail'
    <3>1. NoneBeforeSleep'
      BY <1>2, <2>1 DEF TerminalSleep, Types, Rest, NoneBeforeSleep
    <3>2. InScope'
      BY <1>2, <2>1 DEF TerminalSleep, Types, Rest, InScope
    <3>3. AsleepOnlyWithoutMail'
      <4>1. tm.msgs[3] = <<>>
        BY <1>2 DEF TerminalSleep, Rest, NoneBeforeSleep
      <4>2. tm'.running[1] = tm.running[1]
        BY <1>0, <2>1
      <4> QED BY <2>1, <4>1, <4>2 DEF AsleepOnlyWithoutMail
    <3> QED BY <3>1, <3>2, <3>3
  <2>5. MouseFirst' /\ ActiveMapped'
    BY <1>2 DEF TerminalSleep, Types, Rest, MouseFirst, ActiveMapped
  <2> QED BY <2>1, <2>2, <2>3, <2>4, <2>5 DEF Rest
<1>3. CASE TerminalReply
  <2>0. [type |-> "kLayer", src_task |-> 3] \in Message
    BY DEF Message, MessageTypes
  <2>1. PICK m : m = [type |-> "kLayer", src_task |-> 3] /\ m \in Message
    BY <2>0
  <2>2. tm' = TM!SendMessage(tm, 1, m) /\ 1 \in 0..3 /\ 1 \in 1..tm.latest_id_
    BY <1>0, <1>3, <2>1 DEF TerminalReply
  <2>3. /\ TM!SchedulerInv(tm') /\ tm'.level = tm.level /\ tm'.cpu = tm.cpu
        /\ tm'.latest_id_ = tm.latest_id_ /\ tm'.running[1]
    BY <2>1, <2>2, SendFacts
  <2>4. tm'.msgs[3] = tm.msgs[3] /\ tm'.running[3] = tm.running[3]
    BY <2>1, <2>2, SendFacts
  <2>5. Types'
    BY <1>3 DEF TerminalReply, Types
  <2>6. ControlOK' /\ Stopped' /\ Masked'
    BY <1>3, <2>3 DEF TerminalReply, Types, Rest, ControlOK, Stopped, Masked
  <2>7. NoneBeforeSleep' /\ InScope' /\ AsleepOnlyWithoutMail'
    BY <1>3, <2>3, <2>4 DEF TerminalReply, Types, Rest, Stopped, NoneBeforeSleep, InScope, AsleepOnlyWithoutMail
  <2>8. MouseFirst' /\ ActiveMapped'
    BY <1>3 DEF TerminalReply, Types, Rest, MouseFirst, ActiveMapped
  <2> QED BY <2>3, <2>5, <2>6, <2>7, <2>8 DEF Rest
<1> QED BY <1>1, <1>2, <1>3

\* The handlers send to main, and the timer's may switch tasks: what they do
\* to the scheduler.
Handled(m, ticked, r) ==
  /\ m \in Message
  /\ ticked = tm \/ ticked = TM!SendMessage(tm, Main, m)
  /\ r = ticked \/ r = TM!SwitchTask(ticked, FALSE)

LEMMA HandlerFacts ==
  ASSUME TM!SchedulerInv(tm), Levelled(tm), NEW m, NEW ticked, NEW r, Handled(m, ticked, r)
  PROVE  /\ TM!SchedulerInv(r) /\ r.level = tm.level /\ r.latest_id_ = tm.latest_id_
         /\ \A u \in 1..3 : u # Main => r.msgs[u] = tm.msgs[u] /\ r.running[u] = tm.running[u]
         /\ \/ r.msgs = tm.msgs /\ r.running = tm.running /\ ticked = tm
            \/ r.msgs[Main] = Append(tm.msgs[Main], m) /\ r.running[Main]
         /\ tm.running[Main] => r.cpu = Main \/ r.cpu = tm.cpu
<1>0. Main \in 0..3 /\ Main \in 1..tm.latest_id_ /\ m \in Message
  BY StateFields DEF Main, Handled
<1>1. /\ TM!SchedulerInv(ticked) /\ ticked.level = tm.level /\ ticked.latest_id_ = tm.latest_id_
      /\ ticked.cpu = tm.cpu
      /\ \/ ticked = tm
         \/ ticked.msgs[Main] = Append(tm.msgs[Main], m) /\ ticked.running[Main]
      /\ \A u \in 1..3 : u # Main => ticked.msgs[u] = tm.msgs[u] /\ ticked.running[u] = tm.running[u]
  <2>1. CASE ticked = tm
    BY <2>1
  <2>2. CASE ticked = TM!SendMessage(tm, Main, m)
    <3>0. /\ TM!SchedulerInv(ticked) /\ ticked.level = tm.level /\ ticked.latest_id_ = tm.latest_id_
          /\ ticked.cpu = tm.cpu
      BY <1>0, <2>2, SendFacts
    <3>1. ticked.msgs[Main] = Append(tm.msgs[Main], m) /\ ticked.running[Main]
      <4>1. PICK id : id = Main
        OBVIOUS
      <4>2. ticked = TM!SendMessage(tm, id, m) /\ id \in 0..3 /\ id \in 1..tm.latest_id_ /\ m \in Message
        BY <1>0, <2>2, <4>1
      <4>3. id \in 1..3
        BY <4>1 DEF Main
      <4>4. ticked.msgs[id] = Append(tm.msgs[id], m) /\ ticked.running[id]
        BY <4>2, <4>3, SendArrives
      <4> QED BY <4>1, <4>4
    <3>2. ASSUME NEW u \in 1..3, u # Main
          PROVE  ticked.msgs[u] = tm.msgs[u] /\ ticked.running[u] = tm.running[u]
      <4>1. PICK id : id = Main
        OBVIOUS
      <4>2. id \in 1..3 /\ id \in 1..tm.latest_id_ /\ u # id
        BY <1>0, <3>2, <4>1 DEF Main
      <4>3. ticked = TM!SendMessage(tm, id, m) /\ m \in Message /\ TM!SchedulerInv(tm)
        BY <1>0, <2>2, <4>1
      <4> QED BY <4>2, <4>3, SendElsewhere
    <3> QED BY <3>0, <3>1, <3>2
  <2> QED BY <2>1, <2>2 DEF Handled
<1>2. CASE r = TM!SwitchTask(ticked, FALSE)
  <2>1. Levelled(ticked)
    BY <1>1 DEF Levelled
  <2>2. /\ TM!SchedulerInv(r) /\ r.msgs = ticked.msgs /\ r.running = ticked.running
        /\ r.level = ticked.level /\ r.latest_id_ = ticked.latest_id_
        /\ ticked.running[Main] => r.cpu = Main
    BY <1>1, <1>2, <2>1, SwitchFacts
  <2> QED BY <1>1, <2>2
<1>3. CASE r = ticked
  BY <1>1, <1>3
<1> QED BY <1>2, <1>3 DEF Handled

\* An interrupt arrives where interrupts are enabled, so neither between a
\* task's check for a message and its Sleep, nor in the terminal's sections.
LEMMA Interrupts ==
  ASSUME Rest, Types, TM!SchedulerInv(tm), Levelled(tm), AsleepOnlyWithoutMail,
         XHCIInterrupt \/ \E cursor, task \in BOOLEAN : TimerInterrupt(cursor, task)
  PROVE  /\ Rest' /\ Types'
         /\ TM!SchedulerInv(tm') /\ tm'.level = tm.level /\ AsleepOnlyWithoutMail'
<1>0. /\ tm.msgs \in [1..3 -> Seq(Message)] /\ tm.running[tm.cpu] /\ tm.cpu \in 1..3
  BY StateFields, CpuRuns
<1>1. PICK m, ticked : Handled(m, ticked, tm')
  <2>1. Msg("kInterruptXHCI") \in Message /\ Msg("kTimerTimeout") \in Message
    BY DEF Msg, Message, MessageTypes
  <2>2. CASE XHCIInterrupt
    BY <2>1, <2>2 DEF XHCIInterrupt, Handled
  <2>3. CASE \E cursor, task \in BOOLEAN : TimerInterrupt(cursor, task)
    BY <2>1, <2>3 DEF TimerInterrupt, Handled
  <2> QED BY <2>2, <2>3
<1>2. /\ TM!SchedulerInv(tm') /\ tm'.level = tm.level /\ tm'.latest_id_ = tm.latest_id_
      /\ \A u \in 1..3 : u # Main => tm'.msgs[u] = tm.msgs[u] /\ tm'.running[u] = tm.running[u]
      /\ \/ tm'.msgs = tm.msgs /\ tm'.running = tm.running
         \/ tm'.msgs[Main] = Append(tm.msgs[Main], m) /\ tm'.running[Main]
      /\ tm.running[Main] => tm'.cpu = Main \/ tm'.cpu = tm.cpu
  BY <1>1, HandlerFacts
<1>3. /\ iflag[tm.cpu] /\ UNCHANGED <<taskVars, screenVars, ring, raceVars>>
  BY DEF XHCIInterrupt, TimerInterrupt, InterruptsEnabled, xhcVars
<1> USE DEF Main, Idle, Terminal, Tasks, taskVars, screenVars, raceVars
<1>4. Types'
  <2>1. CASE XHCIInterrupt
    BY <2>1 DEF XHCIInterrupt, Types, envVars
  <2>2. CASE \E cursor, task \in BOOLEAN : TimerInterrupt(cursor, task)
    <3>1. PICK c \in BOOLEAN, k \in BOOLEAN : TimerInterrupt(c, k)
      BY <2>2
    <3>2. cursor_timers' \in Nat /\ timeouts' \in 0..MaxTimeouts
      BY <3>1, KernelAssumption DEF TimerInterrupt, Types
    <3> QED BY <3>1, <3>2 DEF TimerInterrupt, Types, xhcVars, envVars
  <2> QED BY <2>1, <2>2
<1>5. ControlOK' /\ Masked'
  BY <1>2, <1>3 DEF Rest, ControlOK, Masked
<1>6. Stopped'
  <2>1. tm'.cpu # 1 => pc'[1] = "awake"
    BY <1>0, <1>2, <1>3 DEF Rest, Stopped
  <2>2. tm'.cpu # 3 => pc'[3] \in {"start", "loop", "awake"}
    <3>1. CASE tm.cpu = 3
      BY <1>3, <3>1 DEF Rest, ControlOK, Masked, MaskedTerminal, TerminalLabels
    <3>2. CASE tm.cpu # 3
      BY <1>3, <3>2 DEF Rest, Stopped
    <3> QED BY <3>1, <3>2
  <2> QED BY <2>1, <2>2 DEF Stopped
<1>7. NoneBeforeSleep'
  <2>1. pc[1] # "sleep"
    BY <1>3 DEF Rest, Stopped, Masked, MaskedMain
  <2> QED BY <1>2, <1>3, <2>1 DEF Rest, NoneBeforeSleep
<1>8. AsleepOnlyWithoutMail'
  BY <1>1, <1>2 DEF AsleepOnlyWithoutMail
<1>9. InScope'
  <2>1. Len(tm'.msgs[1]) >= Len(tm.msgs[1])
    BY <1>0, <1>1, <1>2
  <2>2. pc[1] = "push_back" => base <= Len(tm'.msgs[1])
    <3>1. Len(tm.msgs[1]) \in Nat /\ Len(tm'.msgs[1]) \in Nat /\ base \in Nat
      BY <1>0, <1>2, StateFields, SMTT(30) DEF Types
    <3> QED BY <2>1, <3>1 DEF Rest, InScope
  <2> QED BY <1>3, <2>2 DEF Rest, InScope
<1>10. MouseFirst' /\ ActiveMapped'
  BY <1>3 DEF Rest, MouseFirst, ActiveMapped
<1> QED BY <1>2, <1>4, <1>5, <1>6, <1>7, <1>8, <1>9, <1>10 DEF Rest
-----------------------------------------------------------------------------
(* The cursor timer *)

TimeoutsIn(q) == {k \in 1..Len(q) : q[k].type = "kTimerTimeout"}
AtMostOne(S) == \A j, k \in S : j = k
Handling ==
  IF \/ pc[Main] = "rearm"
     \/ pc[Main] = "dispatch" /\ msg[Main].type = "kTimerTimeout"
  THEN 1 ELSE 0

LEMMA ChainMeans ==
  CursorTimerChain <=>
    (~raced => /\ AtMostOne(TimeoutsIn(tm.msgs[Main]))
               /\ cursor_timers + (IF TimeoutsIn(tm.msgs[Main]) = {} THEN 0 ELSE 1) + Handling = 1)
BY Zenon DEF CursorTimerChain, PendingTimeouts, TimeoutsIn, AtMostOne, Handling

\* Another message leaves the timeouts of a queue where they are.
LEMMA AppendOther ==
  ASSUME NEW q \in Seq(Message), NEW m \in Message, m.type # "kTimerTimeout"
  PROVE  TimeoutsIn(Append(q, m)) = TimeoutsIn(q)
<1> DEFINE r == Append(q, m)
<1>1. /\ Len(q) \in Nat /\ Len(r) = Len(q) + 1 /\ r[Len(q) + 1] = m
      /\ \A k \in 1..Len(q) : r[k] = q[k]
  BY AppendProperties
<1> HIDE DEF r
<1>2. \A k : k \in 1..Len(r) <=> k \in 1..Len(q) \/ k = Len(q) + 1
  BY <1>1
<1>3. r[Len(q) + 1].type # "kTimerTimeout"
  BY <1>1
<1>4. ASSUME NEW k PROVE k \in TimeoutsIn(r) <=> k \in TimeoutsIn(q)
  BY <1>1, <1>2, <1>3 DEF TimeoutsIn
<1> QED BY <1>4 DEF r

\* A timeout is the last element of the queue it joins.
LEMMA AppendTimeout ==
  ASSUME NEW q \in Seq(Message), NEW m \in Message, m.type = "kTimerTimeout", TimeoutsIn(q) = {}
  PROVE  TimeoutsIn(Append(q, m)) = {Len(q) + 1}
<1> DEFINE r == Append(q, m)
<1>1. /\ Len(q) \in Nat /\ Len(r) = Len(q) + 1 /\ r[Len(q) + 1] = m
      /\ \A k \in 1..Len(q) : r[k] = q[k]
  BY AppendProperties
<1> HIDE DEF r
<1>2. \A k : k \in 1..Len(r) <=> k \in 1..Len(q) \/ k = Len(q) + 1
  BY <1>1
<1>3. r[Len(q) + 1].type = "kTimerTimeout"
  BY <1>1
<1>4. \A k \in 1..Len(q) : r[k].type # "kTimerTimeout"
  BY <1>1 DEF TimeoutsIn
<1>5. ASSUME NEW k PROVE k \in TimeoutsIn(r) <=> k = Len(q) + 1
  BY <1>2, <1>3, <1>4 DEF TimeoutsIn
<1> QED BY <1>5 DEF r

\* The head of a queue with one timeout takes it away or leaves it.
LEMMA TailTimeouts ==
  ASSUME NEW q \in Seq(Message), q # <<>>, AtMostOne(TimeoutsIn(q))
  PROVE  /\ AtMostOne(TimeoutsIn(Tail(q)))
         /\ Head(q).type = "kTimerTimeout" => TimeoutsIn(Tail(q)) = {} /\ TimeoutsIn(q) # {}
         /\ Head(q).type # "kTimerTimeout" => (TimeoutsIn(Tail(q)) = {} <=> TimeoutsIn(q) = {})
<1> DEFINE r == Tail(q)
<1>1. /\ Len(q) \in Nat /\ Len(q) > 0 /\ Len(r) = Len(q) - 1 /\ Head(q) = q[1]
      /\ \A k \in 1..Len(r) : r[k] = q[k + 1]
  BY HeadTailProperties
<1> HIDE DEF r
<1>2. \A k \in 1..Len(r) : k + 1 \in 1..Len(q)
  BY <1>1
<1>3. \A k \in TimeoutsIn(r) : k \in Int /\ k >= 1 /\ k + 1 \in TimeoutsIn(q)
  BY <1>1, <1>2 DEF TimeoutsIn
<1>4. AtMostOne(TimeoutsIn(r))
  <2> SUFFICES ASSUME NEW j \in TimeoutsIn(r), NEW k \in TimeoutsIn(r) PROVE j = k
    BY DEF AtMostOne
  <2>1. j + 1 \in TimeoutsIn(q) /\ k + 1 \in TimeoutsIn(q) /\ j \in Int /\ k \in Int
    BY <1>3
  <2>2. j + 1 = k + 1
    BY <2>1 DEF AtMostOne
  <2> QED BY <2>1, <2>2
<1>5. ASSUME Head(q).type = "kTimerTimeout" PROVE TimeoutsIn(r) = {} /\ TimeoutsIn(q) # {}
  <2>1. 1 \in TimeoutsIn(q)
    BY <1>1, <1>5 DEF TimeoutsIn
  <2>2. ASSUME NEW k \in TimeoutsIn(r) PROVE FALSE
    <3>1. k + 1 \in TimeoutsIn(q) /\ k \in Int /\ k >= 1
      BY <1>3
    <3>2. k + 1 = 1
      BY <2>1, <3>1 DEF AtMostOne
    <3> QED BY <3>1, <3>2
  <2> QED BY <2>1, <2>2
<1>6. ASSUME Head(q).type # "kTimerTimeout", NEW k \in TimeoutsIn(q)
      PROVE  TimeoutsIn(r) # {}
  <2>1. k \in 1..Len(q) /\ q[k].type = "kTimerTimeout"
    BY DEF TimeoutsIn
  <2>2. k # 1
    BY <1>1, <1>6, <2>1
  <2>3. k - 1 \in 1..Len(r) /\ (k - 1) + 1 = k
    BY <1>1, <2>1, <2>2
  <2>4. r[k - 1] = q[k]
    BY <1>1, <2>3
  <2> QED BY <2>1, <2>3, <2>4 DEF TimeoutsIn
<1> QED BY <1>3, <1>4, <1>5, <1>6 DEF r

\* Steps that do not touch the chain.
LEMMA ChainSame ==
  ASSUME CursorTimerChain, tm.msgs[Main] \in Seq(Message),
         \/ tm'.msgs[Main] = tm.msgs[Main]
         \/ \E m \in Message : /\ m.type # "kTimerTimeout"
                               /\ tm'.msgs[Main] = Append(tm.msgs[Main], m),
         cursor_timers' = cursor_timers, raced' = raced, Handling' = Handling
  PROVE  CursorTimerChain'
<1>1. TimeoutsIn(tm'.msgs[Main]) = TimeoutsIn(tm.msgs[Main])
  BY AppendOther
<1>2. (CursorTimerChain <=>
        (~raced => /\ AtMostOne(TimeoutsIn(tm.msgs[Main]))
                   /\ cursor_timers + (IF TimeoutsIn(tm.msgs[Main]) = {} THEN 0 ELSE 1) + Handling = 1))'
  BY ChainMeans, PTL
<1> QED BY <1>1, <1>2, ChainMeans
\* What a message sent to main, or to the terminal, does to main's queue.
LEMMA SendToMain ==
  ASSUME TM!SchedulerInv(tm), NEW m, m \in Message, NEW r, r = TM!SendMessage(tm, Main, m)
  PROVE  TM!SchedulerInv(r) /\ r.msgs[Main] = Append(tm.msgs[Main], m)
<1>1. PICK id : id = Main
  OBVIOUS
<1>2. r = TM!SendMessage(tm, id, m) /\ id \in 0..3 /\ id \in 1..tm.latest_id_
  BY <1>1, StateFields DEF Main
<1>3. TM!SchedulerInv(r)
  BY <1>2, SendFacts
<1>4. id \in 1..3
  BY <1>1 DEF Main
<1>5. r.msgs[id] = Append(tm.msgs[id], m)
  BY <1>2, <1>4, SendArrives
<1> QED BY <1>1, <1>3, <1>5

LEMMA SendToTerminal ==
  ASSUME TM!SchedulerInv(tm), NEW m, m \in Message, NEW r, r = TM!SendMessage(tm, Terminal, m)
  PROVE  r.msgs[Main] = tm.msgs[Main]
<1>1. PICK id : id = Terminal
  OBVIOUS
<1>2. r = TM!SendMessage(tm, id, m) /\ id \in 0..3 /\ Main \in 1..3 /\ Main # id
  BY <1>1 DEF Main, Terminal
<1>3. CASE id \in 1..tm.latest_id_
  <2>1. \A u \in 1..3 : u # id => r.msgs[u] = tm.msgs[u]
    <3> SUFFICES ASSUME NEW u \in 1..3, u # id PROVE r.msgs[u] = tm.msgs[u]
      OBVIOUS
    <3> QED BY <1>2, <1>3, SendFacts, SMTT(30)
  <2> QED BY <1>2, <2>1
<1>4. CASE id \notin 1..tm.latest_id_
  <2>1. r = tm
    BY <1>2, <1>4, SendFacts
  <2> QED BY <2>1
<1> QED BY <1>3, <1>4

\* What main does between an expiry and the re-arming of the timer, and what
\* the timer handler does, keep the chain whole.
LEMMA ChainMain ==
  ASSUME IInv, MainNext
  PROVE  CursorTimerChain'
<1>0. /\ Rest /\ Types /\ TM!SchedulerInv(tm) /\ tm.msgs \in [1..3 -> Seq(Message)]
      /\ Levelled(tm) /\ CursorTimerChain
  BY StateFields DEF IInv, Rest, Types, TypeOK
<1>a. (CursorTimerChain <=>
        (~raced => /\ AtMostOne(TimeoutsIn(tm.msgs[Main]))
                   /\ cursor_timers + (IF TimeoutsIn(tm.msgs[Main]) = {} THEN 0 ELSE 1) + Handling = 1))'
  BY ChainMeans, PTL
<1>b. tm.msgs[Main] \in Seq(Message)
  BY <1>0 DEF Main
<1> USE DEF MainStep, At, Goto, raceVars
<1>1. CASE \/ MainInitXHCI \/ MainInitMouse \/ MainDraw \/ MainAwake
           \/ MainProcessEvents \/ MainOtherEvent \/ MainMouseEvent
           \/ MainObserverBegin \/ MainPop \/ MainDrawCursor
           \/ MainKey \/ MainInputText \/ MainLayer
  <2>1. tm' = tm
    BY <1>0, <1>1, MainQuiet
  <2>2. cursor_timers' = cursor_timers /\ raced' = raced
    BY <1>1 DEF MainInitXHCI, MainInitMouse, MainDraw, MainAwake, MainProcessEvents, MainOtherEvent,
       MainMouseEvent, MainObserverBegin, MainPop, MainDrawCursor, MainKey, MainInputText, MainLayer
  <2>3. ring # <<>> => Head(ring) \in {"key_event", "mouse_event", "other_event"}
    BY <1>0 DEF Types
  <2>4. Handling' = Handling
    <3>1. pc[Main] \notin {"rearm", "dispatch"} /\ pc'[Main] \notin {"rearm", "dispatch"}
      BY <1>0, <1>1, <2>3 DEF MainInitXHCI, MainInitMouse, MainDraw, MainAwake, MainProcessEvents, MainOtherEvent,
         MainMouseEvent, MainObserverBegin, MainPop, MainDrawCursor, MainKey, MainInputText, MainLayer,
         Types, Main, Tasks
    <3> QED BY <3>1 DEF Handling
  <2> QED BY <1>0, <1>b, <2>1, <2>2, <2>4, ChainSame
<1>2. CASE MainDispatch
  <2>1. tm' = tm /\ cursor_timers' = cursor_timers /\ raced' = raced /\ msg' = msg
    BY <1>2 DEF MainDispatch
  <2>2. pc[Main] = "dispatch" /\ (pc'[Main] = "rearm" <=> msg[Main].type = "kTimerTimeout")
        /\ pc'[Main] # "dispatch"
    BY <1>0, <1>2 DEF MainDispatch, Types, Main, Tasks
  <2>3. Handling' = Handling
    BY <2>2 DEF Handling
  <2> QED BY <1>0, <1>b, <2>1, <2>3, ChainSame
<1>3. CASE MainRearm
  <2>1. tm' = tm /\ cursor_timers' = cursor_timers + 1 /\ raced' = raced
    BY <1>3 DEF MainRearm
  <2>2. pc[Main] = "rearm" /\ pc'[Main] = "draw_cursor"
    BY <1>0, <1>3 DEF MainRearm, Types, Main, Tasks
  <2>3. Handling = 1 /\ Handling' = 0
    BY <2>2 DEF Handling
  <2>4. cursor_timers \in Nat
    BY <1>0 DEF Types
  <2> QED BY <1>0, <1>a, <2>1, <2>3, <2>4, ChainMeans
<1>4. CASE MainReceive
  <2> DEFINE q == tm.msgs[Main]
  <2>1. raced' = raced /\ cursor_timers' = cursor_timers /\ pc[Main] = "receive"
    BY <1>4 DEF MainReceive
  <2>2. tm' = TM!ReceiveMessage(tm, 1)
    BY <1>4 DEF MainReceive, Main
  <2>3. Handling = 0 /\ cursor_timers \in Nat
    BY <1>0, <2>1 DEF Handling, Types
  <2>4. CASE q = <<>>
    <3>1. tm'.msgs[Main] = q /\ pc'[Main] = "sleep"
      BY <1>0, <1>4, <2>2, <2>4, ReceiveFacts DEF MainReceive, Types, Main, Tasks
    <3>2. Handling' = 0
      BY <3>1 DEF Handling
    <3> QED BY <1>0, <1>b, <2>1, <2>3, <3>1, <3>2, ChainSame
  <2>5. CASE q # <<>>
    <3>1. tm'.msgs[Main] = Tail(q)
      BY <1>0, <2>2, <2>5, ReceiveFacts DEF Main
    <3>2. pc'[Main] = "dispatch" /\ msg'[Main] = Head(q)
      BY <1>0, <1>4, <2>5 DEF MainReceive, Types, Main, Tasks
    <3>3. Handling' = IF Head(q).type = "kTimerTimeout" THEN 1 ELSE 0
      BY <3>2 DEF Handling
    <3> HIDE DEF q
    <3>4. ASSUME AtMostOne(TimeoutsIn(q))
          PROVE  /\ AtMostOne(TimeoutsIn(Tail(q)))
                 /\ Head(q).type = "kTimerTimeout" => TimeoutsIn(Tail(q)) = {} /\ TimeoutsIn(q) # {}
                 /\ Head(q).type # "kTimerTimeout" => (TimeoutsIn(Tail(q)) = {} <=> TimeoutsIn(q) = {})
      BY <1>b, <2>5, <3>4, TailTimeouts DEF q
    <3>5. ~raced => /\ AtMostOne(TimeoutsIn(q))
                    /\ cursor_timers + (IF TimeoutsIn(q) = {} THEN 0 ELSE 1) + Handling = 1
      BY <1>0, ChainMeans DEF q
    <3> QED BY <1>a, <2>1, <2>3, <3>1, <3>3, <3>4, <3>5
  <2> QED BY <2>4, <2>5
<1>5. CASE MainNewTask \/ MainWakeupTerminal \/ MainSleep \/ MainForward
  <2>1. cursor_timers' = cursor_timers /\ raced' = raced
    BY <1>5 DEF MainNewTask, MainWakeupTerminal, MainSleep, MainForward
  <2>2. pc[Main] \notin {"rearm", "dispatch"} /\ pc'[Main] \notin {"rearm", "dispatch"}
    BY <1>0, <1>5 DEF MainNewTask, MainWakeupTerminal, MainSleep, MainForward, Types, Main, Tasks
  <2>3. Handling' = Handling
    BY <2>2 DEF Handling
  <2>4. tm'.msgs[Main] = tm.msgs[Main]
    <3>1. CASE MainNewTask
      BY <1>0, <3>1, NewTaskFacts DEF MainNewTask, Rest, ControlOK
    <3>2. CASE MainWakeupTerminal
      <4>1. tm.latest_id_ = 3 /\ tm' = TM!Wakeup(tm, 3, -1)
        BY <1>0, <3>2 DEF MainWakeupTerminal, Rest, ControlOK, Terminal
      <4>2. 3 \in 1..tm.latest_id_
        BY <4>1
      <4>3. tm'.msgs = tm.msgs
        BY <1>0, <4>1, <4>2, WakeupKeepsMsgs
      <4> QED BY <4>3
    <3>3. CASE MainSleep
      <4>1. tm.cpu = Main /\ tm' = TM!Sleep(tm, Main) /\ Main \in {Main, Terminal}
        BY <3>3 DEF MainSleep, MainStep, At
      <4>2. tm'.msgs = tm.msgs
        BY <1>0, <4>1, SleepKeepsMsgs
      <4> QED BY <4>2
    <3>4. CASE MainForward
      <4>1. msg[Main] \in Message /\ tm' = TM!SendMessage(tm, Terminal, msg[Main])
        BY <1>0, <3>4 DEF MainForward, Rest, InScope, MsgLabels
      <4> QED BY <1>0, <4>1, SendToTerminal
    <3> QED BY <1>5, <3>1, <3>2, <3>3, <3>4
  <2> QED BY <1>0, <1>b, <2>1, <2>3, <2>4, ChainSame
<1>6. CASE MainFinish
  <2>1. cursor_timers' = cursor_timers /\ raced' = raced
    BY <1>6 DEF MainFinish
  <2>2. pc[Main] \notin {"rearm", "dispatch"} /\ pc'[Main] \notin {"rearm", "dispatch"}
    BY <1>0, <1>6 DEF MainFinish, Types, Main, Tasks
  <2>3. Handling' = Handling
    BY <2>2 DEF Handling
  <2>4. Msg("kLayerFinish") \in Message /\ Msg("kLayerFinish").type # "kTimerTimeout"
    BY DEF Msg, Message, MessageTypes
  <2>5. tm'.msgs[Main] = tm.msgs[Main] \/ tm'.msgs[Main] = Append(tm.msgs[Main], Msg("kLayerFinish"))
    BY <1>0, <1>6, FinishFacts DEF Rest, Main
  <2> QED BY <1>0, <1>b, <2>1, <2>3, <2>4, <2>5, ChainSame
<1>7. CASE MainObserverEnd
  <2>1. cursor_timers' = cursor_timers
    BY <1>7 DEF MainObserverEnd
  <2>2. pc[Main] \notin {"rearm", "dispatch"} /\ pc'[Main] \notin {"rearm", "dispatch"}
    BY <1>0, <1>7 DEF MainObserverEnd, Types, Main, Tasks
  <2>3. Handling' = Handling
    BY <2>2 DEF Handling
  <2>4. Msg("kKeyPush") \in Message /\ Msg("kKeyPush").type # "kTimerTimeout"
    BY DEF Msg, Message, MessageTypes
  <2>5. CASE raced'
    BY <1>a, <2>5
  <2>6. CASE ~raced'
    <3>1. tm'.msgs[Main] = Append(tm.msgs[Main], Msg("kKeyPush")) /\ ~raced
      BY <1>0, <1>7, <2>6, ObserverFacts DEF Rest
    <3>2. TimeoutsIn(tm'.msgs[Main]) = TimeoutsIn(tm.msgs[Main])
      BY <1>b, <2>4, <3>1, AppendOther
    <3> QED BY <1>0, <1>a, <2>1, <2>3, <3>1, <3>2, ChainMeans
  <2> QED BY <2>5, <2>6
<1> QED BY <1>1, <1>2, <1>3, <1>4, <1>5, <1>6, <1>7 DEF MainNext

LEMMA ChainOthers ==
  ASSUME IInv,
         \/ TerminalNext \/ XHCIInterrupt \/ RaiseMSI
         \/ \E cursor, task \in BOOLEAN : TimerInterrupt(cursor, task)
         \/ \E e \in {"key_event", "mouse_event", "other_event"} : PostEvent(e)
  PROVE  CursorTimerChain'
<1>0. /\ Rest /\ Types /\ TM!SchedulerInv(tm) /\ tm.msgs \in [1..3 -> Seq(Message)]
      /\ Levelled(tm) /\ CursorTimerChain
  BY StateFields DEF IInv, Rest, Types, TypeOK
<1>a. (CursorTimerChain <=>
        (~raced => /\ AtMostOne(TimeoutsIn(tm.msgs[Main]))
                   /\ cursor_timers + (IF TimeoutsIn(tm.msgs[Main]) = {} THEN 0 ELSE 1) + Handling = 1))'
  BY ChainMeans, PTL
<1>b. tm.msgs[Main] \in Seq(Message)
  BY <1>0 DEF Main
<1>c. raced' = raced
  BY DEF TerminalNext, TerminalStart, TerminalCreate, TerminalActivate, TerminalMap, TerminalAwake,
     TerminalLoop, TerminalReceive, TerminalSleep, TerminalHandle, TerminalReply, XHCIInterrupt,
     RaiseMSI, TimerInterrupt, PostEvent, raceVars
<1>d. pc'[Main] = pc[Main] /\ msg'[Main] = msg[Main]
  <2>1. CASE TerminalNext
    <3>1. \E to : pc' = [pc EXCEPT ![Terminal] = to]
      BY <2>1 DEF TerminalNext, TerminalStart, TerminalCreate, TerminalActivate, TerminalMap,
         TerminalAwake, TerminalLoop, TerminalReceive, TerminalSleep, TerminalHandle, TerminalReply,
         TerminalStep, Goto
    <3>2. msg' = msg \/ \E m : msg' = [msg EXCEPT ![Terminal] = m]
      BY <2>1 DEF TerminalNext, TerminalStart, TerminalCreate, TerminalActivate, TerminalMap,
         TerminalAwake, TerminalLoop, TerminalReceive, TerminalSleep, TerminalHandle, TerminalReply
    <3> QED BY <1>0, <3>1, <3>2 DEF Types, Main, Terminal, Tasks
  <2>2. CASE ~TerminalNext
    BY <2>2 DEF XHCIInterrupt, RaiseMSI, TimerInterrupt, PostEvent, taskVars
  <2> QED BY <2>1, <2>2
<1>e. Handling' = Handling
  BY <1>d DEF Handling
<1>1. CASE \/ TerminalStart \/ TerminalCreate \/ TerminalActivate \/ TerminalMap
           \/ TerminalAwake \/ TerminalLoop \/ TerminalHandle \/ RaiseMSI
           \/ \E e \in {"key_event", "mouse_event", "other_event"} : PostEvent(e)
  <2>1. tm' = tm /\ cursor_timers' = cursor_timers
    BY <1>1 DEF TerminalStart, TerminalCreate, TerminalActivate, TerminalMap, TerminalAwake,
       TerminalLoop, TerminalHandle, RaiseMSI, PostEvent
  <2> QED BY <1>0, <1>b, <1>c, <1>e, <2>1, ChainSame
<1>2. CASE TerminalReceive \/ TerminalSleep
  <2>1. cursor_timers' = cursor_timers
    BY <1>2 DEF TerminalReceive, TerminalSleep
  <2>2. tm'.msgs[Main] = tm.msgs[Main]
    <3>1. CASE TerminalReceive
      BY <1>0, <3>1, ReceiveFacts DEF TerminalReceive, Main, Terminal
    <3>2. CASE TerminalSleep
      <4>1. tm' = TM!Sleep(tm, Terminal) /\ tm.cpu = Terminal /\ Terminal \in {Main, Terminal}
        BY <3>2 DEF TerminalSleep, TerminalStep, At
      <4>2. tm'.msgs = tm.msgs
        BY <1>0, <4>1, SleepFacts
      <4> QED BY <4>2
    <3> QED BY <1>2, <3>1, <3>2
  <2> QED BY <1>0, <1>b, <1>c, <1>e, <2>1, <2>2, ChainSame
<1>3. ASSUME NEW m \in Message, m.type # "kTimerTimeout", tm' = TM!SendMessage(tm, Main, m),
             cursor_timers' = cursor_timers
      PROVE  CursorTimerChain'
  <2>2. tm'.msgs[Main] = Append(tm.msgs[Main], m)
    BY <1>0, <1>3, SendToMain
  <2> QED BY <1>0, <1>b, <1>c, <1>e, <1>3, <2>2, ChainSame
<1>4. CASE TerminalReply
  <2>1. [type |-> "kLayer", src_task |-> Terminal] \in Message
    BY DEF Message, MessageTypes, Terminal
  <2> QED BY <1>3, <1>4, <2>1 DEF TerminalReply
<1>5. CASE XHCIInterrupt
  <2>1. Msg("kInterruptXHCI") \in Message /\ Msg("kInterruptXHCI").type # "kTimerTimeout"
    BY DEF Msg, Message, MessageTypes
  <2>2. tm' = TM!SendMessage(tm, Main, Msg("kInterruptXHCI")) /\ cursor_timers' = cursor_timers
    BY <1>5 DEF XHCIInterrupt
  <2> QED BY <1>3, <2>1, <2>2
<1>6. ASSUME NEW cursor \in BOOLEAN, NEW task \in BOOLEAN, TimerInterrupt(cursor, task)
      PROVE  CursorTimerChain'
  <2>1. CASE ~cursor
    <3>1. /\ cursor_timers' = cursor_timers
          /\ tm' = tm \/ tm' = TM!SwitchTask(tm, FALSE)
      BY <1>6, <2>1 DEF TimerInterrupt
    <3>2. tm'.msgs = tm.msgs
      BY <1>0, <3>1, SwitchFacts
    <3> QED BY <1>0, <1>b, <1>c, <1>e, <3>1, <3>2, ChainSame
  <2>2. CASE cursor
    <3> DEFINE ticked == TM!SendMessage(tm, Main, Msg("kTimerTimeout"))
    <3>1. /\ cursor_timers > 0 /\ cursor_timers' = cursor_timers - 1
          /\ tm' = ticked \/ tm' = TM!SwitchTask(ticked, FALSE)
      BY <1>6, <2>2 DEF TimerInterrupt
    <3>2. Msg("kTimerTimeout") \in Message /\ Msg("kTimerTimeout").type = "kTimerTimeout"
      BY DEF Msg, Message, MessageTypes
    <3>3. TM!SchedulerInv(ticked) /\ ticked.msgs[Main] = Append(tm.msgs[Main], Msg("kTimerTimeout"))
      BY <1>0, <3>2, SendToMain
    <3> HIDE DEF ticked
    <3>4. tm'.msgs = ticked.msgs
      BY <3>1, <3>3, SwitchFacts
    <3>5. tm'.msgs[Main] = Append(tm.msgs[Main], Msg("kTimerTimeout"))
      BY <3>3, <3>4
    <3>6. ASSUME ~raced
          PROVE  /\ TimeoutsIn(tm.msgs[Main]) = {}
                 /\ cursor_timers = 1 /\ Handling = 0
      <4>1. cursor_timers \in Nat /\ Handling \in Nat
        BY <1>0 DEF Types, Handling
      <4> QED BY <1>0, <3>1, <3>6, <4>1, ChainMeans
    <3>7. ASSUME ~raced
          PROVE  TimeoutsIn(tm'.msgs[Main]) = {Len(tm.msgs[Main]) + 1}
      BY <1>b, <3>2, <3>5, <3>6, <3>7, AppendTimeout
    <3>8. ~raced => AtMostOne(TimeoutsIn(tm'.msgs[Main])) /\ TimeoutsIn(tm'.msgs[Main]) # {}
      BY <3>7 DEF AtMostOne
    <3> QED BY <1>a, <1>c, <1>e, <3>1, <3>6, <3>8
  <2> QED BY <2>1, <2>2
<1> QED BY <1>1, <1>2, <1>4, <1>5, <1>6 DEF TerminalNext
-----------------------------------------------------------------------------
(* The invariant is inductive *)

LEMMA InitHolds == Init => IInv
<1> SUFFICES ASSUME Init PROVE IInv
  OBVIOUS
<1>1. TM!SchedulerInv(tm)
  BY Assumptions, SameInv, SameRest, TMP!InitEstablishes DEF Init
<1>2. /\ tm.level = [t \in 1..3 |-> CASE t = 1 -> kMaxLevel [] t = 2 -> 0 [] OTHER -> kDefaultLevel]
      /\ tm.msgs = [t \in 1..3 |-> <<>>] /\ tm.latest_id_ = 2 /\ tm.cpu = 1
  BY DEF Init, TM!InitialState, TM!TaskIds, TM!MainTask, TM!IdleTask
<1> USE DEF Main, Idle, Terminal, Tasks
<1>3. pc = [t \in Tasks |-> CASE t = 1 -> "new_task" [] t = 2 -> "hlt" [] OTHER -> "start"]
  BY DEF Init
<1>4. pc[1] = "new_task" /\ pc[2] = "hlt" /\ pc[3] = "start"
  BY <1>3
<1>5. Types
  <2>1. pc \in [Tasks -> MainLabels \cup TerminalLabels \cup {"hlt"}]
    BY <1>3 DEF MainLabels, StartLabels, TerminalLabels
  <2>2. /\ iflag \in [Tasks -> BOOLEAN]
        /\ msg \in [Tasks -> Message \cup {NoMsg}]
    BY DEF Init
  <2>3. /\ cursor_timers \in Nat /\ base \in Nat
        /\ events \in 0..MaxEvents /\ timeouts \in 0..MaxTimeouts
    BY KernelAssumption DEF Init
  <2>4. ring \in Seq({"key_event", "mouse_event", "other_event"})
    BY DEF Init
  <2> QED BY <2>1, <2>2, <2>3, <2>4 DEF Init, Types
<1>6. TypeOK
  BY <1>1, <1>5, StateFields DEF TypeOK, Types
<1>7. Levelled(tm)
  BY <1>2 DEF Levelled
<1>8. ControlOK /\ Stopped /\ Masked
  BY <1>2, <1>4 DEF ControlOK, Stopped, Masked, StartLabels, EventLabels, MsgLabels, MaskedMain, MaskedTerminal,
     MainLabels, TerminalLabels
<1>9. AsleepOnlyWithoutMail /\ NoneBeforeSleep
  BY <1>2 DEF AsleepOnlyWithoutMail, NoneBeforeSleep
<1>10. InScope /\ MouseFirst /\ ActiveMapped
  BY <1>4 DEF Init, InScope, MouseFirst, ActiveMapped, TerminalLayer, StartLabels, EventLabels, MsgLabels
<1>11. CursorTimerChain
  <2>1. TimeoutsIn(tm.msgs[1]) = {}
    BY <1>2 DEF TimeoutsIn
  <2>2. Handling = 0 /\ cursor_timers = 1
    BY <1>4 DEF Handling, Init
  <2> QED BY <2>1, <2>2, ChainMeans DEF AtMostOne
<1> QED BY <1>1, <1>6, <1>7, <1>8, <1>9, <1>10, <1>11 DEF IInv

LEMMA NextHolds == IInv /\ [Next]_vars => IInv'
<1> SUFFICES ASSUME IInv, [Next]_vars PROVE IInv'
  OBVIOUS
<1>0. Rest /\ Types /\ TM!SchedulerInv(tm) /\ Levelled(tm) /\ AsleepOnlyWithoutMail
  BY DEF IInv, Rest, Types, TypeOK
<1>1. ASSUME Rest', Types', TM!SchedulerInv(tm'), tm'.level = tm.level, AsleepOnlyWithoutMail',
             CursorTimerChain'
      PROVE  IInv'
  <2>1. tm' \in TM!TaskManagerState
    BY <1>1, StateFields
  <2>2. TypeOK'
    BY <1>1, <2>1 DEF TypeOK, Types
  <2>3. Levelled(tm')
    BY <1>0, <1>1 DEF Levelled
  <2> QED BY <1>1, <2>2, <2>3 DEF IInv, Rest
<1>2. ASSUME Rest', Types', tm' = tm, CursorTimerChain'
      PROVE  IInv'
  <2>1. AsleepOnlyWithoutMail'
    BY <1>0, <1>2 DEF AsleepOnlyWithoutMail
  <2> QED BY <1>0, <1>1, <1>2, <2>1
<1>3. CASE MainNext
  <2>1. CursorTimerChain'
    BY <1>3, ChainMain
  <2>2. CASE \/ MainNewTask \/ MainWakeupTerminal \/ MainReceive \/ MainSleep
             \/ MainObserverEnd \/ MainForward \/ MainFinish
    BY <1>0, <1>1, <2>1, <2>2, MainCalls
  <2>3. CASE ~(\/ MainNewTask \/ MainWakeupTerminal \/ MainReceive \/ MainSleep
               \/ MainObserverEnd \/ MainForward \/ MainFinish)
    BY <1>0, <1>2, <1>3, <2>1, <2>3, MainQuiet DEF MainNext
  <2> QED BY <2>2, <2>3
<1>4. CASE TerminalNext
  <2>1. CursorTimerChain'
    BY <1>4, ChainOthers
  <2>2. CASE TerminalReceive \/ TerminalSleep \/ TerminalReply
    BY <1>0, <1>1, <2>1, <2>2, TerminalCalls
  <2>3. CASE ~(TerminalReceive \/ TerminalSleep \/ TerminalReply)
    BY <1>0, <1>2, <1>4, <2>1, <2>3, TerminalQuiet DEF TerminalNext
  <2> QED BY <2>2, <2>3
<1>5. CASE XHCIInterrupt \/ \E cursor, task \in BOOLEAN : TimerInterrupt(cursor, task)
  BY <1>0, <1>1, <1>5, ChainOthers, Interrupts
<1>6. CASE RaiseMSI \/ \E e \in {"key_event", "mouse_event", "other_event"} : PostEvent(e)
  BY <1>0, <1>2, <1>6, ChainOthers, XhcQuiet
<1>7. CASE UNCHANGED vars
  <2> USE <1>7 DEF vars, taskVars, screenVars, xhcVars, envVars, raceVars
  <2>1. Rest'
    BY <1>0 DEF Rest, ControlOK, Stopped, Masked, NoneBeforeSleep, InScope, MouseFirst, ActiveMapped
  <2>2. Types' /\ tm' = tm
    BY <1>0 DEF Types
  <2>3. CursorTimerChain'
    BY DEF IInv, CursorTimerChain, PendingTimeouts
  <2> QED BY <1>2, <2>1, <2>2, <2>3
<1> QED BY <1>3, <1>4, <1>5, <1>6, <1>7 DEF Next

-----------------------------------------------------------------------------
(* Theorems *)

LEMMA Invariance == Spec => []IInv
BY InitHolds, NextHolds, PTL DEF Spec

\* Handlers and tasks call the manager wherever interrupts allow, and its run
\* queues stay consistent; main gives up the CPU in Sleep only.
THEOREM KernelInvariant == Spec => []KernelInv
<1>1. IInv => KernelInv
  BY DEF IInv, KernelInv, Stopped
<1> QED BY <1>1, Invariance, PTL

\* No lost wakeup: cli covers the check for a message and Sleep.
THEOREM NoLostWakeup == Spec => []AsleepOnlyWithoutMail
<1>1. IInv => AsleepOnlyWithoutMail
  BY DEF IInv
<1> QED BY <1>1, Invariance, PTL

\* Main and the terminal are never both inside a section that uses the
\* windows, although only the terminal masks interrupts there.
THEOREM ScreenIsExclusive == Spec => []ScreenExclusive
<1>1. IInv => ScreenExclusive
  BY DEF IInv, Stopped, ScreenExclusive, MainUsesScreen, TerminalUsesScreen, Main, Terminal
<1> QED BY <1>1, Invariance, PTL

\* The terminal activates itself after the mouse layer is set, and main never
\* finds its layer active but not mapped.
THEOREM StartUpIsOrdered == Spec => []StartUpOrdered
<1>1. IInv => StartUpOrdered
  BY DEF IInv, Stopped, MouseFirst, ActiveMapped, StartUpOrdered, StartLabels, Main, Terminal
<1> QED BY <1>1, Invariance, PTL

\* Without a race in the observer the cursor timer is never lost nor doubled.
THEOREM CursorTimerSurvives == Spec => []CursorTimerChain
<1>1. IInv => CursorTimerChain
  BY DEF IInv
<1> QED BY <1>1, Invariance, PTL
\* A queue that is appended to, or loses its head, is a queue.
LEMMA FifoKinds ==
  ASSUME NEW q \in Seq(Message), NEW m \in Message
  PROVE  Len(Append(q, m)) = Len(q) + 1 /\ SubSeq(Append(q, m), 1, Len(q)) = q
<1> DEFINE r == Append(q, m)
<1>1. /\ r \in Seq(Message) /\ Len(q) \in Nat /\ Len(r) = Len(q) + 1
      /\ \A k \in 1..Len(q) : r[k] = q[k]
  BY AppendProperties
<1> HIDE DEF r
<1>2. /\ SubSeq(r, 1, Len(q)) \in Seq(Message) /\ Len(SubSeq(r, 1, Len(q))) = Len(q)
      /\ \A k \in 1..Len(q) : SubSeq(r, 1, Len(q))[k] = r[k]
  BY <1>1
<1>3. SubSeq(r, 1, Len(q)) = q
  BY <1>1, <1>2, SeqEqual
<1> QED BY <1>1, <1>3 DEF r

\* The observer's race is the only thing that damages a message queue.
THEOREM QueuesAreQueues == Spec => OnlyRaceDamagesQueues
<1>1. ASSUME IInv, [Next]_vars PROVE [raced' \/ FifoStep]_tm
  <2> SUFFICES ASSUME ~raced', tm' # tm PROVE FifoStep
    OBVIOUS
  <2>0. /\ Rest /\ Types /\ TM!SchedulerInv(tm) /\ tm.msgs \in [1..3 -> Seq(Message)]
        /\ Levelled(tm) /\ tm.latest_id_ \in 2..3
    BY StateFields, <1>1 DEF IInv, Rest, Types, TypeOK
  <2>1. ASSUME \A t \in 1..3 : \/ tm'.msgs[t] = tm.msgs[t]
                               \/ tm.msgs[t] # <<>> /\ tm'.msgs[t] = Tail(tm.msgs[t])
                               \/ \E m \in Message : tm'.msgs[t] = Append(tm.msgs[t], m)
        PROVE  FifoStep
    <3>0. Tasks = 1..3
      BY DEF Tasks, Main, Idle, Terminal
    <3> SUFFICES ASSUME NEW t \in 1..3
                 PROVE  \/ tm'.msgs[t] = tm.msgs[t]
                        \/ tm.msgs[t] # <<>> /\ tm'.msgs[t] = Tail(tm.msgs[t])
                        \/ /\ Len(tm'.msgs[t]) = Len(tm.msgs[t]) + 1
                           /\ SubSeq(tm'.msgs[t], 1, Len(tm.msgs[t])) = tm.msgs[t]
      BY <3>0 DEF FifoStep
    <3>1. ASSUME NEW m \in Message, tm'.msgs[t] = Append(tm.msgs[t], m)
          PROVE  /\ Len(tm'.msgs[t]) = Len(tm.msgs[t]) + 1
                 /\ SubSeq(tm'.msgs[t], 1, Len(tm.msgs[t])) = tm.msgs[t]
      BY <2>0, <3>1, FifoKinds
    <3> QED BY <2>1, <3>1
  <2>2. ASSUME NEW id, id \in 0..3, NEW m \in Message, tm' = TM!SendMessage(tm, id, m)
        PROVE  FifoStep
    <3>1. CASE id \in 1..tm.latest_id_
      <4>1. id \in 1..3
        BY <2>0, <3>1
      <4>0. TM!SchedulerInv(tm)
        BY <2>0
      <4>2. tm'.msgs[id] = Append(tm.msgs[id], m)
        BY <2>2, <3>1, <4>0, <4>1, SendArrives
      <4>3. ASSUME NEW u \in 1..3, u # id PROVE tm'.msgs[u] = tm.msgs[u]
        BY <2>2, <3>1, <4>0, <4>1, <4>3, SendElsewhere
      <4> QED BY <2>1, <4>1, <4>2, <4>3
    <3>2. CASE id \notin 1..tm.latest_id_
      <4>1. tm' = tm
        BY <2>2, <3>2 DEF TM!SendMessage, TM!Exists
      <4> QED BY <2>0, <4>1
    <3> QED BY <3>1, <3>2
  <2>3. ASSUME tm'.msgs = tm.msgs PROVE FifoStep
    BY <2>3 DEF FifoStep
  <2>4. ASSUME NEW t \in 1..3, tm' = TM!ReceiveMessage(tm, t) PROVE FifoStep
    <3>1. CASE tm.msgs[t] = <<>>
      BY <2>0, <2>3, <2>4, <3>1, ReceiveFacts
    <3>2. CASE tm.msgs[t] # <<>>
      <4>1. tm'.msgs[t] = Tail(tm.msgs[t])
        BY <2>0, <2>4, <3>2, ReceiveFacts
      <4>2. ASSUME NEW u \in 1..3, u # t PROVE tm'.msgs[u] = tm.msgs[u]
        BY <2>0, <2>4, <4>2, ReceiveFacts
      <4> QED BY <2>1, <3>2, <4>1, <4>2
    <3> QED BY <3>1, <3>2
  <2>5. CASE MainReceive \/ TerminalReceive
    BY <2>4, <2>5 DEF MainReceive, TerminalReceive, Main, Terminal
  <2>6. CASE MainNewTask
    BY <2>0, <2>3, <2>6, NewTaskFacts DEF MainNewTask, MainStep, At, Rest, ControlOK
  <2>7. CASE MainWakeupTerminal
    <3>1. tm.latest_id_ = 3 /\ tm' = TM!Wakeup(tm, 3, -1)
      BY <2>0, <2>7 DEF MainWakeupTerminal, MainStep, At, Rest, ControlOK, Terminal
    <3>2. 3 \in 1..tm.latest_id_
      BY <3>1
    <3>3. tm'.msgs = tm.msgs
      BY <2>0, <3>1, <3>2, WakeupKeepsMsgs
    <3> QED BY <2>3, <3>3
  <2>8. CASE MainSleep \/ TerminalSleep
    <3>1. PICK t \in {Main, Terminal} : tm.cpu = t /\ tm' = TM!Sleep(tm, t)
      BY <2>8 DEF MainSleep, TerminalSleep, MainStep, TerminalStep, At
    <3>2. tm'.msgs = tm.msgs
      BY <2>0, <3>1, SleepKeepsMsgs
    <3> QED BY <2>3, <3>2
  <2>9. CASE MainForward
    <3>1. msg[Main] \in Message /\ tm' = TM!SendMessage(tm, Terminal, msg[Main]) /\ Terminal \in 0..3
      BY <2>0, <2>9 DEF MainForward, MainStep, At, Rest, InScope, MsgLabels, Terminal
    <3> QED BY <2>2, <3>1
  <2>10. CASE MainFinish
    <3>1. Msg("kLayerFinish") \in Message
      BY DEF Msg, Message, MessageTypes
    <3>2. \A u \in 1..3 : tm'.msgs[u] = tm.msgs[u] \/ tm'.msgs[u] = Append(tm.msgs[u], Msg("kLayerFinish"))
      BY <2>0, <2>10, FinishFacts DEF Rest
    <3> QED BY <2>1, <3>1, <3>2
  <2>11. CASE MainObserverEnd
    <3>1. Msg("kKeyPush") \in Message
      BY DEF Msg, Message, MessageTypes
    <3>2. /\ tm'.msgs[Main] = Append(tm.msgs[Main], Msg("kKeyPush"))
          /\ \A u \in 1..3 : u # Main => tm'.msgs[u] = tm.msgs[u]
      BY <2>0, <2>11, ObserverFacts DEF Rest
    <3> QED BY <2>1, <3>1, <3>2
  <2>12. CASE TerminalReply
    <3>1. [type |-> "kLayer", src_task |-> Terminal] \in Message /\ Main \in 0..3
      BY DEF Message, MessageTypes, Terminal, Main
    <3> QED BY <2>2, <2>12, <3>1 DEF TerminalReply
  <2>13. CASE XHCIInterrupt
    <3>1. Msg("kInterruptXHCI") \in Message /\ Main \in 0..3
      BY DEF Msg, Message, MessageTypes, Main
    <3> QED BY <2>2, <2>13, <3>1 DEF XHCIInterrupt
  <2>14. ASSUME NEW cursor \in BOOLEAN, NEW task \in BOOLEAN, TimerInterrupt(cursor, task)
         PROVE  FifoStep
    <3>1. Msg("kTimerTimeout") \in Message
      BY DEF Msg, Message, MessageTypes
    <3>2. PICK ticked : Handled(Msg("kTimerTimeout"), ticked, tm')
      BY <2>14, <3>1 DEF TimerInterrupt, Handled
    <3>3. /\ \A u \in 1..3 : u # Main => tm'.msgs[u] = tm.msgs[u]
          /\ \/ tm'.msgs = tm.msgs
             \/ tm'.msgs[Main] = Append(tm.msgs[Main], Msg("kTimerTimeout"))
      BY <2>0, <3>2, HandlerFacts
    <3> QED BY <2>1, <2>3, <3>1, <3>3
  <2>15. CASE \/ MainInitXHCI \/ MainInitMouse \/ MainDraw \/ MainAwake \/ MainDispatch
              \/ MainProcessEvents \/ MainOtherEvent \/ MainMouseEvent
              \/ MainObserverBegin \/ MainPop \/ MainRearm \/ MainDrawCursor
              \/ MainKey \/ MainInputText \/ MainLayer
    BY <2>0, <2>15, MainQuiet
  <2>16. CASE \/ TerminalStart \/ TerminalCreate \/ TerminalActivate \/ TerminalMap
              \/ TerminalAwake \/ TerminalLoop \/ TerminalHandle
    BY <2>0, <2>16, TerminalQuiet
  <2>17. CASE RaiseMSI \/ \E e \in {"key_event", "mouse_event", "other_event"} : PostEvent(e)
    BY <2>0, <2>17, XhcQuiet
  <2>18. CASE UNCHANGED vars
    BY <2>18 DEF vars
  <2> QED BY <1>1, <2>5, <2>6, <2>7, <2>8, <2>9, <2>10, <2>11, <2>12, <2>13, <2>14, <2>15, <2>16, <2>17, <2>18
          DEF Next, MainNext, TerminalNext
<1> QED BY <1>1, Invariance, PTL DEF Spec, OnlyRaceDamagesQueues

===============================================================================
