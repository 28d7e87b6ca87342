----------------------------- MODULE TaskManager -----------------------------
(***************************************************************************)
(* The preemptive scheduler of kernel/task.cpp: tasks with a message queue *)
(* each, one run queue per priority level, and the operations by which     *)
(* interrupt handlers and tasks put tasks to sleep, wake them, change      *)
(* their level and switch the CPU between them.                            *)
(*                                                                         *)
(* Every operation is written as a function from the manager's state (a    *)
(* record with the fields of class TaskManager) to its next state, so that *)
(* a handler that calls several of them is one composition (see Kernel).   *)
(* The specification at the end makes each operation one step, which is    *)
(* what callers that mask interrupts around the call obtain.               *)
(***************************************************************************)
EXTENDS Integers, Sequences

CONSTANTS
  kMaxLevel,      \* TaskManager::kMaxLevel, 3 in the code
  kDefaultLevel,  \* Task::kDefaultLevel, 1 in the code
  MaxTasks,       \* bound on NewTask
  Messages,       \* what a message can be, as far as a property can tell
  MaxMessages     \* bound on the length of one task's msgs_

ASSUME LevelAssumption ==
  /\ kMaxLevel \in Nat
  /\ kDefaultLevel \in 0..kMaxLevel

ASSUME BoundAssumption ==
  /\ MaxTasks \in Nat
  /\ MaxTasks >= 2
  /\ MaxMessages \in Nat

Levels == 0..kMaxLevel
TaskIds == 1..MaxTasks

\* TaskManager::TaskManager creates these two, in this order.
MainTask == 1
IdleTask == 2

VARIABLE tm
vars == <<tm>>

(***************************************************************************)
(* running_        the run queue of each level                             *)
(* current_level_  the level SwitchTask schedules from                     *)
(* level_changed_  a higher level may have become non-empty                *)
(* latest_id_      tasks 1..latest_id_ exist                               *)
(* level, running, msgs   Task::level_, Task::running_ and Task::msgs_     *)
(* cpu             the task whose context the processor has loaded: the    *)
(*                 second argument SwitchContext should be given           *)
(***************************************************************************)
TaskManagerState ==
  [running_       : [Levels -> Seq(TaskIds)],
   current_level_ : Levels,
   level_changed_ : BOOLEAN,
   latest_id_     : TaskIds,
   level          : [TaskIds -> Levels],
   running        : [TaskIds -> BOOLEAN],
   msgs           : [TaskIds -> Seq(Messages)],
   cpu            : TaskIds]

Exists(s, t) == t \in 1..s.latest_id_
Front(s) == Head(s.running_[s.current_level_])
CurrentTask(s) == Front(s)

(***************************************************************************)
(* Erase removes a value from a deque.  A run queue holds a task at most   *)
(* once (QueuedOnce below), so removing one occurrence is removing all of  *)
(* them, which is what std::remove followed by erase does.                 *)
(***************************************************************************)
Erase(q, t) ==
  IF \E i \in 1..Len(q) : q[i] = t
  THEN LET at == CHOOSE i \in 1..Len(q) : q[i] = t
       IN  [i \in 1..(Len(q)-1) |-> IF i < at THEN q[i] ELSE q[i+1]]
  ELSE q

\* Mutant: the loop runs from level 0 upwards.
LowestLevel(queues, default) ==
  IF \E lv \in Levels : queues[lv] # <<>>
  THEN CHOOSE lv \in Levels :
         queues[lv] # <<>> /\ \A k \in Levels : k < lv => queues[k] = <<>>
  ELSE default

\* The loop of SwitchTask: the highest level with a runnable task; the level
\* stays as it is when there is none.
HighestLevel(queues, default) ==
  IF \E lv \in Levels : queues[lv] # <<>>
  THEN CHOOSE lv \in Levels :
         queues[lv] # <<>> /\ \A k \in Levels : k > lv => queues[k] = <<>>
  ELSE default

\* Mutant: the current task stays at the front.
KeepFront(q, current_sleep) == IF current_sleep THEN Tail(q) ELSE q

\* The current task leaves the front of its queue and, unless it is going to
\* sleep, joins the back.
Rotate(q, current_sleep) ==
  IF current_sleep THEN Tail(q) ELSE Append(Tail(q), Head(q))

\* SwitchTask, with the SwitchContext at its end: the new front is loaded.
SwitchTask(s, current_sleep) ==
  LET lv      == s.current_level_
      rotated == Rotate(s.running_[lv], current_sleep)
      queues  == [s.running_ EXCEPT ![lv] = rotated]
      changed == s.level_changed_ \/ rotated = <<>>
      next    == IF changed THEN HighestLevel(queues, lv) ELSE lv
  IN  [s EXCEPT !.running_       = queues,
                !.current_level_ = next,
                !.level_changed_ = FALSE,
                !.cpu            = Head(queues[next])]

Sleep(s, t) ==
  LET off == [s EXCEPT !.running[t] = FALSE]
  IN  IF ~s.running[t] THEN s
      ELSE IF t = Front(s) THEN SwitchTask(off, TRUE)
      ELSE [off EXCEPT !.running_[s.level[t]] = Erase(@, t)]

\* A level that does not change, or is negative, leaves everything alone.  The
\* current task moves to the front of its new level and takes current_level_
\* with it; any other task moves to the back.
ChangeLevelRunning(s, t, level) ==
  LET from   == s.level[t]
      cur    == s.current_level_
      back   == [s.running_ EXCEPT ![from] = Erase(@, t), ![level] = Append(@, t)]
      front  == [s.running_ EXCEPT ![cur] = Tail(@), ![level] = <<t>> \o @]
      levels == [s.level EXCEPT ![t] = level]
      raised == IF level > cur THEN TRUE ELSE s.level_changed_
      lowered == IF level < cur THEN TRUE ELSE s.level_changed_
  IN  IF level < 0 \/ level = from THEN s
      ELSE IF t # Front(s)
      THEN [s EXCEPT !.running_ = back, !.level = levels, !.level_changed_ = raised]
      ELSE [s EXCEPT !.running_ = front, !.level = levels, !.level_changed_ = lowered,
                     !.current_level_ = level]

\* Mutant: level_changed_ is not raised.
WakeupUnnoticed(s, t, level) ==
  IF s.running[t] THEN s
  ELSE [s EXCEPT !.running_[s.level[t]] = Append(@, t), !.running[t] = TRUE]

\* level < 0, the default argument, means the level the task already has.
Wakeup(s, t, level) ==
  LET lv     == IF level < 0 THEN s.level[t] ELSE level
      queues == [s.running_ EXCEPT ![lv] = Append(@, t)]
      levels == [s.level EXCEPT ![t] = lv]
      flags  == [s.running EXCEPT ![t] = TRUE]
      raised == IF lv > s.current_level_ THEN TRUE ELSE s.level_changed_
  IN  IF s.running[t] THEN ChangeLevelRunning(s, t, level)
      ELSE [s EXCEPT !.running_ = queues, !.level = levels, !.running = flags,
                     !.level_changed_ = raised]

\* The overloads that look the task up by id return kNoSuchTask for an id
\* that was never created and change nothing.
SleepId(s, id) == IF Exists(s, id) THEN Sleep(s, id) ELSE s
WakeupId(s, id, level) == IF Exists(s, id) THEN Wakeup(s, id, level) ELSE s

\* Mutants: the task is not woken; the message jumps the queue.
SendWithoutWakeup(s, id, m) == [s EXCEPT !.msgs[id] = Append(@, m)]
SendToFront(s, id, m) ==
  IF Exists(s, id) THEN Wakeup([s EXCEPT !.msgs[id] = <<m>> \o @], id, -1) ELSE s

\* Task::SendMessage appends and wakes the task at its own level.
SendMessage(s, id, m) ==
  IF Exists(s, id)
  THEN Wakeup([s EXCEPT !.msgs[id] = Append(@, m)], id, -1)
  ELSE s

\* Task::ReceiveMessage leaves an empty queue alone (std::nullopt).
ReceiveMessage(s, t) ==
  IF s.msgs[t] = <<>> THEN s ELSE [s EXCEPT !.msgs[t] = Tail(@)]

\* NewTask; the caller's InitContext gives the new task its entry point.
NewTask(s) == [s EXCEPT !.latest_id_ = @ + 1]

-----------------------------------------------------------------------------
\* TaskManager::TaskManager: the thread of control that boots becomes the
\* main task on the highest level; the idle task waits on level 0.
InitialState ==
  LET first == [lv \in Levels |-> IF lv = kMaxLevel THEN <<MainTask>> ELSE <<>>]
  IN  [running_       |-> [first EXCEPT ![0] = Append(@, IdleTask)],
       current_level_ |-> kMaxLevel,
       level_changed_ |-> FALSE,
       latest_id_     |-> IdleTask,
       level          |-> [t \in TaskIds |-> CASE t = MainTask -> kMaxLevel
                                               [] t = IdleTask -> 0
                                               [] OTHER -> kDefaultLevel],
       running        |-> [t \in TaskIds |-> t \in {MainTask, IdleTask}],
       msgs           |-> [t \in TaskIds |-> <<>>],
       cpu            |-> MainTask]

Init == tm = InitialState

\* The timer interrupt, whatever task it interrupts.
Switch == tm' = SwitchTask(tm, FALSE)

\* An interrupt handler or a task sends a message.
Send(id, m) ==
  /\ Exists(tm, id) => Len(tm.msgs[id]) < MaxMessages
  /\ tm' = SendMessage(tm, id, m)

\* The rest is called by the task on the CPU.  TaskIdle only executes hlt
\* and so calls nothing, and no caller names the idle task.
ByTask == tm.cpu # IdleTask

Create ==
  /\ ByTask
  /\ tm.latest_id_ < MaxTasks
  /\ tm' = NewTask(tm)

PutToSleep(id) ==
  /\ ByTask
  /\ id # IdleTask
  /\ tm' = SleepId(tm, id)

WakeUp(id, level) ==
  /\ ByTask
  /\ id # IdleTask
  /\ tm' = WakeupId(tm, id, level)

Receive ==
  /\ ByTask
  /\ tm' = ReceiveMessage(tm, CurrentTask(tm))

Next ==
  \/ Switch
  \/ Create
  \/ Receive
  \/ \E id \in TaskIds :
       \/ \E m \in Messages : Send(id, m)
       \/ PutToSleep(id)
       \/ \E level \in {-1} \cup Levels : WakeUp(id, level)

\* The periodic task timer (Timers, Kernel) keeps calling SwitchTask.
Fairness == WF_vars(Switch)

Spec == Init /\ [][Next]_vars
FairSpec == Spec /\ Fairness
-----------------------------------------------------------------------------
(* Types *)

\* Every field keeps the type its C++ declaration gives it.
TypeOK == tm \in TaskManagerState

(* Safety *)

InQueue(q, t) == \E i \in 1..Len(q) : q[i] = t
NoRepeats(q) == \A i, j \in 1..Len(q) : q[i] = q[j] => i = j

\* A task is in a run queue exactly when it is marked running, and the only
\* queue it is in is that of its level: Wakeup, Sleep and ChangeLevelRunning
\* update the flag, the level and the queues in separate statements.
QueuedIffRunning(s) ==
  \A t \in TaskIds :
    /\ s.running[t] => Exists(s, t)
    /\ \A lv \in Levels :
         InQueue(s.running_[lv], t) <=> s.running[t] /\ s.level[t] = lv

\* No run queue holds a task twice, however often it is woken.
QueuedOnce(s) == \A lv \in Levels : NoRepeats(s.running_[lv])

\* The task whose context is on the processor is the front of the current
\* level's queue, the task whose context SwitchTask saves over.
CpuIsFront(s) ==
  /\ s.running_[s.current_level_] # <<>>
  /\ s.cpu = Front(s)

\* While level_changed_ is clear no task waits above the current level: the
\* next SwitchTask may then stay on the level without a search.
NoneAboveUnlessChanged(s) ==
  ~s.level_changed_ =>
    \A lv \in Levels : lv > s.current_level_ => s.running_[lv] = <<>>

\* The idle task is always runnable, so SwitchTask always finds a task.
IdleRuns(s) == s.running[IdleTask]

RunQueuesConsistent == QueuedIffRunning(tm) /\ QueuedOnce(tm)
CpuConsistent == CpuIsFront(tm)
PriorityRespected == NoneAboveUnlessChanged(tm)

\* The strengthening under which the three above are inductive.
SchedulerInv(s) ==
  /\ s \in TaskManagerState
  /\ s.latest_id_ >= IdleTask
  /\ QueuedIffRunning(s)
  /\ QueuedOnce(s)
  /\ CpuIsFront(s)
  /\ NoneAboveUnlessChanged(s)
  /\ IdleRuns(s)
Inv == SchedulerInv(tm)

\* Whenever the CPU changes hands the task that gets it is on the highest
\* level that has a runnable task: the point of current_level_ and
\* level_changed_.
DispatchesHighest ==
  [][tm'.cpu # tm.cpu =>
       \A t \in TaskIds : tm'.running[t] => tm'.level[t] <= tm'.level[tm'.cpu]]_vars

(* Liveness *)

\* Round robin: once levels have settled, a task that stays runnable with
\* nothing above its level gets the CPU again and again, whatever sleeping
\* and waking the other tasks of its level do.  (While levels keep changing
\* it may starve: ChangeLevelRunning moves a task to the back of its queue.)
TopTask(t) ==
  /\ tm.running[t]
  /\ \A u \in TaskIds : tm.running[u] => tm.level[u] <= tm.level[t]
RoundRobin ==
  \A t \in TaskIds :
    <>[]TopTask(t) /\ <>[][tm'.level = tm.level]_vars => []<>(tm.cpu = t)
=============================================================================
