-------------------------------- MODULE Timers --------------------------------
(***************************************************************************)
(* kernel/timer.cpp: the logical timers that the LAPIC timer interrupt     *)
(* drives, with their two clients: the task timer, which re-registers      *)
(* itself and makes the handler switch tasks, and the cursor timer, which  *)
(* the main task re-registers whenever it gets round to its message.       *)
(*                                                                         *)
(* A tick runs with interrupts masked: its loop is several steps           *)
(* (BeginTick, Expire..., EndTick), between which no client acts.          *)
(***************************************************************************)
EXTENDS Integers, Sequences, FiniteSets

CONSTANTS
  kTaskTimerPeriod,  \* 2 ticks in the code
  kTimer05Sec,       \* 50 ticks in the code
  OtherTimeouts,     \* the timeouts other clients may ask for
  MaxTick,           \* bound on the ticks
  MaxOthers          \* bound on other clients' timers and messages pending

ASSUME TimerAssumption ==
  /\ kTaskTimerPeriod \in Nat \ {0}
  /\ kTimer05Sec \in Nat \ {0}
  /\ OtherTimeouts \subseteq Nat
  /\ MaxTick \in Nat
  /\ MaxOthers \in Nat

\* numeric_limits<unsigned long>::max(), as far as MaxTick can tell.
kForever == MaxTick + 1

\* Values a timer carries: kTaskTimerValue, kTextboxCursorTimer, the -1 of the
\* sentinel, and that of any other client.
Values == {"task", "cursor", "sentinel", "other"}

(***************************************************************************)
(* A timer is its timeout and value.  id and added (the tick at which it   *)
(* was registered) are not in the code: they tell equal timers apart and   *)
(* let properties speak of when a timer was added.                         *)
(***************************************************************************)
Timer == [timeout : Nat, value : Values, id : Nat, added : Nat]

VARIABLES
  tick_, timers_,
  pc,                  \* "tick" while Tick is executing
  task_timer_timeout,  \* its local variable
  msgs,                \* the timeouts in main's queue, oldest first
  boot,                \* how far the start-up code has got
  next_id,             \* timers registered so far
  last_switch          \* the tick of the last SwitchTask by the handler

handlerVars == <<pc, task_timer_timeout>>
vars == <<tick_, timers_, handlerVars, msgs, boot, next_id, last_switch>>

MakeTimer(timeout, value) ==
  [timeout |-> timeout, value |-> value, id |-> next_id, added |-> tick_]

\* TimerManager::TimerManager: the sentinel makes top() always defined.
Init ==
  /\ tick_ = 0
  /\ timers_ = {[timeout |-> kForever, value |-> "sentinel", id |-> 0, added |-> 0]}
  /\ pc = "idle"
  /\ task_timer_timeout = FALSE
  /\ msgs = <<>>
  /\ boot = "cursor"
  /\ next_id = 1
  /\ last_switch = 0

AddTimer(timeout, value) ==
  /\ timers_' = timers_ \cup {MakeTimer(timeout, value)}
  /\ next_id' = next_id + 1

\* The top of the priority queue: operator< orders by timeout only, so equal
\* timeouts leave in an order the heap decides.
Tops == {t \in timers_ : \A u \in timers_ : t.timeout <= u.timeout}

-----------------------------------------------------------------------------
(* The interrupt handler *)

\* Tick sends its messages through task_manager, which does not exist until
\* InitializeTask.  Assumed: the few lines from InitializeLAPICTimer to
\* InitializeTask take less than the half second of the first cursor timer.
BootIsShort == boot # "done" => tick_ + 1 < kTimer05Sec

BeginTick ==
  /\ pc = "idle"
  /\ tick_ < MaxTick
  /\ BootIsShort
  /\ pc' = "tick"
  /\ tick_' = tick_ + 1
  /\ task_timer_timeout' = FALSE
  /\ UNCHANGED <<timers_, msgs, boot, next_id, last_switch>>

\* One iteration of the loop in Tick.
ExpireTask(t) ==
  /\ t.value = "task"
  /\ task_timer_timeout' = TRUE
  /\ timers_' = (timers_ \ {t}) \cup {MakeTimer(tick_ + kTaskTimerPeriod, "task")}
  /\ next_id' = next_id + 1
  /\ UNCHANGED msgs

ExpireOther(t) ==
  /\ t.value # "task"
  /\ msgs' = Append(msgs, [timeout |-> t.timeout, value |-> t.value])
  /\ timers_' = timers_ \ {t}
  /\ UNCHANGED <<task_timer_timeout, next_id>>

\* Mutant: the comparison is off by one.
ExpiredStrictly(t) == t.timeout < tick_

\* Has the timer at the top of the queue expired?
Expired(t) == t.timeout <= tick_

Expire ==
  /\ pc = "tick"
  /\ \E t \in Tops : Expired(t) /\ (ExpireTask(t) \/ ExpireOther(t))
  /\ UNCHANGED <<tick_, pc, boot, last_switch>>

\* The loop ends; after the EOI an expired task timer switches tasks.
EndTick ==
  /\ pc = "tick"
  /\ \E t \in Tops : ~Expired(t)
  /\ pc' = "idle"
  /\ last_switch' = IF task_timer_timeout THEN tick_ ELSE last_switch
  /\ UNCHANGED <<tick_, timers_, task_timer_timeout, msgs, boot, next_id>>

-----------------------------------------------------------------------------
(* The clients, between ticks *)

\* KernelMainNewStack, before the tasks exist.
BootCursorTimer ==
  /\ pc = "idle" /\ boot = "cursor"
  /\ AddTimer(kTimer05Sec, "cursor")
  /\ boot' = "task"
  /\ UNCHANGED <<tick_, handlerVars, msgs, last_switch>>

\* InitializeTask
InitializeTask ==
  /\ pc = "idle" /\ boot = "task"
  /\ AddTimer(tick_ + kTaskTimerPeriod, "task")
  /\ boot' = "done"
  /\ last_switch' = tick_
  /\ UNCHANGED <<tick_, handlerVars, msgs>>

\* Mutant: the next expiry is counted from now.
NextFromNow(timeout) == tick_ + kTimer05Sec

\* The timeout main registers for the next blink.
NextBlink(timeout) == timeout + kTimer05Sec

\* The main loop takes a message.  For the cursor's it registers the next
\* expiry half a second after the one in the message, not after now.
MainHandlesTimeout ==
  /\ pc = "idle" /\ boot = "done"
  /\ msgs # <<>>
  /\ msgs' = Tail(msgs)
  /\ IF Head(msgs).value = "cursor"
     THEN AddTimer(NextBlink(Head(msgs).timeout), "cursor")
     ELSE UNCHANGED <<timers_, next_id>>
  /\ UNCHANGED <<tick_, handlerVars, boot, last_switch>>

\* Any other use of AddTimer, its timeout possibly past already.
OtherAddTimer(timeout) ==
  /\ pc = "idle" /\ boot = "done"
  /\ Cardinality({t \in timers_ : t.value = "other"}) + Len(msgs) < MaxOthers
  /\ AddTimer(timeout, "other")
  /\ UNCHANGED <<tick_, handlerVars, msgs, boot, last_switch>>

\* The model's time ends at MaxTick.
EndOfTime == pc = "idle" /\ tick_ = MaxTick /\ UNCHANGED vars

Next ==
  \/ EndOfTime
  \/ BeginTick \/ Expire \/ EndTick
  \/ BootCursorTimer \/ InitializeTask \/ MainHandlesTimeout
  \/ \E timeout \in OtherTimeouts : OtherAddTimer(timeout)

Spec == Init /\ [][Next]_vars
-----------------------------------------------------------------------------
(* Safety *)

\* Every variable keeps its type, and ids are unique.
TypeOK ==
  /\ tick_ \in 0..MaxTick
  /\ timers_ \subseteq Timer
  /\ \A t, u \in timers_ : t.id = u.id => t = u
  /\ pc \in {"idle", "tick"}
  /\ task_timer_timeout \in BOOLEAN
  /\ msgs \in Seq([timeout : Nat, value : Values])
  /\ boot \in {"cursor", "task", "done"}
  /\ next_id \in Nat
  /\ last_switch \in 0..MaxTick

\* The sentinel stays in the queue, so Tick never takes top() of an empty
\* priority queue, whatever expires.
TopDefined == \E t \in timers_ : t.value = "sentinel"

\* There is always exactly one task timer once InitializeTask has run, due
\* within one period: preemption neither stops nor doubles.
TaskTimers == {t \in timers_ : t.value = "task"}
OneTaskTimer ==
  /\ Cardinality(TaskTimers) = (IF boot = "done" THEN 1 ELSE 0)
  /\ pc = "idle" => \A t \in TaskTimers : t.timeout - tick_ \in 1..kTaskTimerPeriod

\* A timer expires at the first tick that reaches its timeout, or at the
\* first tick after it was added when that had passed already: never early,
\* never a tick late, whatever else expires at the same tick.
ExpiresOnTime ==
  [][\A t \in timers_ : t \notin timers_' =>
       tick_ = IF t.timeout > t.added THEN t.timeout ELSE t.added + 1]_vars

\* However late main handles its messages, the cursor's timeouts stay whole
\* multiples of half a second, one after the other: the chain does not drift.
CursorTimeouts == {t.timeout : t \in {u \in timers_ : u.value = "cursor"}}
                    \cup {msgs[i].timeout : i \in {j \in 1..Len(msgs) : msgs[j].value = "cursor"}}
NoDrift ==
  /\ \A x \in CursorTimeouts : x % kTimer05Sec = 0
  /\ Cardinality(CursorTimeouts) = (IF boot = "cursor" THEN 0 ELSE 1)

\* Types; the sentinel, so that Tick never takes top() of an empty queue; the
\* one task timer; and the cursor timer, which does not drift.
TimersInv == TypeOK /\ TopDefined /\ OneTaskTimer /\ NoDrift
===============================================================================
