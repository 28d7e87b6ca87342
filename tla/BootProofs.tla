------------------------------ MODULE BootProofs ------------------------------
(***************************************************************************)
(* Proofs about the start-up and the timers it ends in, for every period,  *)
(* every set of timeouts, any number of timers, any PM timer and any       *)
(* behaviour of the firmware.                                              *)
(*                                                                         *)
(* Timers: TimersInv, and that a timer expires exactly when it is due.     *)
(* The inductive invariant IInv follows the tick from inside: while Tick   *)
(* executes some timers may be due now, at no moment is one overdue.       *)
(*                                                                         *)
(* Start-up: WaitOK follows WaitMilliseconds through the wrap-around of    *)
(* the PM timer, MemoryOK says what the memory map and the references of   *)
(* the processor and the kernel are at each stage.                         *)
(*                                                                         *)
(* Console: ConsoleHeld says how it follows the log.  Each text is a fold  *)
(* over characters, unrolled with the lemmas of Induction.                 *)
(*                                                                         *)
(* Memory manager: BitmapIInv follows the boot loop by what it has read    *)
(* and the search by the starts it has passed over; the last step of a     *)
(* search is the allocation of FrameAllocator.                             *)
(***************************************************************************)
EXTENDS Boot, BitmapMemoryManager, Induction, SequenceTheorems, FiniteSetTheorems, TLAPS

\* The tick at which a timer expires.
Due(t) == IF t.timeout > t.added THEN t.timeout ELSE t.added + 1
NotOverdue ==
  \A t \in timers_ :
    /\ t.added <= tick_
    /\ pc = "idle" => tick_ < Due(t)
    /\ pc = "tick" => tick_ <= Due(t) /\ (t.added < tick_ \/ tick_ < t.timeout)

IdsUsed == \A t \in timers_ : t.id < next_id
SentinelForever ==
  /\ \A t \in timers_ : t.value = "sentinel" => t.timeout = kForever
  /\ \E t \in timers_ : t.value = "sentinel"

\* The task timer: none before InitializeTask, then one.  A tick may find it
\* due.
TaskTimer ==
  /\ IF boot = "done" THEN \E t : TaskTimers = {t} ELSE TaskTimers = {}
  /\ \A t \in TaskTimers : tick_ <= t.timeout /\ t.timeout <= tick_ + kTaskTimerPeriod
  /\ pc = "idle" => \A t \in TaskTimers : tick_ < t.timeout

\* The cursor timer is one token, in the queue of timers or in main's queue.
CursorTimers == {t \in timers_ : t.value = "cursor"}
CursorMsgs == {j \in 1..Len(msgs) : msgs[j].value = "cursor"}
CursorToken ==
  IF boot = "cursor" THEN CursorTimers = {} /\ CursorMsgs = {}
  ELSE \/ (\E t : CursorTimers = {t}) /\ CursorMsgs = {}
       \/ CursorTimers = {} /\ \E j : CursorMsgs = {j}
Blink(x) == \E n \in Nat : x = n * kTimer05Sec
CursorBlinks ==
  /\ \A t \in CursorTimers : Blink(t.timeout)
  /\ \A j \in CursorMsgs : Blink(msgs[j].timeout)

IInv == TypeOK /\ NotOverdue /\ IdsUsed /\ SentinelForever /\ TaskTimer /\ CursorToken /\ CursorBlinks

LEMMA BlinkNext ==
  ASSUME NEW x \in Nat, Blink(x)
  PROVE  Blink(x + kTimer05Sec) /\ x % kTimer05Sec = 0
<1>1. kTimer05Sec \in Nat /\ kTimer05Sec > 0 BY TimerAssumption
<1>2. PICK n \in Nat : x = n * kTimer05Sec BY DEF Blink
<1>3. (n + 1) * kTimer05Sec = x + kTimer05Sec BY <1>1, <1>2
<1>4. x % kTimer05Sec = 0 BY <1>1, <1>2
<1> QED BY <1>3, <1>4 DEF Blink

Msg == [timeout : Nat, value : Values]

LEMMA InitIInv == Init => IInv
<1> SUFFICES ASSUME Init PROVE IInv
  OBVIOUS
<1> DEFINE s == [timeout |-> kForever, value |-> "sentinel", id |-> 0, added |-> 0]
<1>1. kForever \in Nat /\ kForever > 0 BY TimerAssumption DEF kForever
<1>2. timers_ = {s} /\ s \in Timer /\ s.added = 0 /\ s.timeout = kForever /\ s.id = 0 /\ s.value = "sentinel"
  BY <1>1 DEF Init, Timer, Values
<1> HIDE DEF s
<1>3. TypeOK
  <2>1. msgs \in Seq([timeout : Nat, value : Values]) BY DEF Init
  <2>2. 0 \in 0..MaxTick BY TimerAssumption
  <2>3. timers_ \subseteq Timer /\ \A t, u \in timers_ : t.id = u.id => t = u BY <1>2
  <2> QED BY <2>1, <2>2, <2>3 DEF Init, TypeOK
<1>4. NotOverdue BY <1>1, <1>2 DEF Init, NotOverdue, Due
<1>5. IdsUsed /\ SentinelForever BY <1>2 DEF Init, IdsUsed, SentinelForever
<1>6. TaskTimers = {} /\ CursorTimers = {} BY <1>2 DEF TaskTimers, CursorTimers
<1>7. CursorMsgs = {} BY DEF Init, CursorMsgs
<1>8. TaskTimer /\ CursorToken /\ CursorBlinks
  BY <1>6, <1>7 DEF Init, TaskTimer, CursorToken, CursorBlinks
<1> QED BY <1>3, <1>4, <1>5, <1>8 DEF IInv

\* What the invariant gives: its conjuncts entail the run's TimersInv.
LEMMA IInvGives == IInv => TimersInv
<1> SUFFICES ASSUME IInv PROVE TimersInv
  OBVIOUS
<1>1. TopDefined BY DEF IInv, SentinelForever, TopDefined
<1>2. OneTaskTimer
  <2>1. Cardinality(TaskTimers) = IF boot = "done" THEN 1 ELSE 0
    BY FS_EmptySet, FS_Singleton DEF IInv, TaskTimer
  <2>2. ASSUME pc = "idle", NEW t \in TaskTimers PROVE t.timeout - tick_ \in 1..kTaskTimerPeriod
    <3>1. t.timeout \in Nat /\ tick_ \in Nat /\ kTaskTimerPeriod \in Nat
      BY TimerAssumption DEF IInv, TypeOK, TaskTimers, Timer
    <3>2. tick_ < t.timeout /\ t.timeout <= tick_ + kTaskTimerPeriod BY <2>2 DEF IInv, TaskTimer
    <3> QED BY <3>1, <3>2
  <2> QED BY <2>1, <2>2 DEF OneTaskTimer
<1>3. NoDrift
  <2>1. CursorTimeouts = {t.timeout : t \in CursorTimers} \cup {msgs[j].timeout : j \in CursorMsgs}
    BY DEF CursorTimeouts, CursorTimers, CursorMsgs
  <2>2. \A x \in CursorTimeouts : x % kTimer05Sec = 0
    <3>1. \A t \in CursorTimers : t.timeout \in Nat /\ Blink(t.timeout)
      BY DEF IInv, TypeOK, CursorTimers, Timer, CursorBlinks
    <3>2. \A j \in CursorMsgs : msgs[j].timeout \in Nat /\ Blink(msgs[j].timeout)
      <4>1. msgs \in Seq(Msg) BY DEF IInv, TypeOK, Msg
      <4>2. \A j \in 1..Len(msgs) : msgs[j] \in Msg BY <4>1, ElementOfSeq
      <4> QED BY <4>2 DEF IInv, Msg, CursorMsgs, CursorBlinks
    <3> QED BY <2>1, <3>1, <3>2, BlinkNext
  <2>3. CASE boot = "cursor"
    <3>1. CursorTimeouts = {} BY <2>1, <2>3 DEF IInv, CursorToken
    <3> QED BY <3>1, <2>2, <2>3, FS_EmptySet DEF NoDrift
  <2>4. CASE boot # "cursor"
    <3>1. \E x : CursorTimeouts = {x}
      <4>1. ASSUME NEW t, CursorTimers = {t}, CursorMsgs = {} PROVE CursorTimeouts = {t.timeout}
        BY <4>1, <2>1
      <4>2. ASSUME NEW j, CursorTimers = {}, CursorMsgs = {j} PROVE CursorTimeouts = {msgs[j].timeout}
        BY <4>2, <2>1
      <4> QED BY <4>1, <4>2, <2>4 DEF IInv, CursorToken
    <3>2. Cardinality(CursorTimeouts) = 1 BY <3>1, FS_Singleton
    <3> QED BY <3>2, <2>2, <2>4 DEF NoDrift
  <2> QED BY <2>3, <2>4
<1> QED BY <1>1, <1>2, <1>3 DEF IInv, TimersInv

\* Adding one timer, due later than now, keeps what is said of timers.
LEMMA AddKeeps ==
  ASSUME IInv, NEW timeout \in Nat, NEW value \in Values \ {"sentinel"},
         NEW rest \in SUBSET timers_, \E s \in rest : s.value = "sentinel",
         timers_' = rest \cup {MakeTimer(timeout, value)},
         next_id' = next_id + 1, tick_' = tick_, pc' = pc,
         pc = "tick" => tick_ < timeout
  PROVE  /\ timers_' \subseteq Timer /\ next_id' \in Nat
         /\ \A t, u \in timers_' : t.id = u.id => t = u
         /\ NotOverdue' /\ IdsUsed' /\ SentinelForever'
<1> DEFINE m == MakeTimer(timeout, value)
<1>1. tick_ \in Nat /\ next_id \in Nat /\ timers_ \subseteq Timer BY TimerAssumption DEF IInv, TypeOK
<1>2. m \in Timer /\ m.timeout = timeout /\ m.value = value /\ m.id = next_id /\ m.added = tick_
  BY <1>1 DEF MakeTimer, Timer
<1>3. timers_' = rest \cup {m} OBVIOUS
<1> HIDE DEF m
<1>4. timers_' \subseteq Timer /\ next_id' \in Nat BY <1>1, <1>2, <1>3
<1>5. \A t \in rest : t.id \in Nat /\ t.id < next_id BY <1>1 DEF IInv, IdsUsed, Timer
<1>6. \A t, u \in timers_' : t.id = u.id => t = u
  BY <1>1, <1>2, <1>3, <1>5 DEF IInv, TypeOK
<1>7. IdsUsed' BY <1>1, <1>2, <1>3, <1>5 DEF IdsUsed
<1>8. SentinelForever' BY <1>2, <1>3 DEF IInv, SentinelForever, kForever
<1>9. NotOverdue'
  <2> SUFFICES ASSUME NEW t \in timers_'
               PROVE  /\ t.added <= tick_
                      /\ pc = "idle" => tick_ < Due(t)
                      /\ pc = "tick" => tick_ <= Due(t) /\ (t.added < tick_ \/ tick_ < t.timeout)
    BY DEF NotOverdue, Due
  <2>1. CASE t \in rest BY <2>1 DEF IInv, NotOverdue
  <2>2. CASE t = m
    <3>1. tick_ < Due(t) BY <2>2, <1>1, <1>2 DEF Due
    <3>2. Due(t) \in Nat BY <2>2, <1>1, <1>2 DEF Due
    <3> QED BY <3>1, <3>2, <2>2, <1>1, <1>2
  <2> QED BY <2>1, <2>2, <1>3
<1> QED BY <1>4, <1>6, <1>7, <1>8, <1>9

LEMMA BeginTickPreserves ==
  ASSUME IInv, BeginTick
  PROVE  IInv'
<1>1. /\ pc = "idle" /\ tick_ < MaxTick /\ pc' = "tick" /\ tick_' = tick_ + 1
      /\ task_timer_timeout' = FALSE
      /\ UNCHANGED <<timers_, msgs, boot, next_id, last_switch>>
  BY DEF BeginTick
<1>2. tick_ \in Nat /\ MaxTick \in Nat /\ timers_ \subseteq Timer BY TimerAssumption DEF IInv, TypeOK
<1>3. TypeOK'
  <2>1. tick_ + 1 \in 0..MaxTick BY <1>1, <1>2
  <2> QED BY <2>1, <1>1 DEF IInv, TypeOK
<1>4. NotOverdue'
  <2> SUFFICES ASSUME NEW t \in timers_
               PROVE  t.added <= tick_ + 1 /\ tick_ + 1 <= Due(t) /\ t.added < tick_ + 1
    BY <1>1 DEF NotOverdue, Due
  <2>1. t.added \in Nat /\ t.timeout \in Nat BY <1>2 DEF Timer
  <2>2. Due(t) \in Nat BY <2>1 DEF Due
  <2>3. t.added <= tick_ /\ tick_ < Due(t) BY <1>1 DEF IInv, NotOverdue
  <2> QED BY <2>1, <2>2, <2>3, <1>2
<1>5. TaskTimer'
  <2>1. TaskTimers' = TaskTimers BY <1>1 DEF TaskTimers
  <2>2. \A t \in TaskTimers : t.timeout \in Nat BY <1>2 DEF TaskTimers, Timer
  <2>3. \A t \in TaskTimers : tick_ + 1 <= t.timeout /\ t.timeout <= (tick_ + 1) + kTaskTimerPeriod
    BY <2>2, <1>1, <1>2, TimerAssumption DEF IInv, TaskTimer
  <2> QED BY <2>1, <2>3, <1>1 DEF IInv, TaskTimer
<1>6. IdsUsed' /\ SentinelForever' /\ CursorToken' /\ CursorBlinks'
  BY <1>1 DEF IInv, IdsUsed, SentinelForever, CursorToken, CursorBlinks, CursorTimers, CursorMsgs,
              Blink, kForever
<1> QED BY <1>3, <1>4, <1>5, <1>6 DEF IInv

\* An expired timer is not the sentinel.
LEMMA ExpiredNotSentinel ==
  ASSUME IInv, NEW t \in timers_, Expired(t)
  PROVE  t.value # "sentinel"
<1>1. tick_ \in Nat /\ tick_ <= MaxTick /\ MaxTick \in Nat BY TimerAssumption DEF IInv, TypeOK
<1> QED BY <1>1 DEF IInv, SentinelForever, Expired, kForever

LEMMA ExpireTaskPreserves ==
  ASSUME IInv, pc = "tick", NEW t \in timers_, Expired(t), ExpireTask(t),
         UNCHANGED <<tick_, pc, boot, last_switch>>
  PROVE  IInv'
<1> DEFINE m == MakeTimer(tick_ + kTaskTimerPeriod, "task")
<1>1. /\ t.value = "task" /\ task_timer_timeout' = TRUE /\ next_id' = next_id + 1
      /\ timers_' = (timers_ \ {t}) \cup {m} /\ UNCHANGED msgs
  BY DEF ExpireTask
<1>2. tick_ \in Nat /\ kTaskTimerPeriod \in Nat /\ kTaskTimerPeriod > 0 BY TimerAssumption DEF IInv, TypeOK
<1>3. \E s \in timers_ \ {t} : s.value = "sentinel" BY <1>1 DEF IInv, SentinelForever
<1>4. tick_ + kTaskTimerPeriod \in Nat /\ tick_ < tick_ + kTaskTimerPeriod BY <1>2
<1>5. /\ timers_' \subseteq Timer /\ next_id' \in Nat
      /\ \A u, v \in timers_' : u.id = v.id => u = v
      /\ NotOverdue' /\ IdsUsed' /\ SentinelForever'
  BY <1>1, <1>3, <1>4, AddKeeps DEF Values
<1>6. TypeOK' BY <1>1, <1>5 DEF IInv, TypeOK
<1>7. m.value = "task" /\ m.timeout = tick_ + kTaskTimerPeriod BY DEF MakeTimer
<1> HIDE DEF m
<1>8. boot = "done" /\ TaskTimers = {t} BY <1>1 DEF IInv, TaskTimer, TaskTimers
<1>9. TaskTimers' = {m} BY <1>1, <1>7, <1>8 DEF TaskTimers
<1>10. TaskTimer'
  <2>1. tick_' <= m.timeout /\ m.timeout <= tick_' + kTaskTimerPeriod BY <1>2, <1>7
  <2> QED BY <2>1, <1>8, <1>9 DEF TaskTimer
<1>11. CursorTimers' = CursorTimers /\ CursorMsgs' = CursorMsgs
  BY <1>1, <1>7 DEF CursorTimers, CursorMsgs
<1>12. CursorToken' /\ CursorBlinks' BY <1>11, <1>1 DEF IInv, CursorToken, CursorBlinks, Blink
<1> QED BY <1>5, <1>6, <1>10, <1>12 DEF IInv

\* What the queue of messages does to the places of the cursor's messages.
CursorPlaces(q) == {j \in 1..Len(q) : q[j].value = "cursor"}

LEMMA AppendPlaces ==
  ASSUME NEW q \in Seq(Msg), NEW m \in Msg
  PROVE  /\ Append(q, m) \in Seq(Msg)
         /\ CursorPlaces(Append(q, m)) =
              CursorPlaces(q) \cup (IF m.value = "cursor" THEN {Len(q) + 1} ELSE {})
         /\ \A j \in 1..Len(q) : Append(q, m)[j] = q[j]
         /\ Append(q, m)[Len(q) + 1] = m
<1> DEFINE r == Append(q, m)
<1>1. /\ r \in Seq(Msg) /\ Len(r) = Len(q) + 1 /\ Len(q) \in Nat
      /\ \A j \in 1..Len(q) : r[j] = q[j]
      /\ r[Len(q) + 1] = m
  BY AppendProperties
<1> HIDE DEF r
<1>2. \A j : j \in 1..Len(r) <=> j \in 1..Len(q) \/ j = Len(q) + 1 BY <1>1
<1>3. CursorPlaces(r) = CursorPlaces(q) \cup (IF m.value = "cursor" THEN {Len(q) + 1} ELSE {})
  BY <1>1, <1>2 DEF CursorPlaces
<1> QED BY <1>1, <1>3 DEF r

LEMMA TailPlaces ==
  ASSUME NEW q \in Seq(Msg), q # <<>>
  PROVE  /\ Tail(q) \in Seq(Msg) /\ Head(q) \in Msg /\ Head(q) = q[1] /\ 1 \in 1..Len(q)
         /\ \A j : j \in CursorPlaces(Tail(q)) <=> j \in Nat \ {0} /\ j + 1 \in CursorPlaces(q)
         /\ \A j \in CursorPlaces(Tail(q)) : Tail(q)[j] = q[j + 1]
         /\ \A j \in CursorPlaces(q) : j = 1 \/ (j - 1 \in CursorPlaces(Tail(q)) /\ j - 1 \in Nat)
<1> DEFINE r == Tail(q)
<1>1. /\ r \in Seq(Msg) /\ Len(r) = Len(q) - 1 /\ Len(q) \in Nat /\ Len(q) >= 1
      /\ \A j \in 1..Len(r) : r[j] = q[j + 1]
      /\ Head(q) = q[1] /\ Head(q) \in Msg
  BY HeadTailProperties, EmptySeq
<1> HIDE DEF r
<1>2. \A j : j \in 1..Len(r) <=> j \in Nat \ {0} /\ j + 1 \in 1..Len(q) BY <1>1
<1>3. \A j : j \in CursorPlaces(r) <=> j \in Nat \ {0} /\ j + 1 \in CursorPlaces(q)
  BY <1>1, <1>2 DEF CursorPlaces
<1>4. \A j \in CursorPlaces(r) : r[j] = q[j + 1] BY <1>1 DEF CursorPlaces
<1>5. \A j \in CursorPlaces(q) : j = 1 \/ (j - 1 \in CursorPlaces(r) /\ j - 1 \in Nat)
  <2> SUFFICES ASSUME NEW j \in CursorPlaces(q), j # 1 PROVE j - 1 \in CursorPlaces(r) /\ j - 1 \in Nat
    OBVIOUS
  <2>1. j \in 1..Len(q) BY DEF CursorPlaces
  <2>2. j - 1 \in Nat \ {0} /\ (j - 1) + 1 = j BY <2>1, <1>1
  <2> QED BY <2>2, <1>3
<1>6. 1 \in 1..Len(q) BY <1>1
<1> QED BY <1>1, <1>3, <1>4, <1>5, <1>6 DEF r

LEMMA ExpireOtherPreserves ==
  ASSUME IInv, pc = "tick", NEW t \in timers_, Expired(t), ExpireOther(t),
         UNCHANGED <<tick_, pc, boot, last_switch>>
  PROVE  IInv'
<1> DEFINE m == [timeout |-> t.timeout, value |-> t.value]
<1>1. /\ t.value # "task" /\ msgs' = Append(msgs, m) /\ timers_' = timers_ \ {t}
      /\ UNCHANGED <<task_timer_timeout, next_id>>
  BY DEF ExpireOther
<1>2. t.value # "sentinel" BY ExpiredNotSentinel
<1>3. msgs \in Seq(Msg) /\ t \in Timer BY DEF IInv, TypeOK, Msg
<1>4. m \in Msg /\ m.value = t.value /\ m.timeout = t.timeout BY <1>3 DEF Msg, Timer
<1> HIDE DEF m
<1>5. /\ msgs' \in Seq(Msg)
      /\ CursorMsgs' = CursorMsgs \cup (IF m.value = "cursor" THEN {Len(msgs) + 1} ELSE {})
      /\ \A j \in 1..Len(msgs) : msgs'[j] = msgs[j]
      /\ msgs'[Len(msgs) + 1] = m
  BY <1>1, <1>3, <1>4, AppendPlaces DEF CursorMsgs, CursorPlaces
<1>6. TypeOK'
  <2>1. /\ timers_' \subseteq Timer /\ \A u, v \in timers_' : u.id = v.id => u = v
    BY <1>1 DEF IInv, TypeOK
  <2> QED BY <2>1, <1>1, <1>5 DEF IInv, TypeOK, Msg
<1>7. NotOverdue' BY <1>1 DEF IInv, NotOverdue, Due
<1>8. IdsUsed' /\ SentinelForever' BY <1>1, <1>2 DEF IInv, IdsUsed, SentinelForever, kForever
<1>9. TaskTimer'
  <2>1. TaskTimers' = TaskTimers BY <1>1 DEF TaskTimers
  <2> QED BY <2>1 DEF IInv, TaskTimer
<1>10. CursorToken' /\ CursorBlinks'
  <2>1. CASE t.value = "cursor"
    <3>1. CursorTimers = {t} /\ CursorMsgs = {} /\ boot # "cursor"
      BY <2>1 DEF IInv, CursorToken, CursorTimers
    <3>2. CursorTimers' = {} BY <3>1, <1>1 DEF CursorTimers
    <3>3. CursorMsgs' = {Len(msgs) + 1} BY <3>1, <2>1, <1>4, <1>5
    <3>4. Blink(m.timeout) BY <3>1, <1>4 DEF IInv, CursorBlinks
    <3> QED BY <3>1, <3>2, <3>3, <3>4, <1>5 DEF CursorToken, CursorBlinks, Blink
  <2>2. CASE t.value # "cursor"
    <3>1. CursorTimers' = CursorTimers BY <2>2, <1>1 DEF CursorTimers
    <3>2. CursorMsgs' = CursorMsgs BY <2>2, <1>4, <1>5
    <3>3. \A j \in CursorMsgs : msgs'[j] = msgs[j] BY <1>5 DEF CursorMsgs
    <3> QED BY <3>1, <3>2, <3>3 DEF IInv, CursorToken, CursorBlinks, Blink
  <2> QED BY <2>1, <2>2
<1> QED BY <1>6, <1>7, <1>8, <1>9, <1>10 DEF IInv

\* When the loop ends, no timer is due: the top of the queue is the earliest.
LEMMA EndTickPreserves ==
  ASSUME IInv, EndTick
  PROVE  IInv'
<1>1. /\ pc = "tick" /\ pc' = "idle"
      /\ last_switch' = IF task_timer_timeout THEN tick_ ELSE last_switch
      /\ UNCHANGED <<tick_, timers_, task_timer_timeout, msgs, boot, next_id>>
  BY DEF EndTick
<1>2. tick_ \in Nat /\ timers_ \subseteq Timer BY TimerAssumption DEF IInv, TypeOK
<1>3. \A t \in timers_ : tick_ < t.timeout
  <2>1. PICK t \in Tops : ~Expired(t) BY DEF EndTick
  <2>2. t \in timers_ /\ \A u \in timers_ : t.timeout <= u.timeout BY DEF Tops
  <2>3. tick_ < t.timeout BY <2>1, <2>2, <1>2 DEF Expired, Timer
  <2> QED BY <2>2, <2>3, <1>2 DEF Timer
<1>4. TypeOK' BY <1>1 DEF IInv, TypeOK
<1>5. NotOverdue'
  <2> SUFFICES ASSUME NEW t \in timers_ PROVE t.added <= tick_ /\ tick_ < Due(t)
    BY <1>1 DEF NotOverdue, Due
  <2>1. t.added \in Nat /\ t.timeout \in Nat BY <1>2 DEF Timer
  <2>2. t.added <= tick_ BY DEF IInv, NotOverdue
  <2> QED BY <2>1, <2>2, <1>2, <1>3 DEF Due
<1>6. TaskTimer'
  <2>1. TaskTimers' = TaskTimers /\ TaskTimers \subseteq timers_ BY <1>1 DEF TaskTimers
  <2> QED BY <2>1, <1>1, <1>3 DEF IInv, TaskTimer
<1>7. IdsUsed' /\ SentinelForever' /\ CursorToken' /\ CursorBlinks'
  BY <1>1 DEF IInv, IdsUsed, SentinelForever, CursorToken, CursorBlinks, CursorTimers, CursorMsgs,
              Blink, kForever
<1> QED BY <1>4, <1>5, <1>6, <1>7 DEF IInv

\* The clients register timers between ticks.
LEMMA BootPreserves ==
  ASSUME IInv, BootCursorTimer \/ InitializeTask
  PROVE  IInv'
<1>0. \E s \in timers_ : s.value = "sentinel" BY DEF IInv, SentinelForever
<1>1. CASE BootCursorTimer
  <2> DEFINE m == MakeTimer(kTimer05Sec, "cursor")
  <2>1. /\ pc = "idle" /\ boot = "cursor" /\ boot' = "task"
        /\ timers_' = timers_ \cup {m} /\ next_id' = next_id + 1
        /\ UNCHANGED <<tick_, pc, task_timer_timeout, msgs, last_switch>>
    BY <1>1 DEF BootCursorTimer, AddTimer, handlerVars
  <2>2. kTimer05Sec \in Nat BY TimerAssumption
  <2>3. /\ timers_' \subseteq Timer /\ next_id' \in Nat
        /\ \A t, u \in timers_' : t.id = u.id => t = u
        /\ NotOverdue' /\ IdsUsed' /\ SentinelForever'
    BY <1>0, <2>1, <2>2, AddKeeps DEF Values
  <2>4. TypeOK' BY <2>1, <2>3 DEF IInv, TypeOK
  <2>5. m.value = "cursor" /\ m.timeout = kTimer05Sec BY DEF MakeTimer
  <2> HIDE DEF m
  <2>6. TaskTimers' = TaskTimers BY <2>1, <2>5 DEF TaskTimers
  <2>7. TaskTimer' BY <2>1, <2>6 DEF IInv, TaskTimer
  <2>8. CursorTimers' = {m} /\ CursorMsgs' = {}
    BY <2>1, <2>5 DEF IInv, CursorToken, CursorTimers, CursorMsgs
  <2>9. Blink(m.timeout)
    <3>1. 1 * kTimer05Sec = kTimer05Sec BY <2>2
    <3> QED BY <3>1, <2>5 DEF Blink
  <2>10. CursorToken' /\ CursorBlinks' BY <2>1, <2>8, <2>9 DEF CursorToken, CursorBlinks, Blink
  <2> QED BY <2>3, <2>4, <2>7, <2>10 DEF IInv
<1>2. CASE InitializeTask
  <2> DEFINE m == MakeTimer(tick_ + kTaskTimerPeriod, "task")
  <2>1. /\ pc = "idle" /\ boot = "task" /\ boot' = "done" /\ last_switch' = tick_
        /\ timers_' = timers_ \cup {m} /\ next_id' = next_id + 1
        /\ UNCHANGED <<tick_, pc, task_timer_timeout, msgs>>
    BY <1>2 DEF InitializeTask, AddTimer, handlerVars
  <2>2. /\ tick_ \in Nat /\ kTaskTimerPeriod \in Nat /\ kTaskTimerPeriod > 0
        /\ tick_ + kTaskTimerPeriod \in Nat
    BY TimerAssumption DEF IInv, TypeOK
  <2>3. /\ timers_' \subseteq Timer /\ next_id' \in Nat
        /\ \A t, u \in timers_' : t.id = u.id => t = u
        /\ NotOverdue' /\ IdsUsed' /\ SentinelForever'
    BY <1>0, <2>1, <2>2, AddKeeps DEF Values
  <2>4. TypeOK' BY <2>1, <2>3 DEF IInv, TypeOK
  <2>5. m.value = "task" /\ m.timeout = tick_ + kTaskTimerPeriod BY DEF MakeTimer
  <2> HIDE DEF m
  <2>6. TaskTimers' = {m} BY <2>1, <2>5 DEF IInv, TaskTimer, TaskTimers
  <2>7. TaskTimer'
    <3>1. tick_ <= m.timeout /\ m.timeout <= tick_ + kTaskTimerPeriod /\ tick_ < m.timeout BY <2>2, <2>5
    <3> QED BY <3>1, <2>1, <2>6 DEF TaskTimer
  <2>8. CursorTimers' = CursorTimers /\ CursorMsgs' = CursorMsgs
    BY <2>1, <2>5 DEF CursorTimers, CursorMsgs
  <2>9. CursorToken' /\ CursorBlinks' BY <2>1, <2>8 DEF IInv, CursorToken, CursorBlinks, Blink
  <2> QED BY <2>3, <2>4, <2>7, <2>9 DEF IInv
<1> QED BY <1>1, <1>2

LEMMA OtherAddPreserves ==
  ASSUME IInv, NEW timeout \in OtherTimeouts, OtherAddTimer(timeout)
  PROVE  IInv'
<1> DEFINE m == MakeTimer(timeout, "other")
<1>1. /\ pc = "idle" /\ boot = "done"
      /\ timers_' = timers_ \cup {m} /\ next_id' = next_id + 1
      /\ UNCHANGED <<tick_, pc, task_timer_timeout, msgs, boot, last_switch>>
  BY DEF OtherAddTimer, AddTimer, handlerVars
<1>2. timeout \in Nat BY TimerAssumption
<1>3. \E s \in timers_ : s.value = "sentinel" BY DEF IInv, SentinelForever
<1>4. /\ timers_' \subseteq Timer /\ next_id' \in Nat
      /\ \A t, u \in timers_' : t.id = u.id => t = u
      /\ NotOverdue' /\ IdsUsed' /\ SentinelForever'
  BY <1>1, <1>2, <1>3, AddKeeps DEF Values
<1>5. TypeOK' BY <1>1, <1>4 DEF IInv, TypeOK
<1>6. m.value = "other" BY DEF MakeTimer
<1> HIDE DEF m
<1>7. TaskTimers' = TaskTimers /\ CursorTimers' = CursorTimers /\ CursorMsgs' = CursorMsgs
  BY <1>1, <1>6 DEF TaskTimers, CursorTimers, CursorMsgs
<1>8. TaskTimer' /\ CursorToken' /\ CursorBlinks'
  BY <1>1, <1>7 DEF IInv, TaskTimer, CursorToken, CursorBlinks, Blink
<1> QED BY <1>4, <1>5, <1>8 DEF IInv

\* Main turns the cursor's message into the next timer, half a second after
\* the timeout in the message: the token changes places.
LEMMA MainPreserves ==
  ASSUME IInv, MainHandlesTimeout
  PROVE  IInv'
<1>1. /\ pc = "idle" /\ boot = "done" /\ msgs # <<>> /\ msgs' = Tail(msgs)
      /\ UNCHANGED <<tick_, pc, task_timer_timeout, boot, last_switch>>
  BY DEF MainHandlesTimeout, handlerVars
<1>2. msgs \in Seq(Msg) BY DEF IInv, TypeOK, Msg
<1>3. /\ msgs' \in Seq(Msg) /\ Head(msgs) \in Msg /\ Head(msgs) = msgs[1] /\ 1 \in 1..Len(msgs)
      /\ \A j : j \in CursorMsgs' <=> j \in Nat \ {0} /\ j + 1 \in CursorMsgs
      /\ \A j \in CursorMsgs' : msgs'[j] = msgs[j + 1]
      /\ \A j \in CursorMsgs : j = 1 \/ (j - 1 \in CursorMsgs' /\ j - 1 \in Nat)
  BY <1>1, <1>2, TailPlaces DEF CursorMsgs, CursorPlaces
<1>4. msgs' \in Seq([timeout : Nat, value : Values]) BY <1>3 DEF Msg
<1>5. CASE Head(msgs).value = "cursor"
  <2> DEFINE x == Head(msgs).timeout
             m == MakeTimer(x + kTimer05Sec, "cursor")
  <2>1. timers_' = timers_ \cup {m} /\ next_id' = next_id + 1
    BY <1>5 DEF MainHandlesTimeout, AddTimer, NextBlink
  <2>2. x \in Nat /\ kTimer05Sec \in Nat /\ x + kTimer05Sec \in Nat BY <1>3, TimerAssumption DEF Msg
  <2>3. \E s \in timers_ : s.value = "sentinel" BY DEF IInv, SentinelForever
  <2>4. /\ timers_' \subseteq Timer /\ next_id' \in Nat
        /\ \A t, u \in timers_' : t.id = u.id => t = u
        /\ NotOverdue' /\ IdsUsed' /\ SentinelForever'
    BY <1>1, <2>1, <2>2, <2>3, AddKeeps DEF Values
  <2>5. TypeOK' BY <1>1, <1>4, <2>4 DEF IInv, TypeOK
  <2>6. m.value = "cursor" /\ m.timeout = x + kTimer05Sec BY DEF MakeTimer
  <2>7. 1 \in CursorMsgs BY <1>3, <1>5 DEF CursorMsgs
  <2>8. Blink(x) BY <2>7, <1>3 DEF IInv, CursorBlinks
  <2>9. Blink(m.timeout) BY <2>2, <2>6, <2>8, BlinkNext
  <2> HIDE DEF x, m
  <2>10. CursorTimers = {} /\ CursorMsgs = {1} BY <2>7, <1>1 DEF IInv, CursorToken
  <2>11. CursorTimers' = {m} BY <2>1, <2>6, <2>10 DEF CursorTimers
  <2>12. CursorMsgs' = {} BY <2>10, <1>3
  <2>13. CursorToken' /\ CursorBlinks'
    BY <2>9, <2>11, <2>12, <1>1 DEF CursorToken, CursorBlinks, Blink
  <2>14. TaskTimers' = TaskTimers BY <2>1, <2>6 DEF TaskTimers
  <2>15. TaskTimer' BY <2>14, <1>1 DEF IInv, TaskTimer
  <2> QED BY <2>4, <2>5, <2>13, <2>15 DEF IInv
<1>6. CASE Head(msgs).value # "cursor"
  <2>1. UNCHANGED <<timers_, next_id>> BY <1>6 DEF MainHandlesTimeout
  <2>2. TypeOK' BY <1>1, <1>4, <2>1 DEF IInv, TypeOK
  <2>3. NotOverdue' /\ IdsUsed' /\ SentinelForever' /\ TaskTimer'
    BY <1>1, <2>1 DEF IInv, NotOverdue, Due, IdsUsed, SentinelForever, kForever, TaskTimer, TaskTimers
  <2>4. CursorTimers' = CursorTimers BY <2>1 DEF CursorTimers
  <2>5. 1 \notin CursorMsgs BY <1>3, <1>6 DEF CursorMsgs
  <2>6. CursorMsgs = {} => CursorMsgs' = {} BY <1>3
  <2>7. ASSUME NEW j, CursorMsgs = {j} PROVE CursorMsgs' = {j - 1}
    <3>1. j \in 1..Len(msgs) BY <2>7 DEF CursorMsgs
    <3>2. j - 1 \in CursorMsgs' BY <2>5, <2>7, <1>3
    <3>3. \A k \in CursorMsgs' : k \in Nat /\ k + 1 = j BY <2>7, <1>3
    <3> QED BY <3>1, <3>2, <3>3
  <2>8. CursorToken' BY <1>1, <2>4, <2>6, <2>7 DEF IInv, CursorToken
  <2>9. CursorBlinks'
    <3>1. \A j \in CursorMsgs' : j + 1 \in CursorMsgs /\ msgs'[j] = msgs[j + 1] BY <1>3
    <3> QED BY <3>1, <2>4 DEF IInv, CursorBlinks, Blink
  <2> QED BY <2>2, <2>3, <2>8, <2>9 DEF IInv
<1> QED BY <1>5, <1>6

LEMMA StepIInv == IInv /\ [Next]_vars => IInv'
<1> SUFFICES ASSUME IInv, [Next]_vars PROVE IInv'
  OBVIOUS
<1>1. CASE BeginTick BY <1>1, BeginTickPreserves
<1>2. CASE Expire
  <2>1. PICK t \in Tops : Expired(t) /\ (ExpireTask(t) \/ ExpireOther(t)) BY <1>2 DEF Expire
  <2>2. pc = "tick" /\ t \in timers_ /\ UNCHANGED <<tick_, pc, boot, last_switch>>
    BY <1>2 DEF Expire, Tops
  <2> QED BY <2>1, <2>2, ExpireTaskPreserves, ExpireOtherPreserves
<1>3. CASE EndTick BY <1>3, EndTickPreserves
<1>4. CASE BootCursorTimer \/ InitializeTask BY <1>4, BootPreserves
<1>5. CASE MainHandlesTimeout BY <1>5, MainPreserves
<1>6. ASSUME NEW timeout \in OtherTimeouts, OtherAddTimer(timeout) PROVE IInv'
  BY <1>6, OtherAddPreserves
<1>7. CASE UNCHANGED vars
  BY <1>7, ZenonT(40) DEF vars, handlerVars, IInv, TypeOK, NotOverdue, Due, IdsUsed, SentinelForever, kForever,
              TaskTimer, TaskTimers, CursorToken, CursorBlinks, CursorTimers, CursorMsgs, Blink
<1> QED BY <1>1, <1>2, <1>3, <1>4, <1>5, <1>6, <1>7 DEF Next, EndOfTime

\* The queue of timers never runs empty, preemption neither stops nor doubles
\* and the cursor timer does not drift, for every period and any other timers.
THEOREM TimersInvariant == Spec => []TimersInv
BY InitIInv, StepIInv, IInvGives, PTL DEF Spec

\* Only the loop in Tick takes timers off the queue, and it takes each one at
\* the tick at which it is due.
LEMMA RemovesOnlyDue ==
  IInv /\ [Next]_vars =>
    [\A t \in timers_ : t \notin timers_' =>
       tick_ = IF t.timeout > t.added THEN t.timeout ELSE t.added + 1]_vars
<1> SUFFICES ASSUME IInv, Next, NEW t \in timers_, t \notin timers_'
             PROVE  tick_ = Due(t)
  BY DEF Due
<1>1. Expire
  BY DEF Next, EndOfTime, vars, BeginTick, EndTick, BootCursorTimer, InitializeTask, AddTimer,
         MainHandlesTimeout, OtherAddTimer
<1>2. PICK u \in Tops : Expired(u) /\ (ExpireTask(u) \/ ExpireOther(u)) BY <1>1 DEF Expire
<1>3. t = u BY <1>2 DEF ExpireTask, ExpireOther
<1>4. t.timeout <= tick_ /\ pc = "tick" BY <1>1, <1>2, <1>3 DEF Expire, Expired
<1>5. t.timeout \in Nat /\ t.added \in Nat /\ tick_ \in Nat
  BY TimerAssumption DEF IInv, TypeOK, Timer
<1>6. tick_ <= Due(t) /\ (t.added < tick_ \/ tick_ < t.timeout) BY <1>4 DEF IInv, NotOverdue
<1> QED BY <1>4, <1>5, <1>6 DEF Due

\* A timer expires at the first tick that is not before its timeout and comes
\* after it was added: never early, never late.
THEOREM TimersExpireOnTime == Spec => ExpiresOnTime
BY InitIInv, StepIInv, RemovesOnlyDue, PTL DEF Spec, ExpiresOnTime

-----------------------------------------------------------------------------
(* The same timers at the end of the start-up: no other step touches them. *)

LEMMA BootStepTimers == [BootNext]_allVars => [Next]_vars
<1> SUFFICES ASSUME [BootNext]_allVars PROVE [Next]_vars
  OBVIOUS
<1>1. CASE Firmware BY <1>1 DEF Firmware
<1>2. CASE Halts BY <1>2 DEF Halts
<1>3. CASE Loader
  BY <1>3 DEF Loader, FirstMemoryMap, OpenRootDir, SaveMemoryMap, OpenGOP, ReadKernelFile, LoadKernel,
    FreeKernelFile, ReadVolume, FirstExit, SecondMemoryMap, SecondExit, CallKernel, GetMemoryMap,
    ExitBootServices, Pass, Goto
<1>4. CASE Kernel
  BY <1>4 DEF Kernel, KernelMain, CopyMemoryMap, InitializeGraphics, InitializeConsole, Welcome, Logging,
    InitializeSegmentation, InitializePaging, InitializeMemoryManager, InitializeInterrupt,
    fatInitialize, InitializePCI, MakeWindows, ConsoleToWindow, MakeLayers, MakeTopWindows,
    acpiInitialize, Pass, Goto
<1>5. CASE BeginWait \/ Poll BY <1>5 DEF BeginWait, Poll
<1>6. CASE TimersRun BY <1>6 DEF TimersRun
<1>7. CASE Stop \/ UNCHANGED allVars BY <1>7 DEF Stop, allVars
<1> QED BY <1>1, <1>2, <1>3, <1>4, <1>5, <1>6, <1>7 DEF BootNext

\* After any start-up, TimersInv: there is one task timer, the sentinel stays
\* and the cursor timer keeps to its beat.
THEOREM BootTimersInvariant == BootSpec => []TimersInv
<1>1. BootInit => IInv BY InitIInv DEF BootInit
<1> QED BY <1>1, StepIInv, BootStepTimers, IInvGives, PTL DEF BootSpec

\* After any start-up, the loop in Tick takes each timer off the queue at the
\* tick at which it is due.
THEOREM BootTimersExpireOnTime == BootSpec => ExpiresOnTime
<1>1. BootInit => IInv BY InitIInv DEF BootInit
<1> QED BY <1>1, StepIInv, BootStepTimers, RemovesOnlyDue, PTL DEF BootSpec, ExpiresOnTime

-----------------------------------------------------------------------------
(***************************************************************************)
(* WaitMilliseconds.  In the first loop the PM timer has not wrapped since *)
(* start.  In the second, either the wait is as long as it looks, or the   *)
(* timer has stepped over an end close to the wrap-around, or it has       *)
(* reached an end just after the wrap-around while the first loop polled.  *)
(***************************************************************************)
WaitOK ==
  /\ pm \in 0..(PmPeriod - 1) /\ start \in 0..(PmPeriod - 1) /\ target \in 0..(PmPeriod - 1)
  /\ waited \in 0..MaxWaited
  /\ stage = "wait_wrap" => pm = start + waited /\ target = start + WaitCounts - PmPeriod
  /\ stage = "wait_end" =>
       \/ waited < WaitCounts /\ target - pm = WaitCounts - waited
       \/ waited >= WaitCounts /\ target > PmPeriod - PollStep
       \/ waited >= WaitCounts /\ waited < WaitCounts + PollStep /\ target <= pm /\ pm < PollStep
  /\ WaitIsExact

LEMMA WrapAround ==
  ASSUME NEW n \in Nat, n < 2 * PmPeriod
  PROVE  n % PmPeriod = IF n < PmPeriod THEN n ELSE n - PmPeriod
<1>1. PmPeriod \in Nat /\ PmPeriod > 0 BY BootAssumption
<1> DEFINE P == PmPeriod
<1>2. n \div P \in Nat /\ n % P \in 0..(P - 1) /\ n = P * (n \div P) + (n % P) BY <1>1
<1> DEFINE q == n \div P
           m == n % P
<1>3. q \in Nat /\ m \in 0..(P - 1) /\ n = P * q + m BY <1>2
<1> HIDE DEF q, m
<1>4. q < 2
  <2> SUFFICES ASSUME q >= 2 PROVE FALSE BY <1>3
  <2>1. P * q >= P * 2 BY <1>1, <1>3
  <2> QED BY <1>1, <1>3, <2>1
<1>5. q = 0 \/ q = 1 BY <1>3, <1>4
<1>6. P * 0 = 0 /\ P * 1 = P BY <1>1
<1>7. m = IF n < P THEN n ELSE n - P BY <1>1, <1>3, <1>5, <1>6
<1> QED BY <1>7 DEF m

LEMMA WaitConstants ==
  /\ PmPeriod \in Nat /\ WaitCounts \in Nat /\ PollStep \in Nat /\ MaxWaited \in Nat
  /\ PmPeriod > 0 /\ WaitCounts > 0 /\ PollStep > 0
  /\ WaitCounts + 2 * PollStep < PmPeriod
BY BootAssumption

LEMMA BeginWaitOK == BeginWait => WaitOK'
<1> SUFFICES ASSUME BeginWait PROVE WaitOK'
  OBVIOUS
<1>1. PICK now \in 0..(PmPeriod - 1) :
        /\ pm' = now /\ start' = now
        /\ target' = (now + WaitCounts) % PmPeriod
        /\ stage' = IF target' < now THEN "wait_wrap" ELSE "wait_end"
  BY DEF BeginWait
<1>2. now + WaitCounts \in Nat /\ now + WaitCounts < 2 * PmPeriod BY WaitConstants
<1>3. target' = IF now + WaitCounts < PmPeriod THEN now + WaitCounts ELSE now + WaitCounts - PmPeriod
  <2>1. PICK n \in Nat : n = now + WaitCounts BY <1>2
  <2>2. n < 2 * PmPeriod /\ target' = n % PmPeriod BY <1>1, <1>2, <2>1
  <2>3. target' = IF n < PmPeriod THEN n ELSE n - PmPeriod BY <2>2, WrapAround
  <2> QED BY <2>1, <2>3, WaitConstants
<1>4. waited' = 0 /\ waited' \in 0..MaxWaited BY WaitConstants DEF BeginWait
<1>5. CASE now + WaitCounts < PmPeriod
  <2>1. target' = now + WaitCounts BY <1>3, <1>5
  <2>2. stage' = "wait_end" BY <1>1, <2>1, WaitConstants
  <2> QED BY <1>1, <1>4, <1>5, <2>1, <2>2, WaitConstants DEF WaitOK, WaitIsExact
<1>6. CASE ~(now + WaitCounts < PmPeriod)
  <2>1. target' = now + WaitCounts - PmPeriod BY <1>3, <1>6
  <2>2. stage' = "wait_wrap" BY <1>1, <2>1, WaitConstants
  <2>3. pm' = start' + waited' /\ target' = start' + WaitCounts - PmPeriod
    BY <1>1, <1>4, <2>1, WaitConstants
  <2> QED BY <1>1, <1>4, <1>6, <2>1, <2>2, <2>3, WaitConstants DEF WaitOK, WaitIsExact
<1> QED BY <1>5, <1>6

LEMMA PollOK == WaitOK /\ Poll => WaitOK'
<1> SUFFICES ASSUME WaitOK, Poll PROVE WaitOK'
  OBVIOUS
<1>1. PICK d \in 0..PollStep : waited + d <= MaxWaited /\ pm' = (pm + d) % PmPeriod /\ waited' = waited + d
  BY DEF Poll
<1>2. /\ pm \in 0..(PmPeriod - 1) /\ start \in 0..(PmPeriod - 1) /\ target \in 0..(PmPeriod - 1)
      /\ waited \in 0..MaxWaited
  BY DEF WaitOK
<1>3. pm + d \in Nat /\ pm + d < 2 * PmPeriod BY <1>2, WaitConstants
<1>4. pm' = IF pm + d < PmPeriod THEN pm + d ELSE pm + d - PmPeriod
  <2>1. PICK n \in Nat : n = pm + d BY <1>3
  <2>2. n < 2 * PmPeriod /\ pm' = n % PmPeriod BY <1>1, <1>3, <2>1
  <2>3. pm' = IF n < PmPeriod THEN n ELSE n - PmPeriod BY <2>2, WrapAround
  <2> QED BY <2>1, <2>3, <1>2, WaitConstants
<1>5. pm' \in 0..(PmPeriod - 1) /\ waited' \in 0..MaxWaited /\ start' = start /\ target' = target
  BY <1>1, <1>2, <1>4, WaitConstants DEF Poll
<1>6. CASE stage = "wait_wrap"
  <2>1. pm = start + waited /\ target = start + WaitCounts - PmPeriod BY <1>6 DEF WaitOK
  <2>2. stage' = IF pm' >= start THEN "wait_wrap" ELSE "wait_end" BY <1>6 DEF Poll
  <2>3. CASE pm + d < PmPeriod
    <3>1. pm' = start + waited' BY <1>1, <1>2, <1>4, <2>1, <2>3, WaitConstants
    <3>2. stage' = "wait_wrap" BY <1>1, <1>2, <2>2, <3>1
    <3> QED BY <1>5, <2>1, <3>1, <3>2 DEF WaitOK, WaitIsExact
  <2>4. CASE ~(pm + d < PmPeriod)
    <3>1. pm' = start + waited' - PmPeriod /\ pm' < PollStep
      BY <1>1, <1>2, <1>4, <2>1, <2>4, WaitConstants
    <3>2. start >= PmPeriod - WaitCounts BY <1>2, <2>1, WaitConstants
    <3>n. start \in Nat /\ target \in Nat /\ pm' \in Nat /\ waited' \in Nat
      BY <1>2, <1>5, WaitConstants
    <3>w. pm' < start
      <4>1. pm' < PollStep BY <3>1
      <4>2. PollStep < PmPeriod - WaitCounts BY WaitConstants
      <4> QED BY <4>1, <4>2, <3>2, <3>n, WaitConstants
    <3>3. stage' = "wait_end"
      <4>1. ~(pm' >= start) BY <3>w, <3>n
      <4> QED BY <2>2, <4>1, Zenon
    <3>4. target - pm' = WaitCounts - waited' BY <1>2, <1>5, <2>1, <3>1, WaitConstants
    <3>5. waited' >= WaitCounts => target <= pm' /\ waited' < WaitCounts + PollStep
      <4>1. pm' < PollStep BY <3>1
      <4> QED BY <3>n, <3>4, <4>1, WaitConstants
    <3>6. \/ waited' < WaitCounts /\ target' - pm' = WaitCounts - waited'
          \/ waited' >= WaitCounts /\ waited' < WaitCounts + PollStep /\ target' <= pm' /\ pm' < PollStep
      <4>1. target' = target BY <1>5
      <4>2. waited' < WaitCounts \/ waited' >= WaitCounts BY <3>n, WaitConstants
      <4> QED BY <4>1, <4>2, <3>1, <3>4, <3>5, Zenon
    <3> QED BY <1>2, <1>5, <3>3, <3>6 DEF WaitOK, WaitIsExact
  <2> QED BY <2>3, <2>4
<1>7. CASE stage = "wait_end"
  <2> DEFINE Exact == waited' >= WaitCounts /\ (target <= PmPeriod - PollStep => waited' < WaitCounts + 2 * PollStep)
             Looks == waited' < WaitCounts /\ target - pm' = WaitCounts - waited'
             Over == waited' >= WaitCounts /\ target > PmPeriod - PollStep
  <2>1. stage' = IF pm' < target THEN "wait_end" ELSE "run" BY <1>7 DEF Poll
  <2>2. (pm' < target => Looks \/ Over) /\ (~(pm' < target) => Exact)
    <3>1. CASE waited < WaitCounts /\ target - pm = WaitCounts - waited
      <4>1. CASE pm + d < PmPeriod BY <1>1, <1>2, <1>4, <3>1, <4>1, WaitConstants
      <4>2. CASE ~(pm + d < PmPeriod)
        <5>1. Over BY <1>1, <1>2, <1>4, <3>1, <4>2, WaitConstants
        <5> QED BY <1>2, <5>1, WaitConstants
      <4> QED BY <4>1, <4>2
    <3>2. CASE waited >= WaitCounts /\ target > PmPeriod - PollStep
      BY <1>1, <1>2, <3>2, WaitConstants
    <3>3. CASE waited >= WaitCounts /\ waited < WaitCounts + PollStep /\ target <= pm /\ pm < PollStep
      <4>1. pm' = pm + d BY <1>1, <1>2, <1>4, <3>3, WaitConstants
      <4> QED BY <1>1, <1>2, <3>3, <4>1, WaitConstants
    <3> QED BY <1>7, <3>1, <3>2, <3>3 DEF WaitOK
  <2>3. CASE pm' < target
    <3>1. stage' = "wait_end" BY <2>1, <2>3
    <3> QED BY <1>5, <2>2, <2>3, <3>1 DEF WaitOK, WaitIsExact
  <2>4. CASE ~(pm' < target)
    <3>1. stage' = "run" BY <2>1, <2>4
    <3> QED BY <1>5, <2>2, <2>4, <3>1 DEF WaitOK, WaitIsExact
  <2> QED BY <2>3, <2>4
<1> QED BY <1>6, <1>7 DEF Poll

-----------------------------------------------------------------------------
(***************************************************************************)
(* Memory.  The map in memmap_buf is at most as new as the firmware's, and *)
(* the same when the keys agree; the loader's own allocations are          *)
(* LoaderData from the step that makes them; and the kernel lets go of     *)
(* each thing the firmware left it at one step of its start-up.            *)
(***************************************************************************)
Stages == LoaderStages \cup KernelStages \cup {"call_kernel", "halt"}

MemoryTyped ==
  /\ stage \in Stages
  /\ types \in [Regions -> Types]
  /\ key \in Nat
  /\ memmap \in [key : Nat, types : [Regions -> Types]]
  /\ refs \in [Referents -> Regions \cup {"none"}]
  /\ free \in SUBSET Regions
  /\ heap_used \in BOOLEAN
  /\ prints \in 0..MaxPrints

\* How often the loader itself has changed the map.
Allocations ==
  CASE stage \in {"memory_map", "root_dir", "memmap_file", "gop"} -> 0
    [] stage = "kernel_file" -> 1
    [] stage = "kernel_pages" -> 2
    [] stage = "free_pool" -> 3
    [] stage = "volume" -> 4
    [] OTHER -> 5

MapOK ==
  /\ memmap.key <= key
  /\ key <= MaxKey + Allocations
  /\ stage \in LoaderStages /\ memmap.key = key => memmap.types = types
  /\ stage \in KernelStages \cup {"call_kernel"} => memmap.types = types

\* The regions that belong to the loaded system.
AfterKernel == {"free_pool", "volume", "exit", "map_again", "exit_again", "call_kernel"} \cup KernelStages
AfterVolume == {"exit", "map_again", "exit_again", "call_kernel"} \cup KernelStages
RegionsOK ==
  /\ types["acpi"] = "ACPIReclaim"
  /\ stage \in AfterKernel => types["kernel"] = "LoaderData"
  /\ stage \in AfterVolume => types["volume"] = "LoaderData"

\* What is never handed to the memory manager.
Held == {"kernel", "volume", "acpi", "none"}
FreeOK == free \cap Held = {}

\* The stages at which a reference may still be to what the firmware left.
OldStack == {"kernel_main"}
OldMap == OldStack \cup {"copy_map"}
OldConfig == OldMap \cup {"graphics"}
OldGdt == OldConfig \cup {"console", "welcome", "segmentation"}
OldPages == OldGdt \cup {"paging"}
OldBuffer == OldPages \cup {"memory_manager"}
OldIdt == OldBuffer \cup {"interrupt"}
NoHeap == OldIdt \cup {"fat", "pci", "layer"}
OldWriter == NoHeap \cup {"set_window"}
RefsOK ==
  stage \in KernelStages =>
    /\ refs["code"] \in Held /\ refs["volume"] \in Held /\ refs["acpi"] \in Held
    /\ stage \notin OldStack => refs["rsp"] \in Held
    /\ stage \notin OldMap => refs["memory_map"] \in Held
    /\ stage \notin OldConfig => refs["config"] \in Held
    /\ stage \notin OldGdt => refs["gdtr"] \in Held
    /\ stage \notin OldPages => refs["cr3"] \in Held
    /\ stage \notin OldBuffer => refs["map_buffer"] \in Held
    /\ stage \notin OldIdt => refs["idtr"] \in Held
    /\ stage \notin OldWriter => refs["writer"] \in Held

HeapOK ==
  heap_used =>
    /\ stage \in (KernelStages \ NoHeap) \cup {"halt"}
    /\ \A r \in Referents : r # "writer" => refs[r] \in Held

MemoryOK == MemoryTyped /\ MapOK /\ RegionsOK /\ FreeOK /\ RefsOK /\ HeapOK

LEMMA BootConstants == MaxPrints \in Nat /\ MaxKey \in Nat /\ MaxKey >= 1
BY BootAssumption

LEMMA BootInitOK == BootInit => MemoryOK /\ WaitOK
<1> SUFFICES ASSUME BootInit PROVE MemoryOK /\ WaitOK
  OBVIOUS
<1>1. stage = "memory_map" /\ key = 1 /\ memmap = [key |-> 0, types |-> types] BY DEF BootInit
<1>2. types \in [Regions -> Types] /\ types["acpi"] = "ACPIReclaim" BY DEF BootInit, Regions, Types
<1>3. memmap \in [key : Nat, types : [Regions -> Types]] /\ memmap.key = 0 BY <1>1, <1>2
<1>4. refs \in [Referents -> Regions \cup {"none"}] BY DEF BootInit, NoRefs
<1>5. MemoryTyped
  <2>1. prints \in 0..MaxPrints BY BootConstants DEF BootInit
  <2>2. stage \in Stages BY <1>1 DEF Stages, LoaderStages
  <2>3. key \in Nat /\ free \in SUBSET Regions /\ heap_used \in BOOLEAN BY DEF BootInit
  <2> QED BY <1>2, <1>3, <1>4, <2>1, <2>2, <2>3 DEF MemoryTyped
<1>6. MapOK
  <2>1. Allocations = 0 BY <1>1 DEF Allocations
  <2>2. key <= MaxKey + Allocations BY <1>1, <2>1, BootConstants
  <2>3. stage \notin KernelStages \cup {"call_kernel"} BY <1>1 DEF KernelStages
  <2> QED BY <1>1, <1>3, <2>2, <2>3 DEF MapOK
<1>7. RegionsOK BY <1>1, <1>2 DEF RegionsOK, AfterKernel, AfterVolume, KernelStages
<1>8. FreeOK /\ HeapOK BY DEF BootInit, FreeOK, HeapOK
<1>9. RefsOK BY <1>1 DEF RefsOK, KernelStages
<1>10. WaitOK
  <2>1. 0 \in 0..MaxWaited /\ 0 \in 0..(PmPeriod - 1) BY WaitConstants
  <2> QED BY <1>1, <2>1 DEF BootInit, WaitOK, WaitIsExact
<1> QED BY <1>5, <1>6, <1>7, <1>8, <1>9, <1>10 DEF MemoryOK

\* Steps that leave memory alone, within the kernel's stages or into a halt.
LEMMA SameMemory ==
  ASSUME MemoryOK, UNCHANGED memoryVars, prints' \in 0..MaxPrints,
         \/ stage' = stage
         \/ stage' = "halt"
  PROVE  MemoryOK'
<1>1. UNCHANGED <<types, key, memmap, refs, free, heap_used>> BY DEF memoryVars
<1>2. MemoryTyped' BY <1>1 DEF MemoryOK, MemoryTyped, Stages
<1>3. CASE stage' = stage
  BY <1>1, <1>2, <1>3 DEF MemoryOK, MapOK, Allocations, RegionsOK, FreeOK, RefsOK, HeapOK
<1>4. CASE stage' = "halt"
  <2>1. MapOK'
    <3>1. Allocations \in 0..5 BY DEF Allocations
    <3>2. Allocations' = 5 BY <1>4 DEF Allocations
    <3>3. key' <= MaxKey + Allocations' BY <1>1, <3>1, <3>2, BootConstants DEF MemoryOK, MapOK, MemoryTyped
    <3>4. stage' \notin LoaderStages \cup KernelStages \cup {"call_kernel"}
      BY <1>4 DEF LoaderStages, KernelStages
    <3> QED BY <1>1, <3>3, <3>4 DEF MemoryOK, MapOK
  <2>2. RegionsOK' /\ FreeOK' /\ RefsOK' /\ HeapOK'
    BY <1>1, <1>4 DEF MemoryOK, RegionsOK, AfterKernel, AfterVolume, FreeOK, RefsOK, HeapOK, KernelStages
  <2> QED BY <1>2, <2>1, <2>2 DEF MemoryOK
<1> QED BY <1>3, <1>4

\* What a step of the loader leaves: the kernel and its memory manager are
\* still to come.
LoaderRest ==
  /\ stage \in LoaderStages /\ stage' \in LoaderStages
  /\ UNCHANGED <<refs, free, heap_used, prints>>

LEMMA LoaderKeepsRest ==
  ASSUME MemoryOK, LoaderRest
  PROVE  FreeOK' /\ RefsOK' /\ HeapOK'
<1>1. stage' \notin KernelStages BY DEF LoaderRest, LoaderStages, KernelStages
<1>2. ~heap_used' BY DEF LoaderRest, MemoryOK, HeapOK, LoaderStages, KernelStages
<1> QED BY <1>1, <1>2 DEF LoaderRest, MemoryOK, FreeOK, RefsOK, HeapOK

\* A change of the firmware's map: the key moves on, so that an older copy no
\* longer passes for the current one.
LEMMA AllocatesOK ==
  ASSUME MemoryOK, LoaderRest, NEW region \in Regions, NEW type \in Types, Allocates(region, type),
         region # "acpi",
         key + 1 <= MaxKey + Allocations',
         stage' \in AfterKernel => (region # "kernel" /\ stage \in AfterKernel) \/ (region = "kernel" /\ type = "LoaderData"),
         stage' \in AfterVolume => (region # "volume" /\ stage \in AfterVolume) \/ (region = "volume" /\ type = "LoaderData")
  PROVE  MemoryOK'
<1>1. types' = [types EXCEPT ![region] = type] /\ key' = key + 1 /\ memmap' = memmap
  BY DEF Allocates
<1>2. types \in [Regions -> Types] /\ key \in Nat /\ memmap \in [key : Nat, types : [Regions -> Types]]
  BY DEF MemoryOK, MemoryTyped
<1>3. types' \in [Regions -> Types] /\ types'[region] = type
      /\ \A r \in Regions : r # region => types'[r] = types[r]
  BY <1>1, <1>2
<1>4. MemoryTyped' BY <1>1, <1>2, <1>3 DEF MemoryOK, MemoryTyped, LoaderRest, Stages
<1>5. MapOK'
  <2>1. memmap'.key < key' BY <1>1, <1>2 DEF MemoryOK, MapOK
  <2>2. memmap'.key \in Nat /\ key' \in Nat BY <1>1, <1>2
  <2>3. stage' \notin KernelStages \cup {"call_kernel"} BY DEF LoaderRest, LoaderStages, KernelStages
  <2> QED BY <1>1, <2>1, <2>2, <2>3 DEF MapOK
<1>6. RegionsOK'
  <2>1. "acpi" \in Regions /\ "kernel" \in Regions /\ "volume" \in Regions BY DEF Regions
  <2> QED BY <1>3, <2>1 DEF MemoryOK, RegionsOK
<1> QED BY <1>4, <1>5, <1>6, LoaderKeepsRest DEF MemoryOK

LEMMA FirmwareOK == MemoryOK /\ Firmware => MemoryOK'
<1> SUFFICES ASSUME MemoryOK, Firmware PROVE MemoryOK'
  OBVIOUS
<1>1. PICK type \in {"BootServicesData", "RuntimeServicesData", "Conventional"} : Allocates("spare", type)
  BY DEF Firmware
<1>2. LoaderRest BY <1>1 DEF Firmware, LoaderRest, Allocates, consoleVars
<1>3. "spare" \in Regions /\ type \in Types BY DEF Regions, Types
<1>4. key + 1 <= MaxKey + Allocations'
  <2>1. PICK n \in Nat : Allocations' = n BY DEF Allocations
  <2>2. key \in Nat /\ key < MaxKey BY DEF Firmware, MemoryOK, MemoryTyped
  <2> QED BY <2>1, <2>2, BootConstants
<1>5. stage' = stage BY DEF Firmware
<1>6. stage' \in AfterKernel => ("spare" # "kernel" /\ stage \in AfterKernel) \/ ("spare" = "kernel" /\ type = "LoaderData")
  BY <1>5
<1>7. stage' \in AfterVolume => ("spare" # "volume" /\ stage \in AfterVolume) \/ ("spare" = "volume" /\ type = "LoaderData")
  BY <1>5
<1>8. "spare" # "acpi" OBVIOUS
<1> QED BY <1>1, <1>2, <1>3, <1>4, <1>6, <1>7, <1>8, AllocatesOK

\* The five steps of the loader that allocate or free memory.
LEMMA LoaderAllocatesOK ==
  MemoryOK /\ (OpenGOP \/ ReadKernelFile \/ LoadKernel \/ FreeKernelFile \/ ReadVolume) => MemoryOK'
<1> SUFFICES ASSUME MemoryOK,
                    NEW from \in LoaderStages, NEW to \in LoaderStages, Goto(from, to),
                    NEW region \in Regions, NEW type \in Types, Allocates(region, type),
                    \/ from = "gop" /\ to = "kernel_file" /\ region = "file" /\ type = "Conventional"
                    \/ from = "kernel_file" /\ to = "kernel_pages" /\ region = "file" /\ type = "LoaderData"
                    \/ from = "kernel_pages" /\ to = "free_pool" /\ region = "kernel" /\ type = "LoaderData"
                    \/ from = "free_pool" /\ to = "volume" /\ region = "file" /\ type = "Conventional"
                    \/ from = "volume" /\ to = "exit" /\ region = "volume" /\ type = "LoaderData"
             PROVE  MemoryOK'
  BY DEF OpenGOP, ReadKernelFile, LoadKernel, FreeKernelFile, ReadVolume, LoaderStages, Regions, Types
<1>1. stage = from /\ stage' = to BY DEF Goto
<1>2. LoaderRest BY <1>1 DEF LoaderRest, Allocates, consoleVars
<1>3. Allocations' = Allocations + 1 BY <1>1 DEF Allocations
<1>4. Allocations \in 0..5 BY DEF Allocations
<1>5. key + 1 <= MaxKey + Allocations'
  BY <1>3, <1>4, BootConstants DEF MemoryOK, MapOK, MemoryTyped
<1>6. stage' \in AfterKernel => (region # "kernel" /\ stage \in AfterKernel) \/ (region = "kernel" /\ type = "LoaderData")
  <2>1. to \in AfterKernel => from \in {"kernel_pages", "free_pool", "volume"}
    BY DEF AfterKernel, KernelStages
  <2>2. from \in {"free_pool", "volume"} => from \in AfterKernel /\ region # "kernel"
    BY DEF AfterKernel
  <2> QED BY <1>1, <2>1, <2>2
<1>7. stage' \in AfterVolume => (region # "volume" /\ stage \in AfterVolume) \/ (region = "volume" /\ type = "LoaderData")
  BY <1>1 DEF AfterVolume, KernelStages
<1>8. region # "acpi" OBVIOUS
<1> QED BY <1>2, <1>5, <1>6, <1>7, <1>8, AllocatesOK

LEMMA GetMemoryMapOK == MemoryOK /\ (FirstMemoryMap \/ SecondMemoryMap) => MemoryOK'
<1> SUFFICES ASSUME MemoryOK, NEW from, NEW to, GetMemoryMap(from, to),
                    \/ from = "memory_map" /\ to = "root_dir"
                    \/ from = "map_again" /\ to = "exit_again"
             PROVE  MemoryOK'
  BY DEF FirstMemoryMap, SecondMemoryMap
<1>1. stage = from /\ stage' = to /\ memmap' = [key |-> key, types |-> types]
      /\ UNCHANGED <<types, key, refs, free, heap_used, prints>>
  BY DEF GetMemoryMap, Goto, consoleVars
<1>2. LoaderRest BY <1>1 DEF LoaderRest, LoaderStages
<1>3. MemoryTyped'
  <2>1. memmap' \in [key : Nat, types : [Regions -> Types]] BY <1>1 DEF MemoryOK, MemoryTyped
  <2>2. stage' \in Stages BY <1>2 DEF LoaderRest, Stages
  <2> QED BY <1>1, <2>1, <2>2 DEF MemoryOK, MemoryTyped
<1>4. MapOK'
  <2>1. memmap'.key = key' /\ memmap'.types = types' /\ key' \in Nat BY <1>1 DEF MemoryOK, MemoryTyped
  <2>2. Allocations' = Allocations BY <1>1 DEF Allocations
  <2> QED BY <1>1, <2>1, <2>2 DEF MemoryOK, MapOK
<1>5. RegionsOK'
  BY <1>1 DEF MemoryOK, RegionsOK, AfterKernel, AfterVolume, KernelStages
<1> QED BY <1>2, <1>3, <1>4, <1>5, LoaderKeepsRest DEF MemoryOK

\* ExitBootServices is what makes the map current: the kernel is called only
\* when the key of the copy is the firmware's.
LEMMA LoaderPassesOK ==
  MemoryOK /\ (OpenRootDir \/ SaveMemoryMap \/ FirstExit \/ SecondExit) => MemoryOK'
<1> SUFFICES ASSUME MemoryOK, OpenRootDir \/ SaveMemoryMap \/ FirstExit \/ SecondExit PROVE MemoryOK'
  OBVIOUS
<1>1. UNCHANGED <<types, key, memmap, refs, free, heap_used, prints>>
  BY DEF OpenRootDir, SaveMemoryMap, FirstExit, SecondExit, ExitBootServices, Pass, memoryVars, consoleVars
<1>2. CASE stage' = "halt"
  BY <1>1, <1>2, SameMemory DEF memoryVars, MemoryOK, MemoryTyped
<1>3. CASE stage' = "call_kernel"
  <2>1. stage \in {"exit", "exit_again"} /\ memmap.key = key
    BY <1>3 DEF OpenRootDir, SaveMemoryMap, FirstExit, SecondExit, ExitBootServices, Pass, Goto
  <2>2. memmap.types = types BY <2>1 DEF MemoryOK, MapOK, LoaderStages
  <2>3. Allocations' = Allocations BY <1>3, <2>1 DEF Allocations
  <2>4. MapOK' BY <1>1, <2>2, <2>3 DEF MemoryOK, MapOK
  <2>5. MemoryTyped' BY <1>1, <1>3 DEF MemoryOK, MemoryTyped, Stages
  <2>6. RegionsOK' BY <1>1, <1>3, <2>1 DEF MemoryOK, RegionsOK, AfterKernel, AfterVolume
  <2>7. ~heap_used' BY <1>1, <2>1 DEF MemoryOK, HeapOK, KernelStages
  <2>8. stage' \notin KernelStages BY <1>3 DEF KernelStages
  <2> QED BY <1>1, <2>4, <2>5, <2>6, <2>7, <2>8 DEF MemoryOK, FreeOK, RefsOK, HeapOK
<1>4. CASE \/ stage = "root_dir" /\ stage' = "memmap_file"
           \/ stage = "memmap_file" /\ stage' = "gop"
           \/ stage = "exit" /\ stage' = "map_again"
  <2>1. LoaderRest BY <1>1, <1>4 DEF LoaderRest, LoaderStages
  <2>2. Allocations' = Allocations BY <1>4 DEF Allocations
  <2>3. MemoryTyped' BY <1>1, <2>1 DEF MemoryOK, MemoryTyped, LoaderRest, Stages
  <2>4. MapOK'
    <3>1. stage' \notin KernelStages \cup {"call_kernel"} BY <1>4 DEF KernelStages
    <3> QED BY <1>1, <2>1, <2>2, <3>1 DEF MemoryOK, MapOK, LoaderRest
  <2>5. RegionsOK' BY <1>1, <1>4 DEF MemoryOK, RegionsOK, AfterKernel, AfterVolume, KernelStages
  <2> QED BY <2>1, <2>3, <2>4, <2>5, LoaderKeepsRest DEF MemoryOK
<1> QED BY <1>2, <1>3, <1>4
     DEF OpenRootDir, SaveMemoryMap, FirstExit, SecondExit, ExitBootServices, Pass, Goto

LEMMA CallKernelOK == MemoryOK /\ CallKernel => MemoryOK'
<1> SUFFICES ASSUME MemoryOK, CallKernel PROVE MemoryOK'
  OBVIOUS
<1>1. stage = "call_kernel" /\ stage' = "kernel_main" /\ key' = 0 /\ memmap' = [memmap EXCEPT !.key = 0]
      /\ UNCHANGED <<types, free, heap_used, prints>>
  BY DEF CallKernel, Goto, consoleVars
<1>2. PICK acpi_table \in {"acpi", "none"} :
        refs' = [r \in Referents |->
                   CASE r = "code" -> "kernel"
                     [] r \in {"rsp", "config", "memory_map", "map_buffer"} -> "uefi_stack"
                     [] r \in {"gdtr", "idtr", "cr3"} -> "uefi_tables"
                     [] r = "writer" -> "none"
                     [] r = "acpi" -> acpi_table
                     [] r = "volume" -> "volume"]
  BY DEF CallKernel
<1>3. refs' \in [Referents -> Regions \cup {"none"}]
  BY <1>2 DEF Referents, Regions
<1>4. refs'["code"] = "kernel" /\ refs'["volume"] = "volume" /\ refs'["acpi"] = acpi_table
  BY <1>2 DEF Referents
<1>5. memmap' \in [key : Nat, types : [Regions -> Types]] /\ memmap'.key = 0 /\ memmap'.types = memmap.types
  BY <1>1 DEF MemoryOK, MemoryTyped
<1>6. MemoryTyped'
  <2>1. stage' \in Stages BY <1>1 DEF Stages, KernelStages
  <2> QED BY <1>1, <1>3, <1>5, <2>1 DEF MemoryOK, MemoryTyped
<1>7. MapOK'
  <2>1. PICK n \in Nat : Allocations' = n BY DEF Allocations
  <2>2. key' <= MaxKey + Allocations' BY <1>1, <2>1, BootConstants
  <2>3. memmap.types = types BY <1>1 DEF MemoryOK, MapOK
  <2> QED BY <1>1, <1>5, <2>2, <2>3 DEF MapOK
<1>8. RegionsOK' BY <1>1 DEF MemoryOK, RegionsOK, AfterKernel, AfterVolume
<1>9. RefsOK' BY <1>1, <1>4 DEF RefsOK, Held, OldStack, OldMap, OldConfig, OldGdt, OldPages, OldBuffer,
        OldIdt, NoHeap, OldWriter
<1>10. ~heap_used' BY <1>1 DEF MemoryOK, HeapOK, KernelStages
<1> QED BY <1>1, <1>6, <1>7, <1>8, <1>9, <1>10 DEF MemoryOK, FreeOK, HeapOK

\* In the kernel the firmware's map stays as it is.
LEMMA KernelKeepsMap ==
  ASSUME MemoryOK, stage \in KernelStages, stage' \in KernelStages, UNCHANGED <<types, key, memmap>>
  PROVE  MapOK' /\ RegionsOK'
<1>1. stage' \notin LoaderStages BY DEF LoaderStages, KernelStages
<1>2. Allocations = 5 /\ Allocations' = 5 BY DEF Allocations, KernelStages
<1>3. memmap.types = types BY DEF MemoryOK, MapOK
<1>4. MapOK' BY <1>1, <1>2, <1>3 DEF MemoryOK, MapOK
<1>5. RegionsOK' BY DEF MemoryOK, RegionsOK, AfterKernel, AfterVolume
<1> QED BY <1>4, <1>5

\* A step from one stage to a later one that moves no reference, for a stage
\* that no reference waits for.
LEMMA KernelPassesOK ==
  MemoryOK /\ (InitializeConsole \/ Welcome \/ fatInitialize \/ InitializePCI \/ MakeLayers
                 \/ MakeTopWindows \/ acpiInitialize \/ BeginWait \/ Poll) => MemoryOK'
<1> SUFFICES ASSUME MemoryOK, UNCHANGED memoryVars, prints' = prints,
                    \/ stage = "console" /\ stage' = "welcome"
                    \/ stage = "welcome" /\ stage' = "segmentation"
                    \/ stage = "fat" /\ stage' = "pci"
                    \/ stage = "pci" /\ stage' = "layer"
                    \/ /\ stage \in {"layers", "windows", "acpi", "lapic", "wait_wrap", "wait_end"}
                       /\ stage' \in {"windows", "acpi", "lapic", "wait_wrap", "wait_end", "run"}
             PROVE  MemoryOK'
  BY DEF InitializeConsole, Welcome, fatInitialize, InitializePCI, MakeLayers, MakeTopWindows,
         acpiInitialize, BeginWait, Poll, Pass, Goto, memoryVars, consoleVars
<1>1. UNCHANGED <<types, key, memmap, refs, free, heap_used, prints>> BY DEF memoryVars
<1>2. stage \in KernelStages /\ stage' \in KernelStages BY DEF KernelStages
<1>3. MapOK' /\ RegionsOK' BY <1>1, <1>2, KernelKeepsMap
<1>4. MemoryTyped' BY <1>1, <1>2 DEF MemoryOK, MemoryTyped, Stages
<1>5. /\ stage \in OldStack <=> stage' \in OldStack
      /\ stage \in OldMap <=> stage' \in OldMap
      /\ stage \in OldConfig <=> stage' \in OldConfig
      /\ stage \in OldGdt <=> stage' \in OldGdt
      /\ stage \in OldPages <=> stage' \in OldPages
      /\ stage \in OldBuffer <=> stage' \in OldBuffer
      /\ stage \in OldIdt <=> stage' \in OldIdt
      /\ stage \in NoHeap <=> stage' \in NoHeap
      /\ stage \in OldWriter <=> stage' \in OldWriter
  BY DEF OldStack, OldMap, OldConfig, OldGdt, OldPages, OldBuffer, OldIdt, NoHeap, OldWriter
<1>6. RefsOK' BY <1>1, <1>2, <1>5 DEF MemoryOK, RefsOK
<1>7. FreeOK' BY <1>1 DEF MemoryOK, FreeOK
<1>8. HeapOK' BY <1>1, <1>2, <1>5 DEF MemoryOK, HeapOK, KernelStages
<1> QED BY <1>3, <1>4, <1>6, <1>7, <1>8 DEF MemoryOK

\* A step that moves the reference r out of the firmware's memory.
LEMMA RefersOK ==
  MemoryOK /\ (KernelMain \/ CopyMemoryMap \/ InitializeSegmentation \/ InitializePaging
                 \/ InitializeInterrupt) => MemoryOK'
<1> SUFFICES ASSUME MemoryOK, NEW r \in Referents, NEW region \in Held \ {"volume", "acpi"},
                    Refers(r, region), prints' = prints,
                    \/ stage = "kernel_main" /\ stage' = "copy_map" /\ r = "rsp"
                    \/ stage = "copy_map" /\ stage' = "graphics" /\ r = "memory_map"
                    \/ stage = "segmentation" /\ stage' = "paging" /\ r = "gdtr"
                    \/ stage = "paging" /\ stage' = "memory_manager" /\ r = "cr3"
                    \/ stage = "interrupt" /\ stage' = "fat" /\ r = "idtr"
             PROVE  MemoryOK'
  <2>1. "kernel" \in Held \ {"volume", "acpi"} /\ "none" \in Held \ {"volume", "acpi"} BY DEF Held
  <2>2. {"rsp", "memory_map", "gdtr", "cr3", "idtr"} \subseteq Referents BY DEF Referents
  <2> QED BY <2>1, <2>2 DEF KernelMain, CopyMemoryMap, InitializeSegmentation, InitializePaging,
       InitializeInterrupt, Goto, Refers, consoleVars
<1>1. refs' = [refs EXCEPT ![r] = region] /\ UNCHANGED <<types, key, memmap, free, heap_used, prints>>
  BY DEF Refers
<1>2. stage \in KernelStages /\ stage' \in KernelStages BY DEF KernelStages
<1>3. MapOK' /\ RegionsOK' BY <1>1, <1>2, KernelKeepsMap
<1>4. refs \in [Referents -> Regions \cup {"none"}] BY DEF MemoryOK, MemoryTyped
<1>5. refs' \in [Referents -> Regions \cup {"none"}] /\ refs'[r] \in Held
      /\ \A q \in Referents : refs[q] \in Held => refs'[q] \in Held
  BY <1>1, <1>4 DEF Held, Regions
<1>6. MemoryTyped' BY <1>1, <1>2, <1>5 DEF MemoryOK, MemoryTyped, Stages
<1>7. RefsOK'
  BY <1>2, <1>5 DEF MemoryOK, RefsOK, Referents, OldStack, OldMap, OldConfig, OldGdt, OldPages, OldBuffer,
       OldIdt, NoHeap, OldWriter
<1>8. ~heap_used'
  BY <1>1 DEF MemoryOK, HeapOK, OldStack, OldMap, OldConfig, OldGdt, OldPages, OldBuffer, OldIdt, NoHeap
<1> QED BY <1>1, <1>3, <1>6, <1>7, <1>8 DEF MemoryOK, FreeOK, HeapOK

\* InitializeGraphics: the writer takes over the reference to the config.
LEMMA GraphicsOK == MemoryOK /\ InitializeGraphics => MemoryOK'
<1> SUFFICES ASSUME MemoryOK, InitializeGraphics PROVE MemoryOK'
  OBVIOUS
<1>1. stage = "graphics" /\ stage' = "console"
      /\ refs' = [refs EXCEPT !["writer"] = refs["config"], !["config"] = "none"]
      /\ UNCHANGED <<types, key, memmap, free, heap_used, prints>>
  BY DEF InitializeGraphics, Goto, consoleVars
<1>2. stage \in KernelStages /\ stage' \in KernelStages BY <1>1 DEF KernelStages
<1>3. MapOK' /\ RegionsOK' BY <1>1, <1>2, KernelKeepsMap
<1>4. refs \in [Referents -> Regions \cup {"none"}] BY DEF MemoryOK, MemoryTyped
<1>5. refs' \in [Referents -> Regions \cup {"none"}] /\ refs'["config"] \in Held
  BY <1>1, <1>4 DEF Held, Regions, Referents
<1>6. \A q \in Referents : q # "writer" /\ refs[q] \in Held => refs'[q] \in Held
  BY <1>1, <1>4, <1>5 DEF Referents
<1>7. MemoryTyped' BY <1>1, <1>2, <1>5 DEF MemoryOK, MemoryTyped, Stages
<1>8. RefsOK'
  BY <1>1, <1>2, <1>5, <1>6 DEF MemoryOK, RefsOK, Referents, OldStack, OldMap, OldConfig, OldGdt, OldPages,
       OldBuffer, OldIdt, NoHeap, OldWriter
<1>9. ~heap_used'
  BY <1>1 DEF MemoryOK, HeapOK, OldStack, OldMap, OldConfig, OldGdt, OldPages, OldBuffer, OldIdt, NoHeap
<1> QED BY <1>1, <1>3, <1>7, <1>8, <1>9 DEF MemoryOK, FreeOK, HeapOK

\* InitializeMemoryManager: what it takes for free is not the kernel, the
\* volume or the ACPI tables, because the map it reads is current.
LEMMA MemoryManagerOK == MemoryOK /\ InitializeMemoryManager => MemoryOK'
<1> SUFFICES ASSUME MemoryOK, InitializeMemoryManager PROVE MemoryOK'
  OBVIOUS
<1>1. stage = "memory_manager" /\ stage' = "interrupt"
      /\ free' = {r \in Regions : IsAvailable(memmap.types[r])}
      /\ refs' = [refs EXCEPT !["map_buffer"] = "none"]
      /\ UNCHANGED <<types, key, memmap, heap_used, prints>>
  BY DEF InitializeMemoryManager, Goto, consoleVars
<1>2. stage \in KernelStages /\ stage' \in KernelStages BY <1>1 DEF KernelStages
<1>3. MapOK' /\ RegionsOK' BY <1>1, <1>2, KernelKeepsMap
<1>4. refs \in [Referents -> Regions \cup {"none"}] BY DEF MemoryOK, MemoryTyped
<1>5. refs' \in [Referents -> Regions \cup {"none"}] /\ refs'["map_buffer"] \in Held
      /\ \A q \in Referents : refs[q] \in Held => refs'[q] \in Held
  BY <1>1, <1>4 DEF Held, Regions, Referents
<1>6. MemoryTyped'
  <2>1. free' \in SUBSET Regions BY <1>1
  <2> QED BY <1>1, <1>2, <1>5, <2>1 DEF MemoryOK, MemoryTyped, Stages
<1>7. FreeOK'
  <2>1. memmap.types = types BY <1>2 DEF MemoryOK, MapOK
  <2>2. types["acpi"] = "ACPIReclaim" /\ types["kernel"] = "LoaderData" /\ types["volume"] = "LoaderData"
    BY <1>2 DEF MemoryOK, RegionsOK, AfterKernel, AfterVolume
  <2>3. "none" \notin Regions BY DEF Regions
  <2> QED BY <1>1, <2>1, <2>2, <2>3 DEF FreeOK, Held, IsAvailable
<1>8. RefsOK'
  BY <1>1, <1>2, <1>5 DEF MemoryOK, RefsOK, Referents, OldStack, OldMap, OldConfig, OldGdt, OldPages,
       OldBuffer, OldIdt, NoHeap, OldWriter
<1>9. ~heap_used'
  BY <1>1 DEF MemoryOK, HeapOK, OldStack, OldMap, OldConfig, OldGdt, OldPages, OldBuffer, OldIdt, NoHeap
<1> QED BY <1>1, <1>3, <1>6, <1>7, <1>8, <1>9 DEF MemoryOK, HeapOK

\* The first use of the heap: by now only the writer is left.
LEMMA MakeWindowsOK == MemoryOK /\ MakeWindows => MemoryOK'
<1> SUFFICES ASSUME MemoryOK, MakeWindows PROVE MemoryOK'
  OBVIOUS
<1>1. stage = "layer" /\ stage' = "set_window" /\ heap_used' = TRUE
      /\ UNCHANGED <<types, key, memmap, refs, free, prints>>
  BY DEF MakeWindows, Goto, consoleVars
<1>2. stage \in KernelStages /\ stage' \in KernelStages BY <1>1 DEF KernelStages
<1>3. MapOK' /\ RegionsOK' BY <1>1, <1>2, KernelKeepsMap
<1>4. MemoryTyped' BY <1>1, <1>2 DEF MemoryOK, MemoryTyped, Stages
<1>5. \A r \in Referents : r # "writer" => refs[r] \in Held
  BY <1>1, <1>2 DEF MemoryOK, RefsOK, Referents, OldStack, OldMap, OldConfig, OldGdt, OldPages, OldBuffer,
       OldIdt, NoHeap, OldWriter
<1>6. RefsOK'
  BY <1>1, <1>2 DEF MemoryOK, RefsOK, OldStack, OldMap, OldConfig, OldGdt, OldPages, OldBuffer, OldIdt,
       NoHeap, OldWriter
<1>7. HeapOK'
  BY <1>1, <1>2, <1>5 DEF HeapOK, OldStack, OldMap, OldConfig, OldGdt, OldPages, OldBuffer, OldIdt, NoHeap
<1> QED BY <1>1, <1>3, <1>4, <1>6, <1>7 DEF MemoryOK, FreeOK

\* SetWindow: the writer is let go of.
LEMMA ConsoleToWindowOK == MemoryOK /\ ConsoleToWindow => MemoryOK'
<1> SUFFICES ASSUME MemoryOK, ConsoleToWindow PROVE MemoryOK'
  OBVIOUS
<1>1. stage = "set_window" /\ stage' = "layers" /\ refs' = [refs EXCEPT !["writer"] = "none"]
      /\ UNCHANGED <<types, key, memmap, free, heap_used, prints>>
  BY DEF ConsoleToWindow, Goto
<1>2. stage \in KernelStages /\ stage' \in KernelStages BY <1>1 DEF KernelStages
<1>3. MapOK' /\ RegionsOK' BY <1>1, <1>2, KernelKeepsMap
<1>4. refs \in [Referents -> Regions \cup {"none"}] BY DEF MemoryOK, MemoryTyped
<1>5. refs' \in [Referents -> Regions \cup {"none"}] /\ refs'["writer"] \in Held
      /\ \A q \in Referents : refs[q] \in Held => refs'[q] \in Held
  BY <1>1, <1>4 DEF Held, Regions, Referents
<1>6. MemoryTyped' BY <1>1, <1>2, <1>5 DEF MemoryOK, MemoryTyped, Stages
<1>7. RefsOK'
  BY <1>1, <1>2, <1>5 DEF MemoryOK, RefsOK, Referents, OldStack, OldMap, OldConfig, OldGdt, OldPages,
       OldBuffer, OldIdt, NoHeap, OldWriter
<1>8. HeapOK'
  <2>1. stage' \in KernelStages \ NoHeap
    BY <1>1, <1>2 DEF OldStack, OldMap, OldConfig, OldGdt, OldPages, OldBuffer, OldIdt, NoHeap
  <2> QED BY <1>1, <1>5, <2>1 DEF MemoryOK, HeapOK
<1> QED BY <1>1, <1>3, <1>6, <1>7, <1>8 DEF MemoryOK, FreeOK

LEMMA SameMemoryOK == MemoryOK /\ (Halts \/ Logging \/ TimersRun \/ Stop \/ UNCHANGED allVars) => MemoryOK'
<1> SUFFICES ASSUME MemoryOK, Halts \/ Logging \/ TimersRun \/ Stop \/ UNCHANGED allVars PROVE MemoryOK'
  OBVIOUS
<1>1. UNCHANGED memoryVars /\ (stage' = stage \/ stage' = "halt")
  BY DEF Halts, Logging, TimersRun, Stop, allVars, bootVars
<1>2. prints' \in 0..MaxPrints
  <2>1. prints \in 0..MaxPrints BY DEF MemoryOK, MemoryTyped
  <2>2. CASE Logging BY <2>1, <2>2, BootConstants DEF Logging
  <2>3. CASE ~Logging
    <3>1. prints' = prints BY <2>3 DEF Halts, TimersRun, Stop, allVars, bootVars, consoleVars
    <3> QED BY <2>1, <3>1
  <2> QED BY <2>2, <2>3
<1> QED BY <1>1, <1>2, SameMemory

LEMMA StepMemoryOK == MemoryOK /\ [BootNext]_allVars => MemoryOK'
<1> SUFFICES ASSUME MemoryOK, [BootNext]_allVars PROVE MemoryOK'
  OBVIOUS
<1>1. CASE Firmware BY <1>1, FirmwareOK
<1>2. CASE Loader BY <1>2, LoaderAllocatesOK, GetMemoryMapOK, LoaderPassesOK, CallKernelOK DEF Loader
<1>3. CASE Kernel
  BY <1>3, RefersOK, GraphicsOK, MemoryManagerOK, MakeWindowsOK, ConsoleToWindowOK, KernelPassesOK,
     SameMemoryOK DEF Kernel
<1>4. CASE BeginWait \/ Poll BY <1>4, KernelPassesOK
<1>5. CASE Halts \/ TimersRun \/ Stop \/ UNCHANGED allVars BY <1>5, SameMemoryOK
<1> QED BY <1>1, <1>2, <1>3, <1>4, <1>5 DEF BootNext

\* Every step but BeginWait and Poll leaves the wait alone.
LEMMA StepWaitOK == WaitOK /\ [BootNext]_allVars => WaitOK'
<1> SUFFICES ASSUME WaitOK, [BootNext]_allVars PROVE WaitOK'
  OBVIOUS
<1>1. CASE BeginWait \/ Poll BY <1>1, BeginWaitOK, PollOK
<1>2. CASE ~(BeginWait \/ Poll)
  <2>1. UNCHANGED waitVars /\ (stage' = stage \/ stage' \notin {"wait_wrap", "wait_end", "run"})
    <3>1. CASE Firmware BY <3>1 DEF Firmware
    <3>2. CASE Halts BY <3>2 DEF Halts
    <3>3. CASE Loader
      BY <3>3 DEF Loader, FirstMemoryMap, OpenRootDir, SaveMemoryMap, OpenGOP, ReadKernelFile, LoadKernel,
        FreeKernelFile, ReadVolume, FirstExit, SecondMemoryMap, SecondExit, CallKernel, GetMemoryMap,
        ExitBootServices, Pass, Goto
    <3>4. CASE Kernel
      BY <3>4 DEF Kernel, KernelMain, CopyMemoryMap, InitializeGraphics, InitializeConsole, Welcome,
        Logging, InitializeSegmentation, InitializePaging, InitializeMemoryManager, InitializeInterrupt,
        fatInitialize, InitializePCI, MakeWindows, ConsoleToWindow, MakeLayers, MakeTopWindows,
        acpiInitialize, Pass, Goto
    <3>5. CASE TimersRun \/ Stop \/ UNCHANGED allVars BY <3>5 DEF TimersRun, Stop, allVars, bootVars
    <3> QED BY <1>2, <3>1, <3>2, <3>3, <3>4, <3>5 DEF BootNext
  <2>2. pm' = pm /\ start' = start /\ target' = target /\ waited' = waited BY <2>1 DEF waitVars
  <2>3. CASE stage' = stage BY <2>2, <2>3 DEF WaitOK, WaitIsExact
  <2>4. CASE stage' \notin {"wait_wrap", "wait_end", "run"} BY <2>2, <2>4 DEF WaitOK, WaitIsExact
  <2> QED BY <2>1, <2>3, <2>4
<1> QED BY <1>1, <1>2

\* The map the kernel reads is the firmware's last one, whatever the firmware
\* allocates and however the loader's calls fail; and WaitMilliseconds waits
\* as long as it should, for every start, period and length of the wait.
THEOREM BootInvariant == BootSpec => []BootInv
<1>1. MemoryOK /\ WaitOK => BootInv
  <2> SUFFICES ASSUME MemoryOK, WaitOK PROVE BootInv
    OBVIOUS
  <2>1. key \in 0..(MaxKey + 6) /\ memmap.key \in 0..(MaxKey + 6)
    <3>1. PICK n \in 0..5 : Allocations = n BY DEF Allocations
    <3>2. key \in Nat /\ memmap.key \in Nat /\ memmap.key <= key /\ key <= MaxKey + n
      BY <3>1 DEF MemoryOK, MemoryTyped, MapOK
    <3> QED BY <3>2, BootConstants
  <2>2. memmap.types \in [Regions -> Types] BY DEF MemoryOK, MemoryTyped
  <2>3. stage \in LoaderStages \cup KernelStages \cup {"call_kernel", "halt"}
    BY DEF MemoryOK, MemoryTyped, Stages
  <2>4. BootTypeOK BY <2>1, <2>2, <2>3 DEF MemoryOK, MemoryTyped, WaitOK, BootTypeOK
  <2>5. MapIsCurrent BY DEF MemoryOK, MapOK, MapIsCurrent
  <2> QED BY <2>4, <2>5 DEF WaitOK, BootInv
<1> QED BY <1>1, BootInitOK, StepMemoryOK, StepWaitOK, PTL DEF BootSpec

\* By the time something is allocated, the kernel has left the firmware's
\* stack, descriptor tables, page tables and memory map behind; what it keeps
\* is not memory the memory manager takes for free.
THEOREM RefsStayIntact == BootSpec => []RefsIntact
<1>1. MemoryOK => RefsIntact
  <2> SUFFICES ASSUME MemoryOK, heap_used, NEW r \in Referents, refs[r] \in free
               PROVE  r = "writer" /\ stage \in {"set_window", "halt"}
    BY DEF RefsIntact
  <2>1. refs[r] \notin Held BY DEF MemoryOK, FreeOK
  <2>2. stage \in (KernelStages \ NoHeap) \cup {"halt"} /\ r = "writer" BY <2>1 DEF MemoryOK, HeapOK
  <2>3. stage \in KernelStages => stage \in OldWriter BY <2>1, <2>2 DEF MemoryOK, RefsOK
  <2> QED BY <2>2, <2>3 DEF OldWriter
<1> QED BY <1>1, BootInitOK, StepMemoryOK, PTL DEF BootSpec

-----------------------------------------------------------------------------
(* The console *)

LogLine == {s \in Seq(Characters) : Len(s) <= kConsoleColumns - 1}
Logs == {ls \in Seq(LogLine) : ls # <<>>}
Consoles ==
  [buffer : [Rows -> Seq(Characters)], row : Rows, column : 0..(kConsoleColumns - 1),
   window : BOOLEAN, cells : [Cells -> SUBSET Characters]]

\* What the rows of the console should hold when the last of lines is in row r.
TailRows(lines, r) ==
  [row \in Rows |-> IF row <= r THEN lines[Len(lines) - r + row] ELSE <<>>]
LastRow(lines) == (IF Len(lines) < kConsoleRows THEN Len(lines) ELSE kConsoleRows) - 1

\* The console shows the end of lines, and as long as it has no window its
\* buffer does too.
Follows(c, lines) ==
  /\ c \in Consoles /\ lines \in Logs
  /\ c.row = LastRow(lines) /\ c.column = Len(lines[Len(lines)])
  /\ c.cells = DrawRows(TailRows(lines, c.row))
  /\ ~c.window => c.buffer = TailRows(lines, c.row)

LEMMA ConsoleSize ==
  /\ kConsoleRows \in Nat /\ kConsoleRows >= 1 /\ kConsoleColumns \in Nat /\ kConsoleColumns >= 1
  /\ kConsoleRows - 1 \in Rows /\ 0 \in Rows /\ 0 \in 0..(kConsoleColumns - 1)
  /\ \A row \in Rows : row < kConsoleRows - 1 => row + 1 \in Rows
  /\ \A row \in Rows : ~(row < kConsoleRows - 1) => row = kConsoleRows - 1
BY ConsoleAssumption DEF Rows

LEMMA ConsoleIs ==
  ASSUME NEW c \in Consoles
  PROVE  /\ c.buffer \in [Rows -> Seq(Characters)] /\ c.row \in Rows
         /\ c.column \in 0..(kConsoleColumns - 1) /\ c.window \in BOOLEAN
         /\ c.cells \in [Cells -> SUBSET Characters] /\ <<c.row, c.column>> \in Cells
BY DEF Consoles, Cells

LEMMA CellIs ==
  /\ \A row \in Rows, col \in 0..(kConsoleColumns - 1) : <<row, col>> \in Cells
  /\ \A cell \in Cells : /\ cell[1] \in Rows /\ cell[2] \in 0..(kConsoleColumns - 1)
                         /\ cell = <<cell[1], cell[2]>>
BY DEF Cells

LEMMA LogIs ==
  ASSUME NEW lines \in Logs
  PROVE  /\ lines \in Seq(LogLine) /\ Len(lines) \in Nat /\ Len(lines) >= 1
         /\ \A k \in 1..Len(lines) : /\ lines[k] \in LogLine /\ lines[k] \in Seq(Characters)
                                      /\ Len(lines[k]) \in 0..(kConsoleColumns - 1)
         /\ LastRow(lines) \in Rows /\ Len(lines) - LastRow(lines) >= 1
         /\ Len(lines) - LastRow(lines) + LastRow(lines) = Len(lines)
<1>1. lines \in Seq(LogLine) /\ Len(lines) \in Nat /\ Len(lines) >= 1
  <2>1. lines \in Seq(LogLine) /\ lines # <<>>
    BY DEF Logs
  <2> QED  BY <2>1, EmptySeq
<1>2. \A k \in 1..Len(lines) : lines[k] \in LogLine
  BY <1>1
<1>3. ASSUME NEW s \in LogLine PROVE s \in Seq(Characters) /\ Len(s) \in 0..(kConsoleColumns - 1)
  BY ConsoleSize DEF LogLine
<1>4. LastRow(lines) \in Rows /\ Len(lines) - LastRow(lines) >= 1
      /\ Len(lines) - LastRow(lines) + LastRow(lines) = Len(lines)
  BY <1>1, ConsoleSize DEF LastRow, Rows
<1> QED  BY <1>1, <1>2, <1>3, <1>4

LEMMA TailRowsIs ==
  ASSUME NEW lines \in Logs, NEW r \in Rows, r = LastRow(lines)
  PROVE  /\ TailRows(lines, r) \in [Rows -> Seq(Characters)]
         /\ TailRows(lines, r)[r] = lines[Len(lines)]
<1>1. PICK n \in Nat : n = Len(lines) /\ n >= 1 /\ n - r >= 1 /\ n - r + r = n
  BY LogIs
<1>2. ASSUME NEW row \in Rows, row <= r PROVE n - r + row \in 1..n
  BY <1>1, <1>2, SMTT(30) DEF Rows
<1>3. ASSUME NEW row \in Rows PROVE TailRows(lines, r)[row] \in Seq(Characters)
  <2>1. <<>> \in Seq(Characters)
    OBVIOUS
  <2>2. CASE row <= r
    <3>1. lines[n - r + row] \in Seq(Characters)
      BY <1>1, <1>2, <2>2, LogIs
    <3> QED  BY <1>1, <2>2, <3>1 DEF TailRows
  <2>3. CASE ~(row <= r)
    BY <2>1, <2>3 DEF TailRows
  <2> QED  BY <2>2, <2>3
<1>4. TailRows(lines, r) \in [Rows -> Seq(Characters)]
  BY <1>3 DEF TailRows
<1>5. r <= r
  BY DEF Rows
<1> QED  BY <1>1, <1>4, <1>5 DEF TailRows

\* What DrawRows leaves in one cell.
LEMMA DrawRowsIs ==
  ASSUME NEW b \in [Rows -> Seq(Characters)]
  PROVE  /\ DrawRows(b) \in [Cells -> SUBSET Characters]
         /\ \A cell \in Cells : DrawRows(b)[cell] =
              IF cell[2] < Len(b[cell[1]]) THEN {b[cell[1]][cell[2] + 1]} ELSE {}
<1>1. \A cell \in Cells : DrawRows(b)[cell] =
         IF cell[2] < Len(b[cell[1]]) THEN {b[cell[1]][cell[2] + 1]} ELSE {}
  BY DEF DrawRows
<1>2. ASSUME NEW cell \in Cells PROVE DrawRows(b)[cell] \in SUBSET Characters
  <2>1. PICK x \in Nat : x = cell[2]
    BY CellIs, ConsoleSize
  <2>2. PICK s \in Seq(Characters) : s = b[cell[1]]
    BY CellIs
  <2>3. x < Len(s) => s[x + 1] \in Characters
    OBVIOUS
  <2> QED  BY <1>1, <2>1, <2>2, <2>3
<1> QED  BY <1>1, <1>2 DEF DrawRows

\* x is q with e in place n.
IsReplaced(x, q, n, e) == x = [q EXCEPT ![n] = e]
HasReplaced(x, q, n, e, S) ==
  /\ x \in Seq(S) /\ Len(x) = Len(q)
  /\ x[n] = e /\ \A k \in 1..Len(q) : k # n => x[k] = q[k]

LEMMA Replaced ==
  ASSUME NEW S, NEW q \in Seq(S), NEW n \in 1..Len(q), NEW e \in S, NEW x, IsReplaced(x, q, n, e)
  PROVE  HasReplaced(x, q, n, e, S)
BY ExceptSeq DEF IsReplaced, HasReplaced

LEMMA RowBelow ==
  ASSUME NEW n \in Nat, NEW r \in Nat, NEW y \in Nat, n - r >= 1, y < r
  PROVE  n + 1 - r + y = n - r + (y + 1) /\ y <= r /\ y + 1 <= r /\ n - r + (y + 1) \in 1..n
OBVIOUS

LEMMA RowAbove ==
  ASSUME NEW n \in Nat, NEW r \in Nat, NEW y \in Nat, n - r >= 1, y # r, y <= r
  PROVE  n - r + y \in 1..n /\ n - r + y # n
OBVIOUS

LEMMA LogBreaks ==
  ASSUME NEW lines \in Logs, NEW next, next = Append(lines, <<>>)
  PROVE  /\ next \in Logs /\ Len(next) = Len(lines) + 1
         /\ next[Len(next)] = <<>> /\ Len(next[Len(next)]) = 0
         /\ \A k \in 1..Len(lines) : next[k] = lines[k]
<1>1. lines \in Seq(LogLine) /\ Len(lines) \in Nat
  BY LogIs
<1>2. <<>> \in Seq(Characters) /\ Len(<<>>) = 0
  OBVIOUS
<1>3. <<>> \in LogLine
  BY <1>2, ConsoleSize DEF LogLine
<1>4. /\ next \in Seq(LogLine) /\ Len(next) = Len(lines) + 1
      /\ next[Len(lines) + 1] = <<>> /\ \A k \in 1..Len(lines) : next[k] = lines[k]
  BY <1>1, <1>3, AppendProperties
<1>5. next # <<>>
  BY <1>1, <1>2, <1>4
<1> QED  BY <1>2, <1>4, <1>5 DEF Logs

\* A new line while there is room below.
LEMMA LogMovesDown ==
  ASSUME NEW lines \in Logs, NEW r \in Rows, r = LastRow(lines), r < kConsoleRows - 1,
         NEW next, next = Append(lines, <<>>)
  PROVE  LastRow(next) = r + 1 /\ r + 1 \in Rows /\ TailRows(next, r + 1) = TailRows(lines, r)
<1>1. PICK n \in Nat : n = Len(lines) /\ n >= 1 /\ n - r >= 1
  BY LogIs
<1>2. /\ Len(next) = n + 1 /\ next[n + 1] = <<>>
      /\ \A k \in 1..n : next[k] = lines[k]
  BY <1>1, LogBreaks
<1>3. r \in Int /\ r >= 0
  BY DEF Rows
<1>4. LastRow(next) = r + 1 /\ r + 1 \in Rows /\ r = n - 1
  BY <1>1, <1>2, <1>3, ConsoleSize DEF LastRow, Rows
<1>5. ASSUME NEW row \in Rows
      PROVE  TailRows(next, r + 1)[row] = TailRows(lines, r)[row]
  <2>1. PICK y \in Nat : y = row
    BY DEF Rows
  <2>2. n + 1 - (r + 1) + y = y + 1 /\ n - r + y = y + 1
    BY <1>1, <1>3, <1>4
  <2>3. CASE y <= r
    <3>1. y + 1 \in 1..n /\ y <= r + 1
      BY <1>3, <1>4, <2>3
    <3>2. TailRows(next, r + 1)[row] = next[y + 1]
      <4>1. TailRows(next, r + 1)[row] = next[Len(next) - (r + 1) + row]
        BY <2>1, <3>1, Zenon DEF TailRows
      <4>2. Len(next) - (r + 1) + row = y + 1
        BY <1>2, <2>1, <2>2
      <4> QED  BY <4>1, <4>2, Zenon
    <3>3. TailRows(lines, r)[row] = lines[y + 1]
      BY <1>1, <2>1, <2>2, <2>3 DEF TailRows
    <3> QED  BY <1>2, <3>1, <3>2, <3>3
  <2>4. CASE y = r + 1
    <3>1. y + 1 = n + 1 /\ y <= r + 1 /\ ~(y <= r)
      BY <1>3, <1>4, <2>4
    <3> QED  BY <1>1, <1>2, <2>1, <2>2, <3>1 DEF TailRows
  <2>5. CASE ~(y <= r + 1)
    <3>1. ~(y <= r)
      BY <1>3, <2>5
    <3> QED  BY <2>1, <2>5, <3>1 DEF TailRows
  <2>6. y <= r \/ y = r + 1 \/ ~(y <= r + 1)
    BY <1>3
  <2> QED  BY <2>3, <2>4, <2>5, <2>6
<1> QED  BY <1>4, <1>5 DEF TailRows

\* Every row shows what the one below it showed.
ScrolledLog(next, lines, r) ==
  /\ LastRow(next) = r /\ r = kConsoleRows - 1
  /\ \A row \in Rows : row < kConsoleRows - 1 =>
       row + 1 \in Rows /\ TailRows(next, r)[row] = TailRows(lines, r)[row + 1]
  /\ TailRows(next, r)[kConsoleRows - 1] = <<>>

\* A new line at the bottom.
LEMMA LogScrolls ==
  ASSUME NEW lines \in Logs, NEW r \in Rows, r = LastRow(lines), ~(r < kConsoleRows - 1),
         NEW next, next = Append(lines, <<>>)
  PROVE  ScrolledLog(next, lines, r)
<1>1. PICK n \in Nat : n = Len(lines) /\ n >= 1 /\ n - r >= 1
  BY LogIs
<1>2. /\ Len(next) = n + 1 /\ next[n + 1] = <<>>
      /\ \A k \in 1..n : next[k] = lines[k]
  BY <1>1, LogBreaks
<1>3. r \in Int /\ r >= 0 /\ r = kConsoleRows - 1
  BY ConsoleSize DEF Rows
<1>4. LastRow(next) = r
  BY <1>1, <1>2, <1>3, ConsoleSize DEF LastRow, Rows
<1>5. ASSUME NEW row \in Rows, row < kConsoleRows - 1
      PROVE  row + 1 \in Rows /\ TailRows(next, r)[row] = TailRows(lines, r)[row + 1]
  <2>1. PICK y \in Nat : y = row
    BY DEF Rows
  <2>2. row + 1 \in Rows
    BY <1>5, ConsoleSize DEF Rows
  <2>3. n + 1 - r + y = n - r + (y + 1) /\ y <= r /\ y + 1 <= r /\ n - r + (y + 1) \in 1..n
    <3>1. PICK a \in Nat : a = kConsoleRows
      BY ConsoleSize
    <3>2. r \in Nat /\ n - r >= 1 /\ y < r
      BY <1>1, <1>3, <1>5, <2>1, <3>1
    <3> QED  BY <3>2, RowBelow
  <2>4. TailRows(next, r)[row] = next[n - r + (y + 1)]
    <3>1. TailRows(next, r)[row] = next[n + 1 - r + y]
      BY <1>2, <2>1, <2>3 DEF TailRows
    <3> QED  BY <2>3, <3>1
  <2>5. TailRows(lines, r)[row + 1] = lines[n - r + (y + 1)]
    BY <1>1, <2>1, <2>2, <2>3 DEF TailRows
  <2> QED  BY <1>2, <2>2, <2>3, <2>4, <2>5
<1>6. TailRows(next, r)[kConsoleRows - 1] = <<>>
  <2>1. n + 1 - r + r = n + 1 /\ r <= r
    BY <1>1, <1>3
  <2> QED  BY <1>2, <1>3, <2>1 DEF TailRows
<1> QED  BY <1>3, <1>4, <1>5, <1>6 DEF ScrolledLog

\* The last line of lines, which is in row r, has got ch at its end.
GrownLog(next, lines, r, ch) ==
  /\ next \in Logs /\ LastRow(next) = r
  /\ Len(next[Len(next)]) = Len(lines[Len(lines)]) + 1
  /\ \A row \in Rows : row # r => TailRows(next, r)[row] = TailRows(lines, r)[row]
  /\ TailRows(next, r)[r] = Append(TailRows(lines, r)[r], ch)
LastGets(next, lines, ch) == next = [lines EXCEPT ![Len(lines)] = Append(@, ch)]
LastFits(lines) == Len(lines[Len(lines)]) < kConsoleColumns - 1

\* A character that fits in the line.
LEMMA LogGrows ==
  ASSUME NEW lines \in Logs, NEW r \in Rows, r = LastRow(lines), NEW ch \in Characters,
         LastFits(lines), NEW next, LastGets(next, lines, ch)
  PROVE  GrownLog(next, lines, r, ch)
<1>1. PICK n \in Nat : n = Len(lines) /\ n >= 1 /\ n - r >= 1 /\ n - r + r = n
  BY LogIs
<1>2. lines \in Seq(LogLine) /\ n \in 1..n
  BY <1>1, LogIs
<1>3. PICK s \in Seq(Characters) : s = lines[n]
  BY <1>1, <1>2, LogIs
<1>4. Append(s, ch) \in Seq(Characters) /\ Len(Append(s, ch)) = Len(s) + 1 /\ Len(s) \in Nat
  BY AppendProperties
<1>5. Append(s, ch) \in LogLine
  BY <1>1, <1>3, <1>4, ConsoleSize DEF LogLine, LastFits
<1>6. PICK t \in LogLine : t = Append(s, ch)
  BY <1>5
<1>7. IsReplaced(next, lines, n, t)
  BY <1>1, <1>3, <1>6 DEF IsReplaced, LastGets
<1>8. n \in 1..Len(lines)
  BY <1>1
<1>9. /\ next \in Seq(LogLine) /\ Len(next) = n
      /\ next[n] = t /\ \A k \in 1..n : k # n => next[k] = lines[k]
  <2>1. HasReplaced(next, lines, n, t, LogLine)
    BY <1>2, <1>7, <1>8, Replaced, Zenon
  <2> QED  BY <1>1, <2>1, Zenon DEF HasReplaced
<1>10. next # <<>>
  <2>1. Len(<<>>) = 0
    OBVIOUS
  <2> QED  BY <1>1, <1>9, <2>1
<1>11. LastRow(next) = r
  BY <1>1, <1>9 DEF LastRow
<1>12. ASSUME NEW row \in Rows, row # r
       PROVE  TailRows(next, r)[row] = TailRows(lines, r)[row]
  <2>1. row <= r => n - r + row \in 1..n /\ n - r + row # n
    <3>1. PICK x \in Nat, y \in Nat : x = row /\ y = r
      BY DEF Rows
    <3>2. row <= r => n - y + x \in 1..n /\ n - y + x # n
      BY <1>1, <1>12, <3>1, RowAbove
    <3> QED  BY <3>1, <3>2
  <2>2. CASE row <= r
    BY <1>1, <1>8, <1>9, <2>1, <2>2 DEF TailRows
  <2>3. CASE ~(row <= r)
    BY <2>3 DEF TailRows
  <2> QED  BY <2>2, <2>3
<1>13. TailRows(next, r)[r] = t /\ TailRows(lines, r)[r] = s
  <2>1. r <= r
    BY DEF Rows
  <2> QED  BY <1>1, <1>3, <1>8, <1>9, <2>1 DEF TailRows
<1>14. next \in Logs
  BY <1>9, <1>10 DEF Logs
<1>15. Len(next[Len(next)]) = Len(lines[Len(lines)]) + 1
  BY <1>1, <1>3, <1>4, <1>6, <1>8, <1>9
<1> QED  BY <1>6, <1>11, <1>12, <1>13, <1>14, <1>15 DEF GrownLog

SameRows(d, c) == d.cells = c.cells /\ d.buffer = c.buffer
MovedDown(d, c) == d.row = c.row + 1 /\ d.column = 0 /\ d.window = c.window /\ SameRows(d, c)

LEMMA NewlineDown ==
  ASSUME NEW c \in Consoles, c.row < kConsoleRows - 1, NEW d, d = Newline(c)
  PROVE  d \in Consoles /\ MovedDown(d, c)
<1>1. d = [c EXCEPT !.row = @ + 1, !.column = 0]
  BY DEF Newline
<1>2. c.row + 1 \in Rows /\ 0 \in 0..(kConsoleColumns - 1)
  <2>1. c.row \in Rows
    BY ConsoleIs
  <2> QED  BY <2>1, ConsoleSize
<1> QED  BY <1>1, <1>2 DEF Consoles, MovedDown, SameRows

\* The cells one row up, and the last row empty.
MovedUp(d, c) ==
  \A cell \in Cells : d.cells[cell] =
    IF cell[1] < kConsoleRows - 1 THEN c.cells[<<cell[1] + 1, cell[2]>>] ELSE {}
ScrolledWindow(d, c) ==
  d.row = c.row /\ d.column = 0 /\ d.window = c.window /\ d.buffer = c.buffer /\ MovedUp(d, c)

LEMMA NewlineWindow ==
  ASSUME NEW c \in Consoles, ~(c.row < kConsoleRows - 1), c.window = TRUE, NEW d, d = Newline(c)
  PROVE  d \in Consoles /\ ScrolledWindow(d, c)
<1> DEFINE new == [cell \in Cells |->
     IF cell[1] < kConsoleRows - 1 THEN c.cells[<<cell[1] + 1, cell[2]>>] ELSE {}]
<1>1. d = [c EXCEPT !.column = 0, !.cells = new]
  BY DEF Newline, ScrollWindow, Consoles
<1>2. c.cells \in [Cells -> SUBSET Characters]
  BY ConsoleIs
<1>0. 0 \in 0..(kConsoleColumns - 1)
  BY ConsoleSize
<1>3. ASSUME NEW cell \in Cells PROVE new[cell] \in SUBSET Characters
  <2>1. CASE cell[1] < kConsoleRows - 1
    <3>1. cell[1] \in Rows /\ cell[1] + 1 \in Rows
      BY <2>1, CellIs, ConsoleSize DEF Rows
    <3>2. <<cell[1] + 1, cell[2]>> \in Cells
      BY <3>1, CellIs
    <3> QED  BY <1>2, <2>1, <3>2
  <2>2. CASE ~(cell[1] < kConsoleRows - 1)
    BY <2>2
  <2> QED  BY <2>1, <2>2
<1>4. new \in [Cells -> SUBSET Characters]
  BY <1>3
<1>5. \A cell \in Cells : new[cell] =
        IF cell[1] < kConsoleRows - 1 THEN c.cells[<<cell[1] + 1, cell[2]>>] ELSE {}
  OBVIOUS
<1> HIDE DEF new
<1>6. d.cells = new /\ d.row = c.row /\ d.column = 0 /\ d.window = c.window /\ d.buffer = c.buffer
      /\ d \in Consoles
  BY <1>0, <1>1, <1>2, <1>4 DEF Consoles
<1> QED  BY <1>5, <1>6 DEF ScrolledWindow, MovedUp

ScrolledBuffer(d, c) ==
  /\ d.row = c.row /\ d.column = 0 /\ d.window = c.window /\ d.cells = DrawRows(d.buffer)
  /\ \A row \in Rows : row < kConsoleRows - 1 => d.buffer[row] = c.buffer[row + 1]
  /\ d.buffer[kConsoleRows - 1] = <<>>

LEMMA NewlineBuffer ==
  ASSUME NEW c \in Consoles, ~(c.row < kConsoleRows - 1), c.window = FALSE, NEW d, d = Newline(c)
  PROVE  d \in Consoles /\ ScrolledBuffer(d, c)
<1> DEFINE moved == [row \in Rows |-> IF row < kConsoleRows - 1 THEN c.buffer[row + 1] ELSE c.buffer[row]]
           new == [moved EXCEPT ![kConsoleRows - 1] = <<>>]
<1>1. d = [c EXCEPT !.column = 0, !.buffer = new, !.cells = DrawRows(new)]
  BY DEF Newline, ScrollBuffer, Consoles
<1>2. c.buffer \in [Rows -> Seq(Characters)]
  BY ConsoleIs
<1>0. 0 \in 0..(kConsoleColumns - 1)
  BY ConsoleSize
<1>3. ASSUME NEW row \in Rows PROVE moved[row] \in Seq(Characters)
  <2>1. CASE row < kConsoleRows - 1
    <3>1. row + 1 \in Rows
      BY <2>1, ConsoleSize DEF Rows
    <3> QED  BY <1>2, <2>1, <3>1
  <2>2. CASE ~(row < kConsoleRows - 1)
    BY <1>2, <2>2
  <2> QED  BY <2>1, <2>2
<1>4. moved \in [Rows -> Seq(Characters)]
  BY <1>3
<1>5. <<>> \in Seq(Characters)
  OBVIOUS
<1>6. \A row \in Rows : row < kConsoleRows - 1 => moved[row] = c.buffer[row + 1]
  OBVIOUS
<1> HIDE DEF moved
<1>7. new \in [Rows -> Seq(Characters)] /\ new[kConsoleRows - 1] = <<>>
      /\ \A row \in Rows : row # kConsoleRows - 1 => new[row] = moved[row]
  BY <1>4, <1>5, ConsoleSize
<1>8. ASSUME NEW row \in Rows, row < kConsoleRows - 1 PROVE new[row] = c.buffer[row + 1]
  <2>1. row # kConsoleRows - 1
    BY <1>8, ConsoleSize DEF Rows
  <2> QED  BY <1>6, <1>7, <1>8, <2>1
<1> HIDE DEF new
<1>9. DrawRows(new) \in [Cells -> SUBSET Characters]
  BY <1>7, DrawRowsIs
<1>10. d.cells = DrawRows(new) /\ d.row = c.row /\ d.column = 0 /\ d.window = c.window /\ d.buffer = new
      /\ d \in Consoles
  BY <1>0, <1>1, <1>2, <1>7, <1>9 DEF Consoles
<1> QED  BY <1>7, <1>8, <1>10 DEF ScrolledBuffer

LEMMA StoredIs ==
  ASSUME NEW s \in Seq(Characters), NEW n \in Nat, NEW ch \in Characters
  PROVE  /\ Stored(s, n, ch) \in Seq(Characters)
         /\ n = Len(s) => Stored(s, n, ch) = Append(s, ch)
<1>1. CASE n < Len(s)
  <2>1. n + 1 \in 1..Len(s)
    BY <1>1
  <2> QED  BY <1>1, <2>1, ExceptSeq DEF Stored
<1>2. CASE ~(n < Len(s))
  BY <1>2 DEF Stored
<1> QED  BY <1>1, <1>2

\* ch is put in the cell and in the row of the buffer where the cursor is.
PutThere(d, c, ch) ==
  /\ d.row = c.row /\ d.column = c.column + 1 /\ d.window = c.window
  /\ d.buffer = [c.buffer EXCEPT ![c.row] = Stored(@, c.column, ch)]
  /\ d.cells = [c.cells EXCEPT ![<<c.row, c.column>>] = @ \cup {ch}]

LEMMA PutCharFits ==
  ASSUME NEW c \in Consoles, NEW ch \in Characters, ch # NewLine, c.column < kConsoleColumns - 1,
         NEW d, d = PutChar(c, ch)
  PROVE  d \in Consoles /\ PutThere(d, c, ch)
<1> DEFINE buffer == [c.buffer EXCEPT ![c.row] = Stored(@, c.column, ch)]
           cells == [c.cells EXCEPT ![<<c.row, c.column>>] = @ \cup {ch}]
<1>1. d = [c EXCEPT !.cells = cells, !.buffer = buffer, !.column = @ + 1]
  BY DEF PutChar, Consoles
<1>2. /\ c.buffer \in [Rows -> Seq(Characters)] /\ c.row \in Rows
      /\ c.cells \in [Cells -> SUBSET Characters] /\ <<c.row, c.column>> \in Cells
      /\ c.column \in Nat /\ c.column + 1 \in 0..(kConsoleColumns - 1)
  BY ConsoleIs, ConsoleSize
<1>3. Stored(c.buffer[c.row], c.column, ch) \in Seq(Characters)
  BY <1>2, StoredIs
<1>4. buffer \in [Rows -> Seq(Characters)]
  BY <1>2, <1>3
<1>5. cells \in [Cells -> SUBSET Characters]
  BY <1>2
<1>6. PutThere(d, c, ch)
  BY <1>1 DEF PutThere, Consoles
<1> HIDE DEF buffer, cells
<1> QED  BY <1>1, <1>2, <1>4, <1>5, <1>6 DEF Consoles

LEMMA PutCharIs ==
  ASSUME NEW c \in Consoles, NEW ch \in Characters
  PROVE  PutChar(c, ch) \in Consoles
<1>1. CASE ch = NewLine
  <2>1. PutChar(c, ch) = Newline(c)
    BY <1>1 DEF PutChar
  <2>2. CASE c.row < kConsoleRows - 1
    BY <2>1, <2>2, NewlineDown
  <2>3. CASE ~(c.row < kConsoleRows - 1) /\ c.window = TRUE
    BY <2>1, <2>3, NewlineWindow
  <2>4. CASE ~(c.row < kConsoleRows - 1) /\ c.window = FALSE
    BY <2>1, <2>4, NewlineBuffer
  <2>5. c.window = TRUE \/ c.window = FALSE
    BY DEF Consoles
  <2> QED  BY <2>2, <2>3, <2>4, <2>5
<1>2. CASE ch # NewLine /\ c.column < kConsoleColumns - 1
  BY <1>2, PutCharFits
<1>3. CASE ch # NewLine /\ ~(c.column < kConsoleColumns - 1)
  BY <1>3 DEF PutChar
<1> QED  BY <1>1, <1>2, <1>3

LEMMA PutCharKeepsWindow ==
  ASSUME NEW c \in Consoles, NEW ch \in Characters
  PROVE  PutChar(c, ch).window = c.window
BY DEF PutChar, Newline, ScrollWindow, ScrollBuffer, Consoles

LEMMA PutInLogIs ==
  ASSUME NEW lines \in Logs, NEW ch \in Characters
  PROVE  PutInLog(lines, ch) \in Logs
<1>1. CASE ch = NewLine
  <2>1. PutInLog(lines, ch) = Append(lines, <<>>)
    BY <1>1 DEF PutInLog
  <2> QED  BY <2>1, LogBreaks
<1>2. CASE ch # NewLine /\ Len(lines[Len(lines)]) < kConsoleColumns - 1
  <2>1. PutInLog(lines, ch) = [lines EXCEPT ![Len(lines)] = Append(@, ch)]
    BY <1>2 DEF PutInLog, Last
  <2>2. PICK r \in Rows : r = LastRow(lines)
    BY LogIs
  <2>3. LastFits(lines) /\ LastGets(PutInLog(lines, ch), lines, ch)
    BY <1>2, <2>1 DEF LastFits, LastGets
  <2>4. GrownLog(PutInLog(lines, ch), lines, r, ch)
    BY <2>2, <2>3, LogGrows, Zenon
  <2> QED  BY <2>4 DEF GrownLog
<1>3. CASE ch # NewLine /\ ~(Len(lines[Len(lines)]) < kConsoleColumns - 1)
  BY <1>3 DEF PutInLog, Last
<1> QED  BY <1>1, <1>2, <1>3

\* A new line scrolls a window as it scrolls the log.
LEMMA WindowFollows ==
  ASSUME NEW c, NEW lines, Follows(c, lines), ~(c.row < kConsoleRows - 1), c.window = TRUE,
         NEW d, d = Newline(c), NEW next, next = Append(lines, <<>>)
  PROVE  Follows(d, next)
<1>1. c \in Consoles /\ lines \in Logs /\ c.row = LastRow(lines) /\ c.cells = DrawRows(TailRows(lines, c.row))
  BY DEF Follows
<1>2. PICK r \in Rows : r = c.row
  BY <1>1, ConsoleIs
<1>3. PICK old \in [Rows -> Seq(Characters)] : old = TailRows(lines, r)
  BY <1>1, <1>2, TailRowsIs
<1>4. d \in Consoles /\ ScrolledWindow(d, c)
  BY <1>1, NewlineWindow
<1>5. next \in Logs /\ Len(next[Len(next)]) = 0
  BY <1>1, LogBreaks
<1>6. /\ LastRow(next) = r /\ r = kConsoleRows - 1
      /\ \A row \in Rows : row < kConsoleRows - 1 =>
           row + 1 \in Rows /\ TailRows(next, r)[row] = old[row + 1]
      /\ TailRows(next, r)[kConsoleRows - 1] = <<>>
  <2>1. r = LastRow(lines) /\ ~(r < kConsoleRows - 1)
    BY <1>1, <1>2
  <2>2. ScrolledLog(next, lines, r)
    BY <1>1, <2>1, LogScrolls, Zenon
  <2> QED  BY <1>3, <2>2 DEF ScrolledLog
<1>7. PICK new \in [Rows -> Seq(Characters)] : new = TailRows(next, r)
  BY <1>5, <1>6, TailRowsIs
<1>8. ASSUME NEW cell \in Cells PROVE d.cells[cell] = DrawRows(new)[cell]
  <2>1. cell[1] \in Rows /\ cell[2] \in 0..(kConsoleColumns - 1)
    BY CellIs
  <2>2. DrawRows(new)[cell] = IF cell[2] < Len(new[cell[1]]) THEN {new[cell[1]][cell[2] + 1]} ELSE {}
    BY DrawRowsIs
  <2>3. CASE cell[1] < kConsoleRows - 1
    <3>1. cell[1] + 1 \in Rows /\ new[cell[1]] = old[cell[1] + 1]
      BY <1>6, <1>7, <2>1, <2>3
    <3>2. PICK low \in Cells : low = <<cell[1] + 1, cell[2]>>
      BY <2>1, <3>1, CellIs
    <3>3. d.cells[cell] = c.cells[low]
      BY <1>4, <2>3, <3>2 DEF ScrolledWindow, MovedUp
    <3>4. DrawRows(old)[low] = IF low[2] < Len(old[low[1]]) THEN {old[low[1]][low[2] + 1]} ELSE {}
      BY DrawRowsIs
    <3>5. low[1] = cell[1] + 1 /\ low[2] = cell[2]
      BY <3>2
    <3>6. c.cells[low] = DrawRows(old)[low]
      BY <1>1, <1>2, <1>3
    <3> QED  BY <2>2, <3>1, <3>3, <3>4, <3>5, <3>6
  <2>4. CASE ~(cell[1] < kConsoleRows - 1)
    <3>1. cell[1] = kConsoleRows - 1
      BY <2>1, <2>4, ConsoleSize
    <3>2. new[cell[1]] = <<>>
      BY <1>6, <1>7, <3>1
    <3>3. ~(cell[2] < Len(<<>>))
      BY <2>1, ConsoleSize
    <3>4. d.cells[cell] = {}
      BY <1>4, <2>4 DEF ScrolledWindow, MovedUp
    <3> QED  BY <2>2, <3>2, <3>3, <3>4
  <2> QED  BY <2>3, <2>4
<1>9. d.cells = DrawRows(new)
  <2>1. d.cells \in [Cells -> SUBSET Characters]
    BY <1>4, ConsoleIs
  <2>2. DrawRows(new) \in [Cells -> SUBSET Characters]
    BY DrawRowsIs
  <2> QED  BY <1>8, <2>1, <2>2
<1>10. d.row = r /\ d.column = 0 /\ d.window = TRUE
  BY <1>2, <1>4 DEF ScrolledWindow
<1> QED  BY <1>4, <1>5, <1>6, <1>7, <1>9, <1>10 DEF Follows

\* Without a window, the buffer is scrolled and drawn.
LEMMA BufferFollows ==
  ASSUME NEW c, NEW lines, Follows(c, lines), ~(c.row < kConsoleRows - 1), c.window = FALSE,
         NEW d, d = Newline(c), NEW next, next = Append(lines, <<>>)
  PROVE  Follows(d, next)
<1>1. c \in Consoles /\ lines \in Logs /\ c.row = LastRow(lines) /\ c.buffer = TailRows(lines, c.row)
  BY DEF Follows
<1>2. PICK r \in Rows : r = c.row
  BY <1>1, ConsoleIs
<1>3. d \in Consoles /\ ScrolledBuffer(d, c)
  BY <1>1, NewlineBuffer
<1>4. next \in Logs /\ Len(next[Len(next)]) = 0
  BY <1>1, LogBreaks
<1>5. /\ LastRow(next) = r /\ r = kConsoleRows - 1
      /\ \A row \in Rows : row < kConsoleRows - 1 =>
           row + 1 \in Rows /\ TailRows(next, r)[row] = TailRows(lines, r)[row + 1]
      /\ TailRows(next, r)[kConsoleRows - 1] = <<>>
  <2>1. r = LastRow(lines) /\ ~(r < kConsoleRows - 1)
    BY <1>1, <1>2
  <2>2. ScrolledLog(next, lines, r)
    BY <1>1, <2>1, LogScrolls, Zenon
  <2> QED  BY <2>2 DEF ScrolledLog
<1>6. PICK new \in [Rows -> Seq(Characters)] : new = TailRows(next, r)
  BY <1>4, <1>5, TailRowsIs
<1>7. ASSUME NEW row \in Rows PROVE d.buffer[row] = new[row]
  <2>1. CASE row < kConsoleRows - 1
    BY <1>1, <1>2, <1>3, <1>5, <1>6, <2>1 DEF ScrolledBuffer
  <2>2. CASE ~(row < kConsoleRows - 1)
    <3>1. row = kConsoleRows - 1
      BY <2>2, ConsoleSize
    <3> QED  BY <1>3, <1>5, <1>6, <3>1 DEF ScrolledBuffer
  <2> QED  BY <2>1, <2>2
<1>8. d.buffer = new
  <2>1. d.buffer \in [Rows -> Seq(Characters)]
    BY <1>3, ConsoleIs
  <2> QED  BY <1>7, <2>1
<1>9. d.row = r /\ d.column = 0 /\ d.cells = DrawRows(new)
  BY <1>2, <1>3, <1>8 DEF ScrolledBuffer
<1> QED  BY <1>3, <1>4, <1>5, <1>6, <1>8, <1>9 DEF Follows

\* Before the last row, a new line only moves the cursor.
LEMMA CursorFollows ==
  ASSUME NEW c, NEW lines, Follows(c, lines), c.row < kConsoleRows - 1,
         NEW d, d = Newline(c), NEW next, next = Append(lines, <<>>)
  PROVE  Follows(d, next)
<1>1. /\ c \in Consoles /\ lines \in Logs /\ c.row = LastRow(lines)
      /\ c.cells = DrawRows(TailRows(lines, c.row))
      /\ ~c.window => c.buffer = TailRows(lines, c.row)
  BY DEF Follows
<1>2. PICK r \in Rows : r = c.row
  BY <1>1, ConsoleIs
<1>3. d \in Consoles /\ MovedDown(d, c)
  BY <1>1, NewlineDown
<1>4. next \in Logs /\ Len(next[Len(next)]) = 0
  BY <1>1, LogBreaks
<1>5. LastRow(next) = r + 1 /\ TailRows(next, r + 1) = TailRows(lines, r)
  BY <1>1, <1>2, LogMovesDown, ZenonT(30)
<1> QED  BY <1>1, <1>2, <1>3, <1>4, <1>5 DEF Follows, MovedDown, SameRows

\* A character that fits appears in its cell, and in the buffer.
LEMMA CharacterFollows ==
  ASSUME NEW c, NEW lines, Follows(c, lines), NEW ch \in Characters, ch # NewLine,
         c.column < kConsoleColumns - 1, NEW d, d = PutChar(c, ch),
         NEW next, next = [lines EXCEPT ![Len(lines)] = Append(@, ch)]
  PROVE  Follows(d, next)
<1>1. /\ c \in Consoles /\ lines \in Logs /\ c.row = LastRow(lines) /\ c.column = Len(lines[Len(lines)])
      /\ c.cells = DrawRows(TailRows(lines, c.row))
      /\ ~c.window => c.buffer = TailRows(lines, c.row)
  BY DEF Follows
<1>2. PICK r \in Rows : r = c.row
  BY <1>1, ConsoleIs
<1>3. PICK old \in [Rows -> Seq(Characters)] : old = TailRows(lines, r) /\ old[r] = lines[Len(lines)]
  BY <1>1, <1>2, TailRowsIs
<1>4. PICK n \in Nat : n = c.column /\ n = Len(old[r])
  BY <1>1, <1>3, ConsoleIs
<1>5. d \in Consoles /\ PutThere(d, c, ch)
  BY <1>1, PutCharFits
<1>6. /\ next \in Logs /\ LastRow(next) = r
      /\ Len(next[Len(next)]) = n + 1
      /\ \A row \in Rows : row # r => TailRows(next, r)[row] = old[row]
      /\ TailRows(next, r)[r] = Append(old[r], ch)
  <2>1. LastFits(lines) /\ LastGets(next, lines, ch) /\ r = LastRow(lines)
    BY <1>1, <1>2 DEF LastFits, LastGets
  <2>2. GrownLog(next, lines, r, ch)
    BY <1>1, <2>1, LogGrows, Zenon
  <2>3. Len(lines[Len(lines)]) = n
    BY <1>1, <1>4
  <2> QED  BY <1>3, <2>2, <2>3 DEF GrownLog
<1>7. PICK new \in [Rows -> Seq(Characters)] : new = TailRows(next, r)
  BY <1>6, TailRowsIs
<1>8. new = [old EXCEPT ![r] = Append(old[r], ch)]
  BY <1>6, <1>7
<1>9. PICK s \in Seq(Characters) : s = old[r] /\ n = Len(s)
  BY <1>4
<1>10. /\ Append(s, ch) \in Seq(Characters) /\ Len(Append(s, ch)) = n + 1
       /\ Append(s, ch)[n + 1] = ch /\ \A k \in 1..n : Append(s, ch)[k] = s[k]
  BY <1>9, AppendProperties
<1>11. new[r] = Append(s, ch) /\ \A row \in Rows : row # r => new[row] = old[row]
  BY <1>6, <1>7, <1>9
<1>12. PICK here \in Cells : here = <<r, n>> /\ here[1] = r /\ here[2] = n
  BY <1>1, <1>2, <1>4, ConsoleIs
<1>13. d.cells = [c.cells EXCEPT ![here] = @ \cup {ch}] /\ c.cells = DrawRows(old)
  BY <1>1, <1>2, <1>3, <1>4, <1>5, <1>12 DEF PutThere
<1>14. DrawRows(old) \in [Cells -> SUBSET Characters] /\ DrawRows(new) \in [Cells -> SUBSET Characters]
  BY DrawRowsIs
<1>15. ASSUME NEW cell \in Cells PROVE d.cells[cell] = DrawRows(new)[cell]
  <2>1. PICK x \in Rows, y \in Nat : cell[1] = x /\ cell[2] = y /\ cell = <<x, y>>
    BY CellIs, ConsoleSize
  <2>2. DrawRows(new)[cell] = IF y < Len(new[x]) THEN {new[x][y + 1]} ELSE {}
    BY <2>1, DrawRowsIs
  <2>3. DrawRows(old)[cell] = IF y < Len(old[x]) THEN {old[x][y + 1]} ELSE {}
    BY <2>1, DrawRowsIs
  <2>4. d.cells[cell] = IF cell = here THEN DrawRows(old)[cell] \cup {ch} ELSE DrawRows(old)[cell]
    BY <1>13, <1>14
  <2>5. CASE x # r
    BY <1>11, <1>12, <2>1, <2>2, <2>3, <2>4, <2>5
  <2>6. CASE x = r /\ y < n
    <3>1. y + 1 \in 1..n /\ y < n + 1 /\ y # n
      BY <2>6
    <3>2. DrawRows(new)[cell] = {s[y + 1]} /\ DrawRows(old)[cell] = {s[y + 1]}
      BY <1>9, <1>10, <1>11, <2>2, <2>3, <2>6, <3>1
    <3> QED  BY <1>12, <2>1, <2>4, <3>1, <3>2
  <2>7. CASE x = r /\ y = n
    <3>1. y < n + 1 /\ ~(y < n)
      BY <2>7
    <3>2. DrawRows(new)[cell] = {ch} /\ DrawRows(old)[cell] = {}
      BY <1>9, <1>10, <1>11, <2>2, <2>3, <2>7, <3>1
    <3> QED  BY <1>12, <2>1, <2>4, <2>7, <3>2
  <2>8. CASE x = r /\ n < y
    <3>1. ~(y < n + 1) /\ ~(y < n) /\ y # n
      BY <2>8
    <3>2. DrawRows(new)[cell] = {} /\ DrawRows(old)[cell] = {}
      BY <1>9, <1>10, <1>11, <2>2, <2>3, <2>8, <3>1
    <3> QED  BY <1>12, <2>1, <2>4, <3>1, <3>2
  <2>9. x # r \/ (x = r /\ (y < n \/ y = n \/ n < y))
    OBVIOUS
  <2> QED  BY <2>5, <2>6, <2>7, <2>8, <2>9
<1>16. d.cells = DrawRows(new)
  <2>1. d.cells \in [Cells -> SUBSET Characters]
    BY <1>5, ConsoleIs
  <2> QED  BY <1>14, <1>15, <2>1
<1>17. ~d.window => d.buffer = new
  <2>1. Stored(s, n, ch) = Append(s, ch)
    BY <1>9, StoredIs
  <2>2. SUFFICES ASSUME ~c.window PROVE d.buffer = new
    BY <1>5 DEF PutThere
  <2>3. c.buffer = old
    BY <1>1, <1>2, <1>3, <2>2
  <2>4. d.buffer = [old EXCEPT ![r] = Stored(s, n, ch)]
    BY <1>2, <1>4, <1>5, <1>9, <2>3 DEF PutThere
  <2> QED  BY <1>8, <1>9, <2>1, <2>4
<1>18. d.row = r /\ d.column = n + 1
  BY <1>2, <1>4, <1>5 DEF PutThere
<1> QED  BY <1>5, <1>6, <1>7, <1>16, <1>17, <1>18 DEF Follows

LEMMA PutCharFollows ==
  ASSUME NEW c, NEW lines, Follows(c, lines), NEW ch \in Characters
  PROVE  Follows(PutChar(c, ch), PutInLog(lines, ch))
<1>1. c \in Consoles /\ lines \in Logs /\ c.column = Len(lines[Len(lines)])
  BY DEF Follows
<1>2. CASE ch = NewLine
  <2>1. PutChar(c, ch) = Newline(c) /\ PutInLog(lines, ch) = Append(lines, <<>>)
    BY <1>2 DEF PutChar, PutInLog
  <2>2. CASE c.row < kConsoleRows - 1
    BY <2>1, <2>2, CursorFollows
  <2>3. CASE ~(c.row < kConsoleRows - 1) /\ c.window = TRUE
    BY <2>1, <2>3, WindowFollows
  <2>4. CASE ~(c.row < kConsoleRows - 1) /\ c.window = FALSE
    BY <2>1, <2>4, BufferFollows
  <2>5. c.window = TRUE \/ c.window = FALSE
    BY <1>1 DEF Consoles
  <2> QED  BY <2>2, <2>3, <2>4, <2>5
<1>3. CASE ch # NewLine /\ c.column < kConsoleColumns - 1
  <2>1. PutInLog(lines, ch) = [lines EXCEPT ![Len(lines)] = Append(@, ch)]
    BY <1>1, <1>3 DEF PutInLog, Last
  <2> QED  BY <1>3, <2>1, CharacterFollows
<1>4. CASE ch # NewLine /\ ~(c.column < kConsoleColumns - 1)
  <2>1. PutChar(c, ch) = c /\ PutInLog(lines, ch) = lines
    BY <1>1, <1>4 DEF PutChar, PutInLog, Last
  <2> QED  BY <2>1
<1> QED  BY <1>2, <1>3, <1>4

\* The loop of PutString, unrolled.
LEMMA PutStringSteps ==
  ASSUME NEW c \in Consoles, NEW s \in Seq(Characters), NEW n \in Nat, n = Len(s)
  PROVE  \E f \in [0..n -> Consoles] : /\ f[0] = c /\ f[n] = PutString(c, s)
                                   /\ \A k \in 1..n : f[k] = PutChar(f[k - 1], s[k])
<1> DEFINE F == [p \in Consoles \X Characters |-> PutChar(p[1], p[2])]
           Eqn(it) == it = [T \in SUBSET (DOMAIN s) |->
              IF T = {} THEN c ELSE PutChar(it[T \ {Max(T)}], s[Max(T)])]
           all == CHOOSE it : Eqn(it)
<1>1. DOMAIN s = 1..n /\ n \in 0..Len(s) /\ s \in [1..n -> Characters]
  OBVIOUS
<1>2. F \in [Consoles \X Characters -> Consoles]
  BY PutCharIs
<1>3. PutString(c, s) = all[DOMAIN s]
  BY DEF PutString, FoldLeft, MapThenFoldSet
<1>4. ASSUME NEW a \in Consoles, NEW T \in SUBSET (1..n), T # {}
      PROVE  F[<<a, s[Max(T)]>>] = PutChar(a, s[Max(T)])
  <2>1. Max(T) \in 1..n
    BY <1>1, <1>4, MaxOf
  <2>2. PICK b \in Characters : b = s[Max(T)]
    BY <1>1, <2>1
  <2> QED  BY <2>2
<1> HIDE DEF F
<1>5. PICK it \in [SUBSET (1..n) -> Consoles] : IsIter(it, F, c, s, n)
  BY <1>1, <1>2, IterExists
<1>6. Eqn(it)
  BY <1>1, <1>4, <1>5 DEF IsIter
<1>7. Eqn(all)
  BY <1>6
<1> HIDE DEF all
<1>8. IsFold(all, F, c, s, n, Consoles, Characters)
  BY <1>1, <1>2, <1>4, <1>7 DEF IsFold
<1>9. PICK f \in [0..n -> Consoles] : Steps(f, F, c, s, n) /\ f[n] = all[1..n]
  BY <1>8, FoldSteps
<1>10. \A k \in 1..n : f[k] = PutChar(f[k - 1], s[k])
  <2> SUFFICES ASSUME NEW k \in 1..n PROVE f[k] = PutChar(f[k - 1], s[k])
    OBVIOUS
  <2>1. s[k] \in Characters /\ f[k - 1] \in Consoles
    BY <1>1
  <2> QED  BY <1>9, <2>1 DEF F, Steps
<1> QED  BY <1>1, <1>3, <1>9, <1>10, SMTT(30) DEF Steps


LEMMA LoggedSteps ==
  ASSUME NEW lines \in Logs, NEW s \in Seq(Characters), NEW n \in Nat, n = Len(s)
  PROVE  \E f \in [0..n -> Logs] : /\ f[0] = lines /\ f[n] = Logged(lines, s)
                                   /\ \A k \in 1..n : f[k] = PutInLog(f[k - 1], s[k])
<1> DEFINE F == [p \in Logs \X Characters |-> PutInLog(p[1], p[2])]
           Eqn(it) == it = [T \in SUBSET (DOMAIN s) |->
              IF T = {} THEN lines ELSE PutInLog(it[T \ {Max(T)}], s[Max(T)])]
           all == CHOOSE it : Eqn(it)
<1>1. DOMAIN s = 1..n /\ n \in 0..Len(s) /\ s \in [1..n -> Characters]
  OBVIOUS
<1>2. F \in [Logs \X Characters -> Logs]
  BY PutInLogIs
<1>3. Logged(lines, s) = all[DOMAIN s]
  BY DEF Logged, FoldLeft, MapThenFoldSet
<1>4. ASSUME NEW a \in Logs, NEW T \in SUBSET (1..n), T # {}
      PROVE  F[<<a, s[Max(T)]>>] = PutInLog(a, s[Max(T)])
  <2>1. Max(T) \in 1..n
    BY <1>1, <1>4, MaxOf
  <2>2. PICK b \in Characters : b = s[Max(T)]
    BY <1>1, <2>1
  <2> QED  BY <2>2
<1> HIDE DEF F
<1>5. PICK it \in [SUBSET (1..n) -> Logs] : IsIter(it, F, lines, s, n)
  BY <1>1, <1>2, IterExists
<1>6. Eqn(it)
  BY <1>1, <1>4, <1>5 DEF IsIter
<1>7. Eqn(all)
  BY <1>6
<1> HIDE DEF all
<1>8. IsFold(all, F, lines, s, n, Logs, Characters)
  BY <1>1, <1>2, <1>4, <1>7 DEF IsFold
<1>9. PICK f \in [0..n -> Logs] : Steps(f, F, lines, s, n) /\ f[n] = all[1..n]
  BY <1>8, FoldSteps
<1>10. \A k \in 1..n : f[k] = PutInLog(f[k - 1], s[k])
  <2> SUFFICES ASSUME NEW k \in 1..n PROVE f[k] = PutInLog(f[k - 1], s[k])
    OBVIOUS
  <2>1. s[k] \in Characters /\ f[k - 1] \in Logs
    BY <1>1
  <2> QED  BY <1>9, <2>1 DEF F, Steps
<1> QED  BY <1>1, <1>3, <1>9, <1>10, ZenonT(30) DEF Steps

\* However long the text, the console goes on showing the end of the log.
LEMMA PutStringFollows ==
  ASSUME NEW c, NEW lines, Follows(c, lines), NEW s \in Seq(Characters)
  PROVE  Follows(PutString(c, s), Logged(lines, s)) /\ PutString(c, s).window = c.window
<1>1. c \in Consoles /\ lines \in Logs
  BY DEF Follows
<1>2. PICK n \in Nat : n = Len(s)
  OBVIOUS
<1>3. PICK f \in [0..n -> Consoles] : /\ f[0] = c /\ f[n] = PutString(c, s)
                                     /\ \A k \in 1..n : f[k] = PutChar(f[k - 1], s[k])
  BY <1>1, <1>2, PutStringSteps, SMTT(30)
<1>4. PICK h \in [0..n -> Logs] : /\ h[0] = lines /\ h[n] = Logged(lines, s)
                                 /\ \A k \in 1..n : h[k] = PutInLog(h[k - 1], s[k])
  BY <1>1, <1>2, LoggedSteps, SMTT(30)
<1> DEFINE G == {k \in 0..n : Follows(f[k], h[k]) /\ f[k].window = c.window}
<1>5. 0 \in G
  BY <1>3, <1>4
<1>6. ASSUME NEW k \in 1..n, (k - 1) \in G PROVE k \in G
  <2>1. Follows(f[k - 1], h[k - 1]) /\ f[k - 1].window = c.window /\ s[k] \in Characters
    BY <1>2, <1>6
  <2>2. Follows(PutChar(f[k - 1], s[k]), PutInLog(h[k - 1], s[k]))
    BY <2>1, PutCharFollows
  <2>3. PutChar(f[k - 1], s[k]).window = c.window
    BY <2>1, PutCharKeepsWindow DEF Follows
  <2> QED  BY <1>3, <1>4, <2>2, <2>3
<1>7. \A k \in 0..n : k \in G
  <2> HIDE DEF G
  <2> QED  BY <1>5, <1>6, CountUp
<1>8. n \in 0..n
  OBVIOUS
<1> QED  BY <1>3, <1>4, <1>7, <1>8

LEMMA NewConsoleFollows == Follows(NewConsole, NoLines)
<1>1. /\ NoLines \in Logs /\ Len(NoLines) = 1 /\ NoLines[1] = <<>> /\ Len(<<>>) = 0
  <2>1. <<>> \in Seq(Characters) /\ Len(<<>>) = 0
    OBVIOUS
  <2>2. <<>> \in LogLine
    BY <2>1, ConsoleSize DEF LogLine
  <2>3. NoLines \in Seq(LogLine) /\ Len(NoLines) = 1 /\ NoLines[1] = <<>>
    BY <2>2 DEF NoLines
  <2>4. NoLines # <<>>
    BY <2>1, <2>3
  <2> QED  BY <2>1, <2>3, <2>4 DEF Logs
<1>2. LastRow(NoLines) = 0
  BY <1>1, ConsoleSize DEF LastRow
<1>3. 0 \in Rows /\ 0 \in 0..(kConsoleColumns - 1)
  BY ConsoleSize
<1>4. PICK b \in [Rows -> Seq(Characters)] : b = [row \in Rows |-> <<>>]
  <2>1. <<>> \in Seq(Characters)
    OBVIOUS
  <2> QED  BY <2>1
<1>5. TailRows(NoLines, 0) = b
  <2>1. ASSUME NEW row \in Rows PROVE TailRows(NoLines, 0)[row] = <<>>
    <3>1. PICK x \in Nat : x = row
      BY DEF Rows
    <3>2. x <= 0 => 1 - 0 + x = 1
      OBVIOUS
    <3> QED  BY <1>1, <3>1, <3>2 DEF TailRows
  <2> QED  BY <1>4, <2>1 DEF TailRows
<1>6. DrawRows(b) = Blank
  <2>1. ASSUME NEW cell \in Cells PROVE ~(cell[2] < Len(b[cell[1]]))
    BY <1>4, CellIs, ConsoleSize
  <2> QED  BY <2>1 DEF DrawRows, Blank
<1>7. Blank \in [Cells -> SUBSET Characters]
  BY DEF Blank
<1>8. NewConsole \in Consoles
  BY <1>3, <1>4, <1>7 DEF NewConsole, Consoles
<1> QED  BY <1>1, <1>2, <1>4, <1>5, <1>6, <1>8 DEF NewConsole, Follows

\* SetWriter and SetWindow draw the buffer, which shows the end of the log.
LEMMA RefreshFollows ==
  ASSUME NEW c, NEW lines, Follows(c, lines), c.window = FALSE
  PROVE  Follows(SetWriter(c), lines) /\ Follows(SetWindow(c), lines)
<1>1. /\ c \in Consoles /\ lines \in Logs /\ c.row = LastRow(lines) /\ c.column = Len(lines[Len(lines)])
      /\ c.cells = DrawRows(TailRows(lines, c.row)) /\ c.buffer = TailRows(lines, c.row)
  BY DEF Follows
<1>2. SetWriter(c) = [c EXCEPT !.window = FALSE] /\ SetWindow(c) = [c EXCEPT !.window = TRUE]
  BY <1>1 DEF SetWriter, SetWindow, Refresh, Consoles
<1>3. SetWriter(c) \in Consoles /\ SetWindow(c) \in Consoles
  BY <1>1, <1>2 DEF Consoles
<1> QED  BY <1>1, <1>2, <1>3 DEF Follows, Consoles

LEMMA FollowingShows ==
  ASSUME NEW c, NEW lines, Follows(c, lines)
  PROVE  ShowsEndOf(c, lines)
BY DEF Follows, ShowsEndOf, TailRows, LastRow

NoLog == LoaderStages \cup {"call_kernel", "kernel_main", "copy_map", "graphics", "console"}
NoWindow == NoLog \cup {"welcome", "segmentation", "paging", "memory_manager",
                        "interrupt", "fat", "pci", "layer", "set_window"}

\* The console follows the log; until it is initialized nothing is logged, and
\* until it gets its window its buffer holds what it shows.
ConsoleHeld ==
  /\ Follows(con, log)
  /\ stage \in NoLog => log = NoLines
  /\ stage \in NoWindow => con.window = FALSE

LEMMA InitConsoleHeld == BootInit => ConsoleHeld
BY NewConsoleFollows DEF BootInit, ConsoleHeld, NewConsole

LEMMA ConsoleUnchanged ==
  ASSUME ConsoleHeld, con' = con, log' = log,
         stage' \in NoLog => stage \in NoLog, stage' \in NoWindow => stage \in NoWindow
  PROVE  ConsoleHeld'
BY DEF ConsoleHeld

\* Every other step leaves the console as it is.
LEMMA OthersKeepConsole ==
  ASSUME Firmware \/ Halts \/ Loader \/ KernelMain \/ CopyMemoryMap \/ InitializeGraphics
         \/ InitializeSegmentation \/ InitializePaging \/ InitializeMemoryManager
         \/ InitializeInterrupt \/ fatInitialize \/ InitializePCI
         \/ MakeWindows \/ MakeLayers \/ MakeTopWindows \/ acpiInitialize
         \/ BeginWait \/ Poll \/ TimersRun \/ Stop \/ UNCHANGED allVars
  PROVE  /\ con' = con /\ log' = log
         /\ stage' \in NoLog => stage \in NoLog
         /\ stage' \in NoWindow => stage \in NoWindow
<1> USE DEF consoleVars, NoLog, NoWindow, LoaderStages
<1>1. CASE Firmware \/ Halts
  BY <1>1 DEF Firmware, Halts, Allocates
<1>2. CASE Loader
  BY <1>2 DEF Loader, FirstMemoryMap, OpenRootDir, SaveMemoryMap, OpenGOP, ReadKernelFile,
    LoadKernel, FreeKernelFile, ReadVolume, FirstExit, SecondMemoryMap, SecondExit, CallKernel,
    GetMemoryMap, ExitBootServices, Allocates, Goto, Pass
<1>3. CASE KernelMain \/ CopyMemoryMap \/ InitializeGraphics
  BY <1>3 DEF KernelMain, CopyMemoryMap, InitializeGraphics, Goto, Refers
<1>4. CASE InitializeSegmentation \/ InitializePaging \/ InitializeMemoryManager
           \/ InitializeInterrupt \/ fatInitialize \/ InitializePCI
  BY <1>4 DEF InitializeSegmentation, InitializePaging, InitializeMemoryManager,
    InitializeInterrupt, fatInitialize, InitializePCI, Goto, Pass, Refers
<1>5. CASE MakeWindows \/ MakeLayers \/ MakeTopWindows \/ acpiInitialize
  BY <1>5 DEF MakeWindows, MakeLayers, MakeTopWindows, acpiInitialize, Goto, Pass
<1>6. CASE BeginWait
  BY <1>6 DEF BeginWait
<1>7. CASE Poll
  BY <1>7 DEF Poll
<1>8. CASE TimersRun \/ Stop \/ UNCHANGED allVars
  BY <1>8 DEF TimersRun, Stop, allVars, bootVars
<1> QED  BY <1>1, <1>2, <1>3, <1>4, <1>5, <1>6, <1>7, <1>8

\* A text of characters keeps the console at the end of the log.
LEMMA WritesFollow ==
  ASSUME ConsoleHeld, NEW text \in Seq(Characters), Writes(text)
  PROVE  Follows(con', log') /\ con'.window = con.window
BY PutStringFollows DEF ConsoleHeld, Writes

LEMMA WelcomeHeld == ConsoleHeld /\ Welcome => ConsoleHeld'
<1> SUFFICES ASSUME ConsoleHeld, Welcome PROVE ConsoleHeld'
  OBVIOUS
<1>1. <<"w", NewLine>> \in Seq(Characters)
  BY DEF Characters
<1>2. Follows(con', log') /\ con'.window = con.window
  BY <1>1, WritesFollow DEF Welcome
<1>3. stage = "welcome" /\ stage' = "segmentation"
  BY DEF Welcome, Goto
<1> QED  BY <1>2, <1>3 DEF ConsoleHeld, NoLog, NoWindow, LoaderStages

LEMMA LoggingHeld == ConsoleHeld /\ Logging => ConsoleHeld'
<1> SUFFICES ASSUME ConsoleHeld, Logging PROVE ConsoleHeld'
  OBVIOUS
<1>1. PICK text \in Texts : Writes(text)
  BY DEF Logging
<1>2. text \in Seq(Characters)
  BY BootAssumption
<1>3. Follows(con', log') /\ con'.window = con.window
  BY <1>1, <1>2, WritesFollow
<1>4. stage' = stage /\ stage \notin NoLog
  BY DEF Logging, NoLog, LoaderStages
<1> QED  BY <1>3, <1>4 DEF ConsoleHeld

LEMMA InitializeConsoleHeld == ConsoleHeld /\ InitializeConsole => ConsoleHeld'
<1> SUFFICES ASSUME ConsoleHeld, InitializeConsole PROVE ConsoleHeld'
  OBVIOUS
<1>1. con' = SetWriter(NewConsole) /\ log' = log /\ stage = "console" /\ stage' = "welcome"
  BY DEF InitializeConsole, Goto
<1>2. log = NoLines
  BY <1>1 DEF ConsoleHeld, NoLog
<1>3. NewConsole.window = FALSE
  BY DEF NewConsole
<1>4. Follows(con', log')
  BY <1>1, <1>2, <1>3, NewConsoleFollows, RefreshFollows
<1>5. con'.window = FALSE
  BY <1>1 DEF SetWriter, Refresh, NewConsole
<1> QED  BY <1>1, <1>4, <1>5 DEF ConsoleHeld, NoLog, LoaderStages

LEMMA ConsoleToWindowHeld == ConsoleHeld /\ ConsoleToWindow => ConsoleHeld'
<1> SUFFICES ASSUME ConsoleHeld, ConsoleToWindow PROVE ConsoleHeld'
  OBVIOUS
<1>1. con' = SetWindow(con) /\ log' = log /\ stage = "set_window" /\ stage' = "layers"
  BY DEF ConsoleToWindow, Goto
<1>2. Follows(con, log) /\ con.window = FALSE
  BY <1>1 DEF ConsoleHeld, NoWindow
<1>3. Follows(con', log')
  BY <1>1, <1>2, RefreshFollows
<1> QED  BY <1>1, <1>3 DEF ConsoleHeld, NoLog, NoWindow, LoaderStages

LEMMA StepConsoleHeld == ConsoleHeld /\ [BootNext]_allVars => ConsoleHeld'
<1> SUFFICES ASSUME ConsoleHeld, [BootNext]_allVars PROVE ConsoleHeld'
  OBVIOUS
<1>1. CASE Welcome
  BY <1>1, WelcomeHeld
<1>2. CASE Logging
  BY <1>2, LoggingHeld
<1>3. CASE InitializeConsole
  BY <1>3, InitializeConsoleHeld
<1>4. CASE ConsoleToWindow
  BY <1>4, ConsoleToWindowHeld
<1>5. CASE \/ Firmware \/ Halts \/ Loader \/ KernelMain \/ CopyMemoryMap \/ InitializeGraphics
           \/ InitializeSegmentation \/ InitializePaging \/ InitializeMemoryManager
           \/ InitializeInterrupt \/ fatInitialize \/ InitializePCI
           \/ MakeWindows \/ MakeLayers \/ MakeTopWindows \/ acpiInitialize
           \/ BeginWait \/ Poll \/ TimersRun \/ Stop \/ UNCHANGED allVars
  BY <1>5, OthersKeepConsole, ConsoleUnchanged
<1> QED  BY <1>1, <1>2, <1>3, <1>4, <1>5 DEF BootNext, Kernel

\* Whatever is logged, for every size of the console, from the first character
\* on the frame buffer to the last in the window (Console::PutString, Newline,
\* Refresh, SetWriter, SetWindow): it shows the last lines logged.
THEOREM ConsoleIsTail == BootSpec => []ConsoleShowsTail
<1>1. ConsoleHeld => ConsoleShowsTail
  BY FollowingShows DEF ConsoleHeld, ConsoleShowsTail
<1> QED  BY InitConsoleHeld, StepConsoleHeld, <1>1, PTL DEF BootSpec

-----------------------------------------------------------------------------
(***************************************************************************)
(* The physical memory manager, for bitmaps, memory maps, heaps and        *)
(* requests of every size, as long as the memory map describes no frame    *)
(* that the bitmap has no bit for (PhysicalFrames <= kFrameCount; without  *)
(* it BitmapInBounds fails, which the run bitmap_overflow shows).          *)
(*                                                                         *)
(* Bits first: what setting the bits of a set of frames does to the bit of *)
(* one frame.  Then the boot loop, whose invariant is about the frames     *)
(* below available_end and the descriptors read so far, then the search    *)
(* and the blocks.  Last, that all of it implements FrameAllocator.        *)
(***************************************************************************)

K == kBitsPerMapLine

\* A frame is its line and its bit in the line.
LEMMA DivMod ==
  ASSUME NEW n \in Nat
  PROVE  /\ n \div K \in Nat /\ n % K \in 0..(K - 1)
         /\ n = K * (n \div K) + (n % K)
BY MemoryAssumption DEF K

LEMMA SameLineSameBit ==
  ASSUME NEW m \in Nat, NEW n \in Nat, m \div K = n \div K, m % K = n % K
  PROVE  m = n
<1>1. m = K * (m \div K) + (m % K) BY DivMod
<1>2. n = K * (n \div K) + (n % K) BY DivMod
<1> QED BY <1>1, <1>2

LEMMA LineOfFrame ==
  ASSUME NEW n \in 0..(kFrameCount - 1)
  PROVE  n \div K \in Lines
<1> DEFINE q == n \div K
           L == kFrameCount \div K
<1>1. K \in Nat /\ K > 0 /\ kFrameCount \in Nat /\ n \in Nat /\ n < kFrameCount
  BY MemoryAssumption DEF K
<1>2. q \in Nat /\ n % K \in Nat /\ n = K * q + (n % K) BY <1>1, DivMod
<1>3. L \in Nat /\ kFrameCount % K = 0 /\ kFrameCount = K * L + (kFrameCount % K)
  BY <1>1, DivMod, MemoryAssumption DEF K
<1> HIDE DEF q, L
<1>4. K * q < K * L BY <1>1, <1>2, <1>3
<1>5. q < L
  <2> SUFFICES ASSUME L <= q PROVE FALSE BY <1>2, <1>3
  <2>1. PICK d \in Nat : q = L + d
    <3>1. q - L \in Nat /\ q = L + (q - L) BY <1>2, <1>3
    <3> QED BY <3>1
  <2>2. K * q = K * L + K * d BY <2>1, <1>1, <1>3
  <2>3. K * d \in Nat BY <2>1, <1>1
  <2>4. K * L \in Nat BY <1>1, <1>3
  <2> QED BY <2>2, <2>3, <2>4, <1>4
<1>6. q \in 0..(L - 1) BY <1>2, <1>3, <1>5
<1> QED BY <1>6 DEF q, L, Lines, K

\* SetBit for a set of frames changes the bits of those frames and no other.
LEMMA SetBitsBits ==
  ASSUME NEW map \in [Lines -> SUBSET Bits], NEW frames \in SUBSET Nat, NEW allocated \in BOOLEAN
  PROVE  /\ SetBits(map, frames, allocated) \in [Lines -> SUBSET Bits]
         /\ \A f \in 0..(kFrameCount - 1) :
              GetBit(SetBits(map, frames, allocated), f) <=>
                IF allocated THEN GetBit(map, f) \/ f \in frames
                ELSE GetBit(map, f) /\ f \notin frames
<1> DEFINE bits(line) == {f % K : f \in {g \in frames : g \div K = line}}
           r == [line \in Lines |-> IF allocated THEN map[line] \cup bits(line) ELSE map[line] \ bits(line)]
<1>1. SetBits(map, frames, allocated) = r BY DEF SetBits, K
<1>2. ASSUME NEW line \in Lines PROVE bits(line) \subseteq Bits
  BY DivMod DEF Bits, K
<1>3. r \in [Lines -> SUBSET Bits] BY <1>2
<1>4. ASSUME NEW f \in 0..(kFrameCount - 1)
      PROVE  GetBit(r, f) <=> IF allocated THEN GetBit(map, f) \/ f \in frames
                              ELSE GetBit(map, f) /\ f \notin frames
  <2>1. f \in Nat /\ f \div K \in Lines BY LineOfFrame, MemoryAssumption
  <2>2. f % K \in bits(f \div K) <=> f \in frames
    <3>1. ASSUME f % K \in bits(f \div K) PROVE f \in frames
      <4>1. PICK g \in frames : g \div K = f \div K /\ f % K = g % K BY <3>1
      <4>2. g \in Nat OBVIOUS
      <4>3. g = f BY <4>1, <4>2, <2>1, SameLineSameBit
      <4> QED BY <4>3
    <3>2. ASSUME f \in frames PROVE f % K \in bits(f \div K) BY <3>2
    <3> QED BY <3>1, <3>2
  <2>3. GetBit(r, f) <=> f % K \in r[f \div K] BY DEF GetBit, K
  <2>4. GetBit(map, f) <=> f % K \in map[f \div K] BY DEF GetBit, K
  <2> HIDE DEF bits
  <2>5. r[f \div K] = IF allocated THEN map[f \div K] \cup bits(f \div K) ELSE map[f \div K] \ bits(f \div K)
    BY <2>1
  <2> QED BY <2>2, <2>3, <2>4, <2>5
<1> QED BY <1>1, <1>3, <1>4

-----------------------------------------------------------------------------
(* The inductive invariant *)

\* The boot loop: a frame below available_end is marked, or an available
\* descriptor that has been read has it.
ReadAvailable(f) ==
  \E k \in 1..(iter - 1) : memory_map[k].available /\ f \in DescFrames(memory_map[k])
BootLoop ==
  mode = "init" => \A f \in 0..(available_end - 1) : GetBit(alloc_map_, f) \/ ReadAvailable(f)

\* With sorted descriptors it has marked no available frame, and those read
\* end at or below available_end.
End(d) == d.physical_start + d.number_of_pages
BootSorted ==
  mode = "init" /\ SortedMap =>
    /\ \A f \in Available : ~GetBit(alloc_map_, f)
    /\ \A k \in 1..(iter - 1) : memory_map[k].available => End(memory_map[k]) <= available_end

RangeSet == Booted => range_begin_ = 1 /\ range_end_ = available_end

\* Which blocks exist in which phase, and what Allocate was called with.
Phase ==
  /\ mode \in {"init", "halt"} \/ (mode = "alloc" /\ heap) => owned = {} /\ program_break_end = 0
  /\ mode = "ready" \/ (mode = "alloc" /\ ~heap) => program_break_end # 0
  /\ mode = "alloc" => /\ start_frame_id >= 1
                     /\ num_frames \in IF heap THEN {kHeapFrames} ELSE Requests
  /\ mode = "init" => iter \in 1..(Len(memory_map) + 1)
  /\ Booted => iter = Len(memory_map) + 1

BitmapIInv ==
  /\ memory_map \in MemoryMaps /\ BitmapTypeOK /\ BitmapInBounds
  /\ BootLoop /\ BootSorted /\ RangeSet /\ Phase
  /\ OnlyAvailableIsFree /\ BlocksDisjoint /\ NothingLost
  /\ SearchInvariant /\ BreakInsideHeap

\* The bitmap has a bit for every frame the memory map describes.
MapFitsBitmap == PhysicalFrames <= kFrameCount

LEMMA Numbers ==
  /\ kHeapFrames \in Nat /\ kHeapFrames > 0 /\ kBytesPerFrame \in Nat /\ kBytesPerFrame > 0
  /\ kFrameCount \in Nat /\ PhysicalFrames \in Nat
  /\ Requests \subseteq Nat /\ \A n \in Requests : n > 0
  /\ kHeapFrames * kBytesPerFrame \in Nat /\ kHeapFrames * kBytesPerFrame > 0
BY MemoryAssumption

\* Descriptors are where the memory map says, and do not overlap.
LEMMA MapFacts ==
  ASSUME memory_map \in MemoryMaps
  PROVE  /\ Len(memory_map) \in Nat
         /\ \A k \in 1..Len(memory_map) :
              /\ memory_map[k] \in Descriptor
              /\ memory_map[k].physical_start \in Nat /\ memory_map[k].number_of_pages \in Nat
              /\ memory_map[k].number_of_pages >= 1 /\ memory_map[k].available \in BOOLEAN
              /\ End(memory_map[k]) \in Nat /\ End(memory_map[k]) <= PhysicalFrames
              /\ DescFrames(memory_map[k]) = memory_map[k].physical_start..(End(memory_map[k]) - 1)
         /\ \A j, k \in 1..Len(memory_map) :
              j # k => DescFrames(memory_map[j]) \cap DescFrames(memory_map[k]) = {}
<1>1. MemoryMap(memory_map) BY DEF MemoryMaps
<1>2. PICK n \in 0..MaxDescriptors : memory_map \in [1..n -> Descriptor] BY DEF MemoryMaps
<1>3. n \in Nat BY <1>2, MemoryAssumption
<1>4. memory_map \in Seq(Descriptor) BY <1>2, <1>3, SeqDef
<1>5. Len(memory_map) \in Nat /\ \A k \in 1..Len(memory_map) : memory_map[k] \in Descriptor
  BY <1>4, LenProperties, ElementOfSeq
<1>6. ASSUME NEW k \in 1..Len(memory_map)
      PROVE  /\ memory_map[k].physical_start \in Nat /\ memory_map[k].number_of_pages \in Nat
             /\ memory_map[k].number_of_pages >= 1 /\ memory_map[k].available \in BOOLEAN
             /\ End(memory_map[k]) \in Nat /\ End(memory_map[k]) <= PhysicalFrames
             /\ DescFrames(memory_map[k]) = memory_map[k].physical_start..(End(memory_map[k]) - 1)
  <2> DEFINE d == memory_map[k]
  <2>1. d \in Descriptor BY <1>5
  <2>2. /\ d.physical_start \in Nat /\ d.number_of_pages \in Nat
        /\ d.number_of_pages >= 1 /\ d.available \in BOOLEAN
    BY <2>1, Numbers DEF Descriptor
  <2>3. DescFrames(d) \subseteq 0..(PhysicalFrames - 1) BY <1>1 DEF MemoryMap
  <2> HIDE DEF d
  <2>4. DescFrames(d) = d.physical_start..(End(d) - 1) /\ End(d) \in Nat
    BY <2>2, SMTT(30) DEF DescFrames, BlockFrames, End
  <2>5. End(d) - 1 \in DescFrames(d) BY <2>2, <2>4 DEF End
  <2>6. End(d) <= PhysicalFrames BY <2>3, <2>4, <2>5, Numbers
  <2> QED BY <2>2, <2>4, <2>6 DEF d
<1> QED BY <1>1, <1>5, <1>6 DEF MemoryMap

LEMMA AvailableBounds ==
  ASSUME memory_map \in MemoryMaps
  PROVE  \A f \in Available :
           /\ f \in 0..(PhysicalFrames - 1)
           /\ \E k \in 1..Len(memory_map) : memory_map[k].available /\ f \in DescFrames(memory_map[k])
<1> SUFFICES ASSUME NEW f \in Available
             PROVE  /\ f \in 0..(PhysicalFrames - 1)
                    /\ \E k \in 1..Len(memory_map) : memory_map[k].available /\ f \in DescFrames(memory_map[k])
  OBVIOUS
<1>1. PICK k \in 1..Len(memory_map) : memory_map[k].available /\ f \in DescFrames(memory_map[k])
  BY DEF Available
<1>2. f \in memory_map[k].physical_start..(End(memory_map[k]) - 1) BY <1>1, MapFacts
<1>3. /\ memory_map[k].physical_start \in Nat
      /\ End(memory_map[k]) \in Nat /\ End(memory_map[k]) <= PhysicalFrames
  BY MapFacts
<1>4. f \in 0..(PhysicalFrames - 1) BY <1>2, <1>3, Numbers, SMTT(30)
<1> QED BY <1>1, <1>4

LEMMA InitBitmapIInv == MapFitsBitmap /\ BitmapInit => BitmapIInv
<1> SUFFICES ASSUME MapFitsBitmap, BitmapInit PROVE BitmapIInv
  OBVIOUS
<1>1. memory_map \in MemoryMaps BY DEF BitmapInit
<1>2. 1 \in 1..(Len(memory_map) + 1) BY <1>1, MapFacts
<1>3. BitmapTypeOK
  <2>1. alloc_map_ \in [Lines -> SUBSET Bits] BY DEF BitmapInit
  <2>2. 0 \in 0..PhysicalFrames /\ kFrameCount \in Nat BY Numbers
  <2>3. range_begin_ \in 0..1 /\ range_end_ \in Nat /\ iter \in 1..(Len(memory_map) + 1)
    BY <1>2, <2>2 DEF BitmapInit
  <2>4. i \in 0..num_frames BY DEF BitmapInit
  <2> QED BY <2>1, <2>2, <2>3, <2>4 DEF BitmapInit, BitmapTypeOK
<1>4. OwnedFrames = {} /\ HeapFrames = {} BY DEF BitmapInit, OwnedFrames, HeapFrames
<1>5. BootLoop BY DEF BitmapInit, BootLoop
<1>6. BootSorted
  <2>1. ASSUME NEW f \in Available PROVE ~GetBit(alloc_map_, f)
    <3>1. f \in 0..(kFrameCount - 1) BY <1>1, AvailableBounds, Numbers DEF MapFitsBitmap
    <3>2. f \div kBitsPerMapLine \in Lines BY <3>1, LineOfFrame DEF K
    <3> QED BY <3>2 DEF BitmapInit, GetBit
  <2>2. 1..(iter - 1) = {} BY DEF BitmapInit
  <2> QED BY <2>1, <2>2 DEF BootSorted
<1>7. ~Booted BY DEF BitmapInit, Booted
<1>8. BitmapInBounds /\ BreakInsideHeap /\ SearchInvariant
  BY DEF BitmapInit, BitmapInBounds, BreakInsideHeap, SearchInvariant
<1>9. BlocksDisjoint BY <1>4 DEF BitmapInit, BlocksDisjoint
<1>10. Phase BY <1>2, <1>7 DEF BitmapInit, Phase
<1> QED BY <1>1, <1>3, <1>5, <1>6, <1>7, <1>8, <1>9, <1>10
        DEF BitmapIInv, RangeSet, OnlyAvailableIsFree, NothingLost

-----------------------------------------------------------------------------
(* The boot loop *)

\* The frames one iteration marks, and what they have to do with the others.
LEMMA MarkedFrames ==
  ASSUME MapFitsBitmap, BitmapIInv, mode = "init", iter <= Len(memory_map)
  PROVE  LET d == memory_map[iter]
         IN  /\ iter \in 1..Len(memory_map) /\ End(d) \in 0..PhysicalFrames
             /\ MarkedFor(d) \subseteq 0..(kFrameCount - 1)
             /\ \A f \in 0..(End(d) - 1) :
                  f < available_end \/ f \in MarkedFor(d) \/ f \in DescFrames(d)
             /\ SortedMap => \A f \in Available : f \notin MarkedFor(d)
<1> DEFINE d == memory_map[iter]
           s == d.physical_start
<1>1. iter \in 1..Len(memory_map) /\ available_end \in Nat /\ available_end <= PhysicalFrames
  <2>1. Len(memory_map) \in Nat /\ iter \in 1..(Len(memory_map) + 1) /\ available_end \in 0..PhysicalFrames
    BY MapFacts DEF BitmapIInv, BitmapTypeOK
  <2> QED BY <2>1, Numbers
<1>2. /\ s \in Nat /\ End(d) \in Nat /\ End(d) <= PhysicalFrames /\ s < End(d)
      /\ DescFrames(d) = s..(End(d) - 1) /\ d.available \in BOOLEAN
  BY <1>1, MapFacts DEF BitmapIInv, End
<1> HIDE DEF s
<1>3. GapBefore(d) = IF available_end < s THEN available_end..(s - 1) ELSE {}
  <2>1. available_end + (s - available_end) - 1 = s - 1 BY <1>1, <1>2
  <2> QED BY <2>1 DEF GapBefore, BlockFrames, s
<1>4. GapBefore(d) \subseteq 0..(kFrameCount - 1) /\ DescFrames(d) \subseteq 0..(kFrameCount - 1)
  BY <1>1, <1>2, <1>3, Numbers DEF MapFitsBitmap
<1>5. MarkedFor(d) \subseteq 0..(kFrameCount - 1) BY <1>4 DEF MarkedFor
<1>6. ASSUME NEW f \in 0..(End(d) - 1)
      PROVE  f < available_end \/ f \in MarkedFor(d) \/ f \in DescFrames(d)
  <2>1. CASE f < available_end BY <2>1
  <2>2. CASE available_end <= f /\ f < s
    <3>1. f \in GapBefore(d) BY <2>2, <1>1, <1>2, <1>3
    <3> QED BY <3>1 DEF MarkedFor
  <2>3. CASE s <= f BY <2>3, <1>2
  <2> QED BY <2>1, <2>2, <2>3, <1>1, <1>2
<1>7. ASSUME SortedMap, NEW f \in Available PROVE f \notin MarkedFor(d)
  <2>1. memory_map \in MemoryMaps BY DEF BitmapIInv
  <2>2. PICK k \in 1..Len(memory_map) : memory_map[k].available /\ f \in DescFrames(memory_map[k])
    BY <2>1, AvailableBounds
  <2>3. /\ memory_map[k].physical_start \in Nat /\ End(memory_map[k]) \in Nat
        /\ f \in memory_map[k].physical_start..(End(memory_map[k]) - 1)
    BY <2>1, <2>2, MapFacts
  <2>4. ~d.available => f \notin DescFrames(d)
    BY <2>1, <2>2, <1>1, MapFacts
  <2>5. f \notin GapBefore(d)
    <3>1. CASE k < iter
      <4>1. k \in 1..(iter - 1) BY <3>1, <1>1
      <4>2. End(memory_map[k]) <= available_end BY <4>1, <2>2, <1>7 DEF BitmapIInv, BootSorted
      <4> QED BY <4>2, <2>3, <1>1, <1>2, <1>3
    <3>2. CASE k = iter BY <3>2, <2>3, <1>1, <1>2, <1>3 DEF s
    <3>3. CASE iter < k
      <4>1. s < memory_map[k].physical_start BY <3>3, <1>1, <1>7 DEF SortedMap, s
      <4> QED BY <4>1, <2>3, <1>1, <1>2, <1>3
    <3> QED BY <3>1, <3>2, <3>3, <1>1
  <2> QED BY <2>4, <2>5 DEF MarkedFor
<1> QED BY <1>1, <1>2, <1>5, <1>6, <1>7

LEMMA InitDescriptorPreserves ==
  ASSUME MapFitsBitmap, BitmapIInv, InitDescriptor
  PROVE  BitmapIInv'
<1> DEFINE d == memory_map[iter]
<1>1. /\ mode = "init" /\ iter <= Len(memory_map) /\ iter' = iter + 1
      /\ alloc_map_' = SetBits(alloc_map_, MarkedFor(d), TRUE)
      /\ out_of_bounds' = (out_of_bounds \/ ~InBounds(MarkedFor(d)))
      /\ available_end' = IF d.available THEN End(d) ELSE available_end
      /\ UNCHANGED <<range_begin_, range_end_, memory_map, mode, num_frames, start_frame_id, i, heap,
                     owned, program_break, program_break_end>>
  BY DEF InitDescriptor, rangeVars, allocVars, breakVars, End
<1>2. /\ iter \in 1..Len(memory_map) /\ End(d) \in 0..PhysicalFrames
      /\ MarkedFor(d) \subseteq 0..(kFrameCount - 1)
      /\ \A f \in 0..(End(d) - 1) : f < available_end \/ f \in MarkedFor(d) \/ f \in DescFrames(d)
      /\ SortedMap => \A f \in Available : f \notin MarkedFor(d)
  BY <1>1, MarkedFrames
<1>3. memory_map \in MemoryMaps /\ Len(memory_map) \in Nat /\ available_end \in 0..PhysicalFrames
  BY MapFacts DEF BitmapIInv, BitmapTypeOK
<1>4. /\ alloc_map_' \in [Lines -> SUBSET Bits]
      /\ \A f \in 0..(kFrameCount - 1) :
           GetBit(alloc_map_', f) <=> GetBit(alloc_map_, f) \/ f \in MarkedFor(d)
  <2>1. MarkedFor(d) \in SUBSET Nat BY <1>2, Numbers
  <2>2. alloc_map_ \in [Lines -> SUBSET Bits] BY DEF BitmapIInv, BitmapTypeOK
  <2> QED BY <2>1, <2>2, <1>1, SetBitsBits, ZenonT(40)
<1>5. out_of_bounds' = FALSE
  <2>1. InBounds(MarkedFor(d)) BY <1>2, Numbers DEF InBounds
  <2> QED BY <2>1, <1>1 DEF BitmapIInv, BitmapInBounds
<1>6. available_end' \in 0..PhysicalFrames BY <1>1, <1>2, <1>3
<1>7. iter' \in 1..(Len(memory_map) + 1) BY <1>1, <1>2, <1>3
<1>8. BitmapTypeOK' BY <1>1, <1>4, <1>5, <1>6, <1>7 DEF BitmapIInv, BitmapTypeOK
<1> HIDE DEF d
<1>9. \A k : k \in 1..(iter' - 1) <=> k \in 1..(iter - 1) \/ k = iter BY <1>1, <1>2, <1>3
<1>10. BootLoop'
  <2> SUFFICES ASSUME NEW f, f \in 0..(available_end' - 1)
               PROVE  GetBit(alloc_map_', f) \/ ReadAvailable(f)'
    BY DEF BootLoop
  <2>1. f \in 0..(kFrameCount - 1)
    <3>1. available_end' \in Nat /\ available_end' <= kFrameCount /\ kFrameCount \in Nat
      BY <1>6, Numbers DEF MapFitsBitmap
    <3>2. PICK e \in Nat : e = available_end' BY <3>1
    <3>3. f \in 0..(e - 1) BY <3>2
    <3>4. e <= kFrameCount /\ kFrameCount \in Nat BY <3>1, <3>2
    <3> QED BY <3>3, <3>4
  <2>2. ReadAvailable(f) => ReadAvailable(f)' BY <1>1, <1>9 DEF ReadAvailable
  <2>3. d.available /\ f \in DescFrames(d) => ReadAvailable(f)'
    BY <1>1, <1>9 DEF ReadAvailable, d
  <2>4. CASE f < available_end
    <3>1. f \in 0..(available_end - 1) BY <2>1, <2>4, <1>3, Numbers
    <3> QED BY <3>1, <2>1, <2>2, <1>1, <1>4 DEF BitmapIInv, BootLoop
  <2>5. CASE ~(f < available_end)
    <3>1. d.available BY <2>5, <1>1, <1>3, Numbers
    <3>2. f \in MarkedFor(d) \/ f \in DescFrames(d) BY <3>1, <2>5, <1>1, <1>2
    <3> QED BY <3>1, <3>2, <2>1, <2>3, <1>4
  <2> QED BY <2>4, <2>5
<1>11. Available' = Available /\ SortedMap' = SortedMap BY <1>1 DEF Available, SortedMap
<1>12. BootSorted'
  <2> SUFFICES ASSUME SortedMap
               PROVE  /\ \A f \in Available : ~GetBit(alloc_map_', f)
                      /\ \A k \in 1..(iter' - 1) : memory_map[k].available => End(memory_map[k]) <= available_end'
    BY <1>1, <1>11 DEF BootSorted
  <2>1. ASSUME NEW f \in Available PROVE ~GetBit(alloc_map_', f)
    <3>1. f \in 0..(kFrameCount - 1) BY <1>3, AvailableBounds, Numbers DEF MapFitsBitmap
    <3> QED BY <3>1, <1>1, <1>2, <1>4 DEF BitmapIInv, BootSorted
  <2>2. ASSUME NEW k \in 1..(iter' - 1), memory_map[k].available PROVE End(memory_map[k]) <= available_end'
    <3>1. CASE k = iter
      <4>1. available_end' = End(memory_map[k]) BY <3>1, <2>2, <1>1 DEF d
      <4>2. End(memory_map[k]) \in Nat BY <3>1, <1>2, <1>3, MapFacts
      <4> QED BY <4>1, <4>2
    <3>2. CASE k \in 1..(iter - 1)
      <4>1. End(memory_map[k]) <= available_end BY <3>2, <2>2, <1>1 DEF BitmapIInv, BootSorted
      <4>2. CASE ~d.available BY <4>1, <4>2, <1>1
      <4>3. CASE d.available
        <5>1. k \in 1..Len(memory_map) /\ k < iter /\ k # iter BY <3>2, <1>2, <1>3
        <5>2. /\ memory_map[k].physical_start \in Nat /\ End(memory_map[k]) \in Nat
              /\ d.physical_start \in Nat /\ End(d) \in Nat /\ d.physical_start < End(d)
              /\ DescFrames(memory_map[k]) = memory_map[k].physical_start..(End(memory_map[k]) - 1)
              /\ DescFrames(d) = d.physical_start..(End(d) - 1)
              /\ DescFrames(memory_map[k]) \cap DescFrames(d) = {}
          <6>1. \A j \in 1..Len(memory_map) : memory_map[j].physical_start < End(memory_map[j])
            BY <1>3, MapFacts DEF End
          <6> QED BY <6>1, <5>1, <1>2, <1>3, MapFacts DEF d
        <5>3. memory_map[k].physical_start < d.physical_start BY <5>1, <1>2 DEF SortedMap, d
        <5>4. d.physical_start \in DescFrames(d) BY <5>2
        <5>5. d.physical_start \notin DescFrames(memory_map[k]) BY <5>2, <5>4
        <5>6. End(memory_map[k]) <= d.physical_start BY <5>2, <5>3, <5>5
        <5> QED BY <5>2, <5>6, <4>3, <1>1
      <4> QED BY <4>2, <4>3
    <3> QED BY <3>1, <3>2, <2>2, <1>9
  <2> QED BY <2>1, <2>2
<1>13. ~Booted' BY <1>1 DEF Booted
<1>14. Phase' BY <1>1, <1>7, <1>13 DEF BitmapIInv, Phase
<1>15. OwnedFrames' = {} /\ HeapFrames' = {} /\ owned' = {}
  BY <1>1 DEF BitmapIInv, Phase, OwnedFrames, HeapFrames
<1>16. BlocksDisjoint' BY <1>15 DEF BlocksDisjoint
<1>17. SearchInvariant' /\ BreakInsideHeap' BY <1>1 DEF BitmapIInv, SearchInvariant, BreakInsideHeap
<1> QED BY <1>1, <1>3, <1>5, <1>8, <1>10, <1>12, <1>13, <1>14, <1>16, <1>17
        DEF BitmapIInv, BitmapInBounds, RangeSet, OnlyAvailableIsFree, NothingLost

\* SetMemoryRange after the loop: from here on the range is that of the
\* frames the loop has decided about.
LEMMA InitRangePreserves ==
  ASSUME MapFitsBitmap, BitmapIInv, InitRange
  PROVE  BitmapIInv'
<1>1. /\ mode = "init" /\ iter > Len(memory_map) /\ range_begin_' = 1 /\ range_end_' = available_end
      /\ mode' = "alloc" /\ num_frames' = kHeapFrames /\ start_frame_id' = 1 /\ i' = 0 /\ heap' = TRUE
      /\ UNCHANGED <<alloc_map_, memory_map, iter, available_end, owned, program_break,
                     program_break_end, out_of_bounds>>
  BY DEF InitRange, CallAllocate, mapVars, breakVars
<1>2. /\ memory_map \in MemoryMaps /\ Len(memory_map) \in Nat /\ available_end \in 0..PhysicalFrames
      /\ iter \in 1..(Len(memory_map) + 1)
  BY MapFacts DEF BitmapIInv, BitmapTypeOK
<1>3. iter = Len(memory_map) + 1 BY <1>1, <1>2
<1>4. BitmapTypeOK'
  <2>1. range_begin_' \in 0..1 /\ range_end_' \in Nat BY <1>1, <1>2, Numbers
  <2>2. i' \in 0..num_frames' /\ num_frames' \in Nat /\ start_frame_id' \in Nat BY <1>1, Numbers
  <2> QED BY <2>1, <2>2, <1>1 DEF BitmapIInv, BitmapTypeOK
<1>5. Available' = Available /\ SortedMap' = SortedMap BY <1>1 DEF Available, SortedMap
<1>6. ManagedFrames' = 1..(available_end - 1) BY <1>1 DEF ManagedFrames
<1>7. OnlyAvailableIsFree'
  <2> SUFFICES ASSUME NEW f \in FreeFrames' PROVE f \in Available
    BY <1>5 DEF OnlyAvailableIsFree
  <2>1. f \in 1..(available_end - 1) /\ ~GetBit(alloc_map_, f) BY <1>1, <1>6 DEF FreeFrames
  <2>2. f \in 0..(available_end - 1) BY <2>1, <1>2, Numbers
  <2>3. ReadAvailable(f) BY <2>1, <2>2, <1>1 DEF BitmapIInv, BootLoop
  <2>4. PICK k \in 1..(iter - 1) : memory_map[k].available /\ f \in DescFrames(memory_map[k])
    BY <2>3 DEF ReadAvailable
  <2>5. k \in 1..Len(memory_map) BY <1>2, <1>3
  <2> QED BY <2>4, <2>5 DEF Available
<1>8. NothingLost'
  <2> SUFFICES ASSUME SortedMap, NEW f \in Available, f # 0 PROVE f \in FreeFrames'
    BY <1>5 DEF NothingLost
  <2>1. PICK k \in 1..Len(memory_map) : memory_map[k].available /\ f \in DescFrames(memory_map[k])
    BY <1>2, AvailableBounds
  <2>2. End(memory_map[k]) <= available_end
    <3>1. k \in 1..(iter - 1) BY <1>2, <1>3
    <3> QED BY <3>1, <2>1, <1>1 DEF BitmapIInv, BootSorted
  <2>3. /\ f \in memory_map[k].physical_start..(End(memory_map[k]) - 1)
        /\ memory_map[k].physical_start \in Nat /\ End(memory_map[k]) \in Nat
    BY <2>1, <1>2, MapFacts
  <2>4. f \in ManagedFrames' BY <2>2, <2>3, <1>2, <1>6, Numbers
  <2>5. ~GetBit(alloc_map_, f) BY <1>1 DEF BitmapIInv, BootSorted
  <2> QED BY <2>4, <2>5, <1>1 DEF FreeFrames
<1>9. SearchInvariant'
  <2>1. \A f \in ManagedFrames' : ~(f < 1) BY <1>6, <1>2, Numbers
  <2>2. BlockFrames(1, 0) = {} BY DEF BlockFrames
  <2> QED BY <2>1, <2>2, <1>1 DEF SearchInvariant
<1>10. OwnedFrames' = {} /\ HeapFrames' = {} /\ owned' = {}
  BY <1>1 DEF BitmapIInv, Phase, OwnedFrames, HeapFrames
<1>11. BlocksDisjoint' BY <1>10 DEF BlocksDisjoint
<1>12. Phase'
  <2>1. start_frame_id' >= 1 BY <1>1
  <2> QED BY <2>1, <1>1, <1>3 DEF BitmapIInv, Phase, Booted
<1>13. RangeSet' /\ BootLoop' /\ BootSorted' /\ BreakInsideHeap' /\ BitmapInBounds'
  BY <1>1 DEF BitmapIInv, RangeSet, BootLoop, BootSorted, BreakInsideHeap, BitmapInBounds
<1> QED BY <1>1, <1>2, <1>4, <1>7, <1>8, <1>9, <1>11, <1>12, <1>13 DEF BitmapIInv

-----------------------------------------------------------------------------
(* The search *)

\* After booting, the bits of the managed frames are inside the bitmap.
LEMMA ManagedIs ==
  ASSUME MapFitsBitmap, BitmapIInv, Booted
  PROVE  /\ ManagedFrames = 1..(range_end_ - 1) /\ range_end_ \in Nat /\ range_end_ <= PhysicalFrames
         /\ range_begin_ = 1
         /\ \A f \in ManagedFrames : f \in 0..(kFrameCount - 1) /\ f \in Nat /\ f < range_end_
<1>1. range_begin_ = 1 /\ range_end_ = available_end /\ available_end \in 0..PhysicalFrames
  BY DEF BitmapIInv, RangeSet, BitmapTypeOK
<1>2. range_end_ \in Nat /\ range_end_ <= PhysicalFrames BY <1>1, Numbers
<1>3. ManagedFrames = 1..(range_end_ - 1) BY <1>1 DEF ManagedFrames
<1>4. kFrameCount \in Nat /\ range_end_ <= kFrameCount BY <1>2, Numbers DEF MapFitsBitmap
<1>5. \A f \in ManagedFrames : f \in 0..(kFrameCount - 1) /\ f \in Nat /\ f < range_end_
  BY <1>2, <1>3, <1>4
<1> QED BY <1>1, <1>2, <1>3, <1>5

LEMMA BlockFramesIs ==
  ASSUME NEW s \in Nat, NEW n \in Nat
  PROVE  \A f : f \in BlockFrames(s, n) <=> f \in Nat /\ s <= f /\ f < s + n
BY DEF BlockFrames

\* Steps that leave bits, range and blocks alone keep what is said of them.
LEMMA SameBlocks ==
  ASSUME BitmapIInv, Booted, UNCHANGED <<alloc_map_, range_begin_, range_end_, memory_map, iter,
                                   available_end, owned, program_break_end, out_of_bounds>>
  PROVE  /\ OnlyAvailableIsFree' /\ BlocksDisjoint' /\ NothingLost' /\ BitmapInBounds'
         /\ FreeFrames' = FreeFrames /\ ManagedFrames' = ManagedFrames
         /\ (memory_map \in MemoryMaps)'
<1>1. FreeFrames' = FreeFrames /\ ManagedFrames' = ManagedFrames BY DEF FreeFrames, ManagedFrames
<1>2. /\ Available' = Available /\ OwnedFrames' = OwnedFrames /\ HeapFrames' = HeapFrames
      /\ SortedMap' = SortedMap
  BY DEF Available, OwnedFrames, HeapFrames, SortedMap
<1>3. OnlyAvailableIsFree' BY <1>1, <1>2 DEF BitmapIInv, OnlyAvailableIsFree
<1>4. BlocksDisjoint' BY <1>1, <1>2 DEF BitmapIInv, BlocksDisjoint
<1>5. NothingLost' BY <1>1, <1>2 DEF BitmapIInv, NothingLost
<1> QED BY <1>1, <1>3, <1>4, <1>5 DEF BitmapIInv, BitmapInBounds

LEMMA AllocatePreserves ==
  ASSUME MapFitsBitmap, BitmapIInv, NEW num \in Requests, Allocate(num)
  PROVE  BitmapIInv'
<1>1. /\ mode = "ready" /\ mode' = "alloc" /\ num_frames' = num /\ start_frame_id' = range_begin_
      /\ i' = 0 /\ heap' = FALSE
      /\ UNCHANGED <<alloc_map_, range_begin_, range_end_, memory_map, iter, available_end, owned,
                     program_break, program_break_end, out_of_bounds>>
  BY DEF Allocate, CallAllocate, rangeVars, mapVars, breakVars
<1>2. Booted /\ Booted' BY <1>1 DEF Booted
<1>3. ManagedFrames = 1..(range_end_ - 1) /\ range_begin_ = 1 /\ range_end_ \in Nat BY <1>2, ManagedIs
<1>4. BitmapTypeOK'
  <2>1. num \in Nat BY Numbers
  <2>2. i' \in 0..num_frames' /\ num_frames' \in Nat /\ start_frame_id' \in Nat BY <2>1, <1>1, <1>3
  <2> QED BY <2>2, <1>1 DEF BitmapIInv, BitmapTypeOK
<1>5. SearchInvariant'
  <2>1. ManagedFrames' = ManagedFrames BY <1>1, <1>2, SameBlocks
  <2>2. \A f \in ManagedFrames : ~(f < range_begin_) BY <1>3
  <2>3. BlockFrames(range_begin_, 0) = {} BY <1>3 DEF BlockFrames
  <2> QED BY <2>1, <2>2, <2>3, <1>1 DEF SearchInvariant
<1>6. Phase' BY <1>1, <1>2, <1>3 DEF BitmapIInv, Phase, Booted
<1>7. RangeSet' /\ BootLoop' /\ BootSorted' /\ BreakInsideHeap'
  BY <1>1, <1>2 DEF BitmapIInv, RangeSet, BootLoop, BootSorted, BreakInsideHeap
<1> QED BY <1>1, <1>2, <1>4, <1>5, <1>6, <1>7, SameBlocks DEF BitmapIInv

LEMMA AllocateFailsPreserves ==
  ASSUME MapFitsBitmap, BitmapIInv, AllocateFails
  PROVE  BitmapIInv'
<1>1. /\ mode = "alloc" /\ mode' = IF heap THEN "halt" ELSE "ready"
      /\ UNCHANGED <<alloc_map_, range_begin_, range_end_, memory_map, iter, available_end, owned,
                     program_break, program_break_end, out_of_bounds, num_frames, start_frame_id, i, heap>>
  BY DEF AllocateFails, rangeVars, mapVars, breakVars, allocVars
<1>2. Booted /\ Booted' BY <1>1 DEF Booted
<1>3. BitmapTypeOK' BY <1>1 DEF BitmapIInv, BitmapTypeOK
<1>4. SearchInvariant' /\ RangeSet' /\ BootLoop' /\ BootSorted' /\ BreakInsideHeap'
  BY <1>1, <1>2 DEF BitmapIInv, SearchInvariant, RangeSet, BootLoop, BootSorted, BreakInsideHeap
<1>5. Phase' BY <1>1, <1>2 DEF BitmapIInv, Phase, Booted
<1> QED BY <1>1, <1>2, <1>3, <1>4, <1>5, SameBlocks DEF BitmapIInv

\* What an iteration of the search knows.
LEMMA SearchFacts ==
  ASSUME MapFitsBitmap, BitmapIInv, mode = "alloc", i < num_frames, Frame < range_end_
  PROVE  /\ start_frame_id \in Nat /\ start_frame_id >= 1 /\ num_frames \in Nat /\ i \in Nat
         /\ Frame = start_frame_id + i /\ Frame \in ManagedFrames /\ InBounds({Frame})
<1>1. Booted BY DEF Booted
<1>2. start_frame_id \in Nat /\ num_frames \in Nat /\ i \in 0..num_frames /\ start_frame_id >= 1
  BY DEF BitmapIInv, BitmapTypeOK, Phase
<1>3. Frame = start_frame_id + i /\ Frame \in Nat /\ Frame >= 1 BY <1>2 DEF Frame
<1>4. Frame \in ManagedFrames BY <1>1, <1>3, ManagedIs
<1>5. InBounds({Frame})
  <2>1. Frame \in 0..(kFrameCount - 1) BY <1>1, <1>4, ManagedIs
  <2> QED BY <2>1, Numbers DEF InBounds
<1> QED BY <1>2, <1>3, <1>4, <1>5

\* A used frame rules out every block that starts at or before it.
LEMMA AllocateSkipsPreserves ==
  ASSUME MapFitsBitmap, BitmapIInv, AllocateSkips
  PROVE  BitmapIInv'
<1>1. /\ mode = "alloc" /\ i < num_frames /\ Frame < range_end_ /\ ReadsUsed(Frame)
      /\ start_frame_id' = Frame + 1 /\ i' = 0
      /\ out_of_bounds' = (out_of_bounds \/ ~InBounds({Frame}))
      /\ UNCHANGED <<alloc_map_, range_begin_, range_end_, memory_map, iter, available_end, owned,
                     program_break, program_break_end, num_frames, heap, mode>>
  BY DEF AllocateSkips, rangeVars, mapVars, breakVars
<1>2. Booted /\ Booted' BY <1>1 DEF Booted
<1>3. /\ start_frame_id \in Nat /\ start_frame_id >= 1 /\ num_frames \in Nat /\ i \in Nat
      /\ Frame = start_frame_id + i /\ Frame \in ManagedFrames /\ InBounds({Frame})
  BY <1>1, SearchFacts
<1>4. out_of_bounds' = out_of_bounds BY <1>1, <1>3 DEF BitmapIInv, BitmapTypeOK
<1>5. FreeFrames' = FreeFrames /\ ManagedFrames' = ManagedFrames BY <1>1, <1>2, <1>4, SameBlocks
<1>6. Frame \notin FreeFrames BY <1>1, <1>3 DEF ReadsUsed, FreeFrames
<1>7. BitmapTypeOK'
  <2>1. i' \in 0..num_frames' /\ start_frame_id' \in Nat BY <1>1, <1>3
  <2> QED BY <2>1, <1>1, <1>4 DEF BitmapIInv, BitmapTypeOK
<1>8. SearchInvariant'
  <2>1. ASSUME NEW f \in ManagedFrames, f < Frame + 1, BlockFrames(f, num_frames) \subseteq FreeFrames
        PROVE  FALSE
    <3>1. f \in Nat BY <1>2, ManagedIs
    <3>2. CASE f < start_frame_id BY <3>2, <2>1, <1>1 DEF BitmapIInv, SearchInvariant
    <3>3. CASE ~(f < start_frame_id)
      <4>1. Frame \in Nat /\ f <= Frame /\ Frame < f + num_frames BY <3>1, <3>3, <2>1, <1>1, <1>3
      <4>2. Frame \in BlockFrames(f, num_frames) BY <4>1, <3>1, <1>3, BlockFramesIs
      <4> QED BY <4>2, <2>1, <1>6
    <3> QED BY <3>2, <3>3
  <2>2. BlockFrames(Frame + 1, 0) = {} BY <1>3 DEF BlockFrames
  <2> QED BY <2>1, <2>2, <1>1, <1>5 DEF SearchInvariant
<1>9. Phase'
  <2>1. start_frame_id' >= 1 BY <1>1, <1>3
  <2> QED BY <2>1, <1>1, <1>2 DEF BitmapIInv, Phase, Booted
<1>10. RangeSet' /\ BootLoop' /\ BootSorted' /\ BreakInsideHeap'
  BY <1>1, <1>2 DEF BitmapIInv, RangeSet, BootLoop, BootSorted, BreakInsideHeap
<1> QED BY <1>1, <1>2, <1>4, <1>7, <1>8, <1>9, <1>10, SameBlocks DEF BitmapIInv

LEMMA AllocateAdvancesPreserves ==
  ASSUME MapFitsBitmap, BitmapIInv, AllocateAdvances
  PROVE  BitmapIInv'
<1>1. /\ mode = "alloc" /\ i < num_frames /\ Frame < range_end_ /\ ReadsFree(Frame) /\ i' = i + 1
      /\ out_of_bounds' = (out_of_bounds \/ ~InBounds({Frame}))
      /\ UNCHANGED <<alloc_map_, range_begin_, range_end_, memory_map, iter, available_end, owned,
                     program_break, program_break_end, num_frames, start_frame_id, heap, mode>>
  BY DEF AllocateAdvances, rangeVars, mapVars, breakVars
<1>2. Booted /\ Booted' BY <1>1 DEF Booted
<1>3. /\ start_frame_id \in Nat /\ start_frame_id >= 1 /\ num_frames \in Nat /\ i \in Nat
      /\ Frame = start_frame_id + i /\ Frame \in ManagedFrames /\ InBounds({Frame})
  BY <1>1, SearchFacts
<1>4. out_of_bounds' = out_of_bounds BY <1>1, <1>3 DEF BitmapIInv, BitmapTypeOK
<1>5. FreeFrames' = FreeFrames /\ ManagedFrames' = ManagedFrames BY <1>1, <1>2, <1>4, SameBlocks
<1>6. Frame \in FreeFrames BY <1>1, <1>3 DEF ReadsFree, FreeFrames
<1>7. BitmapTypeOK'
  <2>1. i + 1 \in 0..num_frames BY <1>1, <1>3
  <2> QED BY <2>1, <1>1, <1>4 DEF BitmapIInv, BitmapTypeOK
<1>8. SearchInvariant'
  <2>1. BlockFrames(start_frame_id, i) \subseteq FreeFrames BY <1>1 DEF BitmapIInv, SearchInvariant
  <2>2. BlockFrames(start_frame_id, i + 1) = BlockFrames(start_frame_id, i) \cup {Frame}
    BY <1>3 DEF BlockFrames
  <2>3. BlockFrames(start_frame_id, i + 1) \subseteq FreeFrames BY <2>1, <2>2, <1>6
  <2> QED BY <2>3, <1>1, <1>5 DEF BitmapIInv, SearchInvariant
<1>9. Phase' BY <1>1, <1>2 DEF BitmapIInv, Phase, Booted
<1>10. RangeSet' /\ BootLoop' /\ BootSorted' /\ BreakInsideHeap'
  BY <1>1, <1>2 DEF BitmapIInv, RangeSet, BootLoop, BootSorted, BreakInsideHeap
<1> QED BY <1>1, <1>2, <1>4, <1>7, <1>8, <1>9, <1>10, SameBlocks DEF BitmapIInv

LEMMA sbrkPreserves ==
  ASSUME MapFitsBitmap, BitmapIInv, NEW incr \in Increments, sbrk(incr)
  PROVE  BitmapIInv'
<1>1. /\ mode = "ready" /\ program_break + incr < program_break_end
      /\ program_break' = program_break + incr
      /\ UNCHANGED <<alloc_map_, range_begin_, range_end_, memory_map, iter, available_end, owned,
                     program_break_end, out_of_bounds, num_frames, start_frame_id, i, heap, mode>>
  BY DEF sbrk, rangeVars, mapVars, allocVars
<1>2. Booted /\ Booted' BY <1>1 DEF Booted
<1>3. PICK bytes \in Nat : bytes = kHeapFrames * kBytesPerFrame BY Numbers
<1>4. /\ incr \in Int /\ program_break \in Nat /\ program_break_end \in Nat
      /\ program_break_end - bytes <= program_break + incr
  BY <1>3 DEF BitmapIInv, BitmapTypeOK, Increments
<1>5. program_break_end # 0 /\ bytes <= program_break_end
  BY <1>1, <1>3 DEF BitmapIInv, BreakInsideHeap, Phase
<1>6. BitmapTypeOK'
  <2>1. program_break' \in Nat BY <1>1, <1>4, <1>5
  <2> QED BY <2>1, <1>1 DEF BitmapIInv, BitmapTypeOK
<1>7. SearchInvariant' /\ RangeSet' /\ BootLoop' /\ BootSorted' /\ Phase'
  BY <1>1, <1>2 DEF BitmapIInv, SearchInvariant, RangeSet, BootLoop, BootSorted, Phase, Booted
<1>8. BreakInsideHeap'
  <2>1. program_break + incr \in (program_break_end - bytes)..(program_break_end - 1)
    BY <1>1, <1>4
  <2> QED BY <2>1, <1>1, <1>3, <1>5 DEF BreakInsideHeap
<1> QED BY <1>1, <1>2, <1>6, <1>7, <1>8, SameBlocks DEF BitmapIInv

-----------------------------------------------------------------------------
(* Blocks *)

LEMMA DivExact ==
  ASSUME NEW s \in Nat, NEW k \in Nat, NEW b \in Nat, b > 0
  PROVE  (s * b + k * b) \div b = s + k
<1>1. s * b + k * b = (s + k) * b OBVIOUS
<1>2. ((s + k) * b) \div b = s + k OBVIOUS
<1> QED BY <1>1, <1>2

\* The block found is free; it leaves the free frames and becomes the heap or
\* an owned block.
LEMMA BlockFound ==
  ASSUME MapFitsBitmap, BitmapIInv, AllocateSucceeds
  PROVE  LET B == BlockFrames(start_frame_id, num_frames)
         IN  /\ B \subseteq FreeFrames /\ start_frame_id \in B
             /\ start_frame_id \in Nat /\ num_frames \in Nat /\ num_frames > 0
             /\ alloc_map_' \in [Lines -> SUBSET Bits]
             /\ \A f \in 0..(kFrameCount - 1) : GetBit(alloc_map_', f) <=> GetBit(alloc_map_, f) \/ f \in B
             /\ ManagedFrames' = ManagedFrames /\ FreeFrames' = FreeFrames \ B
             /\ heap => HeapFrames' = B /\ HeapFrames = {} /\ owned' = {} /\ owned = {}
             /\ ~heap => HeapFrames' = HeapFrames /\ OwnedFrames' = OwnedFrames \cup B
<1> DEFINE B == BlockFrames(start_frame_id, num_frames)
<1>1. /\ mode = "alloc" /\ i = num_frames
      /\ alloc_map_' = SetBits(alloc_map_, B, TRUE)
      /\ UNCHANGED <<range_begin_, range_end_>>
  BY DEF AllocateSucceeds, MarkAllocated, rangeVars
<1>2. Booted BY <1>1 DEF Booted
<1>3. /\ start_frame_id \in Nat /\ num_frames \in Nat /\ num_frames > 0
      /\ alloc_map_ \in [Lines -> SUBSET Bits] /\ heap \in BOOLEAN
  BY <1>1, Numbers DEF BitmapIInv, BitmapTypeOK, Phase
<1>4. B \subseteq FreeFrames BY <1>1 DEF BitmapIInv, SearchInvariant
<1>5. start_frame_id \in B
  <2>1. start_frame_id < start_frame_id + num_frames BY <1>3
  <2> QED BY <2>1, <1>3, BlockFramesIs
<1>6. B \in SUBSET Nat BY <1>3, BlockFramesIs
<1> HIDE DEF B
<1>7. /\ alloc_map_' \in [Lines -> SUBSET Bits]
      /\ \A f \in 0..(kFrameCount - 1) : GetBit(alloc_map_', f) <=> GetBit(alloc_map_, f) \/ f \in B
  BY <1>1, <1>3, <1>6, SetBitsBits
<1>8. ManagedFrames' = ManagedFrames BY <1>1 DEF ManagedFrames
<1>9. FreeFrames' = FreeFrames \ B
  <2>1. \A f \in ManagedFrames : f \in 0..(kFrameCount - 1) BY <1>2, ManagedIs
  <2> QED BY <2>1, <1>7, <1>8 DEF FreeFrames
<1>10. ASSUME heap PROVE HeapFrames' = B /\ HeapFrames = {} /\ owned' = {} /\ owned = {}
  <2>1. /\ num_frames = kHeapFrames /\ owned = {} /\ program_break_end = 0
    BY <1>1, <1>10 DEF BitmapIInv, Phase
  <2>2. /\ program_break_end' = start_frame_id * kBytesPerFrame + kHeapFrames * kBytesPerFrame
        /\ owned' = owned
    BY <1>10 DEF AllocateSucceeds
  <2>3. program_break_end' \div kBytesPerFrame = start_frame_id + kHeapFrames
    BY <2>2, <1>3, Numbers, DivExact
  <2>4. (start_frame_id + kHeapFrames) - kHeapFrames = start_frame_id BY <1>3, Numbers
  <2>5. program_break_end' # 0
    <3>1. start_frame_id * kBytesPerFrame \in Nat BY <1>3, Numbers
    <3> QED BY <3>1, <2>2, Numbers
  <2>6. HeapFrames' = BlockFrames(start_frame_id, kHeapFrames) BY <2>3, <2>4, <2>5 DEF HeapFrames
  <2> QED BY <2>1, <2>2, <2>6 DEF B, HeapFrames
<1>11. ASSUME ~heap PROVE HeapFrames' = HeapFrames /\ OwnedFrames' = OwnedFrames \cup B
  <2> DEFINE b == [start |-> start_frame_id, num |-> num_frames]
  <2>1. owned' = owned \cup {b} /\ program_break_end' = program_break_end
    BY <1>11 DEF AllocateSucceeds, breakVars
  <2>2. BlockFrames(b.start, b.num) = B BY DEF B
  <2> HIDE DEF b
  <2>3. OwnedFrames' = OwnedFrames \cup B BY <2>1, <2>2 DEF OwnedFrames
  <2> QED BY <2>1, <2>3 DEF HeapFrames
<1> QED BY <1>3, <1>4, <1>5, <1>7, <1>8, <1>9, <1>10, <1>11 DEF B

LEMMA AllocateSucceedsPreserves ==
  ASSUME MapFitsBitmap, BitmapIInv, AllocateSucceeds
  PROVE  BitmapIInv'
<1> DEFINE B == BlockFrames(start_frame_id, num_frames)
           b == [start |-> start_frame_id, num |-> num_frames]
<1>1. /\ mode = "alloc" /\ i = num_frames /\ mode' = "ready"
      /\ UNCHANGED <<range_begin_, range_end_, memory_map, iter, available_end, num_frames,
                     start_frame_id, i, heap, out_of_bounds>>
  BY DEF AllocateSucceeds, rangeVars, mapVars, allocVars
<1>2. Booted /\ Booted' BY <1>1 DEF Booted
<1>3. /\ B \subseteq FreeFrames /\ start_frame_id \in B
      /\ start_frame_id \in Nat /\ num_frames \in Nat /\ num_frames > 0
      /\ alloc_map_' \in [Lines -> SUBSET Bits]
      /\ \A f \in 0..(kFrameCount - 1) : GetBit(alloc_map_', f) <=> GetBit(alloc_map_, f) \/ f \in B
      /\ ManagedFrames' = ManagedFrames /\ FreeFrames' = FreeFrames \ B
      /\ heap => HeapFrames' = B /\ HeapFrames = {} /\ owned' = {} /\ owned = {}
      /\ ~heap => HeapFrames' = HeapFrames /\ OwnedFrames' = OwnedFrames \cup B
  BY BlockFound
<1>4. heap => /\ program_break' = start_frame_id * kBytesPerFrame
              /\ program_break_end' = program_break' + kHeapFrames * kBytesPerFrame
              /\ UNCHANGED owned
  BY DEF AllocateSucceeds
<1>5. ~heap => owned' = owned \cup {b} /\ UNCHANGED <<program_break, program_break_end>>
  BY DEF AllocateSucceeds, breakVars
<1>6. b.start = start_frame_id /\ b.num = num_frames /\ BlockFrames(b.start, b.num) = B OBVIOUS
<1>7. heap \in BOOLEAN BY DEF BitmapIInv, BitmapTypeOK
<1> HIDE DEF B
<1>8. heap => /\ program_break' \in Nat /\ program_break_end' \in Nat /\ program_break_end' # 0
              /\ program_break' = program_break_end' - kHeapFrames * kBytesPerFrame
              /\ program_break' <= program_break_end' - 1
  <2>1. start_frame_id * kBytesPerFrame \in Nat BY <1>3, Numbers
  <2> QED BY <2>1, <1>4, Numbers
<1>9. BitmapTypeOK'
  <2>1. owned' \subseteq [start : Nat, num : Requests]
    <3>1. ~heap => b \in [start : Nat, num : Requests] BY <1>1, <1>3 DEF BitmapIInv, Phase
    <3> QED BY <3>1, <1>4, <1>5, <1>7 DEF BitmapIInv, BitmapTypeOK
  <2>2. program_break' \in Nat /\ program_break_end' \in Nat BY <1>5, <1>7, <1>8 DEF BitmapIInv, BitmapTypeOK
  <2> QED BY <2>1, <2>2, <1>1, <1>3 DEF BitmapIInv, BitmapTypeOK
<1>10. BreakInsideHeap'
  <2>1. CASE heap
    <3>1. PICK e \in Nat, p \in Nat : e = program_break_end' /\ p = program_break' BY <2>1, <1>8
    <3>2. PICK bytes \in Nat : bytes = kHeapFrames * kBytesPerFrame BY Numbers
    <3>3. p = e - bytes /\ p <= e - 1 BY <3>1, <3>2, <2>1, <1>8
    <3>4. bytes <= e /\ p \in (e - bytes)..(e - 1) BY <3>1, <3>2, <3>3
    <3> QED BY <3>1, <3>2, <3>4 DEF BreakInsideHeap
  <2>2. CASE ~heap BY <2>2, <1>5 DEF BitmapIInv, BreakInsideHeap
  <2> QED BY <2>1, <2>2
<1>11. Available' = Available /\ SortedMap' = SortedMap BY <1>1 DEF Available, SortedMap
<1>12. OnlyAvailableIsFree' BY <1>2, <1>3, <1>11 DEF BitmapIInv, OnlyAvailableIsFree
<1>13. \A f \in ManagedFrames : f \in 0..(kFrameCount - 1) BY <1>2, ManagedIs
<1>14. \A f \in B : f \in ManagedFrames' /\ f \in Available' /\ GetBit(alloc_map_', f) /\ ~GetBit(alloc_map_, f)
  BY <1>2, <1>3, <1>11, <1>13 DEF BitmapIInv, OnlyAvailableIsFree, FreeFrames
<1>15. \A f \in OwnedFrames \cup HeapFrames :
         /\ f \in ManagedFrames' /\ f \in Available' /\ GetBit(alloc_map_', f)
         /\ f \notin B
  BY <1>3, <1>11, <1>13, <1>14 DEF BitmapIInv, BlocksDisjoint
<1>16. BlocksDisjoint'
  <2>1. CASE heap
    <3>1. OwnedFrames' = {} BY <2>1, <1>3 DEF OwnedFrames
    <3> QED BY <3>1, <2>1, <1>3, <1>14 DEF BlocksDisjoint
  <2>2. CASE ~heap
    <3>1. HeapFrames' = HeapFrames /\ OwnedFrames' = OwnedFrames \cup B /\ owned' = owned \cup {b}
      BY <2>2, <1>3, <1>5
    <3> HIDE DEF b
    <3>2. \A c \in owned : BlockFrames(c.start, c.num) \subseteq OwnedFrames BY DEF OwnedFrames
    <3>3. \A c \in owned' : BlockFrames(c.start, c.num) \cap HeapFrames' = {}
      BY <3>1, <1>6, <1>15 DEF BitmapIInv, BlocksDisjoint
    <3>4. \A c \in owned : BlockFrames(c.start, c.num) \cap B = {} BY <3>2, <1>15
    <3>5. \A c, e \in owned' : c # e => BlockFrames(c.start, c.num) \cap BlockFrames(e.start, e.num) = {}
      BY <3>1, <3>4, <1>6 DEF BitmapIInv, BlocksDisjoint
    <3>6. \A f \in OwnedFrames' \cup HeapFrames' : f \in ManagedFrames' /\ f \in Available' /\ GetBit(alloc_map_', f)
      BY <3>1, <1>14, <1>15
    <3> QED BY <3>3, <3>5, <3>6 DEF BlocksDisjoint
  <2> QED BY <2>1, <2>2
<1>17. NothingLost'
  <2> SUFFICES ASSUME SortedMap, NEW f \in Available, f # 0
               PROVE  f \in FreeFrames' \cup OwnedFrames' \cup HeapFrames'
    BY <1>11 DEF NothingLost
  <2>1. f \in FreeFrames \cup OwnedFrames \cup HeapFrames BY <1>2 DEF BitmapIInv, NothingLost
  <2>2. CASE heap
    <3>1. OwnedFrames = {} BY <2>2, <1>3 DEF OwnedFrames
    <3> QED BY <3>1, <2>1, <2>2, <1>3
  <2>3. CASE ~heap BY <2>1, <2>3, <1>3
  <2> QED BY <2>2, <2>3
<1>18. Phase' BY <1>1, <1>2, <1>5, <1>7, <1>8 DEF BitmapIInv, Phase, Booted
<1>19. RangeSet' /\ BootLoop' /\ BootSorted' /\ SearchInvariant' /\ BitmapInBounds' /\ (memory_map \in MemoryMaps)'
  BY <1>1, <1>2 DEF BitmapIInv, RangeSet, BootLoop, BootSorted, SearchInvariant, BitmapInBounds
<1> QED BY <1>9, <1>10, <1>12, <1>16, <1>17, <1>18, <1>19 DEF BitmapIInv

\* Free clears the bits of the block and of no other.
LEMMA BlockFreed ==
  ASSUME MapFitsBitmap, BitmapIInv, NEW b \in owned, Free(b)
  PROVE  LET B == BlockFrames(b.start, b.num)
         IN  /\ B \subseteq ManagedFrames /\ B \subseteq Available
             /\ alloc_map_' \in [Lines -> SUBSET Bits]
             /\ \A f \in 0..(kFrameCount - 1) : GetBit(alloc_map_', f) <=> GetBit(alloc_map_, f) /\ f \notin B
             /\ ManagedFrames' = ManagedFrames /\ FreeFrames' = FreeFrames \cup B
             /\ HeapFrames' = HeapFrames /\ B \cap HeapFrames = {}
             /\ \A c \in owned' : c \in owned /\ BlockFrames(c.start, c.num) \cap B = {}
             /\ OwnedFrames' = OwnedFrames \ B
<1> DEFINE B == BlockFrames(b.start, b.num)
<1>1. /\ mode = "ready" /\ alloc_map_' = SetBits(alloc_map_, B, FALSE) /\ owned' = owned \ {b}
      /\ UNCHANGED <<range_begin_, range_end_, program_break_end>>
  BY DEF Free, rangeVars, breakVars
<1>2. Booted BY <1>1 DEF Booted
<1>3. b.start \in Nat /\ b.num \in Nat BY Numbers DEF BitmapIInv, BitmapTypeOK
<1>4. B \in SUBSET Nat BY <1>3, BlockFramesIs
<1>5. B \subseteq OwnedFrames BY DEF OwnedFrames
<1> HIDE DEF B
<1>6. B \subseteq ManagedFrames /\ B \subseteq Available BY <1>5 DEF BitmapIInv, BlocksDisjoint
<1>7. /\ alloc_map_' \in [Lines -> SUBSET Bits]
      /\ \A f \in 0..(kFrameCount - 1) : GetBit(alloc_map_', f) <=> GetBit(alloc_map_, f) /\ f \notin B
  <2>1. alloc_map_ \in [Lines -> SUBSET Bits] BY DEF BitmapIInv, BitmapTypeOK
  <2> QED BY <2>1, <1>1, <1>4, SetBitsBits
<1>8. ManagedFrames' = ManagedFrames /\ HeapFrames' = HeapFrames BY <1>1 DEF ManagedFrames, HeapFrames
<1>9. FreeFrames' = FreeFrames \cup B
  <2>1. \A f \in ManagedFrames : f \in 0..(kFrameCount - 1) BY <1>2, ManagedIs
  <2> QED BY <2>1, <1>6, <1>7, <1>8 DEF FreeFrames
<1>10. B \cap HeapFrames = {} BY DEF BitmapIInv, BlocksDisjoint, B
<1>11. \A c \in owned' : c \in owned /\ BlockFrames(c.start, c.num) \cap B = {}
  BY <1>1 DEF BitmapIInv, BlocksDisjoint, B
<1>12. OwnedFrames' = OwnedFrames \ B BY <1>1, <1>11 DEF OwnedFrames, B
<1> QED BY <1>6, <1>7, <1>8, <1>9, <1>10, <1>11, <1>12 DEF B

LEMMA FreePreserves ==
  ASSUME MapFitsBitmap, BitmapIInv, NEW b \in owned, Free(b)
  PROVE  BitmapIInv'
<1> DEFINE B == BlockFrames(b.start, b.num)
<1>1. /\ mode = "ready" /\ owned' = owned \ {b}
      /\ UNCHANGED <<range_begin_, range_end_, memory_map, iter, available_end, mode, num_frames,
                     start_frame_id, i, heap, program_break, program_break_end, out_of_bounds>>
  BY DEF Free, rangeVars, mapVars, allocVars, breakVars
<1>2. Booted /\ Booted' BY <1>1 DEF Booted
<1>3. /\ B \subseteq ManagedFrames /\ B \subseteq Available
      /\ alloc_map_' \in [Lines -> SUBSET Bits]
      /\ \A f \in 0..(kFrameCount - 1) : GetBit(alloc_map_', f) <=> GetBit(alloc_map_, f) /\ f \notin B
      /\ ManagedFrames' = ManagedFrames /\ FreeFrames' = FreeFrames \cup B
      /\ HeapFrames' = HeapFrames /\ B \cap HeapFrames = {}
      /\ \A c \in owned' : c \in owned /\ BlockFrames(c.start, c.num) \cap B = {}
      /\ OwnedFrames' = OwnedFrames \ B
  BY BlockFreed
<1> HIDE DEF B
<1>4. BitmapTypeOK' BY <1>1, <1>3 DEF BitmapIInv, BitmapTypeOK
<1>5. Available' = Available /\ SortedMap' = SortedMap BY <1>1 DEF Available, SortedMap
<1>6. OnlyAvailableIsFree' BY <1>2, <1>3, <1>5 DEF BitmapIInv, OnlyAvailableIsFree
<1>7. BlocksDisjoint'
  <2>1. \A f \in ManagedFrames : f \in 0..(kFrameCount - 1) BY <1>2, ManagedIs
  <2>2. \A f \in OwnedFrames' \cup HeapFrames' : f \in ManagedFrames' /\ f \in Available' /\ GetBit(alloc_map_', f)
    BY <2>1, <1>3, <1>5 DEF BitmapIInv, BlocksDisjoint
  <2> QED BY <2>2, <1>3 DEF BitmapIInv, BlocksDisjoint
<1>8. NothingLost' BY <1>2, <1>3, <1>5 DEF BitmapIInv, NothingLost
<1>9. Phase' BY <1>1, <1>2 DEF BitmapIInv, Phase, Booted
<1>10. /\ RangeSet' /\ BootLoop' /\ BootSorted' /\ SearchInvariant' /\ BreakInsideHeap' /\ BitmapInBounds'
       /\ (memory_map \in MemoryMaps)'
  BY <1>1, <1>2 DEF BitmapIInv, RangeSet, BootLoop, BootSorted, SearchInvariant, BreakInsideHeap, BitmapInBounds
<1> QED BY <1>4, <1>6, <1>7, <1>8, <1>9, <1>10 DEF BitmapIInv

LEMMA StepBitmapIInv == MapFitsBitmap /\ BitmapIInv /\ [BitmapNext]_bitmapVars => BitmapIInv'
<1> SUFFICES ASSUME MapFitsBitmap, BitmapIInv, [BitmapNext]_bitmapVars PROVE BitmapIInv'
  OBVIOUS
<1>1. CASE InitDescriptor BY <1>1, InitDescriptorPreserves
<1>2. CASE InitRange BY <1>2, InitRangePreserves
<1>3. CASE AllocateFails BY <1>3, AllocateFailsPreserves
<1>4. CASE AllocateSkips BY <1>4, AllocateSkipsPreserves
<1>5. CASE AllocateAdvances BY <1>5, AllocateAdvancesPreserves
<1>6. CASE AllocateSucceeds BY <1>6, AllocateSucceedsPreserves
<1>7. ASSUME NEW num \in Requests, Allocate(num) PROVE BitmapIInv' BY <1>7, AllocatePreserves
<1>8. ASSUME NEW b \in owned, Free(b) PROVE BitmapIInv' BY <1>8, FreePreserves
<1>9. ASSUME NEW incr \in Increments, sbrk(incr) PROVE BitmapIInv' BY <1>9, sbrkPreserves
<1>10. CASE UNCHANGED bitmapVars
  <2>1. UNCHANGED <<alloc_map_, range_begin_, range_end_, memory_map, iter, available_end, mode,
                    num_frames, start_frame_id, i, heap, owned, program_break, program_break_end,
                    out_of_bounds>>
    BY <1>10 DEF bitmapVars, rangeVars, mapVars, allocVars, breakVars
  <2>2. /\ FreeFrames' = FreeFrames /\ ManagedFrames' = ManagedFrames /\ Available' = Available
        /\ OwnedFrames' = OwnedFrames /\ HeapFrames' = HeapFrames /\ SortedMap' = SortedMap
        /\ Booted' = Booted
    BY <2>1 DEF FreeFrames, ManagedFrames, Available, OwnedFrames, HeapFrames, SortedMap, Booted
  <2>3. BitmapTypeOK' /\ BitmapInBounds' /\ RangeSet' /\ Phase' /\ BreakInsideHeap' /\ (memory_map \in MemoryMaps)'
    BY <2>1, <2>2 DEF BitmapIInv, BitmapTypeOK, BitmapInBounds, RangeSet, Phase, BreakInsideHeap
  <2>4. BootLoop' BY <2>1 DEF BitmapIInv, BootLoop, ReadAvailable
  <2>5. BootSorted' BY <2>1, <2>2 DEF BitmapIInv, BootSorted
  <2>6. OnlyAvailableIsFree' /\ BlocksDisjoint' /\ NothingLost' /\ SearchInvariant'
    BY <2>1, <2>2 DEF BitmapIInv, OnlyAvailableIsFree, BlocksDisjoint, NothingLost, SearchInvariant
  <2> QED BY <2>3, <2>4, <2>5, <2>6 DEF BitmapIInv
<1> QED BY <1>1, <1>2, <1>3, <1>4, <1>5, <1>6, <1>7, <1>8, <1>9, <1>10 DEF BitmapNext, Halted

-----------------------------------------------------------------------------
(* The theorems *)

\* At every step of the boot loop and of the search: the bitmap is indexed
\* within its bounds, the search has passed over no block that would have
\* done, and the program break is in the heap.
THEOREM BitmapInvariant ==
  ASSUME MapFitsBitmap
  PROVE  BitmapSpec => []BitmapInv
<1>1. BitmapIInv => BitmapInv BY DEF BitmapIInv, BitmapInv
<1> QED BY <1>1, InitBitmapIInv, StepBitmapIInv, PTL DEF BitmapSpec

\* Only memory the firmware reports as available is ever free, whatever the
\* order of the descriptors and the holes between them.
THEOREM FreeIsAvailable ==
  ASSUME MapFitsBitmap
  PROVE  BitmapSpec => []OnlyAvailableIsFree
<1>1. BitmapIInv => OnlyAvailableIsFree BY DEF BitmapIInv
<1> QED BY <1>1, InitBitmapIInv, StepBitmapIInv, PTL DEF BitmapSpec

\* No frame is in two blocks, or in a block and in the heap, or in a block and
\* free; with sorted descriptors no available frame is in none of them.
THEOREM EveryFrameAccounted ==
  ASSUME MapFitsBitmap
  PROVE  BitmapSpec => []FramesAccounted
<1>1. BitmapIInv => FramesAccounted BY DEF BitmapIInv, FramesAccounted
<1> QED BY <1>1, InitBitmapIInv, StepBitmapIInv, PTL DEF BitmapSpec

\* Allocate reports kNoEnoughMemory only if no run of free frames is long
\* enough.
THEOREM AllocateFailsRightly ==
  ASSUME MapFitsBitmap
  PROVE  BitmapSpec => FailsOnlyWhenFull
<1>1. BitmapIInv /\ [BitmapNext]_bitmapVars =>
        [AllocateFails => \A f \in ManagedFrames : ~(BlockFrames(f, num_frames) \subseteq FreeFrames)]_bitmapVars
  <2> SUFFICES ASSUME BitmapIInv, AllocateFails, NEW f \in ManagedFrames,
                      BlockFrames(f, num_frames) \subseteq FreeFrames
               PROVE  FALSE
    OBVIOUS
  <2>1. mode = "alloc" /\ i < num_frames /\ start_frame_id + i >= range_end_ /\ Booted
    BY DEF AllocateFails, Frame, Booted
  <2>2. ~(f < start_frame_id) BY <2>1 DEF BitmapIInv, SearchInvariant
  <2>3. /\ start_frame_id \in Nat /\ num_frames \in Nat /\ i \in Nat /\ range_end_ \in Nat
        /\ f \in Nat
    BY <2>1, ManagedIs DEF BitmapIInv, BitmapTypeOK
  <2>4. f + num_frames - 1 \in Nat /\ f <= f + num_frames - 1 /\ f + num_frames - 1 < f + num_frames
    BY <2>1, <2>3
  <2>5. f + num_frames - 1 \in ManagedFrames BY <2>3, <2>4, BlockFramesIs DEF FreeFrames
  <2>6. f + num_frames - 1 < range_end_ BY <2>1, <2>5, ManagedIs
  <2> QED BY <2>1, <2>2, <2>3, <2>6
<1> QED BY <1>1, InitBitmapIInv, StepBitmapIInv, PTL DEF BitmapSpec, FailsOnlyWhenFull

\* The boot code, the bitmap and the frame-by-frame search implement a
\* first-fit allocator whose allocations happen in one step: the last
\* iteration of a search is the allocation, every other is invisible.
THEOREM BitmapRefinesFirstFit ==
  ASSUME MapFitsBitmap
  PROVE  BitmapSpec => ImplementsFirstFit
<1> DEFINE freed == IF HeapReady THEN FreeFrames ELSE {}
<1>1. BitmapInit => FA!Init BY DEF BitmapInit, FA!Init, HeapReady
<1>2. BitmapIInv /\ BitmapIInv' /\ [BitmapNext]_bitmapVars => [FA!Next]_(FA!vars)
  <2> SUFFICES ASSUME BitmapIInv, BitmapIInv', [BitmapNext]_bitmapVars PROVE [FA!Next]_(FA!vars)
    OBVIOUS
  <2>1. ASSUME UNCHANGED <<alloc_map_, range_begin_, range_end_, owned, program_break_end>>
        PROVE  UNCHANGED <<HeapReady, freed, owned>>
    BY <2>1 DEF HeapReady, FreeFrames, ManagedFrames
  <2>2. ASSUME owned' = {}, owned = {}, program_break_end = 0, program_break_end' = 0
        PROVE  UNCHANGED <<HeapReady, freed, owned>>
    BY <2>2 DEF HeapReady
  <2>3. CASE InitDescriptor
    BY <2>3, <2>2 DEF InitDescriptor, BitmapIInv, Phase, breakVars, FA!vars
  <2>4. CASE InitRange
    BY <2>4, <2>2 DEF InitRange, CallAllocate, BitmapIInv, Phase, breakVars, FA!vars
  <2>5. CASE AllocateFails \/ AllocateSkips \/ AllocateAdvances
    BY <2>5, <2>1 DEF AllocateFails, AllocateSkips, AllocateAdvances, rangeVars, breakVars, FA!vars
  <2>6. ASSUME NEW num \in Requests, Allocate(num) PROVE UNCHANGED FA!vars
    BY <2>6, <2>1 DEF Allocate, rangeVars, breakVars, FA!vars
  <2>7. ASSUME NEW incr \in Increments, sbrk(incr) PROVE UNCHANGED FA!vars
    BY <2>7, <2>1 DEF sbrk, rangeVars, FA!vars
  <2>8. ASSUME AllocateSucceeds PROVE FA!Next
    <3> DEFINE B == BlockFrames(start_frame_id, num_frames)
    <3>1. /\ B \subseteq FreeFrames /\ start_frame_id \in B
          /\ start_frame_id \in Nat /\ num_frames \in Nat /\ num_frames > 0
          /\ FreeFrames' = FreeFrames \ B
          /\ heap => owned' = {} /\ owned = {}
      BY <2>8, BlockFound
    <3>2. mode = "alloc" /\ mode' = "ready" /\ Booted /\ Booted' BY <2>8 DEF AllocateSucceeds, Booted
    <3>3. HeapReady' = TRUE BY <3>2 DEF BitmapIInv, Phase, HeapReady
    <3>4. FreeFrames \subseteq 0..(PhysicalFrames - 1)
      <4>1. \A f \in ManagedFrames : f \in 0..(PhysicalFrames - 1)
        <5>1. ManagedFrames = 1..(range_end_ - 1) /\ range_end_ \in Nat /\ range_end_ <= PhysicalFrames
          BY <3>2, ManagedIs
        <5>2. PhysicalFrames \in Nat BY Numbers
        <5> QED BY <5>1, <5>2
      <4> QED BY <4>1 DEF FreeFrames
    <3>5. CASE heap
      <4>1. HeapReady = FALSE BY <3>5, <3>2 DEF BitmapIInv, Phase, HeapReady
      <4>2. freed' \in SUBSET (0..(PhysicalFrames - 1)) BY <3>1, <3>3, <3>4
      <4> QED BY <4>1, <4>2, <3>1, <3>3, <3>5 DEF FA!Next, FA!Boot
    <3>6. CASE ~heap
      <4>1. HeapReady = TRUE BY <3>6, <3>2 DEF BitmapIInv, Phase, HeapReady
      <4>2. freed = FreeFrames /\ freed' = FreeFrames \ B BY <4>1, <3>1, <3>3
      <4>3. owned' = owned \cup {[start |-> start_frame_id, num |-> num_frames]} /\ num_frames \in Requests
        BY <3>2, <3>6, <2>8 DEF AllocateSucceeds, BitmapIInv, Phase
      <4>4. \A s, n : FA!BlockFrames(s, n) = BlockFrames(s, n) BY DEF FA!BlockFrames, BlockFrames
      <4>5. start_frame_id \in FA!Fits(num_frames)
        <5>1. start_frame_id \in 0..(PhysicalFrames - 1) BY <3>1, <3>4
        <5> QED BY <5>1, <4>2, <4>4, <3>1 DEF FA!Fits
      <4>6. \A g \in FA!Fits(num_frames) : start_frame_id <= g
        <5> SUFFICES ASSUME NEW g \in FA!Fits(num_frames) PROVE start_frame_id <= g
          OBVIOUS
        <5>1. g \in 0..(PhysicalFrames - 1) /\ BlockFrames(g, num_frames) \subseteq FreeFrames
          BY <4>2, <4>4 DEF FA!Fits
        <5>2. g \in Nat /\ g < g + num_frames BY <5>1, <3>1, Numbers
        <5>3. g \in ManagedFrames BY <5>1, <5>2, <3>1, BlockFramesIs DEF FreeFrames
        <5>4. ~(g < start_frame_id) BY <5>1, <5>3, <3>2 DEF BitmapIInv, SearchInvariant
        <5> QED BY <5>2, <5>4, <3>1
      <4>7. FA!Allocate(num_frames)
        BY <4>1, <4>2, <4>3, <4>4, <4>5, <4>6, <3>3 DEF FA!Allocate
      <4> QED BY <4>3, <4>7 DEF FA!Next
    <3>7. heap \in BOOLEAN BY DEF BitmapIInv, BitmapTypeOK
    <3> QED BY <3>5, <3>6, <3>7
  <2>9. ASSUME NEW b \in owned, Free(b) PROVE FA!Next
    <3>1. FreeFrames' = FreeFrames \cup BlockFrames(b.start, b.num) BY <2>9, BlockFreed
    <3>2. mode = "ready" /\ owned' = owned \ {b} /\ program_break_end' = program_break_end
      BY <2>9 DEF Free, breakVars
    <3>3. HeapReady = TRUE /\ HeapReady' = TRUE BY <3>2 DEF BitmapIInv, Phase, HeapReady
    <3>4. FA!BlockFrames(b.start, b.num) = BlockFrames(b.start, b.num) BY DEF FA!BlockFrames, BlockFrames
    <3>5. FA!Free(b) BY <3>1, <3>2, <3>3, <3>4 DEF FA!Free
    <3> QED BY <3>5 DEF FA!Next
  <2>10. CASE UNCHANGED bitmapVars BY <2>10, <2>1 DEF bitmapVars, rangeVars, breakVars, FA!vars
  <2> QED BY <2>3, <2>4, <2>5, <2>6, <2>7, <2>8, <2>9, <2>10 DEF BitmapNext, Halted
<1> QED BY <1>1, <1>2, InitBitmapIInv, StepBitmapIInv, PTL DEF BitmapSpec, ImplementsFirstFit, FA!Spec
===============================================================================
