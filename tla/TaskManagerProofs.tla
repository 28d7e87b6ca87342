-------------------------- MODULE TaskManagerProofs --------------------------
(***************************************************************************)
(* Proof that every reachable state of TaskManager satisfies SchedulerInv, *)
(* for any number of levels, tasks and messages.  The argument is first    *)
(* about the operations as functions on the state: each preserves          *)
(* SchedulerInv.  From the invariant it follows that the processor only    *)
(* ever moves to a task of the highest level that has one.                 *)
(***************************************************************************)
EXTENDS TaskManager, SequenceTheorems, NaturalsInduction, WellFoundedInduction, TLAPS

\* A non-empty set of levels has a highest member, so the search loop of
\* SwitchTask returns the highest level that has a runnable task.
LEMMA HighestLevelProps ==
  ASSUME NEW Q, NEW d, NEW lv0 \in Levels, Q[lv0] # <<>>
  PROVE  /\ HighestLevel(Q, d) \in Levels
         /\ Q[HighestLevel(Q, d)] # <<>>
         /\ \A k \in Levels : k > HighestLevel(Q, d) => Q[k] = <<>>
<1> DEFINE T == {n \in Nat : n <= kMaxLevel /\ Q[kMaxLevel - n] # <<>>}
           P(lv) == Q[lv] # <<>> /\ \A k \in Levels : k > lv => Q[k] = <<>>
<1>1. T # {}
  <2>1. kMaxLevel - lv0 \in T
    <3>1. kMaxLevel - lv0 \in Nat /\ kMaxLevel - lv0 <= kMaxLevel /\ kMaxLevel - (kMaxLevel - lv0) = lv0
      BY LevelAssumption DEF Levels
    <3> QED BY <3>1
  <2> QED BY <2>1
<1>2. PICK n \in T : \A m \in T : ~ (<<m, n>> \in OpToRel(<, Nat))
  BY <1>1, WFMin, NatLessThanWellFounded
<1>3. \A m \in T : n <= m
  <2> SUFFICES ASSUME NEW m \in T, m < n PROVE FALSE
    OBVIOUS
  <2>1. <<m, n>> \in {ss \in Nat \X Nat : ss[1] < ss[2]} OBVIOUS
  <2>2. <<m, n>> \in OpToRel(<, Nat) BY <2>1 DEF OpToRel
  <2> QED BY <2>2, <1>2
<1>4. kMaxLevel - n \in Levels /\ P(kMaxLevel - n)
  <2>1. kMaxLevel - n \in Levels BY LevelAssumption DEF Levels
  <2>2. ASSUME NEW k \in Levels, k > kMaxLevel - n, Q[k] # <<>> PROVE FALSE
    <3>1. kMaxLevel - k \in Nat /\ kMaxLevel - k <= kMaxLevel /\ kMaxLevel - (kMaxLevel - k) = k
      BY LevelAssumption DEF Levels
    <3>2. kMaxLevel - k \in T BY <3>1, <2>2
    <3>3. kMaxLevel - k < n BY <2>2, LevelAssumption DEF Levels
    <3> QED BY <3>2, <3>3, <1>3, <3>1
  <2> QED BY <2>1, <2>2
<1>5. \E lv \in Levels : P(lv) BY <1>4
<1>6. (CHOOSE lv \in Levels : P(lv)) \in Levels /\ P(CHOOSE lv \in Levels : P(lv))
  BY <1>5
<1>7. HighestLevel(Q, d) = CHOOSE lv \in Levels : P(lv)
  BY DEF HighestLevel
<1> QED BY <1>6, <1>7

\* What the other queue operations do to membership, order and repetition.
LEMMA FrontProps ==
  ASSUME NEW q \in Seq(TaskIds)
  PROVE  /\ q # <<>> => Head(q) \in TaskIds /\ InQueue(q, Head(q))
         /\ \A u : InQueue(q, u) => q # <<>> /\ u \in TaskIds
<1>1. ASSUME q # <<>> PROVE Head(q) \in TaskIds /\ InQueue(q, Head(q))
  <2>1. Head(q) = q[1] /\ 1 \in 1..Len(q) BY <1>1
  <2> QED BY <2>1 DEF InQueue
<1>2. ASSUME NEW u, InQueue(q, u) PROVE q # <<>> /\ u \in TaskIds
  BY <1>2 DEF InQueue
<1> QED BY <1>1, <1>2

LEMMA AppendProps ==
  ASSUME NEW q \in Seq(TaskIds), NEW t \in TaskIds
  PROVE  /\ Append(q, t) \in Seq(TaskIds)
         /\ Append(q, t) # <<>>
         /\ \A u : InQueue(Append(q, t), u) <=> InQueue(q, u) \/ u = t
         /\ NoRepeats(q) /\ ~InQueue(q, t) => NoRepeats(Append(q, t))
         /\ q # <<>> => Head(Append(q, t)) = Head(q)
<1> DEFINE r == Append(q, t)
<1>1. /\ r \in Seq(TaskIds) /\ Len(r) = Len(q) + 1 /\ Len(q) \in Nat
      /\ \A i \in 1..Len(q) : r[i] = q[i]
      /\ r[Len(q) + 1] = t
  BY AppendProperties
<1> HIDE DEF r
<1>2. r # <<>> BY <1>1
<1>3. ASSUME NEW u PROVE InQueue(r, u) <=> InQueue(q, u) \/ u = t
  <2>1. ASSUME InQueue(r, u), u # t PROVE InQueue(q, u)
    <3>1. PICK i \in 1..Len(r) : r[i] = u BY <2>1 DEF InQueue
    <3>2. i \in 1..Len(q) BY <3>1, <2>1, <1>1
    <3> QED BY <3>1, <3>2, <1>1 DEF InQueue
  <2>2. InQueue(q, u) => InQueue(r, u) BY <1>1 DEF InQueue
  <2>3. InQueue(r, t)
    <3>1. Len(q) + 1 \in 1..Len(r) BY <1>1
    <3> QED BY <3>1, <1>1 DEF InQueue
  <2> QED BY <2>1, <2>2, <2>3
<1>4. ASSUME NoRepeats(q), ~InQueue(q, t), NEW i \in 1..Len(r), NEW j \in 1..Len(r), r[i] = r[j]
      PROVE  i = j
  <2>1. \A k \in 1..Len(r) : k \in 1..Len(q) \/ k = Len(q) + 1 BY <1>1
  <2>2. \A k \in 1..Len(q) : r[k] # t BY <1>1, <1>4 DEF InQueue
  <2> QED BY <2>1, <2>2, <1>1, <1>4 DEF NoRepeats
<1>5. q # <<>> => Head(r) = Head(q)
  BY HeadTailAppend DEF r
<1> QED BY <1>1, <1>2, <1>3, <1>4, <1>5 DEF r, NoRepeats

LEMMA TailProps ==
  ASSUME NEW q \in Seq(TaskIds), q # <<>>, NoRepeats(q)
  PROVE  /\ Tail(q) \in Seq(TaskIds)
         /\ \A u : InQueue(Tail(q), u) <=> InQueue(q, u) /\ u # Head(q)
         /\ NoRepeats(Tail(q))
<1> DEFINE r == Tail(q)
<1>1. /\ r \in Seq(TaskIds) /\ Len(r) = Len(q) - 1 /\ Len(q) \in Nat /\ Len(q) >= 1
      /\ \A i \in 1..Len(r) : r[i] = q[i+1]
      /\ Head(q) = q[1]
  BY HeadTailProperties
<1> HIDE DEF r
<1>2. ASSUME NEW u, InQueue(r, u) PROVE InQueue(q, u) /\ u # Head(q)
  <2>1. PICK i \in 1..Len(r) : r[i] = u BY <1>2 DEF InQueue
  <2>2. i + 1 \in 1..Len(q) /\ q[i+1] = u /\ i + 1 # 1 /\ 1 \in 1..Len(q) BY <2>1, <1>1
  <2> QED BY <2>2, <1>1 DEF InQueue, NoRepeats
<1>3. ASSUME NEW u, InQueue(q, u), u # Head(q) PROVE InQueue(r, u)
  <2>1. PICK j \in 1..Len(q) : q[j] = u BY <1>3 DEF InQueue
  <2>2. j # 1 BY <2>1, <1>3, <1>1
  <2>3. j - 1 \in 1..Len(r) /\ (j - 1) + 1 = j BY <2>1, <2>2, <1>1
  <2>4. r[j - 1] = u BY <2>3, <2>1, <1>1
  <2> QED BY <2>3, <2>4 DEF InQueue
<1>4. ASSUME NEW i \in 1..Len(r), NEW j \in 1..Len(r), r[i] = r[j] PROVE i = j
  <2>1. i + 1 \in 1..Len(q) /\ j + 1 \in 1..Len(q) /\ q[i+1] = q[j+1] BY <1>4, <1>1
  <2>2. i + 1 = j + 1 BY <2>1 DEF NoRepeats
  <2> QED BY <2>2, <1>1
<1> QED BY <1>1, <1>2, <1>3, <1>4 DEF r, NoRepeats

LEMMA ConsProps ==
  ASSUME NEW q \in Seq(TaskIds), NEW t \in TaskIds
  PROVE  /\ <<t>> \o q \in Seq(TaskIds)
         /\ <<t>> \o q # <<>> /\ Head(<<t>> \o q) = t
         /\ \A u : InQueue(<<t>> \o q, u) <=> InQueue(q, u) \/ u = t
         /\ NoRepeats(q) /\ ~InQueue(q, t) => NoRepeats(<<t>> \o q)
<1> DEFINE r == <<t>> \o q
<1>0. <<t>> \in Seq(TaskIds) /\ Len(<<t>>) = 1 /\ <<t>>[1] = t OBVIOUS
<1>1. /\ r \in Seq(TaskIds) /\ Len(r) = Len(q) + 1 /\ Len(q) \in Nat
      /\ \A i \in 1..Len(r) : r[i] = IF i <= 1 THEN t ELSE q[i - 1]
  BY <1>0, ConcatProperties
<1> HIDE DEF r
<1>2. r # <<>> /\ Head(r) = r[1] /\ r[1] = t BY <1>1
<1>3. ASSUME NEW u PROVE InQueue(r, u) <=> InQueue(q, u) \/ u = t
  <2>1. ASSUME InQueue(r, u), u # t PROVE InQueue(q, u)
    <3>1. PICK i \in 1..Len(r) : r[i] = u BY <2>1 DEF InQueue
    <3>2. i - 1 \in 1..Len(q) /\ q[i - 1] = u BY <3>1, <2>1, <1>1
    <3> QED BY <3>2 DEF InQueue
  <2>2. ASSUME InQueue(q, u) PROVE InQueue(r, u)
    <3>1. PICK j \in 1..Len(q) : q[j] = u BY <2>2 DEF InQueue
    <3>2. j + 1 \in 1..Len(r) /\ ~(j + 1 <= 1) /\ (j + 1) - 1 = j BY <3>1, <1>1
    <3>3. r[j + 1] = u BY <3>1, <3>2, <1>1
    <3> QED BY <3>2, <3>3 DEF InQueue
  <2>3. InQueue(r, t)
    <3>1. 1 \in 1..Len(r) BY <1>1
    <3> QED BY <3>1, <1>2 DEF InQueue
  <2> QED BY <2>1, <2>2, <2>3
<1>4. ASSUME NoRepeats(q), ~InQueue(q, t), NEW i \in 1..Len(r), NEW j \in 1..Len(r), r[i] = r[j]
      PROVE  i = j
  <2>1. \A k \in 1..Len(r) : k = 1 \/ (k - 1 \in 1..Len(q) /\ r[k] = q[k - 1]) BY <1>1
  <2>2. \A k \in 1..Len(q) : q[k] # t BY <1>4 DEF InQueue
  <2>3. CASE i = 1 BY <2>1, <2>2, <2>3, <1>2, <1>4
  <2>4. CASE j = 1 BY <2>1, <2>2, <2>4, <1>2, <1>4
  <2>5. CASE i # 1 /\ j # 1
    <3>1. i - 1 = j - 1 BY <2>1, <2>5, <1>4 DEF NoRepeats
    <3> QED BY <3>1, <1>1
  <2> QED BY <2>3, <2>4, <2>5
<1> QED BY <1>1, <1>2, <1>3, <1>4 DEF r, NoRepeats

\* Erase takes one task out of a queue that holds it once and keeps the
\* others, in particular the front if that is another task.
LEMMA EraseProps ==
  ASSUME NEW q \in Seq(TaskIds), NEW t \in TaskIds,
         NoRepeats(q)
  PROVE  /\ Erase(q, t) \in Seq(TaskIds)
         /\ \A u : InQueue(Erase(q, t), u) <=> InQueue(q, u) /\ u # t
         /\ NoRepeats(Erase(q, t))
         /\ (q # <<>> /\ Head(q) # t) => (Erase(q, t) # <<>> /\ Head(Erase(q, t)) = Head(q))
<1>1. CASE ~ \E i \in 1..Len(q) : q[i] = t
  BY <1>1 DEF Erase, InQueue, NoRepeats
<1>2. CASE \E i \in 1..Len(q) : q[i] = t
  <2> DEFINE at == CHOOSE i \in 1..Len(q) : q[i] = t
             r  == [i \in 1..(Len(q)-1) |-> IF i < at THEN q[i] ELSE q[i+1]]
  <2>1. at \in 1..Len(q) /\ q[at] = t BY <1>2
  <2>2. Erase(q, t) = r BY <1>2 DEF Erase
  <2> HIDE DEF at
  <2>3. Len(q) \in Nat /\ Len(q) - 1 \in Nat BY <2>1
  <2>4. \A i \in 1..(Len(q)-1) : r[i] \in TaskIds BY <2>1, <2>3
  <2>5. r \in Seq(TaskIds) /\ Len(r) = Len(q) - 1
    BY <2>3, <2>4, IsASeq
  <2>6. \A i \in 1..Len(r) : r[i] = IF i < at THEN q[i] ELSE q[i+1] BY <2>5
  <2> HIDE DEF r
  <2>7. ASSUME NEW i \in 1..Len(r)
        PROVE  r[i] # t /\ \E j \in 1..Len(q) : r[i] = q[j]
    <3>1. CASE i < at BY <3>1, <2>1, <2>3, <2>5, <2>6 DEF NoRepeats
    <3>2. CASE ~(i < at)
      <4>1. i + 1 \in 1..Len(q) /\ i + 1 # at BY <3>2, <2>1, <2>3, <2>5
      <4> QED BY <4>1, <3>2, <2>1, <2>6 DEF NoRepeats
    <3> QED BY <3>1, <3>2
  <2>8. ASSUME NEW j \in 1..Len(q), q[j] # t
        PROVE  \E i \in 1..Len(r) : r[i] = q[j]
    <3>1. CASE j < at
      <4>1. j \in 1..Len(r) BY <3>1, <2>1, <2>3, <2>5
      <4> QED BY <4>1, <3>1, <2>6
    <3>2. CASE ~(j < at)
      <4>1. j - 1 \in 1..Len(r) /\ ~(j - 1 < at) /\ (j - 1) + 1 = j
        BY <3>2, <2>1, <2>3, <2>5, <2>8
      <4> QED BY <4>1, <2>6
    <3> QED BY <3>1, <3>2
  <2>9. ASSUME NEW i \in 1..Len(r), NEW j \in 1..Len(r), r[i] = r[j] PROVE i = j
    <3> DEFINE from(k) == IF k < at THEN k ELSE k + 1
    <3>1. \A k \in 1..Len(r) : from(k) \in 1..Len(q) /\ r[k] = q[from(k)]
      BY <2>1, <2>3, <2>5, <2>6
    <3>2. from(i) = from(j) BY <3>1, <2>9 DEF NoRepeats
    <3> QED BY <3>2, <2>1, <2>5, <2>3
  <2>10. ASSUME q # <<>>, Head(q) # t PROVE r # <<>> /\ Head(r) = Head(q)
    <3>1. 1 < at /\ Len(r) >= 1
      <4>1. Head(q) = q[1] BY <2>10
      <4> QED BY <4>1, <2>1, <2>3, <2>5, <2>10
    <3>2. r # <<>> BY <3>1, <2>5
    <3>3. Head(r) = r[1] BY <3>2, <2>5
    <3> QED BY <3>1, <3>2, <3>3, <2>6, <2>5, <2>10
  <2>11. \A u : InQueue(r, u) <=> InQueue(q, u) /\ u # t BY <2>7, <2>8 DEF InQueue
  <2>12. NoRepeats(r) BY <2>9 DEF NoRepeats
  <2> QED BY <2>2, <2>5, <2>10, <2>11, <2>12
<1> QED BY <1>1, <1>2

-----------------------------------------------------------------------------
(* The part of SchedulerInv that is about the queues alone. *)
QueuesInv(s) ==
  /\ s \in TaskManagerState
  /\ s.latest_id_ >= IdleTask
  /\ QueuedIffRunning(s)
  /\ QueuedOnce(s)
  /\ IdleRuns(s)

\* While the queues are consistent some level, that of the idle task, is not
\* empty.
LEMMA SomeQueueNonEmpty ==
  ASSUME NEW s, QueuesInv(s)
  PROVE  \E lv \in Levels : s.running_[lv] # <<>>
<1>1. IdleTask \in TaskIds BY BoundAssumption DEF IdleTask, TaskIds
<1>2. s.level[IdleTask] \in Levels BY <1>1 DEF QueuesInv, TaskManagerState
<1>3. InQueue(s.running_[s.level[IdleTask]], IdleTask)
  BY <1>1, <1>2 DEF QueuesInv, QueuedIffRunning, IdleRuns
<1>4. s.running_[s.level[IdleTask]] \in Seq(TaskIds) BY <1>2 DEF QueuesInv, TaskManagerState
<1>5. s.running_[s.level[IdleTask]] # <<>> BY <1>3, <1>4, FrontProps
<1> QED BY <1>2, <1>5

\* The second half of SwitchTask: choosing the level and loading the front of
\* its queue establishes the rest of SchedulerInv.
LEMMA DispatchEstablishes ==
  ASSUME NEW s, QueuesInv(s), NEW changed \in BOOLEAN,
         ~changed => /\ s.running_[s.current_level_] # <<>>
                     /\ \A lv \in Levels : lv > s.current_level_ => s.running_[lv] = <<>>,
         NEW next, next = IF changed THEN HighestLevel(s.running_, s.current_level_)
                                     ELSE s.current_level_,
         NEW d, d = [s EXCEPT !.current_level_ = next,
                              !.level_changed_ = FALSE,
                              !.cpu            = Head(s.running_[next])]
  PROVE  SchedulerInv(d)
<1>1. /\ next \in Levels
      /\ s.running_[next] # <<>>
      /\ \A lv \in Levels : lv > next => s.running_[lv] = <<>>
  <2>1. CASE changed BY <2>1, SomeQueueNonEmpty, HighestLevelProps
  <2>2. CASE ~changed BY <2>2 DEF QueuesInv, TaskManagerState
  <2> QED BY <2>1, <2>2
<1>2. s.running_[next] \in Seq(TaskIds) BY <1>1 DEF QueuesInv, TaskManagerState
<1>3. Head(s.running_[next]) \in TaskIds BY <1>1, <1>2
<1>4. s \in TaskManagerState BY DEF QueuesInv
<1>5. /\ d \in TaskManagerState
      /\ d.running_ = s.running_ /\ d.current_level_ = next /\ d.level_changed_ = FALSE
      /\ d.latest_id_ = s.latest_id_ /\ d.level = s.level /\ d.running = s.running
      /\ d.cpu = Head(s.running_[next])
  BY <1>1, <1>3, <1>4 DEF TaskManagerState
<1>6. QueuedIffRunning(d) BY <1>5 DEF QueuesInv, QueuedIffRunning, Exists
<1>7. QueuedOnce(d) BY <1>5 DEF QueuesInv, QueuedOnce
<1>8. CpuIsFront(d) BY <1>1, <1>5 DEF CpuIsFront, Front
<1>9. NoneAboveUnlessChanged(d) BY <1>1, <1>5 DEF NoneAboveUnlessChanged
<1>10. IdleRuns(d) /\ d.latest_id_ >= IdleTask BY <1>5 DEF QueuesInv, IdleRuns
<1> QED BY <1>5, <1>6, <1>7, <1>8, <1>9, <1>10 DEF SchedulerInv

\* SwitchTask as the timer interrupt calls it: the running task goes to the
\* back of its queue.
LEMMA SwitchPreserves ==
  ASSUME NEW s, SchedulerInv(s)
  PROVE  SchedulerInv(SwitchTask(s, FALSE))
<1> DEFINE lv == s.current_level_
           q  == s.running_[lv]
           r  == Append(Tail(q), Front(s))
           c  == s.level_changed_ \/ r = <<>>
           s1 == [s EXCEPT !.running_ = [s.running_ EXCEPT ![lv] = r]]
           nx == IF c THEN HighestLevel(s1.running_, s1.current_level_) ELSE s1.current_level_
<1>1. s \in TaskManagerState BY DEF SchedulerInv
<1>2. lv \in Levels /\ q \in Seq(TaskIds) /\ q # <<>> /\ NoRepeats(q) /\ Front(s) = Head(q)
  BY <1>1 DEF TaskManagerState, SchedulerInv, CpuIsFront, QueuedOnce, Front
<1>3. r \in Seq(TaskIds) /\ r # <<>> /\ NoRepeats(r) /\ \A u : InQueue(r, u) <=> InQueue(q, u)
  <2>1. Head(q) \in TaskIds /\ InQueue(q, Head(q)) BY <1>2, FrontProps
  <2>2. Tail(q) \in Seq(TaskIds) /\ NoRepeats(Tail(q)) BY <1>2, TailProps
  <2>3. \A u : InQueue(Tail(q), u) <=> InQueue(q, u) /\ u # Head(q) BY <1>2, TailProps
  <2>4. /\ Append(Tail(q), Head(q)) \in Seq(TaskIds) /\ Append(Tail(q), Head(q)) # <<>>
        /\ \A u : InQueue(Append(Tail(q), Head(q)), u) <=> InQueue(Tail(q), u) \/ u = Head(q)
        /\ NoRepeats(Append(Tail(q), Head(q)))
    <3> DEFINE z == Tail(q)
               h == Head(q)
    <3>1. z \in Seq(TaskIds) /\ NoRepeats(z) /\ h \in TaskIds /\ ~InQueue(z, h) BY <2>1, <2>2, <2>3
    <3> HIDE DEF z, h
    <3>2. /\ Append(z, h) \in Seq(TaskIds) /\ Append(z, h) # <<>>
          /\ \A u : InQueue(Append(z, h), u) <=> InQueue(z, u) \/ u = h
          /\ NoRepeats(Append(z, h))
      BY <3>1, AppendProps
    <3> QED BY <3>2 DEF z, h
  <2>5. r = Append(Tail(q), Head(q)) BY <1>2
  <2> HIDE DEF r, q
  <2> QED BY <2>1, <2>3, <2>4, <2>5
<1> HIDE DEF r
<1>4. /\ s1 \in TaskManagerState
      /\ s1.running_ = [s.running_ EXCEPT ![lv] = r]
      /\ s1.current_level_ = lv /\ s1.latest_id_ = s.latest_id_
      /\ s1.level = s.level /\ s1.running = s.running
  BY <1>1, <1>2, <1>3 DEF TaskManagerState
<1>5. /\ s1.running_[lv] = r
      /\ \A k \in Levels : k # lv => s1.running_[k] = s.running_[k]
  BY <1>1, <1>2, <1>4 DEF TaskManagerState
<1>6. SwitchTask(s, FALSE) =
         [s1 EXCEPT !.current_level_ = nx, !.level_changed_ = FALSE,
                    !.cpu = Head(s1.running_[nx])]
  BY <1>1, <1>4 DEF SwitchTask, Rotate, Front, r, TaskManagerState
<1> HIDE DEF s1
<1>7. QueuedIffRunning(s1)
  BY <1>2, <1>3, <1>4, <1>5 DEF SchedulerInv, QueuedIffRunning, Exists
<1>8. QueuedOnce(s1) BY <1>3, <1>5 DEF SchedulerInv, QueuedOnce
<1>9. QueuesInv(s1)
  BY <1>4, <1>7, <1>8 DEF QueuesInv, SchedulerInv, IdleRuns
<1>10. ~c => /\ s1.running_[s1.current_level_] # <<>>
             /\ \A k \in Levels : k > s1.current_level_ => s1.running_[k] = <<>>
  <2> SUFFICES ASSUME ~c, NEW k \in Levels, k > lv
               PROVE  r # <<>> /\ s1.running_[k] = <<>>
    BY <1>3, <1>4, <1>5
  <2>1. k # lv BY <1>2 DEF Levels
  <2> QED BY <2>1, <1>3, <1>5 DEF SchedulerInv, NoneAboveUnlessChanged
<1>11. c \in BOOLEAN BY <1>1 DEF TaskManagerState
<1> QED BY <1>6, <1>9, <1>10, <1>11, DispatchEstablishes

\* Sleep of any task but the idle task.
LEMMA SleepPreserves ==
  ASSUME NEW s, SchedulerInv(s), NEW t \in TaskIds, t # IdleTask
  PROVE  SchedulerInv(Sleep(s, t))
<1>1. s \in TaskManagerState BY DEF SchedulerInv
<1> DEFINE off == [s EXCEPT !.running[t] = FALSE]
<1>2. /\ off \in TaskManagerState
      /\ off.running_ = s.running_ /\ off.current_level_ = s.current_level_
      /\ off.level_changed_ = s.level_changed_ /\ off.latest_id_ = s.latest_id_
      /\ off.level = s.level /\ off.cpu = s.cpu
      /\ off.running = [s.running EXCEPT ![t] = FALSE]
  BY <1>1 DEF TaskManagerState
<1>3. ~off.running[t] /\ \A u \in TaskIds : u # t => off.running[u] = s.running[u]
  BY <1>1, <1>2 DEF TaskManagerState
<1>4. CASE ~s.running[t] BY <1>4 DEF Sleep
<1>5. CASE s.running[t] /\ t = Front(s)
  <2> DEFINE lv == s.current_level_
             q  == s.running_[lv]
             r  == Tail(q)
             c  == s.level_changed_ \/ r = <<>>
             s1 == [off EXCEPT !.running_ = [s.running_ EXCEPT ![lv] = r]]
             nx == IF c THEN HighestLevel(s1.running_, s1.current_level_) ELSE s1.current_level_
  <2>1. lv \in Levels /\ q \in Seq(TaskIds) /\ q # <<>> /\ NoRepeats(q) /\ t = Head(q)
    BY <1>1, <1>5 DEF TaskManagerState, SchedulerInv, CpuIsFront, QueuedOnce, Front
  <2>2. r \in Seq(TaskIds) /\ NoRepeats(r) /\ \A u : InQueue(r, u) <=> InQueue(q, u) /\ u # t
    BY <2>1, TailProps
  <2> HIDE DEF r
  <2>3. /\ s1 \in TaskManagerState
        /\ s1.running_ = [s.running_ EXCEPT ![lv] = r]
        /\ s1.current_level_ = lv /\ s1.latest_id_ = s.latest_id_
        /\ s1.level = s.level /\ s1.running = off.running
    BY <1>2, <2>1, <2>2 DEF TaskManagerState
  <2>4. /\ s1.running_[lv] = r
        /\ \A k \in Levels : k # lv => s1.running_[k] = s.running_[k]
    BY <1>1, <2>1, <2>3 DEF TaskManagerState
  <2>5. SwitchTask(off, TRUE) =
           [s1 EXCEPT !.current_level_ = nx, !.level_changed_ = FALSE,
                      !.cpu = Head(s1.running_[nx])]
    BY <1>2, <2>3 DEF SwitchTask, Rotate, Front, r, TaskManagerState
  <2> HIDE DEF s1, off
  <2>6. s.level[t] = lv
    <3>1. InQueue(q, t) BY <2>1, FrontProps
    <3> QED BY <3>1, <2>1 DEF SchedulerInv, QueuedIffRunning
  <2>7. QueuedIffRunning(s1)
    <3> SUFFICES ASSUME NEW u \in TaskIds, NEW k \in Levels
                 PROVE  /\ s1.running[u] => Exists(s1, u)
                        /\ InQueue(s1.running_[k], u) <=> s1.running[u] /\ s1.level[u] = k
      BY LevelAssumption DEF QueuedIffRunning, Levels
    <3>1. /\ s.running[u] => Exists(s, u)
          /\ InQueue(s.running_[k], u) <=> s.running[u] /\ s.level[u] = k
      BY DEF SchedulerInv, QueuedIffRunning
    <3>2. CASE u = t BY <3>1, <3>2, <1>3, <2>2, <2>3, <2>4, <2>6
    <3>3. CASE u # t BY <3>1, <3>3, <1>3, <2>2, <2>3, <2>4 DEF Exists
    <3> QED BY <3>2, <3>3
  <2>8. QueuedOnce(s1) BY <2>2, <2>4 DEF SchedulerInv, QueuedOnce
  <2>9. IdleTask \in TaskIds BY BoundAssumption DEF IdleTask, TaskIds
  <2>10. QueuesInv(s1)
    BY <1>3, <2>3, <2>7, <2>8, <2>9 DEF QueuesInv, SchedulerInv, IdleRuns
  <2>11. ~c => /\ s1.running_[s1.current_level_] # <<>>
               /\ \A k \in Levels : k > s1.current_level_ => s1.running_[k] = <<>>
    <3> SUFFICES ASSUME ~c PROVE r # <<>> /\ \A k \in Levels : k > lv => s1.running_[k] = <<>>
      BY <2>3, <2>4
    <3>1. \A k \in Levels : k > lv => k # lv BY <2>1 DEF Levels
    <3> QED BY <3>1, <2>4 DEF SchedulerInv, NoneAboveUnlessChanged
  <2>12. c \in BOOLEAN BY <1>1 DEF TaskManagerState
  <2>13. Sleep(s, t) = SwitchTask(off, TRUE) BY <1>5 DEF Sleep, off
  <2>14. SchedulerInv(SwitchTask(off, TRUE))
    BY <2>5, <2>10, <2>11, <2>12, DispatchEstablishes
  <2> QED BY <2>13, <2>14
<1>6. CASE s.running[t] /\ t # Front(s)
  <2> DEFINE lv == s.level[t]
             q  == s.running_[lv]
             r  == Erase(q, t)
             d  == [off EXCEPT !.running_[lv] = r]
  <2>1. lv \in Levels /\ q \in Seq(TaskIds) /\ NoRepeats(q)
    BY <1>1 DEF TaskManagerState, SchedulerInv, QueuedOnce
  <2>2. /\ r \in Seq(TaskIds) /\ NoRepeats(r) /\ \A u : InQueue(r, u) <=> InQueue(q, u) /\ u # t
        /\ (q # <<>> /\ Head(q) # t) => (r # <<>> /\ Head(r) = Head(q))
    BY <2>1, EraseProps
  <2>3. Sleep(s, t) = d BY <1>2, <1>6 DEF Sleep
  <2> HIDE DEF r, off
  <2>4. /\ d \in TaskManagerState
        /\ d.running_ = [s.running_ EXCEPT ![lv] = r]
        /\ d.current_level_ = s.current_level_ /\ d.latest_id_ = s.latest_id_
        /\ d.level_changed_ = s.level_changed_ /\ d.cpu = s.cpu
        /\ d.level = s.level /\ d.running = off.running
    BY <1>2, <2>1, <2>2 DEF TaskManagerState
  <2>5. /\ d.running_[lv] = r
        /\ \A k \in Levels : k # lv => d.running_[k] = s.running_[k]
    BY <1>1, <2>1, <2>4 DEF TaskManagerState
  <2> HIDE DEF d
  <2>6. QueuedIffRunning(d)
    <3> SUFFICES ASSUME NEW u \in TaskIds, NEW k \in Levels
                 PROVE  /\ d.running[u] => Exists(d, u)
                        /\ InQueue(d.running_[k], u) <=> d.running[u] /\ d.level[u] = k
      BY LevelAssumption DEF QueuedIffRunning, Levels
    <3>1. /\ s.running[u] => Exists(s, u)
          /\ InQueue(s.running_[k], u) <=> s.running[u] /\ s.level[u] = k
      BY DEF SchedulerInv, QueuedIffRunning
    <3>2. CASE u = t BY <3>1, <3>2, <1>3, <2>2, <2>4, <2>5
    <3>3. CASE u # t BY <3>1, <3>3, <1>3, <2>2, <2>4, <2>5 DEF Exists
    <3> QED BY <3>2, <3>3
  <2>7. QueuedOnce(d) BY <2>2, <2>5 DEF SchedulerInv, QueuedOnce
  <2>8. CpuIsFront(d)
    <3>1. s.current_level_ \in Levels BY <1>1 DEF TaskManagerState
    <3>2. /\ s.running_[s.current_level_] # <<>>
          /\ s.cpu = Head(s.running_[s.current_level_]) /\ Head(s.running_[s.current_level_]) # t
      BY <1>6 DEF SchedulerInv, CpuIsFront, Front
    <3>3. CASE s.current_level_ = lv BY <3>2, <3>3, <2>2, <2>4, <2>5 DEF CpuIsFront, Front
    <3>4. CASE s.current_level_ # lv BY <3>1, <3>2, <3>4, <2>4, <2>5 DEF CpuIsFront, Front
    <3> QED BY <3>3, <3>4
  <2>9. NoneAboveUnlessChanged(d)
    <3> SUFFICES ASSUME ~s.level_changed_, NEW k \in Levels, k > s.current_level_
                 PROVE  d.running_[k] = <<>>
      BY <2>4 DEF NoneAboveUnlessChanged
    <3>1. s.running_[k] = <<>> BY DEF SchedulerInv, NoneAboveUnlessChanged
    <3>2. InQueue(q, t) BY <1>6, <2>1 DEF SchedulerInv, QueuedIffRunning
    <3>3. k # lv BY <3>1, <3>2, <2>1, FrontProps
    <3> QED BY <3>1, <3>3, <2>5
  <2>10. IdleTask \in TaskIds BY BoundAssumption DEF IdleTask, TaskIds
  <2> QED BY <1>3, <2>3, <2>4, <2>6, <2>7, <2>8, <2>9, <2>10 DEF SchedulerInv, IdleRuns
<1> QED BY <1>4, <1>5, <1>6

\* A running task moves to another level: another task goes to the back of
\* its new queue, the running task itself to the front.
LEMMA ChangeLevelPreserves ==
  ASSUME NEW s, SchedulerInv(s), NEW t \in TaskIds, s.running[t],
         NEW level \in {-1} \cup Levels
  PROVE  SchedulerInv(ChangeLevelRunning(s, t, level))
<1> DEFINE from == s.level[t]
           cur  == s.current_level_
           d    == ChangeLevelRunning(s, t, level)
<1>1. s \in TaskManagerState BY DEF SchedulerInv
<1>2. from \in Levels /\ cur \in Levels BY <1>1 DEF TaskManagerState
<1>3. \A k \in Levels : s.running_[k] \in Seq(TaskIds) /\ NoRepeats(s.running_[k])
  BY <1>1 DEF TaskManagerState, SchedulerInv, QueuedOnce
<1>4. \A u \in TaskIds, k \in Levels :
        InQueue(s.running_[k], u) <=> s.running[u] /\ s.level[u] = k
  BY DEF SchedulerInv, QueuedIffRunning
<1>5. CASE level < 0 \/ level = from BY <1>5 DEF ChangeLevelRunning
<1> DEFINE moved(s1) ==
        /\ s1 \in TaskManagerState
        /\ s1.level = [s.level EXCEPT ![t] = level] /\ s1.running = s.running
        /\ s1.latest_id_ = s.latest_id_ /\ s1.cpu = s.cpu
        /\ \A k \in Levels : k # from /\ k # level => s1.running_[k] = s.running_[k]
        /\ NoRepeats(s1.running_[from]) /\ NoRepeats(s1.running_[level])
        /\ \A u : InQueue(s1.running_[from], u) <=> InQueue(s.running_[from], u) /\ u # t
        /\ \A u : InQueue(s1.running_[level], u) <=> InQueue(s.running_[level], u) \/ u = t
<1>6. ASSUME ~(level < 0 \/ level = from), moved(d)
      PROVE  QueuedIffRunning(d) /\ QueuedOnce(d) /\ IdleRuns(d) /\ d.latest_id_ >= IdleTask
  <2> HIDE DEF d
  <2>1. level \in Levels BY <1>6
  <2>2. QueuedIffRunning(d)
    <3> SUFFICES ASSUME NEW u \in TaskIds, NEW k \in Levels
                 PROVE  /\ d.running[u] => Exists(d, u)
                        /\ InQueue(d.running_[k], u) <=> d.running[u] /\ d.level[u] = k
      BY LevelAssumption DEF QueuedIffRunning, Levels
    <3>1. d.running[u] => Exists(d, u) BY <1>6 DEF SchedulerInv, QueuedIffRunning, Exists
    <3>2. d.level[t] = level /\ (u # t => d.level[u] = s.level[u])
      BY <1>1, <1>6, <2>1 DEF TaskManagerState
    <3>3. d.running[u] = s.running[u] BY <1>6
    <3>4. InQueue(s.running_[k], u) <=> s.running[u] /\ s.level[u] = k BY <1>4
    <3>5. CASE k = from
      <4>1. InQueue(d.running_[k], u) <=> InQueue(s.running_[k], u) /\ u # t BY <3>5, <1>6
      <4> QED BY <4>1, <3>1, <3>2, <3>3, <3>4, <3>5, <1>6
    <3>6. CASE k = level
      <4>1. InQueue(d.running_[k], u) <=> InQueue(s.running_[k], u) \/ u = t BY <3>6, <1>6
      <4> QED BY <4>1, <3>1, <3>2, <3>3, <3>4, <3>6, <1>6
    <3>7. CASE k # from /\ k # level
      <4>1. InQueue(d.running_[k], u) <=> InQueue(s.running_[k], u) BY <3>7, <1>6
      <4> QED BY <4>1, <3>1, <3>2, <3>3, <3>4, <3>7
    <3> QED BY <3>5, <3>6, <3>7
  <2>3. QueuedOnce(d) BY <1>3, <1>6 DEF QueuedOnce
  <2> QED BY <2>2, <2>3, <1>6 DEF SchedulerInv, IdleRuns
<1>7. CASE ~(level < 0 \/ level = from) /\ t # Front(s)
  <2> DEFINE e  == Erase(s.running_[from], t)
             a  == Append(s.running_[level], t)
             rr == [s.running_ EXCEPT ![from] = Erase(@, t), ![level] = Append(@, t)]
             ll == [s.level EXCEPT ![t] = level]
             lc == IF level > cur THEN TRUE ELSE s.level_changed_
  <2>1. level \in Levels BY <1>7
  <2>2. ~InQueue(s.running_[level], t) BY <1>4, <1>7, <2>1
  <2>3. /\ e \in Seq(TaskIds) /\ NoRepeats(e)
        /\ \A u : InQueue(e, u) <=> InQueue(s.running_[from], u) /\ u # t
        /\ (s.running_[from] # <<>> /\ Head(s.running_[from]) # t) =>
             (e # <<>> /\ Head(e) = Head(s.running_[from]))
    BY <1>2, <1>3, EraseProps
  <2>4. /\ a \in Seq(TaskIds) /\ NoRepeats(a) /\ a # <<>>
        /\ \A u : InQueue(a, u) <=> InQueue(s.running_[level], u) \/ u = t
        /\ s.running_[level] # <<>> => Head(a) = Head(s.running_[level])
    BY <1>3, <2>1, <2>2, AppendProps
  <2>5. d = [s EXCEPT !.running_ = rr, !.level = ll, !.level_changed_ = lc]
    BY <1>7 DEF ChangeLevelRunning
  <2>6. /\ rr \in [Levels -> Seq(TaskIds)] /\ rr[from] = e /\ rr[level] = a
        /\ \A k \in Levels : k # from /\ k # level => rr[k] = s.running_[k]
    BY <1>1, <1>2, <1>7, <2>1, <2>3, <2>4 DEF TaskManagerState
  <2> HIDE DEF e, a, rr
  <2>t. ll \in [TaskIds -> Levels] /\ lc \in BOOLEAN
    BY <1>1, <2>1 DEF TaskManagerState
  <2>u. ~lc => ~(level > cur) /\ ~s.level_changed_ OBVIOUS
  <2> HIDE DEF ll, lc, d
  <2>7. /\ d \in TaskManagerState
        /\ d.running_ = rr /\ d.level = ll /\ d.running = s.running
        /\ d.latest_id_ = s.latest_id_ /\ d.cpu = s.cpu /\ d.current_level_ = cur
        /\ d.level_changed_ = lc
    BY <1>1, <2>5, <2>6, <2>t DEF TaskManagerState
  <2>8. moved(d) BY <2>3, <2>4, <2>6, <2>7 DEF ll
  <2>9. CpuIsFront(d)
    <3>1. /\ s.running_[cur] # <<>> /\ s.cpu = Head(s.running_[cur])
          /\ Head(s.running_[cur]) # t
      BY <1>7 DEF SchedulerInv, CpuIsFront, Front
    <3>2. rr[cur] # <<>> /\ Head(rr[cur]) = Head(s.running_[cur])
      BY <3>1, <1>2, <2>3, <2>4, <2>6
    <3> QED BY <3>1, <3>2, <2>7 DEF CpuIsFront, Front
  <2>10. NoneAboveUnlessChanged(d)
    <3> SUFFICES ASSUME ~s.level_changed_, ~(level > cur), NEW k \in Levels, k > cur
                 PROVE  rr[k] = <<>>
      BY <2>7, <2>u DEF NoneAboveUnlessChanged
    <3>1. s.running_[k] = <<>> BY DEF SchedulerInv, NoneAboveUnlessChanged
    <3>2. k # level OBVIOUS
    <3>3. k # from BY <3>1, <1>2, <1>3, <1>4, FrontProps
    <3> QED BY <3>1, <3>2, <3>3, <2>6
  <2>11. SchedulerInv(d) BY <1>6, <1>7, <2>7, <2>8, <2>9, <2>10 DEF SchedulerInv
  <2> QED BY <2>11 DEF d
<1>8. CASE ~(level < 0 \/ level = from) /\ t = Front(s)
  <2> DEFINE e  == Tail(s.running_[cur])
             a  == <<t>> \o s.running_[level]
             rr == [s.running_ EXCEPT ![cur] = Tail(@), ![level] = <<t>> \o @]
             ll == [s.level EXCEPT ![t] = level]
             lc == IF level < cur THEN TRUE ELSE s.level_changed_
  <2>1. level \in Levels BY <1>8
  <2>2. ~InQueue(s.running_[level], t) BY <1>4, <1>8, <2>1
  <2>3. s.running_[cur] # <<>> /\ Head(s.running_[cur]) = t /\ s.cpu = t
    BY <1>8 DEF SchedulerInv, CpuIsFront, Front
  <2>4. from = cur BY <2>3, <1>2, <1>3, <1>4, FrontProps
  <2>5. /\ e \in Seq(TaskIds) /\ NoRepeats(e)
        /\ \A u : InQueue(e, u) <=> InQueue(s.running_[cur], u) /\ u # t
    BY <1>2, <1>3, <2>3, TailProps
  <2>6. /\ a \in Seq(TaskIds) /\ NoRepeats(a) /\ a # <<>> /\ Head(a) = t
        /\ \A u : InQueue(a, u) <=> InQueue(s.running_[level], u) \/ u = t
    BY <1>3, <2>1, <2>2, ConsProps
  <2>7. d = [s EXCEPT !.running_ = rr, !.level = ll, !.level_changed_ = lc,
                      !.current_level_ = level]
    BY <1>8 DEF ChangeLevelRunning
  <2>8. /\ rr \in [Levels -> Seq(TaskIds)] /\ rr[cur] = e /\ rr[level] = a
        /\ \A k \in Levels : k # cur /\ k # level => rr[k] = s.running_[k]
    BY <1>1, <1>2, <1>8, <2>1, <2>4, <2>5, <2>6 DEF TaskManagerState
  <2> HIDE DEF e, a, rr
  <2>t. ll \in [TaskIds -> Levels] /\ lc \in BOOLEAN
    BY <1>1, <2>1 DEF TaskManagerState
  <2>u. ~lc => ~(level < cur) /\ ~s.level_changed_ OBVIOUS
  <2> HIDE DEF ll, lc, d
  <2>9. /\ d \in TaskManagerState
        /\ d.running_ = rr /\ d.level = ll /\ d.running = s.running
        /\ d.latest_id_ = s.latest_id_ /\ d.cpu = s.cpu /\ d.current_level_ = level
        /\ d.level_changed_ = lc
    BY <1>1, <2>1, <2>7, <2>8, <2>t DEF TaskManagerState
  <2>10. moved(d) BY <2>4, <2>5, <2>6, <2>8, <2>9 DEF ll
  <2>11. CpuIsFront(d) BY <2>3, <2>6, <2>8, <2>9 DEF CpuIsFront, Front
  <2>12. NoneAboveUnlessChanged(d)
    <3> SUFFICES ASSUME ~s.level_changed_, ~(level < cur), NEW k \in Levels, k > level
                 PROVE  rr[k] = <<>>
      BY <2>9, <2>u DEF NoneAboveUnlessChanged
    <3>1. k > cur /\ k # cur /\ k # level BY <1>2, <2>1 DEF Levels
    <3> QED BY <3>1, <2>8 DEF SchedulerInv, NoneAboveUnlessChanged
  <2>13. SchedulerInv(d) BY <1>6, <1>8, <2>9, <2>10, <2>11, <2>12 DEF SchedulerInv
  <2> QED BY <2>13 DEF d
<1> QED BY <1>5, <1>7, <1>8

LEMMA WakeupPreserves ==
  ASSUME NEW s, SchedulerInv(s), NEW t \in TaskIds, Exists(s, t),
         NEW level \in {-1} \cup Levels
  PROVE  SchedulerInv(Wakeup(s, t, level))
<1> DEFINE lv  == IF level < 0 THEN s.level[t] ELSE level
           cur == s.current_level_
           d   == Wakeup(s, t, level)
<1>1. s \in TaskManagerState BY DEF SchedulerInv
<1>2. lv \in Levels /\ cur \in Levels BY <1>1 DEF TaskManagerState, Levels
<1>3. CASE s.running[t] BY <1>3, ChangeLevelPreserves DEF Wakeup
<1>4. CASE ~s.running[t]
  <2> DEFINE a  == Append(s.running_[lv], t)
             rr == [s.running_ EXCEPT ![lv] = Append(@, t)]
             ll == [s.level EXCEPT ![t] = lv]
             ff == [s.running EXCEPT ![t] = TRUE]
             lc == IF lv > cur THEN TRUE ELSE s.level_changed_
  <2>1. s.running_[lv] \in Seq(TaskIds) /\ NoRepeats(s.running_[lv])
    BY <1>1, <1>2 DEF TaskManagerState, SchedulerInv, QueuedOnce
  <2>2. ~InQueue(s.running_[lv], t) BY <1>2, <1>4 DEF SchedulerInv, QueuedIffRunning
  <2>3. /\ a \in Seq(TaskIds) /\ NoRepeats(a) /\ a # <<>>
        /\ \A u : InQueue(a, u) <=> InQueue(s.running_[lv], u) \/ u = t
        /\ s.running_[lv] # <<>> => Head(a) = Head(s.running_[lv])
    BY <2>1, <2>2, AppendProps
  <2>4. d = [s EXCEPT !.running_ = rr, !.level = ll, !.running = ff, !.level_changed_ = lc]
    BY <1>4 DEF Wakeup
  <2> HIDE DEF lv
  <2>5. /\ rr \in [Levels -> Seq(TaskIds)] /\ rr[lv] = a
        /\ \A k \in Levels : k # lv => rr[k] = s.running_[k]
    BY <1>1, <1>2, <2>3 DEF TaskManagerState
  <2> HIDE DEF a, rr
  <2>t. ll \in [TaskIds -> Levels] /\ ff \in [TaskIds -> BOOLEAN] /\ lc \in BOOLEAN
    BY <1>1, <1>2 DEF TaskManagerState
  <2>u. ~lc => ~(lv > cur) /\ ~s.level_changed_ OBVIOUS
  <2> HIDE DEF ll, ff, lc, d
  <2>6. /\ d \in TaskManagerState
        /\ d.running_ = rr /\ d.level = ll /\ d.running = ff
        /\ d.latest_id_ = s.latest_id_ /\ d.cpu = s.cpu /\ d.current_level_ = cur
        /\ d.level_changed_ = lc
    BY <1>1, <2>4, <2>5, <2>t DEF TaskManagerState
  <2>7. /\ d.level[t] = lv /\ d.running[t]
        /\ \A u \in TaskIds : u # t => d.level[u] = s.level[u] /\ d.running[u] = s.running[u]
    BY <1>1, <1>2, <2>6 DEF TaskManagerState, ll, ff
  <2>8. QueuedIffRunning(d)
    <3> SUFFICES ASSUME NEW u \in TaskIds, NEW k \in Levels
                 PROVE  /\ d.running[u] => Exists(d, u)
                        /\ InQueue(d.running_[k], u) <=> d.running[u] /\ d.level[u] = k
      BY LevelAssumption DEF QueuedIffRunning, Levels
    <3>1. /\ s.running[u] => Exists(s, u)
          /\ InQueue(s.running_[k], u) <=> s.running[u] /\ s.level[u] = k
      BY DEF SchedulerInv, QueuedIffRunning
    <3>2. CASE u = t
      <4>1. Exists(d, u) BY <3>2, <2>6 DEF Exists
      <4>2. InQueue(d.running_[k], u) <=> k = lv
        BY <3>1, <3>2, <1>4, <2>3, <2>5, <2>6
      <4> QED BY <3>2, <4>1, <4>2, <2>7
    <3>3. CASE u # t BY <3>1, <3>3, <2>3, <2>5, <2>6, <2>7 DEF Exists
    <3> QED BY <3>2, <3>3
  <2>9. QueuedOnce(d) BY <2>3, <2>5, <2>6 DEF SchedulerInv, QueuedOnce
  <2>10. CpuIsFront(d)
    <3>1. s.running_[cur] # <<>> /\ s.cpu = Head(s.running_[cur])
      BY DEF SchedulerInv, CpuIsFront, Front
    <3>2. rr[cur] # <<>> /\ Head(rr[cur]) = Head(s.running_[cur])
      BY <3>1, <1>2, <2>3, <2>5
    <3> QED BY <3>1, <3>2, <2>6 DEF CpuIsFront, Front
  <2>11. NoneAboveUnlessChanged(d)
    <3> SUFFICES ASSUME ~s.level_changed_, ~(lv > cur), NEW k \in Levels, k > cur
                 PROVE  rr[k] = <<>>
      BY <2>6, <2>u DEF NoneAboveUnlessChanged
    <3>1. k # lv OBVIOUS
    <3> QED BY <3>1, <2>5 DEF SchedulerInv, NoneAboveUnlessChanged
  <2>12. IdleRuns(d) /\ d.latest_id_ >= IdleTask
    <3>1. IdleTask \in TaskIds BY BoundAssumption DEF IdleTask, TaskIds
    <3> QED BY <3>1, <2>6, <2>7 DEF SchedulerInv, IdleRuns
  <2>13. SchedulerInv(d) BY <2>6, <2>8, <2>9, <2>10, <2>11, <2>12 DEF SchedulerInv
  <2> QED BY <2>13 DEF d
<1> QED BY <1>3, <1>4

\* Message queues and the task table do not matter to the scheduler.
LEMMA MessagesPreserve ==
  ASSUME NEW s, SchedulerInv(s), NEW m \in [TaskIds -> Seq(Messages)],
         NEW n \in TaskIds, n >= s.latest_id_,
         NEW d, d = [s EXCEPT !.msgs = m, !.latest_id_ = n]
  PROVE  SchedulerInv(d) /\ d.msgs = m /\ d.latest_id_ = n
<1>1. s \in TaskManagerState BY DEF SchedulerInv
<1>2. /\ d \in TaskManagerState /\ d.msgs = m /\ d.latest_id_ = n
      /\ d.running_ = s.running_ /\ d.current_level_ = s.current_level_
      /\ d.level_changed_ = s.level_changed_ /\ d.level = s.level
      /\ d.running = s.running /\ d.cpu = s.cpu
  BY <1>1 DEF TaskManagerState
<1>3. s.latest_id_ \in Nat /\ n \in Nat BY <1>1 DEF TaskManagerState, TaskIds
<1>4. \A t : Exists(s, t) => Exists(d, t) BY <1>2, <1>3 DEF Exists
<1>5. QueuedIffRunning(d) BY <1>2, <1>4 DEF SchedulerInv, QueuedIffRunning
<1>6. d.latest_id_ >= IdleTask BY <1>2, <1>3 DEF SchedulerInv, IdleTask
<1> QED
  BY <1>2, <1>5, <1>6
     DEF SchedulerInv, QueuedOnce, CpuIsFront, Front, NoneAboveUnlessChanged, IdleRuns

\* A message is appended, then its task is woken at its own level.
LEMMA SendPreserves ==
  ASSUME NEW s, SchedulerInv(s), NEW id \in TaskIds, NEW m \in Messages
  PROVE  SchedulerInv(SendMessage(s, id, m))
<1> DEFINE q == [s.msgs EXCEPT ![id] = Append(@, m)]
           d == [s EXCEPT !.msgs = q, !.latest_id_ = s.latest_id_]
           e == [s EXCEPT !.msgs[id] = Append(@, m)]
<1>1. s \in TaskManagerState BY DEF SchedulerInv
<1>2. q \in [TaskIds -> Seq(Messages)] BY <1>1 DEF TaskManagerState
<1>3. s.latest_id_ \in TaskIds /\ s.latest_id_ >= s.latest_id_
  BY <1>1 DEF TaskManagerState, TaskIds
<1>4. d = e BY <1>1 DEF TaskManagerState
<1>5. SchedulerInv(d) /\ d.latest_id_ = s.latest_id_
  <2> HIDE DEF q
  <2>2. d.latest_id_ = s.latest_id_ BY <1>1 DEF TaskManagerState
  <2>3. SchedulerInv(d) BY <1>2, <1>3, MessagesPreserve
  <2> QED BY <2>2, <2>3
<1>6. CASE Exists(s, id)
  <2>1. Exists(d, id) BY <1>5, <1>6 DEF Exists
  <2>2. SendMessage(s, id, m) = Wakeup(d, id, -1) BY <1>4, <1>6 DEF SendMessage
  <2> HIDE DEF d
  <2>3. SchedulerInv(Wakeup(d, id, -1)) BY <1>5, <2>1, WakeupPreserves
  <2> QED BY <2>2, <2>3
<1>7. CASE ~Exists(s, id) BY <1>7 DEF SendMessage
<1> QED BY <1>6, <1>7

LEMMA ReceivePreserves ==
  ASSUME NEW s, SchedulerInv(s), NEW t \in TaskIds
  PROVE  SchedulerInv(ReceiveMessage(s, t))
<1> DEFINE q == [s.msgs EXCEPT ![t] = Tail(@)]
           d == [s EXCEPT !.msgs = q, !.latest_id_ = s.latest_id_]
<1>1. s \in TaskManagerState BY DEF SchedulerInv
<1>2. CASE s.msgs[t] = <<>> BY <1>2 DEF ReceiveMessage
<1>3. CASE s.msgs[t] # <<>>
  <2>1. s.msgs[t] \in Seq(Messages) BY <1>1 DEF TaskManagerState
  <2>2. Tail(s.msgs[t]) \in Seq(Messages) BY <1>3, <2>1, HeadTailProperties
  <2>3. q \in [TaskIds -> Seq(Messages)] BY <1>1, <2>2 DEF TaskManagerState
  <2>4. s.latest_id_ \in TaskIds /\ s.latest_id_ >= s.latest_id_
    BY <1>1 DEF TaskManagerState, TaskIds
  <2>5. ReceiveMessage(s, t) = d BY <1>1, <1>3 DEF ReceiveMessage, TaskManagerState
  <2> HIDE DEF q
  <2>6. SchedulerInv(d) BY <2>3, <2>4, MessagesPreserve
  <2> QED BY <2>5, <2>6
<1> QED BY <1>2, <1>3

LEMMA NewTaskPreserves ==
  ASSUME NEW s, SchedulerInv(s), s.latest_id_ < MaxTasks
  PROVE  SchedulerInv(NewTask(s))
<1> DEFINE n == s.latest_id_ + 1
           d == [s EXCEPT !.msgs = s.msgs, !.latest_id_ = n]
<1>1. s \in TaskManagerState BY DEF SchedulerInv
<1>2. s.msgs \in [TaskIds -> Seq(Messages)] BY <1>1 DEF TaskManagerState
<1>3. n \in TaskIds /\ n >= s.latest_id_
  BY <1>1, BoundAssumption, SMTT(30) DEF TaskManagerState, TaskIds
<1>4. NewTask(s) = d BY <1>1 DEF NewTask, TaskManagerState
<1> HIDE DEF n
<1>5. SchedulerInv(d) BY <1>2, <1>3, MessagesPreserve
<1> QED BY <1>4, <1>5

-----------------------------------------------------------------------------
\* The constructor leaves the manager consistent: main and idle queued on
\* their levels, main on the processor.
LEMMA InitEstablishes == SchedulerInv(InitialState)
<1> DEFINE d == InitialState
           f == [lv \in Levels |-> IF lv = kMaxLevel THEN <<MainTask>> ELSE <<>>]
           g == [f EXCEPT ![0] = Append(@, IdleTask)]
<1>1. MainTask \in TaskIds /\ IdleTask \in TaskIds /\ MainTask # IdleTask /\ IdleTask \in Nat
  BY BoundAssumption DEF MainTask, IdleTask, TaskIds
<1>2. 0 \in Levels /\ kMaxLevel \in Levels /\ kDefaultLevel \in Levels
      /\ \A k \in Levels : ~(k > kMaxLevel)
  BY LevelAssumption DEF Levels
<1>3. f \in [Levels -> Seq(TaskIds)] BY <1>1
<1>4. /\ g[0] = Append(f[0], IdleTask) /\ g \in [Levels -> Seq(TaskIds)]
      /\ \A k \in Levels : k # 0 => g[k] = f[k]
  <2>1. f[0] \in Seq(TaskIds) BY <1>2, <1>3
  <2>2. Append(f[0], IdleTask) \in Seq(TaskIds) BY <2>1, <1>1
  <2> HIDE DEF f
  <2> QED BY <2>2, <1>2, <1>3
<1>5. \A k \in Levels : f[k] = IF k = kMaxLevel THEN <<MainTask>> ELSE <<>> OBVIOUS
<1>6. /\ d.running_ = g /\ d.current_level_ = kMaxLevel /\ d.level_changed_ = FALSE
      /\ d.latest_id_ = IdleTask /\ d.cpu = MainTask
      /\ d.level \in [TaskIds -> Levels] /\ d.running \in [TaskIds -> BOOLEAN]
      /\ d.msgs \in [TaskIds -> Seq(Messages)]
  BY <1>1, <1>2 DEF InitialState
<1>7. /\ d.level[MainTask] = kMaxLevel /\ d.level[IdleTask] = 0
      /\ \A t \in TaskIds : d.running[t] <=> t = MainTask \/ t = IdleTask
  BY <1>1 DEF InitialState
<1>8. d \in TaskManagerState
  <2>1. d = [running_ |-> d.running_, current_level_ |-> d.current_level_,
             level_changed_ |-> d.level_changed_, latest_id_ |-> d.latest_id_,
             level |-> d.level, running |-> d.running, msgs |-> d.msgs, cpu |-> d.cpu]
    BY DEF InitialState
  <2> HIDE DEF d, g
  <2> QED BY <2>1, <1>1, <1>2, <1>4, <1>6 DEF TaskManagerState
<1> HIDE DEF d, f, g
<1>9. \A k \in Levels : /\ NoRepeats(g[k])
                        /\ \A t : InQueue(g[k], t) <=> \/ t = MainTask /\ k = kMaxLevel
                                                       \/ t = IdleTask /\ k = 0
                        /\ k = kMaxLevel => g[k] # <<>> /\ Head(g[k]) = MainTask
  <2> SUFFICES ASSUME NEW k \in Levels
               PROVE  /\ NoRepeats(g[k])
                      /\ \A t : InQueue(g[k], t) <=> \/ t = MainTask /\ k = kMaxLevel
                                                     \/ t = IdleTask /\ k = 0
                      /\ k = kMaxLevel => g[k] # <<>> /\ Head(g[k]) = MainTask
    OBVIOUS
  <2>1. CASE k = kMaxLevel /\ k = 0
    <3>1. f[0] = <<MainTask>> /\ g[k] = Append(f[0], IdleTask) BY <2>1, <1>2, <1>4, <1>5
    <3>2. /\ f[0] \in Seq(TaskIds) /\ f[0] # <<>> /\ Head(f[0]) = MainTask /\ NoRepeats(f[0])
          /\ \A t : InQueue(f[0], t) <=> t = MainTask
      BY <3>1, <1>1 DEF NoRepeats, InQueue
    <3>3. /\ NoRepeats(g[k]) /\ g[k] # <<>> /\ Head(g[k]) = MainTask
          /\ \A t : InQueue(g[k], t) <=> InQueue(f[0], t) \/ t = IdleTask
      BY <3>1, <3>2, <1>1, AppendProps
    <3> QED BY <2>1, <3>2, <3>3
  <2>2. CASE k = kMaxLevel /\ k # 0
    <3>1. g[k] = <<MainTask>> BY <2>2, <1>4, <1>5
    <3> QED BY <2>2, <3>1, <1>1 DEF NoRepeats, InQueue
  <2>3. CASE k # kMaxLevel /\ k = 0
    <3>1. f[0] = <<>> /\ g[k] = Append(f[0], IdleTask) BY <2>3, <1>2, <1>4, <1>5
    <3>2. g[k] = <<IdleTask>> BY <3>1
    <3> QED BY <2>3, <3>2, <1>1 DEF NoRepeats, InQueue
  <2>4. CASE k # kMaxLevel /\ k # 0
    <3>1. g[k] = <<>> BY <2>4, <1>4, <1>5
    <3> QED BY <2>4, <3>1, <1>1 DEF NoRepeats, InQueue
  <2> QED BY <2>1, <2>2, <2>3, <2>4
<1>10. QueuedIffRunning(d)
  <2> SUFFICES ASSUME NEW t \in TaskIds, NEW k \in Levels
               PROVE  /\ d.running[t] => Exists(d, t)
                      /\ InQueue(d.running_[k], t) <=> d.running[t] /\ d.level[t] = k
    BY LevelAssumption DEF QueuedIffRunning, Levels
  <2>1. d.running[t] <=> t = MainTask \/ t = IdleTask BY <1>7
  <2>2. d.running[t] => Exists(d, t) BY <2>1, <1>6 DEF Exists, MainTask, IdleTask
  <2>3. InQueue(d.running_[k], t) <=> \/ t = MainTask /\ k = kMaxLevel
                                      \/ t = IdleTask /\ k = 0
    BY <1>6, <1>9
  <2> QED BY <2>1, <2>2, <2>3, <1>1, <1>7
<1>11. QueuedOnce(d) BY <1>6, <1>9 DEF QueuedOnce
<1>12. CpuIsFront(d) BY <1>2, <1>6, <1>9 DEF CpuIsFront, Front
<1>13. NoneAboveUnlessChanged(d) BY <1>2, <1>6 DEF NoneAboveUnlessChanged
<1>14. IdleRuns(d) BY <1>1, <1>7 DEF IdleRuns
<1>15. SchedulerInv(d)
  BY <1>1, <1>6, <1>8, <1>10, <1>11, <1>12, <1>13, <1>14 DEF SchedulerInv
<1> QED BY <1>15 DEF d

\* Every operation of the scheduler, in whatever order interrupts and tasks
\* call it, keeps the manager consistent.
THEOREM SchedulerInvariant == Spec => []Inv
<1>1. Init => Inv BY InitEstablishes DEF Init, Inv
<1>2. Inv /\ [Next]_vars => Inv'
  <2> SUFFICES ASSUME Inv, [Next]_vars PROVE Inv'
    OBVIOUS
  <2>1. SchedulerInv(tm) BY DEF Inv
  <2>2. Inv' <=> SchedulerInv(tm') BY DEF Inv
  <2>3. CASE Switch BY <2>1, <2>2, <2>3, SwitchPreserves DEF Switch
  <2>4. CASE Create BY <2>1, <2>2, <2>4, NewTaskPreserves DEF Create
  <2>5. CASE Receive
    <3>1. CurrentTask(tm) \in TaskIds
      BY <2>1 DEF SchedulerInv, CpuIsFront, CurrentTask, TaskManagerState
    <3> QED BY <2>1, <2>2, <2>5, <3>1, ReceivePreserves DEF Receive
  <2>6. ASSUME NEW id \in TaskIds, NEW m \in Messages, Send(id, m) PROVE Inv'
    BY <2>1, <2>2, <2>6, SendPreserves DEF Send
  <2>7. ASSUME NEW id \in TaskIds, PutToSleep(id) PROVE Inv'
    BY <2>1, <2>2, <2>7, SleepPreserves DEF PutToSleep, SleepId
  <2>8. ASSUME NEW id \in TaskIds, NEW level \in {-1} \cup Levels, WakeUp(id, level)
        PROVE  Inv'
    BY <2>1, <2>2, <2>8, WakeupPreserves DEF WakeUp, WakeupId
  <2>9. CASE UNCHANGED vars BY <2>9 DEF vars, Inv
  <2> QED BY <2>3, <2>4, <2>5, <2>6, <2>7, <2>8, <2>9 DEF Next
<1> QED BY <1>1, <1>2, PTL DEF Spec

\* The fields keep their types.
THEOREM TypeCorrect == Spec => []TypeOK
<1>1. Inv => TypeOK BY DEF Inv, SchedulerInv, TypeOK
<1> QED BY <1>1, SchedulerInvariant, PTL

\* A task is in a run queue exactly when it is marked running, in that of its
\* level, and once.
THEOREM RunQueues == Spec => []RunQueuesConsistent
<1>1. Inv => RunQueuesConsistent BY DEF Inv, SchedulerInv, RunQueuesConsistent
<1> QED BY <1>1, SchedulerInvariant, PTL

\* SwitchTask saves the interrupted context over the task it belongs to.
THEOREM CpuOwnsFront == Spec => []CpuConsistent
<1>1. Inv => CpuConsistent BY DEF Inv, SchedulerInv, CpuConsistent
<1> QED BY <1>1, SchedulerInvariant, PTL

\* A clear level_changed_ is never stale.
THEOREM Priorities == Spec => []PriorityRespected
<1>1. Inv => PriorityRespected BY DEF Inv, SchedulerInv, PriorityRespected
<1> QED BY <1>1, SchedulerInvariant, PTL

-----------------------------------------------------------------------------
\* With level_changed_ clear, the task on the processor is on the highest
\* level that has a runnable task.
LEMMA ClearMeansHighest ==
  ASSUME NEW s, SchedulerInv(s), ~s.level_changed_
  PROVE  \A t \in TaskIds : s.running[t] => s.level[t] <= s.level[s.cpu]
<1> SUFFICES ASSUME NEW t \in TaskIds, s.running[t]
             PROVE  s.level[t] <= s.level[s.cpu]
  OBVIOUS
<1> DEFINE lv == s.current_level_
<1>1. /\ s \in TaskManagerState /\ QueuedIffRunning(s) /\ CpuIsFront(s)
      /\ NoneAboveUnlessChanged(s)
  BY DEF SchedulerInv
<1>2. /\ lv \in Levels /\ s.cpu \in TaskIds /\ s.level[t] \in Levels
      /\ s.running_[lv] \in Seq(TaskIds)
  BY <1>1 DEF TaskManagerState
<1>3. InQueue(s.running_[lv], s.cpu)
  BY <1>1, <1>2, FrontProps DEF CpuIsFront, Front
<1>4. s.level[s.cpu] = lv BY <1>1, <1>2, <1>3 DEF QueuedIffRunning
<1>5. InQueue(s.running_[s.level[t]], t) BY <1>1, <1>2 DEF QueuedIffRunning
<1>6. s.running_[s.level[t]] # <<>> BY <1>5 DEF InQueue
<1>7. ~(s.level[t] > lv) BY <1>1, <1>2, <1>6 DEF NoneAboveUnlessChanged
<1> QED BY <1>2, <1>4, <1>7 DEF Levels

\* Only SwitchTask moves the processor, and it leaves level_changed_ clear.
LEMMA SwitchClears ==
  ASSUME NEW s, s \in TaskManagerState, NEW b \in BOOLEAN
  PROVE  ~SwitchTask(s, b).level_changed_
BY DEF SwitchTask, TaskManagerState

\* Sleep moves the processor only through SwitchTask.
LEMMA SleepClears ==
  ASSUME NEW s, s \in TaskManagerState, NEW t \in TaskIds
  PROVE  Sleep(s, t).cpu # s.cpu => ~Sleep(s, t).level_changed_
<1> DEFINE off == [s EXCEPT !.running[t] = FALSE]
<1>1. off \in TaskManagerState BY DEF TaskManagerState
<1>2. ~SwitchTask(off, TRUE).level_changed_ BY <1>1, SwitchClears
<1>3. CASE ~s.running[t] BY <1>3 DEF Sleep
<1>4. CASE s.running[t] /\ t = Front(s) BY <1>2, <1>4 DEF Sleep
<1>5. CASE s.running[t] /\ t # Front(s)
  <2>1. Sleep(s, t).cpu = s.cpu BY <1>5 DEF Sleep, TaskManagerState
  <2> QED BY <2>1
<1> QED BY <1>3, <1>4, <1>5

\* Waking a task or changing its level never moves the processor.
LEMMA WakeupKeepsCpu ==
  ASSUME NEW s, s \in TaskManagerState, NEW t \in TaskIds, NEW level \in {-1} \cup Levels
  PROVE  Wakeup(s, t, level).cpu = s.cpu
<1>1. ChangeLevelRunning(s, t, level).cpu = s.cpu
  BY DEF ChangeLevelRunning, TaskManagerState
<1> QED BY <1>1 DEF Wakeup, TaskManagerState

\* Whenever the processor changes hands it goes to a task of the highest level
\* that has a runnable task, for any number of tasks and levels.
THEOREM HighestIsDispatched == Spec => DispatchesHighest
<1> DEFINE Goal == tm'.cpu # tm.cpu =>
             \A t \in TaskIds : tm'.running[t] => tm'.level[t] <= tm'.level[tm'.cpu]
<1>1. Inv /\ Inv' /\ [Next]_vars => [Goal]_vars
  <2> SUFFICES ASSUME Inv, Inv', [Next]_vars, tm'.cpu # tm.cpu
               PROVE  \A t \in TaskIds : tm'.running[t] => tm'.level[t] <= tm'.level[tm'.cpu]
    OBVIOUS
  <2>1. tm \in TaskManagerState /\ SchedulerInv(tm') BY DEF Inv, SchedulerInv
  <2>2. ~tm'.level_changed_
    <3>1. CASE Switch BY <2>1, <3>1, SwitchClears DEF Switch
    <3>2. CASE Create BY <2>1, <3>2 DEF Create, NewTask, TaskManagerState
    <3>3. CASE Receive BY <2>1, <3>3 DEF Receive, ReceiveMessage, TaskManagerState
    <3>4. ASSUME NEW id \in TaskIds, NEW m \in Messages, Send(id, m) PROVE FALSE
      <4> DEFINE mid == [tm EXCEPT !.msgs[id] = Append(@, m)]
             mm == [tm.msgs EXCEPT ![id] = Append(@, m)]
      <4>1. mm \in [TaskIds -> Seq(Messages)] BY <2>1 DEF TaskManagerState
      <4>2. mid = [tm EXCEPT !.msgs = mm] OBVIOUS
      <4> HIDE DEF mm
      <4>3. mid \in TaskManagerState /\ mid.cpu = tm.cpu BY <2>1, <4>1, <4>2 DEF TaskManagerState
      <4>4. Wakeup(mid, id, -1).cpu = tm.cpu BY <4>3, WakeupKeepsCpu
      <4> QED BY <3>4, <4>4 DEF Send, SendMessage
    <3>5. ASSUME NEW id \in TaskIds, PutToSleep(id) PROVE ~tm'.level_changed_
      BY <2>1, <3>5, SleepClears DEF PutToSleep, SleepId
    <3>6. ASSUME NEW id \in TaskIds, NEW level \in {-1} \cup Levels, WakeUp(id, level)
          PROVE  FALSE
      BY <2>1, <3>6, WakeupKeepsCpu DEF WakeUp, WakeupId
    <3>7. CASE UNCHANGED vars BY <3>7 DEF vars
    <3> QED BY <3>1, <3>2, <3>3, <3>4, <3>5, <3>6, <3>7 DEF Next
  <2> QED BY <2>1, <2>2, ClearMeansHighest
<1> QED BY <1>1, SchedulerInvariant, PTL DEF Spec, DispatchesHighest
=============================================================================
