--------------------------- MODULE XhciPortsProofs ---------------------------
(***************************************************************************)
(* Proofs about XhciPorts, for any number of ports, any ports that may be  *)
(* unplugged, with and without failing commands, and any number of         *)
(* connections and removals.                                               *)
(***************************************************************************)
EXTENDS XhciPorts, FiniteSetTheorems, FunctionTheorems, SequenceTheorems, TLAPS

-----------------------------------------------------------------------------
(* The inductive invariant *)

CommandTypes == {"EnableSlot", "AddressDevice", "ConfigureEndpoint"}
EventTypes == CommandTypes \cup {"port", "transfer"}
CommandRecord == [cmd : CommandTypes, slot : Slots]
EventRecord == [type : EventTypes, port : Ports \cup {0}, slot : Slots, ok : BOOLEAN]

Elems(q) == {q[k] : k \in 1..Len(q)}
Count(q, M) == Cardinality({k \in 1..Len(q) : q[k] \in M})
EventsOf(types) == {e \in EventRecord : e.type \in types}
CommandsOf(types) == {c \in CommandRecord : c.cmd \in types}
UnderWayOf(evs, coms, types) == Count(evs, EventsOf(types)) + Count(coms, CommandsOf(types))
UnderWay(types) == UnderWayOf(events, commands, types)

Addressing == {"EnableSlot", "AddressDevice"}
Addressed == {"kAddressingDevice", "kInitializingDevice", "kConfiguringEndpoints", "kConfigured"}

\* The ports whose phase says that a command of theirs is under way.
Commanding ==
  {p \in Ports : phase[p] \in {"kEnablingSlot", "kAddressingDevice", "kConfiguringEndpoints"}}

\* TypeOK without the commands, of which CommandOK says more.
StateTyped ==
  /\ phase \in [Ports -> Phases]
  /\ addressing_port \in Ports \cup {0}
  /\ allocated \subseteq Slots
  /\ input_port \in [Slots -> Ports \cup {0}] /\ ctx_port \in [Slots -> Ports \cup {0}]
  /\ boot \in 1..(MaxPorts + 1)
  /\ connected \in [Ports -> BOOLEAN] /\ enabled \in [Ports -> BOOLEAN]
  /\ csc \in [Ports -> BOOLEAN] /\ prc \in [Ports -> BOOLEAN]
  /\ announced \subseteq Ports /\ busy \subseteq Slots
  /\ changes \in 0..MaxChanges /\ trouble \in BOOLEAN
QueuesTyped == events \in Seq(EventRecord) /\ commands \in Seq(CommandRecord)

\* A command that enables a slot or addresses a device, or its completion, is
\* addressing_port's, which is in the phase that waits for it.
Serves(type) ==
  /\ addressing_port \in Ports
  /\ phase[addressing_port] = IF type = "EnableSlot" THEN "kEnablingSlot" ELSE "kAddressingDevice"

EventOK(e) ==
  /\ e.type \in Addressing => Serves(e.type)
  /\ e.type = "port" => e.port \in Ports
  /\ e.type \in {"transfer", "ConfigureEndpoint"} => ctx_port[e.slot] \in Ports

\* The device context of the port being addressed is still to be filled when
\* its Address Device command waits.
CommandOK(c) ==
  /\ c.cmd = "EnableSlot" => c.slot = 0
  /\ c.cmd # "EnableSlot" => c.slot \in allocated
  /\ c.cmd \in Addressing => Serves(c.cmd)
  /\ c.cmd = "AddressDevice" => /\ input_port[c.slot] = addressing_port
                                /\ \A t \in Slots : ctx_port[t] # addressing_port
  /\ c.cmd = "ConfigureEndpoint" => ctx_port[c.slot] \in Ports

\* A device context names a port that has been addressed, each another one
\* (slot 0, which failed Enable Slots share, apart).
SlotsOK ==
  /\ \A s \in Slots : ctx_port[s] \in Ports => phase[ctx_port[s]] \in Addressed
  /\ \A s, t \in Slots \ {0} : (ctx_port[s] = ctx_port[t] /\ ctx_port[s] \in Ports) => s = t
  /\ \A s \in busy : ctx_port[s] \in Ports

\* One command at most of the exclusive phases, and one per port in all.
Bounded ==
  /\ UnderWay(Addressing) <= 1
  /\ UnderWay(CommandTypes) <= Cardinality(Commanding)

IInv ==
  /\ StateTyped /\ QueuesTyped /\ OneAddressing
  /\ \A e \in Elems(events) : EventOK(e)
  /\ \A c \in Elems(commands) : CommandOK(c)
  /\ SlotsOK /\ Bounded

-----------------------------------------------------------------------------
(* Lemmas on queues *)

\* The positions of a queue's elements of a kind are finitely many.
LEMMA CountNat ==
  ASSUME NEW S, NEW q \in Seq(S), NEW M
  PROVE  /\ IsFiniteSet({k \in 1..Len(q) : q[k] \in M})
         /\ Count(q, M) \in Nat
<1>1. Len(q) \in Nat
  BY LenProperties
<1>2. IsFiniteSet(1..Len(q))
  BY <1>1, FS_Interval
<1>3. {k \in 1..Len(q) : q[k] \in M} \in SUBSET (1..Len(q))
  OBVIOUS
<1>4. IsFiniteSet({k \in 1..Len(q) : q[k] \in M})
  BY <1>2, <1>3, FS_Subset
<1> QED
  BY <1>4, FS_CardinalityType DEF Count

\* Adding an element counts it when it is of the kind.
LEMMA CountAppend ==
  ASSUME NEW S, NEW q \in Seq(S), NEW e \in S, NEW M
  PROVE  Count(Append(q, e), M) = Count(q, M) + (IF e \in M THEN 1 ELSE 0)
<1> DEFINE r == Append(q, e)
           A == {k \in 1..Len(q) : q[k] \in M}
           B == {k \in 1..Len(r) : r[k] \in M}
<1>1. /\ Len(q) \in Nat
      /\ Len(r) = Len(q) + 1
      /\ \A i \in 1..Len(q) : r[i] = q[i]
      /\ r[Len(q) + 1] = e
  BY AppendProperties, LenProperties
<1>2. IsFiniteSet(A) /\ Cardinality(A) \in Nat
  BY CountNat DEF Count
<1>3. Len(q) + 1 \notin A
  BY <1>1
<1>4. CASE e \in M
  <2>1. B = A \cup {Len(q) + 1}
    BY <1>1, <1>4
  <2> HIDE DEF A, B
  <2>2. Cardinality(B) = Cardinality(A) + 1
    BY <2>1, <1>2, <1>3, FS_AddElement
  <2> QED
    BY <1>4, <2>2 DEF Count, A, B
<1>5. CASE e \notin M
  <2>1. B = A
    BY <1>1, <1>5
  <2> HIDE DEF A, B
  <2>2. Cardinality(B) = Cardinality(A) + 0
    BY <1>2, <2>1
  <2> QED
    BY <1>5, <2>2 DEF Count, A, B
<1> QED
  BY <1>4, <1>5

\* Removing the first element takes it out of the count.
LEMMA CountTail ==
  ASSUME NEW S, NEW q \in Seq(S), q # <<>>, NEW M
  PROVE  Count(q, M) = Count(Tail(q), M) + (IF Head(q) \in M THEN 1 ELSE 0)
<1> DEFINE r == Tail(q)
           A == {k \in 1..Len(r) : r[k] \in M}
           B == {k \in 1..Len(q) : q[k] \in M}
           F == [k \in A |-> k + 1]
<1>1. /\ r \in Seq(S) /\ Len(q) \in Nat /\ Len(r) = Len(q) - 1
      /\ \A i \in 1..Len(r) : r[i] = q[i + 1]
  BY HeadTailProperties, LenProperties
<1>1a. Head(q) = q[1] /\ Len(q) >= 1 /\ Len(r) \in Nat
  BY <1>1
<1>2. IsFiniteSet(A) /\ Cardinality(A) \in Nat
  BY <1>1, CountNat DEF Count
<1>2b. IsFiniteSet(B) /\ Cardinality(B) \in Nat
  BY CountNat DEF Count
<1>3. F \in [A -> B \ {1}]
  <2> SUFFICES ASSUME NEW k \in A PROVE k + 1 \in B \ {1}
    OBVIOUS
  <2>1. k \in 1..Len(r) /\ r[k] \in M
    OBVIOUS
  <2>2. r[k] = q[k + 1] /\ k + 1 \in 1..Len(q) /\ k + 1 # 1
    BY <2>1, <1>1, <1>1a
  <2> QED
    BY <2>1, <2>2
<1>4. \A a, b \in A : F[a] = F[b] => a = b
  <2> SUFFICES ASSUME NEW a \in A, NEW b \in A, F[a] = F[b] PROVE a = b
    OBVIOUS
  <2>1. a \in Int /\ b \in Int /\ a + 1 = b + 1
    BY <1>1a
  <2> QED
    BY <2>1
<1>5. \A t \in B \ {1} : \E s \in A : F[s] = t
  <2> SUFFICES ASSUME NEW t \in B \ {1} PROVE \E s \in A : F[s] = t
    OBVIOUS
  <2>1. t \in 1..Len(q) /\ t # 1 /\ q[t] \in M
    OBVIOUS
  <2>2. PICK s : s = t - 1
    OBVIOUS
  <2>3. s \in 1..Len(r) /\ s + 1 = t
    BY <2>1, <2>2, <1>1, <1>1a
  <2>4. s \in A
    BY <2>1, <2>3, <1>1
  <2> QED
    BY <2>3, <2>4
<1>6. F \in Bijection(A, B \ {1})
  <2> HIDE DEF A, B, F
  <2> QED
    BY <1>3, <1>4, <1>5, Fun_IsBij
<1>7. Cardinality(B \ {1}) = Cardinality(A)
  <2> HIDE DEF A, B, F
  <2>1. ExistsBijection(A, B \ {1})
    BY <1>6 DEF ExistsBijection
  <2> QED
    BY <1>2, <2>1, FS_Bijection
<1>8. Cardinality(B) = Cardinality(A) + (IF 1 \in B THEN 1 ELSE 0)
  <2> HIDE DEF A, B, F
  <2>1. Cardinality(B \ {1}) = IF 1 \in B THEN Cardinality(B) - 1 ELSE Cardinality(B)
    BY <1>2b, FS_RemoveElement
  <2> QED
    BY <2>1, <1>7, <1>2, <1>2b
<1>9. 1 \in B <=> Head(q) \in M
  BY <1>1a, <1>1
<1> QED
  BY <1>8, <1>9, <1>2 DEF Count

\* A count of zero says that there is no such element, and the other way round.
LEMMA CountZero ==
  ASSUME NEW S, NEW q \in Seq(S), NEW M
  PROVE  Count(q, M) = 0 <=> \A e \in Elems(q) : e \notin M
<1> DEFINE A == {k \in 1..Len(q) : q[k] \in M}
<1>1. IsFiniteSet(A) /\ Count(q, M) = Cardinality(A)
  BY CountNat DEF Count
<1>2. Cardinality(A) = 0 <=> A = {}
  <2> HIDE DEF A
  <2> QED
    BY <1>1, FS_EmptySet
<1>3. A = {} <=> \A e \in Elems(q) : e \notin M
  BY DEF Elems
<1> QED
  BY <1>1, <1>2, <1>3

\* What a queue holds after an element is added, and after the first is removed.
LEMMA ElemsAppend ==
  ASSUME NEW S, NEW q \in Seq(S), NEW e \in S
  PROVE  /\ Append(q, e) \in Seq(S)
         /\ Elems(Append(q, e)) = Elems(q) \cup {e}
<1> DEFINE r == Append(q, e)
<1>1. /\ r \in Seq(S) /\ Len(q) \in Nat
      /\ Len(r) = Len(q) + 1
      /\ \A i \in 1..Len(q) : r[i] = q[i]
      /\ r[Len(q) + 1] = e
  BY AppendProperties, LenProperties
<1>2. \A k : k \in 1..Len(r) <=> (k \in 1..Len(q) \/ k = Len(q) + 1)
  BY <1>1
<1> QED
  BY <1>1, <1>2 DEF Elems

LEMMA ElemsTail ==
  ASSUME NEW S, NEW q \in Seq(S), q # <<>>
  PROVE  /\ Tail(q) \in Seq(S)
         /\ Head(q) \in Elems(q)
         /\ Elems(Tail(q)) \subseteq Elems(q)
<1> DEFINE r == Tail(q)
<1>1. /\ r \in Seq(S) /\ Len(q) \in Nat /\ Len(r) = Len(q) - 1
      /\ \A i \in 1..Len(r) : r[i] = q[i + 1]
  BY HeadTailProperties, LenProperties
<1>2. Head(q) = q[1] /\ Len(q) >= 1 /\ Len(r) \in Nat
  BY <1>1
<1>3. \A k \in 1..Len(r) : k + 1 \in 1..Len(q)
  BY <1>1, <1>2
<1>4. 1 \in 1..Len(q)
  BY <1>1, <1>2
<1> QED
  BY <1>1, <1>2, <1>3, <1>4 DEF Elems

LEMMA ElemsTyped ==
  ASSUME NEW S, NEW q \in Seq(S)
  PROVE  Elems(q) \subseteq S
BY ElementOfSeq, LenProperties DEF Elems

-----------------------------------------------------------------------------
(* Lemmas on the commands under way *)

LEMMA UnderWayNat ==
  ASSUME NEW evs \in Seq(EventRecord), NEW coms \in Seq(CommandRecord), NEW types
  PROVE  /\ Count(evs, EventsOf(types)) \in Nat /\ Count(coms, CommandsOf(types)) \in Nat
         /\ UnderWayOf(evs, coms, types) \in Nat
<1>1. Count(evs, EventsOf(types)) \in Nat
  BY CountNat
<1>2. Count(coms, CommandsOf(types)) \in Nat
  BY CountNat
<1> QED
  BY <1>1, <1>2 DEF UnderWayOf

LEMMA AddEvent ==
  ASSUME NEW evs \in Seq(EventRecord), NEW coms \in Seq(CommandRecord), NEW types,
         NEW e \in EventRecord
  PROVE  /\ e.type \in types => UnderWayOf(Append(evs, e), coms, types) = UnderWayOf(evs, coms, types) + 1
         /\ e.type \notin types => UnderWayOf(Append(evs, e), coms, types) = UnderWayOf(evs, coms, types)
<1>1. Count(Append(evs, e), EventsOf(types))
        = Count(evs, EventsOf(types)) + (IF e \in EventsOf(types) THEN 1 ELSE 0)
  BY CountAppend
<1>2. e \in EventsOf(types) <=> e.type \in types
  BY DEF EventsOf
<1>3. Count(evs, EventsOf(types)) \in Nat /\ Count(coms, CommandsOf(types)) \in Nat
  BY UnderWayNat
<1> QED
  BY <1>1, <1>2, <1>3, SMTT(30) DEF UnderWayOf

LEMMA AddCommand ==
  ASSUME NEW evs \in Seq(EventRecord), NEW coms \in Seq(CommandRecord), NEW types,
         NEW c \in CommandRecord
  PROVE  /\ c.cmd \in types => UnderWayOf(evs, Append(coms, c), types) = UnderWayOf(evs, coms, types) + 1
         /\ c.cmd \notin types => UnderWayOf(evs, Append(coms, c), types) = UnderWayOf(evs, coms, types)
<1>1. Count(Append(coms, c), CommandsOf(types))
        = Count(coms, CommandsOf(types)) + (IF c \in CommandsOf(types) THEN 1 ELSE 0)
  BY CountAppend
<1>2. c \in CommandsOf(types) <=> c.cmd \in types
  BY DEF CommandsOf
<1>3. Count(evs, EventsOf(types)) \in Nat /\ Count(coms, CommandsOf(types)) \in Nat
  BY UnderWayNat
<1> QED
  BY <1>1, <1>2, <1>3 DEF UnderWayOf

LEMMA PopEvent ==
  ASSUME NEW evs \in Seq(EventRecord), NEW coms \in Seq(CommandRecord), NEW types,
         evs # <<>>
  PROVE  /\ Head(evs).type \in types => UnderWayOf(evs, coms, types) = UnderWayOf(Tail(evs), coms, types) + 1
         /\ Head(evs).type \notin types => UnderWayOf(evs, coms, types) = UnderWayOf(Tail(evs), coms, types)
<1>1. Count(evs, EventsOf(types))
        = Count(Tail(evs), EventsOf(types)) + (IF Head(evs) \in EventsOf(types) THEN 1 ELSE 0)
  BY CountTail
<1>2. Head(evs) \in EventRecord /\ Tail(evs) \in Seq(EventRecord)
  BY HeadTailProperties
<1>3. Head(evs) \in EventsOf(types) <=> Head(evs).type \in types
  BY <1>2 DEF EventsOf
<1>4. Count(Tail(evs), EventsOf(types)) \in Nat /\ Count(coms, CommandsOf(types)) \in Nat
  BY <1>2, UnderWayNat
<1> QED
  BY <1>1, <1>3, <1>4 DEF UnderWayOf

LEMMA PopCommand ==
  ASSUME NEW evs \in Seq(EventRecord), NEW coms \in Seq(CommandRecord), NEW types,
         coms # <<>>
  PROVE  /\ Head(coms).cmd \in types => UnderWayOf(evs, coms, types) = UnderWayOf(evs, Tail(coms), types) + 1
         /\ Head(coms).cmd \notin types => UnderWayOf(evs, coms, types) = UnderWayOf(evs, Tail(coms), types)
<1>1. Count(coms, CommandsOf(types))
        = Count(Tail(coms), CommandsOf(types)) + (IF Head(coms) \in CommandsOf(types) THEN 1 ELSE 0)
  BY CountTail
<1>2. Head(coms) \in CommandRecord /\ Tail(coms) \in Seq(CommandRecord)
  BY HeadTailProperties
<1>3. Head(coms) \in CommandsOf(types) <=> Head(coms).cmd \in types
  BY <1>2 DEF CommandsOf
<1>4. Count(evs, EventsOf(types)) \in Nat /\ Count(Tail(coms), CommandsOf(types)) \in Nat
  BY <1>2, UnderWayNat
<1> QED
  BY <1>1, <1>3, <1>4 DEF UnderWayOf

\* No command under way is the same as none in either queue.
Absent(evs, coms, types) ==
  /\ \A e \in Elems(evs) : e.type \notin types
  /\ \A c \in Elems(coms) : c.cmd \notin types

LEMMA NoneUnderWay ==
  ASSUME NEW evs \in Seq(EventRecord), NEW coms \in Seq(CommandRecord), NEW types
  PROVE  UnderWayOf(evs, coms, types) = 0 <=> Absent(evs, coms, types)
<1>1. Count(evs, EventsOf(types)) = 0 <=> \A e \in Elems(evs) : e \notin EventsOf(types)
  BY CountZero
<1>2. Count(coms, CommandsOf(types)) = 0 <=> \A c \in Elems(coms) : c \notin CommandsOf(types)
  BY CountZero
<1>3. Elems(evs) \subseteq EventRecord /\ Elems(coms) \subseteq CommandRecord
  BY ElemsTyped
<1>4. /\ \A e \in Elems(evs) : e \in EventsOf(types) <=> e.type \in types
      /\ \A c \in Elems(coms) : c \in CommandsOf(types) <=> c.cmd \in types
  BY <1>3 DEF EventsOf, CommandsOf
<1>5. Count(evs, EventsOf(types)) \in Nat /\ Count(coms, CommandsOf(types)) \in Nat
  BY UnderWayNat
<1> QED
  BY <1>1, <1>2, <1>4, <1>5 DEF UnderWayOf, Absent

\* There are no more ports in the phases of a command than ports.
LEMMA CommandingBounded ==
  ASSUME PortsAssumption
  PROVE  /\ IsFiniteSet(Commanding)
         /\ Cardinality(Commanding) \in Nat
         /\ Cardinality(Commanding) <= MaxPorts
<1>1. IsFiniteSet(Ports) /\ Cardinality(Ports) = MaxPorts
  BY FS_Interval DEF Ports, PortsAssumption
<1>2. Commanding \in SUBSET Ports
  BY DEF Commanding
<1> QED
  BY <1>1, <1>2, FS_Subset, FS_CardinalityType

\* What a port's change of phase does to that number.
LEMMA CommandingChanges ==
  ASSUME PortsAssumption, NEW p \in Ports,
         \A q \in Ports : q # p => (q \in Commanding' <=> q \in Commanding)
  PROVE  /\ (p \notin Commanding /\ p \in Commanding')
              => Cardinality(Commanding)' = Cardinality(Commanding) + 1
         /\ (p \in Commanding /\ p \notin Commanding')
              => Cardinality(Commanding)' = Cardinality(Commanding) - 1
         /\ (p \in Commanding <=> p \in Commanding')
              => Cardinality(Commanding)' = Cardinality(Commanding)
<1>1. IsFiniteSet(Commanding)
  BY CommandingBounded
<1>2. Commanding \subseteq Ports /\ Commanding' \subseteq Ports
  BY DEF Commanding
<1> HIDE DEF Commanding
<1>3. (p \notin Commanding /\ p \in Commanding') => Commanding' = Commanding \cup {p}
  BY <1>2
<1>4. (p \in Commanding /\ p \notin Commanding') => Commanding' = Commanding \ {p}
  BY <1>2
<1>5. (p \in Commanding <=> p \in Commanding') => Commanding' = Commanding
  BY <1>2
<1>6. Cardinality(Commanding)' = Cardinality(Commanding')
  OBVIOUS
<1> QED
  BY <1>1, <1>3, <1>4, <1>5, <1>6, FS_AddElement, FS_RemoveElement

LEMMA CommandingMoves ==
  ASSUME PortsAssumption, NEW p \in Ports,
         \A q \in Ports : q # p => phase'[q] = phase[q]
  PROVE  /\ (p \notin Commanding /\ p \in Commanding')
              => Cardinality(Commanding)' = Cardinality(Commanding) + 1
         /\ (p \in Commanding /\ p \notin Commanding')
              => Cardinality(Commanding)' = Cardinality(Commanding) - 1
         /\ (p \in Commanding <=> p \in Commanding')
              => Cardinality(Commanding)' = Cardinality(Commanding)
<1>1. \A q \in Ports : q # p => (q \in Commanding' <=> q \in Commanding)
  BY DEF Commanding
<1> QED
  BY <1>1, CommandingChanges

-----------------------------------------------------------------------------
(* Steps that fill no device context *)

\* The commands of the exclusive phases that are under way are still those of
\* the port that holds the lock.
LockKept ==
  /\ addressing_port' = addressing_port /\ input_port' = input_port
  /\ addressing_port \in Ports => phase'[addressing_port] = phase[addressing_port]

EventKept(e) == e \in Elems(events) /\ (e.type \in Addressing => LockKept)
CommandKept(c) == c \in Elems(commands) /\ (c.cmd \in Addressing => LockKept)

\* An event that is no completion of a command.
Harmless(e) ==
  \/ e.type = "port" /\ e.port \in Ports
  \/ e.type = "transfer" /\ ctx_port[e.slot] \in Ports

\* Without the lock no command of the exclusive phases is under way, and
\* none while the port that holds it is being reset.
LEMMA LockGuardsCommands ==
  ASSUME PortsAssumption, IInv,
         addressing_port \in Ports => phase[addressing_port] = "kResettingPort"
  PROVE  Absent(events, commands, Addressing)
<1>1. ~Serves("EnableSlot") /\ ~Serves("AddressDevice")
  BY DEF Serves
<1>2. \A e \in Elems(events) : e.type \notin Addressing
  BY <1>1 DEF IInv, EventOK, Addressing
<1>3. \A c \in Elems(commands) : c.cmd \notin Addressing
  BY <1>1 DEF IInv, CommandOK, Addressing
<1> QED
  BY <1>2, <1>3 DEF Absent

\* What is in the queues after the step was there before or is in order by
\* itself, and the ports' phases and the counts fit.
LEMMA QueueStep ==
  ASSUME PortsAssumption, IInv, StateTyped', QueuesTyped', OneAddressing',
         ctx_port' = ctx_port, allocated \subseteq allocated',
         \A e \in Elems(events') : EventKept(e) \/ Harmless(e),
         \A c \in Elems(commands') : CommandKept(c) \/ CommandOK(c)',
         \A p \in Ports : phase[p] \in Addressed => phase'[p] \in Addressed,
         \A s \in busy' : ctx_port[s] \in Ports,
         UnderWay(Addressing)' <= 1,
         UnderWay(CommandTypes)' <= Cardinality(Commanding)'
  PROVE  IInv'
<1>1. \A e \in Elems(events') : EventOK(e)'
  <2> SUFFICES ASSUME NEW e \in Elems(events') PROVE EventOK(e)'
    OBVIOUS
  <2>1. CASE EventKept(e)
    <3>1. EventOK(e)
      BY <2>1 DEF IInv, EventKept
    <3>2. e.type \in Addressing => Serves(e.type)'
      BY <2>1, <3>1 DEF EventOK, EventKept, LockKept, Serves
    <3> QED
      BY <3>1, <3>2 DEF EventOK
  <2>2. CASE Harmless(e)
    BY <2>2 DEF Harmless, EventOK, Addressing
  <2> QED
    BY <2>1, <2>2
<1>2. \A c \in Elems(commands') : CommandOK(c)'
  <2> SUFFICES ASSUME NEW c \in Elems(commands'), CommandKept(c) PROVE CommandOK(c)'
    OBVIOUS
  <2>1. CommandOK(c)
    BY DEF IInv, CommandKept
  <2>2. c.cmd \in Addressing => Serves(c.cmd)'
    BY <2>1 DEF CommandKept, LockKept, Serves, CommandOK
  <2>3. c.cmd = "AddressDevice" => /\ input_port'[c.slot] = addressing_port'
                                   /\ \A t \in Slots : ctx_port[t] # addressing_port'
    BY <2>1 DEF CommandKept, LockKept, CommandOK, Addressing
  <2> QED
    BY <2>1, <2>2, <2>3 DEF CommandOK
<1>3. SlotsOK'
  <2>1. SlotsOK
    BY DEF IInv
  <2>2. \A s \in Slots : ctx_port'[s] \in Ports => phase'[ctx_port'[s]] \in Addressed
    BY <2>1 DEF SlotsOK
  <2>3. \A s \in busy' : ctx_port'[s] \in Ports
    OBVIOUS
  <2>4. \A s, t \in Slots \ {0} :
          (ctx_port'[s] = ctx_port'[t] /\ ctx_port'[s] \in Ports) => s = t
    BY <2>1 DEF SlotsOK
  <2> QED
    BY <2>2, <2>3, <2>4 DEF SlotsOK
<1> QED
  BY <1>1, <1>2, <1>3 DEF IInv, Bounded

\* The case in which no port changes its phase.
LEMMA UnmovedStep ==
  ASSUME PortsAssumption, IInv, StateTyped', QueuesTyped',
         UNCHANGED <<phase, addressing_port, allocated, input_port, ctx_port>>,
         Elems(commands') \subseteq Elems(commands),
         \A e \in Elems(events') : e \in Elems(events) \/ Harmless(e),
         \A s \in busy' : ctx_port[s] \in Ports,
         UnderWay(Addressing)' <= UnderWay(Addressing),
         UnderWay(CommandTypes)' <= UnderWay(CommandTypes)
  PROVE  IInv'
<1>1. OneAddressing'
  BY DEF IInv, OneAddressing
<1>2. LockKept
  BY DEF LockKept
<1>2a. /\ \A e \in Elems(events') : EventKept(e) \/ Harmless(e)
       /\ \A c \in Elems(commands') : CommandKept(c) \/ CommandOK(c)'
  BY <1>2 DEF EventKept, CommandKept
<1>3. /\ UnderWay(Addressing) \in Nat /\ UnderWay(Addressing)' \in Nat
      /\ UnderWay(CommandTypes) \in Nat /\ UnderWay(CommandTypes)' \in Nat
  BY UnderWayNat DEF IInv, QueuesTyped, UnderWay
<1>4. UnderWay(Addressing)' <= 1
  BY <1>3 DEF IInv, Bounded
<1>5. UnderWay(CommandTypes)' <= Cardinality(Commanding)'
  <2>1. Commanding' = Commanding
    BY DEF Commanding
  <2>2. Cardinality(Commanding)' = Cardinality(Commanding)
    BY <2>1
  <2>3. Cardinality(Commanding) \in Nat
    BY CommandingBounded
  <2> QED
    BY <1>3, <2>2, <2>3 DEF IInv, Bounded
<1> QED
  BY <1>1, <1>2a, <1>4, <1>5, QueueStep

\* The events that the model makes are events.
LEMMA EventTyped ==
  ASSUME PortsAssumption
  PROVE  /\ \A p \in Ports : /\ Event("port", p, 0, TRUE) \in EventRecord
                             /\ Harmless(Event("port", p, 0, TRUE))
                             /\ Event("port", p, 0, TRUE).type = "port"
BY DEF Event, EventRecord, EventTypes, CommandTypes, Slots, Harmless, PortsAssumption

LEMMA CompletionTyped ==
  ASSUME NEW s \in Slots, NEW ok \in BOOLEAN, NEW type \in EventTypes, NEW e,
         e = Event(type, 0, s, ok)
  PROVE  e \in EventRecord /\ e.type = type /\ e.slot = s
BY DEF Event, EventRecord

LEMMA Types ==
  /\ "port" \notin CommandTypes /\ "transfer" \notin CommandTypes
  /\ "port" \notin Addressing /\ "transfer" \notin Addressing
  /\ "ConfigureEndpoint" \notin Addressing
  /\ "EnableSlot" \in Addressing /\ "AddressDevice" \in Addressing
  /\ Addressing \subseteq CommandTypes /\ "ConfigureEndpoint" \in CommandTypes
  /\ "transfer" \in EventTypes /\ "port" \in EventTypes /\ CommandTypes \subseteq EventTypes
BY DEF CommandTypes, Addressing, EventTypes

LEMMA QueuesOfIInv ==
  ASSUME IInv
  PROVE  events \in Seq(EventRecord) /\ commands \in Seq(CommandRecord)
BY DEF IInv, QueuesTyped

\* An event that is no completion joins the queue.
LEMMA HarmlessEvent ==
  ASSUME PortsAssumption, NEW evs \in Seq(EventRecord), NEW coms \in Seq(CommandRecord),
         NEW e \in EventRecord, Harmless(e)
  PROVE  /\ Append(evs, e) \in Seq(EventRecord)
         /\ \A x \in Elems(Append(evs, e)) : x \in Elems(evs) \/ Harmless(x)
         /\ UnderWayOf(Append(evs, e), coms, Addressing) = UnderWayOf(evs, coms, Addressing)
         /\ UnderWayOf(Append(evs, e), coms, CommandTypes) = UnderWayOf(evs, coms, CommandTypes)
<1>1. e.type \notin CommandTypes /\ e.type \notin Addressing
  BY DEF Harmless, CommandTypes, Addressing
<1>2. /\ UnderWayOf(evs, coms, Addressing) \in Nat
      /\ UnderWayOf(evs, coms, CommandTypes) \in Nat
  BY UnderWayNat
<1>3. UnderWayOf(Append(evs, e), coms, Addressing) = UnderWayOf(evs, coms, Addressing)
  BY <1>1, <1>2, AddEvent
<1>4. UnderWayOf(Append(evs, e), coms, CommandTypes) = UnderWayOf(evs, coms, CommandTypes)
  BY <1>1, <1>2, AddEvent
<1>5. Append(evs, e) \in Seq(EventRecord) /\ Elems(Append(evs, e)) = Elems(evs) \cup {e}
  BY ElemsAppend
<1> QED
  BY <1>3, <1>4, <1>5

-----------------------------------------------------------------------------
(* The controller and the devices *)

LEMMA AnnounceStep ==
  ASSUME PortsAssumption, IInv, NEW p \in Ports, Announce(p)
  PROVE  IInv'
<1>1. PICK e : e = Event("port", p, 0, TRUE)
  OBVIOUS
<1>2. e \in EventRecord /\ Harmless(e)
  BY <1>1, EventTyped
<1>3. events' = Append(events, e) /\ commands' = commands
  BY <1>1 DEF Announce
<1>4. StateTyped'
  BY DEF Announce, IInv, StateTyped, driverVars, historyVars
<1>5. /\ events' \in Seq(EventRecord)
      /\ \A x \in Elems(events') : x \in Elems(events) \/ Harmless(x)
      /\ UnderWayOf(events', commands, Addressing) = UnderWayOf(events, commands, Addressing)
      /\ UnderWayOf(events', commands, CommandTypes) = UnderWayOf(events, commands, CommandTypes)
  BY <1>2, <1>3, HarmlessEvent, QueuesOfIInv
<1>6. QueuesTyped'
  BY <1>3, <1>5, QueuesOfIInv DEF QueuesTyped
<1>7. /\ UNCHANGED <<phase, addressing_port, allocated, input_port, ctx_port>>
      /\ busy' = busy
  BY DEF Announce, driverVars
<1>8. \A s \in busy : ctx_port[s] \in Ports
  BY DEF IInv, SlotsOK
<1>9. UnderWay(Addressing) \in Nat /\ UnderWay(CommandTypes) \in Nat
  BY UnderWayNat, QueuesOfIInv DEF UnderWay
<1>10. /\ UnderWay(Addressing)' <= UnderWay(Addressing)
       /\ UnderWay(CommandTypes)' <= UnderWay(CommandTypes)
  BY <1>3, <1>5, <1>9 DEF UnderWay
<1> QED
  BY <1>3, <1>4, <1>5, <1>6, <1>7, <1>8, <1>10, UnmovedStep

LEMMA PlugStep ==
  ASSUME PortsAssumption, IInv, NEW p \in Ports, Plug(p) \/ Unplug(p)
  PROVE  IInv'
<1>1. StateTyped'
  <2>1. CASE Plug(p)
    <3>1. enabled' \in [Ports -> BOOLEAN]
      BY <2>1 DEF Plug, IInv, StateTyped
    <3>2. /\ connected' \in [Ports -> BOOLEAN] /\ csc' \in [Ports -> BOOLEAN]
          /\ changes' \in 0..MaxChanges /\ UNCHANGED <<prc, announced, trouble>>
      BY <2>1 DEF Plug, IInv, StateTyped, PortsAssumption
    <3>3. UNCHANGED <<phase, addressing_port, allocated, input_port, boot, ctx_port, busy>>
      BY <2>1 DEF Plug, driverVars
    <3> QED
      BY <3>1, <3>2, <3>3 DEF IInv, StateTyped
  <2>2. CASE Unplug(p)
    BY <2>2 DEF Unplug, IInv, StateTyped, driverVars, PortsAssumption
  <2> QED
    BY <2>1, <2>2
<1>2. /\ UNCHANGED <<phase, addressing_port, allocated, input_port, ctx_port>>
      /\ busy' = busy /\ events' = events /\ commands' = commands
  BY DEF Plug, Unplug, driverVars
<1>3. QueuesTyped'
  BY <1>2, QueuesOfIInv DEF QueuesTyped
<1>4. \A s \in busy : ctx_port[s] \in Ports
  BY DEF IInv, SlotsOK
<1>5. UnderWay(Addressing) \in Nat /\ UnderWay(CommandTypes) \in Nat
  BY UnderWayNat, QueuesOfIInv DEF UnderWay
<1>6. /\ UnderWay(Addressing)' <= UnderWay(Addressing)
      /\ UnderWay(CommandTypes)' <= UnderWay(CommandTypes)
  BY <1>2, <1>5 DEF UnderWay
<1> QED
  BY <1>1, <1>2, <1>3, <1>4, <1>6, UnmovedStep

LEMMA CompleteTransferStep ==
  ASSUME PortsAssumption, IInv, NEW s \in Slots, NEW ok \in BOOLEAN, CompleteTransfer(s, ok)
  PROVE  IInv'
<1>1. PICK e : e = Event("transfer", 0, s, ok)
  OBVIOUS
<1>1a. "transfer" \in EventTypes
  BY Types
<1>2. e \in EventRecord /\ e.type = "transfer" /\ e.slot = s
  BY <1>1, <1>1a, CompletionTyped
<1>3. events' = Append(events, e) /\ commands' = commands
  BY <1>1 DEF CompleteTransfer
<1>4. \A t \in busy : ctx_port[t] \in Ports
  BY DEF IInv, SlotsOK
<1>5. Harmless(e)
  BY <1>2, <1>4 DEF Harmless, CompleteTransfer
<1>6. StateTyped'
  BY DEF CompleteTransfer, IInv, StateTyped, driverVars, portVars
<1>7. /\ events' \in Seq(EventRecord)
      /\ \A x \in Elems(events') : x \in Elems(events) \/ Harmless(x)
      /\ UnderWayOf(events', commands, Addressing) = UnderWayOf(events, commands, Addressing)
      /\ UnderWayOf(events', commands, CommandTypes) = UnderWayOf(events, commands, CommandTypes)
  BY <1>2, <1>3, <1>5, HarmlessEvent, QueuesOfIInv
<1>8. QueuesTyped'
  BY <1>3, <1>7, QueuesOfIInv DEF QueuesTyped
<1>9. /\ UNCHANGED <<phase, addressing_port, allocated, input_port, ctx_port>>
      /\ busy' \subseteq busy
  BY DEF CompleteTransfer, driverVars
<1>10. UnderWay(Addressing) \in Nat /\ UnderWay(CommandTypes) \in Nat
  BY UnderWayNat, QueuesOfIInv DEF UnderWay
<1>11. /\ UnderWay(Addressing)' <= UnderWay(Addressing)
       /\ UnderWay(CommandTypes)' <= UnderWay(CommandTypes)
  BY <1>3, <1>7, <1>10 DEF UnderWay
<1> QED
  BY <1>3, <1>4, <1>6, <1>7, <1>8, <1>9, <1>11, UnmovedStep

LEMMA ExecuteCommandStep ==
  ASSUME PortsAssumption, IInv, NEW ok \in BOOLEAN, ExecuteCommand(ok)
  PROVE  IInv'
<1>1. PICK c : c = Head(commands)
  OBVIOUS
<1>2. /\ commands # <<>> /\ commands' = Tail(commands)
      /\ events \in Seq(EventRecord) /\ commands \in Seq(CommandRecord)
  BY QueuesOfIInv DEF ExecuteCommand
<1>3. /\ Tail(commands) \in Seq(CommandRecord)
      /\ c \in Elems(commands) /\ Elems(Tail(commands)) \subseteq Elems(commands)
  BY <1>1, <1>2, ElemsTail
<1>4. c \in CommandRecord
  BY <1>2, <1>3, ElemsTyped
<1>5. PICK s \in SlotFor(c, ok) : events' = Append(events, Event(c.cmd, 0, s, ok))
  BY <1>1 DEF ExecuteCommand
<1>6. s \in Slots /\ (c.cmd # "EnableSlot" => s = c.slot)
  BY <1>4, <1>5 DEF SlotFor, CommandRecord, Slots, PortsAssumption
<1>7. PICK e : e = Event(c.cmd, 0, s, ok)
  OBVIOUS
<1>8. c.cmd \in CommandTypes /\ c.cmd \in EventTypes
  BY <1>4, Types DEF CommandRecord
<1>9. e \in EventRecord /\ e.type = c.cmd /\ e.slot = s
  BY <1>6, <1>7, <1>8, CompletionTyped
<1>10. events' \in Seq(EventRecord) /\ Elems(events') = Elems(events) \cup {e}
  BY <1>2, <1>5, <1>7, <1>9, ElemsAppend
<1>11. CommandOK(c)
  BY <1>3 DEF IInv
<1>12. /\ UNCHANGED <<phase, addressing_port, allocated, input_port, busy>>
       /\ ctx_port' = IF c.cmd = "AddressDevice" /\ ok
                      THEN [ctx_port EXCEPT ![c.slot] = input_port[c.slot]] ELSE ctx_port
  BY <1>1 DEF ExecuteCommand, driverVars
<1>13. ctx_port \in [Slots -> Ports \cup {0}] /\ c.slot \in Slots
  BY <1>4 DEF IInv, StateTyped, CommandRecord
\* The device context that the command fills names the port that holds the lock.
<1>14. c.cmd = "AddressDevice" => /\ input_port[c.slot] = addressing_port
                                  /\ addressing_port \in Ports
                                  /\ phase[addressing_port] = "kAddressingDevice"
                                  /\ \A t \in Slots : ctx_port[t] # addressing_port
  BY <1>11 DEF CommandOK, Serves, Addressing
<1>15. /\ \A t \in Slots : ctx_port[t] \in Ports => ctx_port'[t] \in Ports
       /\ \A t \in Slots : ctx_port'[t] = ctx_port[t]
                             \/ (t = c.slot /\ ctx_port'[t] = addressing_port
                                 /\ c.cmd = "AddressDevice")
       /\ ctx_port' \in [Slots -> Ports \cup {0}]
  BY <1>12, <1>13, <1>14
<1>16. StateTyped'
  BY <1>15 DEF ExecuteCommand, IInv, StateTyped, driverVars, portVars
<1>17. QueuesTyped'
  BY <1>2, <1>3, <1>10 DEF QueuesTyped
<1>18. OneAddressing'
  BY <1>12 DEF IInv, OneAddressing
\* It was the only one of the exclusive phases.
<1>19. c.cmd = "AddressDevice" => Absent(events, Tail(commands), Addressing)
  <2> SUFFICES ASSUME c.cmd = "AddressDevice"
               PROVE  Absent(events, Tail(commands), Addressing)
    OBVIOUS
  <2>1. UnderWayOf(events, commands, Addressing) = UnderWayOf(events, Tail(commands), Addressing) + 1
    BY <1>1, <1>2, PopCommand, Types
  <2>2. UnderWayOf(events, commands, Addressing) <= 1
    BY DEF IInv, Bounded, UnderWay
  <2>3. UnderWayOf(events, Tail(commands), Addressing) \in Nat
    BY <1>2, <1>3, UnderWayNat
  <2>4. UnderWayOf(events, Tail(commands), Addressing) = 0
    BY <2>1, <2>2, <2>3
  <2> QED
    BY <2>4, <1>2, <1>3, NoneUnderWay
<1>20. \A x \in Elems(events') : EventOK(x)'
  <2> SUFFICES ASSUME NEW x \in Elems(events') PROVE EventOK(x)'
    OBVIOUS
  <2>1. x \in EventRecord
    BY <1>10, ElemsTyped
  <2>2. CASE x \in Elems(events)
    <3>1. EventOK(x)
      BY <2>2 DEF IInv
    <3> QED
      BY <3>1, <2>1, <1>12, <1>15 DEF EventOK, Serves, EventRecord
  <2>3. CASE x = e
    <3>1. x.type \in Addressing => Serves(x.type)
      BY <2>3, <1>9, <1>11 DEF CommandOK
    <3>2. x.type # "port" /\ x.type # "transfer"
      BY <2>3, <1>8, <1>9 DEF CommandTypes
    <3>3. x.type = "ConfigureEndpoint" => ctx_port[x.slot] \in Ports
      BY <2>3, <1>6, <1>9, <1>11 DEF CommandOK
    <3> QED
      BY <3>1, <3>2, <3>3, <2>1, <1>12, <1>15 DEF EventOK, Serves, EventRecord
  <2> QED
    BY <2>2, <2>3, <1>10
<1>21. \A x \in Elems(commands') : CommandOK(x)'
  <2> SUFFICES ASSUME NEW x \in Elems(commands') PROVE CommandOK(x)'
    OBVIOUS
  <2>1. x \in Elems(commands) /\ x \in Elems(Tail(commands)) /\ x \in CommandRecord
    BY <1>2, <1>3, ElemsTyped
  <2>2. CommandOK(x)
    BY <2>1 DEF IInv
  <2>3. c.cmd = "AddressDevice" => x.cmd \notin Addressing
    BY <2>1, <1>19 DEF Absent
  <2>4. x.cmd = "AddressDevice" => ctx_port' = ctx_port
    BY <2>3, <1>12, Types
  <2>5. x.cmd = "ConfigureEndpoint" => ctx_port'[x.slot] \in Ports
    BY <2>1, <2>2, <1>15 DEF CommandOK, CommandRecord
  <2>6. x.cmd \in Addressing => Serves(x.cmd)'
    BY <2>2, <1>12 DEF CommandOK, Serves
  <2> QED
    BY <2>2, <2>4, <2>5, <2>6, <1>12 DEF CommandOK
<1>22. SlotsOK'
  <2>1. SlotsOK
    BY DEF IInv
  <2>2. \A t \in Slots : ctx_port'[t] \in Ports => phase'[ctx_port'[t]] \in Addressed
    BY <2>1, <1>12, <1>14, <1>15 DEF SlotsOK, Addressed
  <2>3. \A t, u \in Slots \ {0} :
          (ctx_port'[t] = ctx_port'[u] /\ ctx_port'[t] \in Ports) => t = u
    BY <2>1, <1>14, <1>15 DEF SlotsOK
  <2>4. \A t \in busy' : ctx_port'[t] \in Ports
    BY <2>1, <1>12, <1>15 DEF SlotsOK, IInv, StateTyped
  <2> QED
    BY <2>2, <2>3, <2>4 DEF SlotsOK
<1>23. Bounded'
  <2>1. \A types : UnderWayOf(events', commands', types) = UnderWayOf(events, commands, types)
    <3> SUFFICES ASSUME NEW types
                 PROVE  UnderWayOf(events', commands', types) = UnderWayOf(events, commands, types)
      OBVIOUS
    <3>1. /\ c.cmd \in types => UnderWayOf(events, commands, types)
                                 = UnderWayOf(events, Tail(commands), types) + 1
          /\ c.cmd \notin types => UnderWayOf(events, commands, types)
                                    = UnderWayOf(events, Tail(commands), types)
      BY <1>1, <1>2, PopCommand
    <3>2. /\ e.type \in types => UnderWayOf(Append(events, e), Tail(commands), types)
                                  = UnderWayOf(events, Tail(commands), types) + 1
          /\ e.type \notin types => UnderWayOf(Append(events, e), Tail(commands), types)
                                     = UnderWayOf(events, Tail(commands), types)
      BY <1>2, <1>3, <1>9, AddEvent
    <3>3. events' = Append(events, e) /\ commands' = Tail(commands)
      BY <1>2, <1>5, <1>7
    <3> QED
      BY <3>1, <3>2, <3>3, <1>9
  <2>2. Commanding' = Commanding
    BY <1>12 DEF Commanding
  <2>3. Bounded
    BY DEF IInv
  <2> QED
    BY <2>1, <2>2, <2>3 DEF Bounded, UnderWay
<1> QED
  BY <1>16, <1>17, <1>18, <1>20, <1>21, <1>22, <1>23 DEF IInv

-----------------------------------------------------------------------------
(* The driver *)

\* What an event handler finds and what is left when the event is popped.
LEMMA PoppedEvents ==
  ASSUME PortsAssumption, IInv, events # <<>>
  PROVE  /\ Head(events) \in EventRecord /\ EventOK(Head(events))
         /\ Tail(events) \in Seq(EventRecord) /\ Elems(Tail(events)) \subseteq Elems(events)
         /\ UnderWayOf(Tail(events), commands, Addressing) <= UnderWay(Addressing)
         /\ UnderWayOf(Tail(events), commands, CommandTypes) <= UnderWay(CommandTypes)
         /\ UnderWay(Addressing) \in Nat /\ UnderWay(CommandTypes) \in Nat
         /\ UnderWayOf(Tail(events), commands, Addressing) \in Nat
         /\ UnderWayOf(Tail(events), commands, CommandTypes) \in Nat
<1>1. events \in Seq(EventRecord) /\ commands \in Seq(CommandRecord)
  BY QueuesOfIInv
<1>2. /\ Tail(events) \in Seq(EventRecord) /\ Head(events) \in Elems(events)
      /\ Elems(Tail(events)) \subseteq Elems(events)
  BY <1>1, ElemsTail
<1>3. Head(events) \in EventRecord
  BY <1>1, <1>2, ElemsTyped
<1>4. EventOK(Head(events))
  BY <1>2 DEF IInv
<1>5. /\ UnderWayOf(Tail(events), commands, Addressing) \in Nat
      /\ UnderWayOf(Tail(events), commands, CommandTypes) \in Nat
  BY <1>1, <1>2, UnderWayNat
<1>6. \/ UnderWay(Addressing) = UnderWayOf(Tail(events), commands, Addressing) + 1
      \/ UnderWay(Addressing) = UnderWayOf(Tail(events), commands, Addressing)
  BY <1>1, PopEvent DEF UnderWay
<1>7. \/ UnderWay(CommandTypes) = UnderWayOf(Tail(events), commands, CommandTypes) + 1
      \/ UnderWay(CommandTypes) = UnderWayOf(Tail(events), commands, CommandTypes)
  BY <1>1, PopEvent DEF UnderWay
<1> HIDE DEF UnderWay
<1> QED
  BY <1>2, <1>3, <1>4, <1>5, <1>6, <1>7

LEMMA IgnoreStep ==
  ASSUME PortsAssumption, IInv, events # <<>>, Ignore,
         UNCHANGED <<boot, ctx_port>>
  PROVE  IInv'
<1>1. StateTyped'
  BY DEF IInv, StateTyped, Ignore, portVars, historyVars
<1>2. events' = Tail(events) /\ commands' = commands /\ busy' = busy
  BY DEF Ignore
<1>3. QueuesTyped'
  BY <1>2, PoppedEvents, QueuesOfIInv DEF QueuesTyped
<1>4. UNCHANGED <<phase, addressing_port, allocated, input_port, ctx_port>>
  BY DEF Ignore
<1>5. \A e \in Elems(events') : e \in Elems(events) \/ Harmless(e)
  BY <1>2, PoppedEvents
<1>6. \A s \in busy' : ctx_port[s] \in Ports
  BY <1>2 DEF IInv, SlotsOK
<1>7. /\ UnderWay(Addressing)' <= UnderWay(Addressing)
      /\ UnderWay(CommandTypes)' <= UnderWay(CommandTypes)
  BY <1>2, PoppedEvents DEF UnderWay
<1> QED
  BY <1>1, <1>2, <1>3, <1>4, <1>5, <1>6, <1>7, UnmovedStep

\* What the reset of a port adds to the events.
LEMMA ResetEventsHarmless ==
  ASSUME PortsAssumption, NEW p \in Ports, NEW evs \in Seq(EventRecord),
         NEW coms \in Seq(CommandRecord)
  PROVE  /\ ResetEvents(p, evs) \in Seq(EventRecord)
         /\ \A e \in Elems(ResetEvents(p, evs)) : e \in Elems(evs) \/ Harmless(e)
         /\ UnderWayOf(ResetEvents(p, evs), coms, Addressing) = UnderWayOf(evs, coms, Addressing)
         /\ UnderWayOf(ResetEvents(p, evs), coms, CommandTypes) = UnderWayOf(evs, coms, CommandTypes)
<1>1. PICK e : e = Event("port", p, 0, TRUE)
  OBVIOUS
<1>2. e \in EventRecord /\ Harmless(e)
  BY <1>1, EventTyped
<1>3. CASE prc[p]
  BY <1>3 DEF ResetEvents
<1>4. CASE ~prc[p]
  <2>1. ResetEvents(p, evs) = Append(evs, e)
    BY <1>1, <1>4 DEF ResetEvents
  <2> QED
    BY <2>1, <1>2, HarmlessEvent
<1> QED
  BY <1>3, <1>4

\* A reset keeps the types of the port registers and adds no completion,
\* whether the device is still there or not.
PortsTyped ==
  /\ connected \in [Ports -> BOOLEAN] /\ enabled \in [Ports -> BOOLEAN]
  /\ csc \in [Ports -> BOOLEAN] /\ prc \in [Ports -> BOOLEAN]
  /\ announced \subseteq Ports
  /\ changes \in 0..MaxChanges /\ trouble \in BOOLEAN

LEMMA ResetAdds ==
  ASSUME PortsAssumption, PortsTyped, NEW p \in Ports, NEW evs \in Seq(EventRecord),
         NEW coms \in Seq(CommandRecord), Reset(p, evs)
  PROVE  /\ PortsTyped'
         /\ events' \in Seq(EventRecord)
         /\ \A e \in Elems(events') : e \in Elems(evs) \/ Harmless(e)
         /\ UnderWayOf(events', coms, Addressing) = UnderWayOf(evs, coms, Addressing)
         /\ UnderWayOf(events', coms, CommandTypes) = UnderWayOf(evs, coms, CommandTypes)
<1>1. PortsTyped'
  <2>1. CASE UNCHANGED <<connected, historyVars>>
    BY <2>1 DEF PortsTyped, Reset, historyVars
  <2>2. CASE /\ changes < MaxChanges /\ changes' = changes + 1 /\ trouble' = TRUE
             /\ connected' = [connected EXCEPT ![p] = FALSE]
             /\ UNCHANGED <<prc, enabled>>
    <3>1. changes' \in 0..MaxChanges
      BY <2>2 DEF PortsTyped, PortsAssumption
    <3> QED
      BY <2>2, <3>1 DEF PortsTyped, Reset
  <2> QED
    BY <2>1, <2>2 DEF Reset
<1>2. CASE events' = ResetEvents(p, evs)
  BY <1>1, <1>2, ResetEventsHarmless
<1>3. CASE events' = evs
  BY <1>1, <1>3
<1> QED
  BY <1>2, <1>3 DEF Reset

\* A port that is not set up yet is reset, or waits for the lock.
LEMMA ResetPortStep ==
  ASSUME PortsAssumption, IInv, NEW p \in Ports, phase[p] = "kNotConnected",
         NEW evs \in Seq(EventRecord), Elems(evs) \subseteq Elems(events),
         UnderWayOf(evs, commands, Addressing) <= UnderWay(Addressing),
         UnderWayOf(evs, commands, CommandTypes) <= UnderWay(CommandTypes),
         ResetPort(p, addressing_port, phase, evs),
         UNCHANGED <<allocated, input_port, ctx_port, commands, busy>>,
         boot' \in 1..(MaxPorts + 1)
  PROVE  IInv'
<1> DEFINE old == addressing_port
<1>1. /\ commands \in Seq(CommandRecord) /\ phase \in [Ports -> Phases]
      /\ events \in Seq(EventRecord) /\ 0 \notin Ports
  BY QueuesOfIInv DEF IInv, StateTyped, Ports
<1>2. /\ UnderWayOf(evs, commands, Addressing) \in Nat
      /\ UnderWayOf(evs, commands, CommandTypes) \in Nat
      /\ UnderWay(Addressing) \in Nat /\ UnderWay(CommandTypes) \in Nat
  BY <1>1, UnderWayNat DEF UnderWay
<1>3. UnderWay(Addressing) <= 1 /\ UnderWay(CommandTypes) <= Cardinality(Commanding)
  BY DEF IInv, Bounded
<1>4. \A s \in busy' : ctx_port[s] \in Ports
  BY DEF IInv, SlotsOK
<1>5. CASE ~connected[p] /\ phase' = phase /\ addressing_port' = old /\ NoReset(evs)
  <2>1. StateTyped'
    BY <1>5 DEF IInv, StateTyped, NoReset, historyVars
  <2>2. QueuesTyped'
    BY <1>1, <1>5 DEF QueuesTyped, NoReset
  <2>3. \A e \in Elems(events') : e \in Elems(events) \/ Harmless(e)
    BY <1>5 DEF NoReset
  <2>4. /\ UnderWay(Addressing)' <= UnderWay(Addressing)
        /\ UnderWay(CommandTypes)' <= UnderWay(CommandTypes)
    BY <1>5 DEF NoReset, UnderWay
  <2> QED
    BY <1>4, <1>5, <2>1, <2>2, <2>3, <2>4, UnmovedStep
<1>6. ASSUME NEW new \in {"kWaitingAddressed", "kResettingPort"},
             phase' = [phase EXCEPT ![p] = new]
      PROVE  /\ \A q \in Ports : phase[q] \in Addressed => phase'[q] \in Addressed
             /\ Cardinality(Commanding)' = Cardinality(Commanding)
             /\ phase' \in [Ports -> Phases]
             /\ phase'[p] = new /\ \A q \in Ports : q # p => phase'[q] = phase[q]
  <2>1. phase'[p] = new /\ \A q \in Ports : q # p => phase'[q] = phase[q]
    BY <1>1, <1>6
  <2>2. p \notin Commanding /\ p \notin Commanding'
    BY <2>1 DEF Commanding
  <2>3. Cardinality(Commanding)' = Cardinality(Commanding)
    BY <2>1, <2>2, CommandingMoves
  <2>4. \A q \in Ports : phase[q] \in Addressed => phase'[q] \in Addressed
    BY <2>1 DEF Addressed
  <2>5. phase' \in [Ports -> Phases]
    BY <1>1, <1>6 DEF Phases
  <2> QED
    BY <2>1, <2>3, <2>4, <2>5
<1>7. CASE /\ connected[p] /\ old # 0
           /\ phase' = [phase EXCEPT ![p] = "kWaitingAddressed"] /\ addressing_port' = old
           /\ NoReset(evs)
  <2>1. /\ \A q \in Ports : phase[q] \in Addressed => phase'[q] \in Addressed
        /\ Cardinality(Commanding)' = Cardinality(Commanding)
        /\ phase' \in [Ports -> Phases]
        /\ phase'[p] = "kWaitingAddressed" /\ \A q \in Ports : q # p => phase'[q] = phase[q]
    BY <1>6, <1>7
  <2>2. StateTyped'
    BY <1>7, <2>1 DEF IInv, StateTyped, NoReset, historyVars
  <2>3. QueuesTyped'
    BY <1>1, <1>7 DEF QueuesTyped, NoReset
  <2>4. OneAddressing'
    BY <1>7, <2>1 DEF IInv, OneAddressing, Exclusive
  <2>5. LockKept
    <3>1. old \in Ports => phase[old] \in Exclusive
      BY <1>1 DEF IInv, OneAddressing
    <3>2. old # p
      BY <3>1 DEF Exclusive
    <3> QED
      BY <1>7, <2>1, <3>2 DEF LockKept
  <2>6. /\ \A e \in Elems(events') : EventKept(e) \/ Harmless(e)
        /\ \A c \in Elems(commands') : CommandKept(c) \/ CommandOK(c)'
    BY <1>7, <2>5 DEF EventKept, CommandKept, NoReset
  <2>7. /\ UnderWay(Addressing)' <= 1
        /\ UnderWay(CommandTypes)' <= Cardinality(Commanding)'
    <3>1. events' = evs /\ commands' = commands
      BY <1>7 DEF NoReset
    <3>2. Cardinality(Commanding) \in Nat
      BY CommandingBounded
    <3> QED
      BY <1>2, <1>3, <2>1, <3>1, <3>2 DEF UnderWay
  <2> QED
    BY <1>4, <2>1, <2>2, <2>3, <2>4, <2>6, <2>7, QueueStep
<1>8. CASE /\ connected[p] /\ old = 0
           /\ phase' = [phase EXCEPT ![p] = "kResettingPort"] /\ addressing_port' = p
           /\ Reset(p, evs)
  <2>1. /\ \A q \in Ports : phase[q] \in Addressed => phase'[q] \in Addressed
        /\ Cardinality(Commanding)' = Cardinality(Commanding)
        /\ phase' \in [Ports -> Phases]
        /\ phase'[p] = "kResettingPort" /\ \A q \in Ports : q # p => phase'[q] = phase[q]
    BY <1>6, <1>8
  <2>3. commands' = commands
    OBVIOUS
  <2>4. /\ PortsTyped'
        /\ events' \in Seq(EventRecord)
        /\ \A e \in Elems(events') : e \in Elems(evs) \/ Harmless(e)
        /\ UnderWayOf(events', commands, Addressing) = UnderWayOf(evs, commands, Addressing)
        /\ UnderWayOf(events', commands, CommandTypes) = UnderWayOf(evs, commands, CommandTypes)
    <3>1. PortsTyped
      BY DEF IInv, StateTyped, PortsTyped
    <3> QED
      BY <1>1, <1>8, <3>1, ResetAdds
  <2>2. StateTyped'
    BY <1>8, <2>1, <2>4 DEF IInv, StateTyped, PortsTyped
  <2>5. QueuesTyped'
    BY <1>1, <2>3, <2>4 DEF QueuesTyped
  <2>6. OneAddressing'
    <3>1. \A q \in Ports : phase[q] \notin Exclusive
      BY <1>1, <1>8 DEF IInv, OneAddressing
    <3> QED
      BY <1>1, <1>8, <2>1, <3>1 DEF OneAddressing, Exclusive
  <2>7. Absent(events, commands, Addressing)
    BY <1>1, <1>8, LockGuardsCommands
  <2>8. /\ \A e \in Elems(events') : EventKept(e) \/ Harmless(e)
        /\ \A c \in Elems(commands') : CommandKept(c) \/ CommandOK(c)'
    BY <2>3, <2>4, <2>7 DEF EventKept, CommandKept, Absent
  <2>9. /\ UnderWay(Addressing)' <= 1
        /\ UnderWay(CommandTypes)' <= Cardinality(Commanding)'
    <3>1. Cardinality(Commanding) \in Nat
      BY CommandingBounded
    <3> QED
      BY <1>2, <1>3, <2>1, <2>3, <2>4, <3>1 DEF UnderWay
  <2> QED
    BY <1>4, <2>1, <2>2, <2>5, <2>6, <2>8, <2>9, QueueStep
<1> QED
  BY <1>5, <1>7, <1>8 DEF ResetPort

LEMMA ConfigurePortStep ==
  ASSUME PortsAssumption, IInv, ConfigurePort
  PROVE  IInv'
<1>1. PICK p : p = boot
  OBVIOUS
<1>2. p \in Ports /\ boot' \in 1..(MaxPorts + 1)
  BY <1>1 DEF ConfigurePort, Ports, PortsAssumption
<1>3. UNCHANGED <<allocated, input_port, ctx_port, commands, busy>>
  BY DEF ConfigurePort
<1>4. events \in Seq(EventRecord) /\ commands \in Seq(CommandRecord)
  BY QueuesOfIInv
<1>5. UnderWay(Addressing) \in Nat /\ UnderWay(CommandTypes) \in Nat
  BY <1>4, UnderWayNat DEF UnderWay
<1>6. CASE connected[p] /\ phase[p] = "kNotConnected"
  <2>1. ResetPort(p, addressing_port, phase, events)
    BY <1>1, <1>6 DEF ConfigurePort
  <2>2. /\ UnderWayOf(events, commands, Addressing) <= UnderWay(Addressing)
        /\ UnderWayOf(events, commands, CommandTypes) <= UnderWay(CommandTypes)
    BY <1>5 DEF UnderWay
  <2> QED
    BY <1>2, <1>3, <1>4, <1>6, <2>1, <2>2, ResetPortStep
<1>7. CASE ~(connected[p] /\ phase[p] = "kNotConnected")
  <2>1. UNCHANGED <<phase, addressing_port>> /\ NoReset(events)
    BY <1>1, <1>7 DEF ConfigurePort
  <2>2. StateTyped'
    BY <1>2, <1>3, <2>1 DEF IInv, StateTyped, NoReset, historyVars
  <2>3. events' = events /\ commands' = commands /\ busy' = busy
    BY <1>3, <2>1 DEF NoReset
  <2>4. QueuesTyped'
    BY <1>4, <2>3 DEF QueuesTyped
  <2>5. \A s \in busy' : ctx_port[s] \in Ports
    BY <2>3 DEF IInv, SlotsOK
  <2>6. /\ UnderWay(Addressing)' <= UnderWay(Addressing)
        /\ UnderWay(CommandTypes)' <= UnderWay(CommandTypes)
    BY <2>3, <1>5 DEF UnderWay
  <2> QED
    BY <1>3, <2>1, <2>2, <2>3, <2>4, <2>5, <2>6, UnmovedStep
<1> QED
  BY <1>6, <1>7

\* A port moves on with a command: the event that moves it is popped and the
\* command pushed.
LEMMA PushStep ==
  ASSUME PortsAssumption, IInv, events # <<>>, StateTyped', OneAddressing',
         NEW p \in Ports, NEW c \in CommandRecord,
         \A q \in Ports : q # p => phase'[q] = phase[q],
         phase[p] \in Addressed => phase'[p] \in Addressed,
         events' = Tail(events), commands' = Append(commands, c), busy' = busy,
         ctx_port' = ctx_port, allocated \subseteq allocated',
         LockKept \/ Absent(Tail(events), commands, Addressing),
         CommandOK(c)',
         c.cmd \in Addressing => UnderWayOf(Tail(events), commands, Addressing) = 0,
         p \in Commanding', c.cmd \in CommandTypes,
         p \in Commanding => Head(events).type \in CommandTypes
  PROVE  IInv'
<1>1. events \in Seq(EventRecord) /\ commands \in Seq(CommandRecord)
  BY QueuesOfIInv
<1>2. /\ Tail(events) \in Seq(EventRecord) /\ Elems(Tail(events)) \subseteq Elems(events)
      /\ UnderWayOf(Tail(events), commands, Addressing) <= UnderWay(Addressing)
      /\ UnderWay(Addressing) \in Nat /\ UnderWay(CommandTypes) \in Nat
      /\ UnderWayOf(Tail(events), commands, Addressing) \in Nat
      /\ UnderWayOf(Tail(events), commands, CommandTypes) \in Nat
      /\ UnderWayOf(Tail(events), commands, CommandTypes) <= UnderWay(CommandTypes)
  BY PoppedEvents
<1>3. Append(commands, c) \in Seq(CommandRecord) /\ Elems(commands') = Elems(commands) \cup {c}
  BY <1>1, ElemsAppend
<1>4. QueuesTyped'
  BY <1>2, <1>3 DEF QueuesTyped
<1>5. \A e \in Elems(events') : EventKept(e) \/ Harmless(e)
  BY <1>2 DEF EventKept, Absent
<1>6. \A d \in Elems(commands') : CommandKept(d) \/ CommandOK(d)'
  BY <1>3 DEF CommandKept, Absent
<1>7. \A q \in Ports : phase[q] \in Addressed => phase'[q] \in Addressed
  OBVIOUS
<1>8. \A s \in busy' : ctx_port[s] \in Ports
  BY DEF IInv, SlotsOK
<1>9. UnderWay(Addressing)' <= 1
  <2>1. UnderWay(Addressing) <= 1
    BY DEF IInv, Bounded
  <2>2. CASE c.cmd \in Addressing
    <3>1. UnderWayOf(Tail(events), Append(commands, c), Addressing)
            = UnderWayOf(Tail(events), commands, Addressing) + 1
      BY <1>1, <1>2, <2>2, AddCommand
    <3> QED
      BY <2>2, <3>1 DEF UnderWay
  <2>3. CASE c.cmd \notin Addressing
    <3>1. UnderWayOf(Tail(events), Append(commands, c), Addressing)
            = UnderWayOf(Tail(events), commands, Addressing)
      BY <1>1, <1>2, <2>3, AddCommand
    <3> HIDE DEF UnderWay
    <3>2. UnderWay(Addressing)' = UnderWayOf(Tail(events), Append(commands, c), Addressing)
      BY DEF UnderWay
    <3> QED
      BY <2>1, <1>2, <3>1, <3>2
  <2> QED
    BY <2>2, <2>3
<1>10. UnderWay(CommandTypes)' <= Cardinality(Commanding)'
  <2>1. UnderWay(CommandTypes) <= Cardinality(Commanding)
    BY DEF IInv, Bounded
  <2>2. Cardinality(Commanding) \in Nat
    BY CommandingBounded
  <2>3. UnderWayOf(Tail(events), Append(commands, c), CommandTypes)
          = UnderWayOf(Tail(events), commands, CommandTypes) + 1
    BY <1>1, <1>2, AddCommand
  <2>4. UnderWay(CommandTypes)' = UnderWayOf(Tail(events), Append(commands, c), CommandTypes)
    BY DEF UnderWay
  <2>5. CASE p \in Commanding
    <3>1. Cardinality(Commanding)' = Cardinality(Commanding)
      BY <2>5, CommandingMoves
    <3>2. UnderWayOf(events, commands, CommandTypes)
            = UnderWayOf(Tail(events), commands, CommandTypes) + 1
      BY <1>1, <2>5, PopEvent
    <3>3. UnderWay(CommandTypes) = UnderWayOf(events, commands, CommandTypes)
      BY DEF UnderWay
    <3> QED
      BY <2>1, <2>2, <2>3, <2>4, <3>1, <3>2, <3>3, <1>2
  <2>6. CASE p \notin Commanding
    <3>1. Cardinality(Commanding)' = Cardinality(Commanding) + 1
      BY <2>6, CommandingMoves
    <3> QED
      BY <2>1, <2>2, <2>3, <2>4, <3>1, <1>2
  <2> QED
    BY <2>5, <2>6
<1> QED
  BY <1>4, <1>5, <1>6, <1>7, <1>8, <1>9, <1>10, QueueStep

LEMMA OnPortStatusChangeStep ==
  ASSUME PortsAssumption, IInv, OnPortStatusChange
  PROVE  IInv'
<1>1. PICK p : p = Head(events).port
  OBVIOUS
<1>2. events # <<>> /\ Head(events).type = "port"
  BY DEF OnPortStatusChange, Front
<1>3. p \in Ports
  BY <1>1, <1>2, PoppedEvents DEF EventOK
<1>4. UNCHANGED <<boot, ctx_port>>
  BY DEF OnPortStatusChange
<1>5. CASE /\ StartsReset(p)
           /\ ResetPort(p, addressing_port, phase, Tail(events))
           /\ UNCHANGED <<allocated, input_port, commands, busy>>
  <2>1. phase[p] = "kNotConnected" /\ boot' \in 1..(MaxPorts + 1)
    BY <1>4, <1>5 DEF StartsReset, IInv, StateTyped
  <2>2. /\ Tail(events) \in Seq(EventRecord) /\ Elems(Tail(events)) \subseteq Elems(events)
        /\ UnderWayOf(Tail(events), commands, Addressing) <= UnderWay(Addressing)
        /\ UnderWayOf(Tail(events), commands, CommandTypes) <= UnderWay(CommandTypes)
    BY <1>2, PoppedEvents
  <2> QED
    BY <1>3, <1>4, <1>5, <2>1, <2>2, ResetPortStep
<1>6. CASE Ignore
  BY <1>2, <1>4, <1>6, IgnoreStep
<1>7. CASE /\ phase[p] = "kResettingPort" /\ enabled[p] /\ prc[p]
           /\ prc' = [prc EXCEPT ![p] = FALSE]
           /\ phase' = [phase EXCEPT ![p] = "kEnablingSlot"]
           /\ Push("EnableSlot", 0)
           /\ events' = Tail(events)
           /\ UNCHANGED <<addressing_port, allocated, input_port, csc, announced, enabled,
                          connected, busy, historyVars>>
  <2>1. PICK c : c = [cmd |-> "EnableSlot", slot |-> 0]
    OBVIOUS
  <2>2. c \in CommandRecord /\ c.cmd = "EnableSlot" /\ c.slot = 0
    BY <2>1 DEF CommandRecord, CommandTypes, Slots, PortsAssumption
  <2>3. commands' = Append(commands, c)
    BY <1>7, <2>1 DEF Push
  <2>4. phase \in [Ports -> Phases] /\ phase'[p] = "kEnablingSlot"
    BY <1>3, <1>7 DEF IInv, StateTyped
  <2>5. \A q \in Ports : q # p => phase'[q] = phase[q]
    BY <1>3, <1>7, <2>4
  <2>6. StateTyped'
    BY <1>3, <1>4, <1>7 DEF IInv, StateTyped, Phases, historyVars
  <2>7. p = addressing_port /\ OneAddressing'
    <3>1. p \in {q \in Ports : phase[q] \in Exclusive}
      BY <1>3, <1>7 DEF Exclusive
    <3>2. p = addressing_port
      BY <3>1 DEF IInv, OneAddressing
    <3> QED
      BY <1>7, <3>1, <3>2, <2>4, <2>5 DEF IInv, OneAddressing, Exclusive
  <2>8. Absent(events, commands, Addressing)
    BY <1>7, <2>7, LockGuardsCommands
  <2>9. Absent(Tail(events), commands, Addressing)
    BY <1>2, <2>8, PoppedEvents DEF Absent
  <2>10. UnderWayOf(Tail(events), commands, Addressing) = 0
    BY <1>2, <2>9, PoppedEvents, QueuesOfIInv, NoneUnderWay
  <2>11. CommandOK(c)'
    <3>1. Serves(c.cmd)'
      BY <1>3, <1>7, <2>2, <2>4, <2>7 DEF Serves
    <3> QED
      BY <3>1, <2>2 DEF CommandOK
  <2>12. p \in Commanding' /\ p \notin Commanding /\ phase[p] \notin Addressed
    BY <1>3, <1>7, <2>4 DEF Commanding, Addressed
  <2>13. c.cmd \in CommandTypes
    BY <2>2 DEF CommandTypes
  <2>14. busy' = busy /\ ctx_port' = ctx_port /\ allocated \subseteq allocated'
    BY <1>4, <1>7
  <2>15. events' = Tail(events)
    BY <1>7
  <2> QED
    BY <1>2, <1>3, <2>2, <2>3, <2>5, <2>6, <2>7, <2>9, <2>10, <2>11, <2>12, <2>13, <2>14, <2>15,
       PushStep
<1> QED
  BY <1>1, <1>5, <1>6, <1>7 DEF OnPortStatusChange, EnableSlot

LEMMA OnEnableSlotCompletedStep ==
  ASSUME PortsAssumption, IInv, OnEnableSlotCompleted
  PROVE  IInv'
<1>1. PICK s : s = Head(events).slot
  OBVIOUS
<1>2. events # <<>> /\ Head(events).type = "EnableSlot"
  BY DEF OnEnableSlotCompleted, Front
<1>3. s \in Slots
  BY <1>1, <1>2, PoppedEvents DEF EventRecord
<1>4. UNCHANGED <<boot, ctx_port>>
  BY DEF OnEnableSlotCompleted
<1>5. CASE Ignore
  BY <1>2, <1>4, <1>5, IgnoreStep
<1>6. CASE /\ addressing_port \in Ports /\ phase[addressing_port] = "kEnablingSlot"
           /\ AddressDevice(addressing_port, s)
  <2>1. PICK p : p = addressing_port
    OBVIOUS
  <2>2. /\ p \in Ports /\ phase[p] = "kEnablingSlot"
        /\ allocated' = allocated \cup {s}
        /\ input_port' = [input_port EXCEPT ![s] = p]
        /\ phase' = [phase EXCEPT ![p] = "kAddressingDevice"]
        /\ Push("AddressDevice", s)
        /\ events' = Tail(events)
        /\ UNCHANGED <<addressing_port, portVars, busy, historyVars>>
    BY <1>6, <2>1 DEF AddressDevice, AllocDevice
  <2>3. PICK c : c = [cmd |-> "AddressDevice", slot |-> s]
    OBVIOUS
  <2>4. c \in CommandRecord /\ c.cmd = "AddressDevice" /\ c.slot = s
    BY <2>3, <1>3 DEF CommandRecord, CommandTypes
  <2>5. commands' = Append(commands, c)
    BY <2>2, <2>3 DEF Push
  <2>6. phase \in [Ports -> Phases] /\ phase'[p] = "kAddressingDevice"
    BY <2>2 DEF IInv, StateTyped
  <2>7. \A q \in Ports : q # p => phase'[q] = phase[q]
    BY <2>2, <2>6
  <2>8. input_port \in [Slots -> Ports \cup {0}] /\ input_port'[s] = p
    BY <1>3, <2>2 DEF IInv, StateTyped
  <2>9. StateTyped'
    BY <1>3, <1>4, <2>2 DEF IInv, StateTyped, Phases, portVars, historyVars
  <2>10. OneAddressing'
    BY <2>1, <2>2, <2>6, <2>7 DEF IInv, OneAddressing, Exclusive
  \* The completion was the only thing of the exclusive phases under way.
  <2>11. UnderWayOf(Tail(events), commands, Addressing) = 0
    <3>1. UnderWayOf(events, commands, Addressing)
            = UnderWayOf(Tail(events), commands, Addressing) + 1
      BY <1>2, QueuesOfIInv, PopEvent, Types
    <3>2. UnderWayOf(events, commands, Addressing) <= 1
      BY DEF IInv, Bounded, UnderWay
    <3>3. UnderWayOf(Tail(events), commands, Addressing) \in Nat
      BY <1>2, PoppedEvents
    <3> QED
      BY <3>1, <3>2, <3>3
  <2>12. Absent(Tail(events), commands, Addressing)
    BY <1>2, <2>11, PoppedEvents, QueuesOfIInv, NoneUnderWay
  \* No device context names a port without an address.
  <2>13. \A t \in Slots : ctx_port[t] # p
    BY <2>2 DEF IInv, SlotsOK, Addressed
  <2>14. CommandOK(c)'
    <3>1. Serves(c.cmd)'
      BY <2>1, <2>2, <2>4, <2>6 DEF Serves
    <3>2. input_port'[c.slot] = addressing_port' /\ c.slot \in allocated'
      BY <2>1, <2>2, <2>4, <2>8
    <3>3. \A t \in Slots : ctx_port'[t] # addressing_port'
      BY <1>4, <2>1, <2>2, <2>13
    <3> QED
      BY <3>1, <3>2, <3>3, <2>4 DEF CommandOK
  <2>15. p \in Commanding' /\ c.cmd \in CommandTypes /\ Head(events).type \in CommandTypes
    BY <1>2, <2>2, <2>4, <2>6 DEF Commanding, CommandTypes
  <2>16. phase[p] \notin Addressed
    BY <2>2 DEF Addressed
  <2>17. busy' = busy /\ ctx_port' = ctx_port /\ allocated \subseteq allocated'
    BY <1>4, <2>2
  <2>18. events' = Tail(events) /\ p \in Ports
    BY <2>2
  <2> QED
    BY <1>2, <2>4, <2>5, <2>7, <2>9, <2>10, <2>11, <2>12, <2>14, <2>15, <2>16, <2>17, <2>18,
       PushStep
<1> QED
  BY <1>1, <1>5, <1>6 DEF OnEnableSlotCompleted

\* The lock is handed on: the addressed port leaves the exclusive phases, and
\* a waiting port may enter them.
LEMMA OnAddressDeviceCompletedStep ==
  ASSUME PortsAssumption, IInv, OnAddressDeviceCompleted
  PROVE  IInv'
<1>1. PICK s : s = Head(events).slot
  OBVIOUS
<1>2. PICK p : p = ctx_port[s]
  OBVIOUS
<1>3. events # <<>> /\ Head(events).type = "AddressDevice"
  BY DEF OnAddressDeviceCompleted, Front
<1>4. s \in Slots
  BY <1>1, <1>3, PoppedEvents DEF EventRecord
<1>5. UNCHANGED <<boot, ctx_port>>
  BY DEF OnAddressDeviceCompleted
<1>6. CASE Ignore
  BY <1>3, <1>5, <1>6, IgnoreStep
<1>7. ASSUME s \in allocated, p \in Ports, p = addressing_port,
             phase[p] = "kAddressingDevice",
             \/ /\ FirstWaiting = {}
                /\ phase' = [phase EXCEPT ![p] = "kInitializingDevice"] /\ addressing_port' = 0
                /\ NoReset(Tail(events))
             \/ \E w \in FirstWaiting :
                  ResetPort(w, 0, [phase EXCEPT ![p] = "kInitializingDevice"], Tail(events)),
             busy' = busy \cup {s},
             UNCHANGED <<allocated, input_port, commands>>
      PROVE  IInv'
  <2> DEFINE evs == Tail(events)
             ph == [phase EXCEPT ![p] = "kInitializingDevice"]
  <2>1. /\ phase \in [Ports -> Phases] /\ 0 \notin Ports
        /\ commands \in Seq(CommandRecord) /\ events \in Seq(EventRecord)
    BY QueuesOfIInv DEF IInv, StateTyped, Ports
  <2>2. /\ ph \in [Ports -> Phases] /\ ph[p] = "kInitializingDevice"
        /\ \A q \in Ports : q # p => ph[q] = phase[q]
    BY <1>7, <2>1 DEF Phases
  <2>3. /\ evs \in Seq(EventRecord) /\ Elems(evs) \subseteq Elems(events)
        /\ UnderWayOf(evs, commands, Addressing) \in Nat
        /\ UnderWayOf(evs, commands, CommandTypes) \in Nat
        /\ UnderWay(Addressing) \in Nat /\ UnderWay(CommandTypes) \in Nat
    BY <1>3, PoppedEvents
  <2>4. /\ UnderWay(Addressing) = UnderWayOf(evs, commands, Addressing) + 1
        /\ UnderWay(CommandTypes) = UnderWayOf(evs, commands, CommandTypes) + 1
    <3>1. Head(events).type \in Addressing /\ Head(events).type \in CommandTypes
      BY <1>3 DEF Addressing, CommandTypes
    <3>2. UnderWayOf(events, commands, Addressing) = UnderWayOf(evs, commands, Addressing) + 1
      BY <1>3, <2>1, <3>1, PopEvent
    <3>3. UnderWayOf(events, commands, CommandTypes) = UnderWayOf(evs, commands, CommandTypes) + 1
      BY <1>3, <2>1, <3>1, PopEvent
    <3> QED
      BY <3>2, <3>3 DEF UnderWay
  <2>5. UnderWay(Addressing) <= 1 /\ UnderWay(CommandTypes) <= Cardinality(Commanding)
    BY DEF IInv, Bounded
  <2>6. UnderWayOf(evs, commands, Addressing) = 0
    BY <2>3, <2>4, <2>5
  <2>7. Absent(evs, commands, Addressing)
    BY <2>1, <2>3, <2>6, NoneUnderWay
  <2>8. \A q \in Ports : q # p => phase[q] \notin Exclusive
    BY <1>7 DEF IInv, OneAddressing
  <2>9. busy' \subseteq Slots /\ \A t \in busy' : ctx_port[t] \in Ports
    BY <1>2, <1>4, <1>7 DEF IInv, SlotsOK, StateTyped
  <2> HIDE DEF evs, ph
  \* What is common to the two outcomes.
  <2>10. ASSUME StateTyped', OneAddressing', events' \in Seq(EventRecord),
                \A e \in Elems(events') : e \in Elems(evs) \/ Harmless(e),
                UnderWayOf(events', commands, Addressing) = UnderWayOf(evs, commands, Addressing),
                UnderWayOf(events', commands, CommandTypes)
                  = UnderWayOf(evs, commands, CommandTypes),
                phase'[p] = "kInitializingDevice",
                \A q \in Ports : q # p =>
                  phase'[q] = phase[q] \/ (phase[q] = "kWaitingAddressed" /\ phase'[q] = "kResettingPort")
         PROVE  IInv'
    <3>1. QueuesTyped'
      BY <1>7, <2>1, <2>10 DEF QueuesTyped
    <3>2. \A e \in Elems(events') : EventKept(e) \/ Harmless(e)
      BY <2>3, <2>7, <2>10 DEF EventKept, Absent
    <3>3. \A c \in Elems(commands') : CommandKept(c) \/ CommandOK(c)'
      BY <1>7, <2>7 DEF CommandKept, Absent
    <3>4. \A q \in Ports : phase[q] \in Addressed => phase'[q] \in Addressed
      BY <2>10 DEF Addressed
    <3>5. UnderWay(Addressing)' <= 1
      <4>1. UnderWay(Addressing)' = UnderWayOf(events', commands, Addressing)
        BY <1>7 DEF UnderWay
      <4> QED
        BY <4>1, <2>6, <2>10
    <3>6. UnderWay(CommandTypes)' <= Cardinality(Commanding)'
      <4>1. UnderWay(CommandTypes)' = UnderWayOf(events', commands, CommandTypes)
        BY <1>7 DEF UnderWay
      <4>2. p \in Commanding /\ p \notin Commanding'
        BY <1>7, <2>10 DEF Commanding
      <4>3. \A q \in Ports : q # p => (q \in Commanding' <=> q \in Commanding)
        BY <2>10 DEF Commanding
      <4>4. Cardinality(Commanding)' = Cardinality(Commanding) - 1
        BY <1>7, <4>2, <4>3, CommandingChanges
      <4>5. Cardinality(Commanding) \in Nat
        BY CommandingBounded
      <4> QED
        BY <4>1, <4>4, <4>5, <2>3, <2>4, <2>5, <2>10
    <3>7. ctx_port' = ctx_port /\ allocated \subseteq allocated'
      BY <1>5, <1>7
    <3> QED
      BY <2>9, <2>10, <3>1, <3>2, <3>3, <3>4, <3>5, <3>6, <3>7, QueueStep
  <2>11. CASE phase' = ph /\ addressing_port' = 0 /\ NoReset(evs)
    <3>1. StateTyped'
      BY <1>5, <1>7, <2>2, <2>9, <2>11 DEF IInv, StateTyped, NoReset, historyVars
    <3>2. OneAddressing'
      BY <2>1, <2>2, <2>8, <2>11 DEF OneAddressing, Exclusive
    <3>3. events' = evs
      BY <2>11 DEF NoReset
    <3> QED
      BY <2>2, <2>3, <2>10, <2>11, <3>1, <3>2, <3>3
  <2>12. ASSUME NEW w \in FirstWaiting,
                phase' = [ph EXCEPT ![w] = "kResettingPort"], addressing_port' = w,
                Reset(w, evs)
         PROVE  IInv'
    <3>1. w \in Ports /\ phase[w] = "kWaitingAddressed" /\ w # p
      BY <1>7 DEF FirstWaiting
    <3>2. /\ phase' \in [Ports -> Phases] /\ phase'[w] = "kResettingPort"
          /\ \A q \in Ports : q # w => phase'[q] = ph[q]
      BY <2>2, <2>12, <3>1 DEF Phases
    <3>4. OneAddressing'
      BY <2>1, <2>2, <2>8, <2>12, <3>1, <3>2 DEF OneAddressing, Exclusive
    <3>5. PortsTyped
      BY DEF IInv, StateTyped, PortsTyped
    <3>6. /\ PortsTyped'
          /\ events' \in Seq(EventRecord)
          /\ \A e \in Elems(events') : e \in Elems(evs) \/ Harmless(e)
          /\ UnderWayOf(events', commands, Addressing) = UnderWayOf(evs, commands, Addressing)
          /\ UnderWayOf(events', commands, CommandTypes) = UnderWayOf(evs, commands, CommandTypes)
      BY <2>1, <2>3, <2>12, <3>1, <3>5, ResetAdds
    <3>3. StateTyped'
      BY <1>5, <1>7, <2>9, <2>12, <3>1, <3>2, <3>6 DEF IInv, StateTyped, PortsTyped
    <3>7. /\ phase'[p] = "kInitializingDevice"
          /\ \A q \in Ports : q # p =>
               phase'[q] = phase[q] \/ (phase[q] = "kWaitingAddressed" /\ phase'[q] = "kResettingPort")
      BY <1>7, <2>2, <3>1, <3>2
    <3> QED
      BY <2>10, <3>3, <3>4, <3>6, <3>7
  <2> QED
    BY <1>7, <2>11, <2>12 DEF ResetPort, evs, ph
<1> QED
  BY <1>1, <1>2, <1>6, <1>7 DEF OnAddressDeviceCompleted

LEMMA OnTransferStep ==
  ASSUME PortsAssumption, IInv, OnTransfer
  PROVE  IInv'
<1>1. PICK s : s = Head(events).slot
  OBVIOUS
<1>2. PICK p : p = ctx_port[s]
  OBVIOUS
<1>3. events # <<>> /\ Head(events).type = "transfer"
  BY DEF OnTransfer, Front
<1>4. s \in Slots /\ p \in Ports
  BY <1>1, <1>2, <1>3, PoppedEvents DEF EventRecord, EventOK
<1>5. UNCHANGED <<boot, ctx_port>>
  BY DEF OnTransfer
<1>6. CASE Ignore
  BY <1>3, <1>5, <1>6, IgnoreStep
<1>7. CASE /\ s \in allocated /\ phase[p] = "kInitializingDevice"
           /\ phase' = [phase EXCEPT ![p] = "kConfiguringEndpoints"]
           /\ Push("ConfigureEndpoint", s)
           /\ events' = Tail(events)
           /\ UNCHANGED <<addressing_port, allocated, input_port, portVars, busy, historyVars>>
  <2>1. PICK c : c = [cmd |-> "ConfigureEndpoint", slot |-> s]
    OBVIOUS
  <2>2. c \in CommandRecord /\ c.cmd = "ConfigureEndpoint" /\ c.slot = s
    BY <2>1, <1>4 DEF CommandRecord, CommandTypes
  <2>3. commands' = Append(commands, c)
    BY <1>7, <2>1 DEF Push
  <2>4. phase \in [Ports -> Phases] /\ phase'[p] = "kConfiguringEndpoints"
    BY <1>4, <1>7 DEF IInv, StateTyped
  <2>5. \A q \in Ports : q # p => phase'[q] = phase[q]
    BY <1>4, <1>7, <2>4
  <2>6. StateTyped'
    BY <1>4, <1>5, <1>7 DEF IInv, StateTyped, Phases, portVars, historyVars
  <2>7. OneAddressing'
    BY <1>4, <1>7, <2>4, <2>5 DEF IInv, OneAddressing, Exclusive
  <2>8. LockKept
    <3>1. addressing_port \in Ports => phase[addressing_port] \in Exclusive
      BY DEF IInv, OneAddressing, Ports
    <3>2. addressing_port # p
      BY <1>4, <1>7, <3>1 DEF Exclusive
    <3> QED
      BY <1>7, <2>5, <3>2 DEF LockKept
  <2>9. c.cmd \notin Addressing /\ c.cmd \in CommandTypes
    BY <2>2 DEF CommandTypes, Addressing
  <2>10. CommandOK(c)'
    BY <1>2, <1>4, <1>5, <1>7, <2>2, <2>9 DEF CommandOK
  <2>11. p \in Commanding' /\ p \notin Commanding /\ phase'[p] \in Addressed
    BY <1>4, <1>7, <2>4 DEF Commanding, Addressed
  <2>12. busy' = busy /\ ctx_port' = ctx_port /\ allocated \subseteq allocated'
    BY <1>5, <1>7
  <2>13. events' = Tail(events)
    BY <1>7
  <2> QED
    BY <1>3, <1>4, <2>2, <2>3, <2>5, <2>6, <2>7, <2>8, <2>9, <2>10, <2>11, <2>12, <2>13, PushStep
<1> QED
  BY <1>1, <1>2, <1>6, <1>7 DEF OnTransfer, ConfigureEndpoints

LEMMA OnConfigureEndpointCompletedStep ==
  ASSUME PortsAssumption, IInv, OnConfigureEndpointCompleted
  PROVE  IInv'
<1>1. PICK s : s = Head(events).slot
  OBVIOUS
<1>2. PICK p : p = ctx_port[s]
  OBVIOUS
<1>3. events # <<>> /\ Head(events).type = "ConfigureEndpoint"
  BY DEF OnConfigureEndpointCompleted, Front
<1>4. s \in Slots /\ p \in Ports
  BY <1>1, <1>2, <1>3, PoppedEvents DEF EventRecord, EventOK
<1>5. /\ phase' = IF phase[p] = "kConfiguringEndpoints"
                  THEN [phase EXCEPT ![p] = "kConfigured"] ELSE phase
      /\ events' = Tail(events)
      /\ UNCHANGED <<addressing_port, allocated, input_port, boot, ctx_port, portVars, commands,
                     busy, historyVars>>
  BY <1>1, <1>2 DEF OnConfigureEndpointCompleted
<1>6. phase \in [Ports -> Phases]
  BY DEF IInv, StateTyped
<1>7. /\ phase' \in [Ports -> Phases] /\ \A q \in Ports : q # p => phase'[q] = phase[q]
      /\ \/ phase'[p] = phase[p]
         \/ phase[p] = "kConfiguringEndpoints" /\ phase'[p] = "kConfigured"
  BY <1>4, <1>5, <1>6 DEF Phases
<1>8. StateTyped'
  BY <1>5, <1>7 DEF IInv, StateTyped, portVars, historyVars
<1>9. OneAddressing'
  BY <1>4, <1>5, <1>7 DEF IInv, OneAddressing, Exclusive
<1>10. LockKept
  <2>1. addressing_port \in Ports => phase[addressing_port] \in Exclusive
    BY DEF IInv, OneAddressing, Ports
  <2>2. addressing_port \in Ports => phase'[addressing_port] = phase[addressing_port]
    BY <1>4, <1>7, <2>1 DEF Exclusive
  <2> QED
    BY <1>5, <2>2 DEF LockKept
<1>11. /\ Tail(events) \in Seq(EventRecord) /\ Elems(Tail(events)) \subseteq Elems(events)
       /\ UnderWayOf(Tail(events), commands, Addressing) <= UnderWay(Addressing)
       /\ UnderWay(Addressing) \in Nat /\ UnderWay(CommandTypes) \in Nat
       /\ UnderWayOf(Tail(events), commands, Addressing) \in Nat
       /\ UnderWayOf(Tail(events), commands, CommandTypes) \in Nat
  BY <1>3, PoppedEvents
<1>12. QueuesTyped'
  BY <1>5, <1>11, QueuesOfIInv DEF QueuesTyped
<1>13. /\ \A e \in Elems(events') : EventKept(e) \/ Harmless(e)
       /\ \A c \in Elems(commands') : CommandKept(c) \/ CommandOK(c)'
  BY <1>5, <1>10, <1>11 DEF EventKept, CommandKept
<1>14. \A q \in Ports : phase[q] \in Addressed => phase'[q] \in Addressed
  BY <1>7 DEF Addressed
<1>15. \A t \in busy' : ctx_port[t] \in Ports
  BY <1>5 DEF IInv, SlotsOK
<1>16. /\ UnderWay(Addressing)' = UnderWayOf(Tail(events), commands, Addressing)
       /\ UnderWay(CommandTypes)' = UnderWayOf(Tail(events), commands, CommandTypes)
  BY <1>5 DEF UnderWay
<1>17. UnderWay(Addressing) <= 1 /\ UnderWay(CommandTypes) <= Cardinality(Commanding)
  BY DEF IInv, Bounded
<1>18. UnderWay(Addressing)' <= 1
  BY <1>11, <1>16, <1>17
<1>19. UnderWay(CommandTypes)' <= Cardinality(Commanding)'
  <2>1. UnderWayOf(events, commands, CommandTypes)
          = UnderWayOf(Tail(events), commands, CommandTypes) + 1
    BY <1>3, QueuesOfIInv, PopEvent, Types
  <2>2. UnderWay(CommandTypes) = UnderWayOf(events, commands, CommandTypes)
    BY DEF UnderWay
  <2>3. \/ Cardinality(Commanding)' = Cardinality(Commanding)
        \/ Cardinality(Commanding)' = Cardinality(Commanding) - 1
    <3>1. (p \in Commanding <=> p \in Commanding') \/ (p \in Commanding /\ p \notin Commanding')
      BY <1>4, <1>7 DEF Commanding
    <3> QED
      BY <1>4, <1>7, <3>1, CommandingMoves
  <2>4. Cardinality(Commanding) \in Nat
    BY CommandingBounded
  <2> QED
    BY <1>11, <1>16, <1>17, <2>1, <2>2, <2>3, <2>4
<1>20. ctx_port' = ctx_port /\ allocated \subseteq allocated'
  BY <1>5
<1> QED
  BY <1>8, <1>9, <1>12, <1>13, <1>14, <1>15, <1>18, <1>19, <1>20, QueueStep

-----------------------------------------------------------------------------
(* The invariant *)

LEMMA InitIInv ==
  ASSUME PortsAssumption, Init
  PROVE  IInv
<1>1. StateTyped
  <2>1. phase \in [Ports -> Phases]
    BY DEF Init, Phases
  <2>2. /\ connected \in [Ports -> BOOLEAN] /\ csc \in [Ports -> BOOLEAN]
        /\ enabled \in [Ports -> BOOLEAN] /\ prc \in [Ports -> BOOLEAN] /\ trouble \in BOOLEAN
    BY DEF Init
  <2>3. boot \in 1..(MaxPorts + 1) /\ changes \in 0..MaxChanges
    BY DEF Init, PortsAssumption
  <2>4. /\ input_port \in [Slots -> Ports \cup {0}] /\ ctx_port \in [Slots -> Ports \cup {0}]
        /\ addressing_port \in Ports \cup {0} /\ allocated \subseteq Slots
        /\ announced \subseteq Ports /\ busy \subseteq Slots
    BY DEF Init
  <2> QED
    BY <2>1, <2>2, <2>3, <2>4 DEF StateTyped
<1>2. QueuesTyped /\ Elems(events) = {} /\ Elems(commands) = {}
  BY DEF Init, QueuesTyped, Elems
<1>3. OneAddressing
  BY DEF Init, OneAddressing, Exclusive
<1>4. SlotsOK
  BY DEF Init, SlotsOK, Ports
<1>5. Bounded
  <2>1. UnderWay(Addressing) = 0 /\ UnderWay(CommandTypes) = 0
    BY <1>2, NoneUnderWay DEF UnderWay, Absent, QueuesTyped
  <2> QED
    BY <2>1, CommandingBounded DEF Bounded
<1> QED
  BY <1>1, <1>2, <1>3, <1>4, <1>5 DEF IInv

LEMMA NextIInv ==
  ASSUME PortsAssumption, IInv, [Next]_vars
  PROVE  IInv'
<1>1. CASE ConfigurePort
  BY <1>1, ConfigurePortStep
<1>2. CASE OnPortStatusChange
  BY <1>2, OnPortStatusChangeStep
<1>3. CASE OnEnableSlotCompleted
  BY <1>3, OnEnableSlotCompletedStep
<1>4. CASE OnAddressDeviceCompleted
  BY <1>4, OnAddressDeviceCompletedStep
<1>5. CASE OnTransfer
  BY <1>5, OnTransferStep
<1>6. CASE OnConfigureEndpointCompleted
  BY <1>6, OnConfigureEndpointCompletedStep
<1>7. ASSUME NEW ok \in BOOLEAN, ExecuteCommand(ok) PROVE IInv'
  BY <1>7, ExecuteCommandStep
<1>8. ASSUME NEW p \in Ports, Announce(p) PROVE IInv'
  BY <1>8, AnnounceStep
<1>9. ASSUME NEW s \in Slots, NEW ok \in BOOLEAN, CompleteTransfer(s, ok) PROVE IInv'
  BY <1>9, CompleteTransferStep
<1>10. ASSUME NEW p \in Ports, Plug(p) \/ Unplug(p) PROVE IInv'
  BY <1>10, PlugStep
<1>11. CASE UNCHANGED vars
  <2>1. /\ UNCHANGED <<phase, addressing_port, allocated, input_port, ctx_port, boot, busy>>
        /\ UNCHANGED <<connected, enabled, csc, prc, announced, changes, trouble>>
        /\ events' = events /\ commands' = commands
    BY <1>11 DEF vars, driverVars, portVars, historyVars
  <2>2. StateTyped'
    BY <2>1 DEF IInv, StateTyped
  <2>3. QueuesTyped'
    BY <2>1, QueuesOfIInv DEF QueuesTyped
  <2>4. UnderWay(Addressing) \in Nat /\ UnderWay(CommandTypes) \in Nat
    BY UnderWayNat, QueuesOfIInv DEF UnderWay
  <2>5. /\ UnderWay(Addressing)' <= UnderWay(Addressing)
        /\ UnderWay(CommandTypes)' <= UnderWay(CommandTypes)
    BY <2>1, <2>4 DEF UnderWay
  <2>6. \A s \in busy : ctx_port[s] \in Ports
    BY DEF IInv, SlotsOK
  <2> QED
    BY <2>1, <2>2, <2>3, <2>5, <2>6, UnmovedStep
<1> QED
  BY <1>1, <1>2, <1>3, <1>4, <1>5, <1>6, <1>7, <1>8, <1>9, <1>10, <1>11
  DEF Next, Driver, Controller

\* The invariant implies what the driver promises between two events.
LEMMA IInvImpliesPortsInv ==
  ASSUME PortsAssumption, IInv
  PROVE  PortsInv
<1>1. events \in Seq(EventRecord) /\ commands \in Seq(CommandRecord)
  BY QueuesOfIInv
<1>2. TypeOK
  <2>1. \A k \in 1..Len(commands) :
          commands[k].slot \in (IF commands[k].cmd = "EnableSlot" THEN {0} ELSE allocated)
    <3> SUFFICES ASSUME NEW k \in 1..Len(commands)
                 PROVE  commands[k].slot \in (IF commands[k].cmd = "EnableSlot" THEN {0} ELSE allocated)
      OBVIOUS
    <3>1. CommandOK(commands[k])
      BY DEF IInv, Elems
    <3> QED
      BY <3>1 DEF CommandOK
  <2> QED
    BY <2>1 DEF IInv, StateTyped, TypeOK
<1>3. OneAddressing
  BY DEF IInv
<1>4. OneSlotPerPort
  BY DEF IInv, SlotsOK, OneSlotPerPort, StateTyped
<1>5. \A types : Outstanding(types) = UnderWay(types)
  <2> SUFFICES ASSUME NEW types PROVE Outstanding(types) = UnderWay(types)
    OBVIOUS
  <2>1. /\ \A k \in 1..Len(events) : events[k] \in EventRecord
        /\ \A k \in 1..Len(commands) : commands[k] \in CommandRecord
    BY <1>1, ElementOfSeq
  <2>2. Completions(types) = {k \in 1..Len(events) : events[k] \in EventsOf(types)}
    BY <2>1 DEF Completions, EventsOf
  <2>3. Waiting(types) = {k \in 1..Len(commands) : commands[k] \in CommandsOf(types)}
    BY <2>1 DEF Waiting, CommandsOf
  <2> QED
    BY <2>2, <2>3 DEF Outstanding, UnderWay, UnderWayOf, Count
<1>6. CommandsBounded
  <2>1. UnderWay(Addressing) <= 1
    BY DEF IInv, Bounded
  <2>2. UnderWay(CommandTypes) <= MaxPorts
    <3>1. UnderWay(CommandTypes) \in Nat
      BY <1>1, UnderWayNat DEF UnderWay
    <3>2. UnderWay(CommandTypes) <= Cardinality(Commanding)
      BY DEF IInv, Bounded
    <3> QED
      BY <3>1, <3>2, CommandingBounded DEF PortsAssumption
  <2> QED
    BY <1>5, <2>1, <2>2 DEF CommandsBounded, Addressing, CommandTypes
<1> QED
  BY <1>2, <1>3, <1>4, <1>6 DEF PortsInv

LEMMA InductiveInvariant == Spec => []IInv
<1>1. Init => IInv
  BY PortsAssumption, InitIInv
<1>2. IInv /\ [Next]_vars => IInv'
  BY PortsAssumption, NextIInv
<1> QED
  BY <1>1, <1>2, PTL DEF Spec

\* Between any two events the ports are in order, however many there are,
\* whatever is plugged and unplugged and whichever commands fail: one port at
\* most is between its reset and its address, and it is addressing_port; no
\* two slots belong to one port; and no more commands are under way than
\* there are ports, one in all that enables a slot or addresses a device.
THEOREM PortsInvariant == Spec => []PortsInv
<1>1. IInv => PortsInv
  BY PortsAssumption, IInvImpliesPortsInv
<1> QED
  BY <1>1, InductiveInvariant, PTL

-----------------------------------------------------------------------------
(* The order of the phases *)

InOrder(old, new) == new = old \/ new \in Successors[old]

\* ResetPort moves a port that is not set up yet, or one that waits while the
\* lock is free.
LEMMA ResetPortInOrder ==
  ASSUME NEW ph \in [Ports -> Phases], NEW w \in Ports, NEW lock, NEW evs,
         \/ ph[w] = "kNotConnected"
         \/ ph[w] = "kWaitingAddressed" /\ lock = 0,
         ResetPort(w, lock, ph, evs)
  PROVE  \A p \in Ports : InOrder(ph[p], phase'[p])
BY DEF ResetPort, InOrder, Successors

LEMMA NextInOrder ==
  ASSUME PortsAssumption, IInv, [Next]_vars
  PROVE  \A p \in Ports : InOrder(phase[p], phase'[p])
<1>1. phase \in [Ports -> Phases]
  BY DEF IInv, StateTyped
<1>2. ASSUME phase' = phase PROVE \A p \in Ports : InOrder(phase[p], phase'[p])
  BY <1>2 DEF InOrder
<1>3. CASE ConfigurePort
  <2>1. boot \in Ports
    BY <1>3 DEF ConfigurePort
  <2>2. CASE connected[boot] /\ phase[boot] = "kNotConnected"
    <3>1. ResetPort(boot, addressing_port, phase, events)
      BY <1>3, <2>2 DEF ConfigurePort
    <3> QED
      BY <1>1, <2>1, <2>2, <3>1, ResetPortInOrder
  <2>3. CASE ~(connected[boot] /\ phase[boot] = "kNotConnected")
    BY <1>2, <1>3, <2>3 DEF ConfigurePort
  <2> QED
    BY <2>2, <2>3
<1>4. CASE OnPortStatusChange
  <2>1. PICK p : p = Head(events).port
    OBVIOUS
  <2>2. events # <<>> /\ Head(events).type = "port"
    BY <1>4 DEF OnPortStatusChange, Front
  <2>3. p \in Ports
    BY <2>1, <2>2, PoppedEvents DEF EventOK
  <2>4. CASE StartsReset(p) /\ ResetPort(p, addressing_port, phase, Tail(events))
    BY <1>1, <2>3, <2>4, ResetPortInOrder DEF StartsReset
  <2>5. CASE phase[p] = "kResettingPort" /\ EnableSlot(p)
    BY <1>1, <2>3, <2>5 DEF EnableSlot, Ignore, InOrder, Successors
  <2>6. CASE Ignore
    BY <1>2, <2>6 DEF Ignore
  <2> QED
    BY <1>4, <2>1, <2>4, <2>5, <2>6 DEF OnPortStatusChange
<1>5. CASE OnEnableSlotCompleted
  <2>1. CASE Ignore
    BY <1>2, <2>1 DEF Ignore
  <2>2. CASE /\ addressing_port \in Ports /\ phase[addressing_port] = "kEnablingSlot"
             /\ AddressDevice(addressing_port, Head(events).slot)
    BY <1>1, <2>2 DEF AddressDevice, InOrder, Successors
  <2> QED
    BY <1>5, <2>1, <2>2 DEF OnEnableSlotCompleted
<1>6. CASE OnAddressDeviceCompleted
  <2>1. PICK q : q = ctx_port[Head(events).slot]
    OBVIOUS
  <2>2. PICK ph : ph = [phase EXCEPT ![q] = "kInitializingDevice"]
    OBVIOUS
  <2>3. CASE Ignore
    BY <1>2, <2>3 DEF Ignore
  <2>4. ASSUME q \in Ports, phase[q] = "kAddressingDevice"
        PROVE  /\ ph \in [Ports -> Phases]
               /\ ph[q] = "kInitializingDevice" /\ \A p \in Ports : p # q => ph[p] = phase[p]
    BY <1>1, <2>2, <2>4 DEF Phases
  <2>5. CASE q \in Ports /\ phase[q] = "kAddressingDevice" /\ phase' = ph
    BY <1>1, <2>4, <2>5 DEF InOrder, Successors
  <2>6. ASSUME q \in Ports, phase[q] = "kAddressingDevice",
               NEW w \in FirstWaiting, ResetPort(w, 0, ph, Tail(events))
        PROVE  \A p \in Ports : InOrder(phase[p], phase'[p])
    <3>1. w \in Ports /\ w # q /\ phase[w] = "kWaitingAddressed"
      BY <2>6 DEF FirstWaiting
    <3>2. ph[w] = "kWaitingAddressed"
      BY <2>4, <2>6, <3>1
    <3>3. \A p \in Ports : p # w => phase'[p] = ph[p]
      BY <2>4, <2>6, <3>1 DEF ResetPort
    <3>4. InOrder(ph[w], phase'[w])
      BY <2>4, <2>6, <3>1, <3>2, ResetPortInOrder
    <3> QED
      BY <2>4, <2>6, <3>1, <3>2, <3>3, <3>4 DEF InOrder, Successors
  <2> QED
    BY <1>6, <2>1, <2>2, <2>3, <2>5, <2>6 DEF OnAddressDeviceCompleted
<1>7. CASE OnTransfer
  <2>1. PICK q : q = ctx_port[Head(events).slot]
    OBVIOUS
  <2>2. CASE Ignore
    BY <1>2, <2>2 DEF Ignore
  <2>3. CASE /\ phase[q] = "kInitializingDevice"
             /\ phase' = [phase EXCEPT ![q] = "kConfiguringEndpoints"]
    BY <1>1, <2>3 DEF InOrder, Successors
  <2> QED
    BY <1>7, <2>1, <2>2, <2>3 DEF OnTransfer, ConfigureEndpoints
<1>8. CASE OnConfigureEndpointCompleted
  <2>1. PICK q : q = ctx_port[Head(events).slot]
    OBVIOUS
  <2>2. phase' = IF phase[q] = "kConfiguringEndpoints"
                 THEN [phase EXCEPT ![q] = "kConfigured"] ELSE phase
    BY <1>8, <2>1 DEF OnConfigureEndpointCompleted
  <2> QED
    BY <1>1, <2>2 DEF InOrder, Successors
<1>9. CASE Controller \/ (\E p \in Ports : Plug(p) \/ Unplug(p)) \/ UNCHANGED vars
  BY <1>2, <1>9 DEF Controller, ExecuteCommand, Announce, CompleteTransfer, Plug, Unplug,
                    vars, driverVars
<1> QED
  BY <1>3, <1>4, <1>5, <1>6, <1>7, <1>8, <1>9 DEF Next, Driver

\* A port goes through its phases in their order: no late, stale or failed
\* event makes it skip one or go back, whatever port the event turns out to
\* be for.
THEOREM PhasesInOrder == Spec => PhaseOrder
<1>1. IInv /\ [Next]_vars =>
        [\A p \in Ports : phase'[p] # phase[p] => phase'[p] \in Successors[phase[p]]]_vars
  BY PortsAssumption, NextInOrder DEF InOrder
<1> QED
  BY <1>1, InductiveInvariant, PTL DEF Spec, PhaseOrder
===============================================================================
