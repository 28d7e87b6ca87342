--------------------------- MODULE UsbDeviceProofs ---------------------------
(***************************************************************************)
(* Proofs about UsbDevice, for any set of keys, any lengths of the two     *)
(* maps and of the ring, any number of reports, and any set of             *)
(* configuration descriptors that UsbAssumption admits: each interface has *)
(* at most MaxEpConfigs endpoints, their numbers fit into setup_stage_map_ *)
(* and two blocks for each of them into the ring.                          *)
(***************************************************************************)
EXTENDS UsbDevice, FiniteSetTheorems, SequenceTheorems, WellFoundedInduction, TLAPS

-----------------------------------------------------------------------------
(* The inductive invariant *)

EventRecord == [type : {"control", "command", "interrupt"}, position : Nat, ok : BOOLEAN,
                keys : SUBSET Keys]

StateTyped ==
  /\ configuration \in Configurations
  /\ events \in Seq(EventRecord)

\* What the set-up has stored by the time it is used.
SetUpStored ==
  /\ d.is_initialized_ => d.port # "kInitializingDevice"
  /\ d.initialize_phase_ >= 3 =>
       /\ Supported # {} /\ d.driver = FirstSupported
       /\ d.ep_configs_ = configuration[d.driver].endpoints
       /\ d.class_drivers_ = Numbers(d.ep_configs_)
  /\ d.initialize_phase_ = 4 => d.ep_interrupt_in_ = LastIn(d.ep_configs_)
  /\ d.port # "kInitializingDevice" => ToSet(d.ep_configs_) \subseteq d.rings

None(type) == \A k \in 1..Len(events) : events[k].type # type
AtMostOne(type) ==
  \A j, k \in 1..Len(events) : events[j].type = type /\ events[k].type = type => j = k

\* Where the driver is in the handler of the event at the front.
HandlerOK ==
  /\ pc # "idle" => events # <<>>
  /\ pc = "configure" => Head(events).type = "command" /\ d.hid_phase < 2
  /\ pc \in {"copy", "post"} => Head(events).type = "interrupt" /\ Head(events).ok

\* The endpoints are configured once.
OneCommand ==
  /\ command => d.port = "kConfiguringEndpoints" /\ None("command")
  /\ d.port # "kConfiguringEndpoints" => None("command")
  /\ AtMostOne("command")
  /\ pc # "configure" /\ d.port # "kConfigured" => d.hid_phase = 0

\* A report is in the buffer until it has been handled, and a transfer that
\* has failed has stopped the pipe.
InterruptOK(k) ==
  /\ events[k].type = "interrupt" /\ events[k].ok =>
       "interrupt" \notin halted /\ events[k].keys = d.buf_
  /\ events[k].type = "interrupt" /\ ~events[k].ok => "interrupt" \in halted

\* The report that is asked for, on its way or being handled is the only one.
OneReport ==
  /\ d.normals \in {0, 1}
  /\ d.hid_phase # 2 => d.normals = 0 /\ None("interrupt") /\ "interrupt" \notin halted
  /\ d.normals = 1 => None("interrupt") /\ "interrupt" \notin halted
  /\ d.hid_phase = 2 /\ d.normals = 0 /\ None("interrupt") => "interrupt" \in halted
  /\ AtMostOne("interrupt")
  /\ \A k \in 1..Len(events) : InterruptOK(k)

\* The buffers hold the report of the history they should.
BuffersOK ==
  /\ pc # "copy" => d.previous_buf_ = report
  /\ pc = "copy" => d.previous_buf_ = previous /\ d.buf_ = report
  /\ KeysSeenOnce

\* The blocks of the control pipe have consecutive positions, and of the last
\* two one is to interrupt.  The map leads from distinct places to setup stages
\* that are on the ring; every block that is to interrupt leads to the one
\* before it, which is its request's, and a class driver's request has its
\* issuer.
Distinct(map) == \A j, k \in 1..Len(map) : map[j].key = map[k].key => j = k
MappedOK(s, k) ==
  /\ s.setup_stage_map_[k].value + 1 <= s.pushed
  /\ s.setup_stage_map_[k].key = Place(s.setup_stage_map_[k].value + 1)
  /\ s.ring[Place(s.setup_stage_map_[k].value)] # "none"
PositionsOf(s) ==
  /\ Len(s.ep0) <= s.pushed
  /\ \A k \in 1..Len(s.ep0) : s.ep0[k].position = (s.pushed - Len(s.ep0)) + k
  /\ Len(s.ep0) >= 2 => s.ep0[Len(s.ep0)].interrupts \/ s.ep0[Len(s.ep0) - 1].interrupts
  /\ Distinct(s.setup_stage_map_)
  /\ \A k \in 1..Len(s.setup_stage_map_) : MappedOK(s, k)
Leads(map, position) ==
  \E i \in 1..Len(map) : map[i] = Entry(Place(position), position - 1)
RoutedOf(s) ==
  \A k \in 1..Len(s.ep0) : s.ep0[k].interrupts =>
    /\ Leads(s.setup_stage_map_, s.ep0[k].position)
    /\ s.ring[Place(s.ep0[k].position - 1)] = s.ep0[k].request
    /\ s.ep0[k].request = "SetProtocol" => Has(s.event_waiters_, "SetProtocol")

\* The blocks after low are those that no Push may overwrite: the ones the xHC
\* has yet to execute, and the setup stages the map leads to.  While the class
\* driver is called for one endpoint number after the other, there is room on
\* the ring for all it will push.
WindowOf(s, low) ==
  /\ low <= s.pushed - Len(s.ep0)
  /\ \A k \in 1..Len(s.setup_stage_map_) : low < s.setup_stage_map_[k].value
Reserve == IF pc = "configure" THEN 2 * Cardinality(todo) ELSE 0
Low == (d.pushed - RingSlots) + Reserve
Window == WindowOf(d, Low)

\* What has completed is behind the blocks, each once, and the map leads to
\* its setup stage.
Completed(k) == events[k].type = "control" /\ events[k].ok
CompletedOK ==
  /\ \A k \in 1..Len(events) : Completed(k) =>
       /\ events[k].position <= d.pushed - Len(d.ep0)
       /\ Leads(d.setup_stage_map_, events[k].position)
  /\ \A j, k \in 1..Len(events) :
       Completed(j) /\ Completed(k) /\ events[j].position = events[k].position => j = k

\* There is room in the maps whenever a request is made.
Room ==
  /\ ~d.is_initialized_ => Len(d.setup_stage_map_) <= 1
  /\ (d.is_initialized_ /\ d.port # "kConfigured" /\ pc # "configure") => d.setup_stage_map_ = <<>>
  /\ pc = "configure" => /\ Len(d.setup_stage_map_) + Cardinality(todo) <= MaxSetupStages
                         /\ 2 * Cardinality(todo) < RingSlots
  /\ d.event_waiters_ = <<>> \/ Has(d.event_waiters_, "SetProtocol")

IInv ==
  /\ TypeOK /\ StateTyped /\ SetUpOrder /\ SetUpStored
  /\ HandlerOK /\ OneCommand /\ OneReport /\ BuffersOK
  /\ PositionsOf(d) /\ RoutedOf(d) /\ Window /\ CompletedOK /\ Room

-----------------------------------------------------------------------------
(* The first and the last of finitely many *)

LEMMA Smallest ==
  ASSUME NEW T, T \subseteq Nat, T # {}
  PROVE  \E x \in T : \A y \in T : x <= y
<1>1. PICK x \in T : \A y \in T : ~(<<y, x>> \in OpToRel(<, Nat))
  BY NatLessThanWellFounded, WFMin
<1> SUFFICES ASSUME NEW y \in T PROVE x <= y
  BY <1>1
<1>2. x \in Nat /\ y \in Nat
  BY <1>1
<1>3. ~(y < x)
  BY <1>1, <1>2 DEF OpToRel
<1> QED
  BY <1>2, <1>3

LEMMA Largest ==
  ASSUME NEW n \in Nat, NEW T, T \subseteq 1..n, T # {}
  PROVE  \E x \in T : \A y \in T : y <= x
<1> DEFINE U == {m \in 0..n : n - m \in T}
<1>1. \A y \in T : y \in 1..n
  OBVIOUS
<1>2. \A y \in T : n - y \in U
  <2> SUFFICES ASSUME NEW y \in T PROVE n - y \in U
    OBVIOUS
  <2>1. y \in 1..n
    BY <1>1
  <2>2. n - y \in 0..n /\ n - (n - y) = y
    BY <2>1
  <2> QED
    BY <2>2
<1>3. U \subseteq Nat /\ U # {}
  <2>1. PICK y : y \in T
    OBVIOUS
  <2>2. n - y \in U
    BY <1>2, <2>1
  <2> QED
    BY <2>2
<1>4. PICK u \in U : \A v \in U : u <= v
  <2> HIDE DEF U
  <2> QED
    BY <1>3, Smallest
<1>5. u \in 0..n /\ n - u \in T
  BY <1>4
<1>6. \A y \in T : y <= n - u
  <2> SUFFICES ASSUME NEW y \in T PROVE y <= n - u
    OBVIOUS
  <2>1. y \in 1..n
    BY <1>1
  <2>2. u <= n - y
    BY <1>2, <1>4
  <2> QED
    BY <1>5, <2>1, <2>2
<1> QED
  BY <1>5, <1>6

LEMMA NumbersFinite ==
  ASSUME NEW T, T \subseteq 1..15
  PROVE  IsFiniteSet(T) /\ Cardinality(T) \in Nat
<1>1. IsFiniteSet(1..15)
  <2>1. 1 \in Int /\ 15 \in Int
    OBVIOUS
  <2> QED
    BY <2>1, FS_Interval, Zenon
<1>2. IsFiniteSet(T)
  BY <1>1, FS_Subset
<1> QED
  BY <1>2, FS_CardinalityType

LEMMA FirstSupportedExists ==
  ASSUME UsbAssumption, configuration \in Configurations, Supported # {}
  PROVE  /\ FirstSupported \in Supported
         /\ FirstSupported \in 1..Len(configuration)
         /\ configuration[FirstSupported] \in Interface
<1>1. configuration \in Seq(Interface)
  BY DEF UsbAssumption
<1>2. Len(configuration) \in Nat
  BY <1>1, LenProperties
<1>3. Supported \subseteq Nat
  BY <1>2 DEF Supported
<1>4. \E k \in Supported : \A j \in Supported : k <= j
  BY <1>3, Smallest
<1>5. FirstSupported \in Supported
  BY <1>4 DEF FirstSupported
<1>6. FirstSupported \in 1..Len(configuration)
  BY <1>5 DEF Supported
<1> QED
  BY <1>1, <1>5, <1>6, ElementOfSeq

\* SetEndpoint finds an interrupt IN endpoint.
LEMMA LastInExists ==
  ASSUME NEW eps \in Seq(Endpoint), \E n \in 1..Len(eps) : eps[n].in
  PROVE  LastIn(eps) \in ToSet(eps) /\ LastIn(eps) \in Endpoint
<1> DEFINE T == {n \in 1..Len(eps) : eps[n].in}
<1>1. Len(eps) \in Nat /\ DOMAIN eps = 1..Len(eps)
  BY LenProperties
<1>2. PICK x \in T : \A y \in T : y <= x
  <2>1. T \subseteq 1..Len(eps) /\ T # {}
    OBVIOUS
  <2> HIDE DEF T
  <2> QED
    BY <1>1, <2>1, Largest
<1>3. \E n \in 1..Len(eps) : eps[n].in /\ \A k \in (n+1)..Len(eps) : ~eps[k].in
  <2>1. x \in 1..Len(eps) /\ eps[x].in
    BY <1>2
  <2>2. \A k \in (x+1)..Len(eps) : k \in 1..Len(eps) /\ ~(k <= x)
    BY <2>1, <1>1
  <2> QED
    BY <2>1, <2>2, <1>2
<1>4. PICK n \in 1..Len(eps) : LastIn(eps) = eps[n]
  BY <1>3 DEF LastIn
<1>5. eps[n] \in Endpoint
  BY <1>4, ElementOfSeq
<1> QED
  BY <1>1, <1>4, <1>5 DEF ToSet

-----------------------------------------------------------------------------
(* usb::ArrayMap *)

LEMMA PutNew ==
  ASSUME NEW S, NEW map \in Seq(S), NEW n, NEW key, NEW value, Entry(key, value) \in S,
         n \in Nat, Len(map) < n, Distinct(map), ~Has(map, key)
  PROVE  /\ Put(map, n, key, value) \in Seq(S)
         /\ Distinct(Put(map, n, key, value))
         /\ Len(Put(map, n, key, value)) = Len(map) + 1
         /\ \E k \in 1..Len(Put(map, n, key, value)) : Put(map, n, key, value)[k] = Entry(key, value)
         /\ \A k \in 1..Len(map) : \E j \in 1..Len(Put(map, n, key, value)) :
              Put(map, n, key, value)[j] = map[k]
         /\ \A k \in 1..Len(Put(map, n, key, value)) :
              \/ k \in 1..Len(map) /\ Put(map, n, key, value)[k] = map[k]
              \/ Put(map, n, key, value)[k] = Entry(key, value)
<1> DEFINE e == Entry(key, value)
           r == Append(map, e)
<1>1. Put(map, n, key, value) = r
  BY DEF Put
<1>2. /\ Len(map) \in Nat /\ r \in Seq(S) /\ Len(r) = Len(map) + 1
      /\ \A i \in 1..Len(map) : r[i] = map[i]
      /\ r[Len(map) + 1] = e
  BY AppendProperties, LenProperties
<1>3. \A k : k \in 1..Len(r) <=> (k \in 1..Len(map) \/ k = Len(map) + 1)
  BY <1>2
<1>4. e.key = key
  BY DEF Entry
<1>5. \A k \in 1..Len(map) : map[k].key # key
  BY DEF Has
<1>6. Distinct(r)
  BY <1>2, <1>3, <1>4, <1>5 DEF Distinct
<1>7. /\ \E k \in 1..Len(r) : r[k] = e
      /\ \A k \in 1..Len(map) : \E j \in 1..Len(r) : r[j] = map[k]
  BY <1>2, <1>3
<1>8. \A k \in 1..Len(r) : (k \in 1..Len(map) /\ r[k] = map[k]) \/ r[k] = e
  BY <1>2, <1>3
<1> QED
  BY <1>1, <1>2, <1>6, <1>7, <1>8

\* With distinct keys Get finds the entry there is.
LEMMA GetFinds ==
  ASSUME NEW map, Distinct(map), Len(map) \in Nat, NEW k \in 1..Len(map)
  PROVE  First(map, map[k].key) = k /\ Get(map, map[k].key) = map[k].value
<1>1. \A j \in 1..(k-1) : j \in 1..Len(map) /\ j # k
  OBVIOUS
<1>2. \A j \in 1..(k-1) : map[j].key # map[k].key
  BY <1>1 DEF Distinct
<1>3. PICK f : f = First(map, map[k].key)
  OBVIOUS
<1>4. f \in 1..Len(map) /\ map[f].key = map[k].key
  BY <1>2, <1>3 DEF First
<1>5. f = k
  BY <1>4 DEF Distinct
<1> QED
  BY <1>3, <1>5 DEF Get

LEMMA DeleteOne ==
  ASSUME NEW S, NEW map \in Seq(S), NEW key, Distinct(map), Has(map, key),
         NEW m, m = Delete(map, key)
  PROVE  /\ m \in Seq(S) /\ Distinct(m) /\ Len(m) = Len(map) - 1
         /\ \A k \in 1..Len(m) : \E i \in 1..Len(map) : m[k] = map[i]
         /\ \A i \in 1..Len(map) : map[i].key # key => \E k \in 1..Len(m) : m[k] = map[i]
<1>1. Len(map) \in Nat
  BY LenProperties
<1>2. PICK f \in 1..Len(map) : map[f].key = key
  BY DEF Has
<1>3. First(map, key) = f
  BY <1>1, <1>2, GetFinds
<1> DEFINE a == SubSeq(map, 1, f - 1)
           b == SubSeq(map, f + 1, Len(map))
           r == a \o b
<1>4. m = r
  BY <1>3 DEF Delete, RemoveAt
<1>5. \A i \in 1..Len(map) : map[i] \in S
  BY ElementOfSeq
<1>6. /\ a \in Seq(S) /\ Len(a) = f - 1
      /\ \A i \in 1..(f - 1) : a[i] = map[i]
  <2>1. 1 \in Int /\ f - 1 \in Int /\ \A i \in 1..(f - 1) : map[i] \in S
    BY <1>1, <1>5
  <2>2. /\ a \in Seq(S)
        /\ Len(a) = (IF 1 <= f - 1 THEN (f - 1) - 1 + 1 ELSE 0)
        /\ \A i \in 1..((f - 1) - 1 + 1) : a[i] = map[1 + i - 1]
    BY <2>1, SubSeqProperties
  <2> QED
    BY <2>2, <1>1
<1>7. /\ b \in Seq(S) /\ Len(b) = Len(map) - f
      /\ \A i \in 1..(Len(map) - f) : b[i] = map[f + i]
  <2>1. f + 1 \in Int /\ Len(map) \in Int /\ \A i \in (f + 1)..Len(map) : map[i] \in S
    BY <1>1, <1>5
  <2>2. /\ b \in Seq(S)
        /\ Len(b) = (IF f + 1 <= Len(map) THEN Len(map) - (f + 1) + 1 ELSE 0)
        /\ \A i \in 1..(Len(map) - (f + 1) + 1) : b[i] = map[(f + 1) + i - 1]
    BY <2>1, SubSeqProperties
  <2>3. Len(b) = Len(map) - f
    BY <2>2, <1>1
  <2>4. \A i \in 1..(Len(map) - f) : b[i] = map[f + i]
    <3> SUFFICES ASSUME NEW i \in 1..(Len(map) - f) PROVE b[i] = map[f + i]
      OBVIOUS
    <3>1. i \in 1..(Len(map) - (f + 1) + 1) /\ (f + 1) + i - 1 = f + i
      BY <1>1
    <3> QED
      BY <2>2, <3>1
  <2> QED
    BY <2>2, <2>3, <2>4
<1> HIDE DEF a, b
<1>8. /\ r \in Seq(S) /\ Len(r) = Len(map) - 1
      /\ \A i \in 1..Len(r) : r[i] = IF i <= Len(a) THEN a[i] ELSE b[i - Len(a)]
  <2>1. /\ r \in Seq(S) /\ Len(r) = Len(a) + Len(b)
        /\ \A i \in 1..(Len(a) + Len(b)) : r[i] = IF i <= Len(a) THEN a[i] ELSE b[i - Len(a)]
    BY <1>6, <1>7, ConcatProperties
  <2> QED
    BY <2>1, <1>1, <1>6, <1>7
<1> HIDE DEF r
<1>9. \A i \in 1..Len(r) : r[i] = map[IF i < f THEN i ELSE i + 1]
  <2> SUFFICES ASSUME NEW i \in 1..Len(r) PROVE r[i] = map[IF i < f THEN i ELSE i + 1]
    OBVIOUS
  <2>1. CASE i < f
    <3>1. i \in 1..(f - 1) /\ i <= Len(a)
      BY <2>1, <1>1, <1>6, <1>8
    <3> QED
      BY <2>1, <3>1, <1>6, <1>8
  <2>2. CASE ~(i < f)
    <3>1. /\ i - Len(a) \in 1..(Len(map) - f) /\ ~(i <= Len(a))
          /\ f + (i - Len(a)) = i + 1
      BY <2>2, <1>1, <1>6, <1>8
    <3> QED
      BY <2>2, <3>1, <1>7, <1>8
  <2> QED
    BY <2>1, <2>2
<1>10. \A i \in 1..Len(r) : (IF i < f THEN i ELSE i + 1) \in 1..Len(map) \ {f}
  BY <1>1, <1>8
<1>11. Distinct(r)
  <2> SUFFICES ASSUME NEW j \in 1..Len(r), NEW k \in 1..Len(r), r[j].key = r[k].key
               PROVE  j = k
    BY DEF Distinct
  <2>1. (IF j < f THEN j ELSE j + 1) = (IF k < f THEN k ELSE k + 1)
    BY <1>9, <1>10 DEF Distinct
  <2> QED
    BY <2>1, <1>1, <1>8
<1>12. \A i \in 1..Len(map) : map[i].key # key => \E k \in 1..Len(r) : r[k] = map[i]
  <2> SUFFICES ASSUME NEW i \in 1..Len(map), map[i].key # key
               PROVE  \E k \in 1..Len(r) : r[k] = map[i]
    OBVIOUS
  <2>1. i # f
    BY <1>2
  <2>2. PICK k : k = IF i < f THEN i ELSE i - 1
    OBVIOUS
  <2>3. k \in 1..Len(r) /\ (IF k < f THEN k ELSE k + 1) = i
    BY <2>1, <2>2, <1>1, <1>8
  <2> QED
    BY <2>3, <1>9
<1> QED
  BY <1>4, <1>8, <1>9, <1>10, <1>11, <1>12, SMTT(30)

-----------------------------------------------------------------------------
(* The ring of the control pipe *)

LEMMA PlaceTyped ==
  ASSUME UsbAssumption, NEW a \in Int
  PROVE  Place(a) \in Places
<1>1. RingSlots \in Nat /\ RingSlots >= 4
  BY DEF UsbAssumption
<1> QED
  BY <1>1 DEF Place, Places

LEMMA Quotient ==
  ASSUME NEW r \in Nat, r # 0, NEW x \in Int
  PROVE  \E q \in Int : x = r * q + (x % r)
<1>1. x = r * (x \div r) + (x % r)
  OBVIOUS
<1>2. x \div r \in Int
  OBVIOUS
<1> QED
  BY <1>1, <1>2

\* Nothing strictly between 0 and r is a multiple of r.
LEMMA NotAMultiple ==
  ASSUME NEW r \in Nat, NEW m \in Int, r * m < r, 0 < r * m
  PROVE  FALSE
<1>1. CASE m <= 0
  <2>1. r * m <= r * 0
    BY <1>1
  <2> QED
    BY <2>1
<1>2. CASE m >= 1
  <2>1. r * m >= r * 1
    BY <1>2
  <2> QED
    BY <2>1
<1> QED
  BY <1>1, <1>2

\* Fewer than RingSlots pushes apart, two blocks are at different places.
LEMMA PlacesDiffer ==
  ASSUME UsbAssumption, NEW a \in Int, NEW b \in Int, a < b, b - a < RingSlots
  PROVE  Place(a) # Place(b)
<1>1. RingSlots \in Nat /\ RingSlots >= 4
  BY DEF UsbAssumption
<1> SUFFICES ASSUME Place(a) = Place(b) PROVE FALSE
  OBVIOUS
<1>2. PICK p \in Int : a - 1 = RingSlots * p + Place(a)
  <2>1. RingSlots # 0 /\ a - 1 \in Int
    BY <1>1
  <2>2. \E p \in Int : a - 1 = RingSlots * p + ((a - 1) % RingSlots)
    BY <1>1, <2>1, Quotient
  <2> QED
    BY <2>2 DEF Place
<1>3. PICK q \in Int : b - 1 = RingSlots * q + Place(b)
  <2>1. RingSlots # 0 /\ b - 1 \in Int
    BY <1>1
  <2>2. \E q \in Int : b - 1 = RingSlots * q + ((b - 1) % RingSlots)
    BY <1>1, <2>1, Quotient
  <2> QED
    BY <2>2 DEF Place
<1>4. Place(a) \in Int
  BY <1>1 DEF Place
<1>5. RingSlots * q - RingSlots * p = b - a
  <2>1. RingSlots * q \in Int /\ RingSlots * p \in Int
    BY <1>1
  <2> QED
    BY <2>1, <1>2, <1>3, <1>4
<1>6. RingSlots * (q - p) = RingSlots * q - RingSlots * p
  BY <1>1
<1>7. q - p \in Int /\ 0 < RingSlots * (q - p) /\ RingSlots * (q - p) < RingSlots
  BY <1>1, <1>5, <1>6
<1> QED
  BY <1>1, <1>7, NotAMultiple

-----------------------------------------------------------------------------
(* A request on the control pipe *)

RequestBlocks(s, request) ==
  [k \in 1..Len(Stages(request)) |->
     [position |-> s.pushed + k, stage |-> Stages(request)[k],
      interrupts |-> k = 2, request |-> request]]

LEMMA StagesOf ==
  ASSUME NEW request
  PROVE  /\ Len(Stages(request)) \in {2, 3}
         /\ \A k \in 1..Len(Stages(request)) : Stages(request)[k] \in {"setup", "data", "status"}
BY DEF Stages

LEMMA BlocksOf ==
  ASSUME NEW s \in DeviceState, NEW request \in Requests, NEW b, b = RequestBlocks(s, request)
  PROVE  /\ b \in Seq(Blocks) /\ Len(b) \in {2, 3}
         /\ \A k \in 1..Len(b) : /\ b[k].position = s.pushed + k
                                 /\ b[k].interrupts <=> k = 2
                                 /\ b[k].request = request
<1>1. PICK n : n = Len(Stages(request))
  OBVIOUS
<1>2. n \in {2, 3} /\ \A k \in 1..n : Stages(request)[k] \in {"setup", "data", "status"}
  BY <1>1, StagesOf
<1>3. s.pushed \in Nat
  BY DEF DeviceState
<1>4. \A k \in 1..n : b[k] = [position |-> s.pushed + k, stage |-> Stages(request)[k],
                              interrupts |-> k = 2, request |-> request]
  BY <1>1 DEF RequestBlocks
<1>5. \A k \in 1..n : /\ b[k] \in Blocks /\ b[k].position = s.pushed + k
                      /\ b[k].interrupts <=> k = 2
                      /\ b[k].request = request
  <2> SUFFICES ASSUME NEW k \in 1..n
               PROVE  /\ b[k] \in Blocks /\ b[k].position = s.pushed + k
                      /\ b[k].interrupts <=> k = 2
                      /\ b[k].request = request
    OBVIOUS
  <2>1. PICK flag : flag = (k = 2)
    OBVIOUS
  <2>2. b[k] = [position |-> s.pushed + k, stage |-> Stages(request)[k],
                interrupts |-> flag, request |-> request]
    BY <1>4, <2>1
  <2>3. flag \in BOOLEAN
    BY <2>1
  <2>4. s.pushed + k \in Nat /\ Stages(request)[k] \in {"setup", "data", "status"}
    BY <1>2, <1>3
  <2>5. b[k] \in Blocks
    BY <2>2, <2>3, <2>4 DEF Blocks
  <2>6. b[k].position = s.pushed + k /\ b[k].request = request /\ b[k].interrupts = flag
    BY <2>2
  <2> QED
    BY <2>1, <2>5, <2>6
<1>6. b = [k \in 1..n |-> b[k]]
  BY <1>1 DEF RequestBlocks
<1>7. b \in Seq(Blocks) /\ Len(b) = n
  <2>1. \A k \in 1..n : b[k] \in Blocks
    BY <1>5
  <2> QED
    BY <1>2, <1>6, <2>1
<1>8. \A k \in 1..Len(b) : /\ b[k].position = s.pushed + k
                           /\ b[k].interrupts <=> k = 2
                           /\ b[k].request = request
  BY <1>5, <1>7, Zenon
<1> QED
  BY <1>2, <1>7, <1>8, Zenon

\* What a request leaves alone.
SameButQueues(s, r) ==
  /\ r.is_initialized_ = s.is_initialized_ /\ r.initialize_phase_ = s.initialize_phase_
  /\ r.ep_configs_ = s.ep_configs_ /\ r.driver = s.driver /\ r.class_drivers_ = s.class_drivers_
  /\ r.event_waiters_ = s.event_waiters_ /\ r.hid_phase = s.hid_phase
  /\ r.ep_interrupt_in_ = s.ep_interrupt_in_ /\ r.buf_ = s.buf_
  /\ r.previous_buf_ = s.previous_buf_ /\ r.port = s.port /\ r.rings = s.rings
  /\ r.normals = s.normals

\* The pushes of a request write its setup stage and leave every other place
\* alone that they do not come round to.
LEMMA WrittenOf ==
  ASSUME UsbAssumption, NEW s \in DeviceState, NEW request \in Requests,
         NEW w, w = Written(s, request)
  PROVE  /\ w \in [Places -> Requests \cup {"none"}]
         /\ w[Place(s.pushed + 1)] = request
         /\ \A v \in Int : v <= s.pushed /\ (s.pushed + Len(Stages(request))) - v < RingSlots =>
              w[Place(v)] = s.ring[Place(v)]
<1>1. s.pushed \in Nat /\ s.ring \in [Places -> Requests \cup {"none"}]
  BY DEF DeviceState
<1>2. PICK n : n = Len(Stages(request))
  OBVIOUS
<1>3. n \in {2, 3}
  BY <1>2, StagesOf
<1>4. w = [p \in Places |-> IF p = Place(s.pushed + 1) THEN request
                            ELSE IF \E k \in 2..n : p = Place(s.pushed + k) THEN "none"
                            ELSE s.ring[p]]
  BY <1>2 DEF Written
<1>5. w \in [Places -> Requests \cup {"none"}]
  BY <1>1, <1>4
<1>6. w[Place(s.pushed + 1)] = request
  <2>1. Place(s.pushed + 1) \in Places
    BY <1>1, PlaceTyped
  <2> QED
    BY <2>1, <1>4
<1>7. ASSUME NEW v \in Int, v <= s.pushed, (s.pushed + n) - v < RingSlots
      PROVE  w[Place(v)] = s.ring[Place(v)]
  <2>1. Place(v) \in Places
    BY PlaceTyped
  <2>2. ASSUME NEW k \in 1..n
        PROVE  Place(v) # Place(s.pushed + k)
    <3>1. RingSlots \in Nat
      BY DEF UsbAssumption
    <3>2. k \in Nat /\ 1 <= k /\ k <= n /\ n \in Nat
      BY <1>3
    <3>3. s.pushed + k \in Int /\ v < s.pushed + k /\ (s.pushed + k) - v < RingSlots
      BY <3>1, <3>2, <1>1, <1>7
    <3> QED
      BY <3>3, PlacesDiffer
  <2>3. 1 \in 1..n /\ \A k \in 2..n : k \in 1..n
    BY <1>3
  <2>4. Place(v) # Place(s.pushed + 1) /\ ~\E k \in 2..n : Place(v) = Place(s.pushed + k)
    BY <2>2, <2>3
  <2> QED
    BY <2>1, <2>4, <1>4
<1> QED
  BY <1>2, <1>5, <1>6, <1>7

\* There is room for a request in the map and, as far as low, on the ring.
Ready(s, request, low) ==
  /\ PositionsOf(s) /\ RoutedOf(s) /\ WindowOf(s, low)
  /\ Len(s.setup_stage_map_) < MaxSetupStages
  /\ (s.pushed + Len(Stages(request))) - RingSlots <= low
  /\ request = "SetProtocol" => Has(s.event_waiters_, "SetProtocol")

\* What making it changes.
Requested(s, request, low, r) ==
  /\ r \in DeviceState /\ SameButQueues(s, r)
  /\ PositionsOf(r) /\ RoutedOf(r) /\ WindowOf(r, low)
  /\ r.pushed = s.pushed + Len(Stages(request))
  /\ Len(r.setup_stage_map_) = Len(s.setup_stage_map_) + 1
  /\ r.pushed - Len(r.ep0) = s.pushed - Len(s.ep0)
  /\ \A x : Leads(s.setup_stage_map_, x) => Leads(r.setup_stage_map_, x)

LEMMA ControlEffect ==
  ASSUME UsbAssumption, NEW s \in DeviceState, NEW request \in Requests, NEW low \in Int,
         Ready(s, request, low), NEW r, r = Control(s, request)
  PROVE  Requested(s, request, low, r)
<1>0. /\ PositionsOf(s) /\ RoutedOf(s) /\ WindowOf(s, low)
      /\ Len(s.setup_stage_map_) < MaxSetupStages
      /\ (s.pushed + Len(Stages(request))) - RingSlots <= low
      /\ request = "SetProtocol" => Has(s.event_waiters_, "SetProtocol")
  BY DEF Ready
<1>1. PICK b : b = RequestBlocks(s, request)
  OBVIOUS
<1>2. /\ b \in Seq(Blocks) /\ Len(b) \in {2, 3}
      /\ \A k \in 1..Len(b) : /\ b[k].position = s.pushed + k
                              /\ b[k].interrupts <=> k = 2
                              /\ b[k].request = request
  BY <1>1, BlocksOf
<1>2a. Len(b) = Len(Stages(request))
  BY <1>1, StagesOf DEF RequestBlocks
<1>2b. PICK e : e = Entry(Place(s.pushed + 2), s.pushed + 1)
  OBVIOUS
<1>2c. PICK w : w = Written(s, request)
  OBVIOUS
<1>3. PICK m : m = Put(s.setup_stage_map_, MaxSetupStages, Place(s.pushed + 2), s.pushed + 1)
  OBVIOUS
<1>4. r = [s EXCEPT !.pushed = s.pushed + Len(b), !.ep0 = s.ep0 \o b, !.ring = w,
                    !.setup_stage_map_ = m]
  BY <1>1, <1>2c, <1>3 DEF Control, RequestBlocks
<1>5. /\ s.pushed \in Nat /\ s.ep0 \in Seq(Blocks) /\ RingSlots \in Nat
      /\ s.setup_stage_map_ \in Seq([key : Places, value : Nat])
      /\ Len(s.ep0) \in Nat /\ Len(s.setup_stage_map_) \in Nat
  BY LenProperties DEF DeviceState, UsbAssumption
<1>5b. Len(b) \in Nat /\ Len(b) >= 2 /\ Len(b) <= 3
  <2>1. PICK n : n = Len(b)
    OBVIOUS
  <2>2. n \in {2, 3}
    BY <2>1, <1>2
  <2>3. n \in Nat /\ n >= 2 /\ n <= 3
    BY <2>2
  <2> QED
    BY <2>1, <2>3
<1>5c. low <= s.pushed - Len(s.ep0)
  BY <1>0 DEF WindowOf
\* The setup stages the map leads to are not overwritten, and no place is
\* used as a key again.
<1>5a. ASSUME NEW k \in 1..Len(s.setup_stage_map_), NEW v, v = s.setup_stage_map_[k].value
       PROVE  /\ v \in Nat /\ low < v /\ v + 1 <= s.pushed
              /\ s.setup_stage_map_[k].key = Place(v + 1)
              /\ s.setup_stage_map_[k].key # Place(s.pushed + 2)
              /\ w[Place(v)] = s.ring[Place(v)] /\ s.ring[Place(v)] # "none"
  <2>1. s.setup_stage_map_[k] \in [key : Places, value : Nat]
    BY <1>5, ElementOfSeq
  <2>2. v \in Nat
    BY <2>1, <1>5a
  <2>3. low < v
    BY <1>0, <1>5a DEF WindowOf
  <2>4. v + 1 <= s.pushed /\ s.setup_stage_map_[k].key = Place(v + 1) /\ s.ring[Place(v)] # "none"
    BY <1>0, <1>5a DEF PositionsOf, MappedOK
  <2>5. (s.pushed + Len(b)) - v < RingSlots
    BY <2>2, <2>3, <1>0, <1>2a, <1>5, <1>5b
  <2>6. w[Place(v)] = s.ring[Place(v)]
    <3>1. v \in Int /\ v <= s.pushed
      BY <2>2, <2>4, <1>5
    <3> QED
      BY <3>1, <2>5, <1>2a, <1>2c, WrittenOf
  <2>7. Place(v + 1) # Place(s.pushed + 2)
    <3>1. PICK p, n : p = s.pushed /\ n = Len(b)
      OBVIOUS
    <3>2. /\ p \in Nat /\ n \in Nat /\ n >= 2 /\ RingSlots \in Nat
          /\ v + 1 <= p /\ (p + n) - v < RingSlots
      BY <3>1, <2>4, <2>5, <1>5, <1>5b
    <3>3. /\ v + 1 \in Int /\ p + 2 \in Int /\ v + 1 < p + 2
          /\ (p + 2) - (v + 1) < RingSlots
      BY <3>2, <2>2
    <3> QED
      BY <3>1, <3>3, PlacesDiffer
  <2> QED
    BY <2>2, <2>3, <2>4, <2>6, <2>7
<1>6. /\ m \in Seq([key : Places, value : Nat])
      /\ Distinct(m) /\ Len(m) = Len(s.setup_stage_map_) + 1
      /\ \E k \in 1..Len(m) : m[k] = e
      /\ \A k \in 1..Len(s.setup_stage_map_) : \E j \in 1..Len(m) : m[j] = s.setup_stage_map_[k]
      /\ \A k \in 1..Len(m) : \/ k \in 1..Len(s.setup_stage_map_) /\ m[k] = s.setup_stage_map_[k]
                              \/ m[k] = e
  <2>6. PICK key : key = Place(s.pushed + 2)
    OBVIOUS
  <2>6a. PICK value : value = s.pushed + 1
    OBVIOUS
  <2>1. e \in [key : Places, value : Nat] /\ e = Entry(key, value)
    <3>1. key \in Places /\ value \in Nat
      BY <2>6, <2>6a, <1>5, PlaceTyped
    <3>2. Entry(key, value) \in [key : Places, value : Nat]
      BY <3>1 DEF Entry
    <3> QED
      BY <3>2, <2>6, <2>6a, <1>2b
  <2>2. ~Has(s.setup_stage_map_, key)
    BY <2>6, <1>5a DEF Has
  <2>3. Distinct(s.setup_stage_map_) /\ MaxSetupStages \in Nat
    BY <1>0 DEF PositionsOf, UsbAssumption
  <2>4. PICK S : S = [key : Places, value : Nat]
    OBVIOUS
  <2>5. PICK map : map = s.setup_stage_map_
    OBVIOUS
  <2>7. /\ map \in Seq(S) /\ Entry(key, value) \in S /\ Len(map) < MaxSetupStages
        /\ Distinct(map) /\ ~Has(map, key) /\ m = Put(map, MaxSetupStages, key, value)
    BY <1>0, <1>3, <1>5, <2>1, <2>2, <2>3, <2>4, <2>5, <2>6, <2>6a
  <2>8. m \in Seq(S) /\ Distinct(m) /\ Len(m) = Len(map) + 1
    BY <2>3, <2>7, PutNew
  <2>9. \E k \in 1..Len(m) : m[k] = Entry(key, value)
    BY <2>3, <2>7, PutNew
  <2>10. \A k \in 1..Len(map) : \E j \in 1..Len(m) : m[j] = map[k]
    BY <2>3, <2>7, PutNew
  <2>11. \A k \in 1..Len(m) : \/ k \in 1..Len(map) /\ m[k] = map[k]
                             \/ m[k] = Entry(key, value)
    BY <2>3, <2>7, PutNew
  <2> QED
    BY <2>1, <2>4, <2>5, <2>8, <2>9, <2>10, <2>11
<1>6a. e.key = Place(s.pushed + 2) /\ e.value = s.pushed + 1
  BY <1>2b DEF Entry
<1>6b. w \in [Places -> Requests \cup {"none"}] /\ w[Place(s.pushed + 1)] = request
  BY <1>2c, WrittenOf
<1>6c. \A x : Leads(s.setup_stage_map_, x) => Leads(m, x)
  BY <1>6 DEF Leads
<1>7. /\ s.ep0 \o b \in Seq(Blocks) /\ Len(s.ep0 \o b) = Len(s.ep0) + Len(b)
      /\ \A k \in 1..(Len(s.ep0) + Len(b)) :
           (s.ep0 \o b)[k] = IF k <= Len(s.ep0) THEN s.ep0[k] ELSE b[k - Len(s.ep0)]
  BY <1>2, <1>5, ConcatProperties
<1>8. /\ r.pushed = s.pushed + Len(b) /\ r.ep0 = s.ep0 \o b /\ r.setup_stage_map_ = m
      /\ r.ring = w /\ SameButQueues(s, r)
  BY <1>4 DEF DeviceState, SameButQueues
<1>9. r \in DeviceState
  <2>1. s.pushed + Len(b) \in Nat
    BY <1>5, <1>5b
  <2>2. PICK t : t = [s EXCEPT !.pushed = s.pushed + Len(b), !.ep0 = s.ep0 \o b]
    OBVIOUS
  <2>3. t \in DeviceState
    BY <2>1, <2>2, <1>7 DEF DeviceState
  <2>4. PICK u : u = [t EXCEPT !.ring = w]
    OBVIOUS
  <2>5. u \in DeviceState
    BY <2>3, <2>4, <1>6b DEF DeviceState
  <2>6. r = [u EXCEPT !.setup_stage_map_ = m]
    BY <2>2, <2>4, <1>4 DEF DeviceState
  <2>7. m \in Seq([key : Places, value : Nat])
    BY <1>6
  <2> QED
    BY <2>5, <2>6, <2>7 DEF DeviceState
<1>10. r.pushed - Len(r.ep0) = s.pushed - Len(s.ep0)
  BY <1>2, <1>5, <1>7, <1>8
\* Each block is an old one or one of the request.
<1>11. \A k \in 1..Len(r.ep0) :
         \/ k \in 1..Len(s.ep0) /\ r.ep0[k] = s.ep0[k]
         \/ /\ k - Len(s.ep0) \in 1..Len(b)
            /\ r.ep0[k] = b[k - Len(s.ep0)] /\ k \in Nat
  <2> SUFFICES ASSUME NEW k \in 1..Len(r.ep0)
               PROVE  \/ k \in 1..Len(s.ep0) /\ r.ep0[k] = s.ep0[k]
                      \/ /\ k - Len(s.ep0) \in 1..Len(b)
                         /\ r.ep0[k] = b[k - Len(s.ep0)] /\ k \in Nat
    OBVIOUS
  <2>1. k \in 1..(Len(s.ep0) + Len(b))
    BY <1>7, <1>8
  <2>2. Len(b) \in Nat
    BY <1>2
  <2>3. CASE k <= Len(s.ep0)
    BY <2>1, <2>2, <2>3, <1>5, <1>7, <1>8
  <2>4. CASE ~(k <= Len(s.ep0))
    <3>1. k - Len(s.ep0) \in 1..Len(b) /\ k \in Nat
      BY <2>1, <2>2, <2>4, <1>5
    <3> QED
      BY <3>1, <2>1, <2>4, <1>7, <1>8
  <2> QED
    BY <2>3, <2>4
<1>12. PositionsOf(r)
  <2>1. Len(r.ep0) <= r.pushed
    BY <1>0, <1>2, <1>5, <1>7, <1>8 DEF PositionsOf
  <2>2. \A k \in 1..Len(r.ep0) : r.ep0[k].position = (r.pushed - Len(r.ep0)) + k
    <3> SUFFICES ASSUME NEW k \in 1..Len(r.ep0)
                 PROVE  r.ep0[k].position = (r.pushed - Len(r.ep0)) + k
      OBVIOUS
    <3>1. CASE k \in 1..Len(s.ep0) /\ r.ep0[k] = s.ep0[k]
      BY <3>1, <1>0, <1>10 DEF PositionsOf
    <3>2. CASE /\ k - Len(s.ep0) \in 1..Len(b) /\ k \in Nat
               /\ r.ep0[k] = b[k - Len(s.ep0)]
      <4>1. r.ep0[k].position = s.pushed + (k - Len(s.ep0))
        BY <3>2, <1>2
      <4> QED
        BY <4>1, <3>2, <1>5, <1>10
    <3> QED
      BY <3>1, <3>2, <1>11
  <2>3. ASSUME NEW k \in 1..Len(m) PROVE MappedOK(r, k)
    <3>1. CASE k \in 1..Len(s.setup_stage_map_) /\ m[k] = s.setup_stage_map_[k]
      <4>1. PICK v : v = m[k].value
        OBVIOUS
      <4>2. /\ v \in Nat /\ v + 1 <= s.pushed /\ m[k].key = Place(v + 1)
            /\ w[Place(v)] # "none"
        BY <4>1, <3>1, <1>5a
      <4>3. v + 1 <= r.pushed
        BY <4>2, <1>5, <1>5b, <1>8
      <4> QED
        BY <4>1, <4>2, <4>3, <1>8 DEF MappedOK
    <3>2. CASE m[k] = e
      <4>1. s.pushed + 1 + 1 <= r.pushed /\ (s.pushed + 1) + 1 = s.pushed + 2
        BY <1>5, <1>5b, <1>8
      <4>2. request # "none"
        BY DEF Requests
      <4> QED
        BY <4>1, <4>2, <3>2, <1>6a, <1>6b, <1>8 DEF MappedOK
    <3> QED
      BY <3>1, <3>2, <1>6
  <2>4. r.ep0[Len(r.ep0)].interrupts \/ r.ep0[Len(r.ep0) - 1].interrupts
    <3>1. PICK k : k = Len(s.ep0) + 2
      OBVIOUS
    <3>1a. PICK n, l : n = Len(b) /\ l = Len(s.ep0)
      OBVIOUS
    <3>1b. n \in Nat /\ n >= 2 /\ n <= 3 /\ l \in Nat /\ k = l + 2
      BY <3>1, <3>1a, <1>5, <1>5b
    <3>1c. Len(r.ep0) = l + n
      BY <3>1a, <1>7, <1>8
    <3>1d. k \in 1..(l + n) /\ ~(k <= l) /\ k - l = 2 /\ (k = l + n \/ k = (l + n) - 1)
      BY <3>1b
    <3>2. /\ k \in 1..(Len(s.ep0) + Len(b)) /\ ~(k <= Len(s.ep0)) /\ k - Len(s.ep0) = 2
          /\ k = Len(r.ep0) \/ k = Len(r.ep0) - 1
      BY <3>1a, <3>1c, <3>1d
    <3>3. r.ep0[k] = b[2] /\ 2 \in 1..Len(b)
      BY <3>2, <1>5b, <1>7, <1>8
    <3> QED
      BY <3>2, <3>3, <1>2
  <2> QED
    BY <2>1, <2>2, <2>3, <2>4, <1>6, <1>8 DEF PositionsOf
<1>12a. WindowOf(r, low)
  <2>1. ASSUME NEW k \in 1..Len(m) PROVE low < m[k].value
    <3>1. CASE k \in 1..Len(s.setup_stage_map_) /\ m[k] = s.setup_stage_map_[k]
      BY <3>1, <1>5a
    <3>2. CASE m[k] = e
      <4>1. low < s.pushed + 1
        BY <1>5, <1>5c
      <4> QED
        BY <4>1, <3>2, <1>6a
    <3> QED
      BY <3>1, <3>2, <1>6
  <2> QED
    BY <2>1, <1>5c, <1>8, <1>10 DEF WindowOf
<1>13. RoutedOf(r)
  <2> SUFFICES ASSUME NEW k \in 1..Len(r.ep0), r.ep0[k].interrupts
               PROVE  /\ Leads(m, r.ep0[k].position)
                      /\ w[Place(r.ep0[k].position - 1)] = r.ep0[k].request
                      /\ r.ep0[k].request = "SetProtocol" => Has(s.event_waiters_, "SetProtocol")
    BY <1>8 DEF RoutedOf, SameButQueues
  <2>1. CASE k \in 1..Len(s.ep0) /\ r.ep0[k] = s.ep0[k]
    <3>1. PICK i \in 1..Len(s.setup_stage_map_) :
            s.setup_stage_map_[i] = Entry(Place(s.ep0[k].position), s.ep0[k].position - 1)
      BY <2>1, <1>0 DEF RoutedOf, Leads
    <3>2. s.setup_stage_map_[i].value = s.ep0[k].position - 1
      BY <3>1 DEF Entry
    <3>3. w[Place(s.ep0[k].position - 1)] = s.ring[Place(s.ep0[k].position - 1)]
      BY <3>2, <1>5a
    <3>4. Leads(m, s.ep0[k].position)
      BY <2>1, <1>0, <1>6c DEF RoutedOf
    <3> QED
      BY <3>3, <3>4, <2>1, <1>0 DEF RoutedOf
  <2>2. CASE k - Len(s.ep0) \in 1..Len(b) /\ r.ep0[k] = b[k - Len(s.ep0)]
    <3>1. PICK j \in 1..Len(b) : j = k - Len(s.ep0) /\ r.ep0[k] = b[j]
      BY <2>2
    <3>1a. j = 2
      BY <3>1, <1>2
    <3>2. r.ep0[k].position = s.pushed + 2 /\ r.ep0[k].request = request
      BY <3>1, <3>1a, <1>2
    <3>3. (s.pushed + 2) - 1 = s.pushed + 1
      BY <1>5
    <3>4. Leads(m, s.pushed + 2)
      BY <3>3, <1>2b, <1>6 DEF Leads
    <3> QED
      BY <3>2, <3>3, <3>4, <1>0, <1>6b
  <2> QED
    BY <2>1, <2>2, <1>11
<1> QED
  BY <1>2a, <1>6, <1>6c, <1>8, <1>9, <1>10, <1>12, <1>12a, <1>13 DEF Requested

\* The request of a completed block leaves the map.
Forget(s, x) == [s EXCEPT !.setup_stage_map_ = Delete(s.setup_stage_map_, Place(x))]

LEMMA DeleteEffect ==
  ASSUME NEW s \in DeviceState, PositionsOf(s), RoutedOf(s),
         NEW x, Leads(s.setup_stage_map_, x), x \in Nat, x <= s.pushed - Len(s.ep0),
         NEW r, r = Forget(s, x)
  PROVE  /\ r \in DeviceState /\ SameButQueues(s, r)
         /\ r.pushed = s.pushed /\ r.ep0 = s.ep0 /\ r.ring = s.ring
         /\ PositionsOf(r) /\ RoutedOf(r)
         /\ \A low : WindowOf(s, low) => WindowOf(r, low)
         /\ Len(r.setup_stage_map_) = Len(s.setup_stage_map_) - 1
         /\ \A y \in Nat : y # x /\ Leads(s.setup_stage_map_, y) => Leads(r.setup_stage_map_, y)
<1>1. PICK m : m = Delete(s.setup_stage_map_, Place(x))
  OBVIOUS
<1>2. PICK map : map = s.setup_stage_map_
  OBVIOUS
<1>3. PICK S : S = [key : Places, value : Nat]
  OBVIOUS
<1>3a. PICK a \in 1..Len(map) : map[a] = Entry(Place(x), x - 1)
  BY <1>2 DEF Leads
<1>3b. map[a].key = Place(x) /\ map[a].value = x - 1
  BY <1>3a DEF Entry
<1>4. /\ map \in Seq(S) /\ Distinct(map) /\ Has(map, Place(x))
      /\ Len(s.ep0) \in Nat /\ s.pushed \in Nat
  BY <1>2, <1>3, <1>3b, LenProperties DEF DeviceState, PositionsOf, Has
<1>5. /\ m \in Seq(S) /\ Distinct(m) /\ Len(m) = Len(map) - 1
      /\ \A k \in 1..Len(m) : \E i \in 1..Len(map) : m[k] = map[i]
      /\ \A i \in 1..Len(map) : map[i].key # Place(x) => \E k \in 1..Len(m) : m[k] = map[i]
  <2>1. m = Delete(map, Place(x))
    BY <1>1, <1>2
  <2>2. PICK key : key = Place(x)
    OBVIOUS
  <2>2a. m = Delete(map, key) /\ Has(map, key)
    BY <2>1, <2>2, <1>4
  <2>3. m \in Seq(S) /\ Distinct(m) /\ Len(m) = Len(map) - 1
    BY <2>2a, <1>4, DeleteOne
  <2>4. \A k \in 1..Len(m) : \E i \in 1..Len(map) : m[k] = map[i]
    BY <2>2a, <1>4, DeleteOne
  <2>5. \A i \in 1..Len(map) : map[i].key # key => \E k \in 1..Len(m) : m[k] = map[i]
    BY <2>2a, <1>4, DeleteOne
  <2> QED
    BY <2>2, <2>3, <2>4, <2>5
<1>6. /\ r.setup_stage_map_ = m /\ r.pushed = s.pushed /\ r.ep0 = s.ep0 /\ r.ring = s.ring
      /\ SameButQueues(s, r) /\ r \in DeviceState
  BY <1>1, <1>3, <1>5 DEF DeviceState, SameButQueues, Forget
<1>7. PositionsOf(r)
  <2>1. ASSUME NEW k \in 1..Len(m) PROVE MappedOK(r, k)
    <3>1. PICK i \in 1..Len(map) : m[k] = map[i]
      BY <1>5
    <3>2. MappedOK(s, i)
      BY <3>1, <1>2 DEF PositionsOf
    <3> QED
      BY <3>1, <3>2, <1>2, <1>6 DEF MappedOK
  <2> QED
    BY <2>1, <1>5, <1>6 DEF PositionsOf
\* Whatever else the map leads to has another key, since keys are distinct.
<1>9. ASSUME NEW y \in Int, y # x, Leads(map, y)
      PROVE  Leads(m, y)
  <2>1. PICK i \in 1..Len(map) : map[i] = Entry(Place(y), y - 1)
    BY <1>9 DEF Leads
  <2>2. map[i].value = y - 1 /\ y - 1 # x - 1
    BY <2>1, <1>9 DEF Entry
  <2>3. i # a
    BY <2>2, <1>3b
  <2>4. map[i].key # Place(x)
    BY <2>3, <1>3b, <1>4 DEF Distinct
  <2>5. \E j \in 1..Len(m) : m[j] = map[i]
    BY <2>4, <1>5
  <2> QED
    BY <2>1, <2>5 DEF Leads
<1>8. RoutedOf(r)
  <2> SUFFICES ASSUME NEW k \in 1..Len(s.ep0), s.ep0[k].interrupts
               PROVE  /\ Leads(m, s.ep0[k].position)
                      /\ s.ring[Place(s.ep0[k].position - 1)] = s.ep0[k].request
                      /\ s.ep0[k].request = "SetProtocol" => Has(s.event_waiters_, "SetProtocol")
    BY <1>6 DEF RoutedOf, SameButQueues
  <2>1. s.ep0[k].position = (s.pushed - Len(s.ep0)) + k
    BY DEF PositionsOf
  <2>2. s.ep0[k].position \in Int /\ s.ep0[k].position # x
    BY <2>1, <1>4
  <2>3. Leads(m, s.ep0[k].position)
    BY <2>2, <1>2, <1>9 DEF RoutedOf
  <2> QED
    BY <2>3 DEF RoutedOf
<1>10. \A low : WindowOf(s, low) => WindowOf(r, low)
  BY <1>2, <1>5, <1>6 DEF WindowOf
<1> QED
  BY <1>2, <1>5, <1>6, <1>7, <1>8, <1>9, <1>10

-----------------------------------------------------------------------------
(* The queue of events *)

LEMMA Popped ==
  ASSUME StateTyped, events # <<>>, events' = Tail(events)
  PROVE  /\ events' \in Seq(EventRecord) /\ Head(events) \in EventRecord
         /\ Len(events) \in Nat /\ Len(events') = Len(events) - 1 /\ 1 \in 1..Len(events)
         /\ Head(events) = events[1]
         /\ \A k \in 1..Len(events') : k + 1 \in 1..Len(events) /\ events'[k] = events[k + 1]
<1>1. /\ Head(events) \in EventRecord /\ Tail(events) \in Seq(EventRecord)
      /\ Len(Tail(events)) = Len(events) - 1 /\ Len(events) \in Nat
      /\ \A i \in 1..Len(Tail(events)) : Tail(events)[i] = events[i + 1]
  BY HeadTailProperties, LenProperties DEF StateTyped
<1>2. Len(events) >= 1 /\ Head(events) = events[1]
  BY <1>1 DEF StateTyped
<1> QED
  BY <1>1, <1>2

LEMMA PoppedKinds ==
  ASSUME StateTyped, events # <<>>, events' = Tail(events), NEW t
  PROVE  /\ None(t) => None(t)'
         /\ AtMostOne(t) => AtMostOne(t)'
         /\ Head(events).type # t /\ None(t)' => None(t)
         /\ Head(events).type = t => ~None(t)
         /\ Head(events).type = t /\ AtMostOne(t) => None(t)'
<1>1. /\ Len(events) \in Nat /\ Len(events') = Len(events) - 1 /\ 1 \in 1..Len(events)
      /\ Head(events) = events[1]
      /\ \A k \in 1..Len(events') : k + 1 \in 1..Len(events) /\ events'[k] = events[k + 1]
  BY Popped
<1>2. None(t) => None(t)'
  BY <1>1 DEF None
<1>3. AtMostOne(t) => AtMostOne(t)'
  <2> SUFFICES ASSUME AtMostOne(t), NEW j \in 1..Len(events'), NEW k \in 1..Len(events'),
                      events'[j].type = t, events'[k].type = t
               PROVE  j = k
    BY DEF AtMostOne
  <2>1. j + 1 = k + 1
    BY <1>1 DEF AtMostOne
  <2> QED
    BY <2>1
<1>4. Head(events).type # t /\ None(t)' => None(t)
  <2> SUFFICES ASSUME Head(events).type # t, None(t)', NEW k \in 1..Len(events), events[k].type = t
               PROVE  FALSE
    BY DEF None
  <2>1. k # 1
    BY <1>1
  <2>2. k - 1 \in 1..Len(events') /\ (k - 1) + 1 = k
    BY <1>1, <2>1
  <2>3. events'[k - 1].type = t
    BY <2>2, <1>1
  <2> QED
    BY <2>2, <2>3 DEF None
<1>5. Head(events).type = t => ~None(t)
  BY <1>1 DEF None
<1>6. Head(events).type = t /\ AtMostOne(t) => None(t)'
  <2> SUFFICES ASSUME Head(events).type = t, AtMostOne(t), NEW k \in 1..Len(events'),
                      events'[k].type = t
               PROVE  FALSE
    BY DEF None
  <2>1. k + 1 = 1
    BY <1>1 DEF AtMostOne
  <2> QED
    BY <2>1
<1> QED
  BY <1>2, <1>3, <1>4, <1>5, <1>6

LEMMA Added ==
  ASSUME StateTyped, NEW e \in EventRecord, events' = Append(events, e)
  PROVE  /\ events' \in Seq(EventRecord) /\ events' # <<>>
         /\ Len(events) \in Nat /\ Len(events') = Len(events) + 1
         /\ \A k \in 1..Len(events) : k \in 1..Len(events') /\ events'[k] = events[k]
         /\ \A k \in 1..Len(events') :
              (k \in 1..Len(events) /\ events'[k] = events[k]) \/ (k = Len(events) + 1 /\ events'[k] = e)
         /\ events # <<>> => Head(events') = Head(events)
<1>1. /\ events' \in Seq(EventRecord) /\ events' # <<>>
      /\ Len(events) \in Nat /\ Len(events') = Len(events) + 1
      /\ \A i \in 1..Len(events) : events'[i] = events[i]
      /\ events'[Len(events) + 1] = e
  BY AppendProperties, LenProperties DEF StateTyped
<1>2. \A k : k \in 1..Len(events') <=> (k \in 1..Len(events) \/ k = Len(events) + 1)
  BY <1>1
<1>3. events # <<>> => Head(events') = Head(events)
  BY HeadTailAppend DEF StateTyped
<1> QED
  BY <1>1, <1>2, <1>3

LEMMA AddedKinds ==
  ASSUME StateTyped, NEW e \in EventRecord, events' = Append(events, e), NEW t
  PROVE  /\ e.type # t => (None(t)' <=> None(t))
         /\ e.type # t /\ AtMostOne(t) => AtMostOne(t)'
         /\ e.type = t => ~None(t)'
         /\ e.type = t /\ None(t) => AtMostOne(t)'
<1>1. /\ Len(events) \in Nat /\ Len(events') = Len(events) + 1
      /\ \A k \in 1..Len(events) : k \in 1..Len(events') /\ events'[k] = events[k]
      /\ \A k \in 1..Len(events') :
           (k \in 1..Len(events) /\ events'[k] = events[k]) \/ (k = Len(events) + 1 /\ events'[k] = e)
  BY Added
<1>2. e.type # t => (None(t)' <=> None(t))
  BY <1>1 DEF None
<1>3. e.type # t /\ AtMostOne(t) => AtMostOne(t)'
  BY <1>1 DEF AtMostOne
<1>4. e.type = t => ~None(t)'
  <2>1. Len(events) + 1 \in 1..Len(events') /\ Len(events) + 1 \notin 1..Len(events)
    BY <1>1
  <2> QED
    BY <2>1, <1>1 DEF None
<1>5. e.type = t /\ None(t) => AtMostOne(t)'
  BY <1>1 DEF None, AtMostOne
<1> QED
  BY <1>2, <1>3, <1>4, <1>5

-----------------------------------------------------------------------------
(* What a step leaves alone *)

SameSetUp(s, r) ==
  /\ r.is_initialized_ = s.is_initialized_ /\ r.initialize_phase_ = s.initialize_phase_
  /\ r.ep_configs_ = s.ep_configs_ /\ r.driver = s.driver /\ r.class_drivers_ = s.class_drivers_
  /\ r.ep_interrupt_in_ = s.ep_interrupt_in_ /\ r.port = s.port /\ r.rings = s.rings
SameQueues(s, r) ==
  /\ r.pushed = s.pushed /\ r.ep0 = s.ep0 /\ r.setup_stage_map_ = s.setup_stage_map_
  /\ r.event_waiters_ = s.event_waiters_ /\ r.ring = s.ring

LEMMA StoredKept ==
  ASSUME SetUpStored, SameSetUp(d, d'), configuration' = configuration
  PROVE  SetUpStored'
<1>1. Supported' = Supported
  BY DEF Supported
<1>2. FirstSupported' = FirstSupported
  BY <1>1 DEF FirstSupported
<1> QED
  BY <1>1, <1>2 DEF SetUpStored, SameSetUp

LEMMA ReserveTyped ==
  ASSUME TypeOK
  PROVE  Reserve \in Nat
<1>1. Cardinality(todo) \in Nat
  BY NumbersFinite DEF TypeOK
<1> QED
  BY <1>1 DEF Reserve

\* No push has happened, and no more are to come than before.
LEMMA WindowKept ==
  ASSUME UsbAssumption, NEW s \in DeviceState, WindowOf(s, Low), s.pushed = d.pushed,
         d'.pushed = s.pushed, d'.ep0 = s.ep0, d'.setup_stage_map_ = s.setup_stage_map_,
         Reserve \in Int, Reserve' \in Int, Reserve' <= Reserve
  PROVE  Window'
<1>1. /\ s.pushed \in Nat /\ Len(s.ep0) \in Nat /\ RingSlots \in Nat
      /\ s.setup_stage_map_ \in Seq([key : Places, value : Nat])
  BY LenProperties DEF DeviceState, UsbAssumption
<1>2. PICK low : low = Low
  OBVIOUS
<1>3. PICK new : new = Low'
  OBVIOUS
<1>4. low \in Int /\ new \in Int /\ new <= low
  BY <1>1, <1>2, <1>3 DEF Low
<1>5. new <= d'.pushed - Len(d'.ep0)
  <2>1. low <= s.pushed - Len(s.ep0)
    BY <1>2 DEF WindowOf
  <2> QED
    BY <2>1, <1>1, <1>4
<1>6. ASSUME NEW k \in 1..Len(s.setup_stage_map_)
      PROVE  new < s.setup_stage_map_[k].value
  <2>1. s.setup_stage_map_[k] \in [key : Places, value : Nat]
    BY <1>1, ElementOfSeq
  <2>2. s.setup_stage_map_[k].value \in Nat /\ low < s.setup_stage_map_[k].value
    BY <2>1, <1>2 DEF WindowOf
  <2> QED
    BY <2>2, <1>4
<1>7. WindowOf(d', new)
  BY <1>5, <1>6 DEF WindowOf
<1> QED
  BY <1>3, <1>7 DEF Window

LEMMA QueuesKept ==
  ASSUME UsbAssumption, TypeOK, PositionsOf(d), RoutedOf(d), Window, SameQueues(d, d'),
         pc' # "configure" \/ (pc' = pc /\ todo' = todo)
  PROVE  PositionsOf(d)' /\ RoutedOf(d)' /\ Window'
<1>1. PositionsOf(d)'
  BY DEF PositionsOf, MappedOK, SameQueues
<1>2. RoutedOf(d)'
  BY DEF RoutedOf, SameQueues
<1>3. Reserve \in Nat /\ (Reserve' = 0 \/ Reserve' = Reserve)
  BY ReserveTyped DEF Reserve
<1>4. Reserve \in Int /\ Reserve' \in Int /\ Reserve' <= Reserve
  BY <1>3
<1>5. Window'
  BY <1>4, WindowKept DEF Window, SameQueues, TypeOK
<1> QED
  BY <1>1, <1>2, <1>5

\* When the map is empty, at most a status stage is left on the ring.
LEMMA EmptyMap ==
  ASSUME NEW s \in DeviceState, PositionsOf(s), RoutedOf(s), s.setup_stage_map_ = <<>>
  PROVE  Len(s.ep0) \in Nat /\ Len(s.ep0) <= 1
<1>1. PICK n : n = Len(s.ep0)
  OBVIOUS
<1>2. n \in Nat
  BY <1>1, LenProperties DEF DeviceState
<1>3. \A k \in 1..n : ~s.ep0[k].interrupts
  <2>1. Len(s.setup_stage_map_) = 0
    OBVIOUS
  <2> QED
    BY <2>1, <1>1 DEF RoutedOf, Leads
<1>4. ~(n >= 2)
  <2> SUFFICES ASSUME n >= 2 PROVE FALSE
    OBVIOUS
  <2>1. s.ep0[n].interrupts \/ s.ep0[n - 1].interrupts
    BY <1>1 DEF PositionsOf
  <2>2. n \in 1..n /\ n - 1 \in 1..n
    BY <1>2
  <2> QED
    BY <2>1, <2>2, <1>3
<1> QED
  BY <1>1, <1>2, <1>4

\* The events that have completed, after the first event has been handled.
LEMMA CompletedPopped ==
  ASSUME StateTyped, events # <<>>, events' = Tail(events), CompletedOK,
         d'.pushed - Len(d'.ep0) = d.pushed - Len(d.ep0),
         \A k \in 1..Len(events') : Completed(k)' => Leads(d'.setup_stage_map_, events'[k].position)
  PROVE  CompletedOK'
<1>1. /\ Len(events) \in Nat /\ Len(events') = Len(events) - 1
      /\ \A k \in 1..Len(events') : k + 1 \in 1..Len(events) /\ events'[k] = events[k + 1]
  BY Popped
<1>2. \A k \in 1..Len(events') : Completed(k)' <=> Completed(k + 1)
  BY <1>1 DEF Completed
<1>3. \A k \in 1..Len(events') : Completed(k)' => events'[k].position <= d'.pushed - Len(d'.ep0)
  BY <1>1, <1>2 DEF CompletedOK
<1>4. ASSUME NEW j \in 1..Len(events'), NEW k \in 1..Len(events'),
             Completed(j)', Completed(k)', events'[j].position = events'[k].position
      PROVE  j = k
  <2>1. j + 1 = k + 1
    BY <1>1, <1>2, <1>4 DEF CompletedOK
  <2> QED
    BY <2>1
<1> QED
  BY <1>3, <1>4 DEF CompletedOK, Completed

\* The same when a block has completed, or something else has happened.
LEMMA CompletedKept ==
  ASSUME StateTyped, events' = events, CompletedOK, d'.pushed - Len(d'.ep0) = d.pushed - Len(d.ep0),
         \A x : Leads(d.setup_stage_map_, x) => Leads(d'.setup_stage_map_, x)
  PROVE  CompletedOK'
BY DEF CompletedOK, Completed

LEMMA CompletedAdded ==
  ASSUME StateTyped, NEW e \in EventRecord, events' = Append(events, e), CompletedOK,
         d'.setup_stage_map_ = d.setup_stage_map_,
         d.pushed - Len(d.ep0) \in Int, d'.pushed - Len(d'.ep0) \in Int,
         d.pushed - Len(d.ep0) <= d'.pushed - Len(d'.ep0),
         (e.type = "control" /\ e.ok) =>
           /\ e.position <= d'.pushed - Len(d'.ep0)
           /\ e.position > d.pushed - Len(d.ep0)
           /\ Leads(d.setup_stage_map_, e.position)
  PROVE  CompletedOK'
<1>1. /\ Len(events) \in Nat /\ Len(events') = Len(events) + 1
      /\ \A k \in 1..Len(events') :
           (k \in 1..Len(events) /\ events'[k] = events[k]) \/ (k = Len(events) + 1 /\ events'[k] = e)
  BY Added
<1>2. \A k \in 1..Len(events) : events[k].position \in Nat
  <2>1. \A k \in 1..Len(events) : events[k] \in EventRecord
    BY ElementOfSeq DEF StateTyped
  <2> QED
    BY <2>1 DEF EventRecord
<1>3. e.position \in Nat
  BY DEF EventRecord
<1>4. ASSUME NEW k \in 1..Len(events'), Completed(k)'
      PROVE  /\ events'[k].position <= d'.pushed - Len(d'.ep0)
             /\ Leads(d'.setup_stage_map_, events'[k].position)
             /\ k \in 1..Len(events) => events'[k].position <= d.pushed - Len(d.ep0)
  <2>1. CASE k \in 1..Len(events) /\ events'[k] = events[k]
    <3>1. /\ events[k].position <= d.pushed - Len(d.ep0)
          /\ Leads(d.setup_stage_map_, events[k].position)
      BY <2>1, <1>4 DEF CompletedOK, Completed
    <3> QED
      BY <3>1, <2>1, <1>2
  <2>2. CASE k = Len(events) + 1 /\ events'[k] = e
    <3>1. e.type = "control" /\ e.ok
      BY <1>4, <2>2 DEF Completed
    <3>2. k \notin 1..Len(events)
      BY <1>1, <2>2
    <3> QED
      BY <3>1, <3>2, <2>2
  <2> QED
    BY <2>1, <2>2, <1>1
<1>5. ASSUME NEW j \in 1..Len(events'), NEW k \in 1..Len(events'),
             Completed(j)', Completed(k)', events'[j].position = events'[k].position
      PROVE  j = k
  <2>1. CASE j \in 1..Len(events) /\ k \in 1..Len(events)
    <3>1. events'[j] = events[j] /\ events'[k] = events[k]
      BY <1>1, <2>1
    <3> QED
      BY <3>1, <2>1, <1>5 DEF CompletedOK, Completed
  <2>2. ASSUME NEW i \in 1..Len(events'), i = Len(events) + 1, events'[i] = e, Completed(i)',
               NEW n \in 1..Len(events), Completed(n)'
        PROVE  events'[i].position # events'[n].position
    <3>1. e.type = "control" /\ e.ok
      BY <2>2 DEF Completed
    <3>2. e.position > d.pushed - Len(d.ep0)
      BY <3>1
    <3>3. n \in 1..Len(events') /\ events'[n] = events[n]
      BY <1>1
    <3>4. events'[n].position <= d.pushed - Len(d.ep0)
      BY <3>3, <2>2, <1>4
    <3> QED
      BY <3>2, <3>3, <3>4, <2>2, <1>2, <1>3
  <2> QED
    BY <2>1, <2>2, <1>1, <1>5
<1> QED
  BY <1>4, <1>5 DEF CompletedOK, Completed

-----------------------------------------------------------------------------
(* The steps that leave the rings of requests alone *)

\* The driver is in the set-up of the device until the command has completed.
LEMMA OnCommandEventStep ==
  ASSUME UsbAssumption, IInv, OnCommandEvent
  PROVE  IInv'
<1> USE DEF IInv
<1>1. /\ Handles("command") /\ pc' = "configure" /\ todo' = d.class_drivers_
      /\ d' = d /\ configuration' = configuration /\ command' = command /\ events' = events
      /\ active' = active /\ halted' = halted /\ dma' = dma
      /\ report' = report /\ previous' = previous /\ notified' = notified /\ reports' = reports
  BY DEF OnCommandEvent, deviceVars, historyVars
<1>2. pc = "idle" /\ events # <<>> /\ Head(events).type = "command"
  BY <1>1 DEF Handles
<1>3. 1 \in 1..Len(events) /\ Head(events) = events[1]
  <2>1. Len(events) \in Nat /\ Len(events) # 0
    BY <1>2, EmptySeq, LenProperties DEF StateTyped
  <2> QED
    BY <2>1 DEF StateTyped
<1>4. d.port = "kConfiguringEndpoints" /\ d.hid_phase = 0
  <2>1. ~None("command")
    BY <1>2, <1>3 DEF None
  <2> QED
    BY <1>2, <2>1 DEF OneCommand
<1>5. d.is_initialized_ /\ d.initialize_phase_ = 4 /\ d.setup_stage_map_ = <<>>
  BY <1>2, <1>4 DEF SetUpOrder, Room
<1>6. /\ Cardinality(d.class_drivers_) <= MaxSetupStages
      /\ 2 * Cardinality(d.class_drivers_) < RingSlots
  <2>1. /\ Supported # {} /\ d.driver = FirstSupported
        /\ d.class_drivers_ = Numbers(configuration[d.driver].endpoints)
    BY <1>5 DEF SetUpStored
  <2>2. d.driver \in 1..Len(configuration)
    BY <2>1, FirstSupportedExists DEF StateTyped
  <2> QED
    BY <2>1, <2>2 DEF UsbAssumption, StateTyped
<1>7. TypeOK' /\ StateTyped' /\ SetUpOrder'
  BY <1>1, <1>4 DEF TypeOK, StateTyped, SetUpOrder, DeviceState
<1>7a. Cardinality(d.class_drivers_) \in Nat
  <2>1. d.class_drivers_ \subseteq 1..15
    BY DEF TypeOK, DeviceState
  <2> QED
    BY <2>1, NumbersFinite
<1>8. SetUpStored' /\ CompletedOK'
  BY <1>1, StoredKept, CompletedKept DEF SameSetUp
<1>8a. PositionsOf(d)' /\ RoutedOf(d)'
  BY <1>1 DEF PositionsOf, RoutedOf, MappedOK
\* All that the loop will push fits behind the status stage that may be left.
<1>8b. Window'
  <2>1. Len(d.ep0) \in Nat /\ Len(d.ep0) <= 1
    BY <1>5, EmptyMap DEF TypeOK
  <2>2. PICK n : n = Cardinality(d.class_drivers_)
    OBVIOUS
  <2>3. n \in Nat /\ 2 * n < RingSlots /\ RingSlots \in Nat /\ d.pushed \in Nat
    BY <2>2, <1>6, <1>7a DEF UsbAssumption, TypeOK, DeviceState
  <2>4. Low' = (d.pushed - RingSlots) + 2 * n
    BY <2>2, <1>1 DEF Low, Reserve
  <2>5. (d.pushed - RingSlots) + 2 * n <= d.pushed - Len(d.ep0)
    BY <2>1, <2>3
  <2>6. Len(d'.setup_stage_map_) = 0
    BY <1>1, <1>5
  <2>7. WindowOf(d', (d.pushed - RingSlots) + 2 * n)
    BY <2>5, <2>6, <1>1 DEF WindowOf
  <2> QED
    BY <2>4, <2>7 DEF Window
<1>9. HandlerOK' /\ OneCommand'
  BY <1>1, <1>2, <1>4 DEF HandlerOK, OneCommand, None, AtMostOne
<1>10. OneReport' /\ BuffersOK'
  BY <1>1, <1>2 DEF OneReport, InterruptOK, None, AtMostOne, BuffersOK, KeysSeenOnce
<1>11. Room'
  <2>1. Len(d'.setup_stage_map_) = 0
    BY <1>1, <1>5
  <2>2. /\ Cardinality(todo') <= MaxSetupStages /\ 0 + Cardinality(todo') = Cardinality(todo')
        /\ 2 * Cardinality(todo') < RingSlots
    BY <1>1, <1>6, <1>7a
  <2> QED
    BY <1>1, <1>5, <2>1, <2>2 DEF Room
<1> QED
  BY <1>7, <1>8, <1>8a, <1>8b, <1>9, <1>10, <1>11

LEMMA CompleteConfigurationStep ==
  ASSUME UsbAssumption, IInv, CompleteConfiguration
  PROVE  IInv'
<1> USE DEF IInv
<1>1. /\ pc = "configure" /\ todo = {} /\ pc' = "idle" /\ events' = Tail(events)
      /\ d' = [d EXCEPT !.port = "kConfigured"]
      /\ configuration' = configuration /\ command' = command /\ todo' = todo
      /\ active' = active /\ halted' = halted /\ dma' = dma
      /\ report' = report /\ previous' = previous /\ notified' = notified /\ reports' = reports
  BY DEF CompleteConfiguration, deviceVars, historyVars
<1>2. /\ d'.port = "kConfigured" /\ d' \in DeviceState /\ SameQueues(d, d')
      /\ d'.is_initialized_ = d.is_initialized_ /\ d'.initialize_phase_ = d.initialize_phase_
      /\ d'.ep_configs_ = d.ep_configs_ /\ d'.driver = d.driver
      /\ d'.class_drivers_ = d.class_drivers_ /\ d'.ep_interrupt_in_ = d.ep_interrupt_in_
      /\ d'.rings = d.rings /\ d'.hid_phase = d.hid_phase /\ d'.normals = d.normals
      /\ d'.buf_ = d.buf_ /\ d'.previous_buf_ = d.previous_buf_
  BY <1>1 DEF TypeOK, DeviceState, SameQueues
<1>3. events # <<>> /\ Head(events).type = "command"
  BY <1>1 DEF HandlerOK
<1>4. d.port = "kConfiguringEndpoints" /\ ~command
  <2>1. ~None("command")
    BY <1>1, <1>3, PoppedKinds
  <2> QED
    BY <2>1 DEF OneCommand
<1>5. d.is_initialized_
  BY <1>4 DEF SetUpOrder
<1>6. TypeOK' /\ StateTyped' /\ SetUpOrder'
  <2>1. events' \in Seq(EventRecord)
    BY <1>1, <1>3, Popped
  <2>2. TypeOK'
    BY <1>1, <1>2 DEF TypeOK
  <2>3. StateTyped'
    BY <1>1, <2>1 DEF StateTyped
  <2>4. SetUpOrder'
    BY <1>1, <1>2, <1>5 DEF SetUpOrder
  <2> QED
    BY <2>2, <2>3, <2>4
<1>7. SetUpStored'
  <2>1. Supported' = Supported
    BY <1>1 DEF Supported
  <2>2. FirstSupported' = FirstSupported
    BY <2>1 DEF FirstSupported
  <2> QED
    BY <1>1, <1>2, <1>4, <2>1, <2>2 DEF SetUpStored
<1>8. PositionsOf(d)' /\ RoutedOf(d)' /\ Window'
  BY <1>1, <1>2, QueuesKept
<1>9. CompletedOK'
  <2>1. /\ d'.pushed = d.pushed /\ d'.ep0 = d.ep0
        /\ d'.setup_stage_map_ = d.setup_stage_map_
    BY <1>2 DEF SameQueues
  <2>2. \A k \in 1..Len(events') : Completed(k)' => Leads(d'.setup_stage_map_, events'[k].position)
    <3>1. \A k \in 1..Len(events') : k + 1 \in 1..Len(events) /\ events'[k] = events[k + 1]
      BY <1>1, <1>3, Popped
    <3> QED
      BY <3>1, <2>1 DEF CompletedOK, Completed
  <2> QED
    BY <1>1, <1>3, <2>1, <2>2, CompletedPopped
<1>10. None("command")'
  <2>1. AtMostOne("command")
    BY DEF OneCommand
  <2> QED
    BY <2>1, <1>1, <1>3, PoppedKinds
<1>11. HandlerOK' /\ OneCommand'
  BY <1>1, <1>2, <1>4, <1>10 DEF HandlerOK, OneCommand, AtMostOne, None
<1>12. OneReport'
  <2>1. /\ None("interrupt") <=> None("interrupt")'
        /\ AtMostOne("interrupt")'
    BY <1>1, <1>3, PoppedKinds DEF OneReport
  <2>2. \A k \in 1..Len(events') : k + 1 \in 1..Len(events) /\ events'[k] = events[k + 1]
    BY <1>1, <1>3, Popped
  <2>3. \A k \in 1..Len(events') : InterruptOK(k)'
    BY <2>2, <1>1, <1>2 DEF OneReport, InterruptOK
  <2> QED
    BY <2>1, <2>3, <1>1, <1>2 DEF OneReport
<1>13. BuffersOK'
  BY <1>1, <1>2 DEF BuffersOK, KeysSeenOnce
<1>14. Room'
  BY <1>1, <1>2, <1>5 DEF Room, SameQueues
<1> QED
  BY <1>6, <1>7, <1>8, <1>9, <1>11, <1>12, <1>13, <1>14

\* An interrupt event at the front: the class driver polls, and nothing else
\* is asked for or on its way.
LEMMA InterruptFirst ==
  ASSUME IInv, events # <<>>, Head(events).type = "interrupt"
  PROVE  /\ d.hid_phase = 2 /\ d.normals = 0 /\ d.ep_interrupt_in_ \in d.rings
         /\ ~None("interrupt") /\ 1 \in 1..Len(events) /\ Head(events) = events[1]
         /\ Head(events).ok => "interrupt" \notin halted /\ Head(events).keys = d.buf_
         /\ ~Head(events).ok => "interrupt" \in halted
<1> USE DEF IInv
<1>1. 1 \in 1..Len(events) /\ Head(events) = events[1]
  <2>1. Len(events) \in Nat /\ Len(events) # 0
    BY EmptySeq, LenProperties DEF StateTyped
  <2> QED
    BY <2>1 DEF StateTyped
<1>2. ~None("interrupt")
  BY <1>1 DEF None
<1>3. d.hid_phase = 2 /\ d.normals = 0
  BY <1>2 DEF OneReport
<1>4. d.ep_interrupt_in_ \in d.rings
  BY <1>3 DEF SetUpOrder
<1>5. InterruptOK(1)
  BY <1>1 DEF OneReport
<1> QED
  BY <1>1, <1>2, <1>3, <1>4, <1>5 DEF InterruptOK

\* When it has been handled there are none left.
LEMMA InterruptPopped ==
  ASSUME IInv, events # <<>>, Head(events).type = "interrupt", events' = Tail(events),
         d'.pushed - Len(d'.ep0) = d.pushed - Len(d.ep0), d'.setup_stage_map_ = d.setup_stage_map_
  PROVE  /\ events' \in Seq(EventRecord) /\ CompletedOK'
         /\ None("interrupt")' /\ AtMostOne("interrupt")' /\ AtMostOne("command")'
         /\ \A k \in 1..Len(events') : InterruptOK(k)'
         /\ None("command") => None("command")'
<1> USE DEF IInv
<1>1. \A k \in 1..Len(events') : k + 1 \in 1..Len(events) /\ events'[k] = events[k + 1]
  BY Popped
<1>2. events' \in Seq(EventRecord)
  BY Popped
<1>3. CompletedOK'
  <2>1. \A k \in 1..Len(events') : Completed(k)' => Leads(d'.setup_stage_map_, events'[k].position)
    BY <1>1 DEF CompletedOK, Completed
  <2> QED
    BY <2>1, CompletedPopped
<1>4. AtMostOne("interrupt") /\ AtMostOne("command")
  BY DEF OneReport, OneCommand
<1>5. None("interrupt")' /\ AtMostOne("interrupt")'
  BY <1>4, PoppedKinds
<1>6. AtMostOne("command")' /\ (None("command") => None("command")')
  BY <1>4, PoppedKinds
<1>7. \A k \in 1..Len(events') : InterruptOK(k)'
  BY <1>5 DEF None, InterruptOK
<1> QED
  BY <1>2, <1>3, <1>5, <1>6, <1>7

LEMMA OnReportFailedStep ==
  ASSUME UsbAssumption, IInv, OnReportFailed
  PROVE  IInv'
<1> USE DEF IInv
<1>1. /\ Handles("interrupt") /\ ~Head(events).ok /\ events' = Tail(events)
      /\ d' = d /\ configuration' = configuration /\ command' = command /\ todo' = todo
      /\ pc' = pc /\ active' = active /\ halted' = halted /\ dma' = dma
      /\ report' = report /\ previous' = previous /\ notified' = notified /\ reports' = reports
  BY DEF OnReportFailed, deviceVars, historyVars
<1>2. pc = "idle" /\ events # <<>> /\ Head(events).type = "interrupt"
  BY <1>1 DEF Handles
<1>3. d.hid_phase = 2 /\ d.normals = 0 /\ "interrupt" \in halted
  BY <1>1, <1>2, InterruptFirst
<1>4. /\ events' \in Seq(EventRecord) /\ CompletedOK'
      /\ None("interrupt")' /\ AtMostOne("interrupt")' /\ AtMostOne("command")'
      /\ \A k \in 1..Len(events') : InterruptOK(k)'
      /\ None("command") => None("command")'
  BY <1>1, <1>2, InterruptPopped
<1>5. TypeOK' /\ StateTyped' /\ SetUpOrder'
  BY <1>1, <1>4 DEF TypeOK, StateTyped, SetUpOrder
<1>6. SetUpStored' /\ PositionsOf(d)' /\ RoutedOf(d)' /\ Window'
  BY <1>1, StoredKept, QueuesKept DEF SameSetUp, SameQueues
<1>7. HandlerOK'
  BY <1>1, <1>2 DEF HandlerOK
<1>8. OneCommand'
  BY <1>1, <1>4 DEF OneCommand
<1>9. OneReport'
  BY <1>1, <1>3, <1>4 DEF OneReport
<1>10. BuffersOK' /\ Room'
  BY <1>1, <1>2 DEF BuffersOK, KeysSeenOnce, Room
<1> QED
  BY <1>4, <1>5, <1>6, <1>7, <1>8, <1>9, <1>10

LEMMA OnDataReceivedStep ==
  ASSUME UsbAssumption, IInv, OnDataReceived
  PROVE  IInv'
<1> USE DEF IInv
<1>1. /\ Handles("interrupt") /\ Head(events).ok /\ events' = events
      /\ d' = d /\ configuration' = configuration /\ command' = command /\ todo' = todo
      /\ pc' = "copy" /\ active' = active /\ halted' = halted /\ dma' = dma
      /\ report' = Head(events).keys /\ previous' = report /\ notified' = DataReceived(d)
      /\ reports' = reports
  BY DEF OnDataReceived, deviceVars
<1>2. pc = "idle" /\ events # <<>> /\ Head(events).type = "interrupt"
  BY <1>1 DEF Handles
<1>3. d.hid_phase = 2 /\ Head(events).keys = d.buf_
  BY <1>1, <1>2, InterruptFirst
<1>4. d.buf_ \in SUBSET Keys /\ d.previous_buf_ \in SUBSET Keys
  BY DEF TypeOK, DeviceState
<1>5. DataReceived(d) \in SUBSET Keys
  BY <1>4 DEF DataReceived, NotifyKeyPush, NotifyMouseMove
<1>6. TypeOK'
  BY <1>1, <1>3, <1>4, <1>5 DEF TypeOK
<1>7. StateTyped' /\ CompletedOK' /\ SetUpStored' /\ PositionsOf(d)' /\ RoutedOf(d)' /\ Window'
  BY <1>1, StoredKept, QueuesKept, CompletedKept DEF SameSetUp, SameQueues, StateTyped
<1>8. SetUpOrder'
  BY <1>1, <1>2 DEF SetUpOrder
<1>9. HandlerOK' /\ OneCommand'
  BY <1>1, <1>2 DEF HandlerOK, OneCommand, None, AtMostOne
<1>10. OneReport'
  BY <1>1 DEF OneReport, InterruptOK, None, AtMostOne
<1>11. BuffersOK'
  <2>1. d.previous_buf_ = report
    BY <1>2 DEF BuffersOK
  <2>2. configuration[d.driver].class = "keyboard" => DataReceived(d) = d.buf_ \ d.previous_buf_
    BY DEF DataReceived, NotifyKeyPush
  <2> QED
    BY <1>1, <1>3, <2>1, <2>2 DEF BuffersOK, KeysSeenOnce
<1>12. Room'
  BY <1>1, <1>2 DEF Room
<1> QED
  BY <1>6, <1>7, <1>8, <1>9, <1>10, <1>11, <1>12

LEMMA CopyPreviousStep ==
  ASSUME UsbAssumption, IInv, CopyPrevious
  PROVE  IInv'
<1> USE DEF IInv
<1>1. /\ pc = "copy" /\ pc' = "post" /\ d' = [d EXCEPT !.previous_buf_ = d.buf_] /\ events' = events
      /\ configuration' = configuration /\ command' = command /\ todo' = todo
      /\ active' = active /\ halted' = halted /\ dma' = dma
      /\ report' = report /\ previous' = previous /\ notified' = notified /\ reports' = reports
  BY DEF CopyPrevious, deviceVars, historyVars
<1>2. /\ d' \in DeviceState /\ SameQueues(d, d') /\ SameSetUp(d, d')
      /\ d'.hid_phase = d.hid_phase /\ d'.normals = d.normals
      /\ d'.buf_ = d.buf_ /\ d'.previous_buf_ = d.buf_
  BY <1>1 DEF TypeOK, DeviceState, SameQueues, SameSetUp
<1>3. TypeOK' /\ StateTyped'
  BY <1>1, <1>2 DEF TypeOK, StateTyped
<1>4. SetUpOrder'
  BY <1>1, <1>2 DEF SetUpOrder, SameSetUp
<1>5. SetUpStored' /\ PositionsOf(d)' /\ RoutedOf(d)' /\ Window'
  BY <1>1, <1>2, StoredKept, QueuesKept
<1>6. CompletedOK'
  BY <1>1, <1>2, CompletedKept DEF SameQueues
<1>7. HandlerOK' /\ OneCommand'
  BY <1>1, <1>2 DEF HandlerOK, OneCommand, None, AtMostOne, SameSetUp
<1>8. OneReport'
  BY <1>1, <1>2 DEF OneReport, InterruptOK, None, AtMostOne
<1>9. BuffersOK' /\ Room'
  BY <1>1, <1>2 DEF BuffersOK, KeysSeenOnce, Room, SameQueues, SameSetUp
<1> QED
  BY <1>3, <1>4, <1>5, <1>6, <1>7, <1>8, <1>9

LEMMA PostAgainStep ==
  ASSUME UsbAssumption, IInv, PostAgain
  PROVE  IInv'
<1> USE DEF IInv
<1>1. /\ pc = "post" /\ pc' = "idle" /\ d' = InterruptIn(d) /\ events' = Tail(events)
      /\ configuration' = configuration /\ command' = command /\ todo' = todo
      /\ active' = active /\ halted' = halted /\ dma' = dma
      /\ report' = report /\ previous' = previous /\ notified' = notified /\ reports' = reports
  BY DEF PostAgain, deviceVars, historyVars
<1>2. events # <<>> /\ Head(events).type = "interrupt" /\ Head(events).ok
  BY <1>1 DEF HandlerOK
<1>3. /\ d.hid_phase = 2 /\ d.normals = 0 /\ d.ep_interrupt_in_ \in d.rings
      /\ "interrupt" \notin halted
  BY <1>2, InterruptFirst
<1>4. /\ d' \in DeviceState /\ SameQueues(d, d') /\ SameSetUp(d, d')
      /\ d'.hid_phase = 2 /\ d'.normals = 1
      /\ d'.buf_ = d.buf_ /\ d'.previous_buf_ = d.previous_buf_
  <2>1. d' = [d EXCEPT !.normals = 1]
    BY <1>1, <1>3 DEF InterruptIn
  <2> QED
    BY <2>1, <1>3, ZenonT(40) DEF TypeOK, DeviceState, SameQueues, SameSetUp
<1>5. /\ events' \in Seq(EventRecord) /\ CompletedOK'
      /\ None("interrupt")' /\ AtMostOne("interrupt")' /\ AtMostOne("command")'
      /\ \A k \in 1..Len(events') : InterruptOK(k)'
      /\ None("command") => None("command")'
  BY <1>1, <1>2, <1>4, InterruptPopped DEF SameQueues
<1>6. TypeOK' /\ StateTyped'
  BY <1>1, <1>4, <1>5 DEF TypeOK, StateTyped
<1>7. SetUpOrder'
  BY <1>1, <1>3, <1>4 DEF SetUpOrder, SameSetUp
<1>8. SetUpStored' /\ PositionsOf(d)' /\ RoutedOf(d)' /\ Window'
  BY <1>1, <1>4, StoredKept, QueuesKept
<1>9. HandlerOK'
  BY <1>1 DEF HandlerOK
<1>10. OneCommand'
  <2>1. d.port = "kConfigured"
    BY <1>1, <1>3 DEF OneCommand
  <2> QED
    BY <2>1, <1>1, <1>4, <1>5 DEF OneCommand, SameSetUp
<1>11. OneReport'
  BY <1>1, <1>3, <1>4, <1>5 DEF OneReport
<1>12. BuffersOK' /\ Room'
  BY <1>1, <1>4 DEF BuffersOK, KeysSeenOnce, Room, SameQueues, SameSetUp
<1> QED
  BY <1>5, <1>6, <1>7, <1>8, <1>9, <1>10, <1>11, <1>12

-----------------------------------------------------------------------------
(* The steps of the controller *)

LEMMA HandlerAdded ==
  ASSUME StateTyped, HandlerOK, NEW e \in EventRecord, events' = Append(events, e),
         pc' = pc, d'.hid_phase = d.hid_phase
  PROVE  HandlerOK'
<1>1. events' # <<>> /\ (events # <<>> => Head(events') = Head(events))
  BY Added
<1> QED
  BY <1>1 DEF HandlerOK

LEMMA ExecuteCommandStep ==
  ASSUME UsbAssumption, IInv, ExecuteCommand
  PROVE  IInv'
<1> USE DEF IInv
<1>1. PICK e : e = [type |-> "command", position |-> 0, ok |-> TRUE, keys |-> {}]
  OBVIOUS
<1>2. e \in EventRecord /\ e.type = "command"
  BY <1>1 DEF EventRecord
<1>3. /\ command /\ command' = FALSE /\ events' = Append(events, e)
      /\ d' = d /\ configuration' = configuration /\ todo' = todo /\ pc' = pc
      /\ halted' = halted /\ dma' = dma
      /\ report' = report /\ previous' = previous /\ notified' = notified /\ reports' = reports
  BY <1>1 DEF ExecuteCommand, historyVars
<1>4. d.port = "kConfiguringEndpoints" /\ None("command")
  BY <1>3 DEF OneCommand
<1>5. /\ events' \in Seq(EventRecord)
      /\ \A k \in 1..Len(events') :
           (k \in 1..Len(events) /\ events'[k] = events[k]) \/ (k = Len(events) + 1 /\ events'[k] = e)
  BY <1>2, <1>3, Added
<1>6. TypeOK' /\ StateTyped' /\ SetUpOrder'
  BY <1>3, <1>5 DEF TypeOK, StateTyped, SetUpOrder
<1>7. SetUpStored' /\ PositionsOf(d)' /\ RoutedOf(d)' /\ Window'
  BY <1>3, StoredKept, QueuesKept DEF SameSetUp, SameQueues
<1>8. CompletedOK'
  <2>1. d.pushed - Len(d.ep0) \in Int
    BY LenProperties DEF TypeOK, DeviceState
  <2> QED
    BY <2>1, <1>2, <1>3, CompletedAdded
<1>9. HandlerOK'
  BY <1>2, <1>3, HandlerAdded
<1>10. OneCommand'
  <2>1. AtMostOne("command")'
    BY <1>2, <1>3, <1>4, AddedKinds
  <2> QED
    BY <2>1, <1>3, <1>4 DEF OneCommand
<1>11. OneReport'
  <2>1. /\ None("interrupt")' <=> None("interrupt")
        /\ AtMostOne("interrupt")'
    BY <1>2, <1>3, AddedKinds DEF OneReport
  <2>2. \A k \in 1..Len(events') : InterruptOK(k)'
    BY <1>2, <1>3, <1>5 DEF OneReport, InterruptOK
  <2> QED
    BY <2>1, <2>2, <1>3 DEF OneReport
<1>12. BuffersOK' /\ Room'
  BY <1>3 DEF BuffersOK, KeysSeenOnce, Room
<1> QED
  BY <1>6, <1>7, <1>8, <1>9, <1>10, <1>11, <1>12

LEMMA SendReportStep ==
  ASSUME UsbAssumption, IInv, NEW keys \in SUBSET Keys, SendReport(keys)
  PROVE  IInv'
<1> USE DEF IInv
<1>1. /\ d.normals > 0 /\ "interrupt" \notin halted /\ reports < MaxReports /\ reports' = reports + 1
      /\ configuration' = configuration /\ todo' = todo /\ pc' = pc /\ command' = command
      /\ dma' = dma /\ report' = report /\ previous' = previous /\ notified' = notified
  BY DEF SendReport, historyVars
<1>2. d.normals = 1 /\ None("interrupt") /\ d.hid_phase = 2
  <2>1. d.normals = 1
    BY <1>1 DEF OneReport
  <2> QED
    BY <2>1 DEF OneReport
<1>3. PICK e \in EventRecord :
        /\ e.type = "interrupt" /\ events' = Append(events, e)
        /\ d' \in DeviceState /\ SameQueues(d, d') /\ SameSetUp(d, d')
        /\ d'.hid_phase = 2 /\ d'.normals = 0 /\ d'.previous_buf_ = d.previous_buf_
        /\ e.ok => e.keys = d'.buf_ /\ halted' = halted
        /\ ~e.ok => halted' = halted \cup {"interrupt"}
  <2>1. d \in DeviceState /\ d.normals - 1 = 0
    BY <1>2 DEF TypeOK
  <2>2. CASE /\ d' = [d EXCEPT !.normals = @ - 1, !.buf_ = keys]
             /\ events' = Append(events, [type |-> "interrupt", position |-> 0, ok |-> TRUE, keys |-> keys])
             /\ UNCHANGED halted
    <3>1. PICK e : e = [type |-> "interrupt", position |-> 0, ok |-> TRUE, keys |-> keys]
      OBVIOUS
    <3>2. e \in EventRecord /\ e.type = "interrupt" /\ e.ok /\ e.keys = keys
      BY <3>1 DEF EventRecord
    <3>3. d' = [d EXCEPT !.normals = 0, !.buf_ = keys]
      BY <2>1, <2>2
    <3>4. /\ d' \in DeviceState /\ SameQueues(d, d') /\ SameSetUp(d, d')
          /\ d'.hid_phase = d.hid_phase /\ d'.normals = 0
          /\ d'.buf_ = keys /\ d'.previous_buf_ = d.previous_buf_
      BY <2>1, <3>3 DEF DeviceState, SameQueues, SameSetUp
    <3> QED
      BY <3>1, <3>2, <3>4, <2>2, <1>2
  <2>3. CASE /\ d' = [d EXCEPT !.normals = @ - 1]
             /\ events' = Append(events, [type |-> "interrupt", position |-> 0, ok |-> FALSE, keys |-> {}])
             /\ halted' = halted \cup {"interrupt"}
    <3>1. PICK e : e = [type |-> "interrupt", position |-> 0, ok |-> FALSE, keys |-> {}]
      OBVIOUS
    <3>2. e \in EventRecord /\ e.type = "interrupt" /\ ~e.ok
      BY <3>1 DEF EventRecord
    <3>3. d' = [d EXCEPT !.normals = 0]
      BY <2>1, <2>3
    <3>4. /\ d' \in DeviceState /\ SameQueues(d, d') /\ SameSetUp(d, d')
          /\ d'.hid_phase = d.hid_phase /\ d'.normals = 0
          /\ d'.previous_buf_ = d.previous_buf_
      BY <2>1, <3>3 DEF DeviceState, SameQueues, SameSetUp
    <3> QED
      BY <3>1, <3>2, <3>4, <2>3, <1>2
  <2> QED
    BY <2>2, <2>3 DEF SendReport
<1>4. /\ events' \in Seq(EventRecord)
      /\ \A k \in 1..Len(events') :
           (k \in 1..Len(events) /\ events'[k] = events[k]) \/ (k = Len(events) + 1 /\ events'[k] = e)
  BY <1>3, Added
<1>5. TypeOK' /\ StateTyped'
  <2>1. reports' \in 0..MaxReports
    BY <1>1 DEF TypeOK, UsbAssumption
  <2> QED
    BY <2>1, <1>1, <1>3, <1>4 DEF TypeOK, StateTyped
<1>6. SetUpOrder'
  BY <1>1, <1>2, <1>3 DEF SetUpOrder, SameSetUp
<1>7. SetUpStored' /\ PositionsOf(d)' /\ RoutedOf(d)' /\ Window'
  BY <1>1, <1>3, StoredKept, QueuesKept
<1>8. CompletedOK'
  <2>1. d.pushed - Len(d.ep0) \in Int
    BY LenProperties DEF TypeOK, DeviceState
  <2>2. /\ d'.pushed = d.pushed /\ d'.ep0 = d.ep0
        /\ d'.setup_stage_map_ = d.setup_stage_map_
    BY <1>3 DEF SameQueues
  <2> QED
    BY <2>1, <2>2, <1>3, CompletedAdded
<1>9. HandlerOK'
  BY <1>1, <1>2, <1>3, HandlerAdded
<1>10. OneCommand'
  <2>1. /\ None("command")' <=> None("command")
        /\ AtMostOne("command")'
    BY <1>3, AddedKinds DEF OneCommand
  <2> QED
    BY <2>1, <1>1, <1>2, <1>3 DEF OneCommand, SameSetUp
<1>11. OneReport'
  <2>1. ~None("interrupt")' /\ AtMostOne("interrupt")'
    BY <1>2, <1>3, AddedKinds
  <2>2. \A k \in 1..Len(events') : InterruptOK(k)'
    <3> SUFFICES ASSUME NEW k \in 1..Len(events') PROVE InterruptOK(k)'
      OBVIOUS
    <3>1. CASE k \in 1..Len(events) /\ events'[k] = events[k]
      BY <3>1, <1>2 DEF None, InterruptOK
    <3>2. CASE events'[k] = e
      BY <3>2, <1>1, <1>3 DEF InterruptOK
    <3> QED
      BY <3>1, <3>2, <1>4
  <2> QED
    BY <2>1, <2>2, <1>3 DEF OneReport
\* The report before has been copied: there is no interrupt event.
<1>12. BuffersOK'
  <2>1. pc # "copy"
    <3> SUFFICES ASSUME pc = "copy" PROVE FALSE
      OBVIOUS
    <3>1. events # <<>> /\ Head(events).type = "interrupt"
      BY DEF HandlerOK
    <3> QED
      BY <3>1, <1>2, InterruptFirst
  <2> QED
    BY <2>1, <1>1, <1>3 DEF BuffersOK, KeysSeenOnce
<1>13. Room'
  BY <1>1, <1>3 DEF Room, SameQueues, SameSetUp
<1> QED
  BY <1>5, <1>6, <1>7, <1>8, <1>9, <1>10, <1>11, <1>12, <1>13

\* The next block of the control pipe: those behind it move up, and if it is
\* to interrupt, its request is in the map.
LEMMA ExecuteEp0Effect ==
  ASSUME UsbAssumption, IInv, d.ep0 # <<>>, d' = [d EXCEPT !.ep0 = Tail(d.ep0)]
  PROVE  /\ d' \in DeviceState /\ SameSetUp(d, d')
         /\ d'.hid_phase = d.hid_phase /\ d'.normals = d.normals
         /\ d'.buf_ = d.buf_ /\ d'.previous_buf_ = d.previous_buf_
         /\ d'.setup_stage_map_ = d.setup_stage_map_ /\ d'.event_waiters_ = d.event_waiters_
         /\ PositionsOf(d)' /\ RoutedOf(d)' /\ WindowOf(d', Low) /\ d'.pushed = d.pushed
         /\ Head(d.ep0) \in Blocks
         /\ d.pushed - Len(d.ep0) \in Int /\ d'.pushed - Len(d'.ep0) = (d.pushed - Len(d.ep0)) + 1
         /\ Head(d.ep0).position = (d.pushed - Len(d.ep0)) + 1
         /\ Head(d.ep0).interrupts => Leads(d.setup_stage_map_, Head(d.ep0).position)
<1> USE DEF IInv
<1>1. d \in DeviceState /\ d.ep0 \in Seq(Blocks) /\ d.pushed \in Nat
  BY DEF TypeOK, DeviceState
<1>2. PICK q : q = d.ep0
  OBVIOUS
<1>3. q \in Seq(Blocks) /\ q # <<>>
  BY <1>1, <1>2
<1>4. /\ Head(q) \in Blocks /\ Tail(q) \in Seq(Blocks) /\ Len(q) \in Nat /\ Len(q) >= 1
      /\ Len(Tail(q)) = Len(q) - 1
      /\ \A k \in 1..Len(Tail(q)) : Tail(q)[k] = q[k + 1]
  <2>1. /\ Head(q) \in Blocks /\ Tail(q) \in Seq(Blocks)
        /\ Len(Tail(q)) = Len(q) - 1
        /\ \A k \in 1..Len(Tail(q)) : Tail(q)[k] = q[k + 1]
    BY <1>3, HeadTailProperties
  <2>2. Len(q) \in Nat /\ Len(q) # 0
    BY <1>3, EmptySeq, LenProperties
  <2> QED
    BY <2>1, <2>2
<1>5. Head(q) = q[1] /\ 1 \in 1..Len(q)
  BY <1>3, <1>4
<1>6. \A k \in 1..Len(Tail(q)) : k + 1 \in 1..Len(q) /\ k \in Nat
  BY <1>4
<1>7. /\ d' \in DeviceState /\ SameSetUp(d, d') /\ d'.ep0 = Tail(q) /\ d'.pushed = d.pushed
      /\ d'.hid_phase = d.hid_phase /\ d'.normals = d.normals
      /\ d'.buf_ = d.buf_ /\ d'.previous_buf_ = d.previous_buf_
      /\ d'.setup_stage_map_ = d.setup_stage_map_ /\ d'.event_waiters_ = d.event_waiters_
      /\ d'.ring = d.ring
  BY <1>1, <1>2, <1>4 DEF DeviceState, SameSetUp
<1>8. d.pushed - Len(d.ep0) \in Int /\ d'.pushed - Len(d'.ep0) = (d.pushed - Len(d.ep0)) + 1
  BY <1>1, <1>2, <1>4, <1>7, SMTT(30)
<1>9. PositionsOf(d)'
  <2>1. Len(d'.ep0) <= d'.pushed
    BY <1>1, <1>2, <1>4, <1>7 DEF PositionsOf
  <2>2. ASSUME NEW k \in 1..Len(d'.ep0)
        PROVE  d'.ep0[k].position = (d'.pushed - Len(d'.ep0)) + k
    <3>1. k + 1 \in 1..Len(q) /\ k \in Nat /\ d'.ep0[k] = q[k + 1]
      BY <1>4, <1>6, <1>7
    <3>2. q[k + 1].position = (d.pushed - Len(d.ep0)) + (k + 1)
      BY <3>1, <1>2 DEF PositionsOf
    <3> QED
      BY <3>1, <3>2, <1>8
  <2>3. ASSUME Len(d'.ep0) >= 2
        PROVE  d'.ep0[Len(d'.ep0)].interrupts \/ d'.ep0[Len(d'.ep0) - 1].interrupts
    <3>1. PICK n : n = Len(q)
      OBVIOUS
    <3>2. n \in Nat /\ Len(Tail(q)) = n - 1 /\ n - 1 >= 2
      BY <2>3, <3>1, <1>4, <1>7
    <3>3. n - 1 \in 1..(n - 1) /\ n - 2 \in 1..(n - 1) /\ (n - 2) + 1 = n - 1 /\ (n - 1) + 1 = n
      BY <3>2
    <3>4. Tail(q)[n - 1] = q[n] /\ Tail(q)[n - 2] = q[n - 1]
      BY <3>2, <3>3, <1>4
    <3>5. q[n].interrupts \/ q[n - 1].interrupts
      BY <3>1, <3>2, <1>2 DEF PositionsOf
    <3>6. (n - 1) - 1 = n - 2
      BY <3>2
    <3> QED
      BY <3>2, <3>4, <3>5, <3>6, <1>7
  <2>4. \A k \in 1..Len(d.setup_stage_map_) : MappedOK(d', k)
    BY <1>7 DEF PositionsOf, MappedOK
  <2>5. PositionsOf(d')
    BY <2>1, <2>2, <2>3, <2>4, <1>7 DEF PositionsOf
  <2> QED
    BY <2>5 DEF PositionsOf, MappedOK
<1>9a. WindowOf(d', Low)
  <2>1. Low \in Int /\ Low <= d.pushed - Len(d.ep0)
    <3>1. Reserve \in Nat /\ RingSlots \in Nat
      BY ReserveTyped DEF UsbAssumption
    <3> QED
      BY <3>1, <1>1 DEF Low, Window, WindowOf
  <2>2. Low <= d'.pushed - Len(d'.ep0)
    BY <2>1, <1>8
  <2> QED
    BY <2>2, <1>7 DEF Window, WindowOf
<1>10. RoutedOf(d)'
  <2> SUFFICES ASSUME NEW k \in 1..Len(d'.ep0), d'.ep0[k].interrupts
               PROVE  /\ Leads(d.setup_stage_map_, d'.ep0[k].position)
                      /\ d.ring[Place(d'.ep0[k].position - 1)] = d'.ep0[k].request
                      /\ d'.ep0[k].request = "SetProtocol" => Has(d.event_waiters_, "SetProtocol")
    BY <1>7 DEF RoutedOf
  <2>1. k + 1 \in 1..Len(d.ep0) /\ d'.ep0[k] = d.ep0[k + 1]
    BY <1>2, <1>4, <1>6, <1>7
  <2> QED
    BY <2>1 DEF RoutedOf
<1>11. Head(d.ep0).position = (d.pushed - Len(d.ep0)) + 1
  BY <1>2, <1>5 DEF PositionsOf
<1>12. Head(d.ep0).interrupts => Leads(d.setup_stage_map_, Head(d.ep0).position)
  BY <1>2, <1>5 DEF RoutedOf
<1> QED
  BY <1>2, <1>4, <1>7, <1>8, <1>9, <1>9a, <1>10, <1>11, <1>12

LEMMA ExecuteEp0Step ==
  ASSUME UsbAssumption, IInv, ExecuteEp0
  PROVE  IInv'
<1> USE DEF IInv
<1>1. /\ d.ep0 # <<>> /\ d' = [d EXCEPT !.ep0 = Tail(d.ep0)]
      /\ configuration' = configuration /\ todo' = todo /\ pc' = pc /\ command' = command
      /\ report' = report /\ previous' = previous /\ notified' = notified /\ reports' = reports
  BY DEF ExecuteEp0, historyVars
<1>2. PICK b : b = Head(d.ep0)
  OBVIOUS
<1>3. /\ d' \in DeviceState /\ SameSetUp(d, d')
      /\ d'.hid_phase = d.hid_phase /\ d'.normals = d.normals
      /\ d'.buf_ = d.buf_ /\ d'.previous_buf_ = d.previous_buf_
      /\ d'.setup_stage_map_ = d.setup_stage_map_ /\ d'.event_waiters_ = d.event_waiters_
      /\ PositionsOf(d)' /\ RoutedOf(d)' /\ WindowOf(d', Low) /\ d'.pushed = d.pushed
      /\ b \in Blocks
      /\ d.pushed - Len(d.ep0) \in Int /\ d'.pushed - Len(d'.ep0) = (d.pushed - Len(d.ep0)) + 1
      /\ b.position = (d.pushed - Len(d.ep0)) + 1
      /\ b.interrupts => Leads(d.setup_stage_map_, b.position)
  BY <1>1, <1>2, ExecuteEp0Effect
<1>3a. Window'
  <2>1. Low' = Low
    BY <1>1, <1>3 DEF Low, Reserve
  <2> QED
    BY <2>1, <1>3 DEF Window
<1>4. "interrupt" \in halted' <=> "interrupt" \in halted
  BY DEF ExecuteEp0
\* Whether there is a new event.
<1>5. \/ events' = events
      \/ \E e \in EventRecord : /\ e.type = "control" /\ e.position = b.position
                                /\ e.ok => b.interrupts
                                /\ events' = Append(events, e)
  <2>1. \/ events' = events
        \/ b.interrupts /\ events' = Append(events, Transfer(b.position, TRUE))
        \/ events' = Append(events, Transfer(b.position, FALSE))
    BY <1>2 DEF ExecuteEp0
  <2>2. b.position \in Nat
    BY <1>3 DEF Blocks
  <2>3. /\ Transfer(b.position, TRUE) \in EventRecord
        /\ Transfer(b.position, TRUE).type = "control"
        /\ Transfer(b.position, TRUE).position = b.position
    BY <2>2 DEF EventRecord, Transfer
  <2>4. /\ Transfer(b.position, FALSE) \in EventRecord
        /\ Transfer(b.position, FALSE).type = "control"
        /\ Transfer(b.position, FALSE).position = b.position /\ ~Transfer(b.position, FALSE).ok
    BY <2>2 DEF EventRecord, Transfer
  <2> QED
    BY <2>1, <2>3, <2>4
<1>6. SetUpOrder' /\ BuffersOK' /\ Room'
  BY <1>1, <1>3 DEF SetUpOrder, BuffersOK, KeysSeenOnce, Room, SameSetUp
<1>7. SetUpStored'
  BY <1>1, <1>3, StoredKept
<1>8. TypeOK'
  BY <1>1, <1>3 DEF TypeOK
<1>9. CASE events' = events
  <2>1. \A k \in 1..Len(events) : Completed(k) => events[k].position <= d'.pushed - Len(d'.ep0)
    <3> SUFFICES ASSUME NEW k \in 1..Len(events), Completed(k)
                 PROVE  events[k].position <= d'.pushed - Len(d'.ep0)
      OBVIOUS
    <3>1. events[k] \in EventRecord
      BY ElementOfSeq DEF StateTyped
    <3>2. events[k].position \in Nat
      BY <3>1 DEF EventRecord
    <3>3. events[k].position <= d.pushed - Len(d.ep0)
      BY DEF CompletedOK
    <3> QED
      BY <3>2, <3>3, <1>3
  <2>2. CompletedOK'
    BY <2>1, <1>3, <1>9 DEF CompletedOK, Completed
  <2>3. StateTyped' /\ HandlerOK' /\ OneCommand'
    BY <1>1, <1>3, <1>9 DEF StateTyped, HandlerOK, OneCommand, None, AtMostOne, SameSetUp
  <2>4. OneReport'
    BY <1>1, <1>3, <1>4, <1>9 DEF OneReport, InterruptOK, None, AtMostOne
  <2> QED
    BY <2>2, <2>3, <2>4, <1>3, <1>3a, <1>6, <1>7, <1>8
<1>10. CASE events' # events
  <2>1. PICK e \in EventRecord : /\ e.type = "control" /\ e.position = b.position
                                 /\ e.ok => b.interrupts
                                 /\ events' = Append(events, e)
    BY <1>5, <1>10
  <2>2. /\ events' \in Seq(EventRecord)
        /\ \A k \in 1..Len(events') :
             (k \in 1..Len(events) /\ events'[k] = events[k]) \/ (k = Len(events) + 1 /\ events'[k] = e)
    BY <2>1, Added
  <2>3. CompletedOK'
    <3>1. /\ d'.pushed - Len(d'.ep0) \in Int
          /\ d.pushed - Len(d.ep0) <= d'.pushed - Len(d'.ep0)
          /\ e.position <= d'.pushed - Len(d'.ep0) /\ e.position > d.pushed - Len(d.ep0)
      BY <1>3, <2>1
    <3>2. e.ok => Leads(d.setup_stage_map_, e.position)
      BY <1>3, <2>1
    <3> QED
      BY <1>3, <2>1, <3>1, <3>2, CompletedAdded
  <2>4. StateTyped'
    BY <1>1, <2>2 DEF StateTyped
  <2>5. HandlerOK'
    BY <1>1, <1>3, <2>1, HandlerAdded
  <2>6. /\ None("command")' <=> None("command")
        /\ None("interrupt")' <=> None("interrupt")
        /\ AtMostOne("command")' /\ AtMostOne("interrupt")'
    BY <2>1, AddedKinds DEF OneCommand, OneReport
  <2>7. OneCommand'
    BY <2>6, <1>1, <1>3 DEF OneCommand, SameSetUp
  <2>8. OneReport'
    <3>1. \A k \in 1..Len(events') : InterruptOK(k)'
      <4> SUFFICES ASSUME NEW k \in 1..Len(events') PROVE InterruptOK(k)'
        OBVIOUS
      <4>1. CASE k \in 1..Len(events) /\ events'[k] = events[k]
        BY <4>1, <1>3, <1>4 DEF OneReport, InterruptOK
      <4>2. CASE events'[k] = e
        BY <4>2, <2>1 DEF InterruptOK
      <4> QED
        BY <4>1, <4>2, <2>2
    <3> QED
      BY <3>1, <2>6, <1>3, <1>4 DEF OneReport
  <2> QED
    BY <2>3, <2>4, <2>5, <2>7, <2>8, <1>3, <1>3a, <1>6, <1>7, <1>8
<1> QED
  BY <1>9, <1>10

-----------------------------------------------------------------------------
(* The class driver's first request *)

\* The endpoints the set-up has chosen have an interrupt IN endpoint.
LEMMA InterruptEndpoint ==
  ASSUME UsbAssumption, IInv, d.initialize_phase_ >= 3
  PROVE  LastIn(d.ep_configs_) \in ToSet(d.ep_configs_) /\ LastIn(d.ep_configs_) \in Endpoint
<1>1. /\ Supported # {} /\ d.driver = FirstSupported
      /\ d.ep_configs_ = configuration[d.driver].endpoints
  BY DEF IInv, SetUpStored
<1>2. d.driver \in Supported /\ d.driver \in 1..Len(configuration)
  BY <1>1, FirstSupportedExists DEF IInv, StateTyped
<1>3. configuration[d.driver].class # "other"
  BY <1>2 DEF Supported
<1>4. \E n \in 1..Len(d.ep_configs_) : d.ep_configs_[n].in
  BY <1>1, <1>2, <1>3 DEF UsbAssumption, IInv, StateTyped
<1>5. d.ep_configs_ \in Seq(Endpoint)
  BY DEF IInv, TypeOK, DeviceState
<1> QED
  BY <1>4, <1>5, LastInExists

\* The issuer is remembered, by this request or by an earlier one when the
\* map is full.
Waiting(s) ==
  [[s EXCEPT !.hid_phase = 1]
     EXCEPT !.event_waiters_ = Put(@, MaxEventWaiters, "SetProtocol", s.driver)]

LEMMA WaiterStored ==
  ASSUME UsbAssumption, IInv, NEW r, r = Waiting(d)
  PROVE  /\ r \in DeviceState /\ SameSetUp(d, r) /\ r.hid_phase = 1 /\ r.normals = d.normals
         /\ r.buf_ = d.buf_ /\ r.previous_buf_ = d.previous_buf_
         /\ r.pushed = d.pushed /\ r.ep0 = d.ep0 /\ r.setup_stage_map_ = d.setup_stage_map_
         /\ Has(r.event_waiters_, "SetProtocol")
         /\ PositionsOf(r) /\ RoutedOf(r) /\ WindowOf(r, Low)
<1> USE DEF IInv
<1>1. d \in DeviceState /\ d.event_waiters_ \in Seq([key : Requests, value : Nat]) /\ d.driver \in Nat
  BY DEF TypeOK, DeviceState
<1>2. PICK w : w = Put(d.event_waiters_, MaxEventWaiters, "SetProtocol", d.driver)
  OBVIOUS
<1>4. w \in Seq([key : Requests, value : Nat]) /\ Has(w, "SetProtocol")
  <2>1. CASE Len(d.event_waiters_) < MaxEventWaiters
    <3>1. PICK e : e = Entry("SetProtocol", d.driver)
      OBVIOUS
    <3>2. e \in [key : Requests, value : Nat] /\ e.key = "SetProtocol"
      BY <3>1, <1>1 DEF Entry, Requests
    <3>3. w = Append(d.event_waiters_, e)
      BY <2>1, <3>1, <1>2 DEF Put
    <3>4. /\ w \in Seq([key : Requests, value : Nat]) /\ Len(d.event_waiters_) \in Nat
          /\ Len(w) = Len(d.event_waiters_) + 1 /\ w[Len(d.event_waiters_) + 1] = e
      BY <3>2, <3>3, <1>1, AppendProperties, LenProperties
    <3>5. Len(d.event_waiters_) + 1 \in 1..Len(w)
      BY <3>4
    <3> QED
      BY <3>2, <3>4, <3>5 DEF Has
  <2>2. CASE ~(Len(d.event_waiters_) < MaxEventWaiters)
    <3>1. w = d.event_waiters_
      BY <2>2, <1>2 DEF Put
    <3>2. d.event_waiters_ # <<>>
      BY <2>2 DEF UsbAssumption
    <3> QED
      BY <3>1, <3>2, <1>1 DEF Room
  <2> QED
    BY <2>1, <2>2
<1>5. r = [d EXCEPT !.hid_phase = 1, !.event_waiters_ = w]
  BY <1>1, <1>2 DEF Waiting, DeviceState
<1>6. /\ r \in DeviceState /\ SameSetUp(d, r) /\ r.hid_phase = 1 /\ r.normals = d.normals
      /\ r.buf_ = d.buf_ /\ r.previous_buf_ = d.previous_buf_
      /\ r.pushed = d.pushed /\ r.ep0 = d.ep0 /\ r.setup_stage_map_ = d.setup_stage_map_
      /\ r.ring = d.ring /\ r.event_waiters_ = w
  <2>2. PICK s : s = [d EXCEPT !.hid_phase = 1]
    OBVIOUS
  <2>3. /\ s \in DeviceState /\ SameSetUp(d, s) /\ s.hid_phase = 1 /\ s.normals = d.normals
        /\ s.buf_ = d.buf_ /\ s.previous_buf_ = d.previous_buf_
        /\ s.pushed = d.pushed /\ s.ep0 = d.ep0 /\ s.setup_stage_map_ = d.setup_stage_map_
        /\ s.ring = d.ring
    <3>1. 1 \in 0..2
      OBVIOUS
    <3>2. s \in DeviceState
      BY <2>2, <3>1 DEF DeviceState, TypeOK
    <3>3. /\ SameSetUp(d, s) /\ s.hid_phase = 1 /\ s.normals = d.normals
          /\ s.buf_ = d.buf_ /\ s.previous_buf_ = d.previous_buf_
      BY <2>2 DEF DeviceState, SameSetUp, TypeOK
    <3>4. /\ s.pushed = d.pushed /\ s.ep0 = d.ep0 /\ s.setup_stage_map_ = d.setup_stage_map_
          /\ s.ring = d.ring
      BY <2>2 DEF DeviceState, SameSetUp, TypeOK
    <3> QED
      BY <3>2, <3>3, <3>4
  <2>4. r = [s EXCEPT !.event_waiters_ = w]
    BY <1>1, <1>5, <2>2 DEF DeviceState
  <2>5. r \in DeviceState /\ r.event_waiters_ = w
    BY <1>4, <2>3, <2>4 DEF DeviceState
  <2>6. /\ SameSetUp(s, r) /\ r.hid_phase = s.hid_phase /\ r.normals = s.normals
        /\ r.buf_ = s.buf_ /\ r.previous_buf_ = s.previous_buf_
        /\ r.pushed = s.pushed /\ r.ep0 = s.ep0 /\ r.setup_stage_map_ = s.setup_stage_map_
        /\ r.ring = s.ring
    BY <2>3, <2>4 DEF DeviceState, SameSetUp
  <2> QED
    BY <2>3, <2>5, <2>6 DEF SameSetUp
<1>7. PositionsOf(r)
  BY <1>6 DEF PositionsOf, MappedOK
<1>8. RoutedOf(r)
  BY <1>4, <1>6 DEF RoutedOf
<1>9. WindowOf(r, Low)
  BY <1>6 DEF Window, WindowOf
<1> QED
  BY <1>4, <1>6, <1>7, <1>8, <1>9

LEMMA OnEndpointsConfiguredStep ==
  ASSUME UsbAssumption, IInv, OnEndpointsConfigured
  PROVE  IInv'
<1> USE DEF IInv
<1>1. PICK number \in todo : todo' = todo \ {number}
  BY DEF OnEndpointsConfigured
<1>2. /\ pc = "configure" /\ pc' = pc /\ d' = HidOnEndpointsConfigured(d)
      /\ configuration' = configuration /\ command' = command /\ events' = events
      /\ active' = active /\ halted' = halted /\ dma' = dma
      /\ report' = report /\ previous' = previous /\ notified' = notified /\ reports' = reports
  BY DEF OnEndpointsConfigured, deviceVars, historyVars
<1>3. events # <<>> /\ Head(events).type = "command" /\ d.hid_phase < 2
  BY <1>2 DEF HandlerOK
<1>4. d.port = "kConfiguringEndpoints" /\ ~command
  <2>1. Len(events) \in Nat /\ Len(events) # 0
    BY <1>3, EmptySeq, LenProperties DEF StateTyped
  <2>2. 1 \in 1..Len(events) /\ Head(events) = events[1]
    BY <2>1, <1>3 DEF StateTyped
  <2>3. ~None("command")
    BY <1>3, <2>2 DEF None
  <2> QED
    BY <2>3 DEF OneCommand
<1>5. d.is_initialized_ /\ d.initialize_phase_ = 4
  BY <1>4 DEF SetUpOrder
\* The endpoint that will be polled has its ring.
<1>6. d.ep_interrupt_in_ \in d.rings
  <2>1. LastIn(d.ep_configs_) \in ToSet(d.ep_configs_)
    BY <1>5, InterruptEndpoint, SMTT(20)
  <2> QED
    BY <2>1, <1>4, <1>5 DEF SetUpStored
\* There is a place for the request.
<1>7. /\ Len(d.setup_stage_map_) \in Nat /\ Cardinality(todo) \in Nat
      /\ Cardinality(todo') = Cardinality(todo) - 1 /\ Cardinality(todo) >= 1
  <2>1. IsFiniteSet(todo) /\ Cardinality(todo) \in Nat
    BY NumbersFinite DEF TypeOK
  <2>2. IsFiniteSet(todo \ {number}) /\ Cardinality(todo \ {number}) = Cardinality(todo) - 1
    BY <2>1, <1>1, FS_RemoveElement
  <2>3. Cardinality(todo \ {number}) \in Nat
    BY <2>2, FS_CardinalityType
  <2>4. Len(d.setup_stage_map_) \in Nat
    BY LenProperties DEF TypeOK, DeviceState
  <2> QED
    BY <2>1, <2>2, <2>3, <2>4, <1>1
<1>8. Len(d.setup_stage_map_) + Cardinality(todo) <= MaxSetupStages
  BY <1>2 DEF Room
<1>10. PICK r : r = Waiting(d)
  OBVIOUS
<1>11. d' = Control(r, "SetProtocol")
  BY <1>2, <1>10 DEF HidOnEndpointsConfigured, ControlBy, Waiting
<1>12. /\ r \in DeviceState /\ SameSetUp(d, r) /\ r.hid_phase = 1 /\ r.normals = d.normals
       /\ r.buf_ = d.buf_ /\ r.previous_buf_ = d.previous_buf_
       /\ r.pushed = d.pushed /\ r.ep0 = d.ep0 /\ r.setup_stage_map_ = d.setup_stage_map_
       /\ Has(r.event_waiters_, "SetProtocol")
       /\ PositionsOf(r) /\ RoutedOf(r) /\ WindowOf(r, Low)
  BY <1>10, WaiterStored
\* And there is room on the ring for this request and those to come.
<1>12a. /\ Len(Stages("SetProtocol")) = 2
        /\ Low \in Int /\ (d.pushed + 2) - RingSlots <= Low
        /\ ((d.pushed + 2) - RingSlots) + 2 * Cardinality(todo') = Low
  <2>1. d.pushed \in Nat /\ RingSlots \in Nat
    BY DEF TypeOK, DeviceState, UsbAssumption
  <2>2. PICK n : n = Cardinality(todo)
    OBVIOUS
  <2>3. n \in Nat /\ n >= 1 /\ Cardinality(todo') = n - 1
    BY <2>2, <1>7
  <2>4. Low = (d.pushed - RingSlots) + 2 * n
    BY <2>2, <1>2 DEF Low, Reserve
  <2>5. Len(Stages("SetProtocol")) = 2
    BY DEF Stages
  <2> QED
    BY <2>1, <2>3, <2>4, <2>5
<1>13. /\ d' \in DeviceState /\ SameButQueues(r, d')
       /\ PositionsOf(d)' /\ RoutedOf(d)' /\ Window'
       /\ Len(d'.setup_stage_map_) = Len(d.setup_stage_map_) + 1
       /\ d'.pushed - Len(d'.ep0) = d.pushed - Len(d.ep0)
       /\ \A x : Leads(d.setup_stage_map_, x) => Leads(d'.setup_stage_map_, x)
  <2>1. PICK t : t = Control(r, "SetProtocol")
    OBVIOUS
  <2>2. "SetProtocol" \in Requests
    BY DEF Requests
  <2>3. Len(r.setup_stage_map_) < MaxSetupStages
    BY <1>7, <1>8, <1>12 DEF UsbAssumption
  <2>3a. PICK low : low = Low
    OBVIOUS
  <2>3c. PICK request : request = "SetProtocol"
    OBVIOUS
  <2>3b. low \in Int /\ request \in Requests /\ t = Control(r, request) /\ Ready(r, request, low)
    BY <2>1, <2>2, <2>3, <2>3a, <2>3c, <1>12, <1>12a DEF Ready
  <2>3d. Requested(r, request, low, t)
    BY <2>3b, <1>12, ControlEffect
  <2>4. /\ t \in DeviceState /\ SameButQueues(r, t)
        /\ PositionsOf(t) /\ RoutedOf(t) /\ WindowOf(t, low)
        /\ t.pushed = r.pushed + Len(Stages(request))
        /\ Len(t.setup_stage_map_) = Len(r.setup_stage_map_) + 1
        /\ t.pushed - Len(t.ep0) = r.pushed - Len(r.ep0)
        /\ \A x : Leads(r.setup_stage_map_, x) => Leads(t.setup_stage_map_, x)
    BY <2>3d DEF Requested
  <2>5. d' = t
    BY <2>1, <1>11
  <2>6. PositionsOf(d)' /\ RoutedOf(d)'
    BY <2>4, <2>5 DEF PositionsOf, RoutedOf, MappedOK
  <2>7. Window'
    <3>1. d'.pushed = d.pushed + 2
      BY <2>3c, <2>4, <2>5, <1>12, <1>12a
    <3>2. Low' = low
      BY <2>3a, <3>1, <1>2, <1>12a DEF Low, Reserve
    <3> QED
      BY <3>2, <2>4, <2>5 DEF Window
  <2> QED
    BY <2>4, <2>5, <2>6, <2>7, <1>12
<1>14. /\ SameSetUp(d, d') /\ d'.hid_phase = 1 /\ d'.normals = d.normals
       /\ d'.buf_ = d.buf_ /\ d'.previous_buf_ = d.previous_buf_
       /\ Has(d'.event_waiters_, "SetProtocol")
  BY <1>12, <1>13 DEF SameSetUp, SameButQueues
<1>15. TypeOK' /\ StateTyped' /\ SetUpOrder'
  <2>1. todo' \subseteq 1..15
    BY <1>1 DEF TypeOK
  <2> QED
    BY <2>1, <1>2, <1>6, <1>13, <1>14 DEF TypeOK, StateTyped, SetUpOrder, SameSetUp
<1>16. SetUpStored'
  BY <1>2, <1>14, StoredKept
<1>17. CompletedOK'
  BY <1>2, <1>13, CompletedKept
<1>18. HandlerOK' /\ OneCommand'
  BY <1>2, <1>3, <1>4, <1>14 DEF HandlerOK, OneCommand, None, AtMostOne, SameSetUp
<1>19. OneReport'
  BY <1>2, <1>3, <1>14 DEF OneReport, InterruptOK, None, AtMostOne
<1>20. BuffersOK'
  BY <1>2, <1>14 DEF BuffersOK, KeysSeenOnce
<1>21. Room'
  <2>1. Len(d'.setup_stage_map_) + Cardinality(todo') <= MaxSetupStages
    BY <1>7, <1>8, <1>13
  <2>1a. 2 * Cardinality(todo') < RingSlots
    <3>1. PICK n : n = Cardinality(todo)
      OBVIOUS
    <3>2. 2 * n < RingSlots
      BY <3>1, <1>2 DEF Room
    <3>3. n \in Nat /\ Cardinality(todo') = n - 1 /\ RingSlots \in Nat
      BY <3>1, <1>7 DEF UsbAssumption
    <3> QED
      BY <3>2, <3>3
  <2> QED
    BY <2>1, <2>1a, <1>2, <1>5, <1>14 DEF Room, SameSetUp
<1> QED
  BY <1>13, <1>15, <1>16, <1>17, <1>18, <1>19, <1>20, <1>21

-----------------------------------------------------------------------------
(* The completion of a request *)

PortStep == \/ d'.port = d.port /\ command' = command
            \/ /\ d.port = "kInitializingDevice" /\ d'.port = "kConfiguringEndpoints"
               /\ command' = TRUE
PollStep == \/ d'.hid_phase = d.hid_phase /\ d'.normals = d.normals
            \/ d.hid_phase = 1 /\ d'.hid_phase = 2 /\ d'.normals = d.normals + 1

\* What is left to show of each way of handling it.
ControlFrame ==
  /\ Handles("control") /\ events' = Tail(events) /\ command' \in BOOLEAN
  /\ configuration' = configuration /\ pc' = pc /\ todo' = todo /\ halted' = halted
  /\ report' = report /\ previous' = previous /\ notified' = notified /\ reports' = reports

LEMMA ControlDone ==
  ASSUME UsbAssumption, IInv, ControlFrame,
         d' \in DeviceState, SetUpOrder', SetUpStored', PositionsOf(d)', RoutedOf(d)', Window', Room',
         d'.pushed - Len(d'.ep0) = d.pushed - Len(d.ep0),
         \A k \in 1..Len(events') : Completed(k)' => Leads(d'.setup_stage_map_, events'[k].position),
         d'.buf_ = d.buf_, d'.previous_buf_ = d.previous_buf_, PortStep, PollStep
  PROVE  IInv'
<1> USE DEF IInv
<1>1. pc = "idle" /\ events # <<>> /\ Head(events).type = "control" /\ events' = Tail(events)
  BY DEF ControlFrame, Handles
<1>2. pc' = "idle" /\ halted' = halted /\ configuration' = configuration
  BY <1>1 DEF ControlFrame
<1>3. CompletedOK'
  BY <1>1, CompletedPopped
<1>4. TypeOK' /\ StateTyped'
  <2>1. events' \in Seq(EventRecord)
    BY <1>1, Popped
  <2> QED
    BY <2>1 DEF TypeOK, StateTyped, ControlFrame
<1>5. HandlerOK'
  BY <1>2 DEF HandlerOK
<1>6. /\ None("command") <=> None("command")'
      /\ None("interrupt") <=> None("interrupt")'
      /\ AtMostOne("command")' /\ AtMostOne("interrupt")'
  BY <1>1, PoppedKinds DEF OneCommand, OneReport
<1>7. OneCommand'
  <2>1. d.port # "kConfigured" => d.hid_phase = 0
    BY <1>1 DEF OneCommand
  <2>2. d'.port # "kConfigured" => d'.hid_phase = 0
    BY <2>1 DEF PortStep, PollStep
  <2>3. /\ command' => d'.port = "kConfiguringEndpoints" /\ None("command")
        /\ d'.port # "kConfiguringEndpoints" => None("command")
    BY DEF OneCommand, PortStep
  <2> QED
    BY <2>2, <2>3, <1>6 DEF OneCommand
<1>8. OneReport'
  <2>1. \A k \in 1..Len(events') : k + 1 \in 1..Len(events) /\ events'[k] = events[k + 1]
    BY <1>1, Popped
  <2>2. \A k \in 1..Len(events') : InterruptOK(k)'
    BY <2>1, <1>2 DEF OneReport, InterruptOK
  <2>3. CASE d'.hid_phase = d.hid_phase /\ d'.normals = d.normals
    BY <2>2, <2>3, <1>2, <1>6 DEF OneReport
  <2>4. CASE d.hid_phase = 1 /\ d'.hid_phase = 2 /\ d'.normals = d.normals + 1
    <3>1. d.normals = 0 /\ None("interrupt") /\ "interrupt" \notin halted
      BY <2>4 DEF OneReport
    <3> QED
      BY <3>1, <2>2, <2>4, <1>2, <1>6 DEF OneReport
  <2> QED
    BY <2>3, <2>4 DEF PollStep
<1>9. BuffersOK'
  BY <1>1, <1>2 DEF BuffersOK, KeysSeenOnce, ControlFrame
<1> QED
  BY <1>3, <1>4, <1>5, <1>7, <1>8, <1>9

\* A completion finds its request in the map, and the completions behind it
\* still find theirs when it has been taken out.
LEMMA RequestTaken ==
  ASSUME UsbAssumption, IInv, ControlFrame, Head(events).ok, NEW x, x = Head(events).position,
         NEW s, s = Forget(d, x)
  PROVE  /\ s \in DeviceState /\ SameButQueues(d, s) /\ s.pushed = d.pushed /\ s.ep0 = d.ep0
         /\ PositionsOf(s) /\ RoutedOf(s) /\ WindowOf(s, Low) /\ Low = d.pushed - RingSlots
         /\ Has(d.setup_stage_map_, Place(x)) /\ d.setup_stage_map_ # <<>>
         /\ ~d.is_initialized_ => s.setup_stage_map_ = <<>>
         /\ \A k \in 1..Len(events') : Completed(k)' => Leads(s.setup_stage_map_, events'[k].position)
         /\ s.setup_stage_map_ = <<>> => \A k \in 1..Len(events') : ~Completed(k)'
<1> USE DEF IInv
<1>1. events # <<>> /\ Head(events).type = "control" /\ events' = Tail(events)
  BY DEF ControlFrame, Handles
<1>2. /\ 1 \in 1..Len(events) /\ Head(events) = events[1] /\ Head(events) \in EventRecord
      /\ \A k \in 1..Len(events') : k + 1 \in 1..Len(events) /\ events'[k] = events[k + 1]
      /\ Len(events) \in Nat /\ Len(events') = Len(events) - 1
  BY <1>1, Popped
<1>3. Completed(1)
  BY <1>1, <1>2 DEF Completed
<1>4. x \in Nat /\ x <= d.pushed - Len(d.ep0) /\ Leads(d.setup_stage_map_, x)
  <2>1. x \in Nat
    BY <1>2 DEF EventRecord
  <2> QED
    BY <2>1, <1>2, <1>3 DEF CompletedOK
<1>5. d \in DeviceState
  BY DEF TypeOK
<1>6. /\ s \in DeviceState /\ SameButQueues(d, s) /\ s.pushed = d.pushed /\ s.ep0 = d.ep0
      /\ PositionsOf(s) /\ RoutedOf(s) /\ WindowOf(s, Low)
      /\ Len(s.setup_stage_map_) = Len(d.setup_stage_map_) - 1
      /\ \A y \in Nat : y # x /\ Leads(d.setup_stage_map_, y) => Leads(s.setup_stage_map_, y)
  <2>1. PICK t : t = d
    OBVIOUS
  <2>2. /\ t \in DeviceState /\ PositionsOf(t) /\ RoutedOf(t) /\ Leads(t.setup_stage_map_, x)
        /\ x <= t.pushed - Len(t.ep0) /\ s = Forget(t, x)
    BY <2>1, <1>4, <1>5
  <2>3. /\ s \in DeviceState /\ SameButQueues(t, s) /\ s.pushed = t.pushed /\ s.ep0 = t.ep0
        /\ PositionsOf(s) /\ RoutedOf(s)
        /\ \A low : WindowOf(t, low) => WindowOf(s, low)
        /\ Len(s.setup_stage_map_) = Len(t.setup_stage_map_) - 1
        /\ \A y \in Nat : y # x /\ Leads(t.setup_stage_map_, y) => Leads(s.setup_stage_map_, y)
    BY <2>2, <1>4, DeleteEffect
  <2>4. WindowOf(s, Low)
    BY <2>1, <2>3 DEF Window
  <2> QED
    BY <2>1, <2>3, <2>4
<1>6a. Low = d.pushed - RingSlots
  <2>1. pc # "configure"
    BY DEF ControlFrame, Handles
  <2>2. d.pushed \in Nat /\ RingSlots \in Nat
    BY <1>5 DEF DeviceState, UsbAssumption
  <2> QED
    BY <2>1, <2>2 DEF Low, Reserve
<1>7. Has(d.setup_stage_map_, Place(x)) /\ d.setup_stage_map_ # <<>>
  <2>1. Has(d.setup_stage_map_, Place(x))
    BY <1>4 DEF Leads, Has, Entry
  <2> QED
    BY <2>1 DEF Has
<1>8. ~d.is_initialized_ => s.setup_stage_map_ = <<>>
  <2> SUFFICES ASSUME ~d.is_initialized_ PROVE s.setup_stage_map_ = <<>>
    OBVIOUS
  <2>1. Len(d.setup_stage_map_) \in Nat /\ Len(d.setup_stage_map_) <= 1
    BY <1>5, LenProperties DEF DeviceState, Room
  <2>2. /\ s.setup_stage_map_ \in Seq([key : Places, value : Nat])
        /\ Len(s.setup_stage_map_) \in Nat
    BY <1>6, LenProperties DEF DeviceState
  <2>3. Len(s.setup_stage_map_) = 0
    BY <2>1, <2>2, <1>6
  <2> QED
    BY <2>2, <2>3, EmptySeq
<1>9. ASSUME NEW k \in 1..Len(events'), Completed(k)'
      PROVE  Leads(s.setup_stage_map_, events'[k].position)
  <2>1. k + 1 \in 1..Len(events) /\ events'[k] = events[k + 1] /\ k + 1 # 1
    BY <1>2
  <2>2. Completed(k + 1)
    BY <2>1, <1>9 DEF Completed
  <2>3. events[k + 1].position # x /\ Leads(d.setup_stage_map_, events[k + 1].position)
    BY <2>1, <2>2, <1>2, <1>3 DEF CompletedOK
  <2>4. events[k + 1] \in EventRecord
    BY <2>1, ElementOfSeq DEF StateTyped
  <2>5. events[k + 1].position \in Nat
    BY <2>4 DEF EventRecord
  <2> QED
    BY <2>1, <2>3, <2>5, <1>6
<1>10. s.setup_stage_map_ = <<>> => \A k \in 1..Len(events') : ~Completed(k)'
  BY <1>9 DEF Leads
<1> QED
  BY <1>4, <1>6, <1>6a, <1>7, <1>8, <1>9, <1>10

\* The window is where it was when no request follows.
LEMMA WindowBehind ==
  ASSUME UsbAssumption, IInv, ControlFrame, NEW s \in DeviceState, WindowOf(s, Low),
         s.pushed = d.pushed, d'.pushed = s.pushed, d'.ep0 = s.ep0,
         d'.setup_stage_map_ = s.setup_stage_map_
  PROVE  Window'
<1>1. pc # "configure" /\ pc' # "configure"
  BY DEF ControlFrame, Handles
<1>2. Reserve = 0 /\ Reserve' = 0
  BY <1>1 DEF Reserve
<1>3. Reserve \in Int /\ Reserve' \in Int /\ Reserve' <= Reserve
  BY <1>2
<1> QED
  BY <1>3, WindowKept

\* A completion that starts no request: an error, or one the class driver
\* has waited for.
LEMMA NothingMore ==
  ASSUME UsbAssumption, IInv, ControlFrame, Head(events).ok, command' = command,
         NEW x, x = Head(events).position, d' = Forget(d, x)
  PROVE  IInv'
<1> USE DEF IInv
<1>1. PICK s : s = Forget(d, x)
  OBVIOUS
<1>2. /\ s \in DeviceState /\ SameButQueues(d, s) /\ s.pushed = d.pushed /\ s.ep0 = d.ep0
      /\ PositionsOf(s) /\ RoutedOf(s) /\ WindowOf(s, Low)
      /\ d.setup_stage_map_ # <<>>
      /\ ~d.is_initialized_ => s.setup_stage_map_ = <<>>
      /\ \A k \in 1..Len(events') : Completed(k)' => Leads(s.setup_stage_map_, events'[k].position)
  BY <1>1, RequestTaken
<1>3. d' = s
  BY <1>1
<1>4. pc = "idle" /\ pc' = "idle" /\ configuration' = configuration /\ todo' = todo
  BY DEF ControlFrame, Handles
<1>5. SetUpOrder'
  BY <1>2, <1>3, <1>4 DEF SetUpOrder, SameButQueues
<1>6. SetUpStored'
  BY <1>2, <1>3, <1>4, StoredKept DEF SameButQueues, SameSetUp
<1>7. PositionsOf(d)' /\ RoutedOf(d)' /\ Window'
  <2>1. PositionsOf(d)'
    BY <1>2, <1>3 DEF PositionsOf, MappedOK
  <2>2. RoutedOf(d)'
    BY <1>2, <1>3 DEF RoutedOf
  <2>3. Window'
    BY <1>2, <1>3, WindowBehind
  <2> QED
    BY <2>1, <2>2, <2>3
<1>8. Room'
  <2>1. ~d.is_initialized_ => Len(d'.setup_stage_map_) <= 1
    BY <1>2, <1>3
  <2>2. d.is_initialized_ => d.port = "kConfigured"
    BY <1>2, <1>4 DEF Room
  <2> QED
    BY <2>1, <2>2, <1>2, <1>3, <1>4 DEF Room, SameButQueues
<1>9. PortStep /\ PollStep /\ d'.buf_ = d.buf_ /\ d'.previous_buf_ = d.previous_buf_
  BY <1>2, <1>3 DEF PortStep, PollStep, SameButQueues
<1> QED
  BY <1>2, <1>3, <1>5, <1>6, <1>7, <1>8, <1>9, ControlDone

\* The first answer to the class driver starts the polling.
Polling(s) == InterruptIn([s EXCEPT !.hid_phase = 2])

LEMMA PollingStarts ==
  ASSUME UsbAssumption, IInv, ControlFrame, Head(events).ok, command' = command,
         d.is_initialized_, d.hid_phase = 1,
         NEW x, x = Head(events).position, d' = Polling(Forget(d, x))
  PROVE  IInv'
<1> USE DEF IInv
<1>1. PICK s : s = Forget(d, x)
  OBVIOUS
<1>2. /\ s \in DeviceState /\ SameButQueues(d, s) /\ s.pushed = d.pushed /\ s.ep0 = d.ep0
      /\ PositionsOf(s) /\ RoutedOf(s) /\ WindowOf(s, Low)
      /\ \A k \in 1..Len(events') : Completed(k)' => Leads(s.setup_stage_map_, events'[k].position)
  BY <1>1, RequestTaken
<1>3. pc = "idle" /\ pc' = "idle" /\ configuration' = configuration /\ todo' = todo
  BY DEF ControlFrame, Handles
<1>4. d.port = "kConfigured" /\ d.ep_interrupt_in_ \in d.rings
  BY <1>3 DEF SetUpOrder
<1>5. PICK t : t = [s EXCEPT !.hid_phase = 2]
  OBVIOUS
<1>6. /\ t \in DeviceState /\ SameSetUp(d, t) /\ SameQueues(s, t)
      /\ t.hid_phase = 2 /\ t.normals = d.normals
      /\ t.buf_ = d.buf_ /\ t.previous_buf_ = d.previous_buf_
  <2>1. 2 \in 0..2
    OBVIOUS
  <2>2. t \in DeviceState /\ t.hid_phase = 2
    BY <1>2, <1>5, <2>1 DEF DeviceState
  <2>3. SameSetUp(s, t) /\ SameQueues(s, t)
    BY <1>2, <1>5 DEF DeviceState, SameSetUp, SameQueues
  <2>4. t.normals = s.normals /\ t.buf_ = s.buf_ /\ t.previous_buf_ = s.previous_buf_
    BY <1>2, <1>5 DEF DeviceState
  <2> QED
    BY <2>2, <2>3, <2>4, <1>2 DEF SameButQueues, SameSetUp
<1>7. /\ d' \in DeviceState /\ SameSetUp(d, d') /\ SameQueues(s, d')
      /\ d'.hid_phase = 2 /\ d'.normals = d.normals + 1
      /\ d'.buf_ = d.buf_ /\ d'.previous_buf_ = d.previous_buf_
  <2>1. d.normals \in Nat /\ d.normals + 1 \in Nat
    BY DEF TypeOK, DeviceState
  <2>2. d' = [t EXCEPT !.normals = t.normals + 1]
    BY <1>1, <1>4, <1>5, <1>6 DEF Polling, InterruptIn, SameSetUp
  <2>3. d' = [t EXCEPT !.normals = d.normals + 1]
    BY <2>2, <1>6
  <2>4. d' \in DeviceState /\ d'.normals = d.normals + 1 /\ d'.hid_phase = t.hid_phase
    BY <2>1, <2>3, <1>6, ZenonT(30) DEF DeviceState
  <2>5. /\ SameSetUp(t, d') /\ SameQueues(t, d')
        /\ d'.buf_ = t.buf_ /\ d'.previous_buf_ = t.previous_buf_
    BY <2>3, <1>6 DEF DeviceState, SameSetUp, SameQueues
  <2> QED
    BY <2>4, <2>5, <1>6 DEF SameSetUp, SameQueues
<1>8. SetUpOrder'
  BY <1>3, <1>4, <1>7 DEF SetUpOrder, SameSetUp
<1>9. SetUpStored'
  BY <1>3, <1>7, StoredKept
<1>10. PositionsOf(d)' /\ RoutedOf(d)' /\ Window'
  <2>1. PICK u : u = d'
    OBVIOUS
  <2>2. /\ u.pushed = s.pushed /\ u.ep0 = s.ep0 /\ u.setup_stage_map_ = s.setup_stage_map_
        /\ u.event_waiters_ = s.event_waiters_ /\ u.ring = s.ring
    BY <2>1, <1>7 DEF SameQueues
  <2>3. PositionsOf(u)
    BY <2>2, <1>2 DEF PositionsOf, MappedOK
  <2>4. RoutedOf(u)
    BY <2>2, <1>2 DEF RoutedOf
  <2>5. PositionsOf(d)'
    BY <2>1, <2>3 DEF PositionsOf, MappedOK
  <2>6. RoutedOf(d)'
    BY <2>1, <2>4 DEF RoutedOf
  <2>7. Window'
    BY <2>1, <2>2, <1>2, WindowBehind
  <2> QED
    BY <2>5, <2>6, <2>7
<1>11. Room'
  BY <1>2, <1>3, <1>4, <1>7, ZenonT(30) DEF Room, SameSetUp, SameQueues, SameButQueues
<1>12. PortStep /\ PollStep
  BY <1>7 DEF PortStep, PollStep, SameSetUp
<1>13. d'.pushed - Len(d'.ep0) = d.pushed - Len(d.ep0) /\ d'.setup_stage_map_ = s.setup_stage_map_
  BY <1>2, <1>7 DEF SameQueues
<1> QED
  BY <1>2, <1>7, <1>8, <1>9, <1>10, <1>11, <1>12, <1>13, ControlDone

\* The set-up goes on with the next request; the map holds no other.
LEMMA NextRequest ==
  ASSUME UsbAssumption, IInv, ControlFrame, Head(events).ok, command' = command,
         ~d.is_initialized_, NEW x, x = Head(events).position, NEW s, s = Forget(d, x),
         NEW t \in DeviceState, SameQueues(s, t), ~t.is_initialized_,
         t.port = d.port, t.hid_phase = d.hid_phase, t.normals = d.normals,
         t.buf_ = d.buf_, t.previous_buf_ = d.previous_buf_, t.initialize_phase_ \in {2, 3},
         t.initialize_phase_ = 3 =>
           /\ Supported # {} /\ t.driver = FirstSupported
           /\ t.ep_configs_ = configuration[t.driver].endpoints
           /\ t.class_drivers_ = Numbers(t.ep_configs_),
         NEW request \in Requests, request # "SetProtocol", d' = Control(t, request)
  PROVE  IInv'
<1> USE DEF IInv
<1>1. /\ s \in DeviceState /\ SameButQueues(d, s) /\ s.pushed = d.pushed /\ s.ep0 = d.ep0
      /\ PositionsOf(s) /\ RoutedOf(s)
      /\ s.setup_stage_map_ = <<>>
      /\ \A k \in 1..Len(events') : ~Completed(k)'
  BY RequestTaken
<1>2. pc = "idle" /\ pc' = "idle" /\ configuration' = configuration /\ todo' = todo
  BY DEF ControlFrame, Handles
<1>3. d.port = "kInitializingDevice" /\ d.hid_phase = 0
  BY <1>2 DEF SetUpOrder, OneCommand
<1>4. PositionsOf(t) /\ RoutedOf(t) /\ Len(t.setup_stage_map_) = 0 /\ t.setup_stage_map_ = <<>>
  <2>1. /\ t.pushed = s.pushed /\ t.ep0 = s.ep0 /\ t.setup_stage_map_ = s.setup_stage_map_
        /\ t.event_waiters_ = s.event_waiters_ /\ t.ring = s.ring
    BY DEF SameQueues
  <2>2. PositionsOf(t)
    BY <1>1, <2>1 DEF PositionsOf, MappedOK
  <2>3. RoutedOf(t)
    BY <1>1, <2>1 DEF RoutedOf
  <2>4. Len(t.setup_stage_map_) = 0
    BY <1>1, <2>1
  <2> QED
    BY <2>1, <2>2, <2>3, <2>4, <1>1
\* At most a status stage is left before the request.
<1>4a. PICK low \in Int : /\ low = (t.pushed + Len(Stages(request))) - RingSlots
                          /\ WindowOf(t, low)
  <2>1. Len(t.ep0) \in Nat /\ Len(t.ep0) <= 1
    BY <1>4, EmptyMap
  <2>2. PICK n : n = Len(Stages(request))
    OBVIOUS
  <2>3. n \in {2, 3}
    BY <2>2, StagesOf
  <2>4. t.pushed \in Nat /\ RingSlots \in Nat /\ RingSlots >= 4
    BY DEF DeviceState, UsbAssumption
  <2>5. PICK low : low = (t.pushed + n) - RingSlots
    OBVIOUS
  <2>6. low \in Int /\ low <= t.pushed - Len(t.ep0)
    BY <2>1, <2>3, <2>4, <2>5
  <2>7. WindowOf(t, low)
    BY <2>6, <1>4 DEF WindowOf
  <2> QED
    BY <2>2, <2>5, <2>6, <2>7
<1>5. PICK r : r = Control(t, request)
  OBVIOUS
<1>6. /\ r \in DeviceState /\ SameButQueues(t, r)
      /\ PositionsOf(r) /\ RoutedOf(r) /\ WindowOf(r, low)
      /\ r.pushed = t.pushed + Len(Stages(request))
      /\ Len(r.setup_stage_map_) = Len(t.setup_stage_map_) + 1
      /\ r.pushed - Len(r.ep0) = t.pushed - Len(t.ep0)
  <2>1. Len(t.setup_stage_map_) < MaxSetupStages
    BY <1>4 DEF UsbAssumption
  <2>2. /\ (t.pushed + Len(Stages(request))) - RingSlots <= low
        /\ request = "SetProtocol" => Has(t.event_waiters_, "SetProtocol")
    <3>1. t.pushed + Len(Stages(request)) \in Int /\ RingSlots \in Nat
      BY StagesOf DEF DeviceState, UsbAssumption
    <3> QED
      BY <3>1, <1>4a
  <2>3. Ready(t, request, low)
    BY <2>1, <2>2, <1>4, <1>4a DEF Ready
  <2>4. Requested(t, request, low, r)
    BY <2>3, <1>4a, <1>5, ControlEffect
  <2> QED
    BY <2>4 DEF Requested
<1>7. d' = r
  BY <1>5
<1>8. SetUpOrder'
  BY <1>2, <1>3, <1>6, <1>7 DEF SetUpOrder, SameButQueues
<1>9. SetUpStored'
  <2>1. Supported' = Supported
    BY <1>2 DEF Supported
  <2>2. FirstSupported' = FirstSupported
    BY <2>1 DEF FirstSupported
  <2> QED
    BY <2>1, <2>2, <1>2, <1>3, <1>6, <1>7 DEF SetUpStored, SameButQueues
<1>10. PositionsOf(d)' /\ RoutedOf(d)' /\ Window'
  <2>1. PositionsOf(d)' /\ RoutedOf(d)'
    BY <1>6, <1>7, SMTT(30) DEF PositionsOf, RoutedOf, MappedOK
  <2>2. Low' = low
    <3>1. Low' = (d'.pushed - RingSlots) + 0
      BY <1>2 DEF Low, Reserve
    <3>2. d'.pushed \in Nat /\ RingSlots \in Nat
      BY <1>6, <1>7 DEF DeviceState, UsbAssumption
    <3>3. d'.pushed = t.pushed + Len(Stages(request))
      BY <1>6, <1>7
    <3> QED
      BY <3>1, <3>2, <3>3, <1>4a
  <2> QED
    BY <2>1, <2>2, <1>6, <1>7 DEF Window
<1>11. Room'
  <2>1. Len(d'.setup_stage_map_) = 1
    BY <1>4, <1>6, <1>7
  <2> QED
    BY <2>1, <1>1, <1>2, <1>6, <1>7 DEF Room, SameButQueues, SameQueues
<1>12. PortStep /\ PollStep /\ d'.buf_ = d.buf_ /\ d'.previous_buf_ = d.previous_buf_
  BY <1>6, <1>7 DEF PortStep, PollStep, SameButQueues
<1>13. d'.pushed - Len(d'.ep0) = d.pushed - Len(d.ep0)
  BY <1>1, <1>6, <1>7 DEF SameQueues
<1> QED
  BY <1>1, <1>6, <1>7, <1>8, <1>9, <1>10, <1>11, <1>12, <1>13, ControlDone

\* Phase 3 ends the set-up: the device is initialized and its endpoints get
\* their rings in the same step.
LEMMA SetUpEnds ==
  ASSUME UsbAssumption, IInv, ControlFrame, Head(events).ok, command' = TRUE,
         ~d.is_initialized_, d.initialize_phase_ = 3,
         NEW x, x = Head(events).position,
         d' = ConfigureEndpoints(InitializePhase3(Forget(d, x)))
  PROVE  IInv'
<1> USE DEF IInv
<1>1. PICK s : s = Forget(d, x)
  OBVIOUS
<1>2. /\ s \in DeviceState /\ SameButQueues(d, s) /\ s.pushed = d.pushed /\ s.ep0 = d.ep0
      /\ PositionsOf(s) /\ RoutedOf(s) /\ WindowOf(s, Low) /\ s.setup_stage_map_ = <<>>
      /\ \A k \in 1..Len(events') : ~Completed(k)'
  BY <1>1, RequestTaken
<1>3. pc = "idle" /\ pc' = "idle" /\ configuration' = configuration /\ todo' = todo
  BY DEF ControlFrame, Handles
<1>4. d.port = "kInitializingDevice" /\ d.hid_phase = 0
  BY <1>3 DEF SetUpOrder, OneCommand
<1>5. LastIn(d.ep_configs_) \in ToSet(d.ep_configs_) /\ LastIn(d.ep_configs_) \in Endpoint
  BY InterruptEndpoint
<1>6. PICK ep : ep = LastIn(d.ep_configs_)
  OBVIOUS
<1>7. PICK t : t = InitializePhase3(s)
  OBVIOUS
<1>8. /\ t \in DeviceState /\ SameQueues(s, t) /\ t.is_initialized_ /\ t.initialize_phase_ = 4
      /\ t.ep_interrupt_in_ = ep /\ t.ep_configs_ = d.ep_configs_ /\ t.driver = d.driver
      /\ t.class_drivers_ = d.class_drivers_ /\ t.rings = d.rings /\ t.hid_phase = d.hid_phase
      /\ t.normals = d.normals /\ t.buf_ = d.buf_ /\ t.previous_buf_ = d.previous_buf_
  <2>1. s.ep_configs_ = d.ep_configs_
    BY <1>2 DEF SameButQueues
  <2>2. t = [s EXCEPT !.ep_interrupt_in_ = ep, !.initialize_phase_ = 4, !.is_initialized_ = TRUE]
    BY <2>1, <1>6, <1>7 DEF InitializePhase3
  <2>3. ep \in Endpoint \cup {NoEp} /\ 4 \in 0..4
    BY <1>5, <1>6
  <2>4. t \in DeviceState
    BY <2>2, <2>3, <1>2 DEF DeviceState
  <2>5. /\ SameQueues(s, t) /\ t.is_initialized_ /\ t.initialize_phase_ = 4
        /\ t.ep_interrupt_in_ = ep
    BY <2>2, <1>2 DEF DeviceState, SameQueues
  <2>6. /\ t.ep_configs_ = s.ep_configs_ /\ t.driver = s.driver
        /\ t.class_drivers_ = s.class_drivers_ /\ t.rings = s.rings /\ t.hid_phase = s.hid_phase
        /\ t.normals = s.normals /\ t.buf_ = s.buf_ /\ t.previous_buf_ = s.previous_buf_
    BY <2>2, <1>2 DEF DeviceState
  <2> QED
    BY <2>4, <2>5, <2>6, <1>2 DEF SameButQueues
<1>9. d.ep_configs_ \in Seq(Endpoint) /\ ToSet(d.ep_configs_) \subseteq Endpoint
  <2>1. d.ep_configs_ \in Seq(Endpoint)
    BY DEF TypeOK, DeviceState
  <2>2. DOMAIN d.ep_configs_ = 1..Len(d.ep_configs_)
    BY <2>1, LenProperties
  <2> QED
    BY <2>1, <2>2, ElementOfSeq DEF ToSet
<1>10. PICK rings : rings = d.rings \cup ToSet(d.ep_configs_)
  OBVIOUS
<1>11. /\ d' \in DeviceState /\ SameQueues(s, d') /\ d'.is_initialized_ /\ d'.initialize_phase_ = 4
       /\ d'.ep_interrupt_in_ = ep /\ d'.ep_configs_ = d.ep_configs_ /\ d'.driver = d.driver
       /\ d'.class_drivers_ = d.class_drivers_ /\ d'.hid_phase = d.hid_phase
       /\ d'.normals = d.normals /\ d'.buf_ = d.buf_ /\ d'.previous_buf_ = d.previous_buf_
       /\ d'.rings = rings /\ d'.port = "kConfiguringEndpoints"
  <2>1. d' = [t EXCEPT !.rings = rings, !.port = "kConfiguringEndpoints"]
    BY <1>1, <1>7, <1>8, <1>10 DEF ConfigureEndpoints
  <2>2. rings \in SUBSET (Endpoint \cup {Ep0})
    BY <1>9, <1>10 DEF TypeOK, DeviceState
  <2>3. d' \in DeviceState
    BY <2>1, <2>2, <1>8, ZenonT(40) DEF DeviceState
  <2>4. /\ SameQueues(t, d') /\ d'.is_initialized_ = t.is_initialized_
        /\ d'.initialize_phase_ = t.initialize_phase_ /\ d'.ep_interrupt_in_ = t.ep_interrupt_in_
        /\ d'.rings = rings /\ d'.port = "kConfiguringEndpoints"
    BY <2>1, <1>8 DEF DeviceState, SameQueues
  <2>5. /\ d'.ep_configs_ = t.ep_configs_ /\ d'.driver = t.driver
        /\ d'.class_drivers_ = t.class_drivers_ /\ d'.hid_phase = t.hid_phase
        /\ d'.normals = t.normals /\ d'.buf_ = t.buf_ /\ d'.previous_buf_ = t.previous_buf_
    BY <2>1, <1>8 DEF DeviceState
  <2> QED
    BY <2>3, <2>4, <2>5, <1>8 DEF SameQueues
<1>12. SetUpOrder'
  BY <1>4, <1>11 DEF SetUpOrder
<1>13. SetUpStored'
  <2>1. Supported' = Supported
    BY <1>3 DEF Supported
  <2>2. FirstSupported' = FirstSupported
    BY <2>1 DEF FirstSupported
  <2>3. /\ Supported # {} /\ d.driver = FirstSupported
        /\ d.ep_configs_ = configuration[d.driver].endpoints
        /\ d.class_drivers_ = Numbers(d.ep_configs_)
    BY DEF SetUpStored
  <2> QED
    BY <2>1, <2>2, <2>3, <1>3, <1>6, <1>10, <1>11 DEF SetUpStored
<1>14. PositionsOf(d)' /\ RoutedOf(d)' /\ Window'
  <2>1. PICK u : u = d'
    OBVIOUS
  <2>2. /\ u.pushed = s.pushed /\ u.ep0 = s.ep0 /\ u.setup_stage_map_ = s.setup_stage_map_
        /\ u.event_waiters_ = s.event_waiters_ /\ u.ring = s.ring
    BY <2>1, <1>11 DEF SameQueues
  <2>3. PositionsOf(u)
    BY <2>2, <1>2 DEF PositionsOf, MappedOK
  <2>4. RoutedOf(u)
    BY <2>2, <1>2 DEF RoutedOf
  <2>5. PositionsOf(d)'
    BY <2>1, <2>3 DEF PositionsOf, MappedOK
  <2>6. RoutedOf(d)'
    BY <2>1, <2>4 DEF RoutedOf
  <2>7. Window'
    BY <2>1, <2>2, <1>2, WindowBehind
  <2> QED
    BY <2>5, <2>6, <2>7
<1>15. Room'
  BY <1>2, <1>3, <1>11 DEF Room, SameQueues, SameButQueues
<1>16. PortStep /\ PollStep
  BY <1>4, <1>11 DEF PortStep, PollStep
<1>17. d'.pushed - Len(d'.ep0) = d.pushed - Len(d.ep0)
  BY <1>2, <1>11 DEF SameQueues
<1> QED
  BY <1>2, <1>11, <1>12, <1>13, <1>14, <1>15, <1>16, <1>17, ControlDone

LEMMA CompletedCases ==
  ASSUME NEW s, NEW request, NEW content, NEW n, n = OnControlCompleted(s, request, content)
  PROVE  \/ n = s
         \/ s.is_initialized_ /\ n = HidOnControlCompleted(s)
         \/ ~s.is_initialized_ /\ s.initialize_phase_ = 1 /\ n = InitializePhase1(s)
         \/ ~s.is_initialized_ /\ s.initialize_phase_ = 2 /\ n = InitializePhase2(s)
         \/ ~s.is_initialized_ /\ s.initialize_phase_ = 3 /\ n = InitializePhase3(s)
BY DEF OnControlCompleted

\* A request does not end the set-up by itself.
LEMMA ControlKeeps ==
  ASSUME NEW t \in DeviceState, NEW request, NEW n, n = Control(t, request)
  PROVE  n.is_initialized_ = t.is_initialized_ /\ n.port = t.port
<1>1. PICK p, w : p = RequestBlocks(t, request) /\ w = Written(t, request)
  OBVIOUS
<1>2. PICK m : m = Put(t.setup_stage_map_, MaxSetupStages, Place(t.pushed + 2), t.pushed + 1)
  OBVIOUS
<1>3. n = [t EXCEPT !.pushed = t.pushed + Len(p), !.ep0 = t.ep0 \o p, !.ring = w,
                    !.setup_stage_map_ = m]
  BY <1>1, <1>2 DEF Control, RequestBlocks
<1> QED
  BY <1>3 DEF DeviceState

LEMMA Phase1Step ==
  ASSUME UsbAssumption, IInv, ControlFrame, Head(events).ok, command' = command,
         ~d.is_initialized_, NEW x, x = Head(events).position,
         d' = InitializePhase1(Forget(d, x))
  PROVE  IInv'
<1>1. PICK s : s = Forget(d, x)
  OBVIOUS
<1>2. s \in DeviceState /\ SameButQueues(d, s)
  BY <1>1, RequestTaken
<1>3. PICK t : t = [s EXCEPT !.initialize_phase_ = 2]
  OBVIOUS
<1>4. /\ t \in DeviceState /\ SameQueues(s, t) /\ ~t.is_initialized_ /\ t.initialize_phase_ = 2
      /\ t.port = d.port /\ t.hid_phase = d.hid_phase /\ t.normals = d.normals
      /\ t.buf_ = d.buf_ /\ t.previous_buf_ = d.previous_buf_
  <2> 2 \in 0..4
    OBVIOUS
  <2>1. t \in DeviceState /\ t.initialize_phase_ = 2
    BY <1>2, <1>3 DEF DeviceState
  <2>2. /\ SameQueues(s, t) /\ t.is_initialized_ = s.is_initialized_
        /\ t.port = s.port /\ t.hid_phase = s.hid_phase /\ t.normals = s.normals
        /\ t.buf_ = s.buf_ /\ t.previous_buf_ = s.previous_buf_
    BY <1>2, <1>3 DEF DeviceState, SameQueues
  <2> QED
    BY <2>1, <2>2, <1>2 DEF SameButQueues
<1>5. PICK request : request = "GetDescriptor(Configuration)"
  OBVIOUS
<1>6. request \in Requests /\ request # "SetProtocol" /\ d' = Control(t, request)
  BY <1>1, <1>3, <1>5 DEF Requests, InitializePhase1
<1>7. t.initialize_phase_ \in {2, 3} /\ t.initialize_phase_ # 3
  BY <1>4
<1> QED
  BY <1>1, <1>4, <1>6, <1>7, NextRequest

LEMMA Phase2Step ==
  ASSUME UsbAssumption, IInv, ControlFrame, Head(events).ok, command' = command,
         ~d.is_initialized_, Supported # {}, NEW x, x = Head(events).position,
         d' = InitializePhase2(Forget(d, x))
  PROVE  IInv'
<1>1. PICK s : s = Forget(d, x)
  OBVIOUS
<1>2. s \in DeviceState /\ SameButQueues(d, s)
  BY <1>1, RequestTaken
<1>3. PICK first : first = FirstSupported
  OBVIOUS
<1>4. PICK eps : eps = configuration[first].endpoints
  OBVIOUS
<1>5. PICK numbers : numbers = Numbers(eps)
  OBVIOUS
<1>6. first \in Nat /\ eps \in Seq(Endpoint) /\ numbers \in SUBSET (1..15)
  <2>1. first \in 1..Len(configuration) /\ configuration[first] \in Interface
    BY <1>3, FirstSupportedExists DEF IInv, StateTyped
  <2>2. eps \in Seq(Endpoint)
    BY <2>1, <1>4 DEF Interface
  <2>3. \A n \in 1..Len(eps) : eps[n] \in Endpoint
    BY <2>2, ElementOfSeq
  <2>4. \A n \in 1..Len(eps) : eps[n].number \in 1..15
    BY <2>3 DEF Endpoint
  <2>5. numbers \in SUBSET (1..15)
    BY <2>4, <1>5 DEF Numbers
  <2> QED
    BY <2>1, <2>2, <2>5
<1>7. PICK t : t = [s EXCEPT !.driver = first, !.ep_configs_ = eps, !.class_drivers_ = numbers,
                             !.initialize_phase_ = 3]
  OBVIOUS
<1>8. /\ t \in DeviceState /\ SameQueues(s, t) /\ ~t.is_initialized_ /\ t.initialize_phase_ = 3
      /\ t.port = d.port /\ t.hid_phase = d.hid_phase /\ t.normals = d.normals
      /\ t.buf_ = d.buf_ /\ t.previous_buf_ = d.previous_buf_
      /\ t.driver = first /\ t.ep_configs_ = eps /\ t.class_drivers_ = numbers
  <2> 3 \in 0..4
    OBVIOUS
  <2>1. t \in DeviceState
    BY <1>2, <1>6, <1>7 DEF DeviceState
  <2>2. /\ t.initialize_phase_ = 3
        /\ t.driver = first /\ t.ep_configs_ = eps /\ t.class_drivers_ = numbers
    BY <1>2, <1>7 DEF DeviceState
  <2>3. /\ SameQueues(s, t) /\ t.is_initialized_ = s.is_initialized_
        /\ t.port = s.port /\ t.hid_phase = s.hid_phase /\ t.normals = s.normals
        /\ t.buf_ = s.buf_ /\ t.previous_buf_ = s.previous_buf_
    BY <1>2, <1>7 DEF DeviceState, SameQueues
  <2> QED
    BY <2>1, <2>2, <2>3, <1>2 DEF SameButQueues
<1>9. PICK request : request = "SetConfiguration"
  OBVIOUS
<1>10. request \in Requests /\ request # "SetProtocol" /\ d' = Control(t, request)
  BY <1>1, <1>3, <1>4, <1>5, <1>7, <1>9 DEF Requests, InitializePhase2
<1>11. /\ t.initialize_phase_ \in {2, 3}
       /\ Supported # {} /\ t.driver = FirstSupported
       /\ t.ep_configs_ = configuration[t.driver].endpoints
       /\ t.class_drivers_ = Numbers(t.ep_configs_)
  BY <1>3, <1>4, <1>5, <1>8
<1> QED
  BY <1>1, <1>8, <1>10, <1>11, NextRequest

LEMMA OnControlEventStep ==
  ASSUME UsbAssumption, IInv, OnControlEvent
  PROVE  IInv'
<1>1. PICK x : x = Head(events).position
  OBVIOUS
<1>1a. PICK request : request = d.ring[Place(Get(d.setup_stage_map_, Place(x)))]
  OBVIOUS
<1>2. PICK next : next = IF Head(events).ok /\ Has(d.setup_stage_map_, Place(x))
                         THEN OnControlCompleted(Forget(d, x), request, dma)
                         ELSE d
  OBVIOUS
<1>3. PICK done : done = (Head(events).ok /\ next.is_initialized_ /\ next.port = "kInitializingDevice")
  OBVIOUS
<1>4. d' = (IF done THEN ConfigureEndpoints(next) ELSE next) /\ command' = (command \/ done)
  BY <1>1, <1>1a, <1>2, <1>3 DEF OnControlEvent, Forget
<1>5. ControlFrame
  <2>1. command' \in BOOLEAN
    BY <1>4, <1>3 DEF IInv, TypeOK
  <2> QED
    BY <2>1 DEF OnControlEvent, ControlFrame, deviceVars, historyVars
<1>6. command \in BOOLEAN /\ d.is_initialized_ \in BOOLEAN /\ d \in DeviceState
  BY DEF IInv, TypeOK, DeviceState
<1>7. CASE ~Head(events).ok
  <2>1. next = d /\ ~done
    BY <1>2, <1>3, <1>7
  <2>2. d' = d /\ command' = command
    BY <2>1, <1>4, <1>6
  <2>3. pc' = pc /\ todo' = todo /\ configuration' = configuration
    BY <1>5 DEF ControlFrame
  <2>4. SetUpOrder' /\ Room'
    BY <2>2, <2>3 DEF IInv, SetUpOrder, Room
  <2>5. SetUpStored' /\ PositionsOf(d)' /\ RoutedOf(d)' /\ Window'
    BY <2>2, <2>3, StoredKept, QueuesKept DEF IInv, SameSetUp, SameQueues
  <2>6. \A k \in 1..Len(events') : Completed(k)' => Leads(d'.setup_stage_map_, events'[k].position)
    <3>1. events # <<>> /\ events' = Tail(events) /\ StateTyped
      BY <1>5 DEF ControlFrame, Handles, IInv
    <3>2. \A k \in 1..Len(events') : k + 1 \in 1..Len(events) /\ events'[k] = events[k + 1]
      BY <3>1, Popped
    <3> QED
      BY <3>2, <2>2 DEF IInv, CompletedOK, Completed
  <2>7. PortStep /\ PollStep
    BY <2>2 DEF PortStep, PollStep
  <2> QED
    BY <2>2, <2>4, <2>5, <2>6, <2>7, <1>5, <1>6, ControlDone
<1>8. CASE Head(events).ok
  <2>1. PICK s : s = Forget(d, x)
    OBVIOUS
  <2>2. s \in DeviceState /\ SameButQueues(d, s) /\ Has(d.setup_stage_map_, Place(x))
    BY <2>1, <1>1, <1>5, <1>8, RequestTaken
  <2>3. s.is_initialized_ = d.is_initialized_ /\ s.port = d.port /\ s.hid_phase = d.hid_phase
        /\ s.initialize_phase_ = d.initialize_phase_
    BY <2>2 DEF SameButQueues
  <2>4. next = OnControlCompleted(s, request, dma)
    BY <2>1, <2>2, <1>2, <1>8
  <2>5. d.is_initialized_ <=> d.port # "kInitializingDevice"
    BY DEF IInv, SetUpOrder, SetUpStored
  <2>6. ASSUME next.is_initialized_ = d.is_initialized_, next.port = d.port
        PROVE  d' = next /\ command' = command
    <3>1. ~done
      BY <2>5, <2>6, <1>3
    <3> QED
      BY <3>1, <1>4, <1>6
  <2>7. CASE next = s
    BY <2>1, <2>3, <2>6, <2>7, <1>1, <1>5, <1>8, NothingMore
  <2>8. CASE d.is_initialized_ /\ next = HidOnControlCompleted(s)
    <3>1. CASE s.hid_phase = 1
      <4>1. next = Polling(s)
        BY <2>8, <3>1 DEF HidOnControlCompleted, Polling
      <4>2. next.is_initialized_ = s.is_initialized_ /\ next.port = s.port
        BY <4>1, <2>2 DEF Polling, InterruptIn, DeviceState
      <4>3. d' = Polling(Forget(d, x)) /\ command' = command
        BY <4>1, <4>2, <2>1, <2>3, <2>6
      <4> QED
        BY <4>3, <3>1, <2>3, <2>8, <1>1, <1>5, <1>8, PollingStarts
    <3>2. CASE s.hid_phase # 1
      BY <3>2, <2>7, <2>8 DEF HidOnControlCompleted
    <3> QED
      BY <3>1, <3>2
  <2>9. CASE ~d.is_initialized_ /\ next = InitializePhase1(s)
    <3>1. PICK t : t = [s EXCEPT !.initialize_phase_ = 2]
      OBVIOUS
    <3>2. t \in DeviceState /\ t.is_initialized_ = s.is_initialized_ /\ t.port = s.port
      <4>1. 2 \in 0..4
        OBVIOUS
      <4> QED
        BY <4>1, <3>1, <2>2 DEF DeviceState
    <3>3. next = Control(t, "GetDescriptor(Configuration)")
      BY <3>1, <2>9 DEF InitializePhase1
    <3>4. next.is_initialized_ = t.is_initialized_ /\ next.port = t.port
      BY <3>2, <3>3, ControlKeeps
    <3>5. d' = InitializePhase1(Forget(d, x)) /\ command' = command
      BY <3>2, <3>4, <2>1, <2>3, <2>6, <2>9
    <3> QED
      BY <3>5, <2>9, <1>1, <1>5, <1>8, Phase1Step
  <2>10. CASE ~d.is_initialized_ /\ next = InitializePhase2(s)
    <3>1. CASE Supported = {}
      BY <3>1, <2>7, <2>10 DEF InitializePhase2
    <3>2. CASE Supported # {}
      <4>1. next = Control([s EXCEPT !.driver = FirstSupported,
                                     !.ep_configs_ = configuration[FirstSupported].endpoints,
                                     !.class_drivers_ = Numbers(configuration[FirstSupported].endpoints),
                                     !.initialize_phase_ = 3], "SetConfiguration")
        BY <3>2, <2>10 DEF InitializePhase2
      <4>2. next.is_initialized_ = s.is_initialized_ /\ next.port = s.port
        BY <4>1, <2>2 DEF Control, DeviceState
      <4>3. d' = InitializePhase2(Forget(d, x)) /\ command' = command
        BY <4>2, <2>1, <2>3, <2>6, <2>10
      <4> QED
        BY <4>3, <3>2, <2>10, <1>1, <1>5, <1>8, Phase2Step
    <3> QED
      BY <3>1, <3>2
  <2>11. CASE ~d.is_initialized_ /\ d.initialize_phase_ = 3 /\ next = InitializePhase3(s)
    <3>1. next.is_initialized_ /\ next.port = s.port
      BY <2>2, <2>11 DEF InitializePhase3, DeviceState
    <3>2. done
      BY <3>1, <2>3, <2>5, <2>11, <1>3, <1>8
    <3>3. d' = ConfigureEndpoints(InitializePhase3(Forget(d, x))) /\ command' = TRUE
      BY <3>2, <2>1, <2>11, <1>4, <1>6
    <3> QED
      BY <3>3, <2>11, <1>1, <1>5, <1>8, SetUpEnds
  <2> QED
    BY <2>3, <2>4, <2>7, <2>8, <2>9, <2>10, <2>11, CompletedCases
<1> QED
  BY <1>7, <1>8

-----------------------------------------------------------------------------
(* The theorems *)

LEMMA InitEstablishes ==
  ASSUME UsbAssumption, Init
  PROVE  IInv
<1>1. PICK s : s = [is_initialized_ |-> FALSE, initialize_phase_ |-> 0, ep_configs_ |-> <<>>,
            driver |-> 0, class_drivers_ |-> {}, event_waiters_ |-> <<>>,
            setup_stage_map_ |-> <<>>, hid_phase |-> 0, ep_interrupt_in_ |-> NoEp,
            buf_ |-> {}, previous_buf_ |-> {}, port |-> "kInitializingDevice",
            rings |-> {Ep0}, pushed |-> 0, ep0 |-> <<>>,
            ring |-> [p \in Places |-> "none"], normals |-> 0]
  OBVIOUS
<1>2. /\ configuration \in Configurations /\ d = StartInitialize(s)
      /\ pc = "idle" /\ todo = {} /\ command = FALSE /\ events = <<>>
      /\ halted = {} /\ report = {} /\ previous = {} /\ notified = {} /\ reports = 0
  BY <1>1 DEF Init
<1>3. PICK t : t = [s EXCEPT !.is_initialized_ = FALSE, !.initialize_phase_ = 1]
  OBVIOUS
<1>4. /\ t.is_initialized_ = FALSE /\ t.initialize_phase_ = 1 /\ t.hid_phase = 0
      /\ t.port = "kInitializingDevice" /\ t.normals = 0 /\ t.pushed = 0 /\ t.ep0 = <<>>
      /\ t.buf_ = {} /\ t.previous_buf_ = {} /\ t.event_waiters_ = <<>>
      /\ t.setup_stage_map_ = <<>>
  BY <1>1, <1>3
<1>5. t \in DeviceState
  <2>1. t = [is_initialized_ |-> FALSE, initialize_phase_ |-> 1, ep_configs_ |-> <<>>,
            driver |-> 0, class_drivers_ |-> {}, event_waiters_ |-> <<>>,
            setup_stage_map_ |-> <<>>, hid_phase |-> 0, ep_interrupt_in_ |-> NoEp,
            buf_ |-> {}, previous_buf_ |-> {}, port |-> "kInitializingDevice",
            rings |-> {Ep0}, pushed |-> 0, ep0 |-> <<>>,
            ring |-> [p \in Places |-> "none"], normals |-> 0]
    BY <1>1, <1>3
  <2>2. 1 \in 0..4 /\ 0 \in 0..2
    OBVIOUS
  <2>3. \A S : <<>> \in Seq(S)
    OBVIOUS
  <2> QED
    BY <2>1, <2>2, <2>3 DEF DeviceState
<1>6. PositionsOf(t) /\ RoutedOf(t)
  BY <1>4 DEF PositionsOf, RoutedOf, Distinct
<1>6a. PICK low \in Int : low = 3 - RingSlots /\ low <= 0 /\ WindowOf(t, low)
  <2>1. RingSlots \in Nat /\ RingSlots >= 4
    BY DEF UsbAssumption
  <2>2. PICK low : low = 3 - RingSlots
    OBVIOUS
  <2>3. low \in Int /\ low <= 0
    BY <2>1, <2>2
  <2>4. Len(t.ep0) = 0 /\ Len(t.setup_stage_map_) = 0 /\ t.pushed - 0 = 0
    BY <1>4
  <2>5. WindowOf(t, low)
    BY <2>3, <2>4 DEF WindowOf
  <2> QED
    BY <2>2, <2>3, <2>5
<1>7. PICK r : r = Control(t, "GetDescriptor(Device)")
  OBVIOUS
<1>8. /\ r \in DeviceState /\ SameButQueues(t, r) /\ PositionsOf(r) /\ RoutedOf(r)
      /\ WindowOf(r, low) /\ r.pushed = 3
      /\ Len(r.setup_stage_map_) = Len(t.setup_stage_map_) + 1
  <2>1. PICK request : request = "GetDescriptor(Device)"
    OBVIOUS
  <2>2. request \in Requests /\ request # "SetProtocol" /\ r = Control(t, request)
    BY <2>1, <1>7 DEF Requests
  <2>3. Len(t.setup_stage_map_) < MaxSetupStages
    BY <1>4 DEF UsbAssumption
  <2>4. Len(Stages(request)) = 3
    BY <2>1 DEF Stages
  <2>4a. request = "SetProtocol" => Has(t.event_waiters_, "SetProtocol")
    BY <2>2
  <2>5. (t.pushed + Len(Stages(request))) - RingSlots <= low /\ t.pushed + 3 = 3
    BY <2>4, <1>4, <1>6a DEF UsbAssumption
  <2>6. /\ r \in DeviceState /\ SameButQueues(t, r) /\ PositionsOf(r) /\ RoutedOf(r)
        /\ WindowOf(r, low) /\ r.pushed = t.pushed + Len(Stages(request))
        /\ Len(r.setup_stage_map_) = Len(t.setup_stage_map_) + 1
    <3>1. Ready(t, request, low)
      BY <2>3, <2>4a, <2>5, <1>6, <1>6a DEF Ready
    <3>2. Requested(t, request, low, r)
      BY <3>1, <2>2, <1>5, <1>6a, ControlEffect
    <3> QED
      BY <3>2 DEF Requested
  <2> QED
    BY <2>4, <2>5, <2>6
<1>9. d = r
  BY <1>2, <1>3, <1>7 DEF StartInitialize
<1>9a. Window
  <2>1. Low = (d.pushed - RingSlots) + 0
    BY <1>2 DEF Low, Reserve
  <2>2. Low = low
    BY <2>1, <1>6a, <1>8, <1>9 DEF UsbAssumption
  <2> QED
    BY <2>2, <1>8, <1>9 DEF Window
<1>10. /\ d \in DeviceState /\ PositionsOf(d) /\ RoutedOf(d) /\ Len(d.setup_stage_map_) = 1
       /\ d.is_initialized_ = FALSE /\ d.initialize_phase_ = 1 /\ d.hid_phase = 0
       /\ d.port = "kInitializingDevice" /\ d.normals = 0
       /\ d.previous_buf_ = {} /\ d.event_waiters_ = <<>>
  <2>1. Len(t.setup_stage_map_) + 1 = 1
    BY <1>4
  <2> QED
    BY <2>1, <1>4, <1>8, <1>9 DEF SameButQueues
<1>11. TypeOK /\ StateTyped
  <2>1. 0 \in 0..MaxReports
    BY DEF UsbAssumption
  <2>2. TypeOK
    BY <2>1, <1>2, <1>10 DEF TypeOK
  <2>3. StateTyped
    BY <1>2 DEF StateTyped
  <2> QED
    BY <2>2, <2>3
<1>12. SetUpOrder /\ SetUpStored /\ HandlerOK
  BY <1>2, <1>10 DEF SetUpOrder, SetUpStored, HandlerOK
<1>13. OneCommand /\ OneReport /\ BuffersOK /\ CompletedOK
  BY <1>2, <1>10 DEF OneCommand, OneReport, BuffersOK, KeysSeenOnce, CompletedOK, None, AtMostOne
<1>14. Room
  BY <1>2, <1>10 DEF Room
<1> QED
  BY <1>9a, <1>10, <1>11, <1>12, <1>13, <1>14 DEF IInv

LEMMA StepPreserves ==
  ASSUME UsbAssumption, IInv, [Next]_vars
  PROVE  IInv'
<1>1. CASE OnControlEvent
  BY <1>1, OnControlEventStep
<1>2. CASE OnReportFailed
  BY <1>2, OnReportFailedStep
<1>3. CASE OnCommandEvent
  BY <1>3, OnCommandEventStep
<1>4. CASE OnEndpointsConfigured
  BY <1>4, OnEndpointsConfiguredStep
<1>5. CASE CompleteConfiguration
  BY <1>5, CompleteConfigurationStep
<1>6. CASE OnDataReceived
  BY <1>6, OnDataReceivedStep
<1>7. CASE CopyPrevious
  BY <1>7, CopyPreviousStep
<1>8. CASE PostAgain
  BY <1>8, PostAgainStep
<1>9. CASE ExecuteEp0
  BY <1>9, ExecuteEp0Step
<1>10. CASE ExecuteCommand
  BY <1>10, ExecuteCommandStep
<1>11. CASE \E keys \in SUBSET Keys : SendReport(keys)
  BY <1>11, SendReportStep
<1>12. CASE UNCHANGED vars
  <2> USE DEF IInv
  <2>1. /\ d' = d /\ configuration' = configuration /\ pc' = pc /\ todo' = todo
        /\ command' = command /\ events' = events /\ halted' = halted
        /\ report' = report /\ previous' = previous /\ notified' = notified /\ reports' = reports
    BY <1>12 DEF vars, deviceVars, historyVars
  <2>2. SetUpStored' /\ PositionsOf(d)' /\ RoutedOf(d)' /\ Window' /\ CompletedOK'
    BY <2>1, StoredKept, QueuesKept, CompletedKept DEF SameSetUp, SameQueues
  <2>3. TypeOK' /\ StateTyped' /\ SetUpOrder' /\ HandlerOK' /\ Room'
    BY <2>1 DEF TypeOK, StateTyped, SetUpOrder, HandlerOK, Room
  <2>4. OneCommand' /\ OneReport' /\ BuffersOK'
    BY <2>1 DEF OneCommand, OneReport, InterruptOK, BuffersOK, KeysSeenOnce, None, AtMostOne
  <2> QED
    BY <2>2, <2>3, <2>4
<1> QED
  BY <1>1, <1>2, <1>3, <1>4, <1>5, <1>6, <1>7, <1>8, <1>9, <1>10, <1>11, <1>12 DEF Next, Driver

LEMMA Inductive == Spec => []IInv
<1>1. Init => IInv
  BY UsbAssumption, InitEstablishes
<1>2. IInv /\ [Next]_vars => IInv'
  BY UsbAssumption, StepPreserves
<1> QED
  BY <1>1, <1>2, PTL DEF Spec

LEMMA CompletionsFound ==
  ASSUME UsbAssumption, IInv
  PROVE  CompletionsRouted
<1> USE DEF IInv
<1>1. PICK map : map = d.setup_stage_map_
  OBVIOUS
<1>2. map \in Seq([key : Places, value : Nat]) /\ Distinct(map) /\ Len(map) \in Nat
  BY <1>1, LenProperties DEF PositionsOf, TypeOK, DeviceState
<1>3. ASSUME NEW position, Leads(map, position)
      PROVE  Routed(position) /\ d.ring[Place(position - 1)] # "none"
  <2>1. PICK i \in 1..Len(map) : map[i] = Entry(Place(position), position - 1)
    BY <1>3 DEF Leads
  <2>2. map[i].key = Place(position) /\ map[i].value = position - 1
    BY <2>1 DEF Entry
  <2>3. Has(map, Place(position))
    BY <2>2 DEF Has
  <2>4. Get(map, map[i].key) = map[i].value
    BY <1>2, GetFinds
  <2>5. MappedOK(d, i)
    BY <1>1 DEF PositionsOf
  <2> QED
    BY <2>2, <2>3, <2>4, <2>5, <1>1 DEF Routed, MappedOK
<1>4. Len(d.ep0) <= RingSlots
  <2>1. Reserve \in Nat
    BY ReserveTyped
  <2>2. d.pushed \in Nat /\ Len(d.ep0) \in Nat /\ RingSlots \in Nat
    BY LenProperties DEF TypeOK, DeviceState, UsbAssumption
  <2>3. (d.pushed - RingSlots) + Reserve <= d.pushed - Len(d.ep0)
    BY DEF Window, WindowOf, Low
  <2> QED
    BY <2>1, <2>2, <2>3
<1>5. \A k \in 1..Len(d.ep0) : d.ep0[k].interrupts =>
        /\ Routed(d.ep0[k].position)
        /\ d.ring[Place(d.ep0[k].position - 1)] = d.ep0[k].request
        /\ d.ep0[k].request = "SetProtocol" => Has(d.event_waiters_, "SetProtocol")
  BY <1>1, <1>3 DEF RoutedOf
<1>6. \A k \in 1..Len(events) : events[k].type = "control" /\ events[k].ok =>
        Routed(events[k].position) /\ d.ring[Place(events[k].position - 1)] # "none"
  BY <1>1, <1>3 DEF CompletedOK, Completed
<1> QED
  BY <1>4, <1>5, <1>6 DEF CompletionsRouted

LEMMA PollIsOne ==
  ASSUME IInv
  PROVE  OnePoll
<1> USE DEF IInv
<1>1. CASE None("interrupt")
  <2>1. Interrupts = {}
    BY <1>1 DEF Interrupts, None
  <2>2. Cardinality(Interrupts) = 0
    BY <2>1, FS_EmptySet
  <2>3. CASE d.normals = 1
    <3>1. d.hid_phase = 2 /\ "interrupt" \notin halted
      BY <2>3 DEF OneReport
    <3> QED
      BY <3>1, <2>2, <2>3 DEF OnePoll
  <2>4. CASE d.normals = 0
    <3>1. d.hid_phase = 2 => "interrupt" \in halted
      BY <1>1, <2>4 DEF OneReport
    <3> QED
      BY <3>1, <2>1, <2>2, <2>4 DEF OnePoll
  <2> QED
    BY <2>3, <2>4 DEF OneReport
<1>2. CASE ~None("interrupt")
  <2>1. PICK k \in 1..Len(events) : events[k].type = "interrupt"
    BY <1>2 DEF None
  <2>2. Interrupts = {k}
    BY <2>1 DEF Interrupts, OneReport, AtMostOne
  <2>3. Cardinality(Interrupts) = 1 /\ Interrupts # {}
    BY <2>2, FS_Singleton
  <2>4. d.hid_phase = 2 /\ d.normals = 0
    BY <1>2 DEF OneReport
  <2> QED
    BY <2>3, <2>4 DEF OnePoll
<1> QED
  BY <1>1, <1>2

\* The set-up of a USB device takes its steps in order, and every completion
\* finds its own setup stage through setup_stage_map_, still on the ring, and
\* its class driver in event_waiters_: there is room in both maps and on the
\* ring whenever ControlIn or ControlOut is called, although Put drops
\* silently and Push looks at nothing, for every device that UsbAssumption
\* admits.
THEOREM UsbInvariant == Spec => []UsbInv
<1>1. IInv => UsbInv
  BY UsbAssumption, CompletionsFound DEF UsbInv, IInv
<1> QED
  BY <1>1, Inductive, PTL

\* HIDBaseDriver polls with exactly one transfer at a time until a transfer
\* fails, however many of its SetProtocol requests complete.
THEOREM PollingIsSingle == Spec => []OnePoll
<1>1. IInv => OnePoll
  BY PollIsOne
<1> QED
  BY <1>1, Inductive, PTL

\* The observers of a keyboard hear of exactly the keys that went down between
\* two reports: no report is overwritten before previous_buf_ has its copy.
THEOREM KeysAnnouncedOnce == Spec => []KeysSeenOnce
<1>1. IInv => KeysSeenOnce
  BY DEF IInv, BuffersOK
<1> QED
  BY <1>1, Inductive, PTL
===============================================================================
