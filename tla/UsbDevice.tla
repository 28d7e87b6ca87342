------------------------------- MODULE UsbDevice -------------------------------
(***************************************************************************)
(* One USB device from the end of Address Device to its reports: the       *)
(* set-up of usb/device.cpp by control transfers, the transfer rings and   *)
(* the maps of usb/xhci/device.cpp that lead a completion back to its      *)
(* request, and the HID class drivers, which ask for one report after the  *)
(* other and compare it with the one before.                               *)
(*                                                                         *)
(* The driver handles one event at a time.  The handlers of a report and   *)
(* of the Configure Endpoint command are several steps, since the          *)
(* controller works on while they run: it may write the report buffer as   *)
(* soon as the buffer is on the transfer ring again, and execute the first *)
(* of several requests before the next one is made.                        *)
(***************************************************************************)
EXTENDS Integers, Sequences, SequencesExt, FiniteSets

CONSTANTS
  Configurations,  \* the configuration descriptors a device may have
  Keys,            \* the keys of a keyboard; a report is the set pressed
  MaxEventWaiters, \* the length of event_waiters_: 4 in the code
  MaxSetupStages,  \* the length of setup_stage_map_: 16 in the code
  MaxEpConfigs,    \* the length of ep_configs_: 16 in the code
  RingSlots,       \* blocks on a transfer ring before its link TRB: 31 in the code
  MaxReports       \* bound on the reports the device sends

(***************************************************************************)
(* A configuration descriptor is the sequence of its interfaces: what      *)
(* NewClassDriver makes of one, and its endpoints.  A HID interface has an *)
(* interrupt IN endpoint, and may have an OUT one as well.  Endpoint       *)
(* numbers are 4 bits wide and 0 is the control pipe, so there are fewer   *)
(* than the 16 places of setup_stage_map_, and two blocks for each fit     *)
(* into the ring.  That there are no more endpoints than ep_configs_ has   *)
(* places is assumed of the device: InitializePhase2 does not check it.    *)
(***************************************************************************)
Endpoint == [number : 1..15, in : BOOLEAN]
Interface == [class : {"keyboard", "mouse", "other"}, endpoints : Seq(Endpoint)]
Numbers(eps) == {eps[n].number : n \in 1..Len(eps)}

ASSUME UsbAssumption ==
  /\ \A c \in Configurations : c \in Seq(Interface)
  /\ \A c \in Configurations : \A k \in 1..Len(c) :
       c[k].class # "other" => \E n \in 1..Len(c[k].endpoints) : c[k].endpoints[n].in
  /\ \A c \in Configurations : \A k \in 1..Len(c) :
       /\ Cardinality(Numbers(c[k].endpoints)) <= MaxSetupStages
       /\ 2 * Cardinality(Numbers(c[k].endpoints)) < RingSlots
       /\ Len(c[k].endpoints) <= MaxEpConfigs
  /\ MaxEventWaiters \in Nat \ {0} /\ MaxSetupStages \in Nat \ {0}
  /\ RingSlots \in Nat /\ RingSlots >= 4
  /\ MaxReports \in Nat

Requests == {"GetDescriptor(Device)", "GetDescriptor(Configuration)",
             "SetConfiguration", "SetProtocol"}

VARIABLES
  d,                   \* the driver's side, see below
  configuration,       \* the device's configuration descriptor
  pc,                  \* "idle", or where the handler of an event is
  todo,                \* what the loop of OnEndpointsConfigured has yet to visit
  command,             \* a Configure Endpoint command is on the command ring
  events,              \* the transfer and command events, oldest first
  active, halted,      \* endpoints the xHC has enabled; pipes that have failed
  dma,                 \* what the last data stage left in Device::buf_
  report, previous,    \* the reports of the event being handled, and before
  notified,            \* the keys the observers were told of for report
  reports              \* how many reports the device has sent

deviceVars == <<active, halted, dma>>
historyVars == <<report, previous, notified>>
vars == <<d, configuration, pc, todo, command, events, deviceVars, historyVars, reports>>

(***************************************************************************)
(* is_initialized_, initialize_phase_, ep_configs_, event_waiters_ and     *)
(*   setup_stage_map_ are those of Device                                  *)
(* driver          the interface its class driver was made for, or 0       *)
(* class_drivers_  the endpoint numbers that lead to that driver           *)
(* hid_phase, ep_interrupt_in_, buf_, previous_buf_   of HIDBaseDriver     *)
(* port            the part of port_config_phase this module is about      *)
(* rings           the endpoints that have a transfer ring                 *)
(* pushed, ep0     blocks pushed on the default control pipe so far, and   *)
(*                 those the xHC has yet to execute; a block's position is *)
(*                 its number in this order                                *)
(* ring            the request of the setup stage at each place of the     *)
(*                 pipe's ring, "none" where there is another block        *)
(* normals         blocks on the ring of the interrupt IN endpoint         *)
(***************************************************************************)
\* The ring goes round: what the code has of a block is its address in it.
Places == 0..(RingSlots - 1)
Place(position) == (position - 1) % RingSlots

Ep0 == [number |-> 0, in |-> TRUE]
NoEp == [number |-> 0, in |-> FALSE]
Blocks == [position : Nat, stage : {"setup", "data", "status"}, interrupts : BOOLEAN,
           request : Requests]
DeviceState ==
  [is_initialized_   : BOOLEAN,
   initialize_phase_ : 0..4,
   ep_configs_       : Seq(Endpoint),
   driver            : Nat,
   class_drivers_    : SUBSET (1..15),
   event_waiters_    : Seq([key : Requests, value : Nat]),
   setup_stage_map_  : Seq([key : Places, value : Nat]),
   hid_phase         : 0..2,
   ep_interrupt_in_  : Endpoint \cup {NoEp},
   buf_              : SUBSET Keys,
   previous_buf_     : SUBSET Keys,
   port              : {"kInitializingDevice", "kConfiguringEndpoints", "kConfigured"},
   rings             : SUBSET (Endpoint \cup {Ep0}),
   pushed            : Nat,
   ep0               : Seq(Blocks),
   ring              : [Places -> Requests \cup {"none"}],
   normals           : Nat]

\* usb::ArrayMap: Put drops what it has no room for; Get and Delete take the
\* first entry with the key.
Entry(key, value) == [key |-> key, value |-> value]
Put(map, n, key, value) == IF Len(map) < n THEN Append(map, Entry(key, value)) ELSE map
Has(map, key) == \E k \in 1..Len(map) : map[k].key = key
First(map, key) == CHOOSE k \in 1..Len(map) : map[k].key = key /\ \A j \in 1..(k-1) : map[j].key # key
Get(map, key) == map[First(map, key)].value
Delete(map, key) == IF Has(map, key) THEN RemoveAt(map, First(map, key)) ELSE map

-----------------------------------------------------------------------------
(* Requests *)

\* ControlIn with a buffer pushes a setup, a data and a status stage, without
\* one (and ControlOut here) a setup and a status stage.  The second block
\* interrupts; setup_stage_map_ leads from its address back to the setup stage,
\* which is read from the ring when the request has completed.
Stages(request) ==
  IF request \in {"GetDescriptor(Device)", "GetDescriptor(Configuration)"}
  THEN <<"setup", "data", "status">> ELSE <<"setup", "status">>
Written(s, request) ==
  [p \in Places |-> IF p = Place(s.pushed + 1) THEN request
                    ELSE IF \E k \in 2..Len(Stages(request)) : p = Place(s.pushed + k) THEN "none"
                    ELSE s.ring[p]]
Control(s, request) ==
  LET blocks == [k \in 1..Len(Stages(request)) |->
                   [position |-> s.pushed + k, stage |-> Stages(request)[k],
                    interrupts |-> k = 2, request |-> request]]
  IN  [s EXCEPT !.pushed = @ + Len(blocks),
                !.ep0 = @ \o blocks,
                !.ring = Written(s, request),
                !.setup_stage_map_ = Put(@, MaxSetupStages, Place(s.pushed + 2), s.pushed + 1)]

\* Mutant: the issuer is not passed on.
ControlForNobody(s, request, issuer) == Control(s, request)

\* A request of a class driver is remembered with its issuer.
ControlBy(s, request, issuer) ==
  Control([s EXCEPT !.event_waiters_ = Put(@, MaxEventWaiters, request, issuer)], request)

\* InterruptIn: kTransferRingNotSet for an endpoint without a ring.
InterruptIn(s) ==
  IF s.ep_interrupt_in_ \in s.rings THEN [s EXCEPT !.normals = @ + 1] ELSE s

-----------------------------------------------------------------------------
(* The set-up of the device *)

StartInitialize(s) ==
  Control([s EXCEPT !.is_initialized_ = FALSE, !.initialize_phase_ = 1], "GetDescriptor(Device)")

InitializePhase1(s) ==
  Control([s EXCEPT !.initialize_phase_ = 2], "GetDescriptor(Configuration)")

\* The first interface with a class driver is used, with all its endpoints.
\* Without one nothing more is requested.
Supported == {k \in 1..Len(configuration) : configuration[k].class # "other"}
FirstSupported == CHOOSE k \in Supported : \A j \in Supported : k <= j
InitializePhase2(s) ==
  LET eps == configuration[FirstSupported].endpoints
  IN  IF Supported = {} THEN s
      ELSE Control([s EXCEPT !.driver = FirstSupported,
                             !.ep_configs_ = eps,
                             !.class_drivers_ = Numbers(eps),
                             !.initialize_phase_ = 3], "SetConfiguration")

\* Mutant: is_initialized_ is not set.
PhaseOnly(s) == [s EXCEPT !.initialize_phase_ = 4]

\* SetEndpoint keeps the last interrupt IN endpoint.
LastIn(eps) == eps[CHOOSE n \in 1..Len(eps) : eps[n].in /\ \A k \in (n+1)..Len(eps) : ~eps[k].in]
InitializePhase3(s) ==
  [s EXCEPT !.ep_interrupt_in_ = LastIn(s.ep_configs_),
            !.initialize_phase_ = 4, !.is_initialized_ = TRUE]

\* ConfigureEndpoints gives every endpoint a transfer ring.
ConfigureEndpoints(s) ==
  [s EXCEPT !.rings = @ \cup ToSet(s.ep_configs_), !.port = "kConfiguringEndpoints"]

\* HIDBaseDriver::OnEndpointsConfigured
HidOnEndpointsConfigured(s) ==
  ControlBy([s EXCEPT !.hid_phase = 1], "SetProtocol", s.driver)

\* Mutant: every completion starts the polling.
HidCompletedAnyPhase(s) == InterruptIn([s EXCEPT !.hid_phase = 2])

\* HIDBaseDriver::OnControlCompleted: the first completion starts the polling.
HidOnControlCompleted(s) ==
  IF s.hid_phase = 1 THEN InterruptIn([s EXCEPT !.hid_phase = 2]) ELSE s

\* Device::OnControlCompleted; content is what DescriptorDynamicCast finds.
\* Everything else is an error and changes nothing.
OnControlCompleted(s, request, content) ==
  CASE s.is_initialized_ /\ Has(s.event_waiters_, request) -> HidOnControlCompleted(s)
    [] ~s.is_initialized_ /\ s.initialize_phase_ = 1
         /\ request = "GetDescriptor(Device)" /\ content = "device" -> InitializePhase1(s)
    [] ~s.is_initialized_ /\ s.initialize_phase_ = 2
         /\ request = "GetDescriptor(Configuration)" /\ content = "configuration" -> InitializePhase2(s)
    [] ~s.is_initialized_ /\ s.initialize_phase_ = 3
         /\ request = "SetConfiguration" -> InitializePhase3(s)
    [] OTHER -> s

-----------------------------------------------------------------------------
(* The controller and the device *)

\* What a data stage that completes may leave in the buffer: the descriptor
\* that was asked for, or something else.
Content(request) ==
  CASE request = "GetDescriptor(Device)"        -> "device"
    [] request = "GetDescriptor(Configuration)" -> "configuration"
    [] OTHER                                    -> "none"

Transfer(position, ok) ==
  [type |-> "control", position |-> position, ok |-> ok, keys |-> {}]

\* The xHC executes the next block of the default control pipe.  An error
\* stops the pipe, and is reported whether or not the block interrupts.
ExecuteEp0 ==
  /\ d.ep0 # <<>> /\ "control" \notin halted
  /\ LET b == Head(d.ep0)
     IN  /\ d' = [d EXCEPT !.ep0 = Tail(@)]
         /\ \/ /\ events' = IF b.interrupts THEN Append(events, Transfer(b.position, TRUE))
                            ELSE events
               /\ IF b.stage = "data" THEN dma' \in {Content(b.request), "garbage"} ELSE UNCHANGED dma
               /\ UNCHANGED halted
            \/ /\ events' = Append(events, Transfer(b.position, FALSE))
               /\ halted' = halted \cup {"control"}
               /\ UNCHANGED dma
  /\ UNCHANGED <<configuration, pc, todo, command, active, historyVars, reports>>

\* Configure Endpoint, with or without success.
ExecuteCommand ==
  /\ command
  /\ command' = FALSE
  /\ active' \in {d.rings, active}
  /\ events' = Append(events, [type |-> "command", position |-> 0, ok |-> TRUE, keys |-> {}])
  /\ UNCHANGED <<d, configuration, pc, todo, halted, dma, historyVars, reports>>

\* The device has a report: it is written to the buffer on the ring.
SendReport(keys) ==
  /\ d.normals > 0 /\ d.ep_interrupt_in_ \in active
  /\ "interrupt" \notin halted /\ reports < MaxReports
  /\ reports' = reports + 1
  /\ \/ /\ d' = [d EXCEPT !.normals = @ - 1, !.buf_ = keys]
        /\ events' = Append(events, [type |-> "interrupt", position |-> 0, ok |-> TRUE, keys |-> keys])
        /\ UNCHANGED halted
     \/ /\ d' = [d EXCEPT !.normals = @ - 1]
        /\ events' = Append(events, [type |-> "interrupt", position |-> 0, ok |-> FALSE, keys |-> {}])
        /\ halted' = halted \cup {"interrupt"}
  /\ UNCHANGED <<configuration, pc, todo, command, active, dma, historyVars>>

-----------------------------------------------------------------------------
(* The driver's handlers *)

Handles(type) == pc = "idle" /\ events # <<>> /\ Head(events).type = type

\* OnTransferEventReceived for a block of the control pipe, then the rest of
\* OnEvent: a device that has become initialized gets its endpoints.
OnControlEvent ==
  /\ Handles("control")
  /\ LET e    == Head(events)
         m    == d.setup_stage_map_
         at   == Place(e.position)
         next == IF e.ok /\ Has(m, at)
                 THEN OnControlCompleted([d EXCEPT !.setup_stage_map_ = Delete(m, at)],
                                         d.ring[Place(Get(m, at))], dma)
                 ELSE d
         done == e.ok /\ next.is_initialized_ /\ next.port = "kInitializingDevice"
     IN  /\ d' = IF done THEN ConfigureEndpoints(next) ELSE next
         /\ command' = (command \/ done)
  /\ events' = Tail(events)
  /\ UNCHANGED <<configuration, pc, todo, deviceVars, historyVars, reports>>

\* CompleteConfiguration, whatever the completion code: the loop of
\* OnEndpointsConfigured, which calls the class driver once for each endpoint
\* number it is registered under, and then the port's phase.
OnCommandEvent ==
  /\ Handles("command")
  /\ pc' = "configure" /\ todo' = d.class_drivers_
  /\ UNCHANGED <<d, configuration, command, events, deviceVars, historyVars, reports>>

OnEndpointsConfigured ==
  /\ pc = "configure"
  /\ \E number \in todo :
       /\ \A other \in todo : number <= other
       /\ todo' = todo \ {number}
  /\ d' = HidOnEndpointsConfigured(d)
  /\ UNCHANGED <<configuration, pc, command, events, deviceVars, historyVars, reports>>

CompleteConfiguration ==
  /\ pc = "configure" /\ todo = {}
  /\ d' = [d EXCEPT !.port = "kConfigured"]
  /\ pc' = "idle"
  /\ events' = Tail(events)
  /\ UNCHANGED <<configuration, todo, command, deviceVars, historyVars, reports>>

\* A report that failed is not asked for again.
OnReportFailed ==
  /\ Handles("interrupt") /\ ~Head(events).ok
  /\ events' = Tail(events)
  /\ UNCHANGED <<d, configuration, pc, todo, command, deviceVars, historyVars, reports>>

\* OnDataReceived of the two drivers: the keys that were not down before; the
\* whole report of a mouse.
NotifyKeyPush(s) == s.buf_ \ s.previous_buf_
NotifyMouseMove(s) == s.buf_
DataReceived(s) ==
  IF configuration[s.driver].class = "keyboard" THEN NotifyKeyPush(s) ELSE NotifyMouseMove(s)

\* Mutant: the buffer is on the ring again before it has been copied.
RepostFirst ==
  /\ Handles("interrupt") /\ Head(events).ok
  /\ notified' = DataReceived(d)
  /\ previous' = report /\ report' = Head(events).keys
  /\ d' = InterruptIn(d)
  /\ pc' = "copy"
  /\ UNCHANGED <<configuration, todo, command, events, deviceVars, reports>>

\* HIDBaseDriver::OnInterruptCompleted, in three steps: the observers, ...
OnDataReceived ==
  /\ Handles("interrupt") /\ Head(events).ok
  /\ notified' = DataReceived(d)
  /\ previous' = report /\ report' = Head(events).keys
  /\ pc' = "copy"
  /\ UNCHANGED <<d, configuration, todo, command, events, deviceVars, reports>>

\* ... copy_n; a report fills the buffer.
CopyPrevious ==
  /\ pc = "copy"
  /\ d' = [d EXCEPT !.previous_buf_ = d.buf_]
  /\ pc' = "post"
  /\ UNCHANGED <<configuration, todo, command, events, deviceVars, historyVars, reports>>

\* ... and the next report is asked for, into the same buffer.
PostAgain ==
  /\ pc = "post"
  /\ d' = InterruptIn(d)
  /\ pc' = "idle"
  /\ events' = Tail(events)
  /\ UNCHANGED <<configuration, todo, command, deviceVars, historyVars, reports>>

-----------------------------------------------------------------------------
\* InitializeDevice has just called StartInitialize.
Init ==
  /\ configuration \in Configurations
  /\ d = StartInitialize(
           [is_initialized_ |-> FALSE, initialize_phase_ |-> 0, ep_configs_ |-> <<>>,
            driver |-> 0, class_drivers_ |-> {}, event_waiters_ |-> <<>>,
            setup_stage_map_ |-> <<>>, hid_phase |-> 0, ep_interrupt_in_ |-> NoEp,
            buf_ |-> {}, previous_buf_ |-> {}, port |-> "kInitializingDevice",
            rings |-> {Ep0}, pushed |-> 0, ep0 |-> <<>>,
            ring |-> [p \in Places |-> "none"], normals |-> 0])
  /\ pc = "idle" /\ todo = {} /\ command = FALSE /\ events = <<>>
  /\ active = {Ep0} /\ halted = {} /\ dma = "none"
  /\ report = {} /\ previous = {} /\ notified = {}
  /\ reports = 0

Driver ==
  \/ OnControlEvent \/ OnReportFailed
  \/ OnCommandEvent \/ OnEndpointsConfigured \/ CompleteConfiguration
  \/ OnDataReceived \/ CopyPrevious \/ PostAgain

Next ==
  \/ Driver
  \/ ExecuteEp0
  \/ ExecuteCommand
  \/ \E keys \in SUBSET Keys : SendReport(keys)

\* Main processes events (Kernel), and the xHC executes what is on its rings.
Fairness ==
  /\ WF_vars(Driver)
  /\ WF_vars(ExecuteEp0)
  /\ WF_vars(ExecuteCommand)

Spec == Init /\ [][Next]_vars
FairSpec == Spec /\ Fairness
-----------------------------------------------------------------------------
(* Safety *)

\* Types, and the order of the set-up: the device is initialized in phase 4,
\* endpoints are configured and a class driver speaks to the device only then.
TypeOK ==
  /\ d \in DeviceState
  /\ pc \in {"idle", "configure", "copy", "post"} /\ todo \subseteq 1..15
  /\ command \in BOOLEAN
  /\ reports \in 0..MaxReports
  /\ {report, previous, notified} \subseteq SUBSET Keys

\* The steps of the set-up in their order.
SetUpOrder ==
  /\ d.is_initialized_ <=> d.initialize_phase_ = 4
  /\ d.port # "kInitializingDevice" => d.is_initialized_
  /\ d.hid_phase > 0 => d.port = "kConfigured" \/ pc = "configure"
  /\ d.hid_phase > 0 => d.ep_interrupt_in_ \in d.rings

\* Every completion of a request still finds its way: each block that is to
\* interrupt, executed or not, leads to its own setup stage, not to one of
\* another lap of the ring, and that is still in the ring; a class driver's
\* request has its issuer in event_waiters_.  All this although both maps are
\* small, Put drops what does not fit, nothing is ever deleted from
\* event_waiters_, and no Push looks whether it overwrites a block that is
\* still needed.
Routed(position) ==
  /\ Has(d.setup_stage_map_, Place(position))
  /\ Get(d.setup_stage_map_, Place(position)) = position - 1
CompletionsRouted ==
  /\ Len(d.ep0) <= RingSlots
  /\ \A k \in 1..Len(d.ep0) : d.ep0[k].interrupts =>
       /\ Routed(d.ep0[k].position)
       /\ d.ring[Place(d.ep0[k].position - 1)] = d.ep0[k].request
       /\ d.ep0[k].request = "SetProtocol" => Has(d.event_waiters_, "SetProtocol")
  /\ \A k \in 1..Len(events) : events[k].type = "control" /\ events[k].ok =>
       /\ Routed(events[k].position)
       /\ d.ring[Place(events[k].position - 1)] # "none"

\* What holds between any two steps of the driver and the controller.
UsbInv == TypeOK /\ SetUpOrder /\ CompletionsRouted

\* Once the class driver has started to poll, exactly one report is asked for
\* or being handled: the polling neither stops, until a transfer fails, nor
\* doubles, although SetProtocol is sent once per endpoint number and so may
\* complete several times.
Interrupts == {k \in 1..Len(events) : events[k].type = "interrupt"}
OnePoll ==
  d.normals + Cardinality(Interrupts) =
    (IF d.hid_phase = 2 /\ ("interrupt" \notin halted \/ Interrupts # {}) THEN 1 ELSE 0)

\* The observers hear of a key exactly when it goes down: each report is
\* compared with the one before, never with itself and never with one that
\* the device has overwritten meanwhile.
KeysSeenOnce ==
  pc = "copy" /\ configuration[d.driver].class = "keyboard" => notified = report \ previous

(* Liveness *)

\* A device with a supported interface whose transfers succeed gets to the
\* point where it is polled.
Gone == halted # {} \/ dma = "garbage"
StartsPolling == Supported # {} ~> d.hid_phase = 2 \/ Gone
===============================================================================
