------------------------------ MODULE XhciPorts ------------------------------
(***************************************************************************)
(* The root hub ports of kernel/usb/xhci/xhci.cpp: how a port goes from    *)
(* kNotConnected to kConfigured.  The driver reacts to events, one at a    *)
(* time: port status changes, command completions and transfer events.     *)
(* From its reset to its address a port must be dealt with alone:          *)
(* addressing_port is the lock, kWaitingAddressed the queue for it.        *)
(*                                                                         *)
(* The controller executes commands, resets ports and reports connections; *)
(* devices come and go, and commands may fail, at any time.                *)
(***************************************************************************)
EXTENDS Integers, Sequences, FiniteSets

CONSTANTS
  MaxPorts,    \* ports of the controller
  CanUnplug,   \* the ports whose device may be removed
  NoDriver,    \* the ports whose device has no HID boot interface
  MayFail,     \* TRUE: commands and transfers may complete with an error
  MaxChanges   \* bound on the connections and removals after boot

Ports == 1..MaxPorts

ASSUME PortsAssumption ==
  /\ MaxPorts \in Nat
  /\ CanUnplug \subseteq Ports /\ NoDriver \subseteq Ports
  /\ MayFail \in BOOLEAN
  /\ MaxChanges \in Nat

Phases == {"kNotConnected", "kWaitingAddressed", "kResettingPort", "kEnablingSlot",
           "kAddressingDevice", "kInitializingDevice", "kConfiguringEndpoints", "kConfigured"}
Slots == 0..MaxPorts   \* slot 0 is what a failed Enable Slot reports

VARIABLES
  phase,              \* port_config_phase
  addressing_port,
  allocated,          \* the slots DeviceManager has a Device for
  input_port, ctx_port, \* root_hub_port_num per slot: in the input context,
                      \* and in the device context, which the xHC fills
  boot,               \* next port in the loop of usb::xhci::Initialize
  connected, enabled, csc, prc, \* PORTSC: CCS, PED, CSC, PRC
  announced,          \* ports whose CSC has been reported by an event
  commands, events,   \* the command ring and the primary event ring
  busy,               \* slots with a control transfer of the set-up pending
  changes,            \* connections and removals so far
  trouble             \* a device has been removed or a command has failed

historyVars == <<changes, trouble>>
driverVars == <<phase, addressing_port, allocated, input_port, boot>>
portVars == <<connected, enabled, csc, prc, announced>>
vars == <<driverVars, ctx_port, portVars, commands, events, busy, historyVars>>

Event(type, port, slot, ok) == [type |-> type, port |-> port, slot |-> slot, ok |-> ok]

-----------------------------------------------------------------------------
(* The controller and the devices *)

\* A change bit that goes from 0 to 1 is reported; CSC is not reported again
\* while it is still set.
Announce(p) ==
  /\ csc[p] /\ p \notin announced
  /\ announced' = announced \cup {p}
  /\ events' = Append(events, Event("port", p, 0, TRUE))
  /\ UNCHANGED <<driverVars, ctx_port, connected, enabled, csc, prc, commands, busy, historyVars>>

\* A USB 3 port is enabled at once, any other one by its reset.
Plug(p) ==
  /\ ~connected[p] /\ changes < MaxChanges
  /\ changes' = changes + 1
  /\ connected' = [connected EXCEPT ![p] = TRUE]
  /\ enabled' \in {enabled, [enabled EXCEPT ![p] = TRUE]}
  /\ csc' = [csc EXCEPT ![p] = TRUE]
  /\ UNCHANGED <<driverVars, ctx_port, prc, announced, commands, events, busy, trouble>>

Unplug(p) ==
  /\ connected[p] /\ p \in CanUnplug /\ changes < MaxChanges
  /\ changes' = changes + 1
  /\ connected' = [connected EXCEPT ![p] = FALSE]
  /\ enabled' = [enabled EXCEPT ![p] = FALSE]
  /\ csc' = [csc EXCEPT ![p] = TRUE]
  /\ trouble' = TRUE
  /\ UNCHANGED <<driverVars, ctx_port, prc, announced, commands, events, busy>>

\* A fresh slot, or 0 when the command fails.
SlotFor(c, ok) ==
  IF c.cmd # "EnableSlot" THEN {c.slot}
  ELSE IF ok THEN {s \in Slots \ {0} : s \notin allocated} ELSE {0}

ExecuteCommand(ok) ==
  /\ commands # <<>>
  /\ ok \/ MayFail
  /\ LET c == Head(commands)
     IN  /\ \E s \in SlotFor(c, ok) : events' = Append(events, Event(c.cmd, 0, s, ok))
         /\ ctx_port' = IF c.cmd = "AddressDevice" /\ ok
                        THEN [ctx_port EXCEPT ![c.slot] = input_port[c.slot]]
                        ELSE ctx_port
  /\ commands' = Tail(commands)
  /\ trouble' = (trouble \/ ~ok)
  /\ UNCHANGED <<driverVars, portVars, busy, changes>>

\* The last transfer of a device's set-up completes (UsbDevice has the
\* sequence); with an error the Device never becomes initialized.
CompleteTransfer(s, ok) ==
  /\ s \in busy
  /\ ok \/ MayFail
  /\ busy' = busy \ {s}
  /\ events' = Append(events, Event("transfer", 0, s, ok))
  /\ trouble' = (trouble \/ ~ok)
  /\ UNCHANGED <<driverVars, ctx_port, portVars, commands, changes>>

-----------------------------------------------------------------------------
(* The driver.  An event is popped by the handler of the event. *)

Push(cmd, slot) == commands' = Append(commands, [cmd |-> cmd, slot |-> slot])

\* Port::Reset clears CSC and waits for the reset to end, which sets PRC and
\* enables the port; PRC is reported like CSC.  A device that has gone since
\* ResetPort saw it connected leaves nothing to reset.
ResetEvents(p, evs) == IF prc[p] THEN evs ELSE Append(evs, Event("port", p, 0, TRUE))
Reset(p, evs) ==
  /\ csc' = [csc EXCEPT ![p] = FALSE]
  /\ announced' = announced \ {p}
  /\ \/ /\ prc' = [prc EXCEPT ![p] = TRUE]
        /\ enabled' = [enabled EXCEPT ![p] = TRUE]
        /\ events' = ResetEvents(p, evs)
        /\ UNCHANGED <<connected, historyVars>>
     \/ /\ p \in CanUnplug /\ changes < MaxChanges
        /\ changes' = changes + 1 /\ trouble' = TRUE
        /\ connected' = [connected EXCEPT ![p] = FALSE]
        /\ events' = evs
        /\ UNCHANGED <<prc, enabled>>

NoReset(evs) ==
  /\ events' = evs
  /\ UNCHANGED <<csc, announced, prc, enabled, connected, historyVars>>

\* Mutant: a port is reset although another one is being addressed.
ResetPortAnyway(p, lock, ph, evs) ==
  \/ /\ ~connected[p]
     /\ phase' = ph /\ addressing_port' = lock
     /\ NoReset(evs)
  \/ /\ connected[p]
     /\ phase' = [ph EXCEPT ![p] = "kResettingPort"] /\ addressing_port' = p
     /\ Reset(p, evs)

\* ResetPort for a port whose phase allows it; lock and ph are addressing_port
\* and port_config_phase at the call.
ResetPort(p, lock, ph, evs) ==
  \/ /\ ~connected[p]
     /\ phase' = ph /\ addressing_port' = lock
     /\ NoReset(evs)
  \/ /\ connected[p] /\ lock # 0
     /\ phase' = [ph EXCEPT ![p] = "kWaitingAddressed"] /\ addressing_port' = lock
     /\ NoReset(evs)
  \/ /\ connected[p] /\ lock = 0
     /\ phase' = [ph EXCEPT ![p] = "kResettingPort"] /\ addressing_port' = p
     /\ Reset(p, evs)

\* The loop over the ports at the end of Initialize.
ConfigurePort ==
  /\ boot \in Ports
  /\ boot' = boot + 1
  /\ IF connected[boot] /\ phase[boot] = "kNotConnected"
     THEN ResetPort(boot, addressing_port, phase, events)
     ELSE UNCHANGED <<phase, addressing_port>> /\ NoReset(events)
  /\ UNCHANGED <<allocated, input_port, ctx_port, commands, busy>>

Front(type) ==
  /\ boot \notin Ports
  /\ events # <<>> /\ Head(events).type = type

\* An event that is reported as an error (kInvalidPhase and the like) or
\* needs nothing done.
Ignore ==
  /\ events' = Tail(events)
  /\ UNCHANGED <<phase, addressing_port, allocated, input_port, portVars, commands, busy,
                 historyVars>>

\* Mutant: any change outside the reset starts the set-up again.
StartsAgain(p) == phase[p] # "kResettingPort"

\* The phases in which a port status change resets the port.
StartsReset(p) == phase[p] = "kNotConnected"

\* Nothing is done for a port that is not enabled or whose reset has not
\* completed: the device may be gone again.
EnableSlot(p) ==
  \/ /\ enabled[p] /\ prc[p]
     /\ prc' = [prc EXCEPT ![p] = FALSE]
     /\ phase' = [phase EXCEPT ![p] = "kEnablingSlot"]
     /\ Push("EnableSlot", 0)
     /\ events' = Tail(events)
     /\ UNCHANGED <<addressing_port, allocated, input_port, csc, announced, enabled, connected,
                    busy, historyVars>>
  \/ /\ ~(enabled[p] /\ prc[p])
     /\ Ignore

OnPortStatusChange ==
  /\ Front("port")
  /\ LET p == Head(events).port
     IN  \/ /\ StartsReset(p)
            /\ ResetPort(p, addressing_port, phase, Tail(events))
            /\ UNCHANGED <<allocated, input_port, commands, busy>>
         \/ /\ phase[p] = "kResettingPort"
            /\ EnableSlot(p)
         \/ /\ ~StartsReset(p) /\ phase[p] # "kResettingPort"
            /\ Ignore
  /\ UNCHANGED <<boot, ctx_port>>

\* AllocDevice keeps a Device that is there already.
AllocDevice(s) == allocated \cup {s}

\* The input context names the port; the controller is asked to address the
\* device there.  FindBySlot finds the Device: the controller hands out the
\* slots that MaxSlotsEn enables, for which DeviceManager has room, so there
\* is no return with kInvalidSlotID.
AddressDevice(p, s) ==
  /\ allocated' = AllocDevice(s)
  /\ input_port' = [input_port EXCEPT ![s] = p]
  /\ phase' = [phase EXCEPT ![p] = "kAddressingDevice"]
  /\ Push("AddressDevice", s)
  /\ events' = Tail(events)
  /\ UNCHANGED <<addressing_port, portVars, busy, historyVars>>

\* The completion code is not looked at: AddressDevice goes on with the slot
\* of the event.
OnEnableSlotCompleted ==
  /\ Front("EnableSlot")
  /\ LET s == Head(events).slot
     IN  \/ /\ addressing_port \in Ports /\ phase[addressing_port] = "kEnablingSlot"
            /\ AddressDevice(addressing_port, s)
         \/ /\ ~(addressing_port \in Ports /\ phase[addressing_port] = "kEnablingSlot")
            /\ Ignore
  /\ UNCHANGED <<boot, ctx_port>>

\* Mutant: the loop that looks for a waiting port never finds one.
NobodyWaits == {}

\* The lock is released and the first waiting port, if it is still there, is
\* reset; the addressed device's own set-up starts.
FirstWaiting == {p \in Ports : /\ phase[p] = "kWaitingAddressed"
                               /\ \A q \in Ports : phase[q] = "kWaitingAddressed" => p <= q}

OnAddressDeviceCompleted ==
  /\ Front("AddressDevice")
  /\ LET s  == Head(events).slot
         p  == ctx_port[s]
         ph == [phase EXCEPT ![p] = "kInitializingDevice"]
     IN  \/ /\ s \in allocated /\ p \in Ports /\ p = addressing_port
            /\ phase[p] = "kAddressingDevice"
            /\ \/ /\ FirstWaiting = {}
                  /\ phase' = ph /\ addressing_port' = 0
                  /\ NoReset(Tail(events))
               \/ \E w \in FirstWaiting : ResetPort(w, 0, ph, Tail(events))
            /\ busy' = busy \cup {s}      \* StartInitialize
            /\ UNCHANGED <<allocated, input_port, commands>>
         \/ /\ ~(s \in allocated /\ p \in Ports /\ p = addressing_port
                  /\ phase[p] = "kAddressingDevice")
            /\ Ignore
  /\ UNCHANGED <<boot, ctx_port>>

\* The speed of a port without a device need not be a valid one, and then
\* nothing is configured (kUnknownXHCISpeedID).
ConfigureEndpoints(p, s) ==
  \/ /\ phase' = [phase EXCEPT ![p] = "kConfiguringEndpoints"]
     /\ Push("ConfigureEndpoint", s)
     /\ events' = Tail(events)
     /\ UNCHANGED <<addressing_port, allocated, input_port, portVars, busy, historyVars>>
  \/ ~connected[p] /\ Ignore

\* Without a HID boot interface InitializePhase2 ends the set-up (UsbDevice)
\* and is_initialized_ stays FALSE.  A port has one device addressed at most,
\* so NoDriver tells how its set-up ends.
IsInitialized(p, ok) == ok /\ p \notin NoDriver

OnTransfer ==
  /\ Front("transfer")
  /\ LET s == Head(events).slot
         p == ctx_port[s]
     IN  IF /\ s \in allocated
            /\ IsInitialized(p, Head(events).ok) /\ phase[p] = "kInitializingDevice"
         THEN ConfigureEndpoints(p, s) ELSE Ignore
  /\ UNCHANGED <<boot, ctx_port>>

\* CompleteConfiguration
OnConfigureEndpointCompleted ==
  /\ Front("ConfigureEndpoint")
  /\ LET s == Head(events).slot
         p == ctx_port[s]
     IN  /\ phase' = IF phase[p] = "kConfiguringEndpoints"
                     THEN [phase EXCEPT ![p] = "kConfigured"] ELSE phase
         /\ events' = Tail(events)
  /\ UNCHANGED <<addressing_port, allocated, input_port, boot, ctx_port, portVars, commands, busy, historyVars>>

-----------------------------------------------------------------------------
Init ==
  /\ phase = [p \in Ports |-> "kNotConnected"]
  /\ addressing_port = 0
  /\ allocated = {}
  /\ input_port = [s \in Slots |-> 0] /\ ctx_port = [s \in Slots |-> 0]
  /\ boot = 1
  /\ connected \in [Ports -> BOOLEAN]
  /\ enabled = [p \in Ports |-> FALSE]
  /\ csc = connected
  /\ prc = [p \in Ports |-> FALSE]
  /\ announced = {}
  /\ commands = <<>> /\ events = <<>>
  /\ busy = {}
  /\ changes = 0 /\ trouble = FALSE

Driver ==
  \/ ConfigurePort
  \/ OnPortStatusChange \/ OnEnableSlotCompleted \/ OnAddressDeviceCompleted
  \/ OnTransfer \/ OnConfigureEndpointCompleted

Controller ==
  \/ \E ok \in BOOLEAN : ExecuteCommand(ok)
  \/ \E p \in Ports : Announce(p)
  \/ \E s \in Slots, ok \in BOOLEAN : CompleteTransfer(s, ok)

Next ==
  \/ Driver
  \/ Controller
  \/ \E p \in Ports : Plug(p) \/ Unplug(p)

\* Main processes its events (Kernel), and the controller does its work.
Fairness ==
  /\ WF_vars(Driver)
  /\ WF_vars(\E ok \in BOOLEAN : ExecuteCommand(ok))
  /\ \A p \in Ports : WF_vars(Announce(p))
  /\ \A s \in Slots : WF_vars(\E ok \in BOOLEAN : CompleteTransfer(s, ok))

Spec == Init /\ [][Next]_vars
FairSpec == Spec /\ Fairness
-----------------------------------------------------------------------------
(* Safety *)

\* Every variable keeps its type, and a command for a slot names one that the
\* DeviceManager has a Device for.
TypeOK ==
  /\ phase \in [Ports -> Phases]
  /\ addressing_port \in Ports \cup {0}
  /\ allocated \subseteq Slots
  /\ input_port \in [Slots -> Ports \cup {0}] /\ ctx_port \in [Slots -> Ports \cup {0}]
  /\ boot \in 1..(MaxPorts + 1)
  /\ connected \in [Ports -> BOOLEAN] /\ enabled \in [Ports -> BOOLEAN]
  /\ csc \in [Ports -> BOOLEAN] /\ prc \in [Ports -> BOOLEAN]
  /\ announced \subseteq Ports /\ busy \subseteq Slots
  /\ \A k \in 1..Len(commands) :
       commands[k].slot \in (IF commands[k].cmd = "EnableSlot" THEN {0} ELSE allocated)
  /\ changes \in 0..MaxChanges /\ trouble \in BOOLEAN

\* "From its reset to its address a root hub port must be processed without
\* anything else in between": the ports in those phases are addressing_port
\* and nobody else, and a free lock means that there is none.
Exclusive == {"kResettingPort", "kEnablingSlot", "kAddressingDevice"}
OneAddressing ==
  {p \in Ports : phase[p] \in Exclusive} = {addressing_port} \ {0}

\* A device that is being set up or is in use answers to the port it hangs
\* on: no two slots belong to one port.
OneSlotPerPort ==
  \A s, t \in allocated \ {0} : (ctx_port[s] = ctx_port[t] /\ ctx_port[s] # 0) => s = t

\* A port goes through its phases in their order, without skipping one or
\* going back, whatever late, stale or failed events arrive.
Successors == [kNotConnected         |-> {"kWaitingAddressed", "kResettingPort"},
               kWaitingAddressed     |-> {"kResettingPort"},
               kResettingPort        |-> {"kEnablingSlot"},
               kEnablingSlot         |-> {"kAddressingDevice"},
               kAddressingDevice     |-> {"kInitializingDevice"},
               kInitializingDevice   |-> {"kConfiguringEndpoints"},
               kConfiguringEndpoints |-> {"kConfigured"},
               kConfigured           |-> {}]
PhaseOrder ==
  [][\A p \in Ports : phase'[p] # phase[p] => phase'[p] \in Successors[phase[p]]]_vars

\* At most one command per port is waiting for its completion to be handled,
\* and at most one in all that enables a slot or addresses a device: the
\* command ring, which Push never checks for room, cannot be overrun by
\* fewer ports than it has slots.
Completions(cmds) == {k \in 1..Len(events) : events[k].type \in cmds}
Waiting(cmds) == {k \in 1..Len(commands) : commands[k].cmd \in cmds}
Outstanding(cmds) == Cardinality(Completions(cmds)) + Cardinality(Waiting(cmds))
CommandsBounded ==
  /\ Outstanding({"EnableSlot", "AddressDevice"}) <= 1
  /\ Outstanding({"EnableSlot", "AddressDevice", "ConfigureEndpoint"}) <= MaxPorts

\* What holds between any two events: types, the lock, one slot per port, and
\* a bound on the commands under way.
PortsInv == TypeOK /\ OneAddressing /\ OneSlotPerPort /\ CommandsBounded

(* Liveness *)

\* With devices that stay and commands that succeed, every device that is
\* connected gets configured, if it has a HID boot interface.  Any other one
\* gets its address, stays in kInitializingDevice and holds up nobody.
SetUp(p) == IF p \in NoDriver THEN "kInitializingDevice" ELSE "kConfigured"
EveryPortConfigured ==
  \A p \in Ports : connected[p] ~> phase[p] = SetUp(p) \/ trouble

\* "kWaitingAddressed is the state of waiting for the series of steps from
\* reset to address to be carried out": a port that waits, its device still
\* connected, gets its turn.
WaitingIsServed ==
  \A p \in Ports :
    phase[p] = "kWaitingAddressed" ~> (phase[p] # "kWaitingAddressed" \/ ~connected[p])
===============================================================================
