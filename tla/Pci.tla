---------------------------------- MODULE Pci ----------------------------------
(***************************************************************************)
(* kernel/pci.cpp: the scan that fills pci::devices, what it ought to find, *)
(* and the configuration of message signalled interrupts.                  *)
(*                                                                         *)
(* A topology is the set of functions that answer, records of bus, dev and *)
(* fn number, class, vendor, multi (bit 7 of the header type) and, for a   *)
(* bridge, secondary: the bus behind it, 0 if nobody has configured it.    *)
(***************************************************************************)
EXTENDS Integers, Sequences, FiniteSets, SequencesExt

CONSTANTS
  MaxBus, MaxDev, MaxFn,   \* largest numbers: 255, 31 and 7 in the code
  MaxDevices               \* devices.size(), 32 in the code

ASSUME PciAssumption == {MaxBus, MaxDev, MaxFn, MaxDevices} \subseteq Nat /\ MaxFn <= MaxBus

\* The width of the numbers allows no others, and two functions are at two places.
IsTopology(t) ==
  /\ IsFiniteSet(t)
  /\ \A f \in t : /\ f.bus \in 0..MaxBus /\ f.dev \in 0..MaxDev /\ f.fn \in 0..MaxFn
                  /\ f.class = "bridge" => f.secondary \in 0..MaxBus
  /\ \A f, g \in t : (f.bus = g.bus /\ f.dev = g.dev /\ f.fn = g.fn) => f = g

\* ReadVendorId is not 0xffff.
Present(topology, bus, dev, fn) ==
  \E f \in topology : f.bus = bus /\ f.dev = dev /\ f.fn = fn
FunctionAt(topology, bus, dev, fn) ==
  CHOOSE f \in topology : f.bus = bus /\ f.dev = dev /\ f.fn = fn

\* devices, and whether AddDevice has failed: then every caller returns.
Tables(topology) ==
  {found \in [devices : Seq(topology), full : BOOLEAN] : Len(found.devices) <= MaxDevices}
NoDevices == [devices |-> <<>>, full |-> FALSE]
AddDevice(found, f) ==
  IF Len(found.devices) = MaxDevices THEN [found EXCEPT !.full = TRUE]
  ELSE [found EXCEPT !.devices = Append(@, f)]

\* scan[found][bus] is what ScanBus makes of a table.
ScanFunction(scan, found, f) ==
  LET added == AddDevice(found, f)
  IN  IF ~added.full /\ f.class = "bridge" THEN scan[added][f.secondary] ELSE added

\* Mutant: every device is taken for one with a single function.
ScanFirstFunction(topology, scan, found, bus, dev) ==
  ScanFunction(scan, found, FunctionAt(topology, bus, dev, 0))

ScanDevice(topology, scan, found, bus, dev) ==
  LET first == FunctionAt(topology, bus, dev, 0)
      Scan(acc, fn) == IF acc.full \/ ~Present(topology, bus, dev, fn) THEN acc
                       ELSE ScanFunction(scan, acc, FunctionAt(topology, bus, dev, fn))
      scanned == ScanFunction(scan, found, first)
  IN  IF first.multi THEN FoldLeft(Scan, scanned, [fn \in 1..MaxFn |-> fn]) ELSE scanned

ScanDevices(topology, scan, found, bus) ==
  LET Scan(acc, dev) == IF acc.full \/ ~Present(topology, bus, dev, 0) THEN acc
                        ELSE ScanDevice(topology, scan, acc, bus, dev)
  IN  FoldLeft(Scan, found, [i \in 1..(MaxDev + 1) |-> i - 1])

ScanBus(topology, before, root) ==
  LET scan[found \in Tables(topology)] ==
        [bus \in 0..MaxBus |-> ScanDevices(topology, scan, found, bus)]
  IN  scan[before][root]

\* A host bridge with several functions has a bus for each of them.  One that
\* does not answer reads as ones, the bit for several functions included.
HostFunctions(topology) ==
  IF Present(topology, 0, 0, 0) /\ ~FunctionAt(topology, 0, 0, 0).multi THEN {0}
  ELSE {fn \in 0..MaxFn : Present(topology, 0, 0, fn)}

ScanAllBus(topology) ==
  FoldLeft(LAMBDA found, bus : IF found.full \/ bus \notin HostFunctions(topology) THEN found
                               ELSE ScanBus(topology, found, bus),
           NoDevices, [i \in 1..(MaxFn + 1) |-> i - 1])

Xhcs(devices) == {i \in 1..Len(devices) : devices[i].class = "xhc"}

\* xhci::Initialize: the first Intel xHC, or else the last one of all.
FoundXhc(devices) ==
  LET intel == {i \in Xhcs(devices) : devices[i].vendor = "intel"}
  IN  IF intel # {} THEN CHOOSE i \in intel : \A j \in intel : i <= j
      ELSE CHOOSE i \in Xhcs(devices) : \A j \in Xhcs(devices) : j <= i

\* SwitchEhci2Xhci, called for an Intel xHC, routes the ports that an Intel EHC
\* has from there to the xHC.
SwitchEhci2Xhci(devices) ==
  \E i \in 1..Len(devices) : devices[i].class = "ehc" /\ devices[i].vendor = "intel"

\* ConfigureMSI: of the capabilities of a device, MSI is set up and MSI-X is
\* not implemented.  The caller does not look at the result.
ConfigureMSI(capabilities) ==
  CASE "msi" \in capabilities -> "kSuccess"
    [] "msi" \notin capabilities /\ "msix" \in capabilities -> "kNotImplemented"
    [] OTHER -> "kNoPCIMSI"

-----------------------------------------------------------------------------
(* What the scan is for, without its order and recursion *)

\* A function answers a probe if function 0 is there and, for another than
\* function 0, says that there are several.
Visible(topology, f) ==
  /\ Present(topology, f.bus, f.dev, 0)
  /\ f.fn = 0 \/ FunctionAt(topology, f.bus, f.dev, 0).multi
OnBuses(topology, buses) == {f \in topology : f.bus \in buses /\ Visible(topology, f)}

\* Buses with the host bridge's among them and, for every bridge on one of
\* them, the bus behind it.  What the least such set holds can be reached.
Closed(topology, buses) ==
  /\ HostFunctions(topology) \subseteq buses
  /\ \A f \in OnBuses(topology, buses) : f.class = "bridge" => f.secondary \in buses
ReachableBuses(topology) ==
  {bus \in 0..MaxBus : \A buses \in SUBSET (0..MaxBus) : Closed(topology, buses) => bus \in buses}
Reachable(topology) == OnBuses(topology, ReachableBuses(topology))

\* No two bridges, and no bridge and the host bridge, lead to the same bus.
OneParent(topology) ==
  LET bridges == {f \in Reachable(topology) : f.class = "bridge"}
  IN  /\ \A f \in bridges : f.secondary \notin HostFunctions(topology)
      /\ \A f, g \in bridges : f # g => f.secondary # g.secondary
===============================================================================
