----------------------------- MODULE MCTransport -----------------------------
EXTENDS Transport

\* A function of bus 0 to 2; the second bus number of a bridge in secondary.
Fn(bus, dev, fn, class, vendor, multi, secondary) ==
  [bus |-> bus, dev |-> dev, fn |-> fn, class |-> class, vendor |-> vendor,
   multi |-> multi, secondary |-> secondary]

Candidates == {
  Fn(0, 0, 0, "other", "intel", FALSE, 0),   \* host bridge, one bus
  Fn(0, 0, 0, "other", "intel", TRUE, 0),    \* host bridge, a bus per function
  Fn(0, 0, 1, "ehc", "intel", FALSE, 0),
  Fn(0, 1, 0, "bridge", "other", TRUE, 1),
  Fn(0, 1, 1, "xhc", "other", FALSE, 0),
  Fn(1, 0, 0, "bridge", "other", FALSE, 2),
  Fn(1, 1, 0, "bridge", "other", FALSE, 0),  \* nobody has configured it
  Fn(1, 1, 1, "xhc", "intel", FALSE, 0),
  Fn(2, 0, 0, "xhc", "intel", FALSE, 0) }

SamePlace(f, g) == f.bus = g.bus /\ f.dev = g.dev /\ f.fn = g.fn
MCTopologies == {t \in SUBSET Candidates : \A f, g \in t : f # g => ~SamePlace(f, g)}

\* Two xHCs, the Intel one behind two bridges.
MCFollowed ==
  { Fn(0, 0, 0, "other", "intel", FALSE, 0), Fn(0, 1, 0, "bridge", "other", TRUE, 1),
    Fn(0, 1, 1, "xhc", "other", FALSE, 0), Fn(1, 0, 0, "bridge", "other", FALSE, 2),
    Fn(2, 0, 0, "xhc", "intel", FALSE, 0) }
===============================================================================
