------------------------------ MODULE MCUsbDevice ------------------------------
\* A keyboard, one with an OUT endpoint of its own, a mouse behind an interface
\* that is not supported, and a device without any interface that is.
EXTENDS UsbDevice

In(n) == [number |-> n, in |-> TRUE]
Out(n) == [number |-> n, in |-> FALSE]
MCConfigurations ==
  {<<[class |-> "keyboard", endpoints |-> <<In(1)>>]>>,
   <<[class |-> "keyboard", endpoints |-> <<In(1), Out(2)>>]>>,
   <<[class |-> "other", endpoints |-> <<Out(3)>>], [class |-> "mouse", endpoints |-> <<In(1)>>]>>,
   <<[class |-> "other", endpoints |-> <<>>]>>}
===============================================================================
