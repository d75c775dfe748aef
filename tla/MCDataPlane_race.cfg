\* Two ports whose rules output to the same port.
SPECIFICATION Spec
CONSTANTS
  NbPorts = 2
  Tags = {"a", "b"}
  Headroom = 1
  RuleTables <- SharedOnly
  Mbufs = {m1, m2, m3, m4}
  NoMbuf = NoMbuf
  NoFrame = NoFrame
  K = 1
  RingSize = 1
  Traffic = {"HTTP"}
  MaxArrivals = 1
SYMMETRY MbufSymmetry
INVARIANT TxQueueSafe
