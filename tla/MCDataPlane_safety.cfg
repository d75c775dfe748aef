\* Every table; two ports, buffers of two, rings of one descriptor.
SPECIFICATION Spec
CONSTANTS
  NbPorts = 2
  Tags = {"a", "b"}
  Headroom = 1
  RuleTables <- AllTables
  Mbufs = {m1, m2, m3}
  NoMbuf = NoMbuf
  NoFrame = NoFrame
  K = 2
  RingSize = 1
  Traffic = {"HTTP"}
  MaxArrivals = 2
SYMMETRY MbufSymmetry
INVARIANTS TypeOK OneOwner NoOverrun TxExclusive
PROPERTIES LossyForwarder LossOnlyUnderPressure
