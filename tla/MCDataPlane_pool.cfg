\* One port, as many mbufs as PoolSuffices asks for, classes of every kind.
SPECIFICATION Spec
CONSTANTS
  NbPorts = 1
  Tags = {"a", "b"}
  Headroom = 1
  RuleTables <- Hairpin
  Mbufs = {m1, m2, m3, m4, m5}
  NoMbuf = NoMbuf
  NoFrame = NoFrame
  K = 2
  RingSize = 1
  Traffic = {"HTTP", "RTP", "UNKNOWN", "unsupported"}
  MaxArrivals = 4
SYMMETRY MbufSymmetry
INVARIANTS PoolSuffices LostAreUnruled StatsExact
