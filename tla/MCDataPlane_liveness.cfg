\* Two ports, each sending to the other and one mirroring.
SPECIFICATION FairSpec
CONSTANTS
  NbPorts = 2
  Tags = {"a", "b"}
  Headroom = 1
  RuleTables <- Exclusive
  Mbufs = {m1, m2, m3}
  NoMbuf = NoMbuf
  NoFrame = NoFrame
  K = 2
  RingSize = 1
  Traffic = {"HTTP"}
  MaxArrivals = 1
PROPERTIES Terminates Flushed
