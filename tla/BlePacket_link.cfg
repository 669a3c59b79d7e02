\* Two phones and two connections; a buffer that no whole frame fills.
SPECIFICATION FairSpec
CONSTANTS
  Phones = {p1, p2}
  Steady = p1
  MaxConnections = 2
  Commands <- MCCommands
  Mtu = 8
  BuffSize = 200
  MaxCuts = 3
PROPERTIES WholeFramesArrive LinkResyncs
