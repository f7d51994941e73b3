CONSTANTS
  s1 = s1  s2 = s2  a = a  b = b
  Sessions = {s1, s2}
  Peers = {a, b}
  PeerOf <- TwoPeerOf
  ConfMin = 2
  ConfMax = 1
  MaxTries = 2
  TimeWait = 0
  MaxClock = 1
  NoSession = NoSession
SPECIFICATION ScanSpec
SYMMETRY Mirrored
INVARIANTS ListeningStageExclusive NoLeakedPort LeasesCounted FreePortFirst
