CONSTANTS
  s1 = s1
  s2 = s2
  a1 = a1
  a2 = a2
  Sessions = {s1, s2}
  Users = {u1}
  Addresses = {a1, a2}
  AddressOf <- Peers
  MaxFailures = 2
  FailuresWindow = 2
  Delay = 1
  Cap = 2
  Off = Off
SPECIFICATION FairSpec
INVARIANTS NobodyWaitsLongerThanCap
PROPERTIES ThrottledAttemptsWait EveryAttemptAnswered
