CONSTANTS
  Networks = {a1, a2}
  Reporters = {s1}
  Ids = {i1, i2, i3}
  NoId = NoId
  NoAddress = NoAddress
  Options <- Limits
  MaxAge = 2
SPECIFICATION FairBanSpec
INVARIANTS FailuresAreTimed
PROPERTIES BanNeedsBurst EveryBanEnds
