CONSTANTS
  Sessions = {s1, s2}
  Names = {"ann", "bob"}
  System = "sys"
  Groups = {"g"}
  Configs <- Four
  NoToken = "no token"
  None = "none"
  MaxReloads = 2
  MaxUsers = 3
SPECIFICATION FairSpec
INVARIANTS UsesTheSettings OneUserPerName
PROPERTIES LimitHoldsForTheName ChangesArrive
CHECK_DEADLOCK FALSE
