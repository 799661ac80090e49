SPECIFICATION Spec
CONSTANTS
  a1 = a1  a2 = a2  NoAddress = NoAddress
  Address = {a1, a2}
  Name = {"name"}
  User = {1, 2}
  Code = {1, 2, 3, 4}
  Session = {1, 2, 3}
  Request = {1, 2}
  Limited = {"login"}
  Limit <- OneLimit
  MaxCalls = 3
  MaxFaults = 1
  Faults = {"mail", "expiry"}
INVARIANT CodeUsedOnce
INVARIANT SignedInProved
PROPERTY WindowEnds
CHECK_DEADLOCK FALSE
