SPECIFICATION Spec
CONSTANTS
  first = first
  second = second
  u1 = u1
  u2 = u2
  u3 = u3
  Objects = {first, second}
  Users = {u1, u2, u3}
  ObjectOf <- Shared
  MaxInterrupts = 1
  MaxFailures = 1
  MaxSems = 4
  NoOwner = NoOwner
INVARIANTS PermitsCounted
PROPERTIES ImplementsLock
CHECK_DEADLOCK FALSE
