CONSTANTS
  b1 = b1
  b2 = b2
  e1 = e1
  e2 = e2
  NoOwner = NoOwner
  NoElement = NoElement
  Procs <- TwoProcs
  Elements <- TwoElements
  RollOver <- FirstRollsOver
  Count = 3
  MaxDeaths = 1
SPECIFICATION Spec
INVARIANTS
  RingInv
  NeverHandedOn
PROPERTIES
  ImplementsRing
