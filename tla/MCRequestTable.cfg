CONSTANTS
  n1 = n1
  n2 = n2
  n3 = n3
  Node = {n1, n2, n3}
  Size = 2
  Targets = {"me", "other"}
  MaxReq = 2
  Free = Free
SPECIFICATION Spec
SYMMETRY Symmetry
INVARIANTS TypeOK OneEntryPerNode ForwardedOnce
