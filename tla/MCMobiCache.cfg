CONSTANTS
  x = x
  y = y
  z = z
  Me = me
  Node = {x, y, z}
  Route <- MCRoute
  Heard <- MCHeard
  PSize = 2
  SSize = 2
SPECIFICATION Spec
INVARIANTS TypeOK PathsWellFormed CachedLinksKnown FoundIsShortest
PROPERTIES AddedRouteFound SearchLosesVictim IsRouteStore
