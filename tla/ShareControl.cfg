CONSTANTS
  Viewers = {v1, v2}
  NoOne = NoOne
  MaxShares = 1
  MaxRequests = 2
  MaxLeaves = 1
  MaxInputs = 1
SPECIFICATION Spec
INVARIANTS TypeOK SwitchFollowsControllers InjectedOnlyIfAllowed 
SYMMETRY Symmetry
CHECK_DEADLOCK FALSE
