CONSTANTS
  Viewers = {v1}
  NoOne = NoOne
  MaxShares = 1
  MaxRequests = 1
  MaxLeaves = 0
  MaxInputs = 0
SPECIFICATION Spec
INVARIANT PanelMeansControl
CHECK_DEADLOCK FALSE
