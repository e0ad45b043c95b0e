SPECIFICATION FairSpec
CONSTANTS
  d1 = d1
  d2 = d2
  d3 = d3
  Device = {d1, d2}
  Segment <- OneSegment
  Timeout = 3
  MaxLosses = 0
  MaxChanges = 1
  MaxDrops = 0
  MaxCrashes = 0
PROPERTY HeartbeatGoesOn
