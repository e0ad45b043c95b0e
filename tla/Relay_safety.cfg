SPECIFICATION Spec
CONSTANTS
  Device = {d1, d2, d3}
  None = None
  MaxConns = 3
  MaxVersion = 2
  MaxLosses = 1
  MaxRestarts = 1
CHECK_DEADLOCK FALSE
SYMMETRY DeviceSymmetry
INVARIANTS RoutesAgree RosterComplete RosterExact
