SPECIFICATION RoomsSpec
CONSTANTS
  Daemon = {a, b, c}
  Owner = a
  MaxRequests = 6
  MaxLost = 1
CHECK_DEADLOCK FALSE
SYMMETRY MemberSymmetry
INVARIANTS MeshAgrees
