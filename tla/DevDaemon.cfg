CONSTANTS
  Socks = {s1, s2}
  NoSock = NoSock
  Calls = {"list", "scan_start", "send", "create", "join", "members", "other"}
  Long = {"send"}
  MaxRequests = 2
SPECIFICATION DevSpec
INVARIANTS ParserKeepsUp
SYMMETRY Symmetry
CHECK_DEADLOCK FALSE
