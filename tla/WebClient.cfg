CONSTANTS
  p = p
  in = in
  out = out
  inRoom = inRoom
  Peers = {p}
  Daemon = Daemon
  Page = Page
  Room = Room
  Nobody = Nobody
  Messages = {in, out, inRoom}
  Author <- MCAuthor
  Dest <- MCDest
  MaxBreaks = 1
  MaxRequests = 4
  MaxArrivals = 1
  MaxQueue = 2
  MaxChanges = 2
SPECIFICATION Spec
INVARIANTS TypeOK ShownOnce ConversationComplete DeliveredShown OnlineMeansIntroduced RoomFollows
CHECK_DEADLOCK FALSE
