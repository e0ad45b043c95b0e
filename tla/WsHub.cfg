CONSTANTS
  Peers = {p1}
  Pages = {w1}
  None = None
  MaxFrames <- FewFrames
SPECIFICATION FairSpec
INVARIANTS TypeOK AcceptFillsLast TablesAgree MessagesDelivered
PROPERTIES FrameLinkSpec NobodyBlocks
CHECK_DEADLOCK FALSE
