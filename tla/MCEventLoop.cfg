CONSTANTS
  MaxFd <- MCMaxFd
  MaxInbox = 2
  MaxBacklog = 1
  MaxPagers = 4
  MaxUnread = 1
  MaxNaps = 1
SPECIFICATION LoopFairSpec
INVARIANTS BatchServesReadyOnce ConnectionsAgree
PROPERTIES DataIsServed ClosedIsReclaimed
CHECK_DEADLOCK FALSE
