CONSTANTS
  s1 = s1
  s2 = s2
  StreamKeys = {s1, s2}
  Payloads = {f}
  UINT64_MAX = 2
  MaxEntries = 2
  MaxNaps = 2
  XReads <- MCXReads
  NoStream = NoStream
  Dollar = Dollar
  Forever = Forever
  Awake = Awake
SPECIFICATION StreamFairSpec
INVARIANTS StreamTypeOK StreamsOrdered PagingIsLossless AutoIdUsable
PROPERTIES StreamsAppendOnly SleepDeliversNothing BlockedXReadReturns
