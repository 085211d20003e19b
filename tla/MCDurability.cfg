CONSTANTS
  k = k
  v = v
  w = w
  Conns = {c1}
  Commands <- MCWrites
  Serialize <- MCRecord
  Symbols <- MCWrites
  AppendOnly = TRUE
  MaxLogged = 4
  MaxQueue = 2
  MaxCrashes = 1
  BadOption = BadOption
  Closed = Closed
  Idle = Idle
  Down = Down
  Keys = {k}
  Words = {v, w}
  LLONG_MIN <- MCMin
  LLONG_MAX = 1
  SetOptions <- MCOptions
  Second = 1
  MaxTime = 1
  NoEntry = NoEntry
  NoExpiry = NoExpiry
  NoOption = NoOption
  ListKeys = {k}
  Items = {v}
  Batches <- MCNone
  Indices <- MCNone
  MaxList = 2
  NoList = NoList
  StreamKeys = {k}
  Payloads = {v}
  UINT64_MAX = 1
  MaxEntries = 1
  MaxNaps = 1
  XReads <- MCNone
  Dollar = Dollar
  NoStream = NoStream
  Forever = Forever
  Awake = Awake
SPECIFICATION ServerSpec
INVARIANTS LogMirrorsMemory LogInOrder
PROPERTIES FileOnlyGrows TypesChangeForAReason
