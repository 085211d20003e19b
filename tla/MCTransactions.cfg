CONSTANTS
  k = k
  v = v
  w = w
  Conns = {c1, c2}
  Commands <- MCMixed
  Serialize <- MCRecord
  Symbols <- MCMixed
  AppendOnly = FALSE
  MaxLogged = 3
  MaxQueue = 2
  MaxCrashes = 0
  BadOption = BadOption
  Closed = Closed
  Idle = Idle
  Down = Down
  Keys = {k}
  Words = {v, w}
  LLONG_MIN <- MCMin
  LLONG_MAX = 1
  SetOptions <- MCOptions
  Second = 1
  MaxTime = 0
  NoEntry = NoEntry
  NoExpiry = NoExpiry
  NoOption = NoOption
  ListKeys = {k}
  Items = {v}
  Batches <- MCNone
  Indices <- MCNone
  MaxList = 1
  NoList = NoList
  StreamKeys = {k}
  Payloads = {v}
  UINT64_MAX = 1
  MaxEntries = 1
  MaxNaps = 1
  XReads <- MCNone
  Dollar = Dollar
  NoStream = NoStream
  Forever = Forever
  Awake = Awake
SPECIFICATION ServerFairSpec
INVARIANTS ExecWalksItsQueue QueueOnlyInMulti
PROPERTY RequestsAnswered
