CONSTANTS
  Keys = {k1, k2}
  Words = {w}
  LLONG_MIN <- MCMin
  LLONG_MAX <- MCMax
  SetOptions <- MCSetOptions
  Second = 2
  MaxTime = 3
  NoEntry = NoEntry
  NoExpiry = NoExpiry
  NoOption = NoOption
SPECIFICATION StoreSpec
INVARIANT StoreTypeOK
PROPERTY LazyExpiryUnobservable
