CONSTANTS
  Bytes <- MCBytes
  Commands <- MCCommands
  Serialize <- serializeToRESP
  Symbols <- MCSymbols
  AppendOnly = TRUE
  MaxLogged = 56
  Junk <- MCJunk
  MaxCrashes = 1
SPECIFICATION RecoverySpec
INVARIANT RestoresMemory
