CONSTANTS
  Bytes <- MCBytes
  Commands <- MCCommands
  Serialize <- serializeToRESP
  Symbols <- MCSymbols
  AppendOnly = TRUE
  MaxLogged = 56
  Junk <- MCJunk
  MaxCrashes = 2
SPECIFICATION RecoverySpec
INVARIANT WholeRecordsSurvive
