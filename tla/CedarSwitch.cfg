SPECIFICATION FairSpec
CONSTANTS
  NRelays = 1
  NInputs = 0
  SeqMod = 1
  Contention = FALSE
  TxCap = 1
  RxCap = 1
  MidMod = 2
  IdFails = FALSE
  Default = {1}
INVARIANTS
  CommandsNotLost
PROPERTIES
  IoSpec
  PinsObey
  FailsafeEndToEnd
