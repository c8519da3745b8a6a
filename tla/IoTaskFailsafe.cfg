SPECIFICATION IoFairSpec
CONSTANTS
  NRelays = 1
  SeqMod = 1
  Contention = FALSE
PROPERTIES
  FailsafeOnLostConnection
