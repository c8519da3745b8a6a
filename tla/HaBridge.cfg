SPECIFICATION FairSpec
CONSTANTS
  NRelays = 1
  NInputs = 1
  SeqMod = 1
  Contention = FALSE
  TxCap = 1
  RxCap = 1
  MidMod = 2
  IdFails = FALSE
  Rest = TRUE
INVARIANTS
  TypeOK
  StatusMatchesLink
PROPERTIES
  OpenConnectionNotForgotten
  NoStatusAfterPartialRegistration
  HomeAssistantConverges
  EventuallyRegistered
  HaKeepsServing
