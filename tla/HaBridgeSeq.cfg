SPECIFICATION Spec
CONSTANTS
  NRelays = 2
  NInputs = 0
  SeqMod = 8
  Contention = FALSE
  TxCap = 2
  RxCap = 1
  MidMod = 2
  IdFails = FALSE
  Rest = TRUE
PROPERTIES
  SeqIdentifiesMessage
