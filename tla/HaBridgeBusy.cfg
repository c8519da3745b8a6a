SPECIFICATION Spec
CONSTANTS
  NRelays = 1
  NInputs = 0
  SeqMod = 1
  Contention = TRUE
  TxCap = 2
  RxCap = 1
  MidMod = 2
  IdFails = TRUE
  Rest = TRUE
INVARIANTS
  OldIsReported
PROPERTIES
  QueueKeepsUnsent
  TopicsAreWhole
  RegisterImplemented
