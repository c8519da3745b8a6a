SPECIFICATION Spec
CONSTANTS
  NDef = 2
  NMqtt = 1
  BodyCap = 2
  FlashFails = TRUE
INVARIANTS
  TypeOK
  RebootReported
  AnsweredIsStored
  AppliedAfterReboot
