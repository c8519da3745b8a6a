SPECIFICATION Spec
CONSTANTS
  MaxUsers = 2
  Names = {"", "admin", "ann"}
  Passwords = {"pass", "word"}
  DefaultName = "admin"
  DefaultPass = "pass"
  FlashFails = TRUE
  MaxSessions = 2
  Lifetime = 2
  MaxTime = 4
  MaxLogins = 4
INVARIANTS
  TypeOK
  SomebodyCanLogIn
  ListedIsEffective
  LiveUnlessSuperseded
  DeletedIsGone
  AddedIsKept
PROPERTIES
  RegistryImplemented
