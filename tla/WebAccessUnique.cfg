SPECIFICATION Spec
CONSTANTS
  MaxUsers = 2
  Names = {"", "admin", "ann"}
  Passwords = {"pass"}
  DefaultName = "admin"
  DefaultPass = "pass"
  FlashFails = FALSE
  MaxSessions = 1
  Lifetime = 1
  MaxTime = 1
  MaxLogins = 1
INVARIANTS
  NamesAreUnique
