SPECIFICATION Spec
CONSTANTS
  Names = {a, b}
  Index = a
  MaxDepth = 2
  Data = {p}
  PageData = p
  PageLen = 1
  MaxSize = 2
  BufCap = 2
  MountFails = FALSE
  FlashFails = FALSE
  MaxKept = 1
  FlashFull = FALSE
INVARIANTS
  DeletionIsComplete
