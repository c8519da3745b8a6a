SPECIFICATION Spec
CONSTANTS
  Names = {a, b}
  Index = a
  MaxDepth = 2
  Data = {p}
  PageData = p
  PageLen = 1
  MaxSize = 2
  BufCap = 2
  MountFails = TRUE
  FlashFails = TRUE
  MaxKept = 1
  FlashFull = TRUE
INVARIANTS
  TypeOK
  CleanUploadIsExact
  AnsweredSizeIsNext
  RootIsThere
  DeletedMeansEmpty
  DeletionProgresses
PROPERTIES
  SizeBounded
