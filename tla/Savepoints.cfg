CONSTANTS
  MaxPages = 3
  InitSize = 2
  Names = {"a"}
  MaxDepth = 2
  MaxWrites = 2
  MaxFrames = 3
  MaxMoves = 2
  StaleSavepoints = FALSE
  EvictRestored = FALSE
  Fks = {0, 1}
SPECIFICATION Spec
INVARIANTS
  TypeOK
  SeesItsImage
  CommittedIsShared
  SavepointsNest
  DirtyPagesExist
