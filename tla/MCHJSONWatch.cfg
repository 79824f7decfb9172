SPECIFICATION Spec
CONSTANTS
  Dirs = {"root", "a", "b", "c"}
  RootDir = "root"
  Parent <- MCParent
  MaxEdits = 3
  QueueCap = 2
INVARIANTS
  TypeOK
  NoticedChangesImported
  EveryDirWatched
PROPERTY SettlesDown
CHECK_DEADLOCK FALSE
