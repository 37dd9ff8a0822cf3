\* An absent .git/hooks is neither locked nor watched.
SPECIFICATION Spec
CONSTANTS
    Paths <- AllPaths
    Launches <- HooksAbsent
    Home <- HomeDir
    Kinds <- FilesAndDirs
    MaxOps = 2
CHECK_DEADLOCK FALSE
INVARIANTS
    LockSetReported
