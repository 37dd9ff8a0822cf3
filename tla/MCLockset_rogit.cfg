\* The pin of a lock set re-opens a read-only workspace.
SPECIFICATION Spec
CONSTANTS
    Paths <- AllPaths
    Launches <- ReadOnlyGit
    Home <- HomeDir
    Kinds <- FilesAndDirs
    MaxOps = 3
CHECK_DEADLOCK FALSE
INVARIANTS
    ReadOnlyHolds
