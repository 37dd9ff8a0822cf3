\* Projects with and without the files of the lock set; read-only workspaces;
\* the agent makes links as well.
SPECIFICATION Spec
CONSTANTS
    Paths <- AllPaths
    Launches <- ManyLaunches
    Home <- HomeDir
    Kinds <- AllKinds
    MaxOps = 3
CHECK_DEADLOCK FALSE
INVARIANTS
    LeavesIntact
    ReadOnlyHolds
    RowsReported
