SPECIFICATION Spec
CONSTANTS
    MaxKeys = 3
    MaxCommits = 2
    MaxErrors = 2
    MaxCrashes = 1
    HotCopies = FALSE
INVARIANTS BackupFaithful LockoutWindow
PROPERTIES RestoreExact
CHECK_DEADLOCK FALSE
