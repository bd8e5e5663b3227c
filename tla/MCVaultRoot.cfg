SPECIFICATION Spec
CONSTANTS
    manifest = manifest
    log = log
    None = None
    Names <- MCNames
    Files <- MCFiles
    Schemas <- MCSchemas
    Registered <- MCRegistered
    MaxFaults = 2
INVARIANTS
    VersionIsHonest
    OriginalIsKept
    FailedIsUnchanged
CHECK_DEADLOCK FALSE
