SPECIFICATION FairSpec
CONSTANTS
    b1 = b1
    b2 = b2
    edit = edit
    NoFile = NoFile
    None = None
    Bytes <- MCBytes
    LocalEdits <- MCLocalEdits
    Sites <- AllSites
    MaxRemote = 3
    MaxFaults = 1
    MaxEdits = 1
INVARIANTS
    CapturedSurvives
    SourceAccounted
    DatesAreHonest
    SyncIsCurrent
PROPERTIES
    RetainsDownload
    Converges
    GapsHealUnlessMixed
    ImplementsArchive
