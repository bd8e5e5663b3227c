SPECIFICATION FairSpec
CONSTANTS
    t1 = t1
    t2 = t2
    c1 = c1
    c2 = c2
    NoFile = NoFile
    Browser = Browser
    Terminals <- MCTerminals
    Contents <- MCContents
    SizeOf <- MCSizeOf
    TTL = 1
    MaxPreviews <- MCMaxPreviews
    MaxUploads = 1
    MaxFaults = 1
    MaxEdits = 1
INVARIANTS
    SentAsPreviewed
    OnePostPerPreview
    VerifiedIsStored
    AttemptIsRecorded
PROPERTIES
    CopiesAreRemoved
