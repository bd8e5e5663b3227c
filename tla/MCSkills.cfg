SPECIFICATION Spec
CONSTANTS
    notes = notes
    NoTree = NoTree
    Link = Link
    Foreign = Foreign
    LastSlug = 2
    LastRelease = 2
    Locals = {notes}
    MaxFaults = 1
INVARIANTS
    PromisedSurvive
    ForeignIsKept
    MetadataIsHonest
