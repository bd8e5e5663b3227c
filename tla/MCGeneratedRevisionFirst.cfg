SPECIFICATION Spec
CONSTANTS
    s1 = s1
    s2 = s2
    t1 = t1
    t2 = t2
    converted = converted
    edit = edit
    NoFile = NoFile
    None = None
    Unloaded = Unloaded
    Contents <- MCContents
    Remote <- MCRemote
    ConvertedTwin = converted
    LocalEdits <- MCLocalEdits
    KeyKinds = {"assignment"}
    MaxFaults <- MCMaxFaults
    MaxEdits = 0
PROPERTIES
    TransactionFirst
