SPECIFICATION FairSpec
CONSTANTS
    topic = topic
    assignment = assignment
    quiz1 = quiz1
    quiz2 = quiz2
    Item <- MCItem
    CollectionOf <- MCCollectionOf
    Collections <- MCCollections
    Postings <- MCPostings
    Exposures <- MCExposures
    MaxChanges = 2
    MaxFaults = 1
INVARIANTS
    MarkedWasGone
    StatusIsHonest
PROPERTIES
    CompleteIsCaptured
    RemovedIsWithdrawn
    InitFinishesUnlessIncomplete
