SPECIFICATION InitSpec
CONSTANTS
    topic = topic
    assignment = assignment
    quiz1 = quiz1
    quiz2 = quiz2
    Item <- MCItem
    CollectionOf <- MCCollectionOf
    Collections <- MCCollections
    Postings <- MCPostings
    Exposures <- MCExposures
    MaxChanges = 0
    MaxFaults = 2
PROPERTIES
    InitFinishes
