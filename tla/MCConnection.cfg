SPECIFICATION ConnectionSpec
CONSTANTS
    home = home
    api = api
    other = other
    first = first
    second = second
    NoSession = NoSession
    NoCall = NoCall
    LastPage = LastPage
    MaxSessions = 3
    Targets <- MCTargets
    Elsewhere <- MCElsewhere
    MaxRetries = 2
    MaxRedirects = 2
    Bookmarks <- MCBookmarks
    MaxPages = 3
INVARIANTS
    LoadIsNewest
    RequestsAreBounded
PROPERTIES
    DiscoveryEnds
