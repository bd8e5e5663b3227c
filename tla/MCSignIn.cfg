SPECIFICATION Spec
CONSTANTS
    auth = auth
    render = render
    home = home
    script = script
    frame = frame
    None = None
    Everyday = Everyday
    Reply = Reply
    Identity = Identity
    Fault = Fault
    Failure = Failure
    Terminals <- MCTerminals
    Requests <- MCRequests
    Undeclared <- MCUndeclared
    Documents <- MCDocuments
    Auth = auth
    MaxLaunches = 2
    MaxMishaps = 1
    MaxWire = 2
INVARIANTS
    EndpointIsDedicated
    NothingIsLeftBehind
    GateHolds
