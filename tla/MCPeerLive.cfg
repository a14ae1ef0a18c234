SPECIFICATION PeerSpec
CONSTANTS
    c1 = c1
    c2 = c2
    Clients <- MCOneClient
    TrustedSets <- MCOneTrusted
    Slots <- MCWideSlots
    RoundTrips = 1
    Transfers <- MCWide
PROPERTIES
    RunReturns
    NoGoroutineLeaks
    ServerStops
