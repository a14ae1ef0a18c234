SPECIFICATION PeerSpec
CONSTANTS
    c1 = c1
    c2 = c2
    Clients <- MCClients
    TrustedSets <- MCTrustedSets
    Slots <- MCSlots
    RoundTrips = 1
    Transfers <- MCTransfers
INVARIANTS
    PeerTypeOK
    OneSessionServed
    HolderNeverRefused
PROPERTIES
    PhasesDoNotOverlap
