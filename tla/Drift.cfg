SPECIFICATION FairSpec
CONSTANTS
    c1 = c1
    NoImage = NoImage  NoVersion = NoVersion  NoSpec = NoSpec
    ArchOf <- TwoTypes
    Zones <- TwoZones
    Claims = {c1}
    Specs <- ManySpecs
    Listings <- ThreeListings
    MaxEdits = 2  MaxTouches = 1  MaxFaults = 1
INVARIANTS TypeOK NoCauselessDrift ReplacementsBounded LookupsRight
PROPERTIES Settles
