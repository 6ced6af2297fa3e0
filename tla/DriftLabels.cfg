SPECIFICATION FairSpec
CONSTANTS
    c1 = c1
    NoImage = NoImage  NoVersion = NoVersion  NoSpec = NoSpec
    ArchOf <- TwoTypes
    Zones <- TwoZones
    Claims = {c1}
    Specs <- ManagedLabelSpecs
    Listings <- OneListing
    MaxEdits = 0  MaxTouches = 0  MaxFaults = 0
INVARIANTS ManagementLabelsPermitted
