CONSTANTS
    s1 = s1
    s2 = s2
    i1 = i1
    i2 = i2
    i3 = i3
    net = net
    fw = fw
    secret = secret
    l1 = l1
    NoImage = NoImage
    Selectors = {s1}
    Unsupported = {}
    Images = {i1, i2}
    ArchOf <- MCArchOf
    SelectorOf <- MCSelectorOf
    Network = net
    Resources = {}
    UserDataSecrets = {}
    Launchers = {l1}
    MaxGeneration = 1
    MaxChurn = 1
SPECIFICATION Spec
INVARIANTS NotReadyIsEvidence
