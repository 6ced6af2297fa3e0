CONSTANTS
    a1 = a1
    a2 = a2
    b1 = b1
    Claims = {a1, b1}
    ClusterOf <- MCClusterOf
    PoolOf <- HyphenatedPools
    Strategies <- MCStrategies
    SpecLabels <- ClashingLabels
    MaxServers = 2
    MaxFaults = 0
SPECIFICATION Spec
INVARIANTS GroupsScopedToCluster
CHECK_DEADLOCK FALSE
