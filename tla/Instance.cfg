CONSTANTS
    a1 = a1
    a2 = a2
    b1 = b1
    Claims = {a1, a2, b1}
    ClusterOf <- MCClusterOf
    PoolOf <- SamePools
    Strategies <- MCStrategies
    SpecLabels <- ClashingLabels
    MaxServers = 3
    MaxFaults = 2
SPECIFICATION FairSpec
INVARIANTS TypeOK FinalizedMeansGone OneServerPerClaim NoStrays ListedByOwnCluster PoolSharesGroup SamePoolApart
PROPERTIES ClaimsFinalized
CHECK_DEADLOCK FALSE
