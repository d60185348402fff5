CONSTANTS
    v1 = v1  v2 = v2  k1 = k1  k2 = k2  c1 = c1  c2 = c2
    ns1 = ns1  ns2 = ns2  sAll = sAll  sOne = sOne
    NilSelector = NilSelector
    RecommendationProvided = RecommendationProvided
    Nil = Nil
    VpaIDs = {v1}
    Keys = {k1, k2}
    Containers = {c1, c2}
    Namespaces = {ns1, ns2}
    Selectors = {sAll, sOne, NilSelector}
    CondTypes = {RecommendationProvided}
    ContainerOf <- MCContainerOf
    KeyNs <- MCKeyNs
    VpaNs <- MCVpaNs
    SelMatches <- MCSelMatches
    TypeRank <- MCTypeRank
    MaxTime = 4
    GCInterval = 1
    CheckpointsGCInterval = 1
    UseCheckpoints = TRUE
SPECIFICATION Spec
INVARIANT TypeOK
INVARIANT UsedAggregationsMatch
