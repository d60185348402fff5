CONSTANTS
    p1 = p1  p2 = p2  m1 = m1  m2 = m2  m3 = m3
    z1 = z1  z2 = z2  c1 = c1  c2 = c2  l1 = l1
    None = None
    Pools <- MCPools
    Migs <- MCMigs
    MigPool <- MCMigPool
    ZoneOf <- MCZoneOf
    Locations = {z1}
    Configs = {c1}
    Limits = {l1}
    AutoprovPools = {p2}
    NapMode = TRUE
    RefreshInterval = 1
    MachinesRefreshInterval = 2
    RegenerateInterval = 2
    Malformed = {m2}
SPECIFICATION Spec
INVARIANT TypeOK
INVARIANTS
    IndexNamesOnlyRegistered
    RegistryReflectsCleanListing
