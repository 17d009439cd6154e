SPECIFICATION FairSpec
CONSTANTS
    e1 = e1  e2 = e2  report = report  scan = scan
    register = register  siteA = siteA  siteB = siteB  k1 = k1  spare = spare  k2 = k2
    Edges = {e1, e2}
    Runs = {report, scan}
    Imports = {register}
    Sites = {siteA, siteB}
    Credentials = {k1, spare, k2}
    Deliveries = {d1, d2}
    None = None
    Sealed <- MCSealed
    Reports = {report}
    SiteOf <- MCSiteOf
    Uses <- MCUses
    EdgeOf <- MCEdgeOf
    Scopes <- MCScopes
    KeyOf <- MCKeyOf
    LegacyEdges = {e1}
    BundleLimits = {1, 2}
    MaxFaults = 2
INVARIANTS AcknowledgedIsStored AcceptanceIsTheStore
PROPERTIES StoredNeverChanges StoredUnderAuthority ResendIsNeverConflict PendingIsAcknowledged
CHECK_DEADLOCK FALSE
