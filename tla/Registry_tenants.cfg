CONSTANTS
    InvalidBlockNumber = InvalidBlockNumber
    Backends = {b1, b2}
    Rows = {r1, r2, r3}
    Tenants = {r1, r2, r3}
    TenantOf <- OneRowEach
    MaxStates = 2
    MaxForkedRows = 2
    BatchSize = 2
SYMMETRY Symmetries
SPECIFICATION Spec
INVARIANT TenantsKnown
