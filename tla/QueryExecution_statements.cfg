CONSTANTS
    docA = docA
    docB = docB
    docC = docC
    plain = plain
    multi = multi
    part = part
    mid = mid
    leaf = leaf
    parent = parent
    child = child
    body = body
    tenant = tenant
    owner = owner
    ip = ip
    ia = ia
    ib = ib
    iq = iq
    iroot = iroot
    imid = imid
    ileaf = ileaf
    jleaf = jleaf
    ih = ih
    ihc = ihc
    NoIndex = NoIndex
    NoTable = NoTable
    NoColumn = NoColumn
    Docs = {docA, docB, docC}
    Catalog <- MCCatalog
    CatalogOrder <- MCOrder
    TableParent <- MCTableParent
    Attno <- MCAttno
    Score <- MCScore
    Ctid <- MCCtid
    Value <- MCValue
    Statements <- MCStatements
    OtherLimits <- MCOtherLimits
    MAX_INHERITANCE_DEPTH = 3
    PartitionDepth = 4
    tp_default_limit = 2
    TP_MAX_QUERY_LIMIT = 4
    segments_per_level = 2
SPECIFICATION Spec
INVARIANTS
    TypeOK
    NamedIndexHonoured
    TenantKeepsRows
    ScanExact
    CachedIdfFresh
