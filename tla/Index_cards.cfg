SPECIFICATION IndexSpec
CONSTANT Uncached = Uncached

INVARIANTS
    IndexTypeOK
    CacheIsCurrent
    LinksOpen
