SPECIFICATION Spec
CONSTANTS
    None = None
    Package <- MCPackage
    Root = "root"
    Path <- MCPath
    Bytes <- MCBytes
    Parsed <- MCParsed
    Admits <- MCAdmits
    Catalogs <- MCCatalogs
    Roots <- MCRoots
    Lockfiles <- MCLockfiles
    Disk <- MCDisk
    Rewrites <- MCRewrites
    MaxRewrites = 1
CHECK_DEADLOCK FALSE
INVARIANTS
    SelectedBytesMatch
