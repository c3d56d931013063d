SPECIFICATION Spec
CONSTANTS
    None = None
    Package <- MCPackage
    Root = "root"
    Path <- MCPath
    Bytes <- MCBytes
    Parsed <- MCParsed
    Sha256 <- MCSha256
    Admits <- MCAdmits
    Disk <- MCDisk
    ContractId <- MCContractId
    Worlds <- ReuseWorlds
    Rewrites = {}
    MaxRewrites = 0
CHECK_DEADLOCK FALSE
INVARIANTS
    RootImportsBound
