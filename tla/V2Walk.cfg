SPECIFICATION Spec
CONSTANTS
    None = None
    Package <- MCPackage
    Root = "root"
    Path <- MCPath
    Bytes <- MCBytes
    Parsed <- MCParsed
    Sha256 <- MCSha256
    Admits <- MCAdmits
    Disk <- MCDisk
    ContractId <- MCContractId
    Worlds <- WalkWorlds
    Rewrites <- EvidenceRewrites
    MaxRewrites = 2
CHECK_DEADLOCK FALSE
INVARIANTS
    TypeOK
    WalkedOnce
    Acyclic
    ClosedIsComplete
    LinksAreDeclared
    VerifiedSelection
    LowestCompatible
    RefutationPrevails
    MergeServesLinks
    Generates
PROPERTIES
    OnlyGrows
    ImplementsLinkGraph
    Terminates
