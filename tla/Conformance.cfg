SPECIFICATION Spec
CONSTANTS
    None = None
    NoFile = NoFile
    Torn = Torn
    Texts <- MCTexts
    Atoi <- MCAtoi
    Listed <- MCListed
    Shares <- MCShares
    Third = 1
    Least <- MCLeast
    Preserved <- MCPreserved
    Contents = {"cat1", "cat2", "junk"}
    Decoded = {"cat1", "cat2"}
    LockFiles = {"cat1", "cat2"}
    MaxWrites = 2
    Worlds <- MCWorlds
    RootNames = {"a", "b", "c", "other"}
    Artifacts <- MCArtifacts
    Directory <- MCDirectory
    Rank <- MCRank
    MaxCommands = 2
INVARIANTS
    TypeOK
    AsDeclared
    OrderFree
    CatalogVouched
    EveryCellObserved
    SummaryReportsIndex
    SummaryMatchesEvidence
    EvidenceInPlace
    ReplayFollows
PROPERTY
    Terminates
CHECK_DEADLOCK FALSE
