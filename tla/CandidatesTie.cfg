SPECIFICATION Spec
CONSTANTS
    None = None
    MaxInt = 2
    Catalogs <- MCCatalogs
    Constraints <- MCConstraints
    Pins <- MCPins
CHECK_DEADLOCK FALSE
INVARIANT
    CatalogOrderIrrelevant
