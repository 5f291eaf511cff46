CONSTANTS
    Symbols <- AnySymbol
    StatusMessages <- CodeAsMessage
    Routes <- TwoRoutes
    Malformed <- None
    Handled <- TwoPatterns
    Shared <- TwoPatterns
    Requests <- MethodRequests
    Codes <- OneCode
    Texts <- None
    HeaderNames <- None
    MaxBody = 0
    MaxRequests = 2
    MaxChanges = 2
SPECIFICATION TableSpec
INVARIANTS
    DispatchTypeOK
    TableObeyed
    AllowNamesTable
