CONSTANTS
    Symbols <- AnySymbol
    StatusMessages <- CodeAsMessage
    Routes <- OverlappingRoutes
    Malformed <- LeftOpen
    Handled <- WithHandler
    Shared <- None
    Requests <- RoutingRequests
    Codes <- RenderCodes
    Texts <- RenderTexts
    HeaderNames <- RenderHeaders
    MaxBody = 2
    MaxRequests = 1
    MaxChanges = 0
SPECIFICATION RoutingSpec
INVARIANTS
    RoutedAsMeant
    HandedOn
    ResponseReadable
PROPERTIES
    EveryRequestEnds
