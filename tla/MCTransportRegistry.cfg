SPECIFICATION Spec
CONSTANTS
    Descriptors <- MCDescriptors
    A = a
    B = b
    Lists <- MCLists
    Locators <- MCLocators
    Interfaces <- MCInterfaces
    Ports <- MCPorts
    Tails = {"any", "h1", "h2", "group", "loopback"}
    Heads = {"zeros"}
    AnyTail = "any"
    AnyHead = "zeros"
    GroupOf <- MCGroupOf
    LoopbackOf <- MCLoopbackOf
    MaxUInt32 = 9
    MaxLen <- MCMaxLen
SYMMETRY MCSymmetry
INVARIANTS
    TypeOK
    MaxMessageIsSmallest
    AssignReplaces
    NormalizedIsExpansion
    NormalizationSettles
    ShmIsFallback
PROPERTIES
    CallsKeepListsDistinct
