SPECIFICATION DeliverySpec
CONSTANTS
    Factories = {f1}
    Slots = {s1}
    Callbacks = {c1}
    Locators <- MCMixed
    Descriptors = {1, 2}
    AnyTail <- MCAny
    Groups <- MCGroups
    Bindable <- MCBindable
    Unbound = Unbound
    Gone = Gone
    NoCallback = NoCallback
    Faults = FALSE
    MaxHandles = 3
    MaxSends = 2
INVARIANTS
    DeliveryTypeOK
    NobodyInterceptsUnicast
    NothingMisdelivered
    ConsumedOnceInOrder
PROPERTIES
    ArrivalsAreConsumed
