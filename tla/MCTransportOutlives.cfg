SPECIFICATION Spec
CONSTANTS
    Factories = {f1}
    Slots = {s1}
    Callbacks = {c1}
    Locators <- MCOverlapping
    Descriptors = {1}
    AnyTail <- MCAny
    Groups <- MCGroups
    Bindable <- MCBindable
    Unbound = Unbound
    Gone = Gone
    NoCallback = NoCallback
    Faults = FALSE
    MaxHandles = 2
INVARIANTS
    TransportOutlivesReceiver
