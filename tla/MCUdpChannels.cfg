SPECIFICATION Spec
CONSTANTS
    Factories = {f1, f2}
    Slots = {s1}
    Callbacks = {c1}
    Locators <- MCWithLogical
    Descriptors = {1}
    AnyTail <- MCAny
    Groups <- MCGroups
    Bindable <- MCBindable
    Unbound = Unbound
    Gone = Gone
    NoCallback = NoCallback
    Faults = TRUE
    MaxHandles = 3
INVARIANTS
    TypeOK
    ReceiverOwnsChannel
    DispatchTargetsListed
    UnicastChannelsExclusive
    SendersAndReceiversApart
    GroupOpensNeverBlocked
    OneConsumerPerLocator
PROPERTIES
    BoundSocketsUndisturbed
    DirectorySpec
SYMMETRY MCSymmetry
