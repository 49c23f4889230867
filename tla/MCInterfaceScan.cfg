SPECIFICATION Spec
CONSTANTS
    Lo = lo
    Eth0 = eth0
    Br0 = br0
    Devices <- MCDevices
    States <- MCStates
    HardwareOf <- MCHardwareOf
    NotEthernet = "none"
    Unreadable <- MCUnreadable
    LocalOf <- MCLocalOf
    Faults = TRUE
    MaxDescriptors = 4
INVARIANTS
    TypeOK
PROPERTIES
    MacsAnswerForTheScan
    ListsAnswerForTheHost
    WildcardsBecomeAddresses
