SPECIFICATION Spec
CONSTANTS
    Kinds = {1, 2, 4, 8, 16}
    Texts <- MCTexts
    OctetLists <- MCOctetLists
    Ports = {0, 7, 30000}
    Compared <- MCCompared
INVARIANTS
    TypeOK
    PartsKeepApart
    PrintedPartsRebuild
    AllPartsOrNone
    PortHalvesApart
    AnswersAgree
    CreatedFromTextAlone
    OrderAgreesWithEquality
