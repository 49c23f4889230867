SPECIFICATION Spec
CONSTANTS
    Kinds = {2, 8, 16}
    Addresses <- MCAddresses
    Texts <- MCTexts
INVARIANTS
    TypeOK
    EveryNotationReads
    CompressedTextsAreMeant
    PrintedIsCanonical
