CONSTANTS
    NoSlot = NoSlot
    Alphabets <- MCAlphabets
    Pieces <- MCPieces
    MaxPieces = 4
    Placements <- MCPlacements
    MaxUses = 4
    Columns <- MCColumns
    Mantissa = 7
    FloatMantissa = 3
    Exponents = 11
    WordBits = 6
    WordDigits = 1
    WideDigits = 3
    FracDigits = 2
    Sixty = 3
    HoursOfDay = 2
SPECIFICATION Spec
CHECK_DEADLOCK FALSE
INVARIANTS
    SeparatorsAgree
    MultipleIsSeen
    PlaceholdersAgree
    PlaceholdersAreCode
    EffectsAgree
    SlotsFitTheArray
    ExpansionBindsAlike
    ChecksDecideTheCast
    RenderedExactly
