SPECIFICATION Spec
CONSTANTS
    Null = Null
    None = None
    Empty = Empty
    Values <- MCValues
    Worlds <- MCWorlds
    Specs = {}
    Blank <- MCBlank
    Matching <- MCMatching
    LengthOf <- MCLengthOf
    NamesIn <- MCNamesIn
    Columns <- MCTexts
    Breakable = {}
    MaxWrites = 0
    Now = 25
    TopLimit = 10
    MinRows = 12
    MaxDistinct = 11
INVARIANT SuggestionsHold
