SPECIFICATION Spec
CONSTANTS
    Null = Null
    None = None
    Empty = Empty
    Values <- MCValues
    Worlds <- MCWorlds
    Specs <- MCSpecs
    Blank <- MCBlank
    Matching <- MCMatching
    LengthOf <- MCLengthOf
    NamesIn <- MCNamesIn
    Columns <- MCColumns
    Breakable = {"statement", "sample"}
    MaxWrites = 1
    Now = 25
    TopLimit = 10
    MinRows = 12
    MaxDistinct = 11
INVARIANTS
    CheckTypeOK
    VerdictsTrue
    Tolerated
    Evidence
    SuggestionsApply
