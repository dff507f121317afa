SPECIFICATION Spec
CONSTANTS
    Pieces <- TightPieces
    Pairs <- PlainPairs
    MaxPieces = 3
    MaxPairs = 3
    blank = " "
INVARIANTS
    FilledIn
