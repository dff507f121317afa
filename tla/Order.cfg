SPECIFICATION Spec
CONSTANTS
    Pieces <- TightPieces
    Pairs <- BracePairs
    MaxPieces = 3
    MaxPairs = 2
    blank = " "
INVARIANTS
    FilledIn
