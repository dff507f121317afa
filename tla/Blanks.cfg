SPECIFICATION Spec
CONSTANTS
    Pieces <- LoosePieces
    Pairs <- PlainPairs
    MaxPieces = 3
    MaxPairs = 2
    blank = " "
INVARIANTS
    NoneLeft
