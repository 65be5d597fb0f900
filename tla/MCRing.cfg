CONSTANTS
    Blank = Blank
    Values = {a, b}
    sz = 4
    Ordered = TRUE
SPECIFICATION Spec
INVARIANT TypeOK
INVARIANT SlotsDisjoint
PROPERTY ImplementsFifo
