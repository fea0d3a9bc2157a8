SPECIFICATION Spec
CONSTANTS
    d1 = d1  d2 = d2  b1 = b1  b2 = b2
    empty = empty  one = one  two = two  five = five  nine = nine  top = top
    Texts = {empty, one, two, five, nine, top}
    Size <- MCSize
    W = 16
    AddrMax = 12
    DefaultLimit = 4
    Sources <- MCSources
    Dests = {d1, d2}
    Blocks = {b1, b2}
    NoBlock = NoBlock
    Custom = {custom}
    Library = library
    Blank = blank
    Half = half
    Limits = {0, 12, 15}
    NoPromise = NoPromise
SYMMETRY Symmetric
INVARIANTS OwnedOnce InBounds TextsIntact LimitExact
