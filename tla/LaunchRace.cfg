CONSTANTS
    w1 = w1
    w2 = w2
    nbg = nbg
    fsn = fsn
    NoZone = NoZone
    NoFigure = NoFigure
    Zones = {nbg, fsn}
    Callers = {w1, w2}
    Catalogues <- TwoOrders
    NodeClasses <- OneClass
    Claims <- OneClaim
    MaxRefused = 2
SPECIFICATION Spec
INVARIANTS Reproducible NoDoomedRetry
SYMMETRY Symmetry
