CONSTANTS
    w1 = w1
    w2 = w2
    nbg = nbg
    fsn = fsn
    NoZone = NoZone
    NoFigure = NoFigure
    Zones = {nbg, fsn}
    Callers = {w1}
    Catalogues <- TwoPriceLists
    NodeClasses <- SomeClasses
    Claims <- WideClaims
    MaxRefused = 1
SPECIFICATION Spec
INVARIANTS TypeOK CheapestLaunch BlameIsFair NoFutileClaims RunningNodesListed
PROPERTIES ImplementsChoice
