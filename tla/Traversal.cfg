SPECIFICATION TraversalSpec
SYMMETRY Interchangeable
CONSTANTS
    Cards = {c1, c2, c3}
    NextCards = {c3}
    Pages = {"home", "next", "away"}
    Home = "home"
    Origin <- MCOrigin
    On <- MCOn
    None = None
    Cap = 3
    MaxScrolls = 2
    Target = 2
    StreakMax = 0
    FullPage = 2
    GoodGain = 1
    Enough = 2
    Capacity = 1
    MaxChanges = 2
    MaxOthers = 1
INVARIANTS
    CountIsKept
    TargetIsDelivered
PROPERTIES
    NoPageTwice
