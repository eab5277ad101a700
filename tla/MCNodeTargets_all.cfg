SPECIFICATION NodeFairSpec
CONSTANTS
    n1 = n1
    g1 = g1
    g2 = g2
    g3 = g3
    Targets = {n1}
    Scrapers = {g1, g2, g3}
    NoScraper = NoScraper
    Delayed = TRUE
    MaxBirths = 3
    MaxEvents = 3
CHECK_DEADLOCK FALSE
INVARIANT NoLeak
INVARIANT TargetsAreServed
INVARIANT TargetsFollowCache
PROPERTY DoneScrapersEnd
PROPERTY KeptTargetsAreScraped
PROPERTY StayingNodesAreScraped
