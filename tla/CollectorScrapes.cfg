SPECIFICATION Spec
CONSTANTS
    s1 = s1
    s2 = s2
    a1 = a1
    a2 = a2
    a3 = a3
    Scrapers <- MCScrapers
    Accounts <- MCAccounts
    DefaultMaxConcurrency = 2
    MaxScrapes = 2
INVARIANTS
    TypeOK
    ScrapeReportsItsOwn
PROPERTIES
    CounterCountsHalf
    ScrapeEnds
CHECK_DEADLOCK FALSE
