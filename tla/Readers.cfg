CONSTANTS
    l1 = l1
    s1 = s1
    s2 = s2
    c1 = c1
    c2 = c2
    c3 = c3
    bukhari = bukhari
    unknown = unknown
    Loads <- MCLoads
    PageRows = 2
    Searches <- MCSearches
    Books <- MCBooks
    Unknown = unknown
    Asks <- MCAsks
    Capacity = 1
    TTL = 1
    MaxRows = 1
    MaxNow = 2
    MaxKeywords = 8
    Counts <- MCCounts
    Keywords <- MCKeywords
    NoKeywords = NoKeywords
    MaxDay = 1
    PipeSize = 2
    MaxOutput = 3
SPECIFICATION Spec
CHECK_DEADLOCK FALSE
INVARIANTS TypeOK RowsAreComplete LeaksAfterErrors CacheSound TotalIsSum AllWordsTried CountsWhenAlone NothingLost
PROPERTIES ServedQueries AllAnswered
