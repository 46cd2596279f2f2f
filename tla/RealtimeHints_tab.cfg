SPECIFICATION FairSpec
CONSTANTS
    sale = sale  brand = brand
    None = None
    Instance = {i1}
    Socket = {s1, s2}
    Change = {sale, brand}
    HintOf <- Hints
    Addressed = {sale, brand}
    Topic <- Topics
    HintTopics = {"products", "brands"}
    CatchUpTopics = {"products", "repairs"}
    MaxFaults = 2
INVARIANTS ConnectedTabsMissOnlyTheUnheard OneLiveSocket
PROPERTY EverythingReconnects
