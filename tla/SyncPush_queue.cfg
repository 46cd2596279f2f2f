SPECIFICATION FairSpec
CONSTANTS
    t1 = t1  op = op  product = product  odd = odd  odd2 = odd2  r1 = r1  r2 = r2  None = None
    Terminal = {t1}
    Event = {op, product, odd, odd2}
    TerminalOf <- OneOwner
    Kind <- KindsHere
    Request = {r1, r2}
    MaxRetries = 2
    PushLimit = 2
    FetchLimit = 2
    MaxCrashes = 1
    MaxRefusals = 1
    MaxResets = 1
    Together <- Mixes
INVARIANTS AtMostOnce SyncedIsCommitted NoStrandedRow AckMeetsPendingRow
PROPERTIES DeliverySpec PendingSettles
