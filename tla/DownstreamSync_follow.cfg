SPECIFICATION FairSpec
CONSTANTS
    t1 = t1  t2 = t2  timer = timer  manual = manual
    shop = shop  store = store  in = in  xfer = xfer  edit = edit
    Web = Web  None = None
    Terminal = {t1}
    Puller = {timer, manual}
    TerminalOf <- FollowPullers
    Branch = {shop}
    Change = {in, edit}
    Source <- FollowSource
    Class <- Classifies
    From <- Sends
    To <- Receives
    Qty <- Amounts
    PageLimit = 2
    MaxRows = 3
    MaxCopies = 2
    MaxCrashes = 1
INVARIANT OnlyOvertakenRowsAreMissed
PROPERTIES FollowerSpec CursorCatchesUp
