SPECIFICATION Spec
CONSTANTS
    t1 = t1  t2 = t2  timer = timer  manual = manual
    shop = shop  store = store  in = in  xfer = xfer  edit = edit
    Web = Web  None = None
    Terminal = {t1, t2}
    Puller = {timer}
    TerminalOf <- OnePuller
    Branch = {shop, store}
    Change = {in, xfer, edit}
    Source <- PeerSource
    Class <- Classifies
    From <- Sends
    To <- Receives
    Qty <- Amounts
    PageLimit = 1
    MaxRows = 3
    MaxCopies = 2
    MaxCrashes = 1
INVARIANT OperationsCountOnce
