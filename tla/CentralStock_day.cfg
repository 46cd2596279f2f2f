SPECIFICATION FairSpec
CONSTANTS
    send = send  resend = resend  other = other  single = single  ship = ship  more = more
    bring = bring  mend = mend  restock = restock  top = top  open = open  fix = fix
    less = less  x1 = x1  None = None
    Request = {send, resend, other, single, ship, more, bring, mend, restock, top, open, fix, less}
    Kind <- KindsHere
    NumBranches = 2
    NumProducts = 2
    From <- Senders
    To <- Receivers
    Lines <- About
    Amount <- Amounts
    Cost <- Costs
    Table <- Routes
    TransferId = {x1}
    TransferIdOf <- TransferIds
    InitialRows <- NotToSecond
    InitialStock <- OneOfEach
    InitialCost <- TenEach
    MaxAttempts = 3
    PoolSize = 3
    MaxErrors = 1
    Together <- Mixes
CHECK_DEADLOCK FALSE
INVARIANTS TypeOK OneTransferPerId TransferAnswersAreTrue TransfersNeverCircle
INVARIANTS MovementsAddUp AverageCostIsExact
PROPERTY EveryRequestIsAnswered
