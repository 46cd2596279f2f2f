SPECIFICATION Spec
CONSTANTS
    book = book  fix = fix  fit = fit  take = take  untake = untake  pay = pay  finish = finish
    refinish = refinish  hand = hand  reopen = reopen
    tv = tv  radio = radio  phone = phone  b1 = b1  b2 = b2  s1 = s1  byId = byId  byNumber = byNumber  None = None
    Request = {fix, fit, take, untake, pay, finish, refinish, hand, book, reopen}
    Kind <- Kinds1
    Job = {tv, radio, phone}
    JobOf <- Jobs
    Branch = {b1, b2}
    BranchOf <- Branches
    WalkIn = {tv}
    Labour <- Labours
    LockName <- Names
    PartOf <- PartsOf
    StockRow = {s1}
    RowOf <- Rows
    Qty <- One
    Price <- One
    Amount <- Amounts
    Cash <- InCash
    Extra <- Extras
    InitialStock <- StockOf
    PoolSize = 3
    Together <- Pair
CHECK_DEADLOCK FALSE
INVARIANT BranchesNumberTheirOwn
