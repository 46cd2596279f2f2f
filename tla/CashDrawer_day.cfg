SPECIFICATION DrawerSpec
CONSTANTS
    o1 = o1  o2 = o2  c1 = c1  c2 = c2
    sale = sale  manual = manual  rent = rent  Null = Null
    MaxSessions = 2
    Opener = {o1, o2}
    Closer = {c1, c2}
    Posting = {sale, manual, rent}
    Kind <- PostingKinds
    Amount <- PostingAmounts
    PaidInCash = {sale, rent}
CHECK_DEADLOCK FALSE
INVARIANT QuietCloseIsExact
PROPERTY ExpensesMeetOpenSession
