SPECIFICATION Spec
CONSTANTS
    give = give  again = again  swap = swap  retry = retry  reswap = reswap  buy = buy  pay = pay
    first = first  second = second  l1 = l1  l2 = l2  l3 = l3  c1 = c1  c2 = c2  k1 = k1  None = None
    Request = {give, again, swap, retry, reswap, buy, pay}
    Kind <- KindsHere
    Sale = {first, second}
    SaleOf <- SalesHere
    Line = {l1, l2, l3}
    LineSale <- LineSales
    LineProduct <- LineProducts
    LineQty <- LineQtys
    Lines <- LinesHere
    NumProducts = 2
    Wanted <- WantedHere
    Customer = {c1, c2}
    CustomerOf <- CustomersHere
    Entry <- Entries
    Cash <- CashHere
    Key = {k1}
    KeyOf <- Keys
    Payload <- Different
    HasRow = {1, 2}
    InitialStock <- OneEach
CHECK_DEADLOCK FALSE
INVARIANTS NoOverReturn ExchangeOncePerKey LastEntryIsExact CirclesNeedAnExchange
