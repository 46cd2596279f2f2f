SPECIFICATION FairSpec
CONSTANTS
    first = first  retry = retry  again = again  edited = edited  other = other  walkin = walkin
    cart1 = cart1  ali = ali  cashier = cashier  manager = manager  clerk = clerk
    main = main  back = back  None = None
    Request = {first, retry, edited, other, walkin}
    Key = {cart1}
    KeyOf <- Keys
    Payload <- Payloads
    NumProducts = 2
    PoolSize = 5
    Qty <- Quantities
    InitialStock <- TwoOfEach
    Customer = {ali}
    CustomerOf <- Customers
    Credit <- Credits
    CreditLimit <- LimitOfFive
    Counter = {cashier, manager, clerk}
    CounterOf <- Counters
    Prefix <- Prefixes
CHECK_DEADLOCK FALSE
INVARIANTS OneSalePerKey KeyedAnswersAreTrue CreditLimitHolds InvoicesRunWithoutGap
PROPERTY EveryRequestIsAnswered
