SPECIFICATION Spec
CONSTANTS
    old = old  first = first  second = second  own = own  fresh = fresh  check = check
    stock = stock  retire = retire  enrol = enrol  b1 = b1  b2 = b2  x = x  y = y  z = z  w = w
    legacy = legacy  dealer = dealer  ali = ali  None = None
    Request = {old, first, second, own, fresh, check, stock, retire, enrol}
    Kind <- KindsHere
    Branch = {b1, b2}
    BranchOf <- BranchesHere
    Imei = {x, y, z, w}
    ImeisOf <- Imeis
    Voucher = {1, 2, legacy}
    VoucherOf <- Brought
    Seller = {dealer, ali}
    SellerOf <- Sellers
    CnicOf <- Cnics
    Active <- Retired
    DeviceOf <- Devices
    StatusOf <- Wanted
    Existing = {old}
    MaxBigint = 2
CHECK_DEADLOCK FALSE
INVARIANTS AllocatedVouchersAreFree MovementsTellTheStatus TwoKindsOfCircles
