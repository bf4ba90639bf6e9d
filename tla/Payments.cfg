\* Three requests for two good authorizations and one too small, every fault.
SPECIFICATION Spec
INVARIANTS
    ProductOnlyForPayment
    NoPaymentWasted
    RevenueBookedOnce

    
SYMMETRY Alike
CONSTANTS
    a1 = a1
    a2 = a2
    cheap = cheap
    Auths <- Buyers
    Offer <- Terms
    Price = 1
    Wanted <- Menu
    MaxRequests = 3
    MaxNonce = 1
    MaxTime = 1
    Faults = {"lost", "giveup", "crash", "impatient", "stale"}
CHECK_DEADLOCK FALSE
