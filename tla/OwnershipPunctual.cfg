SPECIFICATION Spec
CONSTANTS
    t1 = t1  t2 = t2
    r1 = r1  r2 = r2  r3 = r3
    checkout = checkout
    Tasks = {t1, t2}
    Runs = {r1, r2, r3}
    Checkouts = {checkout}
    NoRun = NoRun
    NoCheckout = NoCheckout
    TaskOf <- TwoTasks
    CheckoutOf <- OneCheckout
    SharedMode = {}
    WorktreeExclusive = TRUE
    Lease = 2
    FenceLease = 2
    RenewInterval = 1
    Punctual = TRUE
    MaxLag = 0
    MaxWrites = 1
INVARIANTS LiveDispatchNotReclaimable PunctualDispatchesKeepApart
PROPERTIES WorkingOwnerUndisturbed
