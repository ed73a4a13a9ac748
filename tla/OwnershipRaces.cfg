SPECIFICATION Spec
CONSTANTS
    t1 = t1  t2 = t2
    r1 = r1  r2 = r2  r3 = r3
    checkout = checkout
    Tasks = {t1}
    Runs = {r1, r2, r3}
    Checkouts = {checkout}
    NoRun = NoRun
    NoCheckout = NoCheckout
    TaskOf <- OneTask
    CheckoutOf <- NoCheckouts
    SharedMode = {}
    WorktreeExclusive = FALSE
    Lease = 2
    FenceLease = 2
    RenewInterval = 1
    Punctual = FALSE
    MaxLag = 0
    MaxWrites = 1
SYMMETRY RunSymmetry
INVARIANTS OneFencedOwner AuditTrail
PROPERTIES NoStaleOverwrite RegisterSpec
