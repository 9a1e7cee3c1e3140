SPECIFICATION FairSpec
CONSTANTS
    p1 = p1
    p2 = p2
    b1 = b1
    b2 = b2
    k1 = k1
    k2 = k2
    k3 = k3
    w1 = w1
    w2 = w2
    Procs = {p1}
    Overlap = FALSE
    Bundles = {b1, b2}
    Keys = {k1}
    Writers = {w1}
    Vendor = {"refuse", "overwrite"}
    MaxCrash = 2
    MaxFault = 1
    MaxLoss = 0
    MaxRotate = 0
    MaxForeign = 0
INVARIANTS
    TypeOK
    ProgressHonest
PROPERTIES
    PublishesOnce
    BoundResolves
