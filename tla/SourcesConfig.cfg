SPECIFICATION Spec
CONSTANTS
    alice = alice
    bob = bob
    Threads = {t1, t2}
    Users = {alice, bob}
    Nobody = Nobody
    Ids = {"notes"}
    DefaultId <- MCDefaultId
    Expired = {}
    Shipped <- MCShipped
    Kept <- MCKept
    Ops <- MCOps
    MaxRequests = 2
INVARIANTS
    StaleAtMostOneBucket
    UnsharedWithinABucket
PROPERTIES
    EventuallyListed
