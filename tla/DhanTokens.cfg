SPECIFICATION FairSpec
CONSTANTS
    Caller = {c1, c2}
    Scheduler = Scheduler
    Free = Free
    Cooldown = 1
    Backoff = 1
    MaxToken = 3
    MaxDead = 1
    MaxFailures = 1
INVARIANTS TypeOK StoreAgrees
PROPERTIES ClientRecovers MarketRecovers
