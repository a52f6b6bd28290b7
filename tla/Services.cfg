SPECIFICATION Spec
CONSTANTS
  Caller = {c1, c2, c3}
  Key = {k1}
  NoReply = NoReply
  MaxExtra = 4
  Brokers <- MCBrokers
  Lookback <- MCLookback
  MaxChunk <- MCMaxChunk
  Close <- MCClose
  Early <- MCUpstox
  Swallows <- MCUpstox
  Today = 10
  Queries <- MCQueries
  MaxParallel = 2
  Concurrent = 2
  MaxChanges = 1
  Unit = 2
  Rate = 1
  Capacity = 6
  Default = 3
  Reserved = 3
  MaxWait <- MCMaxWait
  MaxTokens = 3
  Size = 3
  MaxTrades = 1
  Procs = {p1, p2}
  Ids = {a1}
  MaxOrders = 4
  Gateways = {g1, g2}
  Instruments = {i1, i2}
  Cap = 2
  MaxDrops = 1
  MaxStreak = 2
  Threads = {t1, t2}
  None = None
SYMMETRY Symmetry
INVARIANTS
  TypeOK EventsMatchOrders ExtraOrdersAccounted PlanShares LossShows ConflictsSeen
  OnlyExecutionsExhaust RefreshReachesRequests FillsAddUp RepeatsExcused FillsBooked
  SubscriptionsAsked BooksOwned OneFeed
CHECK_DEADLOCK FALSE
