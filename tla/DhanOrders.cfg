SPECIFICATION Spec
CONSTANTS
    Caller = {c1, c2}
    Key = {k1, k2}
    NoReply = NoReply
    Free = Free
    MaxAttempts = 2
    MaxSize = 1
    Ttl = 1
    MaxLapses = 2
SYMMETRY Symmetry
INVARIANTS TypeOK DuplicatesExcused EventsMatchOrders
PROPERTIES ImplementsOrderService
