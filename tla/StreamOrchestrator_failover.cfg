SPECIFICATION FairSpec
CONSTANTS
    Client = {c1, c2}
    Patient = {}
    Stopper = Stopper
    Free = Free
    None = None
    Session = {s1, s2}
    c1 = c1 c2 = c2 b1 = b1 b2 = b2 i1 = i1 i2 = i2
    Broker = {b1, b2}
    Requested <- OneBroker
    Instrument = {i1, i2}
    MaxAttempts = 1
PROPERTY AllSessionsRecover
CHECK_DEADLOCK FALSE
