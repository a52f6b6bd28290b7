SPECIFICATION FairSpec
CONSTANTS
    i1 = i1 i2 = i2 LTP = LTP FULL = FULL
    Consumer = {c1, c2}
    Line <- Lines
    None = None
    MaxInstruments = 2
PROPERTY SilentGivenUp
