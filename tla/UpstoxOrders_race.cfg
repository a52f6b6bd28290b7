SPECIFICATION Spec
CONSTANTS
    Caller = {c1, c2}
    Key = {k1}
    NoReply = NoReply
    MaxExtra = 2
SYMMETRY Symmetry
INVARIANT DuplicatesExcused
