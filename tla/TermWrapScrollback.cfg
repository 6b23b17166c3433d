SPECIFICATION TermSpec
CONSTANTS
    None = None
    MaxOutput = 3
    MaxOpens = 2
    MinProcessed = 1
    MaxFile = 9
    MaxTruncates = 0
    MaxQuits = 0
CHECK_DEADLOCK FALSE
INVARIANT FullScrollback
