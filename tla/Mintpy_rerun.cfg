\* The same command twice, with two configurations and nothing forced.
SPECIFICATION MintPySpec
CONSTANTS
    p1 = p1
    p2 = p2
    Params = {p1, p2}
    NoParams = none
    MaxProducts = 6
    Lines <- PlainLines
INVARIANTS
    SecondRunIsCached
CHECK_DEADLOCK FALSE
