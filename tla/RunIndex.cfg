SPECIFICATION Spec
CONSTANTS
    a = a  c = c
    Runs = {1, 2}
    Readers = {a}
    Rebuilders = {c}
INVARIANTS GetFindsWhole AvailableWhenAlone
PROPERTY PartialNeedsOverlap
CHECK_DEADLOCK FALSE
