SPECIFICATION Spec
CONSTANTS
    SystemLevel = "$"
    Clients = {x}
    Filters <- MCFilters
    TopicNames <- MCTopics
    Publishers = {p1, p2}
    MaxMessages = 3
SYMMETRY Symmetry
INVARIANTS
    TypeOK
    NoGap
    AckedReached
CHECK_DEADLOCK FALSE
