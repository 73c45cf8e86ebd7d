SPECIFICATION Spec
CONSTANTS
    SystemLevel = "$"
    Clients = {x, y}
    NoClient = NoClient
    Filters <- MCFilters
    TopicNames <- MCTopics
SYMMETRY Symmetry
INVARIANTS
    TypeOK
    MatchAgrees
    NoDeadNodes
    TablesAgree
PROPERTY ImplementsSubscriptions
