SPECIFICATION Spec
CONSTANTS
    n1 = n1
    n2 = n2
    n3 = n3
    as1 = as1
    as2 = as2
    Nodes = {n1, n2, n3}
    Clients = {c1}
    Asn <- TwoSystems
    Unknown = Unknown
    Share = 2
    Tries = 2
    Sleep = 3
    Expiry = 18
    Faults = 5
    Budgets <- EveryBudget
INVARIANTS
    TypeOK
    GoneNodesDisappear
    MappingIsToldOrLess
PROPERTIES
    UpNodesStayListed
SYMMETRY Alike
