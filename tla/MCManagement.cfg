SPECIFICATION Spec
CONSTANTS
    Client = {c1, c2}
    Password = {p, q}
    None = none
    Limit = 2
    Slots = 1
    MaxToken = 3
    MaxGeneration = 2
INVARIANTS WithinLimits SessionsProven
PROPERTIES AdminsNotDisplaced UpdatesAuthorized
SYMMETRY Symmetry
