\* Three attempts, two servers that are edited twice and back.
SPECIFICATION Spec
CONSTANTS
    Attempt = {a, b, c}
    Servers <- MCServers
    Signature = {x, y}
    None = None
    Delay <- MCDelay
    MaxTime = 2
    MaxEdits = 2
SYMMETRY Symmetry
INVARIANTS ProbesExclusive
PROPERTIES ReportsAreCurrent
