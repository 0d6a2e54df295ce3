\* Two clients of a shared port whose host mode is edited.
SPECIFICATION Spec
CONSTANTS
    Mac = {a, b}
    Vlan = {1}
    Control = {"auto"}
    Method = {"mab"}
    Host = {"single-host", "multi-host"}
    Client = {"absent", "peer"}
    Settings = {p}
    None = None
    Capacity = 1
    Tasks = 1
    MaxId = 4
SYMMETRY Symmetry
INVARIANTS SharedRowsEnd
