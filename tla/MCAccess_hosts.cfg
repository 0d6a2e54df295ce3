\* Two clients under every host mode, with room for one session and one exchange.
SPECIFICATION Spec
CONSTANTS
    Mac = {a, b}
    Vlan = {1}
    Control = {"auto"}
    Method = {"mab"}
    Host = {"single-host", "multi-auth", "multi-host"}
    Client = {"absent", "peer"}
    Settings = {p}
    None = None
    Capacity = 1
    Tasks = 1
    MaxId = 4
SYMMETRY Symmetry
INVARIANTS HostModeLimit
