\* One client, two VLANs that are created, deleted, admitted and forbidden.
SPECIFICATION Spec
CONSTANTS
    Mac = {a}
    Vlan = {1, 2}
    Control = {"auto", "force-authorized"}
    Method = {"dot1x-mab"}
    Host = {"multi-auth"}
    Client = {"absent", "peer"}
    Settings = {p}
    None = None
    Capacity = 1
    Tasks = 1
    MaxId = 4
SYMMETRY Symmetry
INVARIANTS RowsEndWithSession SessionVlanUsable
