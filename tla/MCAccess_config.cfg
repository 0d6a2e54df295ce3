\* One client under every kind of edit of its access settings, with one exchange
\* at a time: a stale exchange holds the place of the one that is needed.
SPECIFICATION FairSpec
CONSTANTS
    Mac = {a}
    Vlan = {1}
    Control = {"auto", "force-authorized"}
    Method = {"dot1x-mab", "mab"}
    Host = {"single-host"}
    Client = {"absent", "bare", "peer", "other"}
    Settings = {p, q}
    None = None
    Capacity = 1
    Tasks = 1
    MaxId = 4
INVARIANTS AttemptsAreCurrent NoStaleGrant
PROPERTIES AttemptsEnd
