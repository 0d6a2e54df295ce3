SPECIFICATION Spec
CONSTANTS
    Request = {"r1"}
    timestamp <- MCTimestamp
    sender <- MCSender
    secret <- MCSecret
    disconnect <- MCDisconnect
    supported <- MCSupported
    Sender = {"s1"}
    Policy = {"k1", "k2", Disabled, None}
    Disabled = Disabled
    Settings = {"b1", Off}
    Off = Off
    None = None
    Window = 1
    Capacity = 1
    MaxTime = 0
    MaxMinted = 3
    MaxEpoch = 1
PROPERTIES BoundaryBars
CHECK_DEADLOCK FALSE
