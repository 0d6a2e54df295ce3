\* Two datagrams compete for one place while the clocks are stepped.
SPECIFICATION FairSpec
CONSTANTS
    Request = {"r1", "r2"}
    timestamp <- MCTimestamp
    sender <- MCSender
    secret <- MCSecret
    disconnect <- MCDisconnect
    supported <- MCSupported
    Sender = {"s1"}
    Policy = {"k1"}
    Disabled = Disabled
    Settings = {"b1"}
    Off = Off
    None = None
    Window = 1
    Capacity = 1
    MaxTime = 4
    MaxMinted = 1
    MaxEpoch = 0
INVARIANTS WithinCapacity AtMostOnce AnswersAreTrue ForgottenBehindWatermark
PROPERTIES ReservationsEnd DecisionIsFinal
CHECK_DEADLOCK FALSE
