\* Two requests compete for one slot.
SPECIFICATION FairSpec
CONSTANTS
    Request = {"r1", "r2"}
    credential <- CredentialOf
    Credential = {"c1", "c2"}
    None = None
    Limit = 1
    MaxStamp = 3
CHECK_DEADLOCK FALSE
INVARIANTS ResponsesAreTrue NothingLeaks WithinLimit
PROPERTIES NoCommitAfterChange RequestsEnd
