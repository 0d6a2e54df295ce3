\* Two idempotency keys with room for one entry.
SPECIFICATION Spec
CONSTANTS
    Key = {k1, k2}
    NoKey = NoKey
    Value = {"old", "new"}
    Default = "old"
    MaxPorts = 2
    Keep = 1
    MaxNumber = 2
    MaxRevision = 5
SYMMETRY KeySymmetry
CHECK_DEADLOCK FALSE
INVARIANTS RevisionIdentifiesState DirtyIsExact StoreIsCoherent RetriesAreSafe
PROPERTIES NoImplicitSave NumbersAreFresh
