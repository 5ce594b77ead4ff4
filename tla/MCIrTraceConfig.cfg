CONSTANTS
    Names = {n1, n2}
    Values = {v1, v2}
    Uuids = {u1}
    NONE = NONE
    MaxEntries = 3
SPECIFICATION Spec
INVARIANT ConfiguredOnSuccess
