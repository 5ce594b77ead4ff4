CONSTANTS
    Freqs <- MCFreqs
    Times <- MCTimes
    Descriptions = {Desc}
    Precisions = {1, 2}
    Offsets <- MCOffsets
    Uuids = {Uuid1, Uuid2}
    NULL = NULL

SPECIFICATION Spec

INVARIANT MonotoneTimesNeverAbort
