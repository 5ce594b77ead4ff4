CONSTANTS
    Tms <- MCEpochTms
    INT_OVERFLOW = INT_OVERFLOW
SPECIFICATION Spec
INVARIANT AgreesWithTimegm
