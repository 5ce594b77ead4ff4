CONSTANTS
    Tms <- MCOuterTms
    INT_OVERFLOW = INT_OVERFLOW
SPECIFICATION Spec
INVARIANT AgreesWithTimegm
