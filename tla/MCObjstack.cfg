CONSTANTS
    SIZE_WIDTH = 16
    Lengths <- MCLengths
    MaxNodes = 4
    MaxAllocs = 3
SPECIFICATION Spec
INVARIANT BlocksDisjointInNodes
