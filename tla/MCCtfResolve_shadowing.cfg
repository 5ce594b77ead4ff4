CONSTANTS
    NULL = NULL
    TraceClasses <- PayloadTraceClasses
SPECIFICATION Spec
INVARIANT NoSpuriousFailure
