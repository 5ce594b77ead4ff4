CONSTANTS
    NULL = NULL
    TraceClasses <- MCTraceClasses

SPECIFICATION Spec

INVARIANT TextOnlyInOpenLayers
INVARIANT TextComplete
