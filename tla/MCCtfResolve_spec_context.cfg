CONSTANTS
    NULL = NULL
    TraceClasses <- SpecContextTraceClasses
SPECIFICATION Spec
INVARIANT EveryReferenceResolved
