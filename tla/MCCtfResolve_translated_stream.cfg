CONSTANTS
    NULL = NULL
    TraceClasses <- TranslatedStreamTraceClasses
SPECIFICATION Spec
INVARIANT TranslatedLayersFrozen
