CONSTANTS
    NULL = NULL
    TraceClasses <- PayloadAndLayerTraceClasses
SPECIFICATION Spec
INVARIANT TypeOK
INVARIANT ScopesOfCurrentLayers
INVARIANT ResolvedReferenceSound
PROPERTY ImplementsResolveSpec
