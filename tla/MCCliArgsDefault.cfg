CONSTANTS
    NPluginDirs <- MCNPluginDirs
    UserDirs = {UserDir}
    InTreeProviderDir = InTreeProviderDir
    Nonexistent = Nonexistent
    UNSET = UNSET
    NULL = NULL

SPECIFICATION Spec

INVARIANT PathsReferencedOnlyByCfg
