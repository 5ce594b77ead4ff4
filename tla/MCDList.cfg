CONSTANTS
    NULL = NULL
    Heads = {h1, h2}
    Nodes = {n1, n2, n3}

SPECIFICATION Spec

INVARIANT DListWellFormed
PROPERTY ImplementsDListSeq
