\* Two programs of one user, keys /a/x and /ax.
CONSTANTS
    root = root
    a = a
    x = x
    ax = ax
    v1 = v1
    v2 = v2
    None = None
    NotLoaded = NotLoaded
    NotAsked = NotAsked
    Path = {root, a, x, ax}
    Root = root
    Up <- MCUp
    Callers = {c1, c2}
    Key = {x, ax}
    Value = {v1, v2}
    Starts <- MCStarts
    Annotated = {a}
    Requests <- MCRequests
    Initially <- MCInitially
    UserChanges <- MCUserChanges
    MaxCalls = 2
    MaxSets = 1
SPECIFICATION Spec
INVARIANTS
    ClientsLearn
PROPERTIES
    CopiesAsAsked
    ServesAndLeaves
