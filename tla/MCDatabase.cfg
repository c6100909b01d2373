\* Three databases over three storages, one of them read-only; a key with a schema; the user's
\* storage may fail.
CONSTANTS
    r = r
    k = k
    s = s
    mand = mand
    user = user
    sys = sys
    default = default
    opened = opened
    fixed = fixed
    v1 = v1
    v2 = v2
    S1 = S1
    None = None
    Path <- MCPath
    Root = r
    Up <- MCUp
    Source = {mand, user, sys}
    Db = {default, opened, fixed}
    Layers <- MCLayers
    Value = {v1, v2}
    Schema = {S1}
    DefaultOf <- MCDefaultOf
    DbList <- MCDbList
    Shipped <- MCShipped
    Requests <- MCRequests
    Described <- MCDescribed
    Breakable = {user}
SPECIFICATION Spec
INVARIANTS
    NoticesMatchQueries
    SettableIffWritable
    EntriesMatchQueries
    UnsavedIsPlanned
PROPERTIES
    ChangesAreNoticed
    ChangesAreSaved
CHECK_DEADLOCK FALSE
