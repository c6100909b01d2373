\* Directories /a and /a/b, keys /a/k and /a/b/k.
CONSTANTS
    r = r
    a = a
    ab = ab
    k = k
    abk = abk
    v1 = v1
    v2 = v2
    None = None
    NoEntry = NoEntry
    Path = {r, a, ab, k, abk}
    Root = r
    Up <- MCUp
    Dir = {a, ab}
    Key = {k, abk}
    Value = {v1, v2}
    Default <- MCDefault
    Initially <- MCInitially
    MaxAdds <- MCMaxAdds
    MaxEvents = 2
SPECIFICATION Spec
INVARIANTS
    CacheIsCurrent
    DirsAreWatchedOnce
    QueueIsServed
    AbsenceIsEarned
CHECK_DEADLOCK FALSE
