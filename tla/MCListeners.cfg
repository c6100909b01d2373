\* Three listeners, two nested notifications, and a uniqueness counter that
\* goes round after two ids.  Only the bounds on adds and ids stop the system.
CONSTANTS
    r = r
    a = a
    ab = ab
    c = c
    Path <- MCPath
    Root = r
    Up <- MCUp
    MaxIndex = 7
    Wrap = 2
    MaxAdds = 3
    MaxTicks = 4
    MaxDepth = 2
    NoNode = NoNode
SPECIFICATION Spec
INVARIANTS
    TypeOK
    FlatTableFindsListeners
    TreeLeadsToListeners
    RefcountsExact
    ActiveIsExact
    StaleIdsDiffer
CHECK_DEADLOCK FALSE
