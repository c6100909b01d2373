\* Two keys in nested directories, two changes, two faults (failed writes, failed deletions, kills).
CONSTANTS
    r = r
    a = a
    ab = ab
    ak = ak
    abk = abk
    e1 = e1
    e2 = e2
    Nothing = Nothing
    NoFile = NoFile
    Path = {r, a, ab, ak, abk}
    Root = r
    Up <- MCUp
    Dir = {r, a, ab}
    Key = {ak, abk}
    Entry = {e1}
    Layouts <- MCLayouts
    MaxChanges = 2
    MaxFaults = 2
SPECIFICATION Spec
INVARIANTS
    UnsavedIsFlagged
PROPERTIES
    KeepsPromise
CHECK_DEADLOCK FALSE
