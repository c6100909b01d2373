\* Three keys in nested directories, two changes, two faults (failed accesses to the disk; kills).
CONSTANTS
    r = r
    a = a
    ab = ab
    rk = rk
    ak = ak
    abk = abk
    e1 = e1
    Nothing = Nothing
    NoFile = NoFile
    Path = {r, a, ab, rk, ak, abk}
    Root = r
    Up <- MCUp
    Dir = {r, a, ab}
    Key = {rk, ak, abk}
    Entry = {e1}
    MaxChanges = 2
    Layouts <- MCLayouts
    MaxFaults = 2
SPECIFICATION Spec
INVARIANTS
    ListingIsTrue
PROPERTIES
    KeepsPromise
CHECK_DEADLOCK FALSE
