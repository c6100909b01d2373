\* One client with two connections on one directory and one on another.  The
\* system stops when gconfd has used up its starts and the client has ended.
CONSTANTS
    c1 = c1
    x = x
    y = y
    z = z
    A = A
    B = B
    Client = {c1}
    Cnxn = {x, y, z}
    Dir = {A, B}
    DirOf <- TwoOnOne
    MaxStarts = 2
    MaxLeft = 1
SPECIFICATION Spec
INVARIANTS
    TypeOK
    Covered
    WatchedForSomething
    EndsAreReported
    SignalsAreInStep
PROPERTIES
    TasksEnd
    ReturnsAreSeen
CHECK_DEADLOCK FALSE
