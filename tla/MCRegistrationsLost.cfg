\* A connection is not registered again after a restart.
CONSTANTS
    c1 = c1
    x = x
    y = y
    z = z
    A = A
    B = B
    Client = {c1}
    Cnxn = {x, y, z}
    Dir = {A, B}
    DirOf <- TwoOnOne
    MaxStarts = 2
    MaxLeft = 1
SPECIFICATION Spec
INVARIANT Reconnected
CHECK_DEADLOCK FALSE
