\* A file that cannot be read once: is it listed by the next call?
SPECIFICATION Spec
CONSTANTS
    p1 = p1
    p2 = p2
    a = a
    b = b
    c1 = c1
    c2 = c2
    bad = bad
    x = x
    Names <- MCNames
    Configs <- MCConfigs
    Unacceptable <- MCUnacceptable
    Extras <- MCExtras
    NoExtra = NoExtra
    Absent = Absent
    Malformed = Malformed
    Procs <- MCProcs
    Nothing = Nothing
    Workload <- MCWorkload
    HandPlaced <- MCHandPlaced
    MaxLeftovers = 1
INVARIANT ListedInFull
