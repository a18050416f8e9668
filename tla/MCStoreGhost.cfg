\* A store that starts empty: what does List show after a crash?
SPECIFICATION Spec
CONSTANTS
    p1 = p1
    p2 = p2
    a = a
    b = b
    c1 = c1
    c2 = c2
    bad = bad
    x = x
    Names <- MCNames
    Configs <- MCConfigs
    Unacceptable <- MCUnacceptable
    Extras <- MCExtras
    NoExtra = NoExtra
    Absent = Absent
    Malformed = Malformed
    Procs <- MCProcs
    Nothing = Nothing
    Workload <- MCWorkload
    HandPlaced <- MCNoFiles
    MaxLeftovers = 1
INVARIANT ListedIsStored
