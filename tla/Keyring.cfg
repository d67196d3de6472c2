SPECIFICATION Spec
CONSTANTS
    t1 = t1
    t2 = t2
    p1 = p1
    p2 = p2
    n1 = n1
    n2 = n2
    k1 = k1
    k2 = k2
    Threads <- TwoThreads
    Procs <- TwoProcesses
    Names <- TwoNames
    Keys <- TwoKeys
SYMMETRY Alike
PROPERTIES ImplementsKeyStore TornIsNotEmpty
