SPECIFICATION Spec
CONSTANTS
    local = local
    k1 = k1
    k2 = k2
    c1 = c1
    NoKey = NoKey
    Endpoints <- OneEndpoint
    DefaultRPC <- local
    Keys <- TwoKeys
    Suffixed <- OneSuffixed
    Commands <- OneCommand
SYMMETRY SetupSymmetry
INVARIANTS SetupIsStored SetupIsUsed
