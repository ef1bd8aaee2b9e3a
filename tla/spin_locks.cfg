SPECIFICATION FairSpec
CONSTANTS
    CPU = {c1, c2, c3}
    NoCpu = NoCpu
    Careless = {c1}
INVARIANTS MutualExclusion NoFalsePanic
PROPERTIES ImplementsMutex Progress
