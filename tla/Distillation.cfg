SPECIFICATION Spec
CONSTANTS
    r1 = r1
    r2 = r2
    shift = shift
    rule = rule
    edge = edge
    Replicas = {r1, r2}
    Artifacts = {shift, edge}
    CanAutoCompile = {shift, edge}
    Tabled = {}
    Budget = 1
    Ttl = 2
    Section = 1
    MaxTokens = 3
    MaxCrashes = 1
    MaxStalls = 1
    MaxFaults = 1
    NoArtifact = NoArtifact
SYMMETRY ReplicaSymmetry
INVARIANTS TypeOK AutoBudget StatusTellsCore
PROPERTY RollbackIsFenced
