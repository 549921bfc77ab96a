SPECIFICATION Spec
CONSTANTS
    r1 = r1
    r2 = r2
    shift = shift
    rule = rule
    edge = edge
    Replicas = {r1, r2}
    Artifacts = {shift}
    CanAutoCompile = {}
    Tabled = {}
    Budget = 1
    Ttl = 2
    Section = 1
    MaxTokens = 3
    MaxCrashes = 0
    MaxStalls = 0
    MaxFaults = 2
    NoArtifact = NoArtifact
PROPERTY MarkedNotRecompiled
