CONSTANTS
    Chain = 3
    Ceilings = {0, 3}
    MaxTurns = 3
    MaxCallCost = 2
SPECIFICATION FairSpec
INVARIANTS CeilingCoversTheRun UsageAddsUp
PROPERTY StageEnds
