CONSTANTS
    Processes = {"serve", "cli"}
    Clis = {"cli"}
    Entity <- MCEntity
    Events <- MCEvents
    Batches <- MCBatches
    Lower <- MCLower
    Grace = 1
    Runs <- MCRuns
    NoRun <- NoRunYet
    Formats <- MCFormats
    Benign = {"benign"}
    Internal = {"phone"}
    Hardware = {"mac"}
    TopN = 2
    MaxRuns <- MCMaxRuns
    MaxFaults = 1
    MaxTime = 2
SPECIFICATION Spec
INVARIANTS NewIsAnnounced OldIsQuiet CountsAreBacked
PROPERTY CleanupIsExact
