CONSTANTS
    mcp1 = mcp1
    cli1 = cli1
    cli2 = cli2
    run1 = run1
    run2 = run2
    Sched = sched
    Nobody = nobody
    NoRun = noRun
    Runs = {run1, run2}
    Mcp = {mcp1}
    Clis = {cli1, cli2}
    Outputs = {"file", "smtp"}
    StopChoices = {"", "collect", "analyze", "adjudicate", "render"}
    Sparse = {}
    Aging = {"events"}
    AllowForce = FALSE
    MaxFaults = 1
SPECIFICATION Spec
INVARIANTS OneDaemonRun NoOrphanRows DeletionIsComplete DeliveredIsStored CompletedIsWhole StopAfterHonoured
PROPERTY ImplementsLedger
SYMMETRY Symmetry
