CONSTANTS
    mcp1 = mcp1
    cli1 = cli1
    cli2 = cli2
    run1 = run1
    run2 = run2
    Sched = sched
    Nobody = nobody
    NoRun = noRun
    Runs = {run1, run2}
    Mcp = {}
    Clis = {cli1}
    Outputs = {"file"}
    StopChoices = {""}
    Sparse = {}
    Aging = {}
    AllowForce = FALSE
    MaxFaults = 1
SPECIFICATION FairSpec
PROPERTIES OpenRunsClose LockIsReleased
