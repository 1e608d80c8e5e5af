CONSTANTS
    Period = 6
    Schedules = {{}, {0}, {0, 1}, {0, 4}}
    Jitters = {0, 1, 3}
    Slice = 2
    HealthLimit = 4
SPECIFICATION FairSpec
INVARIANTS JobsAreOnSchedule WaitingIsHealthy
PROPERTIES SchedulerKeepsGoing StopEndsTheProcess
