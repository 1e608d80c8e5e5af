CONSTANTS
    Signals = {"info", "low", "high", "critical"}
    hint <- MChint
    Marks = {"scan", "host"}
    Submissions <- MCSubmissions
    Matchers <- MCMatchers
    Days = {0, 1}
    MaxFindings = 3
    MaxIds = 2
SPECIFICATION Spec
INVARIANTS StatusIsEarned GreenHidesNoCritical
