CONSTANTS
    Ports = {"22", "443"}
    WindowHours = {1, 3, 24}
    MaxRuns = 2
SPECIFICATION SelfTestSpec
INVARIANTS DetectedMeansDetected BrokenIsNeverGreen FailureIsExplained
