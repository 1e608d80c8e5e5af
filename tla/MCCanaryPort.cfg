CONSTANTS
    Ports = {"22"}
    WindowHours = {24}
    MaxRuns = 1
SPECIFICATION SelfTestSpec
INVARIANT RealSignalsSurvive
