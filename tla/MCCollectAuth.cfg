CONSTANTS
    Ips = {"a", "b"}
    Declined = {}
    Free = "free"
    Length = 400
    Hour = 100
    PageSize = 2
    MaxPages = 3
    Named <- MCNamed
    DeviceIp <- MCDeviceIp
    Instances <- MCInstances
    MaxFaults = 0
    MaxArrivals = 0
SPECIFICATION Spec
INVARIANT AuthIsNeverAnOutage

