CONSTANTS
    Services = {s1, s2}
    Driver = s1
    NumSources = 1
    MaxEvents = 2
    MaxSets = 1
    MaxGen = 2
    MaxEpoch = 2
    SharedHardware = FALSE
    None = None
SPECIFICATION Spec
INVARIANT StaleHandlesRejected
