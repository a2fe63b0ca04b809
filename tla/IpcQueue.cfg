CONSTANTS
    Services = {s1, s2}
    Driver = s1
    NumSources = 1
    MaxEvents = 3
    MaxSets = 1
    MaxGen = 1
    MaxEpoch = 1
    SharedHardware = FALSE
    None = None
    MaxEnds = 1
    MaxCaps = 2
    Sizes = {1, 2}
    Frames = 2
    MaxSent = 3
SPECIFICATION IpcSpec
INVARIANTS IpcTypeOK QueueIsFifo NoStrandedMessage NoStrandedProducer CapabilitiesCurrent RegistrySound NoMissedWake NoSignalLost
