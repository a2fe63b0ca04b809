CONSTANTS
    NumSlots = 2
    Cpus = {c1, c2}
    Bsp = c1
    Objects = {o1}
    MaxDelay = 1
    MaxGeneration = 1
    GenerationMask = 1000
    QemuProof = FALSE
    None = None
SPECIFICATION Spec
INVARIANTS TypeOK ExclusiveExecution ResumesLastContext RunsOnOwnRoot 
