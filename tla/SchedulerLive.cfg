CONSTANTS
    NumSlots = 2
    Cpus = {c1, c2}
    Bsp = c1
    Objects = {}
    MaxDelay = 1
    MaxGeneration = 1
    GenerationMask = 1000
    QemuProof = FALSE
    None = None
SPECIFICATION FairSpec
PROPERTIES RunnableIsClaimed StoppingCompletes 
