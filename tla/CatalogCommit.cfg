CONSTANTS
    SystemBlocks = 2
    UserBlocks = 2
    FileBlocks = 2
    MaxOps = 3
    MaxFaults = 1
    MaxCrashes = 1
    Droppable = {"cat", "bits", "commit"}
    Landing = {"data", "meta", "cat", "bits"}
    RecoveryFaults = FALSE
SPECIFICATION Spec
INVARIANTS TypeOK CrashSafe BitmapExact
 
