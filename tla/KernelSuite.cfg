CONSTANT None = None
SPECIFICATION Spec
INVARIANTS
  NoLostEventWake
  FramesConserved
  LifecycleAgrees
  
  OneOutcome
  TasksSound
  EventsSound

  
