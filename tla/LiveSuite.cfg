SPECIFICATION Spec
PROPERTIES
  FailedRunsAgain
  StoppingEnds
  
  
CHECK_DEADLOCK FALSE
