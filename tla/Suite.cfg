SPECIFICATION Spec
INVARIANTS
  StateAgrees
  
CHECK_DEADLOCK FALSE
