CONSTANTS
  Calls <- AllCalls
  MaxRlimits = 2
SPECIFICATION Spec
CHECK_DEADLOCK FALSE
INVARIANTS
  
  
  LibraryAccepts
