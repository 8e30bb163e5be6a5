SPECIFICATION Spec
CONSTANTS
  NULL = NULL
  MaxVersion = 3
  Faults <- AllFaults
INVARIANTS
  TypeOK
  RoundTrip
  
PROPERTIES
  UploadsReadable
CHECK_DEADLOCK FALSE
