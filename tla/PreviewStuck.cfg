SPECIFICATION Spec
CONSTANTS
  Last = 1
  Cap = 1
  MaxErr = 2
  Lingering = FALSE
  Faulty = FALSE
PROPERTY ErrorPrinted
CHECK_DEADLOCK FALSE
