SPECIFICATION Spec
CONSTANTS
  Last = 3
  Cap = 2
  MaxErr = 2
  Lingering = TRUE
  Faulty = TRUE
INVARIANT TypeOK
INVARIANT WholeError
INVARIANT OwnStatus
INVARIANT HangsOnly
PROPERTY ImplementsChain
PROPERTY Progress
PROPERTY ErrorPrinted
CHECK_DEADLOCK FALSE
