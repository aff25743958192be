SPECIFICATION Spec
CONSTANTS
  Elems = {a, b}
  FirstCap = 1
  MaxArr = 3
  MaxTotal = 5
INVARIANT TypeOK
INVARIANT TextsKept
INVARIANT OneAfterAnother
CHECK_DEADLOCK FALSE
