SPECIFICATION Spec
CONSTANTS
  r1 = r1
  r2 = r2
  r3 = r3
  f1 = f1
  f2 = f2
  NoRun = NoRun
  NoPic = NoPic
  Mixed = FALSE
  NoFile = NoFile
  Base = Base
  Runs = {r1, r2, r3}
  Files = {f1, f2}
  Depth = 2
  MaxTime = 1
  MaxVer = 1
  Faults = {"cut", "change", "gone", "wipe"}
SYMMETRY Symmetry
INVARIANT TypeOK
INVARIANT Fresh
INVARIANT Undisturbed
CHECK_DEADLOCK FALSE
