SPECIFICATION Spec
CONSTANTS
  NoPath = NoPath
  RegFile = RegFile
  c1 = c1
  c2 = c2
  s1 = s1
  s2 = s2
  Servers = {s1, s2}
  Stale = {}
  Clients = {c1, c2}
  Kinds = {"add", "remove", "exit"}
  BufMsgs = 2
  UeberzugUsable = TRUE
  Faults = {"crash", "signal", "ueberzug", "resource", "config"}
SYMMETRY Symmetry
INVARIANT TypeOK
INVARIANT OwnFifo
INVARIANT InOrder
INVARIANT CleanEnd
INVARIANT NoLostWakeup
PROPERTY ImplementsRelay
PROPERTY PathKept
CHECK_DEADLOCK FALSE
