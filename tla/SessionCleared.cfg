SPECIFICATION SessionSpec
CONSTANTS
  NoPath = NoPath
  RegFile = RegFile
  NoFile = NoFile
  c1 = c1
  c2 = c2
  c3 = c3
  c4 = c4
  s1 = s1
  Servers = {s1}
  Stale = {}
  Clients = {c1, c2, c3, c4}
  PidReused = FALSE
  Kinds = {"add", "remove", "exit"}
  BufMsgs = 2
  UeberzugUsable = TRUE
  Faults = {}
INVARIANT ShowsSelected
CHECK_DEADLOCK FALSE
