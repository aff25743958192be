SPECIFICATION SessionSpec
CONSTANTS
  NoPath = NoPath
  RegFile = RegFile
  NoFile = NoFile
  c1 = c1
  c2 = c2
  c3 = c3
  s0 = s0
  s1 = s1
  Servers = {s0, s1}
  Stale = {s0}
  Clients = {c1, c2, c3}
  PidReused = TRUE
  Kinds = {"add", "remove", "exit"}
  BufMsgs = 2
  UeberzugUsable = TRUE
  Faults = {"signal", "ueberzug", "config"}
INVARIANT NoGhost
PROPERTY SessionEnds
PROPERTY ServesOn
PROPERTY Relayed
PROPERTY SignalObeyed
PROPERTY ScriptsEnd
PROPERTY EndInFrontObeyed
CHECK_DEADLOCK FALSE
