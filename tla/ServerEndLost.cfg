SPECIFICATION Spec
CONSTANTS
  NoPath = NoPath
  RegFile = RegFile
  c1 = c1
  c2 = c2
  s1 = s1
  Servers = {s1}
  Stale = {}
  Clients = {c1, c2}
  Kinds = {"remove", "exit"}
  BufMsgs = 2
  UeberzugUsable = TRUE
  Faults = {}
PROPERTY EndObeyed
CHECK_DEADLOCK FALSE
