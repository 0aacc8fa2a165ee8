CONSTANTS
  a1 = a1
  a2 = a2
  c1 = c1
  Conns = {c1}
  Addrs = {a1}
  InitialAddr = a1
  Requests <- ReadmeCommands
  Units = {1}
  MaxListeners = 1
  MaxSent = 1
  Room = 1
  Cuts = {}
SPECIFICATION Spec
PROPERTY ReadmeCommandsAreAnswered
