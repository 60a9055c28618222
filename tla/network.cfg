CONSTANTS
  Opener = opener
  Users = {u1, u2}
  MaxCommands = 2
  ClientEvents = 2
  Free = free
  Scans = {s1, s2}
  ListEvents = 1
  Attempts = {a1, a2}
  ConnectEvents = 1
  Profiles = {"dhcp", "static"}
  MaxChanges = 2
  Ethernets = {e1}
  Wlans = {w1}
  None = None
  Names = {n1, n2}
  Proxies = {p1}
  Unnamed = unnamed
  Places = 2
SPECIFICATION Spec
INVARIANTS RepliesAreOwn SafeWhileOpen ShownIsCurrent ReadIsTrue
PROPERTY WaitsEnd
CHECK_DEADLOCK FALSE
