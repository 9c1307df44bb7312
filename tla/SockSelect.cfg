SPECIFICATION Spec
CONSTANTS
  Clients = {a, b, c}
  Fds = {0, 1, 3}
  Backlog = 2
INVARIANTS MasterIsOpen VisitsAreReady
