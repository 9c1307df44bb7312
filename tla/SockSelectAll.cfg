SPECIFICATION Spec
CONSTANTS
  Clients = {a}
  Fds = {3, 4}
  Backlog = 10
PROPERTY RunsThroughAll
