SPECIFICATION Spec
CONSTANTS
  Clients = {a}
  Fds = {3, 4}
  Backlog = 1
  Timeout <- NoTimeout
  Verdicts = {TRUE}
  Messages <- SomeMessages
  MaxSends = 1
PROPERTY ErrorDropsConnection
