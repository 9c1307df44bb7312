SPECIFICATION Spec
CONSTANTS
  Clients = {a, b, c}
  Fds = {3, 4, 5}
  Backlog = 1
  Timeout = 0
  Verdicts = {TRUE, FALSE}
  Messages <- SomeMessages
  MaxSends = 1
INVARIANTS TablesAgree FdMaxCovers VisitsAreSound ToldOnce NothingLeft
PROPERTIES ImplementsContract HangupNoticed WaitingAccepted ShutdownEnds
