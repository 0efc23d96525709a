\* Two starts of the server and three clients, one interrupted, one killed.
CONSTANTS
  app1 = app1
  app2 = app2
  app3 = app3
  None = None
  Clients = {app1, app2, app3}
  MaxStarts = 2
  MaxRequests = 2
  Interruptible = {app2}
  Killable = {app3}
  ServerStops = TRUE
  ServerDies = TRUE
SPECIFICATION LiveSpec
INVARIANT TypeOK
INVARIANT RequestAccounted
INVARIANT OwnNode
INVARIANT PostedInTime
PROPERTY RequestAnswered
CHECK_DEADLOCK FALSE
