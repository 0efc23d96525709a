\* format.h:313 against an interrupted wait of another client.
CONSTANTS
  app1 = app1
  app2 = app2
  app3 = app3
  None = None
  Clients = {app1, app2}
  MaxStarts = 1
  MaxRequests = 1
  Interruptible = {app2}
  Killable = {}
  ServerStops = FALSE
  ServerDies = FALSE
SPECIFICATION LiveSpec
PROPERTY ServerAnswers
CHECK_DEADLOCK FALSE
