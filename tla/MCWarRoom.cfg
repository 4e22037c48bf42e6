CONSTANTS
  c1 = c1  c2 = c2  c3 = c3  ann = ann  bob = bob
  w1 = w1  w2 = w2  tab = tab
  None = None
  Calls <- MCCalls
  Operators <- MCOperators
  Workers <- MCWorkers
  Clients <- MCClients
  QueueSize = 1
SYMMETRY Symmetry
CHECK_DEADLOCK FALSE
SPECIFICATION RoomSpec
INVARIANTS RoomTypeOK ParticipantsUnique AnsweredIsStored StreamFollowsRoom
PROPERTIES KeepsLog
