SPECIFICATION MCSpec
CONSTANTS
  None = None
  MaxRequests = 2
  MaxChanges = 2
  MaxFaults = 2
INVARIANTS AllTypeOK InOrderOnce Routable NotifiedInOrder
PROPERTIES Answered Notified
CHECK_DEADLOCK FALSE
