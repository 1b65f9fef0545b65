SPECIFICATION Spec
CONSTANTS
  Requests = {r1}
  Plain = {}
  Watched = {}
  Settings <- HashSettings
  MaxEvents = 1
  Nothing = Nothing
INVARIANTS ReceiptSaysWhatLeft
CHECK_DEADLOCK FALSE
