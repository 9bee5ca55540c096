SPECIFICATION PartsSpec
CONSTANTS
  None = None
  Key <- UserAndTraps
  Value = {v1, v2}
  First = v1
  MaxClicks = 2
  Input = {a, b}
  Blank = Blank
  MaxTurns = 4
  Given = {5, 10, 20}
  Typed = {10, 30}
  MaxEdits = 3
  Peer = {p, q}
  Loads = {80, 85, 91, 96}
  MaxSteps = 3
  Iface = {e1, e2}
  Ifbs = 2
  Policy = {p1, p2}
  Request = {r1, r2}
  MaxRequests = 3
INVARIANTS PanelIsTrue NumbersAreRight OneInterfacePerIfb
PROPERTIES WritesOneItem RowsAreKept OthersUntouched
CHECK_DEADLOCK FALSE
