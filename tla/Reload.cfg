SPECIFICATION ReloadSpec
CONSTANTS
  Names = {p, q}
  Tasks = {t, u}
  first = t
  spare = q
  MaxObjs = 6
  MaxAdapters = 3
  MaxEdits = 1
  MaxSigns = 1
  MaxOps = 2
INVARIANTS RunsWhatIsAsked BrowsersStaySigned
PROPERTIES FullEnds
CHECK_DEADLOCK FALSE
