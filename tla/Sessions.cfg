SPECIFICATION MCSpec
CONSTANTS
  Editors = {e1, e2}
  HandMade = {"plain", "locked", "meta", "secret", "policy"}
  MaxHands = 1
  MaxTyped = 1
  MaxFails = 1
  Tabs = {t}
  Sockets = {c, d}
  Spare = d
  MaxChanges = 2
  MaxDrops = 2
  Conns = {m, n}
  Listeners = {k, l}
  MaxMode = 1
  MaxReloads = 1
INVARIANTS MetaEndsFresh
PROPERTIES SavesKeepTheRest PagesCatchUp SeatsReturned
CHECK_DEADLOCK FALSE
