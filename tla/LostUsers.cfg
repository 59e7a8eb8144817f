SPECIFICATION Spec
CONSTANTS
  Editors = {e}
  HandMade = {"meta"}
  MaxHands = 1
  MaxTyped = 1
  MaxFails = 0
PROPERTIES SecretsRestored
CHECK_DEADLOCK FALSE
