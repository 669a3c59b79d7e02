\* A stop command that arrives after another role was started.
SPECIFICATION Spec
CONSTANTS
  Callers = {ble}
  OtherRoles = {fw}
  Tasks = {t1, t2}
  HHT = hht
  NONE = none
  NoTask = notask
  MaxTimeouts = 0
INVARIANTS NoRoleMeansStopped
