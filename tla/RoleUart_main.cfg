\* Every HHT type and both jobs, begun and ended in any order.
SPECIFICATION UartSpec
CONSTANTS
  Callers = {ble}
  OtherRoles = {fw}
  Tasks = {t1, t2, t3}
  HHT = hht
  NONE = none
  NoTask = notask
  MaxTimeouts = 1
  Types = {"wb100", "hht100", "hht3000"}
  Jobs = {"isp", "stm32"}
SYMMETRY TaskSymmetry
INVARIANTS SessionOwnsUart JobOwnsUart AbortNeedsJob ReadyMeansInstalled
