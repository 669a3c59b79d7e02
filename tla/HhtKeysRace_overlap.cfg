\* Sends and polls overlap, as on the two cores of the ESP32-S3.
SPECIFICATION Spec
CONSTANTS
  Keys = {up, ent}
  NoKey = none
  ShortSendCount = 4
  MaxPresses = 2
PROPERTIES ShortKeyMinimum
