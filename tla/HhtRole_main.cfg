\* A release build: only the BLE host task executes role commands.  Up to
\* two waits time out, so that an abandoned task can meet a second stop.
\* No symmetry, because a liveness property is checked.
SPECIFICATION FairSpec
CONSTANTS
  Callers = {ble}
  OtherRoles = {fw}
  Tasks = {t1, t2, t3}
  HHT = hht
  NONE = none
  NoTask = notask
  MaxTimeouts = 2
INVARIANTS TypeOK NoPollOutsideSession StoppedMeansNoTask AbandonedTasksBounded ActiveHhtRuns CallerNeverDeleted
PROPERTIES CommandEnds
