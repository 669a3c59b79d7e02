\* The HTTP server and the BLE host task call concurrently, also while neither
\* has started the worker.
SPECIFICATION FairSpec
CONSTANTS
  Clients = {http, ble}
  Workers = {w1, w2}
  Queues = {q1, q2}
  NoQueue = noqueue
  QueueLen = 2
  MaxJobs = 4
  MaxRestarts = 1
CHECK_DEADLOCK FALSE
INVARIANT OneWorker
PROPERTIES KeepsPromise AcceptedBegins
