------------------------------- MODULE FwJobs -------------------------------
(***************************************************************************)
(* fw_update_worker.c: the queue of two update jobs, the task that         *)
(* executes them, and the callers of fw_upload_run_from_sdmmc (the HTTP    *)
(* server task and the BLE host task) that start the worker on first use   *)
(* and then enqueue a job.                                                 *)
(*                                                                         *)
(* fw_update_worker_start tests and sets s_queue and s_task without a      *)
(* lock, so each test and each assignment is a step.  xQueueSend and       *)
(* xQueueReceive are atomic.  The worker reads s_queue afresh each time it *)
(* waits.                                                                  *)
(*                                                                         *)
(* Job contents are left out: a job fails in the preparation of its        *)
(* executable file, or is executed and ends, or its executor waits for the *)
(* target for ever (can_fw_update.c:154 and :175).                         *)
(***************************************************************************)
EXTENDS Naturals, Sequences, FiniteSets

CONSTANTS
  Clients,      \* tasks that call fw_upload_run_from_sdmmc
  Workers,      \* task control blocks xTaskCreate can hand out
  Queues,       \* queues xQueueCreate can hand out
  NoQueue,      \* the NULL queue handle
  QueueLen,     \* FW_UPDATE_QUEUE_LEN
  MaxJobs,      \* bound on the jobs accepted
  MaxRestarts   \* bound on the restarts of the device

ASSUME JobsAssumption ==
  /\ Workers # {} /\ Queues # {} /\ NoQueue \notin Queues
  /\ QueueLen \in Nat \ {0} /\ MaxJobs \in Nat /\ MaxRestarts \in Nat

VARIABLES
  queue,     \* s_queue
  content,   \* the jobs in each queue
  task,      \* s_task is set
  at,        \* where each worker task is
  from,      \* the queue each worker waits on, or last received from
  job,       \* the job each worker has, 0 if none
  cpc,       \* where each client is
  accepted,  \* jobs accepted so far (OK returned to the client)
  overlapped,  \* history: a client called within another's first start
  restarts

vars == <<queue, content, task, at, from, job, cpc, accepted, overlapped, restarts>>

ClientPCs == {"idle", "testqueue", "newqueue", "testtask", "newtask", "send"}
WorkerPCs == {"none", "loop", "receive", "prepare", "execute", "hung"}

Init ==
  /\ queue = NoQueue /\ task = FALSE
  /\ content = [q \in Queues |-> <<>>]
  /\ at = [w \in Workers |-> "none"]
  /\ from = [w \in Workers |-> NoQueue]
  /\ job = [w \in Workers |-> 0]
  /\ cpc = [c \in Clients |-> "idle"]
  /\ accepted = 0 /\ overlapped = FALSE /\ restarts = 0

Goto(c, here, there) == cpc[c] = here /\ cpc' = [cpc EXCEPT ![c] = there]
Step(w, here, there) == at[w] = here /\ at' = [at EXCEPT ![w] = there]

workerVars == <<at, from, job>>
-----------------------------------------------------------------------------
(* fw_update_worker_start *)
Call(c) ==
  /\ Goto(c, "idle", "testqueue")
  /\ overlapped' = (overlapped \/ (~task /\ \E d \in Clients : cpc[d] # "idle"))
  /\ UNCHANGED <<queue, content, task, workerVars, accepted, restarts>>

TestQueue(c) ==
  /\ Goto(c, "testqueue", IF queue = NoQueue THEN "newqueue" ELSE "testtask")
  /\ UNCHANGED <<queue, content, task, workerVars, accepted, overlapped, restarts>>

\* A queue handed out before is never deleted, so it is not handed out again.
Unused(q) == q # queue /\ content[q] = <<>> /\ \A w \in Workers : from[w] # q

NewQueue(c) ==
  /\ \/ /\ Goto(c, "newqueue", "testtask")
        /\ \E q \in Queues : Unused(q) /\ queue' = q
     \/ Goto(c, "newqueue", "idle") /\ UNCHANGED queue
  /\ UNCHANGED <<content, task, workerVars, accepted, overlapped, restarts>>

\* Faulty variant for TestTask: the check of s_task is missing.
TestTaskMissing(c) ==
  /\ Goto(c, "testtask", "newtask")
  /\ UNCHANGED <<queue, content, task, workerVars, accepted, overlapped, restarts>>

TestTask(c) ==
  /\ Goto(c, "testtask", IF task THEN "send" ELSE "newtask")
  /\ UNCHANGED <<queue, content, task, workerVars, accepted, overlapped, restarts>>

NewTask(c) ==
  /\ \/ /\ Goto(c, "newtask", "send")
        /\ task' = TRUE
        /\ \E w \in Workers : Step(w, "none", "loop")
     \/ Goto(c, "newtask", "idle") /\ UNCHANGED <<task, at>>
  /\ UNCHANGED <<queue, content, from, job, accepted, overlapped, restarts>>

\* fw_upload_start, on a request for the firmware role: no job follows.
StartOnly(c) ==
  /\ Goto(c, "send", "idle")
  /\ UNCHANGED <<queue, content, task, workerVars, accepted, overlapped, restarts>>

\* fw_update_enqueue_job: the send does not wait; a full queue is an error.
Send(c) ==
  /\ Goto(c, "send", "idle")
  /\ IF Len(content[queue]) < QueueLen
     THEN /\ accepted < MaxJobs
          /\ accepted' = accepted + 1
          /\ content' = [content EXCEPT ![queue] = Append(@, accepted')]
     ELSE UNCHANGED <<content, accepted>>
  /\ UNCHANGED <<queue, task, workerVars, overlapped, restarts>>
-----------------------------------------------------------------------------
(* fw_update_worker_task *)
Wait(w) ==
  /\ Step(w, "loop", "receive")
  /\ from' = [from EXCEPT ![w] = queue]
  /\ UNCHANGED <<queue, content, task, job, cpc, accepted, overlapped, restarts>>

\* Faulty variant for Receive: the job stays in the queue, as with a peek.
ReceivePeeks(w) ==
  /\ Step(w, "receive", "prepare")
  /\ content[from[w]] # <<>>
  /\ job' = [job EXCEPT ![w] = Head(content[from[w]])]
  /\ UNCHANGED <<queue, content, task, from, cpc, accepted, overlapped, restarts>>

Receive(w) ==
  /\ Step(w, "receive", "prepare")
  /\ content[from[w]] # <<>>
  /\ job' = [job EXCEPT ![w] = Head(content[from[w]])]
  /\ content' = [content EXCEPT ![from[w]] = Tail(@)]
  /\ UNCHANGED <<queue, task, from, cpc, accepted, overlapped, restarts>>

\* Faulty variant for Prepare: a failure ends the task, not the job.
PrepareReturns(w) ==
  /\ \/ Step(w, "prepare", "execute") /\ UNCHANGED job
     \/ Step(w, "prepare", "none") /\ job' = [job EXCEPT ![w] = 0]
  /\ UNCHANGED <<queue, content, task, from, cpc, accepted, overlapped, restarts>>

\* fw_prepare_exec_file; the job of a file that cannot be prepared is over.
Prepare(w) ==
  /\ \/ Step(w, "prepare", "execute") /\ UNCHANGED job
     \/ Step(w, "prepare", "loop") /\ job' = [job EXCEPT ![w] = 0]
  /\ UNCHANGED <<queue, content, task, from, cpc, accepted, overlapped, restarts>>

Execute(w) ==
  /\ \/ Step(w, "execute", "loop") /\ job' = [job EXCEPT ![w] = 0]
     \/ Step(w, "execute", "hung") /\ UNCHANGED job
  /\ UNCHANGED <<queue, content, task, from, cpc, accepted, overlapped, restarts>>

\* An OTA that succeeded, a panic or a loss of power.
Restart ==
  /\ restarts < MaxRestarts
  /\ restarts' = restarts + 1
  /\ queue' = NoQueue /\ task' = FALSE /\ overlapped' = FALSE
  /\ at' = [w \in Workers |-> "none"]
  /\ content' = [q \in Queues |-> <<>>]
  /\ from' = [w \in Workers |-> NoQueue]
  /\ job' = [w \in Workers |-> 0]
  /\ cpc' = [c \in Clients |-> "idle"]
  /\ UNCHANGED accepted
-----------------------------------------------------------------------------
Client(c) == TestQueue(c) \/ NewQueue(c) \/ TestTask(c) \/ NewTask(c) \/ StartOnly(c)
             \/ Send(c)
Worker(w) == Wait(w) \/ Receive(w) \/ Prepare(w) \/ Execute(w)

Next ==
  \/ \E c \in Clients : Call(c) \/ Client(c)
  \/ \E w \in Workers : Worker(w)
  \/ Restart

Spec == Init /\ [][Next]_vars

\* The scheduler runs the worker; an executor may still hang (Execute).
FairSpec == Spec /\ \A w \in Workers : WF_vars(Worker(w))
-----------------------------------------------------------------------------
Waits(j) == \E q \in Queues : \E i \in 1 .. Len(content[q]) : content[q][i] = j

TypeOK ==
  /\ queue \in Queues \cup {NoQueue}
  /\ \A q \in Queues : Len(content[q]) <= QueueLen
  /\ task \in BOOLEAN /\ overlapped \in BOOLEAN
  /\ at \in [Workers -> WorkerPCs] /\ cpc \in [Clients -> ClientPCs]
  /\ from \in [Workers -> Queues \cup {NoQueue}]
  /\ job \in [Workers -> 0 .. accepted]
  /\ accepted \in 0 .. MaxJobs /\ restarts \in 0 .. MaxRestarts

\* Two jobs are executed at the same time, or a worker waits on a queue that
\* clients do not send to, only when two clients were within the first start of
\* the worker at once: fw_update_worker_start tests s_queue and s_task without a
\* lock.  Failures to create either, and later calls, never lead there.
OneWorker ==
  ~overlapped =>
    /\ Cardinality({w \in Workers : at[w] # "none"}) <= 1
    /\ \A w \in Workers : at[w] = "receive" => from[w] = queue

\* The queue keeps the promise of JobQueue, with one worker or two: each job
\* begins at most once and leaves its queue when it does; and with one worker
\* (alone) jobs are executed one at a time and in the order of acceptance.
Abstract == INSTANCE JobQueue WITH
  pending <- {j \in 1 .. accepted : Waits(j)},
  current <- {j \in 1 .. accepted : \E w \in Workers : job[w] = j},
  alone   <- ~overlapped
KeepsPromise == Abstract!Spec

\* A job that was accepted is begun, or lost in a restart, unless an executor
\* waits for its target for ever, or the first starts overlapped and left the
\* job in a queue that nobody serves.
AcceptedBegins ==
  \A j \in 1 .. MaxJobs :
    Waits(j) ~> \/ ~Waits(j)
                \/ overlapped
                \/ \E w \in Workers : at[w] = "hung"
=============================================================================
