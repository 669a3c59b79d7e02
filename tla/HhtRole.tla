------------------------------ MODULE HhtRole ------------------------------
(***************************************************************************)
(* The HHT role: role_dispatcher.c decides who runs, hht_main.c starts and *)
(* stops the session, hht_task.c owns the polling task.                    *)
(*                                                                         *)
(* Commands are executed by caller tasks.  In a release build there is one *)
(* (the BLE host task); a debug build adds the CLI task, which enters the  *)
(* same code through ble_cmd_handle.  Nothing here is under a lock, so     *)
(* each statement that touches shared state is an action of its own and a  *)
(* caller has a program counter.                                           *)
(*                                                                         *)
(* hht_task_stop waits on a binary semaphore for at most two seconds and   *)
(* then deletes the task by force.  Timeouts are counted and bounded by    *)
(* MaxTimeouts.                                                            *)
(***************************************************************************)
EXTENDS Naturals, FiniteSets

CONSTANTS
  Callers,      \* tasks that execute role commands
  OtherRoles,   \* roles other than HHT: they start no HHT task
  Tasks,        \* control blocks FreeRTOS can hand out; reused once free
  HHT, NONE,    \* ROLE_HHT, ROLE_NONE
  NoTask,       \* the NULL task handle
  MaxTimeouts   \* bound on the waits that time out

ASSUME RoleAssumption ==
  /\ HHT \notin OtherRoles /\ NONE \notin OtherRoles /\ HHT # NONE
  /\ NoTask \notin Tasks
  /\ MaxTimeouts \in Nat

VARIABLES
  active,    \* g_active_role
  running,   \* g_hht_running
  session,   \* the HHT session is open (hht_session_open .. hht_session_close)
  handle,    \* s_hht_task
  stopReq,   \* s_stop_requested
  token,     \* count of the binary semaphore s_exit_done
  task,      \* where each FreeRTOS task is in hht_task()
  pc,        \* where each caller is
  arg,       \* the role a caller is requesting
  timeouts   \* how many waits have timed out so far

vars == <<active, running, session, handle, stopReq, token, task, pc, arg, timeouts>>

Roles   == OtherRoles \cup {HHT}
TaskPCs == {"free", "loop", "poll", "giving", "exiting"}
RequestPCs == {"set", "start", "open", "taskcheck", "create", "setrunning"}
ClearPCs   == {"stopcheck", "stoptask", "wait", "force", "forget", "close",
               "unset", "clear"}
CallerPCs  == {"idle", "deleted"} \cup RequestPCs \cup ClearPCs

Init ==
  /\ active = NONE /\ running = FALSE /\ session = FALSE
  /\ handle = NoTask /\ stopReq = FALSE /\ token = 0
  /\ task = [t \in Tasks |-> "free"]
  /\ pc = [c \in Callers |-> "idle"]
  /\ arg = [c \in Callers |-> HHT]
  /\ timeouts = 0

Goto(c, from, to) == pc[c] = from /\ pc' = [pc EXCEPT ![c] = to]

dispatcherVars == <<active, arg>>
mainVars       == <<running, session>>
taskVars       == <<handle, stopReq, token, task>>
-----------------------------------------------------------------------------
(* role_dispatcher_request and, below it, hht_start and hht_task_start.    *)

\* A request for the role already active returns at once.
Request(c, r) ==
  /\ Goto(c, "idle", IF r = active THEN "idle" ELSE "set")
  /\ arg' = [arg EXCEPT ![c] = r]
  /\ UNCHANGED <<active, mainVars, taskVars, timeouts>>

\* The old role is not stopped; only ROLE_HHT starts an HHT task.
SetActive(c) ==
  /\ Goto(c, "set", IF arg[c] = HHT THEN "start" ELSE "idle")
  /\ active' = arg[c]
  /\ UNCHANGED <<arg, mainVars, taskVars, timeouts>>

HhtStart(c) ==
  /\ Goto(c, "start", IF running THEN "idle" ELSE "open")
  /\ UNCHANGED <<dispatcherVars, mainVars, taskVars, timeouts>>

\* A failed handshake is only logged: the task is started all the same.
SessionOpen(c) ==
  /\ Goto(c, "open", "taskcheck")
  /\ session' = TRUE
  /\ UNCHANGED <<dispatcherVars, running, taskVars, timeouts>>

\* The semaphore is created on first use and may not be for lack of memory.
TaskStartCheck(c) ==
  /\ \/ handle = NoTask /\ Goto(c, "taskcheck", "create")
     \/ Goto(c, "taskcheck", "setrunning")
  /\ UNCHANGED <<dispatcherVars, mainVars, taskVars, timeouts>>

\* xTaskCreate can fail for lack of memory; its result is not looked at.
TaskCreate(c) ==
  /\ Goto(c, "create", "setrunning")
  /\ stopReq' = FALSE
  /\ \/ \E t \in Tasks :
          /\ task[t] = "free"
          /\ task' = [task EXCEPT ![t] = "loop"]
          /\ handle' = t
     \/ UNCHANGED <<task, handle>>
  /\ UNCHANGED <<dispatcherVars, mainVars, token, timeouts>>

\* Faulty variant for SetRunning: the flag is set only if there is a task.
SetRunningIfTask(c) ==
  /\ Goto(c, "setrunning", "idle")
  /\ running' = (handle # NoTask)
  /\ UNCHANGED <<dispatcherVars, session, taskVars, timeouts>>

SetRunning(c) ==
  /\ Goto(c, "setrunning", "idle")
  /\ running' = TRUE
  /\ UNCHANGED <<dispatcherVars, session, taskVars, timeouts>>
-----------------------------------------------------------------------------
(* role_dispatcher_clear and, below it, hht_stop and hht_task_stop.        *)

\* Every stop command, HHT or not, enters here.
Clear(c) ==
  /\ Goto(c, "idle", IF active = HHT THEN "stopcheck" ELSE "clear")
  /\ UNCHANGED <<dispatcherVars, mainVars, taskVars, timeouts>>

HhtStop(c) ==
  /\ Goto(c, "stopcheck", IF running THEN "stoptask" ELSE "clear")
  /\ UNCHANGED <<dispatcherVars, mainVars, taskVars, timeouts>>

\* Faulty variant for TaskStop: the wait for the task is missing.
TaskStopNoWait(c) ==
  /\ Goto(c, "stoptask", "close")
  /\ stopReq' = (stopReq \/ handle # NoTask)
  /\ UNCHANGED <<dispatcherVars, mainVars, handle, token, task, timeouts>>

\* Faulty variant for TaskStop: the check of the NULL handle is missing.
TaskStopUnchecked(c) ==
  /\ Goto(c, "stoptask", "wait")
  /\ stopReq' = TRUE
  /\ UNCHANGED <<dispatcherVars, mainVars, handle, token, task, timeouts>>

TaskStop(c) ==
  /\ Goto(c, "stoptask", IF handle = NoTask THEN "close" ELSE "wait")
  /\ stopReq' = (stopReq \/ handle # NoTask)
  /\ UNCHANGED <<dispatcherVars, mainVars, handle, token, task, timeouts>>

\* Faulty variant for TakeExitDone: the result of the wait is not looked at.
TakeWithoutToken(c) ==
  /\ Goto(c, "wait", "forget")
  /\ token' = 0
  /\ UNCHANGED <<dispatcherVars, mainVars, handle, stopReq, task, timeouts>>

\* Faulty variant for TakeExitDone: the token stays for the next stop.
TakeKeepsToken(c) ==
  /\ Goto(c, "wait", "forget")
  /\ token = 1
  /\ UNCHANGED <<dispatcherVars, mainVars, handle, stopReq, token, task, timeouts>>

TakeExitDone(c) ==
  /\ Goto(c, "wait", "forget")
  /\ token = 1
  /\ token' = 0
  /\ UNCHANGED <<dispatcherVars, mainVars, handle, stopReq, task, timeouts>>

WaitTimesOut(c) ==
  /\ Goto(c, "wait", "force")
  /\ token = 0
  /\ timeouts < MaxTimeouts
  /\ timeouts' = timeouts + 1
  /\ UNCHANGED <<dispatcherVars, mainVars, taskVars>>

\* vTaskDelete(s_hht_task) wherever that task is.  With a NULL handle it
\* deletes the task that calls it.
ForceDelete(c) ==
  /\ Goto(c, "force", IF handle = NoTask THEN "deleted" ELSE "forget")
  /\ task' = [t \in Tasks |-> IF t = handle THEN "free" ELSE task[t]]
  /\ UNCHANGED <<dispatcherVars, mainVars, handle, stopReq, token, timeouts>>

ForgetTask(c) ==
  /\ Goto(c, "forget", "close")
  /\ handle' = NoTask
  /\ stopReq' = FALSE
  /\ UNCHANGED <<dispatcherVars, mainVars, token, task, timeouts>>

SessionClose(c) ==
  /\ Goto(c, "close", "unset")
  /\ session' = FALSE
  /\ UNCHANGED <<dispatcherVars, running, taskVars, timeouts>>

UnsetRunning(c) ==
  /\ Goto(c, "unset", "clear")
  /\ running' = FALSE
  /\ UNCHANGED <<dispatcherVars, session, taskVars, timeouts>>

ClearActive(c) ==
  /\ Goto(c, "clear", "idle")
  /\ active' = NONE
  /\ UNCHANGED <<arg, mainVars, taskVars, timeouts>>
-----------------------------------------------------------------------------
(* hht_task(): one iteration looks at the stop flag, then polls.           *)

callerVars == <<active, arg, running, session, pc, timeouts>>

\* Faulty variant for TaskLook: a task that is asked to stop goes on polling.
TaskLooksAway(t) ==
  /\ task[t] = "loop"
  /\ task' = [task EXCEPT ![t] = "poll"]
  /\ UNCHANGED <<callerVars, handle, stopReq, token>>

TaskLook(t) ==
  /\ task[t] = "loop"
  /\ task' = [task EXCEPT ![t] = IF stopReq THEN "giving" ELSE "poll"]
  /\ UNCHANGED <<callerVars, handle, stopReq, token>>

\* The poll reads and writes the HHT UART, then the task sleeps 20 ms.
TaskPoll(t) ==
  /\ task[t] = "poll"
  /\ task' = [task EXCEPT ![t] = "loop"]
  /\ UNCHANGED <<callerVars, handle, stopReq, token>>

\* Faulty variant for TaskGive: a counting semaphore instead of a binary one.
TaskGiveCounts(t) ==
  /\ task[t] = "giving"
  /\ task' = [task EXCEPT ![t] = "exiting"]
  /\ token' = token + 1
  /\ UNCHANGED <<callerVars, handle, stopReq>>

TaskGive(t) ==
  /\ task[t] = "giving"
  /\ task' = [task EXCEPT ![t] = "exiting"]
  /\ token' = 1
  /\ UNCHANGED <<callerVars, handle, stopReq>>

TaskExit(t) ==
  /\ task[t] = "exiting"
  /\ task' = [task EXCEPT ![t] = "free"]
  /\ UNCHANGED <<callerVars, handle, stopReq, token>>
-----------------------------------------------------------------------------
\* What a caller does once it has begun a command.
Continue(c) ==
  \/ SetActive(c) \/ HhtStart(c) \/ SessionOpen(c) \/ TaskStartCheck(c)
  \/ TaskCreate(c) \/ SetRunning(c)
  \/ HhtStop(c) \/ TaskStop(c) \/ TakeExitDone(c) \/ WaitTimesOut(c)
  \/ ForceDelete(c) \/ ForgetTask(c) \/ SessionClose(c) \/ UnsetRunning(c)
  \/ ClearActive(c)

Command(c) == Clear(c) \/ \E r \in Roles : Request(c, r)

TaskStep(t) == TaskLook(t) \/ TaskPoll(t) \/ TaskGive(t) \/ TaskExit(t)

Next ==
  \/ \E c \in Callers : Command(c) \/ Continue(c)
  \/ \E t \in Tasks : TaskStep(t)

Spec == Init /\ [][Next]_vars

\* FreeRTOS runs every ready task; nobody has to send a command.
Fairness ==
  /\ \A c \in Callers : WF_vars(Continue(c))
  /\ \A t \in Tasks : WF_vars(TaskStep(t))

FairSpec == Spec /\ Fairness
-----------------------------------------------------------------------------
TypeOK ==
  /\ active \in Roles \cup {NONE}
  /\ running \in BOOLEAN /\ session \in BOOLEAN
  /\ handle \in Tasks \cup {NoTask}
  /\ stopReq \in BOOLEAN /\ token \in {0, 1}
  /\ task \in [Tasks -> TaskPCs]
  /\ pc \in [Callers -> CallerPCs]
  /\ arg \in [Callers -> Roles]
  /\ timeouts \in 0 .. MaxTimeouts

\* Tasks that will still look at the flag or touch the UART.
Live  == {t \in Tasks : task[t] \in {"loop", "poll", "giving"}}
Idle  == \A c \in Callers : pc[c] = "idle"

\* While no wait has timed out, no task is polling, or about to, outside a
\* session: hht_start opens before it creates the task and hht_stop closes
\* only after the task has given the semaphore.
NoPollOutsideSession ==
  timeouts = 0 => \A t \in Tasks : task[t] = "poll" => session

\* While no wait has timed out, a stopped HHT has no task left behind it.
StoppedMeansNoTask ==
  timeouts = 0 /\ Idle /\ ~running => Live = {}

\* A timed-out wait can leave the semaphore given by a task that was late;
\* the next stop then takes that token at once and abandons a running task.
\* Each timeout costs at most one such task.
AbandonedTasksBounded ==
  Cardinality(Live) <= 1 + timeouts

\* With HHT the active role and no command in progress the HHT runs, so a
\* later stop command finds something to stop.
ActiveHhtRuns == Idle /\ active = HHT => running

\* hht_task_stop never passes NULL to vTaskDelete, which would delete the
\* caller.
CallerNeverDeleted == \A c \in Callers : pc[c] # "deleted"

\* A stop command comes to an end: the task sees the flag and gives the
\* semaphore, or the wait times out.
CommandEnds ==
  \A c \in Callers : pc[c] \in RequestPCs \cup ClearPCs ~> pc[c] \in {"idle", "deleted"}

\* README.md:108 says that on Start/Stop the role_dispatcher starts or stops
\* the task: with no role active and no command in progress HHT is stopped.
NoRoleMeansStopped == Idle /\ active = NONE => ~running
=============================================================================
