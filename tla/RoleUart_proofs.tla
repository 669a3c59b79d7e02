-------------------------- MODULE RoleUart_proofs --------------------------
(***************************************************************************)
(* Proofs about HhtRole and RoleUart.  What is said of the role is for a   *)
(* release build, where one task executes the role commands, and for any   *)
(* number of control blocks, roles and timeouts.  What is said of UART1    *)
(* and does not depend on the HHT task holds for any number of callers;    *)
(* JobOwnsUart rests on the invariant of the role and so, like it, on one  *)
(* caller.                                                                 *)
(***************************************************************************)
EXTENDS RoleUart, FiniteSetTheorems, TLAPS

\* TypeOK is inductive whatever the number of callers.
LEMMA TypeStep == TypeOK /\ [Next]_vars => TypeOK'
<1> SUFFICES ASSUME TypeOK, [Next]_vars PROVE TypeOK'
  OBVIOUS
<1> USE RoleAssumption DEF RoleAssumption, TypeOK, Roles, TaskPCs, CallerPCs, RequestPCs,
        ClearPCs, Goto, dispatcherVars, mainVars, taskVars, callerVars
<1>1. ASSUME NEW c \in Callers, Command(c) PROVE TypeOK'
  BY <1>1 DEF Command, Clear, Request
<1>2. ASSUME NEW c \in Callers, Continue(c) PROVE TypeOK'
  <2>1. CASE SetActive(c) \/ HhtStart(c) \/ SessionOpen(c)
    BY <2>1 DEF SetActive, HhtStart, SessionOpen
  <2>2. CASE TaskStartCheck(c) \/ TaskCreate(c) \/ SetRunning(c)
    BY <2>2 DEF TaskStartCheck, TaskCreate, SetRunning
  <2>3. CASE HhtStop(c) \/ TaskStop(c) \/ TakeExitDone(c)
    BY <2>3 DEF HhtStop, TaskStop, TakeExitDone
  <2>4. CASE WaitTimesOut(c) \/ ForceDelete(c)
    BY <2>4 DEF WaitTimesOut, ForceDelete
  <2>5. CASE ForgetTask(c) \/ SessionClose(c) \/ UnsetRunning(c) \/ ClearActive(c)
    BY <2>5 DEF ForgetTask, SessionClose, UnsetRunning, ClearActive
  <2> QED BY <1>2, <2>1, <2>2, <2>3, <2>4, <2>5 DEF Continue
<1>3. ASSUME NEW t \in Tasks, TaskStep(t) PROVE TypeOK'
  BY <1>3 DEF TaskStep, TaskLook, TaskPoll, TaskGive, TaskExit
<1>4. CASE UNCHANGED vars
  BY <1>4 DEF vars
<1> QED BY <1>1, <1>2, <1>3, <1>4 DEF Next

\* The variables of the role and the HHT task keep their types.
THEOREM TypeCorrect == Spec => []TypeOK
<1>1. Init => TypeOK
  <2> SUFFICES ASSUME Init PROVE TypeOK
    OBVIOUS
  <2>1. 0 \in 0 .. MaxTimeouts
    BY RoleAssumption DEF RoleAssumption
  <2> QED BY <2>1, RoleAssumption DEF RoleAssumption, Init, TypeOK, Roles, TaskPCs, CallerPCs
<1> QED BY <1>1, TypeStep, PTL DEF Spec
-----------------------------------------------------------------------------
(***************************************************************************)
(* The inductive invariant, for the only caller c.                         *)
(***************************************************************************)

\* Where the caller is determines what hht_main.c has recorded so far.
MainInv(c) ==
  /\ pc[c] \in {"open", "taskcheck", "create", "setrunning"} => ~running
  /\ pc[c] \in {"stoptask", "wait", "force", "forget", "close", "unset"} => running
  /\ pc[c] \in {"taskcheck", "create", "setrunning"} => session
  /\ pc[c] = "unset" => ~session
  /\ pc[c] \notin {"taskcheck", "create", "setrunning", "unset"} => (session <=> running)

\* The handle is set only while the session is open, and a caller that waits
\* for a task has a task to wait for.
HandleInv(c) ==
  /\ handle # NoTask => session /\ pc[c] \notin {"open", "taskcheck", "create", "close", "unset"}
  /\ pc[c] \in {"wait", "force"} => handle # NoTask
  /\ pc[c] # "deleted"

\* With HHT active and no command under way, the HHT runs.
ActiveInv(c) == active = HHT /\ pc[c] \in {"idle", "set"} => running

\* The handshake over the semaphore, as long as no wait has timed out: the
\* token is in flight only for the caller that waits, and by then the task
\* it waits for is past its last use of the UART.
HandshakeInv(c) ==
  timeouts = 0 =>
    /\ pc[c] # "force"
    /\ \A t \in Live : t = handle
    /\ stopReq => pc[c] \in {"wait", "forget"}
    /\ \A t \in Tasks : task[t] = "giving" => pc[c] = "wait"
    /\ token = 1 => pc[c] = "wait" /\ Live = {}
    /\ pc[c] = "forget" => Live = {}

IInv(c) == TypeOK /\ MainInv(c) /\ HandleInv(c) /\ ActiveInv(c) /\ HandshakeInv(c)

LEMMA InvInit ==
  ASSUME NEW c \in Callers, Callers = {c}
  PROVE  TypeOK /\ Init => IInv(c)
<1> SUFFICES ASSUME TypeOK, Init PROVE IInv(c)
  OBVIOUS
<1>1. pc[c] = "idle" /\ ~running /\ ~session /\ active = NONE
  BY DEF Init
<1>2. handle = NoTask /\ ~stopReq /\ token = 0 /\ Live = {}
      /\ \A t \in Tasks : task[t] = "free"
  BY DEF Init, Live
<1> QED BY <1>1, <1>2, RoleAssumption
        DEF RoleAssumption, IInv, MainInv, HandleInv, ActiveInv, HandshakeInv

\* The steps of the caller.
LEMMA CallerStepInv ==
  ASSUME NEW c \in Callers, Callers = {c}, IInv(c), TypeOK', Command(c) \/ Continue(c)
  PROVE  IInv(c)'
<1> USE RoleAssumption DEF RoleAssumption, Goto, dispatcherVars, mainVars, taskVars,
        IInv, TypeOK, MainInv, HandleInv, ActiveInv, HandshakeInv, Live
<1>1. CASE Clear(c)
  BY <1>1 DEF Clear
<1>2. ASSUME NEW r \in Roles, Request(c, r) PROVE IInv(c)'
  BY <1>2 DEF Request, Roles
<1>3. CASE SetActive(c)
  BY <1>3 DEF SetActive, Roles
<1>4. CASE HhtStart(c) \/ SessionOpen(c)
  BY <1>4 DEF HhtStart, SessionOpen
<1>5. CASE TaskStartCheck(c) \/ SetRunning(c)
  BY <1>5 DEF TaskStartCheck, SetRunning
<1>6. CASE TaskCreate(c)
  BY <1>6 DEF TaskCreate
<1>7. CASE HhtStop(c) \/ TaskStop(c)
  BY <1>7 DEF HhtStop, TaskStop
<1>8. CASE TakeExitDone(c)
  BY <1>8 DEF TakeExitDone
<1>9. CASE WaitTimesOut(c) \/ ForceDelete(c)
  BY <1>9 DEF WaitTimesOut, ForceDelete
<1>10. CASE ForgetTask(c)
  BY <1>10 DEF ForgetTask
<1>11. CASE SessionClose(c)
  BY <1>11 DEF SessionClose
<1>12. CASE UnsetRunning(c)
  BY <1>12 DEF UnsetRunning
<1>13. CASE ClearActive(c)
  BY <1>13 DEF ClearActive
<1> QED BY <1>1, <1>2, <1>3, <1>4, <1>5, <1>6, <1>7, <1>8, <1>9, <1>10, <1>11, <1>12, <1>13
        DEF Command, Continue

\* The steps of an HHT task.
LEMMA TaskStepInv ==
  ASSUME NEW c \in Callers, Callers = {c}, IInv(c), TypeOK', NEW t \in Tasks, TaskStep(t)
  PROVE  IInv(c)'
<1> USE RoleAssumption DEF RoleAssumption, callerVars,
        IInv, TypeOK, MainInv, HandleInv, ActiveInv, HandshakeInv, Live
<1>1. CASE TaskLook(t)
  BY <1>1 DEF TaskLook
<1>2. CASE TaskPoll(t)
  BY <1>2 DEF TaskPoll
<1>3. CASE TaskGive(t)
  BY <1>3 DEF TaskGive
<1>4. CASE TaskExit(t)
  BY <1>4 DEF TaskExit
<1> QED BY <1>1, <1>2, <1>3, <1>4 DEF TaskStep

\* Every step keeps the invariant.
LEMMA StepInv ==
  ASSUME NEW c \in Callers, Callers = {c}, IInv(c), [Next]_vars
  PROVE  IInv(c)'
<1>1. TypeOK'
  BY TypeStep DEF IInv
<1>2. CASE Command(c) \/ Continue(c)
  BY <1>1, <1>2, CallerStepInv
<1>3. ASSUME NEW t \in Tasks, TaskStep(t) PROVE IInv(c)'
  BY <1>1, <1>3, TaskStepInv
<1>4. CASE UNCHANGED vars
  BY <1>4 DEF vars, IInv, TypeOK, MainInv, HandleInv, ActiveInv, HandshakeInv, Live
<1> QED BY <1>2, <1>3, <1>4 DEF Next

LEMMA Invariance ==
  ASSUME NEW c \in Callers, Callers = {c}
  PROVE  Spec => []IInv(c)
<1>1. TypeOK /\ Init => IInv(c)
  BY InvInit
<1>2. IInv(c) /\ [Next]_vars => IInv(c)'
  BY StepInv
<1> QED BY <1>1, <1>2, TypeCorrect, PTL DEF Spec
-----------------------------------------------------------------------------
\* While no wait has timed out, the poll touches the UART only inside a
\* session, in every release build.
THEOREM PollInsideSession ==
  ASSUME NEW c \in Callers, Callers = {c}
  PROVE  Spec => []NoPollOutsideSession
<1>1. IInv(c) => NoPollOutsideSession
  BY RoleAssumption DEF RoleAssumption, IInv, HandleInv, HandshakeInv, NoPollOutsideSession, Live, TypeOK
<1> QED BY <1>1, Invariance, PTL

\* While no wait has timed out, a stopped HHT leaves no task behind.
THEOREM StoppedHasNoTask ==
  ASSUME NEW c \in Callers, Callers = {c}
  PROVE  Spec => []StoppedMeansNoTask
<1>1. IInv(c) => StoppedMeansNoTask
  BY RoleAssumption
     DEF RoleAssumption, IInv, TypeOK, MainInv, HandleInv, HandshakeInv, StoppedMeansNoTask, Live, Idle
<1> QED BY <1>1, Invariance, PTL

\* When the caller is idle and HHT is the active role, the HHT runs.
THEOREM ActiveRoleRuns ==
  ASSUME NEW c \in Callers, Callers = {c}
  PROVE  Spec => []ActiveHhtRuns
<1>1. IInv(c) => ActiveHhtRuns
  BY DEF IInv, ActiveInv, ActiveHhtRuns, Idle
<1> QED BY <1>1, Invariance, PTL

\* The stop path never deletes the task that runs it.
THEOREM CallerSurvives ==
  ASSUME NEW c \in Callers, Callers = {c}
  PROVE  Spec => []CallerNeverDeleted
<1>1. IInv(c) => CallerNeverDeleted
  BY DEF IInv, HandleInv, CallerNeverDeleted
<1> QED BY <1>1, Invariance, PTL
-----------------------------------------------------------------------------
(***************************************************************************)
(* How many tasks a late token can leave behind.  Every live task but the  *)
(* one of the handle, and a token that is still to be taken, is paid for   *)
(* by a wait that timed out; from the end of the wait on, the task of the  *)
(* handle is paid for too.                                                 *)
(***************************************************************************)
BudgetInv(c) ==
  /\ Cardinality(Live) + token <= 1 + timeouts
  /\ handle = NoTask \/ pc[c] \in {"force", "forget"} => Cardinality(Live) + token <= timeouts

\* What a change of one task does to the number of live ones.
LEMMA LiveCount ==
  ASSUME IsFiniteSet(Tasks), NEW t \in Tasks
  PROVE  /\ Cardinality(Live) \in Nat /\ Cardinality(Live') \in Nat
         /\ Live' = Live \cup {t} => Cardinality(Live') <= Cardinality(Live) + 1
         /\ Live' = Live \ {t} /\ t \in Live => Cardinality(Live') = Cardinality(Live) - 1
         /\ Live' \subseteq Live => Cardinality(Live') <= Cardinality(Live)
<1>1. IsFiniteSet(Live) /\ IsFiniteSet(Live')
  BY FS_Subset DEF Live
<1>2. Cardinality(Live) \in Nat /\ Cardinality(Live') \in Nat
  BY <1>1, FS_CardinalityType
<1>3. Live' = Live \cup {t} => Cardinality(Live') <= Cardinality(Live) + 1
  BY <1>1, <1>2, FS_AddElement
<1>4. Live' = Live \ {t} /\ t \in Live => Cardinality(Live') = Cardinality(Live) - 1
  BY <1>1, <1>2, FS_RemoveElement
<1>5. Live' \subseteq Live => Cardinality(Live') <= Cardinality(Live)
  BY <1>1, FS_Subset
<1> QED BY <1>2, <1>3, <1>4, <1>5

LEMMA CallerStepBudget ==
  ASSUME IsFiniteSet(Tasks), NEW c \in Callers, Callers = {c}, IInv(c), BudgetInv(c),
         Command(c) \/ Continue(c)
  PROVE  BudgetInv(c)'
<1>t. Cardinality(Live) \in Nat /\ token \in {0, 1} /\ timeouts \in Nat /\ pc \in [Callers -> CallerPCs]
  <2>1. IsFiniteSet(Live)
    BY FS_Subset DEF Live
  <2> QED BY <2>1, FS_CardinalityType, RoleAssumption DEF RoleAssumption, IInv, TypeOK
<1> USE <1>t DEF BudgetInv, Goto, dispatcherVars, mainVars, taskVars
<1>1. CASE UNCHANGED <<task, handle, token, timeouts>> /\ pc[c] \notin {"force", "forget"}
           /\ pc'[c] \notin {"force", "forget"}
  BY <1>1 DEF Live
<1>2. CASE TaskCreate(c)
  <2>1. handle = NoTask /\ pc'[c] = "setrunning" /\ UNCHANGED <<token, timeouts>>
    BY <1>2 DEF TaskCreate, IInv, HandleInv
  <2>2. ASSUME NEW t \in Tasks, task[t] = "free", task' = [task EXCEPT ![t] = "loop"], handle' = t
        PROVE  BudgetInv(c)'
    <3>1. Live' = Live \cup {t}
      BY <2>2 DEF Live, IInv, TypeOK
    <3>2. Cardinality(Live') \in Nat /\ Cardinality(Live') <= Cardinality(Live) + 1
      BY <3>1, LiveCount
    <3>3. Cardinality(Live) + token <= timeouts
      BY <2>1
    <3>4. Cardinality(Live') + token' <= 1 + timeouts'
      BY <2>1, <3>2, <3>3
    <3>5. handle' # NoTask /\ pc'[c] \notin {"force", "forget"}
      BY <2>1, <2>2, RoleAssumption DEF RoleAssumption
    <3> QED BY <3>4, <3>5
  <2>3. CASE UNCHANGED <<task, handle>>
    BY <2>1, <2>3 DEF Live
  <2> QED BY <1>2, <2>2, <2>3 DEF TaskCreate
<1>3. CASE TakeExitDone(c)
  BY <1>3 DEF TakeExitDone, Live
<1>4. CASE WaitTimesOut(c)
  BY <1>4 DEF WaitTimesOut, Live
<1>5. CASE ForceDelete(c)
  <2>1. Live' \subseteq Live /\ UNCHANGED <<handle, token, timeouts>> /\ pc[c] = "force"
    BY <1>5 DEF ForceDelete, Live
  <2>2. Cardinality(Live') \in Nat /\ Cardinality(Live') <= Cardinality(Live)
    <3>1. handle \in Tasks
      BY <2>1 DEF IInv, HandleInv, TypeOK
    <3> QED BY <2>1, <3>1, LiveCount
  <2> QED BY <2>1, <2>2
<1>6. CASE ForgetTask(c)
  BY <1>6 DEF ForgetTask, Live
<1>7. CASE Command(c)
  BY <1>1, <1>7 DEF Command, Clear, Request
<1>8. CASE SetActive(c) \/ HhtStart(c) \/ SessionOpen(c) \/ TaskStartCheck(c) \/ SetRunning(c)
  BY <1>1, <1>8 DEF SetActive, HhtStart, SessionOpen, TaskStartCheck, SetRunning
<1>9. CASE HhtStop(c) \/ TaskStop(c) \/ SessionClose(c) \/ UnsetRunning(c) \/ ClearActive(c)
  BY <1>1, <1>9 DEF HhtStop, TaskStop, SessionClose, UnsetRunning, ClearActive
<1> QED BY <1>2, <1>3, <1>4, <1>5, <1>6, <1>7, <1>8, <1>9 DEF Continue

LEMMA TaskStepBudget ==
  ASSUME IsFiniteSet(Tasks), NEW c \in Callers, IInv(c), BudgetInv(c), NEW t \in Tasks, TaskStep(t)
  PROVE  BudgetInv(c)'
<1>t. Cardinality(Live) \in Nat /\ Cardinality(Live') \in Nat /\ token \in {0, 1} /\ timeouts \in Nat
  BY LiveCount, RoleAssumption DEF RoleAssumption, IInv, TypeOK
<1>1. CASE TaskLook(t) \/ TaskPoll(t) \/ TaskExit(t)
  <2>1. Live' = Live /\ UNCHANGED <<pc, handle, token, timeouts>>
    BY <1>1 DEF TaskLook, TaskPoll, TaskExit, Live, callerVars, IInv, TypeOK
  <2> QED BY <2>1 DEF BudgetInv
<1>2. CASE TaskGive(t)
  <2>1. Live' = Live \ {t} /\ t \in Live
    BY <1>2 DEF TaskGive, Live, IInv, TypeOK
  <2>2. Cardinality(Live') = Cardinality(Live) - 1
    BY <2>1, LiveCount
  <2>3. token' = 1 /\ UNCHANGED <<pc, handle, timeouts>>
    BY <1>2 DEF TaskGive, callerVars
  <2> QED BY <1>t, <2>2, <2>3 DEF BudgetInv
<1> QED BY <1>1, <1>2 DEF TaskStep

\* A stop whose token is that of an earlier task abandons a running task; for
\* every number of control blocks there is at most one such task for each
\* wait that timed out.
THEOREM AbandonedAreBounded ==
  ASSUME IsFiniteSet(Tasks), NEW c \in Callers, Callers = {c}
  PROVE  Spec => []AbandonedTasksBounded
<1>1. Init => BudgetInv(c)
  <2> SUFFICES ASSUME Init PROVE BudgetInv(c)
    OBVIOUS
  <2>1. Live = {} /\ token = 0 /\ timeouts = 0
    BY DEF Init, Live
  <2> QED BY <2>1, FS_EmptySet DEF BudgetInv
<1>2. IInv(c) /\ BudgetInv(c) /\ [Next]_vars => BudgetInv(c)'
  <2>1. CASE UNCHANGED vars
    BY <2>1 DEF vars, BudgetInv, Live
  <2> QED BY <2>1, CallerStepBudget, TaskStepBudget DEF Next
<1>3. IInv(c) /\ BudgetInv(c) => AbandonedTasksBounded
  <2>1. Cardinality(Live) \in Nat
    BY FS_Subset, FS_CardinalityType DEF Live
  <2> QED BY <2>1, RoleAssumption DEF RoleAssumption, IInv, TypeOK, BudgetInv, AbandonedTasksBounded
<1> QED BY <1>1, <1>2, <1>3, Invariance, PTL DEF Spec
-----------------------------------------------------------------------------
(* The role with UART1                                                     *)

\* Every step but a restart is a step of the role, or leaves it alone.
LEMMA RefinesRole == UartNext => [Next]_vars \/ Reboot
<1> SUFFICES ASSUME UartNext PROVE [Next]_vars \/ Reboot
  OBVIOUS
<1>1. CASE RoleStep
  BY <1>1 DEF RoleStep, Next, Command, Roles
<1>2. CASE HhtUart
  <2>1. ASSUME NEW c \in Callers, NEW t \in Types, StartHht(c, t) PROVE Next
    BY <2>1 DEF StartHht, Next, Command, Roles
  <2>2. ASSUME NEW c \in Callers, OpenUart(c) \/ CloseUart(c) PROVE Next
    BY <2>2 DEF OpenUart, CloseUart, Next, Continue
  <2>3. ASSUME NEW c \in Callers, OpenAborts(c) PROVE UNCHANGED vars
    BY <2>3 DEF OpenAborts
  <2> QED BY <1>2, <2>1, <2>2, <2>3 DEF HhtUart
<1>3. CASE JobUart
  BY <1>3 DEF JobUart, BeginJob, OpenJob, EndJob
<1> QED BY <1>1, <1>2, <1>3 DEF UartNext

\* The steps that RoleUart takes over from HhtRole unchanged open and close
\* no session.
LEMMA RoleStepKeepsSession == RoleStep => UNCHANGED <<session, uartVars>> /\ ~aborted
<1> SUFFICES ASSUME RoleStep PROVE UNCHANGED session
  BY DEF RoleStep
<1>1. ASSUME NEW c \in Callers, Clear(c) \/ \E r \in OtherRoles : Request(c, r)
      PROVE  UNCHANGED session
  BY <1>1 DEF Clear, Request, mainVars
<1>2. ASSUME NEW c \in Callers, Continue(c), pc[c] \notin {"open", "close"}
      PROVE  UNCHANGED session
  BY <1>2 DEF Continue, Goto, mainVars, SetActive, HhtStart, SessionOpen, TaskStartCheck,
     TaskCreate, SetRunning, HhtStop, TaskStop, TakeExitDone, WaitTimesOut, ForceDelete,
     ForgetTask, SessionClose, UnsetRunning, ClearActive
<1>3. ASSUME NEW t \in Tasks, TaskStep(t) PROVE UNCHANGED session
  BY <1>3 DEF TaskStep, TaskLook, TaskPoll, TaskGive, TaskExit, callerVars
<1> QED BY <1>1, <1>2, <1>3 DEF RoleStep
-----------------------------------------------------------------------------
(***************************************************************************)
(* The types.                                                              *)
(***************************************************************************)
DriverTypes ==
  /\ hhtType \in AllTypes /\ opened \in AllTypes
  /\ installed \in BOOLEAN /\ ready \in BOOLEAN /\ config \in Configs
  /\ job \in Jobs \cup {"none"} /\ jobPc \in {"idle", "open", "use"}
  /\ aborted \in BOOLEAN /\ misused \in BOOLEAN

LEMMA DriverTypeStep == DriverTypes /\ [UartNext]_allVars => DriverTypes'
<1> SUFFICES ASSUME DriverTypes, [UartNext]_allVars PROVE DriverTypes'
  OBVIOUS
<1> USE UartAssumption DEF UartAssumption, DriverTypes, AllTypes, Configs
<1>1. CASE RoleStep \/ UNCHANGED allVars
  BY <1>1 DEF RoleStep, uartVars, allVars
<1>2. ASSUME NEW c \in Callers, NEW t \in Types, StartHht(c, t) PROVE DriverTypes'
  BY <1>2 DEF StartHht
<1>3. ASSUME NEW c \in Callers, OpenUart(c) PROVE DriverTypes'
  BY <1>3 DEF OpenUart, ConfigOf
<1>4. ASSUME NEW c \in Callers, OpenAborts(c) \/ CloseUart(c) PROVE DriverTypes'
  BY <1>4 DEF OpenAborts, CloseUart
<1>5. ASSUME NEW j \in Jobs, BeginJob(j) PROVE DriverTypes'
  BY <1>5 DEF BeginJob
<1>6. CASE OpenJob
  BY <1>6 DEF OpenJob, JobConfig
<1>7. CASE EndJob
  BY <1>7 DEF EndJob
<1>8. CASE Reboot
  BY <1>8 DEF Reboot
<1> QED BY <1>1, <1>2, <1>3, <1>4, <1>5, <1>6, <1>7, <1>8 DEF UartNext, HhtUart, JobUart

\* The role begins with its types, and so it does again after a restart.
LEMMA InitTypes == Init => TypeOK
<1>1. 0 \in 0 .. MaxTimeouts
  BY RoleAssumption DEF RoleAssumption
<1> QED BY <1>1, RoleAssumption DEF RoleAssumption, Init, TypeOK, Roles, TaskPCs, CallerPCs

LEMMA RebootTypes == Reboot => TypeOK'
<1>1. 0 \in 0 .. MaxTimeouts
  BY RoleAssumption DEF RoleAssumption
<1> QED BY <1>1, RoleAssumption DEF RoleAssumption, Reboot, TypeOK, Roles, TaskPCs, CallerPCs

\* The variables of the role, of the driver and of the jobs keep their types.
THEOREM UartTypesHold == UartSpec => []UartTypeOK
<1>1. Init /\ UartInit => TypeOK /\ DriverTypes
  BY InitTypes, UartAssumption
     DEF UartAssumption, UartInit, DriverTypes, AllTypes, Configs
<1>2. TypeOK /\ [UartNext]_allVars => TypeOK'
  <2>1. [UartNext]_allVars => [Next]_vars \/ Reboot
    BY RefinesRole DEF allVars
  <2> QED BY <2>1, TypeStep, RebootTypes
<1>3. TypeOK /\ DriverTypes => UartTypeOK
  BY DEF DriverTypes, UartTypeOK
<1> QED BY <1>1, <1>2, <1>3, DriverTypeStep, PTL DEF UartSpec
-----------------------------------------------------------------------------
(***************************************************************************)
(* The inductive invariant of the driver, for any number of callers.       *)
(***************************************************************************)

\* An open session has a driver of its own, wired for the type it was opened
\* with; outside a session only the wiring that every HHT but the HHT3000
\* uses may be left behind.
SessionInv ==
  /\ session => ready /\ config = ConfigOf(opened) /\ hhtType = opened
  /\ ready /\ ~session => config = "hht" /\ opened # "hht3000"
  /\ ready => installed

\* A driver that g_hht_uart_ready does not tell of is that of the job.
JobInv ==
  /\ installed /\ ~ready => jobPc = "use"
  /\ jobPc = "use" => installed /\ ~ready /\ config = JobConfig(job)

UartInv ==
  /\ DriverTypes
  /\ session \in BOOLEAN
  /\ JobRuns => job \in Jobs
  /\ Sound => SessionInv /\ JobInv
  /\ ~misused /\ aborted => JobRuns

LEMMA UartInvStep == UartInv /\ [UartNext]_allVars => UartInv'
<1> SUFFICES ASSUME UartInv, [UartNext]_allVars PROVE UartInv'
  OBVIOUS
<1>t. DriverTypes'
  BY DriverTypeStep DEF UartInv
<1> USE <1>t, UartAssumption
        DEF UartAssumption, UartInv, DriverTypes, SessionInv, JobInv, Sound, JobRuns, AllTypes
<1>1. CASE RoleStep \/ UNCHANGED allVars
  BY <1>1, RoleStepKeepsSession DEF uartVars, allVars, vars
<1>2. ASSUME NEW c \in Callers, NEW t \in Types, StartHht(c, t) PROVE UartInv'
  BY <1>2 DEF StartHht, Request, mainVars
<1>3. ASSUME NEW c \in Callers, OpenUart(c) PROVE UartInv'
  BY <1>3 DEF OpenUart, SessionOpen, InstallAborts, KeepsDriver, DeletesDriver, ConfigOf
<1>4. ASSUME NEW c \in Callers, OpenAborts(c) PROVE UartInv'
  BY <1>4 DEF OpenAborts, InstallAborts, KeepsDriver, DeletesDriver, ConfigOf, vars
<1>5. ASSUME NEW c \in Callers, CloseUart(c) PROVE UartInv'
  BY <1>5 DEF CloseUart, SessionClose, ConfigOf
<1>6. ASSUME NEW j \in Jobs, BeginJob(j) PROVE UartInv'
  BY <1>6 DEF BeginJob, vars
<1>7. CASE OpenJob
  BY <1>7 DEF OpenJob, vars
<1>8. CASE EndJob
  BY <1>8 DEF EndJob, vars
<1>9. CASE Reboot
  BY <1>9 DEF Reboot
<1> QED BY <1>1, <1>2, <1>3, <1>4, <1>5, <1>6, <1>7, <1>8, <1>9 DEF UartNext, HhtUart, JobUart

LEMMA UartInvariance == UartSpec => []UartInv
<1>1. Init /\ UartInit => UartInv
  BY UartAssumption
     DEF UartAssumption, Init, UartInit, UartInv, DriverTypes, SessionInv, JobInv, Sound,
         JobRuns, AllTypes, Configs
<1> QED BY <1>1, UartInvStep, PTL DEF UartSpec
-----------------------------------------------------------------------------
\* While a session is open UART1 is installed and wired for the type that it
\* was opened with, however many callers there are.
THEOREM SessionKeepsUart == UartSpec => []SessionOwnsUart
<1>1. UartInv => SessionOwnsUart
  BY DEF UartInv, SessionInv, SessionOwnsUart, InSession
<1> QED BY <1>1, UartInvariance, PTL

\* The device is restarted over UART1 only while a job runs.
THEOREM HhtAloneNeverAborts == UartSpec => []AbortNeedsJob
<1>1. UartInv => AbortNeedsJob
  BY DEF UartInv, AbortNeedsJob
<1> QED BY <1>1, UartInvariance, PTL

\* g_hht_uart_ready tells the truth, what it does not tell of belongs to a
\* job, and an HHT3000 leaves no driver behind.
THEOREM ReadyIsTrue == UartSpec => []ReadyMeansInstalled
<1>1. UartInv => ReadyMeansInstalled
  BY DEF UartInv, SessionInv, JobInv, ReadyMeansInstalled, JobRuns
<1> QED BY <1>1, UartInvariance, PTL
-----------------------------------------------------------------------------
\* The invariant of the role survives the composition with UART1.
LEMMA RoleInvariance ==
  ASSUME NEW c \in Callers, Callers = {c}
  PROVE  UartSpec => []IInv(c)
<1>1. Init => IInv(c)
  BY InvInit, InitTypes
<1>2. IInv(c) /\ [UartNext]_allVars => IInv(c)'
  <2>1. [UartNext]_allVars => [Next]_vars \/ Reboot
    BY RefinesRole DEF allVars
  <2>2. Reboot => IInv(c)'
    <3> SUFFICES ASSUME Reboot PROVE IInv(c)'
      OBVIOUS
    <3>1. TypeOK'
      BY RebootTypes
    <3>2. pc'[c] = "idle" /\ ~running' /\ ~session' /\ active' = NONE
      BY DEF Reboot
    <3>3. handle' = NoTask /\ ~stopReq' /\ token' = 0 /\ Live' = {}
          /\ \A t \in Tasks : task'[t] = "free"
      BY DEF Reboot, Live
    <3> QED BY <3>1, <3>2, <3>3, RoleAssumption
            DEF RoleAssumption, IInv, MainInv, HandleInv, ActiveInv, HandshakeInv
  <2> QED BY <2>1, <2>2, StepInv
<1> QED BY <1>1, <1>2, PTL DEF UartSpec

\* While a job uses UART1 it has the driver to itself: no HHT task polls,
\* in a release build whose stops do not time out.
THEOREM JobKeepsUart ==
  ASSUME NEW c \in Callers, Callers = {c}
  PROVE  UartSpec => []JobOwnsUart
<1>1. IInv(c) => NoPollOutsideSession
  BY RoleAssumption
     DEF RoleAssumption, IInv, HandleInv, HandshakeInv, NoPollOutsideSession, Live, TypeOK
<1>2. UartInv /\ NoPollOutsideSession => JobOwnsUart
  BY DEF UartInv, SessionInv, JobInv, JobOwnsUart, NoPollOutsideSession
<1> QED BY <1>1, <1>2, UartInvariance, RoleInvariance, PTL
=============================================================================
