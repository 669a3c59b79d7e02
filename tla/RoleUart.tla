------------------------------ MODULE RoleUart ------------------------------
(***************************************************************************)
(* Who has UART1.  The HHT session (hht_session.c, hht_uart.c) and two of  *)
(* the firmware jobs of fw_update_worker.c (the LPC UART ISP and the STM32 *)
(* bootloader) install, reconfigure and delete the same driver, and none   *)
(* of them asks the others.  This module composes HhtRole with them.       *)
(*                                                                         *)
(* ESP_ERROR_CHECK(uart_driver_install(...)) aborts, and so restarts the   *)
(* device, when the driver is already installed.                           *)
(*                                                                         *)
(* misused is history: it records the two things that UART1 does not       *)
(* survive until the next restart, a phone that gives a running HHT        *)
(* another type and an STM32 job that begins while UART1 is installed.     *)
(***************************************************************************)
EXTENDS HhtRole

CONSTANTS
  Types,      \* HHT types the phone starts: subset of {"wb100", "hht100", "hht3000"}
  Jobs        \* UART1 jobs of the worker: subset of {"isp", "stm32"}

ASSUME UartAssumption ==
  /\ Types \subseteq {"wb100", "hht100", "hht3000"}
  /\ Jobs \subseteq {"isp", "stm32"}

VARIABLES
  hhtType,    \* s_hht_type
  opened,     \* the type the session was last opened with
  installed,  \* the UART1 driver is installed
  config,     \* last pins and parameters given to UART1
  ready,      \* g_hht_uart_ready
  job,        \* the UART1 job in progress
  jobPc,      \* "idle", "open" (about to open UART1) or "use"
  aborted,    \* an ESP_ERROR_CHECK failed and the device has not restarted
  misused

uartVars == <<hhtType, opened, installed, config, ready, job, jobPc, aborted, misused>>
allVars  == <<vars, uartVars>>

AllTypes == {"wb100", "hht100", "hht3000"}
Configs  == {"reset", "hht", "cmd", "isp", "boot"}

\* IO9..IO12 for WB100 and HHT100, the command UART IO13/IO14 for HHT3000;
\* the jobs use the same two sets of pins with parameters of their own.
ConfigOf(t)  == IF t = "hht3000" THEN "cmd" ELSE "hht"
JobConfig(j) == IF j = "isp" THEN "isp" ELSE "boot"

UartInit ==
  /\ hhtType = "wb100" /\ opened = "wb100"
  /\ installed = FALSE /\ config = "reset" /\ ready = FALSE
  /\ job = "none" /\ jobPc = "idle" /\ aborted = FALSE /\ misused = FALSE

JobRuns == jobPc # "idle"
-----------------------------------------------------------------------------
(* The HHT side *)

\* The start command sets the type before the role is requested, whether or
\* not the HHT is running.
StartHht(c, t) ==
  /\ ~aborted
  /\ Request(c, HHT)
  /\ hhtType' = t
  /\ misused' = (misused \/ (session /\ t # hhtType))
  /\ UNCHANGED <<opened, installed, config, ready, job, jobPc, aborted>>

\* Faulty variant for KeepsDriver: a driver that is there is reused, whatever
\* pins it has.
KeepsAnyDriver == ready

\* hht_uart_init (reuse) and hht_uart_init_3000 (delete first): what each
\* does about a driver that is already there.
KeepsDriver    == ready /\ ConfigOf(hhtType) = "hht"
DeletesDriver  == ready /\ ConfigOf(hhtType) = "cmd"
InstallAborts  == installed /\ ~KeepsDriver /\ ~DeletesDriver

OpenUart(c) ==
  /\ ~aborted
  /\ ~InstallAborts
  /\ SessionOpen(c)
  /\ opened' = hhtType
  /\ IF KeepsDriver
     THEN UNCHANGED <<installed, config, ready>>
     ELSE installed' = TRUE /\ config' = ConfigOf(hhtType) /\ ready' = TRUE
  /\ UNCHANGED <<hhtType, job, jobPc, aborted, misused>>

OpenAborts(c) ==
  /\ ~aborted
  /\ pc[c] = "open" /\ InstallAborts
  /\ aborted' = TRUE
  /\ UNCHANGED <<vars, hhtType, opened, installed, config, ready, job, jobPc, misused>>

\* Faulty variant for CloseUart: g_hht_uart_ready stays set.
CloseUartStaysReady(c) ==
  /\ ~aborted
  /\ SessionClose(c)
  /\ installed' = (installed /\ ~(ready /\ hhtType = "hht3000"))
  /\ UNCHANGED <<hhtType, opened, config, ready, job, jobPc, aborted, misused>>

\* Only the HHT3000 gives the driver up; the others flush it.
CloseUart(c) ==
  /\ ~aborted
  /\ SessionClose(c)
  /\ IF ready /\ hhtType = "hht3000"
     THEN installed' = FALSE /\ ready' = FALSE
     ELSE UNCHANGED <<installed, ready>>
  /\ UNCHANGED <<hhtType, opened, config, job, jobPc, aborted, misused>>

\* Every other step of the role leaves UART1 alone.
RoleStep ==
  /\ ~aborted
  /\ \/ \E c \in Callers :
          \/ Clear(c)
          \/ \E r \in OtherRoles : Request(c, r)
          \/ Continue(c) /\ pc[c] \notin {"open", "close"}
     \/ \E t \in Tasks : TaskStep(t)
  /\ UNCHANGED uartVars
-----------------------------------------------------------------------------
(* The worker's side *)

BeginJob(j) ==
  /\ ~aborted
  /\ ~JobRuns
  /\ job' = j /\ jobPc' = "open"
  /\ UNCHANGED <<vars, hhtType, opened, installed, config, ready, aborted, misused>>

\* Faulty variant for OpenJob: neither job looks at the result of the install.
OpenJobUnchecked ==
  /\ ~aborted
  /\ jobPc = "open"
  /\ config' = JobConfig(job)
  /\ installed' = TRUE /\ jobPc' = "use"
  /\ misused' = (misused \/ (job = "stm32" /\ installed))
  /\ UNCHANGED <<vars, hhtType, opened, ready, job, aborted>>

\* uart_isp_uart_init configures the pins, then installs; stm32_update_start
\* does the same but does not look at the result of the install.
OpenJob ==
  /\ ~aborted
  /\ jobPc = "open"
  /\ config' = JobConfig(job)
  /\ installed' = TRUE
  /\ IF job = "isp" /\ installed
     THEN aborted' = TRUE /\ UNCHANGED jobPc
     ELSE jobPc' = "use" /\ UNCHANGED aborted
  /\ misused' = (misused \/ (job = "stm32" /\ installed))
  /\ UNCHANGED <<vars, hhtType, opened, ready, job>>

\* Faulty variant for EndJob: an error path forgets to delete the driver.
EndJobLeavesDriver ==
  /\ ~aborted
  /\ jobPc = "use"
  /\ installed' \in {FALSE, installed}
  /\ job' = "none" /\ jobPc' = "idle"
  /\ UNCHANGED <<vars, hhtType, opened, config, ready, aborted, misused>>

\* Success or failure, both jobs end by deleting the driver.
EndJob ==
  /\ ~aborted
  /\ jobPc = "use"
  /\ installed' = FALSE
  /\ job' = "none" /\ jobPc' = "idle"
  /\ UNCHANGED <<vars, hhtType, opened, config, ready, aborted, misused>>

\* The panic handler restarts the device.
Reboot ==
  /\ aborted
  /\ active' = NONE /\ running' = FALSE /\ session' = FALSE
  /\ handle' = NoTask /\ stopReq' = FALSE /\ token' = 0
  /\ task' = [t \in Tasks |-> "free"]
  /\ pc' = [c \in Callers |-> "idle"] /\ arg' = [c \in Callers |-> HHT]
  /\ timeouts' = 0
  /\ hhtType' = "wb100" /\ opened' = "wb100"
  /\ installed' = FALSE /\ config' = "reset" /\ ready' = FALSE
  /\ job' = "none" /\ jobPc' = "idle" /\ aborted' = FALSE /\ misused' = FALSE
-----------------------------------------------------------------------------
HhtUart ==
  \E c \in Callers : (\E t \in Types : StartHht(c, t)) \/ OpenUart(c) \/ OpenAborts(c)
                     \/ CloseUart(c)

JobUart == (\E j \in Jobs : BeginJob(j)) \/ OpenJob \/ EndJob

UartNext == RoleStep \/ HhtUart \/ JobUart \/ Reboot

UartSpec == Init /\ UartInit /\ [][UartNext]_allVars
-----------------------------------------------------------------------------
UartTypeOK ==
  /\ TypeOK
  /\ hhtType \in AllTypes /\ opened \in AllTypes
  /\ installed \in BOOLEAN /\ ready \in BOOLEAN /\ config \in Configs
  /\ job \in Jobs \cup {"none"} /\ jobPc \in {"idle", "open", "use"}
  /\ aborted \in BOOLEAN /\ misused \in BOOLEAN

\* An HHT session in progress: opened, and not yet being closed.
InSession == session /\ \A c \in Callers : pc[c] \notin {"close", "unset"}

\* What may be expected of UART1 short of the hazards in misused.
Sound == ~misused /\ ~aborted

\* While a session is open UART1 is installed and wired for the type that
\* the session was opened with, through any jobs that come and go.
SessionOwnsUart ==
  Sound /\ InSession => ready /\ installed /\ config = ConfigOf(opened)

\* While a job uses UART1 the driver is there, has the job's parameters, and
\* no HHT task reads or writes it (unless a stop timed out).
JobOwnsUart ==
  Sound /\ jobPc = "use" =>
    /\ installed /\ config = JobConfig(job)
    /\ timeouts = 0 => \A t \in Tasks : task[t] # "poll"

\* The HHT by itself never aborts, in whatever order its types are started
\* and stopped: the install fails only over the driver of a job.
AbortNeedsJob == ~misused /\ aborted => JobRuns

\* g_hht_uart_ready tells the truth, a driver that it does not tell of belongs
\* to a job, and the HHT3000 leaves none behind (hht_session.c:86): once every
\* command is done, without a session or a job UART1 is not installed.
ReadyMeansInstalled ==
  Sound =>
    /\ ready => installed
    /\ installed /\ ~ready => JobRuns
    /\ Idle /\ ~session /\ ~JobRuns /\ opened = "hht3000" => ~installed
=============================================================================
