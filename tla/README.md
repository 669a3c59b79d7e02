# MIRI-TOOL firmware: TLA+ specification

MIRI-TOOL is ESP32-S3 firmware (ESP-IDF, FreeRTOS) for a service tool of
elevators.  A phone talks to it over BLE, HTTP and TCP.  It plays the role of a
hand-held terminal (HHT) towards an elevator controller on UART1, and it stores
firmware images on an SD card and flashes them: into itself, into an STM32 or an
LPC over UART1, into a TMS board over CAN, and into other parts through a debug
probe on UART2.

This directory specifies `src/main` from the phone's bytes to the target's flash:
what a phone's frames become, who runs and who owns UART1, what the terminal shows
and sends, which job runs when, what is on the card while it is uploaded, converted,
executed and deleted, and what the device and its targets hold after an update.

## 1. Inventory

Tasks: the BLE host task, one HTTP server task, one TCP server task, the
firmware worker, the HHT task, and in debug builds a console task.  They share
globals without locks, except for one FreeRTOS queue, one binary semaphore and
the TCP server's spinlock.

| Component | State | Operations | Talks to | What is hard | Correct means |
|---|---|---|---|---|---|
| Role dispatcher, HHT task (`core/role_dispatcher.c`, `core/hht/hht_main.c`, `hht_task.c`) | active role, running flag, task handle, stop flag, exit semaphore | request, clear; start, stop; the task's loop | BLE commands, HHT session | a stop waits 2 s, then deletes the task; a late token | no task outside a session, none left behind, a command ends |
| HHT session, UART1 (`hht_session.c`, `hht_uart.c`, `hht_wb100.c`, `hht_3000.c`) | type, ready flag, driver, handshake | open, close, poll | ISP and STM32 jobs share UART1; the remote | three owners, none asks the others; failed installs abort; late and partial answers | whoever uses UART1 has it, with its own pins; an open ends |
| HHT keys (`hht_keys.c`) | held key, long flag, counter, pending release | send, send long, poll, cancel | BLE task sends, HHT task polls | early release, screen change, lost update | short keys sent in full and released, long keys held |
| HHT display (`hht_display.c`) | rows, last rows, cursor, dirty marks, all static | put a byte, compare, push | HHT task, BLE | bytes cut anywhere, state that outlives the session | the phone shows what the remote shows |
| Firmware worker (`fw_update_worker.c`, `fw_upload.c`) | queue, task | start, enqueue, receive, prepare, execute | every client; all executors | two clients start it; full queue; hanging job | one worker, accepted jobs run once, in order |
| Routing (`fw_upload_registry.c`, `fw_upload_meta_defaults.c`) | two constant tables | look up, prepare, override | uploads, runs | a table, a meta and a client disagree | the type decides unless a client asks |
| Storage, manager (`fw_upload_storage.c`, `fw_upload_manager.c`) | files and metas on the card | writer, reader, meta, run, save | TCP, HTTP, worker | broken uploads, restart, concurrent use of one file | what is said to be stored is whole; the latest is flashed |
| TCP server (`base/net/tcp/tcp_server.c`) | pending name and type, expected size | upload | storage | disconnect, stale size | no partial file |
| HTTP server (`base/net/http`) | none | list, meta, raw and mobile upload, run, delete, format, state | storage, worker | stalls, failures half-way | as for storage |
| ESP32 OTA (`core/esp32_update`) | file, reboot flag | update | partitions, boot loader | power failure, truncated image, sticky flag | always a whole image, never an older one |
| STM32, ISP, CAN, probe link | protocol state | update | UART1, CAN, UART2 | refusals, silence, late answers, lengths and numbers at their limit | what is reported done is in the flash; no failure without a cause |
| Packaging, Intel HEX, COFF | converter state | convert, package | worker, CAN | lines cut or damaged, gaps, order | equal to what the file says |
| BLE link (`packet.c`, `base/ble`) | one parser, receive buffer, connections | connect, write, parse | all phones | several phones and one parser, cut frames | what is handled was sent |
| BLE commands (`protocol/ble_cmd_parser.c`) | last type, device name | dispatch; list; rename | all | a directory read twice, a rename in two files | lists are complete, names survive |
| State (`fw_upload_state.c`), runtime configuration, file systems, start-up | step, settings, name file | get, set, mount, initialise | all | one global with many writers, power failure | the state means the job; settings survive |
| Wi-Fi, console, board, diagnosis | handles, constants | - | - | - | - |

Hard behaviour, most of it beyond a unit test: interleavings of the tasks above,
a wait that times out beside a late answer, loss of power between two writes,
uploads that break, jobs that fail or hang, frames of several phones in one
parser, commands in an unexpected order.  `PROJECT.json` lists each hazard at its
line.

## 2. Modules

| Module | Models | Correspondence |
|---|---|---|
| `HhtRole` | role dispatcher, `hht_start`/`hht_stop`, the HHT task | `pc[c]` walks a caller through the calls that a command makes; one action per access to shared state; `Clear`, `TaskStop`, `TakeExitDone`, `WaitTimesOut`, `ForceDelete`, `ForgetTask`, `SessionClose`, `UnsetRunning`, `ClearActive` are a stop in the order of the code |
| `RoleUart` | extends `HhtRole` with UART1 and its other two users | `OpenUart`/`CloseUart` refine the two session steps; `BeginJob`, `OpenJob`, `EndJob` are a UART1 job of the worker; `OpenAborts` and `Reboot` are `ESP_ERROR_CHECK` |
| `HhtKeys` | `hht_keys.c`, each function atomic | four variables of the code, `wire` for the last byte written, three history variables |
| `HhtKeysRace` | send and poll, split at each load and store of shared variables | shows what the atomicity of `HhtKeys` hides |
| `HhtScreen` | `hht_display.c`: a byte, the end of a poll, the rows of a report | `Put`, `EndPoll`, `PushRows`; `phone` and `lost` are what the phone shows and which row's last notification did not arrive |
| `HhtTerminal` | a session: `HhtKeys`, `HhtScreen`, handshakes that succeed or fail, both kinds of poll, the remote at the other end of `uart` | `Opens`, `ReadsAnswer`, `Greets`, `Syncs`, after which the polls begin whatever came of them (`hht_main.c:30`); WB100 and HHT100 do the same and are one type, "stream"; `KeysOfStream`, `ShowsByte`, `ShowsRows` are a poll of WB100, `AsksReport`, `ReadsReport`, `NoReport`, `KeysOf3000` one of HHT3000 |
| `FwJobs` | `fw_update_worker_start`, `fw_update_enqueue_job`, the worker's loop | `TestQueue`, `NewQueue`, `TestTask`, `NewTask` are separate, as two clients call them, at any time; an executor ends or hangs |
| `JobQueue` | what a client relies on: an accepted job begins at most once and is not dropped; with one worker (`alone`) jobs run one at a time, in order | implemented by `FwJobs` under a refinement mapping |
| `FwRoute` | the two tables and the override rule | pure operators, one per function |
| `FwStore` | one stored file, its meta and conversion, its uploads, runs and deletion, on a card that fails in any call | a variable per task's position; `SessionBegin`, `SessionWrite`, `SessionFinish` are the writer that TCP and HTTP share; `Close` and `MetaWrite` are the calls whose result is not, or not always, looked at |
| `EspOta` | `esp32_update_start` over the three partitions factory, ota_0, ota_1 | one action per call of the OTA interface; `PowerFails` between any two |
| `IspUpdate` | `uart_isp_update_start` and the commands of `nxp_isp/isp.c` below it | one action per turn of a loop or command; the target answers, refuses, garbles or stays silent within the action that waits for it |
| `CanUpdate` | `can_fw_update.c`, `incan.c` | one action per frame or wait; `rx` is what the TMS board has of a page |
| `StmUpdate` | `stm32_update_start` and its commands | one action per command; a block's length goes through a byte |
| `ProbeUpdate` | `probe_link_update.c` and its transport and protocol | `cmd` is the command in progress; `coming` and `line` hold acknowledgements and answers on their way and in the UART, so that an answer may be early, late, swallowed or taken for another's |
| `Executors` | the worker's executors in one system with the step that the phone polls | instantiates the four; a user may connect another board between updates |
| `BlePacket` | `packet.c`, the GATT writes and the connections | `Parse` is one byte of `ProductPacket_ParserPacket`; `air` holds what a phone has yet to write of its frame |
| `DeviceName` | the name file, the alias in the configuration, a rename and a start, with files that cannot be written or read (`trouble`) | `at` is the position of the task that starts or renames; `Cut` is a loss of power anywhere |
| `BleFiles` | the two listings over BLE, with `DeviceName` for the internal partition | one action per directory entry of either pass |
| `Formats` | Intel HEX to binary, and packaging of binary, COFF and ELF files, with reads that fall short, writes that are lost and numbers of a given width | one action per byte of a line or chunk of a section |
| `MC*` | instances for TLC: symmetry sets and inputs | |
| `RoleUart_proofs` (with the role), `HhtTerminal_proofs` (with the keys), `FwStore_proofs`, `FwJobs_proofs`, `EspOta_proofs`, `BlePacket_proofs` (with the names and the listings), `Executors_proofs` (with the four updates), `Formats_proofs` | theorems and their proofs | |

Operators named in a comment "Faulty variant for ..." are mutations of the
operator below them: putting one in its place must break the property that
`PROJECT.json` pairs it with.

Composition: `RoleUart` joins the role with the jobs that share UART1;
`HhtTerminal` joins keys, screen, session and remote; `Executors` joins the four
targets with the shared step; `FwStore` uses `FwRoute`; `BleFiles` joins the
listings with the files that a rename writes.

External code is modelled from its use: the FreeRTOS queue and semaphore, the
UART driver's install and delete, the ESP-IDF OTA interface and boot loader
(an image that does not verify is not selected; the loader tries the other
partitions in its fixed order), NimBLE's connections and writes, FATFS (an open file
is cut at an arbitrary length by a loss of power; no locks, as
`CONFIG_FATFS_FS_LOCK=0`), the pins of `EnterISPMode`, and the targets.

## 3. Runs

| Run | Question | Bounds, and why they are enough |
|---|---|---|
| `hht_role` | Is the life cycle of role, session and task sound? | one caller (a release build), three tasks, two timed-out stops: a leftover token meets a second and a third stop |
| `hht_role_stop` (violated) | Does stop stop the HHT, as `README.md:108` says? No, when another role replaced it | two tasks |
| `role_uart` | Does each user of UART1 have it, in any order of sessions and jobs? | three types, both jobs, one timeout: each type meets what each other owner left |
| `hht_terminal` | Does the phone see the remote's screen and the remote the phone's keys? | rows of two characters (a row of one has no half-written state), two repeats, one press, one drawing, two sessions, each of a stream remote or an HHT3000 (what is static survives the first), handshakes that succeed and fail, two reads per handshake, keys on every second poll; one byte at a time on the wire |
| `hht_keys_race` (violated) | Are short keys sent at least three times, as `hht_keys.c:11` says? Not when a press overlaps a poll | two presses, four repeats as in the code |
| `fw_jobs` | One worker, no lost, doubled or reordered job? | two clients that may both make the first start (two queues, two workers), queue of two as in the code, four jobs (one runs, two wait, one is refused), one restart, failing creation, an executor that hangs |
| `esp_ota` | Does the device keep a whole and never older image? | four updates, so that a partition is used twice and the sticky flag meets a later job; two blocks per image |
| `executors` | Is what an update reports as done in the flash, and does each update end, with a cause if it fails? | two updates of a board (one of a probe) and one change of board; LPC: one or two sectors of two blocks in bank A, none or one in bank B, images up to one block larger, five resends as in the code, two attempts to synchronise; CAN: two pages of 13 bytes, which take two frames, so that the number wraps at 2, and tails around a frame's end; STM32: two blocks of 4 with a byte that holds less than 4, so that a full block's length is 0; probe: two blocks, the 8 bytes that an acknowledgement's read takes |
| `fw_store` | Is what is stored whole, and what is flashed what is stored? | an Intel HEX type (it is converted, so it takes the longest path), two blocks, two uploads by any server, sizes announced of none, one or two blocks (none, another file's, this one's), any number of restarts, three kinds of asked executor |
| `ble_link` | Is a frame that no other phone breaks into handed over as sent, and does a broken frame cost a bounded loss? | two phones, writes of eight bytes; of five commands two take one write and three take two, one of these such that the start of another phone's frame completes its first half to a command nobody sent; three cuts |
| `ble_files` | Does a name survive a loss of power, is a listing complete? | two names and the default, three slots on the card, changes at any step |
| `formats` | Is a conversion that succeeds what the file says? | all files of one or two lines from eight, and five longer ones; object files of every two sections from a set, some beyond the file; each cut anywhere; numbers that begin again at 16 |

The counters `MaxTimeouts`, `MaxPresses`, `MaxJobs`, `MaxUploads`, `MaxRestarts`,
`MaxDraws`, `MaxSessions`, `MaxUart`, `MaxBoards`, `Updates` and `MaxCuts` bound the
environment only, each in the guard of the action that counts.  They count events
that the phone, the remote, the user or a fault causes.

### What the runs show

*Role.*  With one caller the HHT task polls only inside a session, and stop
leaves nothing behind, unless a stop times out.  Each timeout abandons at most
one task (`AbandonedTasksBounded`).  The conditions `timeouts = 0` in the
properties are needed: a late token lets the next stop return without waiting.

*UART1.*  Two things break the sharing, and `misused` records them: a start with
another type during a session, and an STM32 job begun while UART1 is installed,
which does not look at the result of the install and deletes the session's driver
at its end.  A UART ISP job begun during a session, or after one of WB100 or
HHT100, aborts and restarts the device.  Without them, session and job each have
the driver and their pins.

*Terminal.*  Every row that a remote drew reaches the phone, however its bytes are cut between
polls, with two exceptions that `stray` and `lost` name: bytes that an open, a close or a
handshake took (the cursor command of a drawing may be among them), after which only rows drawn
whole are certain to be right, and a notification that was lost, as nothing sends a row again.
A handshake ends whatever the remote sends, and the polls begin whether it succeeded or not
(`hht_main.c` does not look at its result): rows of a remote whose answer was wrong or late are
shown too.  Short keys are sent in full and released, long ones end by the phone, whatever the
screen does.  `hht_keys_race` shows the limit: with the operations of `hht_keys.c` split, as on
the two cores, a press can be sent once.

*Jobs.*  `FwJobs` implements `JobQueue`: no job begins twice and none is dropped but by a
restart, even where two clients within the first start each create a queue or a
worker.  Nothing in the code prevents that (`overlapped` records it); until it happens there is one
worker, and jobs run one at a time and in order.  After it, two jobs can run at once,
and a job can wait in a queue that nobody serves.  An accepted job begins, except there and
behind an executor that hangs.

*OTA.*  The partition that runs holds a whole image, always.  As long as every update
that succeeded was followed by its restart, no restart goes back to an image written
earlier.  A device that was told not to restart writes the next update over the one
that is selected but not yet running: if power fails there, the loader falls back, and
the device may boot the older image.  That is why `NeverOlder` is conditioned on
`~stayed`.  "Older" means written by an earlier job; the firmware compares no version
numbers.

*Executors.*  A target that is said to be programmed holds the image, except where
`doubt` says the code took something for done that was not: no memory for the ISP's
block buffer, five RESENDs of one part, an error on a line without checksums, an image
that an error of the card ended early, a probe's erase whose result is not looked at,
or an answer that is another command's.  An
update in which everything answered fails for a known cause only: an image that
reaches the end of bank A, a CAN rate that the driver does not know, a full block of an
STM32, an answer of a probe that was read with its acknowledgement.  No block is
written that is not erased.  Updates end, except with a TMS board that stops answering
(`Stuck`).

*Storage.*  The properties hold for files that no other task used meanwhile
(`~clash`): FATFS has no locks, and neither do the uploads.  What a broken TCP upload left is
never flashed, nor a conversion beside it, from the answer "incomplete" to the next upload, if the file could
be removed.  A raw HTTP upload that breaks leaves a truncated file, but
the client was told of the failure.  An upload that was answered as stored is whole with two
exceptions, in which the code answers so all the same: the close lost a tail
(`fw_upload_storage.c:245` does not look at its result), and TCP was told of a size that is another
file's.  There `told` is "spoilt" or "nothing".

*BLE.*  A frame that begins when the parser is between frames and that no other phone breaks
into is handed over as sent, once, and nothing else is.  Of a frame that is broken into nothing
is claimed: a check of one byte does not exclude the mixtures, and `MCCommands` has two
commands whose mixture passes as one that nobody sent.  Whatever a cut frame has left in the
parser, a phone that is alone and sends on is understood again.  A rename survives one loss of
power; two can lose the name (`powerCuts <= 1`), and so can files that are deleted, formatted,
not written or not read (`trouble`).  A list names every file that was there throughout.

*Formats.*  A conversion or packaging that reports success equals the file, however it was cut,
with what the code does not notice named: the card may keep less than it is given (`unwritten`:
no `fwrite` or `fclose` is looked at), and a read that fails ends a binary file, so that its
first bytes are packaged (`unread`).  `Fits` leaves out sections whose bounds wrap at 32 bits
and pass the check of the header.  `Plain` leaves out files with both kinds of extended address
and files whose addresses differ above the 24 bits that the code keeps; COFF files addressed in
words are left out of the property because the code scales their sizes and not their addresses.

### Fairness

- `HhtRole`: the task and a command in progress are scheduled (weak fairness); the
  wait in a stop has a timeout.  No command need ever arrive.
- `HhtTerminal`: the task polls while a session lasts (weak).  A byte that the remote has
  sent is read if the poll finds bytes again and again, and an HHT3000 that is asked again
  and again answers and is read in time once (strong): each poll flushes first,
  so that weak fairness would allow every report to come too late.
- `FwJobs`: the worker is scheduled (weak).  An executor need not end: it may hang, as with a
  silent TMS board (`can_fw_update.c:154`, `:175`).
- `EspOta`: a started update proceeds; power may fail at any step, a bounded number
  of times.
- `Executors`: a started update proceeds, as every wait but two of CAN has a
  timeout.  A target that sends lines without end while the driver looks for OK is
  not modelled.
- `FwStore`: HTTP receive times out, so the HTTP task proceeds.  TCP receive has no
  timeout, so no liveness of TCP uploads is claimed.
- `BlePacket`: the tool parses what it was given, and one phone, `Steady`, comes back and sends
  again.  The others are free.

## 4. Proofs

TLAPS checks eight modules, for all values of the constants that meet the
assumptions named in the component modules (`RoleAssumption`, `UartAssumption`,
`KeysAssumption`, `TerminalAssumption`, `JobsAssumption`, `StoreAssumption`, `ExecAssumption`,
`LinkAssumption`, `SizesAssumption`, `HexAssumption`, `ObjectAssumption` and those of
`EspOta`, `DeviceName` and `BleFiles`).

*Types* (`TypeCorrect`, `KeysTypeCorrect`, `UartTypesHold`,
`NameTypesHold`).
In `HhtRole` types are inductive by themselves.  In `HhtKeys` they are not: that
`ticks` stays within its range needs that a held short key has repeats left.

*Role* (`PollInsideSession`, `StoppedHasNoTask`, `ActiveRoleRuns`,
`CallerSurvives`).  They assume a single caller, `Callers = {c}`: with two they
are false.  The inductive invariant `IInv(c)` ties the caller's position in a
command to the rest of the state: which positions have a session open, in which of
them the handle is a live task, and that while no wait has timed out the only live
task is the one the handle names, and the token is there only between the task's
exit and the caller's take.  The four properties are not inductive because a
poll is disturbed by a step (closing the session) that only the token's history
makes safe.  `CallerStepInv` and `TaskStepInv` prove preservation for the two
kinds of step, one case per action; `Invariance` joins them.

*Abandoned tasks* (`AbandonedAreBounded`).  The bound is not inductive: a token left by a
task that was late pays for the next task to be abandoned.  `BudgetInv` counts the token
with the live tasks, and takes the task of the handle out of the budget from the end of the
wait on.  Assumed: a single caller, and finitely many control blocks.

*UART1* (`SessionKeepsUart`, `HhtAloneNeverAborts`, `ReadyIsTrue`, `JobKeepsUart`).  Short of the
hazards in `misused`, `UartInv` says what the driver is at every point: a session's, with
the wiring of its type; left over from one, with the wiring that all but the HHT3000 share;
a job's; or not installed.  It needs nothing of the order of the role's steps, so the
first three hold for any number of callers.  `JobKeepsUart` also needs that no task polls
outside a session: every step of the composition but a restart is a step of `HhtRole`
(`RefinesRole`), so `IInv(c)` carries over (`RoleInvariance`), for a single caller.

*Keys* (`ShortKeysSentInFull`, `LongKeysEndByPhone`).  Action properties, from an
invariant that relates what was sent to what is left:
`sent + ticks = ShortSendCount` while a short key is held, and a pending release
after it.

*Terminal* (`TerminalUsesKeys`).  `HhtKeys` is the abstract specification of the keys in a
session: each action of `HhtTerminal` is one of its actions or leaves its variables
alone (`KeysStep`, one step per action).  The two properties of the keys follow for
terminals of any size, any remote and any drawing (`TerminalSendsShortKeys`,
`TerminalKeepsLongKeys`).

*Screen* (`ScreenIsShown`).  Nothing that is said only of the cells survives a single byte: between
two polls our rows and the remote's differ by whatever is under way.  `Synced(s, q, ours,
theirs, rs)` says what that is: reading the bytes `s` from the place `q` makes each of our
cells what it is on the remote, and writes every row of `rs`.  A byte that is read takes
one step of it (`PutSynced`); a drawing appends bytes that do to any screen, wherever they are read, what
the drawing did to the remote's (`DrawingSynced`, `JoinSynced`), which rests on the
addresses being decoded to the places they were made from (`PositionOfAddress`).  `LcdInv`
claims it of the session once open, of rows that are drawn and neither
shown nor written in this poll (`Pending`).  A failed handshake opens it too: bytes were taken,
so nothing is known of any row until it is drawn whole.  The handshake needs most of the rest: before the
remote answers only drawings are under way, an answer is followed by drawings alone,
and one that comes behind a drawing or short of a byte is refused, since every drawing
starts with an address (`AcceptedRest`).  `CString` stays opaque: the proof needs only that rows
that are equal look equal.

*Stored file* (`PartialNeverRuns`, `StoredInFull`, `JobsFollowRoute`, `FlashesTheCard`).  `StoreInv` has
three independent parts.  `UploadInv`: as long as there was no clash and the answer is not
spoilt, what is on the card and
what is still to come make up the whole, for the server that uploads; the answer is
given only when nothing is to come.  `RouteInv`: every meta, on the card or held by an
upload, overrides the route only with an executor that a client named.  `WorkInv`: a job and an
upload never overlap without a clash, so that the file and its conversion stay what
they were.  `RouteInv` does not mention clashes: the route holds through them.

*Jobs* (`OnlyOneWorker`, `JobsAreKept`).  Nothing is assumed of the clients. `JobsInv` says
that no job is in two places, and, until first starts overlap, relates each client's position
to what it has seen (`ClientsKnow`), and says that there is no worker without `s_task` and no
second one with it.  `JobsAreKept` is the step simulation of `JobQueue`: a client's step is
`Accept` or a stutter (`ClientRefines`), a worker's `Begin`, `End` or a stutter
(`WorkerRefines`).

*OTA* (`DeviceRunsWhole`, `DoneMeansBootable`, `DeviceNeverOlder`).  `OtaInv` adds that the partition
being written is not the running one (`PartSpare`), that nothing on the device is as
new as what is being written (`ImagesByAge`), and that what is selected for boot is what runs, but
for the moment before a restart (`BootFollows`); the boot loader's search is `LoadsWhole`.

*Names* (`OneCutKeepsName`).  `NameSurvivesOneCut` speaks of a tool that has started; that
it holds there depends on what both files held at every step before.  `NameInv`
says so in parts: what a start reads from the configuration (`StartReadsConfig`), in
which order a rename leaves the two files (`RenameInOrder`), that at rest the files yield
the name to keep or the one being given (`SafeAtRest`), and that before the first cut
one of them still has the acknowledged name (`WholeBeforeCut`).  One lemma per kind of
step.

*Listings* (`ListingsAreComplete`).  A pass that has reached a slot has counted, or sent, what
there is up to it (`Counting`, `Answering`, in terms of `UpTo`).  That holds of the files that
stay whatever else changes, and of all files as long as nothing has changed.  A count of 0
ends the listing, so `Counting` also says that no stable file was passed over with the count at 0.

*Executors* (`DoneHoldsImage`, `NothingWrittenTwice`, `FailureHasCause`, `WholePagesArrive`).
`ExecInv` has a part for each kind of target, proved with one lemma per action of its
module; only the flash, the job and the size of the image are common.
`ErasedFrom(blk)` and `ProgrammedTo(blk)` say how far writing has got; the rest says why what is
counted as written is:
- *LPC*: the sectors are erased in order although they are numbered within their bank
  (`LpcErasing`, with `SectorBounds` for the sector of a block), and the RAM holds the parts of this block
  and of no earlier one (`LpcRam`).
- *CAN*: the areas are erased in order (`CanErasing`); the number sent is the number expected, and what
  the board has of a page is what was sent of it, up to the page's end (`CanPage`).
- *STM32*: a length that is not 0 after it went through a byte is that of the block.
  `StmAssumption` states `BlockBytes <= ByteWidth`, which is 256 = 256 in the code.
- *Probe*: answers are not reordered, so of several the last one under way belongs to the command that
  was answered last (`AnswerLast`), and it is OK only if the target did what the command
  says (`Met`).  As long as nothing was late or swallowed there is one answer under way (`InStep`).
  An update that begins while answers of the one before are under way counts as
  troubled; without that `FailsForCause` would not be true of a second update.

*Frames* (`CommandsArrive`).  All phones share one parser, so a frame left half parsed may join
with what another phone sends, and with one check byte some commands so joined read as a valid
third.  So the claim is about a frame that begins between frames and is not broken into
(`follows`), for any phones, commands and size of a write.  `LinkInv` says that what is due of
any frame is its end (`AllEnd`), and where the parser is after `k` bytes of the frame that it
follows, those no longer due (`ParserFollows`, `Reads`).  That the parser's check byte grows
with each byte as the sender's sum does (`SumsExist`, `SumsNext`) follows from the least number
for which it would not (`Least`), as induction over data is not available.

*Formats* (`ConvertsWhatItSays`, `PackagesWhatItIs`).  Assumed of Intel HEX files: bytes are
bytes, addresses have 16 bits, and an extended address has the two bytes that the format
gives it; nothing of their order, sums or types.  Of object files: that their fields are numbers.
`Whole` has a part for each stage.
- *Reading* (`ReadInv`): there are `m` complete lines and `k` bytes of the next one such that the
  reader's fields are those bytes (`ReaderAt`, `Reads`).  As long as there was no error, the `m`
  lines had the right sums (`SumsRight`), the reader's upper address is what they say
  (`UpperAt`), and the binary file holds what they put at each address, a later line over an
  earlier one (`Holds`, with the base at the first data line).  `Plain` enters here only: with both kinds of extended address, or
  beyond the mask, the reader's address is not the file's.  One lemma per kind of byte (`ReadsHead`, `ReadsData`,
  `ReadsLast`); only the last byte of a line changes the file.
- *Converting*: all that has arrived is read, and a line cut short is an error or adds nothing, so `Holds` of the complete
  lines is `ConvertedIsFile` (`ConvertIsRight`).
- *Copying* (`CopyInv`): as long as the card lost nothing the image is what is stored, up to the place reached,
  and a read that gave nothing before the end has set `unread`.  The address and the offset count modulo
  `Wrap` alike, so that no padding comes between two reads (`CopyMore`).
- *Loading* (`LoadInv`): of each section a prefix was passed on (`Passed`), if the sections fit; the image has
  the passed bytes at their addresses, padding elsewhere, and ends behind all of them (`Laid`).
  A part lands without touching what was laid, because nothing is written below the end
  of the image, which lies behind every byte passed on (`PartLands`).

The sum and the tokens of a file are recursive functions.  That they have the values of
their equations (`SumExists`, `TokExists`) follows, as above, from the least number for which they would not.

The bit rate of the first connection is the constant `EnterRate` (125000).

Only model-checked: all liveness (`CommandEnds`, `AcceptedBegins`, `UpdateEnds`,
`HttpUploadEnds`, `RowsReachPhone`, `HandshakeEnds`, `KeyReleased`, `LinkResyncs`), which the
prover does not treat, and the properties of a single caller when there are two, where they are
false.

## 5. Plan

1. The terminal, its keys, screen and sessions, and UART1.  Done.
2. The firmware path: upload, storage, routing, worker, OTA.  Done.
3. The exchanges with the four targets and their composition.  Done.
4. The formats, the BLE link, listings and names.  Done.
5. Proofs: the role, UART1, the keys, the stored file, the jobs, the OTA, the
   device's name, the listings, the executors, the screen, the BLE frames and the formats.  Done.
6. Open: a second file in `FwStore`, with the pending name of another upload and the
   fallback to a file of another type.

## 6. Not modelled

The console (debug builds), Wi-Fi, drivers and board constants are sequences of calls
into ESP-IDF with no state of their own; of NVS and start-up only what concerns the device's name is
modelled.  The HTTP pages, lists and browser handlers read and render.
Encryption is a function on blocks that the upload properties do not see.  Files of two
different names, and with them the fallback to another type of the same name, are not
modelled (a size announced for another file is), nor are the length of a meta and the
copy of its request that a mobile upload leaves; a name made up by BLE
for an upload is `pending` in `FwStore`.  Locks inside the UART driver are
not modelled: a task deleted by force may hold one.

In `HhtTerminal` a second request that a remote has not answered is one with the first; the 64
bytes that one poll reads at most are not counted, a remote starts a session with a blank
screen, and a drawing stays within its row.  The path for screens of two rows of sixteen that
are sent as a stream is reached by no session type.  In `BlePacket` frames are shorter than the
parser's buffer.  In `Formats` memory that runs out is a failure; the file that the sink writes
is read back whole; and what nothing calls is left out: packaging of Intel HEX files, which are
converted before, and the S-record utilities.  `probe_link_session.c`, `lpc_isp.c` and the
entry points of `ble_protocol.c` have no callers either.
