------------------------------ MODULE FwStore ------------------------------
(***************************************************************************)
(* One firmware file on the SD card, from upload to execution.  Three      *)
(* tasks use it and its meta file, and nothing keeps them apart: the TCP   *)
(* server (tcp_server.c), the HTTP server (rest_sdmmc_fw_meta.c,           *)
(* rest_sdmmc_fw_upload_raw.c, rest_sdmmc_fw_run.c,                        *)
(* rest_sdmmc_fw_upload_run_mobile.c, rest_common_delete.c and             *)
(* rest_common_format.c) and the update worker; the BLE host task          *)
(* (ble_cmd_parser.c) announces sizes, starts runs, deletes and formats.   *)
(*                                                                         *)
(* Data is stored in blocks.  The card fails in any call, whether the code *)
(* looks at the result or not (fclose, the write of a meta, remove); power *)
(* fails between any two steps.  A job waits in a queue that FwJobs        *)
(* models; here it holds one job.                                          *)
(*                                                                         *)
(* clash is history: the file was written or deleted while another task    *)
(* used it.  FATFS is built without file locks, so after a clash the file  *)
(* can hold anything.                                                      *)
(***************************************************************************)
EXTENDS Naturals, FwRoute

CONSTANTS
  FileTypes,     \* types the file can have
  Size,          \* blocks in a whole file
  Sizes,         \* sizes that clients announce, 0 for none: of this file or another
  AskedExecs,    \* executors that clients name; "none" if they name none
  AskedFormats,  \* formats that clients name; "unknown" if they name none
  MaxUploads     \* bound on the uploads begun

ASSUME StoreAssumption ==
  /\ FileTypes \subseteq Types
  /\ Size \in Nat \ {0} /\ Sizes \subseteq Nat /\ MaxUploads \in Nat
  /\ AskedExecs \subseteq Execs \cup {"none"} /\ AskedFormats \subseteq Formats

VARIABLES
  type,               \* the type of the file
  data, meta,         \* the file and its meta on the card
  bin,                \* the file converted to BIN beside it
  pending, expected,  \* tcp_server.c: the file's name is known; the size announced
  tcp, http,          \* where each server is
  upload,             \* per server: the number of its upload
  held,               \* per server: the meta of its upload, in RAM
  left,               \* per server: blocks not yet received
  wpc, job, image,    \* the worker, its job and what it flashes
  uploads,
  told,               \* history: what the last client to change the file was told:
                      \* "stored" or "incomplete", and "nothing" if it was told
                      \* neither or a failure that the code does not look at has
                      \* made it untrue; "spoilt" while an answer would be untrue
  asked,              \* history: the executors that clients named
  clash

cardVars   == <<data, meta, bin>>
tcpVars    == <<tcp, pending, expected>>
uploadVars == <<upload, held, left>>
workerVars == <<wpc, job, image>>
boundVars  == <<type, uploads>>
history    == <<told, asked, clash>>
vars == <<cardVars, tcpVars, http, uploadVars, workerVars, boundVars, history>>

Servers == {"tcp", "http"}
NoData  == [upload |-> 0, blocks |-> 0]
Torn    == [upload |-> MaxUploads + 1, blocks |-> 0]
NoMeta  == [exec |-> "none", format |-> "none", override |-> FALSE]
NoJob   == [exec |-> "none", format |-> "none", file |-> "none"]

Init ==
  /\ type \in FileTypes
  /\ data = NoData /\ meta = NoMeta /\ bin = NoData
  /\ pending = FALSE /\ expected = 0
  /\ tcp = "idle" /\ http = "idle"
  /\ upload = [s \in Servers |-> 0]
  /\ held = [s \in Servers |-> NoMeta]
  /\ left = [s \in Servers |-> 0]
  /\ wpc = "idle" /\ job = NoJob /\ image = NoData
  /\ uploads = 0
  /\ told = "nothing" /\ asked = {} /\ clash = FALSE

Named(e) == asked' = asked \cup ({e} \ {"none", "unknown"})
Asking(m, e) == IF e = "none" THEN m ELSE WithExec(m, e)

\* fw_storage_meta_read finds a meta of the file.
HasMeta == meta # NoMeta

\* tcp_server_set_pending_file, and tcp_server_set_expected_size for a size.
TellTcp(size) == pending' = TRUE /\ expected' = IF size = 0 THEN expected ELSE size

\* tcp_get_pending has a name, a type and a size other than 0.
TcpTold == pending /\ expected # 0

\* fw_find_sdmmc_file; there is one file here.
OnCard == data # NoData
-----------------------------------------------------------------------------
(* fw_upload_session_* and fw_storage_writer_*                             *)

\* Opening for writing truncates the file.  An answer that it is stored would be
\* spoilt from the start if the size to come is not this file's.
SessionBegin(s, m, size, others) ==
  /\ uploads < MaxUploads
  /\ uploads' = uploads + 1
  /\ upload' = [upload EXCEPT ![s] = uploads']
  /\ held' = [held EXCEPT ![s] = m]
  /\ left' = [left EXCEPT ![s] = size]
  /\ data' = [upload |-> uploads', blocks |-> 0]
  /\ told' = IF size = Size THEN "nothing" ELSE "spoilt"
  /\ clash' = (clash \/ others)

\* The other case is a writer whose file another task has truncated or deleted.
Stored(s, n) ==
  IF data.upload = upload[s]
  THEN data' = [data EXCEPT !.blocks = @ + n]
  ELSE data' \in {Torn, NoData}

SessionWrite(s, n) == Stored(s, n) /\ left' = [left EXCEPT ![s] = @ - n]

\* fw_storage_meta_write: a write that breaks off leaves a meta that does not
\* parse, whether the failure is noticed or not.
MetaWrite(m, ok) == meta' \in {NoMeta, IF ok THEN m ELSE meta}

\* fclose: what was buffered can be lost.
Close(s, lost) ==
  IF lost /\ data.upload = upload[s]
  THEN \E n \in 0 .. data.blocks : n < data.blocks /\ data' = [data EXCEPT !.blocks = n]
  ELSE UNCHANGED data

\* The result of fclose is not looked at, and the meta in RAM is written whatever
\* was received; ok is the result.
SessionFinish(s, lost, ok) == Close(s, lost) /\ MetaWrite(held[s], ok)

\* What the client is told of an upload it has sent in full.
Answer(lost, ok) == IF ok /\ ~lost THEN "stored" ELSE "nothing"

\* The session and what it held are locals of the handler that returns.
NoSession(s) ==
  /\ upload' = [upload EXCEPT ![s] = 0] /\ left' = [left EXCEPT ![s] = 0]
  /\ held' = [held EXCEPT ![s] = NoMeta]
-----------------------------------------------------------------------------
(* tcp_server.c *)

\* The meta is made anew from the type.
TcpBegin ==
  /\ tcp = "idle" /\ TcpTold
  /\ SessionBegin("tcp", Prepared(type, "unknown"), expected, http # "idle" \/ job # NoJob)
  /\ tcp' = "recv"
  /\ UNCHANGED <<pending, expected, meta, bin, http, workerVars, type, asked>>

\* recv has no timeout; its end or a failed write ends the loop.
TcpRecv ==
  /\ tcp = "recv"
  /\ \/ left["tcp"] > 0 /\ SessionWrite("tcp", 1) /\ UNCHANGED tcp
     \/ tcp' = "finish" /\ UNCHANGED <<data, left>>
  /\ UNCHANGED <<pending, expected, meta, bin, http, upload, held, workerVars, boundVars, history>>

\* The result of the finish is not looked at.
TcpFinish ==
  /\ tcp = "finish" /\ tcp' = "judge"
  /\ \E lost, ok \in BOOLEAN : /\ SessionFinish("tcp", lost, ok)
                             /\ told' = IF lost THEN "spoilt" ELSE told
  /\ UNCHANGED <<pending, expected, bin, http, uploadVars, workerVars, boundVars, asked, clash>>

\* Faulty variant for PartNeverFlashed: only the meta is removed.
TcpJudgeKeeps ==
  /\ tcp = "judge" /\ tcp' = "idle" /\ NoSession("tcp")
  /\ UNCHANGED data
  /\ IF left["tcp"] = 0
     THEN told' = Answer(told = "spoilt", TRUE) /\ UNCHANGED meta
     ELSE told' = "incomplete" /\ meta' = NoMeta
  /\ UNCHANGED <<pending, expected, bin, http, workerVars, boundVars, asked, clash>>

\* tcp_delete_partial; neither remove is looked at.
TcpJudge ==
  /\ tcp = "judge" /\ tcp' = "idle" /\ NoSession("tcp")
  /\ \/ /\ left["tcp"] = 0
        /\ told' = Answer(told = "spoilt", TRUE) /\ UNCHANGED <<data, meta>>
     \/ /\ left["tcp"] # 0 /\ meta' \in {NoMeta, meta}
        /\ \/ told' = "incomplete" /\ data' = NoData
           \/ told' = "nothing" /\ UNCHANGED data
  /\ UNCHANGED <<pending, expected, bin, http, workerVars, boundVars, asked, clash>>
-----------------------------------------------------------------------------
(* The HTTP server, one request at a time *)

\* POST /fw_meta: also names the file to the TCP server.
PostMeta(exec, format, size) ==
  /\ http = "idle"
  /\ \E ok \in BOOLEAN :
       /\ MetaWrite(Asking(Prepared(type, format), exec), ok)
       /\ IF ok THEN TellTcp(size) ELSE UNCHANGED <<pending, expected>>
  /\ Named(exec)
  /\ UNCHANGED <<tcp, data, bin, http, uploadVars, workerVars, boundVars, told, clash>>

\* POST /fw_upload_raw: the meta on the card, if any, is kept.
RawBegin(exec, format) ==
  /\ http = "idle"
  /\ LET base == IF ~HasMeta THEN Prepared(type, format)
                 ELSE IF format = "unknown" THEN meta ELSE [meta EXCEPT !.format = format]
     IN  SessionBegin("http", Asking(base, exec), Size, tcp # "idle" \/ job # NoJob)
  /\ http' = "recv"
  /\ Named(exec)
  /\ UNCHANGED <<tcpVars, meta, bin, workerVars, type>>

RawRecv ==
  /\ http = "recv" /\ left["http"] > 0
  /\ SessionWrite("http", 1)
  /\ UNCHANGED <<tcpVars, meta, bin, http, upload, held, workerVars, boundVars, history>>

\* Faulty variant for StoredIsWhole: the loop's end is taken for the file's.
RawFailUnnoticed ==
  /\ http = "recv"
  /\ \E lost, ok \in BOOLEAN :
       SessionFinish("http", lost, ok) /\ told' = Answer(lost, ok)
  /\ http' = "idle" /\ NoSession("http")
  /\ UNCHANGED <<tcpVars, bin, workerVars, boundVars, asked, clash>>

\* Faulty variant for HttpUploadEnds: the transfer is begun again.
RawFailRestarts ==
  /\ http = "recv"
  /\ left' = [left EXCEPT !["http"] = Size]
  /\ data' = [data EXCEPT !.blocks = 0]
  /\ UNCHANGED <<tcpVars, http, meta, bin, upload, held, workerVars, boundVars, history>>

\* No memory, a receive that fails or times out, or a failed write: what was
\* received stays on the card, with the meta of the whole.
RawFail ==
  /\ http = "recv"
  /\ \E lost, ok \in BOOLEAN : SessionFinish("http", lost, ok)
  /\ http' = "idle" /\ NoSession("http") /\ told' = "nothing"
  /\ UNCHANGED <<tcpVars, bin, workerVars, boundVars, asked, clash>>

RawFinish ==
  /\ http = "recv" /\ left["http"] = 0
  /\ \E lost, ok \in BOOLEAN :
       SessionFinish("http", lost, ok) /\ told' = Answer(lost, ok)
  /\ http' = "idle" /\ NoSession("http")
  /\ UNCHANGED <<tcpVars, bin, workerVars, boundVars, asked, clash>>

\* POST /fw_run without data: answered at once if there is no file.
RunStored(size) ==
  /\ http = "idle"
  /\ http' = IF OnCard THEN "run" ELSE "idle"
  /\ TellTcp(size)
  /\ UNCHANGED <<tcp, cardVars, uploadVars, workerVars, boundVars, history>>

\* POST /fw_run with the file in the request; one that cannot be decoded, or a
\* file that cannot be opened, leaves only its name.
RunInline(format, size) ==
  /\ http = "idle"
  /\ TellTcp(size)
  /\ \/ /\ http' = "buffer"
        /\ SessionBegin("http", Prepared(type, format), Size, tcp # "idle" \/ job # NoJob)
     \/ UNCHANGED <<http, data, uploads, uploadVars, told, clash>>
  /\ UNCHANGED <<tcp, meta, bin, workerVars, type, asked>>

\* POST /fw_upload_run: the whole request is received before it is looked at.
MobileCall ==
  /\ http = "idle" /\ http' = "body"
  /\ UNCHANGED <<tcpVars, cardVars, uploadVars, workerVars, boundVars, history>>

\* read_body_to_buffer: there is no memory, or the request breaks off.
MobileBody ==
  /\ http = "body" /\ http' = "idle"
  /\ UNCHANGED <<tcpVars, cardVars, uploadVars, workerVars, boundVars, history>>

\* parse_large_fw_upload_json: whatever BLE was told of the file, the request
\* itself has to name it.
MobileFields(given) == {"name", "type", "data"} \subseteq given

\* Data that cannot be decoded, or a file that cannot be opened, leaves nothing;
\* the TCP server is not told of the file.
MobileStore(given) ==
  /\ http = "body"
  /\ \/ /\ MobileFields(given) /\ http' = "buffer"
        /\ SessionBegin("http", Prepared(type, "unknown"), Size, tcp # "idle" \/ job # NoJob)
     \/ http' = "idle" /\ UNCHANGED <<data, uploads, uploadVars, told, clash>>
  /\ UNCHANGED <<tcpVars, meta, bin, workerVars, type, asked>>

\* save_only, or on to the run of what was stored.
StoredOrRun == http' \in {"idle", "run"}

\* fw_upload_save_buffer: a write that fails, or the loss of a tail at the close,
\* leaves any part of the file.
SaveBuffer ==
  /\ http = "buffer" /\ NoSession("http")
  /\ \E n \in 0 .. Size, ok \in BOOLEAN :
       /\ Stored("http", n) /\ MetaWrite(held["http"], ok)
       /\ \/ told' = Answer(n < Size, ok) /\ IF ok THEN StoredOrRun ELSE http' = "idle"
          \/ n < Size /\ told' = "nothing" /\ http' = "idle"
  /\ UNCHANGED <<tcpVars, bin, workerVars, boundVars, asked, clash>>

\* POST /delete, CMD_SDMMC_DELETE_FILE: the file, not its meta and not what
\* was converted.
Delete(server) ==
  /\ data # NoData /\ (server = "http" => http = "idle")
  /\ data' = NoData
  /\ told' = "nothing" /\ clash' = (clash \/ tcp # "idle" \/ http # "idle" \/ job # NoJob)
  /\ UNCHANGED <<tcpVars, meta, bin, http, uploadVars, workerVars, boundVars, asked>>

\* GET /sdmmc_format, CMD_SDMMC_FORMAT
Format(server) ==
  /\ server = "http" => http = "idle"
  /\ data' = NoData /\ meta' = NoMeta /\ bin' = NoData
  /\ told' = "nothing" /\ clash' = (clash \/ tcp # "idle" \/ http # "idle" \/ job # NoJob)
  /\ UNCHANGED <<tcpVars, http, uploadVars, workerVars, boundVars, asked>>

\* CMD_PROGRAM_ENTER_WIFI_ESP32: the size, which can be 0, and a name if there
\* is none yet and a type is known.
Announce(size) ==
  /\ expected' = size /\ pending' \in {pending, TRUE}
  /\ UNCHANGED <<tcp, cardVars, http, uploadVars, workerVars, boundVars, history>>
-----------------------------------------------------------------------------
(* fw_upload_run_from_sdmmc and the worker *)

\* A run writes a meta that is missing or does not follow the route, even if
\* there is no file to run; the result of the write is not looked at.
Enqueue(using) ==
  LET m == IF HasMeta THEN Routed(type, meta) ELSE Prepared(type, "unknown")
  IN  /\ IF m = meta THEN UNCHANGED meta ELSE \E ok \in BOOLEAN : MetaWrite(m, ok)
      /\ clash' = (clash \/ using)
      /\ IF job = NoJob /\ (m.exec = "ota" \/ OnCard)
         THEN job' = [exec |-> m.exec, format |-> m.format, file |-> "data"] /\ wpc' = "prepare"
         ELSE UNCHANGED <<job, wpc>>

HttpRun ==
  /\ http = "run" /\ http' = "idle"
  /\ Enqueue(tcp # "idle")
  /\ UNCHANGED <<tcpVars, data, bin, uploadVars, image, boundVars, told, asked>>

\* START_PHONE; SDMMC_PROGRAM_ENTER does the same if there is a file.
BleRun ==
  /\ Enqueue(tcp # "idle" \/ http \in {"recv", "buffer"})
  /\ UNCHANGED <<tcpVars, http, data, bin, uploadVars, image, boundVars, told, asked>>

JobEnds == wpc' = "idle" /\ job' = NoJob /\ image' = NoData

\* Faulty variant for RunsLatest: a conversion that exists is not made again.
PrepareOnce ==
  /\ wpc = "prepare"
  /\ \/ job.format # "ihex" /\ wpc' = "open" /\ UNCHANGED <<bin, job, image>>
     \/ /\ job.format = "ihex" /\ data # NoData
        /\ bin' = IF bin = NoData THEN data ELSE bin
        /\ job' = [job EXCEPT !.format = "bin", !.file = "bin"]
        /\ wpc' = "open" /\ UNCHANGED image
     \/ job.format = "ihex" /\ bin' = NoData /\ JobEnds
  /\ UNCHANGED <<tcpVars, http, data, meta, uploadVars, boundVars, history>>

\* fw_prepare_exec_file: only Intel HEX is converted; a file that is missing,
\* or does not convert, ends the job and leaves no converted file, or the old one
\* if that could not be opened or removed.  The result of the close is not looked
\* at: what was converted can be cut short.
Prepare ==
  /\ wpc = "prepare"
  /\ \/ job.format # "ihex" /\ wpc' = "open" /\ UNCHANGED <<bin, job, image>>
     \/ /\ job.format = "ihex" /\ data # NoData
        /\ \E n \in 0 .. data.blocks : bin' = [data EXCEPT !.blocks = n]
        /\ job' = [job EXCEPT !.format = "bin", !.file = "bin"]
        /\ wpc' = "open" /\ UNCHANGED image
     \/ job.format = "ihex" /\ bin' \in {bin, NoData} /\ JobEnds
  /\ UNCHANGED <<tcpVars, http, data, meta, uploadVars, boundVars, history>>

OpenImage ==
  /\ wpc = "open"
  /\ LET file == IF job.file = "bin" THEN bin ELSE data
     IN  IF job.exec = "unknown" \/ file = NoData
         THEN JobEnds
         ELSE wpc' = "flash" /\ image' = file /\ UNCHANGED job
  /\ UNCHANGED <<tcpVars, http, cardVars, uploadVars, boundVars, history>>

FlashEnds ==
  /\ wpc = "flash" /\ JobEnds
  /\ UNCHANGED <<tcpVars, http, cardVars, uploadVars, boundVars, history>>
-----------------------------------------------------------------------------
\* The power fails.  A file that is open for writing keeps any part of what it
\* was given, as its size is written when it is closed.
Restart ==
  /\ pending' = FALSE /\ expected' = 0
  /\ tcp' = "idle" /\ http' = "idle" /\ JobEnds
  /\ upload' = [s \in Servers |-> 0] /\ left' = [s \in Servers |-> 0]
  /\ held' = [s \in Servers |-> NoMeta]
  /\ IF tcp \in {"recv", "finish"} \/ http \in {"recv", "buffer"}
     THEN \E n \in 0 .. data.blocks : data' = [data EXCEPT !.blocks = n]
     ELSE UNCHANGED data
  /\ bin' \in IF wpc = "prepare" THEN {bin, NoData} ELSE {bin}
  /\ UNCHANGED <<meta, type, uploads, told, asked, clash>>

TcpNext  == TcpBegin \/ TcpRecv \/ TcpFinish \/ TcpJudge
HttpWork ==
  \/ RawRecv \/ RawFail \/ RawFinish \/ MobileBody
  \/ \E given \in {{"name", "type", "data"}, {"name", "type"}} : MobileStore(given)
  \/ SaveBuffer \/ HttpRun
HttpNext ==
  \/ \E e \in AskedExecs, f \in AskedFormats :
       (\E size \in Sizes : PostMeta(e, f, size)) \/ RawBegin(e, f)
  \/ \E size \in Sizes : RunStored(size)
  \/ \E f \in AskedFormats, size \in Sizes : RunInline(f, size)
  \/ MobileCall \/ Delete("http") \/ Format("http")
  \/ HttpWork
BleNext == BleRun \/ Delete("ble") \/ Format("ble") \/ \E size \in Sizes : Announce(size)
WorkerNext == Prepare \/ OpenImage \/ FlashEnds

Next == TcpNext \/ HttpNext \/ BleNext \/ WorkerNext \/ Restart
Spec == Init /\ [][Next]_vars

\* The HTTP server's task always gets to run, and httpd_req_recv times out, so
\* a request that has begun goes on.  The TCP server's recv waits for ever.
FairSpec == Spec /\ WF_vars(HttpWork)
-----------------------------------------------------------------------------
LargestSize == CHOOSE n \in Sizes \cup {Size} : \A m \in Sizes \cup {Size} : m <= n
Files == [upload : 0 .. MaxUploads + 1, blocks : 0 .. LargestSize]
Jobs  == [exec : Execs, format : Formats, file : {"data", "bin"}]

TypeOK ==
  /\ type \in FileTypes
  /\ data \in Files /\ bin \in Files /\ image \in Files
  /\ meta \in Metas \cup {NoMeta}
  /\ pending \in BOOLEAN /\ expected \in Sizes \cup {0}
  /\ tcp \in {"idle", "recv", "finish", "judge"}
  /\ http \in {"idle", "recv", "body", "buffer", "run"}
  /\ upload \in [Servers -> 0 .. MaxUploads] /\ left \in [Servers -> 0 .. LargestSize]
  /\ held \in [Servers -> Metas \cup {NoMeta}]
  /\ wpc \in {"idle", "prepare", "open", "flash"} /\ job \in Jobs \cup {NoJob}
  /\ uploads \in 0 .. MaxUploads
  /\ told \in {"nothing", "stored", "spoilt", "incomplete"}
  /\ asked \subseteq Execs /\ clash \in BOOLEAN

\* A part that a broken TCP upload left is never flashed: from the answer that it
\* is incomplete until the next upload no run finds it, nor a conversion of it
\* or of an earlier file, whoever asks for a run and wherever power fails
\* (unless the file could not be removed).
PartNeverFlashed == told = "incomplete" /\ ~clash => wpc # "flash"

\* An upload that was answered as stored is on the card with all its blocks,
\* whatever was tried, broken off, deleted or cut by a power failure before
\* (unless the close lost a tail, or TCP was told of a size that is another file's).
StoredIsWhole == told = "stored" /\ ~clash => data.blocks = Size

\* A job goes to the executor of the file's type unless a client has named the
\* executor it goes to: neither an unknown name, nor a meta left by an earlier
\* upload or by a run without a file, sends it elsewhere.
RoutedUnlessAsked == job # NoJob => job.exec \in asked \cup {ExecOf(type)}

\* What is flashed is the file that the card holds or a conversion of it (which
\* can be cut short), never the conversion of a file that was there before.
RunsLatest ==
  wpc = "flash" /\ ~clash => image.upload = data.upload /\ image.blocks <= data.blocks

\* An HTTP upload ends even if the client stops sending: the server has one
\* task, and a request that hung would be its last.
HttpUploadEnds == http \in {"recv", "body"} ~> http = "idle"
=============================================================================
