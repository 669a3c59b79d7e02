--------------------------- MODULE FwStore_proofs ---------------------------
(***************************************************************************)
(* Proofs about FwStore: for every size of file, the sizes that clients    *)
(* announce, any number of uploads and restarts, and any file types,       *)
(* executors and formats.                                                  *)
(***************************************************************************)
EXTENDS FwStore, TLAPS

AnyMeta == [format : Formats \cup {"none"}, exec : Execs \cup {"none"}, override : BOOLEAN]
AnyJob  == [exec : Execs \cup {"none"}, format : Formats \cup {"none"},
            file : {"none", "data", "bin"}]

CardFile == [upload : Nat, blocks : Nat]

TcpUploads  == tcp # "idle"
HttpUploads == http \in {"recv", "buffer"}

(***************************************************************************)
(* The inductive invariant, in three parts over the types it needs.        *)
(***************************************************************************)
StoreTypes ==
  /\ type \in FileTypes
  /\ data \in CardFile /\ bin \in CardFile /\ image \in CardFile
  /\ expected \in Nat
  /\ upload \in [Servers -> Nat] /\ left \in [Servers -> Nat] /\ uploads \in Nat
  /\ meta \in AnyMeta /\ held \in [Servers -> AnyMeta] /\ job \in AnyJob

\* A server that uploads has the file open, and what is on the card and what is
\* still to come make up the whole, unless the answer is spoilt; the two never
\* upload at once without a clash.
UploadInv ==
  ~clash =>
    /\ ~(TcpUploads /\ HttpUploads)
    /\ TcpUploads => /\ data.upload = upload["tcp"] /\ told \in {"nothing", "spoilt"}
                     /\ told = "nothing" => data.blocks + left["tcp"] = Size
    /\ HttpUploads => /\ data.upload = upload["http"] /\ told = "nothing"
                      /\ data.blocks + left["http"] = Size
    /\ http = "buffer" => left["http"] = Size
    /\ told = "stored" => data.blocks = Size
    /\ told = "incomplete" => data = NoData

\* A meta overrides the route only with an executor that a client has named.
RouteInv ==
  /\ meta.override => meta.exec \in asked
  /\ \A s \in Servers : held[s].override => held[s].exec \in asked
  /\ job # NoJob => job.exec \in asked \cup {ExecOf(type)}

PartOfCard(file) == file.upload = data.upload /\ file.blocks <= data.blocks

\* The worker has a job as long as it works; the file it will flash, or the
\* conversion of it, is the one on the card or a part of it.
WorkInv ==
  /\ job # NoJob <=> wpc # "idle"
  /\ wpc = "prepare" => job.file = "data"
  /\ ~clash =>
       /\ job # NoJob => ~TcpUploads /\ ~HttpUploads
       /\ wpc = "open" /\ job.file = "bin" => data # NoData /\ PartOfCard(bin)
       /\ wpc = "flash" => data # NoData /\ PartOfCard(image)
-----------------------------------------------------------------------------
(***************************************************************************)
(* What the tables of FwRoute yield.                                       *)
(***************************************************************************)
LEMMA ExecType == ASSUME NEW t \in Types PROVE ExecOf(t) \in Execs /\ FormatOf(t) \in Formats
<1>1. CASE t = "S00"
  BY <1>1 DEF ExecOf, FormatOf, Execs, Formats
<1>2. CASE t = "S01"
  BY <1>2 DEF ExecOf, FormatOf, Execs, Formats, CoffTypes, IhexIspTypes, IhexSwdTypes, BareTypes
<1>3. CASE t \in CoffTypes
  BY <1>3 DEF ExecOf, FormatOf, Execs, Formats, CoffTypes, IhexIspTypes, IhexSwdTypes, BareTypes
<1>4. CASE t \in IhexIspTypes
  BY <1>4 DEF ExecOf, FormatOf, Execs, Formats, CoffTypes, IhexIspTypes, IhexSwdTypes, BareTypes
<1>5. CASE t \in IhexSwdTypes
  BY <1>5 DEF ExecOf, FormatOf, Execs, Formats, CoffTypes, IhexIspTypes, IhexSwdTypes, BareTypes
<1>6. CASE t \in BareTypes
  BY <1>6 DEF ExecOf, FormatOf, Execs, Formats, CoffTypes, IhexIspTypes, IhexSwdTypes, BareTypes
<1> QED BY <1>1, <1>2, <1>3, <1>4, <1>5, <1>6 DEF Types

\* The metas that uploads, /fw_meta and runs make, and what they override.
LEMMA MetaTypes ==
  ASSUME NEW t \in Types, NEW f \in Formats, NEW e \in Execs \cup {"none"}, NEW m \in AnyMeta
  PROVE  /\ Prepared(t, f) \in AnyMeta /\ ~Prepared(t, f).override
         /\ Prepared(t, f).exec = ExecOf(t)
         /\ [m EXCEPT !.format = f] \in AnyMeta
         /\ [m EXCEPT !.format = f].override = m.override
         /\ [m EXCEPT !.format = f].exec = m.exec
         /\ Asking(m, e) \in AnyMeta
         /\ Asking(m, e).override =>
              \/ e \notin {"none", "unknown"} /\ Asking(m, e).exec = e
              \/ m.override /\ Asking(m, e).exec = m.exec
<1>1. ExecOf(t) \in Execs /\ FormatOf(t) \in Formats
  BY ExecType
<1>2. Prepared(t, f) \in AnyMeta /\ ~Prepared(t, f).override /\ Prepared(t, f).exec = ExecOf(t)
  BY <1>1 DEF Prepared, AnyMeta
<1>3. /\ [m EXCEPT !.format = f] \in AnyMeta
      /\ [m EXCEPT !.format = f].override = m.override
      /\ [m EXCEPT !.format = f].exec = m.exec
  BY DEF AnyMeta
<1>4. /\ Asking(m, e) \in AnyMeta
      /\ Asking(m, e).override =>
           \/ e \notin {"none", "unknown"} /\ Asking(m, e).exec = e
           \/ m.override /\ Asking(m, e).exec = m.exec
  BY DEF Asking, WithExec, AnyMeta
<1> QED BY <1>2, <1>3, <1>4

\* A run follows the route unless the meta overrides it.
LEMMA RunMeta ==
  ASSUME NEW t \in Types, NEW m \in AnyMeta
  PROVE  /\ Routed(t, m) \in AnyMeta
         /\ Routed(t, m).override = m.override
         /\ m.override => Routed(t, m).exec = m.exec
         /\ ~m.override => Routed(t, m).exec = ExecOf(t)
  BY ExecType DEF Routed, Route, AnyMeta

\* No meta and no job are a meta and a job of these types.
LEMMA NoneTypes == NoMeta \in AnyMeta /\ ~NoMeta.override /\ NoJob \in AnyJob
  BY DEF NoMeta, NoJob, AnyMeta, AnyJob
-----------------------------------------------------------------------------
LEMMA TypesStep == StoreTypes /\ [Next]_vars => StoreTypes'
<1> SUFFICES ASSUME StoreTypes, [Next]_vars PROVE StoreTypes'
  OBVIOUS
<1> USE StoreAssumption, NoneTypes DEF StoreAssumption, StoreTypes, CardFile, Servers, NoData, Torn
<1>t. type \in Types
  OBVIOUS
<1>1. ASSUME TcpBegin PROVE StoreTypes'
  <2>1. Prepared(type, "unknown") \in AnyMeta
    BY <1>t, MetaTypes, "unknown" \in Formats DEF Formats
  <2> QED BY <1>1, <2>1 DEF TcpBegin, SessionBegin, workerVars
<1>f. ASSUME NEW s \in Servers, NEW lost \in BOOLEAN, NEW ok \in BOOLEAN,
             SessionFinish(s, lost, ok)
      PROVE  data' \in CardFile /\ meta' \in AnyMeta
  BY <1>f DEF SessionFinish, Close, MetaWrite
<1>m. ASSUME NEW m \in AnyMeta, NEW ok \in BOOLEAN, MetaWrite(m, ok) PROVE meta' \in AnyMeta
  BY <1>m DEF MetaWrite
<1>w. ASSUME NEW size \in Sizes, TellTcp(size) PROVE expected' \in Nat
  BY <1>w DEF TellTcp
<1>2. CASE TcpRecv
  <2>1. left["tcp"] > 0 => left["tcp"] - 1 \in Nat
    OBVIOUS
  <2>2. data.blocks + 1 \in Nat
    OBVIOUS
  <2> QED BY <1>2, <2>1, <2>2 DEF TcpRecv, SessionWrite, Stored, workerVars, boundVars, history
<1>3. CASE TcpFinish
  BY <1>3, <1>f DEF TcpFinish, uploadVars, workerVars, boundVars
<1>4. CASE TcpJudge
  <2>1. data' \in CardFile /\ meta' \in AnyMeta
    <3>1. NoData \in CardFile
      OBVIOUS
    <3>2. data' \in {NoData, data} /\ meta' \in {NoMeta, meta}
      BY <1>4 DEF TcpJudge
    <3> QED BY <3>1, <3>2
  <2>2. UNCHANGED <<type, bin, image, job, expected, uploads>>
    BY <1>4 DEF TcpJudge, workerVars, boundVars
  <2> QED BY <1>4, <2>1, <2>2 DEF TcpJudge, NoSession
<1>5. ASSUME NEW e \in AskedExecs, NEW f \in AskedFormats, NEW z \in Sizes, PostMeta(e, f, z)
      PROVE  StoreTypes'
  <2>1. Asking(Prepared(type, f), e) \in AnyMeta
    BY <1>t, MetaTypes
  <2>2. meta' \in AnyMeta /\ expected' \in Nat
    BY <1>5, <1>m, <1>w, <2>1 DEF PostMeta
  <2> QED BY <1>5, <2>2 DEF PostMeta, uploadVars, workerVars, boundVars
<1>6. ASSUME NEW e \in AskedExecs, NEW f \in AskedFormats, RawBegin(e, f) PROVE StoreTypes'
  <2> DEFINE base == IF ~HasMeta THEN Prepared(type, f)
                     ELSE IF f = "unknown" THEN meta ELSE [meta EXCEPT !.format = f]
  <2>1. Asking(base, e) \in AnyMeta
    <3>1. base \in AnyMeta
      BY <1>t, MetaTypes
    <3> HIDE DEF base
    <3> QED BY <1>t, <3>1, MetaTypes
  <2>2. SessionBegin("http", Asking(base, e), Size, tcp # "idle" \/ job # NoJob)
    BY <1>6 DEF RawBegin
  <2>3. UNCHANGED <<type, meta, job, expected, bin, image>>
    BY <1>6 DEF RawBegin, workerVars, tcpVars
  <2> HIDE DEF base
  <2> QED BY <2>1, <2>2, <2>3 DEF SessionBegin
<1>7. CASE RawRecv
  <2>1. left["http"] > 0 => left["http"] - 1 \in Nat
    OBVIOUS
  <2>2. data.blocks + 1 \in Nat
    OBVIOUS
  <2> QED BY <1>7, <2>1, <2>2
         DEF RawRecv, SessionWrite, Stored, tcpVars, workerVars, boundVars, history
<1>8. CASE RawFail \/ RawFinish
  <2>1. data' \in CardFile /\ meta' \in AnyMeta
    BY <1>8, <1>f DEF RawFail, RawFinish
  <2> QED BY <1>8, <2>1 DEF RawFail, RawFinish, NoSession, tcpVars, workerVars, boundVars
<1>9. ASSUME NEW z \in Sizes, RunStored(z) PROVE StoreTypes'
  BY <1>9, <1>w DEF RunStored, cardVars, uploadVars, workerVars, boundVars, history
<1>10. ASSUME NEW f \in AskedFormats, NEW z \in Sizes, RunInline(f, z) PROVE StoreTypes'
  <2>1. Prepared(type, f) \in AnyMeta
    BY <1>t, MetaTypes
  <2>2. expected' \in Nat
    BY <1>10, <1>w DEF RunInline
  <2> QED BY <1>10, <2>1, <2>2 DEF RunInline, SessionBegin, uploadVars, workerVars
<1>11. CASE MobileCall \/ MobileBody
  BY <1>11 DEF MobileCall, MobileBody, tcpVars, cardVars, uploadVars, workerVars, boundVars, history
<1>12. ASSUME NEW given, MobileStore(given) PROVE StoreTypes'
  <2>1. Prepared(type, "unknown") \in AnyMeta
    BY <1>t, MetaTypes, "unknown" \in Formats DEF Formats
  <2> QED BY <1>12, <2>1 DEF MobileStore, SessionBegin, tcpVars, uploadVars, workerVars
<1>13. CASE SaveBuffer
  <2>1. PICK n \in 0 .. Size, ok \in BOOLEAN :
          Stored("http", n) /\ MetaWrite(held["http"], ok)
    BY <1>13 DEF SaveBuffer
  <2>2. meta' \in AnyMeta
    BY <1>m, <2>1
  <2>3. data' \in CardFile
    BY <2>1 DEF Stored
  <2> QED BY <1>13, <2>2, <2>3 DEF SaveBuffer, NoSession, tcpVars, workerVars, boundVars
<1>14. ASSUME NEW v, Delete(v) \/ Format(v) PROVE StoreTypes'
  BY <1>14 DEF Delete, Format, tcpVars, uploadVars, workerVars, boundVars
<1>15. ASSUME NEW z \in Sizes, Announce(z) PROVE StoreTypes'
  BY <1>15 DEF Announce, cardVars, uploadVars, workerVars, boundVars, history
<1>16. ASSUME NEW u \in BOOLEAN, Enqueue(u),
              UNCHANGED <<type, data, bin, image, expected, upload, held, left, uploads>>
       PROVE  StoreTypes'
  <2> DEFINE m == IF HasMeta THEN Routed(type, meta) ELSE Prepared(type, "unknown")
  <2>1. m \in AnyMeta
    BY <1>t, MetaTypes, RunMeta, "unknown" \in Formats DEF Formats
  <2>2. [exec |-> m.exec, format |-> m.format, file |-> "data"] \in AnyJob
    BY <2>1 DEF AnyMeta, AnyJob
  <2>3. meta' \in AnyMeta /\ job' \in AnyJob
    BY <1>16, <1>m, <2>1, <2>2 DEF Enqueue
  <2> HIDE DEF m
  <2> QED BY <1>16, <2>1, <2>3
<1>17. CASE HttpRun
  BY <1>16, <1>17 DEF HttpRun, tcpVars, uploadVars, boundVars
<1>18. CASE BleRun
  BY <1>16, <1>18 DEF BleRun, tcpVars, uploadVars, boundVars
<1>19. CASE Prepare
  <2>1. [job EXCEPT !.format = "bin", !.file = "bin"] \in AnyJob
    BY DEF AnyJob, Formats
  <2>2. \A n \in 0 .. data.blocks : [data EXCEPT !.blocks = n] \in CardFile
    OBVIOUS
  <2>3. bin' \in CardFile /\ job' \in AnyJob /\ image' \in CardFile
    BY <1>19, <2>1, <2>2 DEF Prepare, JobEnds
  <2> QED BY <1>19, <2>3 DEF Prepare, tcpVars, uploadVars, boundVars, history
<1>20. CASE OpenImage \/ FlashEnds
  BY <1>20 DEF OpenImage, FlashEnds, JobEnds, tcpVars, cardVars, uploadVars, boundVars, history
<1>21. CASE Restart
  <2>1. \A n \in 0 .. data.blocks : [data EXCEPT !.blocks = n] \in CardFile
    OBVIOUS
  <2> QED BY <1>21, <2>1 DEF Restart, JobEnds
<1>22. CASE UNCHANGED vars
  BY <1>22 DEF vars, cardVars, tcpVars, uploadVars, workerVars, boundVars, history
<1> QED BY <1>1, <1>2, <1>3, <1>4, <1>5, <1>6, <1>7, <1>8, <1>9, <1>10, <1>11, <1>12, <1>13,
           <1>14, <1>15, <1>17, <1>18, <1>19, <1>20, <1>21, <1>22
        DEF Next, TcpNext, HttpWork, HttpNext, BleNext, WorkerNext
-----------------------------------------------------------------------------
\* A session begins with an empty file and the whole to come.
LEMMA BeginSession ==
  ASSUME StoreTypes, NEW s \in Servers, NEW m, NEW size \in Nat, NEW others,
         SessionBegin(s, m, size, others)
  PROVE  /\ data'.upload = upload'[s] /\ told' \in {"nothing", "spoilt"}
         /\ told' = "nothing" => data'.blocks + left'[s] = Size
         /\ size = Size => left'[s] = Size /\ told' = "nothing"
         /\ ~clash' => ~clash /\ ~others
<1>1. data'.upload = upload'[s] /\ data'.blocks = 0 /\ left'[s] = size
  BY DEF StoreTypes, SessionBegin
<1>2. ~clash' => ~clash /\ ~others
  BY Zenon DEF SessionBegin
<1>3. 0 + Size = Size
  BY StoreAssumption DEF StoreAssumption
<1>4. told' = IF size = Size THEN "nothing" ELSE "spoilt"
  BY DEF SessionBegin
<1> QED BY <1>1, <1>2, <1>3, <1>4

LEMMA UploadStep == StoreTypes /\ UploadInv /\ [Next]_vars => UploadInv'
<1> SUFFICES ASSUME StoreTypes, UploadInv, [Next]_vars PROVE UploadInv'
  OBVIOUS
<1> USE StoreAssumption
        DEF StoreAssumption, StoreTypes, UploadInv, TcpUploads, HttpUploads, Servers, NoData, CardFile
<1>d. /\ data.upload \in Nat /\ data.blocks \in Nat
      /\ left["tcp"] \in Nat /\ left["http"] \in Nat
      /\ \A n : [data EXCEPT !.blocks = n].upload = data.upload
      /\ \A n : [data EXCEPT !.blocks = n].blocks = n
  OBVIOUS
<1>w. ASSUME NEW s \in Servers, SessionWrite(s, 1), data.upload = upload[s],
             data.blocks + left[s] = Size
      PROVE  data'.upload = upload[s] /\ data'.blocks + left'[s] = Size
  <2>1. data' = [data EXCEPT !.blocks = data.blocks + 1] /\ left'[s] = left[s] - 1
    BY <1>w DEF SessionWrite, Stored
  <2>2. data'.upload = data.upload /\ data'.blocks = data.blocks + 1
    BY <1>d, <2>1
  <2>3. left[s] \in Nat
    OBVIOUS
  <2> QED BY <1>d, <1>w, <2>1, <2>2, <2>3
<1>1. CASE TcpBegin
  BY <1>1, BeginSession DEF TcpBegin
<1>2. CASE TcpRecv
  <2>1. UNCHANGED <<http, upload, told, clash>> /\ tcp = "recv" /\ tcp' \in {"recv", "finish"}
    BY <1>2 DEF TcpRecv, history
  <2>2. CASE UNCHANGED <<data, left>>
    BY <2>1, <2>2
  <2>3. CASE SessionWrite("tcp", 1)
    <3>1. ~clash => data'.upload = upload["tcp"]
      BY <2>1, <2>3, <1>d DEF SessionWrite, Stored
    <3>2. ~clash /\ told = "nothing" => data'.blocks + left'["tcp"] = Size
      BY <1>w, <2>1, <2>3
    <3> QED BY <2>1, <3>1, <3>2
  <2> QED BY <1>2, <2>2, <2>3 DEF TcpRecv
<1>3. CASE TcpFinish
  <2>1. PICK lost \in BOOLEAN, ok \in BOOLEAN :
          SessionFinish("tcp", lost, ok) /\ told' = IF lost THEN "spoilt" ELSE told
    BY <1>3 DEF TcpFinish
  <2>2. data'.upload = data.upload /\ (~lost => data' = data)
    BY <1>d, <2>1 DEF SessionFinish, Close
  <2>3. UNCHANGED <<http, upload, left, clash>> /\ tcp = "finish" /\ tcp' = "judge"
    BY <1>3 DEF TcpFinish, uploadVars
  <2> QED BY <2>1, <2>2, <2>3
<1>4. CASE TcpJudge
  <2>1. UNCHANGED <<http, clash>> /\ tcp = "judge" /\ tcp' = "idle"
    BY <1>4 DEF TcpJudge
  <2>2. CASE left["tcp"] = 0 /\ told' = Answer(told = "spoilt", TRUE) /\ UNCHANGED data
    <3>1. told' = "nothing" \/ (told' = "stored" /\ told # "spoilt")
      BY <2>2 DEF Answer
    <3>2. ~clash /\ told' = "stored" => data'.blocks = Size
      <4>1. ASSUME ~clash, told' = "stored" PROVE data.blocks + left["tcp"] = Size
        BY <2>1, <3>1, <4>1
      <4>2. data' = data /\ left["tcp"] = 0
        BY <2>2
      <4>3. data.blocks + 0 = data.blocks
        BY <1>d
      <4> QED BY ONLY <4>1, <4>2, <4>3
    <3> QED BY <2>1, <3>1, <3>2
  <2>3. CASE told' = "incomplete" /\ data' = NoData
    BY <2>1, <2>3
  <2>4. CASE told' = "nothing"
    BY <2>1, <2>4
  <2> QED BY <1>4, <2>2, <2>3, <2>4 DEF TcpJudge
<1>5. ASSUME NEW e, NEW f, NEW z, PostMeta(e, f, z) PROVE UploadInv'
  BY <1>5 DEF PostMeta, uploadVars
<1>6. ASSUME NEW e, NEW f, RawBegin(e, f) PROVE UploadInv'
  BY <1>6, BeginSession DEF RawBegin, tcpVars
<1>7. CASE RawRecv
  <2>1. UNCHANGED <<tcp, http, upload, told, clash>> /\ http = "recv" /\ SessionWrite("http", 1)
    BY <1>7 DEF RawRecv, tcpVars, history
  <2>2. ~clash => data'.upload = upload["http"] /\ data'.blocks + left'["http"] = Size
    BY <1>w, <2>1
  <2> QED BY <2>1, <2>2
<1>8. CASE RawFail \/ RawFinish
  <2>1. UNCHANGED <<tcp, clash>> /\ http = "recv" /\ http' = "idle"
    BY <1>8 DEF RawFail, RawFinish, tcpVars
  <2>2. \/ told' = "nothing"
        \/ told' = "stored" /\ data' = data /\ left["http"] = 0
    BY <1>8 DEF RawFail, RawFinish, Answer, SessionFinish, Close
  <2>3. ~clash => ~TcpUploads /\ data.blocks + left["http"] = Size
    BY <2>1
  <2>4. ~clash /\ told' = "stored" => data'.blocks = Size
    BY <1>d, <2>2, <2>3
  <2> QED BY <2>1, <2>2, <2>3, <2>4
<1>9. ASSUME NEW z, RunStored(z) PROVE UploadInv'
  BY <1>9 DEF RunStored, cardVars, uploadVars, history
<1>10. ASSUME NEW f, NEW z, RunInline(f, z) PROVE UploadInv'
  <2>1. ASSUME SessionBegin("http", Prepared(type, f), Size, tcp # "idle" \/ job # NoJob),
               http' = "buffer", UNCHANGED tcp
        PROVE  UploadInv'
    BY <2>1, BeginSession
  <2>2. CASE UNCHANGED <<tcp, http, data, uploadVars, told, clash>>
    BY <2>2 DEF uploadVars
  <2> QED BY <1>10, <2>1, <2>2 DEF RunInline, uploadVars
<1>11. CASE MobileCall \/ MobileBody
  BY <1>11 DEF MobileCall, MobileBody, tcpVars, cardVars, uploadVars, history
<1>12. ASSUME NEW given, MobileStore(given) PROVE UploadInv'
  <2>1. ASSUME SessionBegin("http", Prepared(type, "unknown"), Size, tcp # "idle" \/ job # NoJob),
               http' = "buffer", UNCHANGED tcp
        PROVE  UploadInv'
    BY <2>1, BeginSession
  <2>2. CASE http' = "idle" /\ UNCHANGED <<tcp, data, uploadVars, told, clash>>
    BY <2>2 DEF uploadVars
  <2> QED BY <1>12, <2>1, <2>2 DEF MobileStore, tcpVars, uploadVars
<1>13. CASE SaveBuffer
  <2>1. UNCHANGED <<tcp, clash>> /\ http = "buffer" /\ http' \in {"idle", "run"}
    BY <1>13 DEF SaveBuffer, StoredOrRun, tcpVars
  <2>2. PICK n \in 0 .. Size, ok \in BOOLEAN :
          /\ Stored("http", n)
          /\ told' = Answer(n < Size, ok) \/ told' = "nothing"
    BY <1>13 DEF SaveBuffer
  <2>3. told' = "nothing" \/ (told' = "stored" /\ n = Size)
    BY <2>2 DEF Answer
  <2>4. ~clash => data.blocks + left["http"] = Size /\ left["http"] = Size
    BY <2>1
  <2>5. ~clash => data'.blocks = data.blocks + n
    BY <1>d, <2>1, <2>2 DEF Stored
  <2>6. ~clash => data'.blocks = n
    BY <1>d, <2>2, <2>4, <2>5
  <2> QED BY <2>1, <2>3, <2>6
<1>14. ASSUME NEW v, Delete(v) \/ Format(v) PROVE UploadInv'
  BY <1>14 DEF Delete, Format, tcpVars, uploadVars
<1>15. ASSUME NEW z, Announce(z) PROVE UploadInv'
  BY <1>15 DEF Announce, cardVars, uploadVars, history
<1>16. CASE HttpRun \/ BleRun
  BY <1>16 DEF HttpRun, BleRun, Enqueue, tcpVars, uploadVars
<1>17. CASE Prepare \/ OpenImage \/ FlashEnds
  BY <1>17 DEF Prepare, OpenImage, FlashEnds, tcpVars, cardVars, uploadVars, history
<1>18. CASE Restart
  <2>1. told' = told /\ (~clash /\ (TcpUploads \/ HttpUploads) => told \in {"nothing", "spoilt"})
    BY <1>18 DEF Restart
  <2>2. tcp' = "idle" /\ http' = "idle"
    BY <1>18 DEF Restart
  <2>3. ~clash' /\ ~TcpUploads /\ ~HttpUploads => data' = data
    BY <1>18 DEF Restart
  <2>4. clash' = clash
    BY <1>18 DEF Restart
  <2> QED BY <2>1, <2>2, <2>3, <2>4
<1>19. CASE UNCHANGED vars
  BY <1>19 DEF vars, cardVars, tcpVars, uploadVars, history
<1> QED BY <1>1, <1>2, <1>3, <1>4, <1>5, <1>6, <1>7, <1>8, <1>9, <1>10, <1>11, <1>12, <1>13,
           <1>14, <1>15, <1>16, <1>17, <1>18, <1>19
        DEF Next, TcpNext, HttpWork, HttpNext, BleNext, WorkerNext

LEMMA RouteStep == StoreTypes /\ RouteInv /\ [Next]_vars => RouteInv'
<1> SUFFICES ASSUME StoreTypes, RouteInv, [Next]_vars PROVE RouteInv'
  OBVIOUS
<1> USE StoreAssumption, NoneTypes DEF StoreAssumption, StoreTypes, RouteInv, Servers
<1>t. type \in Types /\ "unknown" \in Formats
  BY DEF Formats
<1>m. ASSUME NEW m, NEW ok, MetaWrite(m, ok), m.override => m.exec \in asked',
             asked \subseteq asked'
      PROVE  meta'.override => meta'.exec \in asked'
  BY <1>m DEF MetaWrite
<1>s. ASSUME NEW s \in Servers, NEW lost, NEW ok, SessionFinish(s, lost, ok), asked' = asked
      PROVE  meta'.override => meta'.exec \in asked'
  BY <1>m, <1>s DEF SessionFinish
<1>1. CASE TcpBegin
  <2>1. ~Prepared(type, "unknown").override
    BY <1>t, MetaTypes
  <2> QED BY <1>1, <2>1 DEF TcpBegin, SessionBegin, workerVars
<1>2. CASE TcpRecv \/ TcpFinish
  <2>1. CASE TcpRecv
    BY <2>1 DEF TcpRecv, workerVars, boundVars, history
  <2>2. CASE TcpFinish
    <3>1. meta'.override => meta'.exec \in asked'
      BY <1>s, <2>2 DEF TcpFinish
    <3> QED BY <2>2, <3>1 DEF TcpFinish, uploadVars, workerVars, boundVars
  <2> QED BY <1>2, <2>1, <2>2
<1>3. CASE TcpJudge
  BY <1>3 DEF TcpJudge, NoSession, workerVars, boundVars
<1>4. ASSUME NEW e \in AskedExecs, NEW f \in AskedFormats, NEW z \in Sizes, PostMeta(e, f, z)
      PROVE  RouteInv'
  <2>1. Asking(Prepared(type, f), e).override => Asking(Prepared(type, f), e).exec \in asked'
    <3>1. Prepared(type, f) \in AnyMeta /\ ~Prepared(type, f).override
      BY <1>t, MetaTypes
    <3>2. Asking(Prepared(type, f), e).override =>
            e \notin {"none", "unknown"} /\ Asking(Prepared(type, f), e).exec = e
      BY <1>t, <3>1, MetaTypes
    <3> QED BY <1>4, <3>2 DEF PostMeta, Named
  <2>2. asked \subseteq asked'
    BY <1>4 DEF PostMeta, Named
  <2>3. meta'.override => meta'.exec \in asked'
    BY <1>4, <1>m, <2>1, <2>2 DEF PostMeta
  <2> QED BY <1>4, <2>2, <2>3 DEF PostMeta, uploadVars, workerVars, boundVars
<1>5. ASSUME NEW e \in AskedExecs, NEW f \in AskedFormats, RawBegin(e, f) PROVE RouteInv'
  <2> DEFINE base == IF ~HasMeta THEN Prepared(type, f)
                     ELSE IF f = "unknown" THEN meta ELSE [meta EXCEPT !.format = f]
  <2>1. base \in AnyMeta /\ (base.override => base.exec \in asked)
    BY <1>t, MetaTypes
  <2>2. held' = [held EXCEPT !["http"] = Asking(base, e)]
    BY <1>5 DEF RawBegin, SessionBegin
  <2>3. asked \subseteq asked' /\ (e \notin {"none", "unknown"} => e \in asked')
    BY <1>5 DEF RawBegin, Named
  <2>4. UNCHANGED <<meta, job, type>>
    BY <1>5 DEF RawBegin, workerVars
  <2> HIDE DEF base
  <2>5. Asking(base, e).override => Asking(base, e).exec \in asked'
    BY <1>t, <2>1, <2>3, MetaTypes
  <2> QED BY <2>2, <2>3, <2>4, <2>5
<1>6. CASE RawRecv
  BY <1>6 DEF RawRecv, workerVars, boundVars, history
<1>7. CASE RawFail \/ RawFinish
  <2>1. meta'.override => meta'.exec \in asked'
    BY <1>7, <1>s DEF RawFail, RawFinish
  <2> QED BY <1>7, <2>1 DEF RawFail, RawFinish, NoSession, workerVars, boundVars
<1>8. ASSUME NEW z, RunStored(z) PROVE RouteInv'
  BY <1>8 DEF RunStored, cardVars, uploadVars, workerVars, boundVars, history
<1>9. ASSUME NEW f \in AskedFormats, NEW z, RunInline(f, z) PROVE RouteInv'
  <2>1. ~Prepared(type, f).override
    BY <1>t, MetaTypes
  <2> QED BY <1>9, <2>1 DEF RunInline, SessionBegin, uploadVars, workerVars
<1>10. CASE MobileCall \/ MobileBody
  BY <1>10 DEF MobileCall, MobileBody, cardVars, uploadVars, workerVars, boundVars, history
<1>11. ASSUME NEW given, MobileStore(given) PROVE RouteInv'
  <2>1. ~Prepared(type, "unknown").override
    BY <1>t, MetaTypes
  <2> QED BY <1>11, <2>1 DEF MobileStore, SessionBegin, uploadVars, workerVars
<1>12. CASE SaveBuffer
  <2>1. meta'.override => meta'.exec \in asked'
    BY <1>12, <1>m DEF SaveBuffer
  <2> QED BY <1>12, <2>1 DEF SaveBuffer, NoSession, workerVars, boundVars
<1>13. ASSUME NEW v, Delete(v) \/ Format(v) PROVE RouteInv'
  BY <1>13 DEF Delete, Format, uploadVars, workerVars, boundVars
<1>14. ASSUME NEW z, Announce(z) PROVE RouteInv'
  BY <1>14 DEF Announce, cardVars, uploadVars, workerVars, boundVars, history
<1>15. ASSUME NEW u, Enqueue(u), UNCHANGED <<type, held, asked>> PROVE RouteInv'
  <2> DEFINE m == IF HasMeta THEN Routed(type, meta) ELSE Prepared(type, "unknown")
  <2>1. (m.override => m.exec \in asked) /\ m.exec \in asked \cup {ExecOf(type)}
    <3>1. ~Prepared(type, "unknown").override /\ Prepared(type, "unknown").exec = ExecOf(type)
      BY <1>t, MetaTypes
    <3>2. /\ Routed(type, meta).override = meta.override
          /\ meta.override => Routed(type, meta).exec = meta.exec
          /\ ~meta.override => Routed(type, meta).exec = ExecOf(type)
      BY <1>t, RunMeta
    <3>3. CASE HasMeta
      BY <3>2, <3>3
    <3>4. CASE ~HasMeta
      BY <3>1, <3>4
    <3> QED BY <3>3, <3>4
  <2>2. /\ UNCHANGED meta \/ \E ok \in BOOLEAN : MetaWrite(m, ok)
        /\ UNCHANGED job \/ job' = [exec |-> m.exec, format |-> m.format, file |-> "data"]
    BY <1>15 DEF Enqueue
  <2> HIDE DEF m
  <2>4. meta'.override => meta'.exec \in asked'
    BY <1>15, <1>m, <2>1, <2>2
  <2>3. job' # NoJob => job'.exec \in asked' \cup {ExecOf(type')}
    BY <1>15, <2>1, <2>2
  <2> QED BY <1>15, <2>3, <2>4
<1>16. CASE HttpRun \/ BleRun
  BY <1>15, <1>16 DEF HttpRun, BleRun, uploadVars, boundVars
<1>17. CASE Prepare
  <2>1. [job EXCEPT !.format = "bin", !.file = "bin"].exec = job.exec
    BY DEF AnyJob
  <2>2. job.format = "ihex" => job # NoJob
    BY DEF NoJob
  <2> QED BY <1>17, <2>1, <2>2 DEF Prepare, JobEnds, uploadVars, boundVars, history
<1>18. CASE OpenImage \/ FlashEnds
  BY <1>18 DEF OpenImage, FlashEnds, JobEnds, cardVars, uploadVars, boundVars, history
<1>19. CASE Restart
  BY <1>19 DEF Restart, JobEnds
<1>20. CASE UNCHANGED vars
  BY <1>20 DEF vars, cardVars, uploadVars, workerVars, boundVars, history
<1> QED BY <1>1, <1>2, <1>3, <1>4, <1>5, <1>6, <1>7, <1>8, <1>9, <1>10, <1>11, <1>12, <1>13,
           <1>14, <1>16, <1>17, <1>18, <1>19, <1>20
        DEF Next, TcpNext, HttpWork, HttpNext, BleNext, WorkerNext
-----------------------------------------------------------------------------
\* A step of a server or of the phone that leaves the worker alone: if it changes the
\* file, or begins an upload, while there is a job, it is a clash.
LEMMA OthersKeepWork ==
  ASSUME WorkInv, UNCHANGED workerVars,
         ~clash' => ~clash,
         ~clash' /\ job # NoJob => UNCHANGED <<data, bin>>,
         ~clash' /\ job # NoJob /\ ~TcpUploads /\ ~HttpUploads => ~TcpUploads' /\ ~HttpUploads'
  PROVE  WorkInv'
<1>1. UNCHANGED <<wpc, job, image>>
  BY DEF workerVars
<1>2. (job' # NoJob <=> wpc' # "idle") /\ (wpc' = "prepare" => job'.file = "data")
  BY <1>1 DEF WorkInv
<1>3. ASSUME ~clash', job' # NoJob PROVE ~TcpUploads' /\ ~HttpUploads'
  BY <1>1, <1>3 DEF WorkInv
<1>4. ASSUME ~clash', wpc' = "open", job'.file = "bin" PROVE data' # NoData /\ PartOfCard(bin)'
  BY <1>1, <1>4 DEF WorkInv, PartOfCard
<1>5. ASSUME ~clash', wpc' = "flash" PROVE data' # NoData /\ PartOfCard(image)'
  BY <1>1, <1>5 DEF WorkInv, PartOfCard
<1> QED BY <1>2, <1>3, <1>4, <1>5 DEF WorkInv

\* Where no session begins and nothing clashes, the file is not changed while a
\* job runs.
LEMMA ServerKeepsWork ==
  ASSUME WorkInv, TcpNext \/ HttpNext \/ (BleNext /\ ~BleRun), ~HttpRun
  PROVE  WorkInv'
<1> USE DEF TcpUploads, HttpUploads
<1>1. CASE TcpNext
  BY <1>1, OthersKeepWork
     DEF WorkInv, TcpNext, TcpBegin, TcpRecv, TcpFinish, TcpJudge, SessionBegin, history
<1>2. ASSUME NEW e, NEW f, NEW z, PostMeta(e, f, z) PROVE WorkInv'
  BY <1>2, OthersKeepWork DEF PostMeta
<1>3. ASSUME NEW e, NEW f, RawBegin(e, f) PROVE WorkInv'
  BY <1>3, OthersKeepWork DEF RawBegin, SessionBegin, tcpVars
<1>4. CASE RawRecv \/ RawFail \/ RawFinish
  BY <1>4, OthersKeepWork DEF WorkInv, RawRecv, RawFail, RawFinish, tcpVars, history
<1>5. ASSUME NEW z, RunStored(z) PROVE WorkInv'
  BY <1>5, OthersKeepWork DEF RunStored, cardVars, history
<1>6. ASSUME NEW f, NEW z, RunInline(f, z) PROVE WorkInv'
  <2>1. UNCHANGED <<tcp, bin, workerVars>>
    BY <1>6 DEF RunInline
  <2>2. ASSUME clash' = (clash \/ (tcp # "idle" \/ job # NoJob)), http' = "buffer"
        PROVE  WorkInv'
    BY <2>1, <2>2, OthersKeepWork
  <2>3. CASE UNCHANGED <<http, data, clash>>
    BY <2>1, <2>3, OthersKeepWork
  <2> QED BY <1>6, <2>2, <2>3 DEF RunInline, SessionBegin
<1>7. CASE MobileCall \/ MobileBody
  BY <1>7, OthersKeepWork DEF MobileCall, MobileBody, tcpVars, cardVars, history
<1>8. ASSUME NEW given, MobileStore(given) PROVE WorkInv'
  <2>1. UNCHANGED <<tcp, bin, workerVars>>
    BY <1>8 DEF MobileStore, tcpVars
  <2>2. ASSUME clash' = (clash \/ (tcp # "idle" \/ job # NoJob)), http' = "buffer"
        PROVE  WorkInv'
    BY <2>1, <2>2, OthersKeepWork
  <2>3. CASE http' = "idle" /\ UNCHANGED <<data, clash>>
    BY <2>1, <2>3, OthersKeepWork
  <2> QED BY <1>8, <2>2, <2>3 DEF MobileStore, SessionBegin
<1>9. CASE SaveBuffer
  BY <1>9, OthersKeepWork DEF WorkInv, SaveBuffer, StoredOrRun, tcpVars
<1>10. ASSUME NEW v, Delete(v) \/ Format(v) PROVE WorkInv'
  BY <1>10, OthersKeepWork DEF Delete, Format, tcpVars
<1>11. ASSUME NEW z, Announce(z) PROVE WorkInv'
  BY <1>11, OthersKeepWork DEF Announce, cardVars, history
<1> QED BY <1>1, <1>2, <1>3, <1>4, <1>5, <1>6, <1>7, <1>8, <1>9, <1>10, <1>11
        DEF HttpNext, HttpWork, BleNext

\* A run that finds a server uploading is a clash.
LEMMA EnqueueStep ==
  ASSUME WorkInv, NEW using, Enqueue(using), UNCHANGED <<data, bin, image>>,
         ~using => ~TcpUploads' /\ ~HttpUploads'
  PROVE  WorkInv'
<1>1. ~clash' => ~clash /\ ~TcpUploads' /\ ~HttpUploads'
  BY Zenon DEF Enqueue
<1>2. CASE UNCHANGED <<job, wpc>>
  BY <1>1, <1>2 DEF WorkInv, PartOfCard
<1>3. ASSUME NEW e, NEW f, job' = [exec |-> e, format |-> f, file |-> "data"], wpc' = "prepare"
      PROVE  WorkInv'
  BY <1>1, <1>3 DEF WorkInv, NoJob
<1> QED BY <1>2, <1>3 DEF Enqueue

LEMMA WorkStep == StoreTypes /\ WorkInv /\ [Next]_vars => WorkInv'
<1> SUFFICES ASSUME StoreTypes, WorkInv, [Next]_vars PROVE WorkInv'
  OBVIOUS
<1>1. CASE HttpRun
  BY <1>1, EnqueueStep DEF HttpRun, tcpVars, TcpUploads, HttpUploads
<1>2. CASE BleRun
  BY <1>2, EnqueueStep DEF BleRun, tcpVars, TcpUploads, HttpUploads
<1>3. CASE (TcpNext \/ HttpNext \/ BleNext) /\ ~BleRun /\ ~HttpRun
  BY <1>3, ServerKeepsWork
<1>4. CASE Prepare
  <2>1. UNCHANGED <<tcp, http, data, clash>> /\ job # NoJob
    BY <1>4 DEF Prepare, tcpVars, history, WorkInv
  <2>2. CASE wpc' = "open" /\ UNCHANGED <<bin, job, image>>
    BY <1>4, <2>1, <2>2 DEF Prepare, WorkInv, PartOfCard, TcpUploads, HttpUploads
  <2>3. ASSUME NEW n \in 0 .. data.blocks, data # NoData, bin' = [data EXCEPT !.blocks = n],
               job' = [job EXCEPT !.format = "bin", !.file = "bin"], wpc' = "open"
        PROVE  WorkInv'
    <3>1. job' # NoJob /\ job'.file = "bin"
      BY <2>3 DEF StoreTypes, AnyJob, NoJob
    <3>2. bin'.upload = data.upload /\ bin'.blocks <= data.blocks
      BY <2>3 DEF StoreTypes, CardFile
    <3> QED BY <2>1, <2>3, <3>1, <3>2 DEF WorkInv, PartOfCard, TcpUploads, HttpUploads
  <2>4. CASE JobEnds
    BY <2>4 DEF JobEnds, WorkInv
  <2> QED BY <1>4, <2>2, <2>3, <2>4 DEF Prepare
<1>5. CASE OpenImage
  BY <1>5 DEF OpenImage, JobEnds, WorkInv, PartOfCard, StoreTypes, CardFile, tcpVars, cardVars,
              history, TcpUploads, HttpUploads
<1>6. CASE FlashEnds \/ Restart
  BY <1>6 DEF FlashEnds, Restart, JobEnds, WorkInv
<1>7. CASE UNCHANGED vars
  BY <1>7 DEF vars, cardVars, tcpVars, workerVars, history, WorkInv, PartOfCard,
              TcpUploads, HttpUploads
<1> QED BY <1>1, <1>2, <1>3, <1>4, <1>5, <1>6, <1>7 DEF Next, WorkerNext
-----------------------------------------------------------------------------
StoreInv == StoreTypes /\ UploadInv /\ RouteInv /\ WorkInv

LEMMA StoreInvariance == Spec => []StoreInv
<1>1. Init => StoreInv
  <2> SUFFICES ASSUME Init PROVE StoreInv
    OBVIOUS
  <2>1. StoreTypes
    BY NoneTypes DEF Init, StoreTypes, CardFile, NoData, Servers
  <2>2. UploadInv /\ RouteInv /\ WorkInv
    BY NoneTypes DEF Init, UploadInv, RouteInv, WorkInv, TcpUploads, HttpUploads
  <2> QED BY <2>1, <2>2 DEF StoreInv
<1>2. StoreInv /\ [Next]_vars => StoreInv'
  BY TypesStep, UploadStep, RouteStep, WorkStep DEF StoreInv
<1> QED BY <1>1, <1>2, PTL DEF Spec

\* From the answer that a TCP upload is incomplete until the next upload, no run
\* flashes the part that was received or a conversion of it, for files and
\* announced sizes of every size.
THEOREM PartialNeverRuns == Spec => []PartNeverFlashed
<1>1. StoreInv => PartNeverFlashed
  BY DEF StoreInv, UploadInv, WorkInv, PartNeverFlashed
<1> QED BY <1>1, StoreInvariance, PTL

\* What was answered as stored is on the card with all its blocks, for files
\* and announced sizes of every size, and whatever the card fails to do that the
\* code looks at.
THEOREM StoredInFull == Spec => []StoredIsWhole
<1>1. StoreInv => StoredIsWhole
  BY DEF StoreInv, UploadInv, StoredIsWhole
<1> QED BY <1>1, StoreInvariance, PTL

\* A job goes to the executor of the file's type unless a client has named the
\* one it goes to, for every type and whatever clients name.
THEOREM JobsFollowRoute == Spec => []RoutedUnlessAsked
<1>1. StoreInv => RoutedUnlessAsked
  BY DEF StoreInv, RouteInv, RoutedUnlessAsked
<1> QED BY <1>1, StoreInvariance, PTL

\* What is flashed is what the card holds, never an earlier conversion.
THEOREM FlashesTheCard == Spec => []RunsLatest
<1>1. StoreInv => RunsLatest
  BY DEF StoreInv, WorkInv, PartOfCard, RunsLatest
<1> QED BY <1>1, StoreInvariance, PTL
=============================================================================
