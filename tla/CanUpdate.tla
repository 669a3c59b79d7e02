----------------------------- MODULE CanUpdate -----------------------------
(***************************************************************************)
(* can_fw_update.c and incan.c: a TMS board is asked to enter its boot     *)
(* program, erased and programmed page by page.  A page travels as one     *)
(* segmented message: a first frame, the target's flow control, the        *)
(* consecutive frames, the target's answer.                                *)
(*                                                                         *)
(* The target is external: it may fail a request, and it may stop to       *)
(* answer for good.  It collects the data of a page as long as the frames  *)
(* are numbered in order.  CAN itself loses no frame.                      *)
(***************************************************************************)
EXTENDS Integers

CONSTANTS
  MaxPages,    \* pages of the target's flash
  PageBytes,   \* SIZE_FLASH_ONE_PAGE: 1024 in the code
  Tails,       \* possible sizes of the last page of an image
  Indexes,     \* MAX_INDEX_FLASH: areas that are erased one by one, 16 in the code
  Wrap,        \* numbers of consecutive frames: 16 in the code
  Rates,       \* values of can_bitrate that a meta may have ...
  Supported,   \* ... those that timing_from_bps knows ...
  Default,     \* ... the one it takes for the others, ...
  BootRate,    \* ... and the one the target's boot program uses
  EnterRate,   \* the rate at which it is asked to start it: 125000 in the code
  MaxJobs      \* bound on the updates

CanAssumption ==
  /\ {PageBytes, Indexes, Wrap} \subseteq Nat \ {0} /\ {MaxPages, MaxJobs} \subseteq Nat
  /\ Tails \subseteq 1 .. PageBytes
  /\ {Default, BootRate} \subseteq Supported

VARIABLES
  pc, step, jobs, flash, len, blk, trouble, doubt,   \* as in IspUpdate
  ret,         \* what the executor has returned: none, ok or fail
  tail,        \* bytes of the image's last page
  mine,        \* target_id is CAN_ID_TMS_BOARD, which tms_user_sw_send insists on
  asked,       \* the bit rate of the meta
  rate,        \* the bit rate that the driver is open at, or 0
  index,       \* the area to be erased next
  sent, seq,   \* length_sent of tms_user_sw_send, and the number in tx_buff[0]
  rx,          \* what the target expects and has of a page, and the next number
  silent       \* the target does not answer any more

can == <<tail, mine, asked, rate, index, sent, seq, rx, silent>>

Erased == -1
Wrong  == -2

Least(a, b) == IF a < b THEN a ELSE b

timing_from_bps(bps) == IF bps \in Supported THEN bps ELSE Default

\* Bytes of page b of the image.
Bytes(b) == IF b = len - 1 THEN tail ELSE PageBytes

CanInit ==
  /\ tail = PageBytes /\ mine = TRUE /\ asked = Default /\ rate = 0 /\ index = 0
  /\ sent = 0 /\ seq = 0 /\ rx = [want |-> 0, got |-> 0, next |-> 1]
  /\ silent = FALSE

\* can_send_file returns ESP_FAIL and leaves the step as it is; c says whether
\* the driver or the target failed a request.
Fail(c) == pc' = "idle" /\ ret' = "fail" /\ trouble' = (trouble \/ c)

Goto(l) == pc' = l /\ UNCHANGED <<ret, trouble>>

\* A request whose response comes within a second, or else fails.
Request(l) == (~silent /\ Goto(l)) \/ Fail(TRUE)
-----------------------------------------------------------------------------
\* Of the meta's target_id, and can_id and target_id of its JSON, the last that
\* is a number other than 0 counts; without one it is the TMS board's.
IsMine(ids) ==
  LET given == {i \in 1 .. 3 : ids[i] # "none"}
  IN  \A i \in given : (\A j \in given : j <= i) => ids[i] = "mine"

\* can_fw_update_from_reader: the image goes through fw_packaging into a file
\* of its own; the target's id and the bit rate come from the meta.
Job ==
  /\ pc = "idle" /\ jobs < MaxJobs
  /\ jobs' = jobs + 1 /\ len' \in 0 .. MaxPages /\ tail' \in Tails
  /\ mine' \in {IsMine(ids) : ids \in [1 .. 3 -> {"none", "mine", "other"}]}
  /\ asked' \in Rates
  /\ doubt' = FALSE /\ silent' = FALSE
  /\ \/ pc' = "start" /\ ret' = "none" /\ trouble' = FALSE /\ UNCHANGED step
     \/ pc' = "idle" /\ ret' = "fail" /\ trouble' = TRUE /\ step' = "ERROR"
  /\ UNCHANGED <<flash, blk, rate, index, sent, seq, rx>>

\* incan_open: an open driver is stopped first; the rate may not be bps.
Open(bps, l) ==
  \/ rate' = timing_from_bps(bps) /\ Goto(l)
  \/ rate' = 0 /\ Fail(TRUE)

\* "CAN enter boot" at the slow rate.
OpenSlow ==
  /\ pc = "start"
  /\ step' = "PREPARE" /\ Open(EnterRate, "enter")
  /\ UNCHANGED <<jobs, flash, len, blk, doubt, tail, mine, asked, index, sent, seq, rx, silent>>

Enter ==
  /\ pc = "enter"
  /\ Request("boot")
  /\ UNCHANGED <<step, jobs, flash, len, blk, doubt, can>>

\* "CAN boot check" at the fast rate ...
OpenFast ==
  /\ pc = "boot"
  /\ step' = "VERIFY" /\ Open(asked, "check")
  /\ UNCHANGED <<jobs, flash, len, blk, doubt, tail, mine, asked, index, sent, seq, rx, silent>>

\* ... which the target has to use as well.
Check ==
  /\ pc = "check"
  /\ \/ rate = BootRate /\ Request("erase")
     \/ rate # BootRate /\ Fail(FALSE)
  /\ index' = 0
  /\ UNCHANGED <<step, jobs, flash, len, blk, doubt, tail, mine, asked, rate, sent, seq, rx,
                 silent>>

\* "CAN erase" of one area.
Erase ==
  /\ pc = "erase"
  /\ step' = "WRITE"
  /\ \/ /\ ~silent
        /\ flash' = [b \in DOMAIN flash |-> IF b % Indexes = index THEN Erased ELSE flash[b]]
        /\ index' = index + 1
        /\ Goto(IF index' < Indexes THEN "erase" ELSE "page")
     \/ Fail(TRUE) /\ UNCHANGED <<flash, index>>
  /\ blk' = 0
  /\ UNCHANGED <<jobs, len, doubt, tail, mine, asked, rate, sent, seq, rx, silent>>

\* A page is read and its first frame, which carries five bytes, is sent.
FirstFrame ==
  /\ pc = "page" /\ blk < len
  /\ \/ /\ rx' = [want |-> Bytes(blk), got |-> Least(5, Bytes(blk)), next |-> 1]
        /\ sent' = 5 /\ seq' = 1 /\ Goto("flow")
     \/ Fail(TRUE) /\ UNCHANGED <<rx, sent, seq>>
  /\ UNCHANGED <<step, jobs, flash, len, blk, doubt, tail, mine, asked, rate, index, silent>>

\* fread returns 0: the loop ends as at the end of the file.
ReadsNothing ==
  /\ pc = "page" /\ blk < len
  /\ Goto("finish") /\ doubt' = TRUE
  /\ UNCHANGED <<step, jobs, flash, len, blk, can>>

\* The flow control frame is waited for without a limit.  The driver lets only
\* frames with target_id pass, the loop only those of CAN_ID_TMS_BOARD.
Flow ==
  /\ pc = "flow" /\ mine /\ ~silent
  /\ Goto("frames")
  /\ UNCHANGED <<step, jobs, flash, len, blk, doubt, can>>

\* Faulty variant for Frame: the mask lets a number beyond four bits through.
FrameNoWrap ==
  /\ pc = "frames" /\ sent < rx.want + 1
  /\ LET n == Least(7, rx.want + 1 - sent)
     IN  /\ sent' = sent + n /\ seq' = (seq + 1) % (2 * Wrap)
         /\ rx' = IF seq = rx.next
                    THEN [rx EXCEPT !.got = Least(rx.want, @ + n), !.next = (@ + 1) % Wrap]
                    ELSE rx
  /\ Goto("frames")
  /\ UNCHANGED <<step, jobs, flash, len, blk, doubt, tail, mine, asked, rate, index, silent>>

\* A consecutive frame.  total_len counts the service byte and length_sent does
\* not, so that one byte more than the page is sent, which the target leaves.
Frame ==
  /\ pc = "frames" /\ sent < rx.want + 1
  /\ LET n == Least(7, rx.want + 1 - sent)
     IN  \/ /\ sent' = sent + n /\ seq' = (seq + 1) % Wrap
            /\ rx' = IF seq = rx.next
                       THEN [rx EXCEPT !.got = Least(rx.want, @ + n), !.next = (@ + 1) % Wrap]
                       ELSE rx
            /\ Goto("frames")
         \/ Fail(TRUE) /\ UNCHANGED <<sent, seq, rx>>
  /\ UNCHANGED <<step, jobs, flash, len, blk, doubt, tail, mine, asked, rate, index, silent>>

\* The answer to the page, waited for without a limit: the target accepts a
\* page that is complete.
Accept ==
  /\ pc = "frames" /\ sent >= rx.want + 1 /\ mine /\ ~silent
  /\ \/ rx.got = rx.want /\ Goto("write")
     \/ Fail(rx.got = rx.want)
  /\ UNCHANGED <<step, jobs, flash, len, blk, doubt, can>>

\* tms_flash_write and its response within a second.
Write ==
  /\ pc = "write"
  /\ \/ /\ ~silent
        /\ flash' = [flash EXCEPT ![blk] = IF rx.got = Bytes(blk) THEN jobs ELSE Wrong]
        /\ blk' = blk + 1 /\ Goto("page")
     \/ Fail(TRUE) /\ UNCHANGED <<flash, blk>>
  /\ UNCHANGED <<step, jobs, len, doubt, can>>

\* DONE is shown before "CAN finish" is sent.
Finish ==
  /\ pc = "finish" \/ (pc = "page" /\ blk >= len)
  /\ step' = "DONE"
  /\ \/ pc' = "idle" /\ ret' = "ok" /\ UNCHANGED trouble
     \/ Fail(TRUE)
  /\ UNCHANGED <<jobs, flash, len, blk, doubt, can>>

\* The target stops to answer.
TargetStops ==
  /\ pc # "idle" /\ ~silent
  /\ silent' = TRUE
  /\ UNCHANGED <<pc, step, jobs, flash, len, blk, trouble, doubt, ret,
                 tail, mine, asked, rate, index, sent, seq, rx>>

Update == OpenSlow \/ Enter \/ OpenFast \/ Check \/ Erase \/ FirstFrame \/ ReadsNothing
          \/ Flow \/ Frame \/ Accept \/ Write \/ Finish
-----------------------------------------------------------------------------
TypeOK ==
  /\ pc \in {"idle", "start", "enter", "boot", "check", "erase", "page", "flow", "frames", "write", "finish"}
  /\ step \in {"PREPARE", "VERIFY", "WRITE", "DONE", "ERROR"}
  /\ flash \in [0 .. MaxPages - 1 -> 0 .. MaxJobs \cup {Erased, Wrong}]
  /\ len \in 0 .. MaxPages /\ blk \in 0 .. MaxPages /\ ret \in {"none", "ok", "fail"}
  /\ tail \in 1 .. PageBytes /\ mine \in BOOLEAN /\ asked \in Rates \cup {Default}
  /\ rate \in Supported \cup {0} /\ index \in 0 .. Indexes
  /\ sent \in 0 .. PageBytes + 5 /\ seq \in 0 .. Wrap - 1 /\ silent \in BOOLEAN
  /\ rx \in [want : 0 .. PageBytes, got : 0 .. PageBytes, next : 0 .. Wrap - 1]

\* tms_user_sw_send waits for a target that stopped, or that has another id.
Stuck == pc \in {"flow", "frames"} /\ (silent \/ ~mine)
=============================================================================
