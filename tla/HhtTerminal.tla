---------------------------- MODULE HhtTerminal ----------------------------
(***************************************************************************)
(* An HHT session from end to end: the handshake with the remote           *)
(* controller (hht_session.c, hht_wb100.c, hht_3000.c), then hht_task's    *)
(* polls that send the keys of HhtKeys and show the screen of HhtScreen,   *)
(* until the session is closed.                                            *)
(*                                                                         *)
(* uart is what the remote has sent and nobody has read, on the wire and   *)
(* in the driver's buffer: a read takes, and a flush drops, any prefix of  *)
(* it, that is, what has arrived.  The 8 bytes of a handshake answer are   *)
(* two halves.                                                             *)
(***************************************************************************)
EXTENDS HhtKeys, HhtScreen

CONSTANTS
  RetryMax,     \* HHT_SESSION_WB100_RETRY_MAX
  KeyEvery,     \* polls of a stream remote per key poll (2)
  ReportEvery,  \* REPORT_INTERVAL_TICKS
  Chars,        \* what a byte may be that is no cursor address
  Half1, Half2, \* the answer to a handshake request
  Draws,        \* what the remote may draw: <<row, column, characters>>
  MaxDraws, MaxSessions, MaxUart  \* bounds on draws, sessions and bytes under way

ASSUME TerminalAssumption ==
  /\ ScreenAssumption
  /\ {RetryMax, KeyEvery, ReportEvery} \subseteq Nat \ {0}
  /\ Half1 # Half2 /\ {Blank, Nul, Half1, Half2} \subseteq Chars
  /\ {MaxDraws, MaxSessions, MaxUart} \subseteq Nat
  /\ Draws \subseteq Rows \X Nat \X Seq(Chars)
  /\ \A d \in Draws : Len(d[3]) \in 1 .. Cols - d[2]

\* A WB100 and an HHT100 are stream remotes: only a WB100 is greeted.
Types   == {"stream", "3000"}
Answer  == <<Char(Half1), Char(Half2)>>
Reports == 0 .. 1   \* the rows of an HHT3000

VARIABLES
  session,   \* how far the session is
  type,      \* s_hht_type
  turn,      \* the part of its poll that hht_task does next
  got, tries,           \* resp and i of hht_wb100_session_open
  keyTick, reportTick,  \* s_key_tick_div, report_tick; static, never reset
  uart,      \* from the remote, not yet read
  asked,     \* the remote has a request to answer
  lcd,       \* what the remote shows
  attached,  \* it has answered a handshake, and sends what it draws
  stray,     \* bytes of the remote were dropped, or are not of this screen
  drawn,     \* rows it drew in this session; once astray, those drawn whole since
  draws, sessions  \* counters for the bounds

remote  == <<asked, lcd, attached, draws>>
known   == <<stray, drawn>>
task    == <<session, type, turn, got, tries, keyTick, reportTick, sessions>>
keys    == <<hold, wire, history>>
allVars == <<keys, screen, task, remote, uart, known>>

TerminalInit ==
  /\ Init /\ ScreenInit
  /\ session = "closed" /\ type = "stream" /\ turn = "keys"
  /\ got = <<>> /\ tries = 0 /\ keyTick = 0 /\ reportTick = 0
  /\ uart = <<>> /\ asked = FALSE /\ attached = FALSE /\ stray = FALSE
  /\ lcd = [r \in Rows |-> NoChars] /\ drawn = {}
  /\ draws = 0 /\ sessions = 0

Shows == type # "3000"

\* From here on our rows may differ from the remote's until it draws them whole.
Strays == stray' = TRUE /\ drawn' = {}
-----------------------------------------------------------------------------
(* The remote controller                                                   *)

\* It answers a handshake, wholly or in part, and starts a session of its
\* own with a blank screen.
RemoteAnswers ==
  /\ asked /\ Shows
  /\ \E bytes \in {Answer, <<Char(Half1)>>} : uart' = uart \o bytes
  /\ asked' = FALSE /\ attached' = TRUE
  /\ lcd' = [r \in Rows |-> NoChars] /\ drawn' = {}
  /\ stray' = (stray \/ session # "asked")
  /\ UNCHANGED <<keys, screen, task, draws>>

\* An HHT3000 reports the two rows it shows.
RemoteReports ==
  /\ asked /\ ~Shows /\ Len(uart) < MaxUart
  /\ asked' = FALSE
  /\ uart' = Append(uart, Report([r \in Reports |-> lcd[r]]))
  /\ UNCHANGED <<keys, screen, task, lcd, attached, draws, known>>

Address(r, c) == CASE r = 0 -> c [] r = 1 -> SecondLine + c
                   [] r = 2 -> Cols + c [] OTHER -> SecondLine + Cols + c

\* A drawing that we read, and that shows its row whatever we read before it
WholeRow(d) == session = "open" /\ attached /\ Len(d[3]) = Cols

\* It draws within a row; a stream remote sends the same bytes to us.
RemoteDraws(d) ==
  /\ draws < MaxDraws /\ draws' = draws + 1
  /\ lcd' = [lcd EXCEPT ![d[1]] = [i \in 1 .. Cols |->
       IF i - d[2] \in DOMAIN d[3] THEN d[3][i - d[2]] ELSE @[i]]]
  /\ drawn' = IF stray => WholeRow(d) THEN drawn \cup {d[1]} ELSE drawn
  /\ IF Shows /\ attached
     THEN uart' = uart \o <<Cursor(Address(d[1], d[2]))>>
                       \o [i \in DOMAIN d[3] |-> Char(d[3][i])]
     ELSE UNCHANGED uart
  /\ UNCHANGED <<keys, screen, task, asked, attached, stray>>

Remote == RemoteAnswers \/ RemoteReports \/ \E d \in Draws : RemoteDraws(d)
-----------------------------------------------------------------------------
(* Opening and closing                                                     *)

\* n bytes have arrived: they are read or flushed
Takes(n) == uart' = SubSeq(uart, n + 1, Len(uart))

\* hht_uart_flush, and the reads whose bytes are thrown away
Drops ==
  \E n \in 0 .. Len(uart) : Takes(n) /\ IF n > 0 THEN Strays ELSE UNCHANGED known

\* hht_session_open up to the request: the driver of another type is
\* replaced (RoleUart), that of a stream remote kept and flushed.  When the
\* request cannot be written, hht_task polls all the same (hht_main.c:30).
Opens(t, written) ==
  /\ session = "closed" /\ sessions < MaxSessions
  /\ sessions' = sessions + 1 /\ type' = t
  /\ asked' = (written \/ (asked /\ Shows /\ t # "3000"))
  /\ session' = IF ~written THEN "open" ELSE IF t = "3000" THEN "sync" ELSE "asked"
  /\ got' = <<>> /\ tries' = 0
  /\ turn' = IF t = "3000" THEN "screen" ELSE "keys"
  /\ IF t # "3000" /\ Shows
     THEN \E n \in 0 .. Len(uart) : Takes(n)
     ELSE uart' = <<>>
  /\ stray' = (uart' # <<>> \/ (t # "3000" /\ ~written)) /\ drawn' = {}
  /\ KeysInit /\ DisplayInit
  /\ UNCHANGED <<keyTick, reportTick, lcd, attached, draws>>

\* What was received so far, after so many reads: too little of an answer
\* yet, the answer, or none that will do, and hht_task polls all the same
\* (hht_main.c:33).
HandshakeGoesOn(received, reads) ==
  IF Len(received) < Len(Answer) /\ reads < RetryMax
  THEN got' = received /\ tries' = reads /\ UNCHANGED <<session, known>>
  ELSE /\ got' = <<>> /\ tries' = 0
       /\ IF received = Answer
          THEN session' \in {"verified", "open"} /\ UNCHANGED known
          ELSE session' = "open" /\ Strays

\* Faulty variant for ReadsAnswer: a read that brings nothing is not counted.
ReadsUncounted(n) ==
  /\ session = "asked" /\ n <= Len(uart) /\ Len(got) + n <= Len(Answer)
  /\ Takes(n)
  /\ HandshakeGoesOn(got \o SubSeq(uart, 1, n), IF n = 0 THEN tries ELSE tries + 1)
  /\ UNCHANGED <<keys, screen, type, turn, keyTick, reportTick, sessions, remote>>

\* One turn of the loop of hht_wb100_session_open, with what follows it: the
\* answer is whole and right, whole and wrong, or late.
ReadsAnswer(n) ==
  /\ session = "asked" /\ n <= Len(uart) /\ Len(got) + n <= Len(Answer)
  /\ Takes(n)
  /\ HandshakeGoesOn(got \o SubSeq(uart, 1, n), tries + 1)
  /\ UNCHANGED <<keys, screen, type, turn, keyTick, reportTick, sessions, remote>>

\* hht_wb100_post_verify_workflow: a flush between the two status bytes, then
\* a read of whatever has arrived as the project's name.
Greets ==
  /\ session \in {"verified", "greeted"} /\ Drops
  /\ session' = IF session = "verified" THEN "greeted" ELSE "open"
  /\ UNCHANGED <<keys, screen, type, turn, got, tries, keyTick, reportTick, sessions, remote>>

\* The oldest report that has arrived, of the n that are read
Reads(n) == n \in 1 .. Len(uart) /\ Takes(n)

\* hht_3000_ble_sync_initial: the rows of the first report, or blanks
Syncs ==
  /\ session = "sync" /\ session' = "open"
  /\ \/ \E n \in 1 .. Len(uart) : Reads(n) /\ PushRows(uart[1].v, TRUE)
     \/ UNCHANGED uart /\ PushRows([r \in Reports |-> NoChars], TRUE)
  /\ UNCHANGED <<keys, type, turn, got, tries, keyTick, reportTick, sessions, remote, known>>

\* hht_session_close, between two polls: a stream remote is not told; the driver of an HHT3000
\* is removed after the exit command.
Closes ==
  /\ session = "open" /\ session' = "closed"
  /\ turn = IF Shows THEN "keys" ELSE "screen"
  /\ IF Shows
     THEN Drops /\ UNCHANGED <<asked, lcd>>
     ELSE /\ uart' = <<>> /\ asked' = FALSE /\ UNCHANGED stray
          /\ lcd' = [r \in Rows |-> NoChars] /\ drawn' = {}
  /\ UNCHANGED <<keys, screen, type, turn, got, tries, keyTick, reportTick, sessions,
                 attached, draws>>
-----------------------------------------------------------------------------
(* hht_task's polls                                                        *)

\* Faulty variant for KeysOfStream: the counter is not put back to zero.
KeysOnceOnly ==
  /\ session = "open" /\ Shows /\ turn = "keys" /\ turn' = "screen"
  /\ keyTick' = IF keyTick < KeyEvery THEN keyTick + 1 ELSE keyTick
  /\ IF keyTick' = KeyEvery /\ keyTick # KeyEvery THEN Poll ELSE UNCHANGED keys
  /\ UNCHANGED <<screen, session, type, got, tries, reportTick, sessions, remote, uart, known>>

\* hht_wb100_poll, first half: keys on every KeyEvery-th poll
KeysOfStream ==
  /\ session = "open" /\ Shows /\ turn = "keys" /\ turn' = "screen"
  /\ keyTick' = (keyTick + 1) % KeyEvery
  /\ IF keyTick' = 0 THEN Poll ELSE UNCHANGED keys
  /\ UNCHANGED <<screen, session, type, got, tries, reportTick, sessions, remote, uart, known>>

\* hht_wb100_poll, second half: hht_display_poll on the bytes that arrived,
ShowsByte ==
  /\ session = "open" /\ Shows /\ turn = "screen" /\ uart # <<>>
  /\ Put(Head(uart)) /\ uart' = Tail(uart)
  /\ UNCHANGED <<keys, task, remote, known>>

\* and after them: a change of the screen cancels a short key.
ShowsRows ==
  /\ session = "open" /\ Shows /\ turn = "screen" /\ turn' = "keys"
  /\ EndPoll
  /\ IF last' = last
     THEN UNCHANGED keys
     ELSE DisplayChange \/ ((active => long) /\ UNCHANGED keys)
  /\ UNCHANGED <<session, type, got, tries, keyTick, reportTick, sessions, remote, uart, known>>

\* hht_3000_poll, first half: on every ReportEvery-th poll what arrived is
\* flushed and a report is asked for.
AsksReport ==
  /\ session = "open" /\ ~Shows /\ turn = "screen"
  /\ reportTick' = (reportTick + 1) % ReportEvery
  /\ IF reportTick' = 0
     THEN asked' = TRUE /\ turn' = "read" /\ \E n \in 0 .. Len(uart) : Takes(n)
     ELSE turn' = "keys" /\ UNCHANGED <<asked, uart>>
  /\ UNCHANGED <<keys, screen, session, type, got, tries, keyTick, sessions,
                 lcd, attached, draws, known>>

\* hht_3000_read_report_lines: the report comes in time, or not
ReadsReport ==
  /\ session = "open" /\ ~Shows /\ turn = "read" /\ turn' = "keys"
  /\ \E n \in 1 .. Len(uart) : Reads(n) /\ PushRows(uart[1].v, FALSE)
  /\ UNCHANGED <<keys, session, type, got, tries, keyTick, reportTick, sessions, remote, known>>

NoReport ==
  /\ session = "open" /\ ~Shows /\ turn = "read" /\ turn' = "keys"
  /\ UNCHANGED <<keys, screen, session, type, got, tries, keyTick, reportTick, sessions,
                 remote, uart, known>>

\* hht_3000_poll, second half
KeysOf3000 ==
  /\ session = "open" /\ ~Shows /\ turn = "keys" /\ turn' = "screen"
  /\ Poll
  /\ UNCHANGED <<screen, session, type, got, tries, keyTick, reportTick, sessions,
                 remote, uart, known>>

OpenStep == Greets \/ Syncs \/ \E n \in 0 .. Len(uart) : ReadsAnswer(n)
PollStep == \/ KeysOfStream \/ ShowsByte \/ ShowsRows
            \/ AsksReport \/ ReadsReport \/ NoReport \/ KeysOf3000
Task     == OpenStep \/ PollStep

\* The phone presses and releases keys while its session is open.
Phone == session = "open" /\ Send /\ UNCHANGED <<screen, task, remote, uart, known>>

TerminalNext ==
  \/ Remote \/ Phone \/ Task \/ Closes
  \/ \E t \in Types, written \in BOOLEAN : Opens(t, written)
TerminalSpec == TerminalInit /\ [][TerminalNext]_allVars

\* hht_task polls on while the session lasts; what the remote has sent
\* arrives, and an HHT3000 does not always answer too late.
TerminalFairSpec ==
  /\ TerminalSpec /\ WF_allVars(Task)
  /\ SF_allVars(ShowsByte)
  /\ SF_allVars(RemoteReports /\ turn = "read") /\ SF_allVars(ReadsReport)
-----------------------------------------------------------------------------
\* The phone shows row r as far as strcmp can tell it from the remote's; an
\* HHT3000 has no Nul, and no rows but Reports.
OnPhone(r) ==
  IF Shows
  THEN CString(lcd[r]) \in {<<>>, CString(phone[r])}
  ELSE r \in Reports => phone[r] = Printable(lcd[r])

\* hht_display.c:154: once everything a stream remote sent was read, each row
\* it drew is on the phone as far as strcmp can tell it, however its bytes
\* were cut between two polls, unless the row's notification was lost.  After
\* a failed handshake or an answer that came too late the polls go on, and
\* this holds of the rows that are drawn whole from then on.
LcdShown ==
  session = "open" /\ Shows /\ uart = <<>> /\ dirty = {} =>
    \A r \in drawn \ lost : OnPhone(r)

\* hht_main.c:33, hht_display.c:171, hht_3000.c:158: a row that the remote goes
\* on showing reaches the phone, also where the handshake failed, whichever
\* poll reads it and whatever keys are sent meanwhile.  (The session may end
\* and the notification may be lost.)
RowsReachPhone ==
  session = "open" /\ drawn # {} ~> session # "open" \/ \A r \in drawn \ lost : OnPhone(r)

\* hht_wb100.c:138: a handshake ends and the polls begin, however the remote
\* answers.
HandshakeEnds == session \in {"asked", "verified", "greeted", "sync"} ~> session = "open"

\* hht_keys.c:82, hht_wb100.c:246: while a session lasts the remote is never
\* left with a short key pressed: a 0x00 follows, at whatever rate the keys
\* are polled and whatever the screen does.
KeyReleased == wire # NoKey ~> (wire = NoKey \/ press = "long" \/ session # "open")
=============================================================================
