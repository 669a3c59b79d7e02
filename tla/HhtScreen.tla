----------------------------- MODULE HhtScreen -----------------------------
(***************************************************************************)
(* hht_display.c: the copy of the remote's LCD that the ESP32 keeps and    *)
(* the notifications that carry its rows to the phone.  A stream remote    *)
(* (WB100, HHT100) sends the bytes it writes to its LCD; an HHT3000 sends  *)
(* both rows whole when it is asked.                                       *)
(*                                                                         *)
(* A byte is [kind, v]: a cursor address, a character, or (HHT3000) a      *)
(* whole report.  A row is a C string of Cols characters: strcmp and       *)
(* strcpy stop at the first Nul.                                           *)
(***************************************************************************)
EXTENDS Integers, SequencesExt

CONSTANTS
  Cols,        \* HHT_COLS_MAX
  Blank, Nul   \* ' ' and '\0'

ScreenAssumption == Cols \in 1 .. 20 /\ Blank # Nul

Rows    == 0 .. 3    \* HHT_ROWS_MAX
SecondLine == 64     \* 0x40: LCD address of the second line
NoChars == [i \in 1 .. Cols |-> Blank]

Cursor(a) == [kind |-> "cursor", v |-> a]
Char(c)   == [kind |-> "char", v |-> c]
Report(l) == [kind |-> "report", v |-> l]

VARIABLES
  lines, last,  \* s_lines; s_last_lines, as C strings
  row, col,     \* where the next character goes; static, never reset
  dirty,        \* row_dirty: rows written in this poll
  phone,        \* the rows the phone shows
  lost          \* rows whose latest notification never arrived

screen == <<lines, last, row, col, dirty, phone, lost>>

\* What strcmp sees of a row
CString(l) ==
  LET i == SelectInSeq(l, LAMBDA c : c = Nul)
  IN  IF i = 0 THEN l ELSE SubSeq(l, 1, i - 1)

ScreenInit ==
  /\ lines = [r \in Rows |-> NoChars] /\ last = [r \in Rows |-> <<>>]
  /\ row = 0 /\ col = 0 /\ dirty = {}
  /\ phone = [r \in Rows |-> <<>>] /\ lost = {}

\* hht_display_init: the rows are forgotten, the position is not.
DisplayInit ==
  /\ lines' = [r \in Rows |-> NoChars] /\ last' = [r \in Rows |-> <<>>]
  /\ lost' = {}
  /\ UNCHANGED <<row, col, dirty, phone>>

\* Faulty variant for Position: the third row follows the second line.
PositionOffByLine(a) ==
  CASE a \in 0 .. Cols - 1                                 -> <<0, a>>
    [] a \in SecondLine .. SecondLine + Cols - 1           -> <<1, a - SecondLine>>
    [] a \in Cols .. 2 * Cols - 1                          -> <<3, a - Cols>>
    [] a \in SecondLine + Cols .. SecondLine + 2 * Cols - 1 -> <<2, a - SecondLine - Cols>>
    [] OTHER                                               -> <<0, 0>>

\* decode_cursor_4x20: rows 2 and 3 continue rows 0 and 1.
Position(a) ==
  CASE a \in 0 .. Cols - 1                                 -> <<0, a>>
    [] a \in SecondLine .. SecondLine + Cols - 1           -> <<1, a - SecondLine>>
    [] a \in Cols .. 2 * Cols - 1                          -> <<2, a - Cols>>
    [] a \in SecondLine + Cols .. SecondLine + 2 * Cols - 1 -> <<3, a - SecondLine - Cols>>
    [] OTHER                                               -> <<0, 0>>

\* One received byte in hht_display_poll: it moves the position, or is stored
\* and moves it on.
Put(b) ==
  /\ IF b.kind = "cursor"
     THEN /\ row' = Position(b.v)[1] /\ col' = Position(b.v)[2]
          /\ UNCHANGED <<lines, dirty>>
     ELSE /\ lines' = [lines EXCEPT ![row][col + 1] = b.v]
          /\ dirty' = dirty \cup {row}
          /\ col'   = (col + 1) % Cols
          /\ row'   = IF col' = 0 THEN (row + 1) % 4 ELSE row
  /\ UNCHANGED <<last, phone, lost>>

\* send_row_to_ble_and_cli for the rows in rs; a notification may be lost.
Notify(rs) ==
  \E gone \in SUBSET rs :
    /\ phone' = [r \in Rows |-> IF r \in rs \ gone THEN lines'[r] ELSE phone[r]]
    /\ lost'  = (lost \ rs) \cup gone

Changed(rs, ls) == {r \in rs : CString(ls[r]) # last[r]}

Pushes(rs) ==
  /\ last' = [r \in Rows |-> IF r \in rs THEN CString(lines'[r]) ELSE last[r]]
  /\ Notify(rs)

\* Faulty variant for EndPoll: every poll starts at the first cell.
EndPollHome ==
  /\ UNCHANGED lines
  /\ Pushes(Changed(dirty, lines)) /\ dirty' = {} /\ row' = 0 /\ col' = 0

\* hht_display_poll after the bytes: every row that changed is pushed.
EndPoll ==
  /\ UNCHANGED lines
  /\ Pushes(Changed(dirty, lines)) /\ dirty' = {}
  /\ UNCHANGED <<row, col>>

Printable(l) == [i \in 1 .. Cols |-> IF l[i] = Nul THEN Blank ELSE l[i]]

\* hht_display_push_row_ascii on both rows of a report
PushRows(ls, force) ==
  /\ lines' = [r \in Rows |-> IF r \in DOMAIN ls THEN Printable(ls[r]) ELSE lines[r]]
  /\ Pushes(IF force THEN DOMAIN ls ELSE Changed(DOMAIN ls, lines'))
  /\ UNCHANGED <<row, col, dirty>>
=============================================================================
