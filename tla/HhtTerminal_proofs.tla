------------------------- MODULE HhtTerminal_proofs -------------------------
(***************************************************************************)
(* Proofs about HhtKeys, for any set of keys, any repeat count and any     *)
(* number of presses, and that what they show of the keys alone holds in a *)
(* whole session: every step of HhtTerminal is a step of HhtKeys or leaves *)
(* it alone.  Then, for LCD rows of 1 to 20 characters and any drawings,   *)
(* that the phone shows the remote's screen.                               *)
(***************************************************************************)
EXTENDS HhtTerminal, SequenceTheorems, TLAPS

\* A hold and the press it came from agree, and of a short key the repeats
\* written and the repeats left add up to the repeat count.
HoldInv ==
  /\ active /\ long => press = "long"
  /\ active /\ ~long => press = "short"
  /\ active /\ ~long => ticks > 0 /\ sent + ticks = ShortSendCount
  /\ press = "short" /\ ~active => release /\ sent = ShortSendCount

KeysInv == TypeOK /\ HoldInv

LEMMA KeysInvInit == Init => KeysInv
<1> SUFFICES ASSUME Init PROVE KeysInv
  OBVIOUS
<1>1. 0 \in 0 .. ShortSendCount /\ 0 \in 0 .. MaxPresses
  BY KeysAssumption DEF KeysAssumption
<1> QED BY <1>1 DEF Init, KeysInv, TypeOK, HoldInv

LEMMA TypeNext == KeysInv /\ [Next]_vars => TypeOK'
<1> SUFFICES ASSUME KeysInv, [Next]_vars PROVE TypeOK'
  OBVIOUS
<1> USE KeysAssumption
        DEF KeysAssumption, KeysInv, TypeOK, Next, Send, Poll, SendRelease, SendShort,
            SendLong, DisplayChange, PollRelease, PollIdle, PollLong, PollShort,
            KeysInit, Released, hold, history, vars
<1>1. active' \in BOOLEAN /\ long' \in BOOLEAN /\ release' \in BOOLEAN
  OBVIOUS
<1>2. key' \in Keys \cup {NoKey} /\ wire' \in Keys \cup {NoKey}
  OBVIOUS
<1>3. ticks' \in 0 .. ShortSendCount
  BY DEF HoldInv
<1>4. sent' \in 0 .. ShortSendCount
  BY DEF HoldInv
<1>5. press' \in {"none", "short", "long", "cancelled", "restarted"}
  OBVIOUS
<1>6. presses' \in 0 .. MaxPresses
  OBVIOUS
<1> QED BY <1>1, <1>2, <1>3, <1>4, <1>5, <1>6

LEMMA HoldNext == KeysInv /\ [Next]_vars => HoldInv'
<1> SUFFICES ASSUME KeysInv, [Next]_vars PROVE HoldInv'
  OBVIOUS
<1> USE KeysAssumption
        DEF KeysAssumption, KeysInv, TypeOK, HoldInv, hold, history, Released
<1>1. CASE SendRelease
  BY <1>1 DEF SendRelease
<1>2. ASSUME NEW k \in Keys, SendShort(k) PROVE HoldInv'
  BY <1>2 DEF SendShort
<1>3. ASSUME NEW k \in Keys, SendLong(k) PROVE HoldInv'
  BY <1>3 DEF SendLong
<1>4. CASE DisplayChange
  BY <1>4 DEF DisplayChange
<1>5. CASE PollRelease
  BY <1>5 DEF PollRelease
<1>6. CASE PollIdle \/ PollLong
  BY <1>6 DEF PollIdle, PollLong
<1>7. CASE PollShort
  <2> USE <1>7 DEF PollShort
  <2>1. press = "short" /\ ticks > 0 /\ sent + ticks = ShortSendCount
    OBVIOUS
  <2>2. sent' + ticks' = ShortSendCount /\ press' = "short" /\ ~long'
    BY <2>1
  <2>3. CASE ticks > 1
    BY <2>2, <2>3
  <2>4. CASE ~(ticks > 1)
    <3>1. ~active' /\ release' /\ ticks' = 0
      BY <2>1, <2>4
    <3> QED BY <2>2, <3>1
  <2> QED BY <2>3, <2>4
<1>8. CASE KeysInit
  BY <1>8 DEF KeysInit
<1>9. CASE UNCHANGED vars
  BY <1>9 DEF vars
<1> QED BY <1>1, <1>2, <1>3, <1>4, <1>5, <1>6, <1>7, <1>8, <1>9 DEF Next, Send, Poll

\* The inductive invariant of hht_keys.c
THEOREM KeysInvariance == Spec => []KeysInv
<1>1. KeysInv /\ [Next]_vars => KeysInv'
  BY TypeNext, HoldNext DEF KeysInv
<1> QED BY KeysInvInit, <1>1, PTL DEF Spec

\* The state variables of hht_keys.c stay in range: in particular the ticks
\* never go below zero.
THEOREM KeysTypeCorrect == Spec => []TypeOK
<1>1. KeysInv => TypeOK
  BY DEF KeysInv
<1> QED BY <1>1, KeysInvariance, PTL

\* A short key is released only after ShortSendCount writes of the key.
THEOREM ShortKeysSentInFull == Spec => ShortSentInFull
<1>1. KeysInv /\ [Next]_vars => [press = "short" /\ press' = "none" => sent = ShortSendCount]_vars
  <2> SUFFICES ASSUME KeysInv, Next, press = "short", press' = "none"
               PROVE  sent = ShortSendCount
    BY DEF vars
  <2> USE KeysAssumption DEF KeysAssumption, KeysInv, TypeOK, HoldInv
  <2>1. PollRelease \/ PollIdle
    BY DEF Next, Send, Poll, SendRelease, SendShort, SendLong, DisplayChange,
           PollLong, PollShort, KeysInit, history
  <2>2. ~active
    BY <2>1 DEF PollRelease, PollIdle, Deferred
  <2> QED BY <2>2
<1> QED BY <1>1, KeysInvariance, PTL DEF Spec, ShortSentInFull

\* Only the phone ends a long key.
THEOREM LongKeysEndByPhone == Spec => LongEndsByPhone
<1>1. KeysInv /\ [Next]_vars
      => [active /\ long => (active' /\ long' /\ key' = key) \/ release \/ presses' # presses
                         \/ press' = "restarted"]_vars
  <2> SUFFICES ASSUME KeysInv, Next, active, long, ~release, presses' = presses,
                      press' # "restarted"
               PROVE  active' /\ long' /\ key' = key
    BY DEF vars
  <2>1. CASE Send
    <3>1. presses + 1 # presses
      BY KeysAssumption DEF KeysAssumption, KeysInv, TypeOK
    <3>2. SendRelease
      BY <2>1, <3>1 DEF Send, SendShort, SendLong
    <3> QED BY <3>2 DEF SendRelease
  <2>2. CASE Poll
    BY <2>2 DEF Poll, PollRelease, PollIdle, PollLong, PollShort, hold
  <2>3. CASE DisplayChange
    BY <2>3 DEF DisplayChange
  <2>4. ~KeysInit
    BY DEF KeysInit
  <2> QED BY <2>1, <2>2, <2>3, <2>4 DEF Next
<1> QED BY <1>1, KeysInvariance, PTL DEF Spec, LongEndsByPhone
-----------------------------------------------------------------------------
\* hht_wb100.c:231, hht_3000.c:145: the session, the screen and the remote
\* touch the state of hht_keys.c only through its operations.
LEMMA KeysStep == [TerminalNext]_allVars => [Next]_vars
<1>1. UNCHANGED keys => UNCHANGED vars
  BY DEF keys, vars
<1>2. Remote => UNCHANGED keys
  BY DEF Remote, RemoteAnswers, RemoteReports, RemoteDraws
<1>3. Phone => Next
  BY DEF Phone, Next
<1>4. ASSUME NEW t \in Types, NEW w \in BOOLEAN, Opens(t, w) PROVE Next
  BY <1>4 DEF Opens, Next
<1>5. Closes => UNCHANGED keys
  BY DEF Closes
<1>6. OpenStep => UNCHANGED keys
  BY DEF OpenStep, Greets, Syncs, ReadsAnswer
<1>7. PollStep => Next \/ UNCHANGED keys
  <2>1. KeysOfStream => Next \/ UNCHANGED keys
    BY DEF KeysOfStream, Next
  <2>2. KeysOf3000 => Next
    BY DEF KeysOf3000, Next
  <2>3. ShowsByte \/ AsksReport \/ ReadsReport \/ NoReport => UNCHANGED keys
    BY DEF ShowsByte, AsksReport, ReadsReport, NoReport
  <2>4. ShowsRows => Next \/ UNCHANGED keys
    BY DEF ShowsRows, Next
  <2> QED
    BY <2>1, <2>2, <2>3, <2>4 DEF PollStep
<1>8. UNCHANGED allVars => UNCHANGED keys
  BY DEF allVars
<1> QED
  BY <1>1, <1>2, <1>3, <1>4, <1>5, <1>6, <1>7, <1>8 DEF TerminalNext, Task

\* A session uses the keys as HhtKeys specifies them.
THEOREM TerminalUsesKeys == TerminalSpec => Spec
<1>1. TerminalInit => Init
  BY DEF TerminalInit
<1> QED
  BY <1>1, KeysStep, PTL DEF TerminalSpec, Spec

\* hht_keys.c:11, :82 in a session: a short key that ends by itself was sent
\* in full, whatever the screen and the remote do.
THEOREM TerminalSendsShortKeys == TerminalSpec => ShortSentInFull
BY TerminalUsesKeys, ShortKeysSentInFull, PTL

\* hht_keys.c:78, :83 in a session: changes of the screen never end a long key.
THEOREM TerminalKeepsLongKeys == TerminalSpec => LongEndsByPhone
BY TerminalUsesKeys, LongKeysEndByPhone, PTL
-----------------------------------------------------------------------------
(* The phone shows the remote's screen.                                    *)
(*                                                                         *)
(* What the remote has drawn and we have not read is the sequence of bytes *)
(* under way.  The two screens agree when reading them, from the place     *)
(* where the next character goes, would make our rows the remote's.        *)

Cells  == 0 .. Cols - 1
Places == Rows \X Cells
Row    == [1 .. Cols -> Chars]

StreamBytes == [kind : {"cursor"}, v : Int] \cup [kind : {"char"}, v : Chars]
ReportBytes == [kind : {"report"}, v : [Reports -> Row]]

\* Where the next character goes once b is read at q
After(q, b) ==
  IF b.kind = "cursor"
  THEN Position(b.v)
  ELSE IF q[2] = Cols - 1 THEN <<(q[1] + 1) % 4, 0>> ELSE <<q[1], q[2] + 1>>

\* p is where each byte of s is read when the first is read at q.
Follows(s, p, q) ==
  /\ p \in [1 .. Len(s) + 1 -> Places] /\ p[1] = q
  /\ \A i \in 1 .. Len(s) : p[i + 1] = After(p[i], s[i])

Writes(s, p, i, r, c) == s[i].kind = "char" /\ p[i] = <<r, c - 1>>

\* In the rows of rs, a cell that no byte of s writes is equal on both
\* screens, and one that some byte writes is on theirs what the last such
\* byte says.
Shown(s, p, ours, theirs, rs) ==
  \A r \in rs, c \in 1 .. Cols :
    /\ (\A i \in 1 .. Len(s) : ~Writes(s, p, i, r, c)) => theirs[r][c] = ours[r][c]
    /\ \A i \in 1 .. Len(s) :
         Writes(s, p, i, r, c) /\ (\A j \in i + 1 .. Len(s) : ~Writes(s, p, j, r, c))
           => theirs[r][c] = s[i].v

\* Each row of rs will be written.
Comes(s, p, rs) ==
  \A r \in rs : \E i \in 1 .. Len(s) : s[i].kind = "char" /\ p[i][1] = r

\* Each cell of the rows in rs will be.
Overwrites(s, p, rs) ==
  \A r \in rs, c \in 1 .. Cols : \E i \in 1 .. Len(s) : Writes(s, p, i, r, c)

Synced(s, q, ours, theirs, same, rs) ==
  \E p : Follows(s, p, q) /\ Shown(s, p, ours, theirs, same) /\ Comes(s, p, rs)

Redraws(s, q, ours, theirs, rs, over) ==
  \E p : /\ Follows(s, p, q) /\ Shown(s, p, ours, theirs, Rows)
         /\ Comes(s, p, rs) /\ Overwrites(s, p, over)

\* The bytes of one drawing, and what it makes of the remote's screen
Drawing(d) == <<Cursor(Address(d[1], d[2]))>> \o [i \in DOMAIN d[3] |-> Char(d[3][i])]
Drawn(l, d) ==
  [l EXCEPT ![d[1]] = [i \in 1 .. Cols |->
     IF i - d[2] \in DOMAIN d[3] THEN d[3][i - d[2]] ELSE @[i]]]

LEMMA ScreenAssumed == Cols \in 1 .. 20 /\ SecondLine = 64 /\ Cols \in Nat
BY TerminalAssumption DEF TerminalAssumption, ScreenAssumption, SecondLine

LEMMA PositionTyped == ASSUME NEW a \in Int PROVE Position(a) \in Places
BY ScreenAssumed DEF Position, Places, Rows, Cells

\* The remote's address of a place leads to that place.
LEMMA PositionOfAddress ==
  ASSUME NEW r \in Rows, NEW c \in Cells
  PROVE  Address(r, c) \in Int /\ Position(Address(r, c)) = <<r, c>>
<1> USE ScreenAssumed
<1>0. c \in Int /\ 0 <= c /\ c < Cols
  BY DEF Cells
<1> HIDE DEF SecondLine
<1>1. CASE r = 0
  <2>1. Address(r, c) = c
    BY <1>1 DEF Address
  <2> QED BY <1>0, <1>1, <2>1 DEF Position
<1>2. CASE r = 1
  <2>1. Address(r, c) = 64 + c
    BY <1>2 DEF Address
  <2> QED BY <1>0, <1>2, <2>1 DEF Position
<1>3. CASE r = 2
  <2>1. Address(r, c) = Cols + c
    BY <1>3 DEF Address
  <2> QED BY <1>0, <1>3, <2>1 DEF Position
<1>4. CASE r = 3
  <2>1. Address(r, c) = 64 + Cols + c
    BY <1>4 DEF Address
  <2> QED BY <1>0, <1>4, <2>1 DEF Position
<1> QED BY <1>1, <1>2, <1>3, <1>4 DEF Rows

LEMMA AfterTyped ==
  ASSUME NEW q \in Places, NEW b \in StreamBytes PROVE After(q, b) \in Places
<1>1. CASE b.kind = "cursor"
  <2>1. b.v \in Int
    BY <1>1 DEF StreamBytes
  <2> QED BY <1>1, <2>1, PositionTyped DEF After
<1>2. CASE b.kind # "cursor"
  <2>1. q = <<q[1], q[2]>> /\ q[1] \in Rows /\ q[2] \in Cells
    BY DEF Places
  <2>2. (q[1] + 1) % 4 \in Rows
    BY <2>1 DEF Rows
  <2>3. 0 \in Cells /\ (q[2] # Cols - 1 => q[2] + 1 \in Cells)
    BY <2>1, ScreenAssumed DEF Cells
  <2> QED BY <1>2, <2>1, <2>2, <2>3 DEF After, Places
<1> QED BY <1>1, <1>2

\* A byte that is read takes one step of what was under way.
LEMMA PutSynced ==
  ASSUME NEW s \in Seq(StreamBytes), s # <<>>, NEW q \in Places,
         NEW ours \in [Rows -> Row], NEW theirs, NEW rs, NEW ours2, NEW rs2,
         NEW same \in SUBSET Rows, Synced(s, q, ours, theirs, same, rs),
         ours2 = IF s[1].kind = "cursor" THEN ours
                 ELSE [ours EXCEPT ![q[1]][q[2] + 1] = s[1].v],
         rs2 \subseteq rs, s[1].kind = "char" => q[1] \notin rs2
  PROVE  Synced(Tail(s), After(q, s[1]), ours2, theirs, same, rs2)
<1> DEFINE t == Tail(s)
           L == Len(t)
<1>1. /\ Len(s) \in Nat /\ Len(s) > 0 /\ L = Len(s) - 1 /\ L \in Nat
      /\ t \in Seq(StreamBytes) /\ \A i \in 1 .. L : t[i] = s[i + 1]
  OBVIOUS
<1>2. PICK p : Follows(s, p, q) /\ Shown(s, p, ours, theirs, same) /\ Comes(s, p, rs)
  BY DEF Synced
<1> DEFINE o == [i \in 1 .. L + 1 |-> p[i + 1]]
<1>3. \A i \in 1 .. L + 1 : o[i] = p[i + 1]
  OBVIOUS
<1>4. Follows(t, o, After(q, s[1]))
  <2>1. /\ p \in [1 .. Len(s) + 1 -> Places] /\ p[1] = q
        /\ \A i \in 1 .. Len(s) : p[i + 1] = After(p[i], s[i])
    BY <1>2 DEF Follows
  <2>2. o \in [1 .. L + 1 -> Places]
    BY <1>1, <2>1
  <2>3. o[1] = After(q, s[1])
    BY <1>1, <2>1
  <2>4. ASSUME NEW i \in 1 .. L PROVE o[i + 1] = After(o[i], t[i])
    <3>1. i + 1 \in 1 .. Len(s) /\ i \in 1 .. L + 1 /\ i + 1 \in 1 .. L + 1
      BY <1>1
    <3>2. o[i + 1] = p[i + 1 + 1] /\ o[i] = p[i + 1] /\ t[i] = s[i + 1]
      BY <1>1, <1>3, <3>1
    <3> HIDE DEF o, t, L
    <3> QED BY <2>1, <3>1, <3>2
  <2> HIDE DEF o, t
  <2> QED BY <2>2, <2>3, <2>4 DEF Follows, L
<1>5. ASSUME NEW i \in 1 .. L, NEW r, NEW c
      PROVE  Writes(t, o, i, r, c) <=> Writes(s, p, i + 1, r, c)
  <2>1. t[i] = s[i + 1] /\ o[i] = p[i + 1]
    BY <1>1, <1>3
  <2> HIDE DEF o, t, L
  <2> QED BY <2>1 DEF Writes
<1>6. p[1] = q /\ q = <<q[1], q[2]>> /\ q[1] \in Rows /\ q[2] \in Cells /\ 1 \in 1 .. Len(s)
  BY <1>1, <1>2 DEF Follows, Places
<1>7. Shown(t, o, ours2, theirs, same)
  <2> HIDE DEF o, t, L
  <2> SUFFICES ASSUME NEW r \in same, NEW c \in 1 .. Cols
      PROVE /\ (\A i \in 1 .. L : ~Writes(t, o, i, r, c)) => theirs[r][c] = ours2[r][c]
            /\ \A i \in 1 .. L :
                 Writes(t, o, i, r, c) /\ (\A j \in i + 1 .. L : ~Writes(t, o, j, r, c))
                   => theirs[r][c] = t[i].v
    BY DEF Shown, L
  <2>0. r \in Rows
    OBVIOUS
  <2>1. /\ (\A i \in 1 .. Len(s) : ~Writes(s, p, i, r, c)) => theirs[r][c] = ours[r][c]
        /\ \A i \in 1 .. Len(s) :
             Writes(s, p, i, r, c) /\ (\A j \in i + 1 .. Len(s) : ~Writes(s, p, j, r, c))
               => theirs[r][c] = s[i].v
    BY <1>2 DEF Shown
  <2>2. ASSUME \A i \in 1 .. L : ~Writes(t, o, i, r, c) PROVE theirs[r][c] = ours2[r][c]
    <3>1. \A j \in 2 .. Len(s) : ~Writes(s, p, j, r, c)
      <4> SUFFICES ASSUME NEW j \in 2 .. Len(s) PROVE ~Writes(s, p, j, r, c)
        OBVIOUS
      <4>1. j - 1 \in 1 .. L /\ (j - 1) + 1 = j
        BY <1>1
      <4> QED BY <4>1, <1>5, <2>2
    <3>2. CASE Writes(s, p, 1, r, c)
      <4>1. theirs[r][c] = s[1].v
        BY <1>6, <2>1, <3>1, <3>2
      <4>2. s[1].kind = "char" /\ r = q[1] /\ c = q[2] + 1
        BY <1>6, <3>2 DEF Writes, Cells
      <4>3. ours2 = [ours EXCEPT ![q[1]][q[2] + 1] = s[1].v]
        BY <4>2
      <4> QED BY <2>0, <4>1, <4>2, <4>3 DEF Row
    <3>3. CASE ~Writes(s, p, 1, r, c)
      <4>1. \A j \in 1 .. Len(s) : ~Writes(s, p, j, r, c)
        <5> SUFFICES ASSUME NEW j \in 1 .. Len(s) PROVE ~Writes(s, p, j, r, c)
          OBVIOUS
        <5>1. j = 1 \/ j \in 2 .. Len(s)
          BY <1>1
        <5> QED BY <5>1, <3>1, <3>3
      <4>2. theirs[r][c] = ours[r][c]
        BY <4>1, <2>1
      <4>3. s[1].kind = "cursor" \/ s[1].kind = "char"
        <5>1. s[1] \in StreamBytes
          BY <1>6
        <5> QED BY <5>1 DEF StreamBytes
      <4>4. s[1].kind = "char" => <<r, c - 1>> # q
        BY <1>6, <3>3 DEF Writes
      <4>5. ours2[r][c] = ours[r][c]
        BY <1>6, <2>0, <4>3, <4>4 DEF Row, Cells
      <4> QED BY <4>2, <4>5
    <3> QED BY <3>2, <3>3
  <2>3. ASSUME NEW i \in 1 .. L, Writes(t, o, i, r, c),
               \A j \in i + 1 .. L : ~Writes(t, o, j, r, c)
        PROVE  theirs[r][c] = t[i].v
    <3>1. i + 1 \in 1 .. Len(s) /\ t[i] = s[i + 1]
      BY <1>1
    <3>2. Writes(s, p, i + 1, r, c)
      BY <1>5, <2>3
    <3>3. \A j \in (i + 1) + 1 .. Len(s) : ~Writes(s, p, j, r, c)
      <4> SUFFICES ASSUME NEW j \in (i + 1) + 1 .. Len(s) PROVE ~Writes(s, p, j, r, c)
        OBVIOUS
      <4>1. j - 1 \in i + 1 .. L /\ j - 1 \in 1 .. L /\ (j - 1) + 1 = j
        BY <1>1
      <4> QED BY <4>1, <1>5, <2>3
    <3> QED BY <2>1, <3>1, <3>2, <3>3
  <2> QED BY <2>2, <2>3
<1>8. Comes(t, o, rs2)
  <2> SUFFICES ASSUME NEW r \in rs2
               PROVE  \E i \in 1 .. Len(t) : t[i].kind = "char" /\ o[i][1] = r
    BY DEF Comes
  <2>1. PICK j \in 1 .. Len(s) : s[j].kind = "char" /\ p[j][1] = r
    BY <1>2 DEF Comes
  <2>2. j # 1
    BY <2>1, <1>6
  <2>3. j - 1 \in 1 .. L /\ (j - 1) + 1 = j
    BY <1>1, <2>2
  <2>4. t[j - 1] = s[j] /\ o[j - 1] = p[j]
    <3>1. j - 1 \in 1 .. L + 1
      BY <1>1, <2>3
    <3> QED BY <1>1, <1>3, <2>3, <3>1
  <2> HIDE DEF o, t
  <2> QED BY <2>1, <2>3, <2>4 DEF L
<1> HIDE DEF o, t
<1>9. Synced(t, After(q, s[1]), ours2, theirs, same, rs2)
  BY <1>4, <1>7, <1>8 DEF Synced
<1> QED BY <1>9 DEF t

\* Fewer rows agree with a screen that differs in the others only.
LEMMA LessSynced ==
  ASSUME NEW s, NEW q, NEW ours, NEW theirs, NEW theirs2,
         NEW same, NEW same2, NEW rs, NEW rs2, Synced(s, q, ours, theirs, same, rs),
         rs2 \subseteq rs, same2 \subseteq same, \A r \in same2 : theirs2[r] = theirs[r]
  PROVE  Synced(s, q, ours, theirs2, same2, rs2)
<1>1. PICK p : Follows(s, p, q) /\ Shown(s, p, ours, theirs, same) /\ Comes(s, p, rs)
  BY DEF Synced
<1>2. Comes(s, p, rs2)
  BY <1>1 DEF Comes
<1>3. Shown(s, p, ours, theirs2, same2)
  BY <1>1 DEF Shown
<1> QED BY <1>1, <1>2, <1>3 DEF Synced

LEMMA NothingSynced ==
  ASSUME NEW q \in Places, NEW ours PROVE Synced(<<>>, q, ours, ours, Rows, {})
<1> DEFINE p == [i \in 1 .. 1 |-> q]
<1>1. Len(<<>>) = 0 /\ p \in [1 .. Len(<<>>) + 1 -> Places] /\ p[1] = q /\ 1 .. 0 = {}
  OBVIOUS
<1> HIDE DEF p
<1>2. Follows(<<>>, p, q) /\ Comes(<<>>, p, {})
  BY <1>1 DEF Follows, Comes
<1>3. Shown(<<>>, p, ours, ours, Rows)
  BY <1>1 DEF Shown
<1> QED BY <1>2, <1>3 DEF Synced

LEMMA JoinedBytes ==
  ASSUME NEW s \in Seq(StreamBytes), NEW t \in Seq(StreamBytes)
  PROVE  /\ s \o t \in Seq(StreamBytes) /\ Len(s \o t) = Len(s) + Len(t)
         /\ \A i \in 1 .. Len(s) : (s \o t)[i] = s[i]
         /\ \A i \in 1 .. Len(t) : (s \o t)[Len(s) + i] = t[i]
OBVIOUS

\* Bytes that lead from ours to mid, then bytes that lead from mid to theirs
\* wherever they are read: the rows agree that did before, and those that the
\* second bytes write wholly.
LEMMA JoinSynced ==
  ASSUME NEW s \in Seq(StreamBytes), NEW t \in Seq(StreamBytes), NEW q,
         NEW ours, NEW mid, NEW theirs, NEW rs, NEW rs2,
         NEW same, NEW over, NEW same2 \in SUBSET Rows, same2 \subseteq same \cup over,
         Synced(s, q, ours, mid, same, rs),
         \A q2 \in Places : Redraws(t, q2, mid, theirs, rs2, over)
  PROVE  Synced(s \o t, q, ours, theirs, same2, rs \cup rs2)
<1> DEFINE L == Len(s)
           M == Len(t)
           w == s \o t
<1>1. /\ L \in Nat /\ M \in Nat /\ Len(w) = L + M
      /\ \A i \in 1 .. L : w[i] = s[i]
      /\ \A i \in 1 .. M : w[L + i] = t[i]
  BY JoinedBytes
<1>2. PICK p : Follows(s, p, q) /\ Shown(s, p, ours, mid, same) /\ Comes(s, p, rs)
  BY DEF Synced
<1>3. /\ p \in [1 .. L + 1 -> Places] /\ p[1] = q
      /\ \A i \in 1 .. L : p[i + 1] = After(p[i], s[i])
  BY <1>2 DEF Follows
<1>4. p[L + 1] \in Places
  BY <1>1, <1>3
<1>5. PICK o : /\ Follows(t, o, p[L + 1]) /\ Shown(t, o, mid, theirs, Rows)
               /\ Comes(t, o, rs2) /\ Overwrites(t, o, over)
  BY <1>4 DEF Redraws
<1>6. /\ o \in [1 .. M + 1 -> Places] /\ o[1] = p[L + 1]
      /\ \A i \in 1 .. M : o[i + 1] = After(o[i], t[i])
  BY <1>5 DEF Follows
<1> DEFINE u == [i \in 1 .. L + M + 1 |-> IF i <= L THEN p[i] ELSE o[i - L]]
<1>7. Len(s) = L /\ Len(t) = M
  OBVIOUS
<1> HIDE DEF L, M, w
<1>8. u \in [1 .. L + M + 1 -> Places]
  BY <1>1, <1>3, <1>6
<1>9. \A i \in 1 .. L + 1 : u[i] = p[i]
  <2> SUFFICES ASSUME NEW i \in 1 .. L + 1 PROVE u[i] = p[i]
    OBVIOUS
  <2>1. i \in 1 .. L + M + 1
    BY <1>1
  <2>2. CASE i <= L
    BY <2>1, <2>2
  <2>3. CASE ~(i <= L)
    <3>1. i = L + 1 /\ i - L = 1
      BY <1>1, <2>3
    <3>2. u[i] = o[i - L]
      BY <2>1, <2>3
    <3> QED BY <3>1, <3>2, <1>6
  <2> QED BY <2>2, <2>3
<1>10. \A i \in 1 .. M + 1 : u[L + i] = o[i]
  <2> SUFFICES ASSUME NEW i \in 1 .. M + 1 PROVE u[L + i] = o[i]
    OBVIOUS
  <2>1. L + i \in 1 .. L + M + 1 /\ ~(L + i <= L) /\ (L + i) - L = i
    BY <1>1
  <2>2. u[L + i] = o[(L + i) - L]
    BY <2>1
  <2> QED BY <2>1, <2>2
<1> HIDE DEF u
<1>11. ASSUME NEW i \in 1 .. L + M
       PROVE  (i \in 1 .. L) \/ (\E k \in 1 .. M : i = L + k)
  <2>1. CASE i <= L
    BY <2>1, <1>1
  <2>2. CASE ~(i <= L)
    <3>1. i - L \in 1 .. M /\ i = L + (i - L)
      BY <1>1, <2>2
    <3> QED BY <3>1
  <2> QED BY <2>1, <2>2
<1>12. Follows(w, u, q)
  <2>1. u[1] = q
    <3>1. 1 \in 1 .. L + 1
      BY <1>1
    <3> QED BY <3>1, <1>9, <1>3
  <2>2. ASSUME NEW i \in 1 .. L + M PROVE u[i + 1] = After(u[i], w[i])
    <3>1. CASE i \in 1 .. L
      <4>1. i \in 1 .. L + 1 /\ i + 1 \in 1 .. L + 1
        BY <1>1, <3>1
      <4>2. u[i] = p[i] /\ u[i + 1] = p[i + 1]
        BY <4>1, <1>9
      <4>3. w[i] = s[i] /\ p[i + 1] = After(p[i], s[i])
        BY <3>1, <1>1, <1>3
      <4> QED BY <4>2, <4>3
    <3>2. ASSUME NEW k \in 1 .. M, i = L + k PROVE u[i + 1] = After(u[i], w[i])
      <4>1. k \in 1 .. M + 1 /\ k + 1 \in 1 .. M + 1 /\ i + 1 = L + (k + 1)
        BY <1>1, <3>2
      <4>2. u[i] = o[k] /\ u[i + 1] = o[k + 1]
        BY <4>1, <3>2, <1>10
      <4>3. w[i] = t[k] /\ o[k + 1] = After(o[k], t[k])
        BY <3>2, <1>1, <1>6
      <4> QED BY <4>2, <4>3
    <3> QED BY <3>1, <3>2, <1>11
  <2> QED BY <2>1, <2>2, <1>8, <1>1 DEF Follows
<1>13. ASSUME NEW i \in 1 .. L, NEW r, NEW c
       PROVE  Writes(w, u, i, r, c) <=> Writes(s, p, i, r, c)
  <2>1. i \in 1 .. L + 1
    BY <1>1
  <2>2. w[i] = s[i] /\ u[i] = p[i]
    BY <2>1, <1>1, <1>9
  <2> QED BY <2>2 DEF Writes
<1>14. ASSUME NEW i \in 1 .. M, NEW r, NEW c
       PROVE  Writes(w, u, L + i, r, c) <=> Writes(t, o, i, r, c)
  <2>1. i \in 1 .. M + 1
    BY <1>1
  <2>2. w[L + i] = t[i] /\ u[L + i] = o[i]
    BY <2>1, <1>1, <1>10
  <2> QED BY <2>2 DEF Writes
<1>15. Shown(w, u, ours, theirs, same2)
  <2> SUFFICES ASSUME NEW r \in same2, NEW c \in 1 .. Cols
      PROVE /\ (\A i \in 1 .. L + M : ~Writes(w, u, i, r, c)) => theirs[r][c] = ours[r][c]
            /\ \A i \in 1 .. L + M :
                 Writes(w, u, i, r, c) /\ (\A j \in i + 1 .. L + M : ~Writes(w, u, j, r, c))
                   => theirs[r][c] = w[i].v
    BY <1>1 DEF Shown
  <2>0. r \in Rows /\ (r \in same \/ \E i \in 1 .. M : Writes(t, o, i, r, c))
    BY <1>5, <1>7 DEF Overwrites
  <2>1. r \in same =>
        /\ (\A i \in 1 .. L : ~Writes(s, p, i, r, c)) => mid[r][c] = ours[r][c]
        /\ \A i \in 1 .. L :
             Writes(s, p, i, r, c) /\ (\A j \in i + 1 .. L : ~Writes(s, p, j, r, c))
               => mid[r][c] = s[i].v
    BY <1>2, <1>7, SMTT(20) DEF Shown
  <2>2. /\ (\A i \in 1 .. M : ~Writes(t, o, i, r, c)) => theirs[r][c] = mid[r][c]
        /\ \A i \in 1 .. M :
             Writes(t, o, i, r, c) /\ (\A j \in i + 1 .. M : ~Writes(t, o, j, r, c))
               => theirs[r][c] = t[i].v
    BY <1>5, <1>7, <2>0 DEF Shown
  <2>3. ASSUME \A i \in 1 .. L + M : ~Writes(w, u, i, r, c)
        PROVE  theirs[r][c] = ours[r][c]
    <3>1. \A i \in 1 .. L : ~Writes(s, p, i, r, c)
      <4> SUFFICES ASSUME NEW i \in 1 .. L PROVE ~Writes(s, p, i, r, c)
        OBVIOUS
      <4>1. i \in 1 .. L + M
        BY <1>1
      <4> QED BY <4>1, <1>13, <2>3
    <3>2. \A i \in 1 .. M : ~Writes(t, o, i, r, c)
      <4> SUFFICES ASSUME NEW i \in 1 .. M PROVE ~Writes(t, o, i, r, c)
        OBVIOUS
      <4>1. L + i \in 1 .. L + M
        BY <1>1
      <4> QED BY <4>1, <1>14, <2>3
    <3> QED BY <3>1, <3>2, <2>0, <2>1, <2>2
  <2>4. ASSUME NEW i \in 1 .. L + M, Writes(w, u, i, r, c),
               \A j \in i + 1 .. L + M : ~Writes(w, u, j, r, c)
        PROVE  theirs[r][c] = w[i].v
    <3>1. CASE i \in 1 .. L
      <4>1. Writes(s, p, i, r, c)
        BY <3>1, <1>13, <2>4
      <4>2. \A j \in i + 1 .. L : ~Writes(s, p, j, r, c)
        <5> SUFFICES ASSUME NEW j \in i + 1 .. L PROVE ~Writes(s, p, j, r, c)
          OBVIOUS
        <5>1. j \in 1 .. L /\ j \in i + 1 .. L + M
          BY <1>1, <3>1
        <5> QED BY <5>1, <1>13, <2>4
      <4>3. \A j \in 1 .. M : ~Writes(t, o, j, r, c)
        <5> SUFFICES ASSUME NEW j \in 1 .. M PROVE ~Writes(t, o, j, r, c)
          OBVIOUS
        <5>1. L + j \in i + 1 .. L + M
          BY <1>1, <3>1
        <5> QED BY <5>1, <1>14, <2>4
      <4>4. w[i] = s[i]
        BY <1>1, <3>1
      <4> QED BY <3>1, <4>1, <4>2, <4>3, <4>4, <2>0, <2>1, <2>2
    <3>2. ASSUME NEW k \in 1 .. M, i = L + k PROVE theirs[r][c] = w[i].v
      <4>1. Writes(t, o, k, r, c)
        BY <3>2, <1>14, <2>4
      <4>2. \A j \in k + 1 .. M : ~Writes(t, o, j, r, c)
        <5> SUFFICES ASSUME NEW j \in k + 1 .. M PROVE ~Writes(t, o, j, r, c)
          OBVIOUS
        <5>1. j \in 1 .. M /\ L + j \in i + 1 .. L + M
          BY <1>1, <3>2
        <5> QED BY <5>1, <1>14, <2>4
      <4>3. w[i] = t[k]
        BY <1>1, <3>2
      <4> QED BY <4>1, <4>2, <4>3, <2>2
    <3> QED BY <3>1, <3>2, <1>11
  <2> QED BY <2>3, <2>4
<1>16. Comes(w, u, rs \cup rs2)
  <2> SUFFICES ASSUME NEW r \in rs \cup rs2
               PROVE  \E i \in 1 .. L + M : w[i].kind = "char" /\ u[i][1] = r
    BY <1>1 DEF Comes
  <2>1. CASE r \in rs
    <3>1. PICK i \in 1 .. L : s[i].kind = "char" /\ p[i][1] = r
      BY <2>1, <1>2, <1>7 DEF Comes
    <3>2. i \in 1 .. L + M /\ i \in 1 .. L + 1
      BY <1>1
    <3>3. w[i] = s[i] /\ u[i] = p[i]
      BY <3>2, <1>1, <1>9
    <3> QED BY <3>1, <3>2, <3>3
  <2>2. CASE r \in rs2
    <3>1. PICK i \in 1 .. M : t[i].kind = "char" /\ o[i][1] = r
      BY <2>2, <1>5, <1>7 DEF Comes
    <3>2. L + i \in 1 .. L + M /\ i \in 1 .. M + 1
      BY <1>1
    <3>3. w[L + i] = t[i] /\ u[L + i] = o[i]
      BY <3>2, <1>1, <1>10
    <3> QED BY <3>1, <3>2, <3>3
  <2> QED BY <2>1, <2>2
<1>17. Synced(w, q, ours, theirs, same2, rs \cup rs2)
  BY <1>12, <1>15, <1>16 DEF Synced
<1> QED BY <1>17 DEF w

LEMMA DrawTyped ==
  ASSUME NEW d \in Draws
  PROVE  /\ d[1] \in Rows /\ d[2] \in Cells /\ d[3] \in Seq(Chars)
         /\ Len(d[3]) \in Nat \ {0} /\ d[2] + Len(d[3]) <= Cols
         /\ DOMAIN d[3] = 1 .. Len(d[3])
<1>1. d \in Rows \X Nat \X Seq(Chars) /\ Len(d[3]) \in 1 .. Cols - d[2]
  BY TerminalAssumption DEF TerminalAssumption
<1>2. d[1] \in Rows /\ d[2] \in Nat /\ d[3] \in Seq(Chars)
  BY <1>1
<1>3. Len(d[3]) \in Nat /\ DOMAIN d[3] = 1 .. Len(d[3])
  BY <1>2
<1> QED BY <1>1, <1>2, <1>3, ScreenAssumed DEF Cells

LEMMA DrawingBytes ==
  ASSUME NEW d \in Draws
  PROVE  /\ Drawing(d) \in Seq(StreamBytes)
         /\ Len(Drawing(d)) = Len(d[3]) + 1
         /\ Drawing(d)[1] = Cursor(Address(d[1], d[2]))
         /\ \A i \in 1 .. Len(d[3]) : Drawing(d)[i + 1] = Char(d[3][i])
<1> DEFINE n == Len(d[3])
           s == <<Cursor(Address(d[1], d[2]))>>
           t == [i \in DOMAIN d[3] |-> Char(d[3][i])]
<1>1. /\ n \in Nat /\ DOMAIN d[3] = 1 .. n /\ \A i \in 1 .. n : d[3][i] \in Chars
  BY DrawTyped
<1>2. Address(d[1], d[2]) \in Int
  BY DrawTyped, PositionOfAddress
<1>3. s \in Seq(StreamBytes) /\ Len(s) = 1 /\ s[1] = Cursor(Address(d[1], d[2]))
  BY <1>2 DEF StreamBytes, Cursor
<1>4. \A i \in 1 .. n : Char(d[3][i]) \in StreamBytes
  BY <1>1 DEF StreamBytes, Char
<1>5. t \in Seq(StreamBytes) /\ Len(t) = n /\ \A i \in 1 .. n : t[i] = Char(d[3][i])
  <2>1. t \in [1 .. n -> StreamBytes]
    BY <1>1, <1>4
  <2> QED BY <1>1, <2>1
<1>6. Drawing(d) = s \o t
  BY DEF Drawing
<1> HIDE DEF s, t, n
<1>7. /\ s \o t \in Seq(StreamBytes) /\ Len(s \o t) = n + 1
      /\ (s \o t)[1] = s[1]
      /\ \A i \in 1 .. n : (s \o t)[1 + i] = t[i]
  <2>1. s \in Seq(StreamBytes) /\ t \in Seq(StreamBytes)
    BY <1>3, <1>5
  <2>2. /\ s \o t \in Seq(StreamBytes) /\ Len(s \o t) = Len(s) + Len(t)
        /\ \A i \in 1 .. Len(s) : (s \o t)[i] = s[i]
        /\ \A i \in 1 .. Len(t) : (s \o t)[Len(s) + i] = t[i]
    BY <2>1, JoinedBytes
  <2>3. Len(s) = 1 /\ Len(t) = n /\ 1 \in 1 .. Len(s)
    BY <1>3, <1>5
  <2> QED BY <1>1, <2>2, <2>3
<1>8. ASSUME NEW i \in 1 .. n PROVE Drawing(d)[i + 1] = Char(d[3][i])
  <2>1. i + 1 = 1 + i
    BY <1>1
  <2> QED BY <2>1, <1>5, <1>6, <1>7
<1> QED BY <1>3, <1>6, <1>7, <1>8 DEF n

\* The row that a drawing writes wholly, if it does
Over(d) == IF Len(d[3]) = Cols THEN {d[1]} ELSE {}

\* Wherever its bytes are read, a drawing makes of our screen what it made
\* of the remote's.
LEMMA DrawingSynced ==
  ASSUME NEW d \in Draws, NEW q \in Places, NEW l \in [Rows -> Row]
  PROVE  Redraws(Drawing(d), q, l, Drawn(l, d), {d[1]}, Over(d))
<1> DEFINE n == Len(d[3])
           s == Drawing(d)
           x == d[1]
           y == d[2]
           e == d[3]
           new == Drawn(l, d)
           p == [i \in 1 .. n + 2 |->
                   IF i = 1 THEN q
                   ELSE IF i = n + 2 THEN After(<<x, y + n - 1>>, Char(e[n]))
                   ELSE <<x, y + i - 2>>]
<1>1. /\ n \in Nat /\ n >= 1 /\ x \in Rows /\ y \in Cells /\ y + n <= Cols
      /\ \A i \in 1 .. n : e[i] \in Chars
  <2>1. /\ x \in Rows /\ y \in Cells /\ e \in Seq(Chars)
        /\ n \in Nat \ {0} /\ y + n <= Cols /\ DOMAIN e = 1 .. n
    BY DrawTyped
  <2>2. \A i \in 1 .. n : e[i] \in Chars
    BY <2>1
  <2> QED BY <2>1, <2>2
<1>2. /\ Len(s) = n + 1 /\ s[1] = Cursor(Address(x, y))
      /\ \A i \in 1 .. n : s[i + 1] = Char(e[i])
  BY DrawingBytes
<1>3. /\ new = [l EXCEPT ![x] = [i \in 1 .. Cols |->
                   IF i - y \in 1 .. n THEN e[i - y] ELSE @[i]]]
  BY DrawTyped DEF Drawn
<1> HIDE DEF n, s, x, y, e, new
<1>4. ASSUME NEW i \in 2 .. n + 1 PROVE <<x, y + i - 2>> \in Places
  BY <1>1, ScreenAssumed DEF Places, Cells
<1>5. After(<<x, y + n - 1>>, Char(e[n])) \in Places
  <2>1. <<x, y + n - 1>> \in Places
    BY <1>1, ScreenAssumed DEF Places, Cells
  <2>2. Char(e[n]) \in StreamBytes
    BY <1>1 DEF Char, StreamBytes
  <2> QED BY <2>1, <2>2, AfterTyped
<1> DEFINE z == After(<<x, y + n - 1>>, Char(e[n]))
<1> HIDE DEF z
<1>6. /\ p = [i \in 1 .. n + 2 |-> IF i = 1 THEN q
                   ELSE IF i = n + 2 THEN z ELSE <<x, y + i - 2>>]
      /\ z \in Places
  BY <1>5 DEF z
<1> HIDE DEF p
<1>7. p \in [1 .. n + 2 -> Places]
  <2> SUFFICES ASSUME NEW i \in 1 .. n + 2
      PROVE  (IF i = 1 THEN q ELSE IF i = n + 2 THEN z ELSE <<x, y + i - 2>>) \in Places
    BY <1>6
  <2>1. i = 1 \/ i = n + 2 \/ i \in 2 .. n + 1
    BY <1>1
  <2> QED BY <2>1, <1>4, <1>6
<1>8. p[1] = q /\ p[n + 2] = z
  BY <1>1, <1>6
<1>9. \A i \in 2 .. n + 1 : p[i] = <<x, y + i - 2>>
  BY <1>1, <1>6
<1>10. Follows(s, p, q)
  <2>1. ASSUME NEW i \in 1 .. n + 1 PROVE p[i + 1] = After(p[i], s[i])
    <3>1. CASE i = 1
      <4>1. After(p[i], s[i]) = <<x, y>>
        BY <1>1, <1>2, <3>1, PositionOfAddress DEF After, Cursor
      <4>2. p[2] = <<x, y + 2 - 2>>
        BY <1>1, <1>9
      <4>3. y + 2 - 2 = y
        BY <1>1, ScreenAssumed DEF Cells
      <4> QED BY <3>1, <4>1, <4>2, <4>3
    <3>2. CASE i \in 2 .. n
      <4>1. p[i] = <<x, y + i - 2>> /\ p[i + 1] = <<x, y + (i + 1) - 2>>
        <5>1. i \in 2 .. n + 1 /\ i + 1 \in 2 .. n + 1
          BY <1>1, <3>2
        <5> QED BY <1>9, <5>1
      <4>2. s[i] = Char(e[i - 1])
        <5>1. i - 1 \in 1 .. n /\ (i - 1) + 1 = i
          BY <1>1, <3>2
        <5> QED BY <1>2, <5>1
      <4>3. y + i - 2 # Cols - 1 /\ (y + i - 2) + 1 = y + (i + 1) - 2
        BY <1>1, <3>2, ScreenAssumed DEF Cells
      <4>4. s[i].kind = "char"
        BY <4>2 DEF Char
      <4> QED BY <4>1, <4>3, <4>4 DEF After
    <3>3. CASE i = n + 1
      <4>1. p[i] = <<x, y + (n + 1) - 2>> /\ y + (n + 1) - 2 = y + n - 1
        <5>1. n + 1 \in 2 .. n + 1
          BY <1>1
        <5> QED BY <1>1, <1>9, <3>3, <5>1, ScreenAssumed DEF Cells
      <4>2. s[i] = Char(e[n])
        BY <1>1, <1>2, <3>3
      <4>3. p[i + 1] = z
        <5>1. i + 1 = n + 2
          BY <1>1, <3>3
        <5> QED BY <5>1, <1>8
      <4> QED BY <4>1, <4>2, <4>3 DEF z
    <3> QED BY <1>1, <3>1, <3>2, <3>3
  <2>2. Len(s) + 1 = n + 2
    BY <1>1, <1>2
  <2> QED BY <2>1, <2>2, <1>2, <1>7, <1>8 DEF Follows
<1>11. ASSUME NEW i \in 1 .. n + 1, NEW r \in Rows, NEW c \in 1 .. Cols
       PROVE  Writes(s, p, i, r, c) <=> i # 1 /\ r = x /\ i = (c - y) + 1
  <2>1. CASE i = 1
    <3>1. s[i].kind # "char"
      BY <1>2, <2>1 DEF Cursor
    <3> QED BY <2>1, <3>1 DEF Writes
  <2>2. CASE i # 1
    <3>1. i - 1 \in 1 .. n /\ (i - 1) + 1 = i /\ i \in 2 .. n + 1
      BY <1>1, <2>2
    <3>2. s[i] = Char(e[i - 1])
      BY <1>2, <3>1
    <3>3. s[i].kind = "char"
      BY <3>2 DEF Char
    <3>4. p[i] = <<x, y + i - 2>>
      BY <1>9, <3>1
    <3>5. y + i - 2 = c - 1 <=> i = (c - y) + 1
      BY <1>1, ScreenAssumed DEF Cells
    <3> QED BY <2>2, <3>3, <3>4, <3>5 DEF Writes
  <2> QED BY <2>1, <2>2
<1>12. ASSUME NEW r \in Rows, NEW c \in 1 .. Cols
       PROVE  new[r][c] = IF r = x /\ c - y \in 1 .. n THEN e[c - y] ELSE l[r][c]
  BY <1>1, <1>3
<1>13. Shown(s, p, l, new, Rows)
  <2> SUFFICES ASSUME NEW r \in Rows, NEW c \in 1 .. Cols
      PROVE /\ (\A i \in 1 .. n + 1 : ~Writes(s, p, i, r, c)) => new[r][c] = l[r][c]
            /\ \A i \in 1 .. n + 1 : Writes(s, p, i, r, c) => new[r][c] = s[i].v
    BY <1>2 DEF Shown
  <2>0. c - y \in Int
    BY <1>1, ScreenAssumed DEF Cells
  <2>1. ASSUME \A i \in 1 .. n + 1 : ~Writes(s, p, i, r, c) PROVE new[r][c] = l[r][c]
    <3>1. ASSUME r = x, c - y \in 1 .. n PROVE FALSE
      <4>1. (c - y) + 1 \in 1 .. n + 1 /\ (c - y) + 1 # 1
        BY <1>1, <3>1
      <4> QED BY <1>11, <2>1, <3>1, <4>1
    <3> QED BY <1>12, <3>1
  <2>2. ASSUME NEW i \in 1 .. n + 1, Writes(s, p, i, r, c) PROVE new[r][c] = s[i].v
    <3>1. i # 1 /\ r = x /\ i = (c - y) + 1
      BY <1>11, <2>2
    <3>2. i - 1 = c - y /\ i - 1 \in 1 .. n /\ (i - 1) + 1 = i
      BY <1>1, <2>0, <3>1
    <3>3. s[i] = Char(e[i - 1])
      BY <1>2, <3>2
    <3>4. new[r][c] = e[i - 1]
      BY <1>12, <3>1, <3>2
    <3> QED BY <3>3, <3>4 DEF Char
  <2> QED BY <2>1, <2>2
<1>14. Comes(s, p, {x})
  <2>1. 2 \in 1 .. n + 1 /\ 2 \in 2 .. n + 1 /\ 1 \in 1 .. n /\ 1 + 1 = 2
    BY <1>1
  <2>2. p[2] = <<x, y + 2 - 2>>
    BY <1>9, <2>1
  <2>3. s[2] = Char(e[1])
    BY <1>2, <2>1
  <2>4. s[2].kind = "char" /\ p[2][1] = x
    BY <2>2, <2>3 DEF Char
  <2> QED BY <1>2, <2>1, <2>4 DEF Comes
<1>15. Overwrites(s, p, IF n = Cols THEN {x} ELSE {})
  <2> SUFFICES ASSUME n = Cols, NEW c \in 1 .. Cols
               PROVE  \E i \in 1 .. Len(s) : Writes(s, p, i, x, c)
    BY DEF Overwrites
  <2>1. y = 0 /\ c + 1 \in 1 .. n + 1 /\ c + 1 # 1 /\ c + 1 = (c - y) + 1
    BY <1>1, ScreenAssumed DEF Cells
  <2>2. Writes(s, p, c + 1, x, c)
    BY <1>1, <1>11, <2>1
  <2> QED BY <1>2, <2>1, <2>2
<1>16. Redraws(s, q, l, new, {x}, IF n = Cols THEN {x} ELSE {})
  BY <1>10, <1>13, <1>14, <1>15 DEF Redraws
<1> QED BY <1>16 DEF s, x, new, n, Over

LEMMA DrawSynced ==
  ASSUME NEW s \in Seq(StreamBytes), NEW q, NEW ours, NEW l \in [Rows -> Row],
         NEW rs, NEW rs2, NEW same, NEW same2 \in SUBSET Rows, NEW d \in Draws,
         Synced(s, q, ours, l, same, rs), rs2 \subseteq rs \cup {d[1]},
         same2 \subseteq same \cup Over(d)
  PROVE  Synced(s \o Drawing(d), q, ours, Drawn(l, d), same2, rs2)
<1>1. Drawing(d) \in Seq(StreamBytes)
  BY DrawingBytes
<1>2. \A q2 \in Places : Redraws(Drawing(d), q2, l, Drawn(l, d), {d[1]}, Over(d))
  BY DrawingSynced
<1>3. Synced(s \o Drawing(d), q, ours, Drawn(l, d), same2, rs \cup {d[1]})
  BY <1>1, <1>2, JoinSynced
<1> QED BY <1>3, LessSynced

\* A row drawn whole is shown whatever our rows are and wherever it is read.
LEMMA WholeSynced ==
  ASSUME NEW d \in Draws, Len(d[3]) = Cols, NEW q \in Places,
         NEW ours \in [Rows -> Row], NEW l \in [Rows -> Row]
  PROVE  Synced(Drawing(d), q, ours, Drawn(l, d), {d[1]}, {d[1]})
<1>1. Redraws(Drawing(d), q, ours, Drawn(ours, d), {d[1]}, Over(d))
  BY DrawingSynced
<1>2. Synced(Drawing(d), q, ours, Drawn(ours, d), Rows, {d[1]})
  BY <1>1 DEF Redraws, Synced
<1>3. d[1] \in Rows /\ Drawn(l, d)[d[1]] = Drawn(ours, d)[d[1]]
  <2>1. d[1] \in Rows /\ d[2] \in Cells /\ DOMAIN d[3] = 1 .. Cols /\ d[2] + Cols <= Cols
    BY DrawTyped
  <2>2. d[2] = 0
    BY <2>1, ScreenAssumed DEF Cells
  <2>3. \A i \in 1 .. Cols : i - d[2] \in DOMAIN d[3]
    BY <2>1, <2>2, ScreenAssumed
  <2> DEFINE r == [i \in 1 .. Cols |-> d[3][i - d[2]]]
  <2>4. Drawn(l, d) = [l EXCEPT ![d[1]] = r] /\ Drawn(ours, d) = [ours EXCEPT ![d[1]] = r]
    BY <2>3 DEF Drawn
  <2> HIDE DEF r
  <2> QED BY <2>1, <2>4
<1> QED BY <1>2, <1>3, LessSynced
-----------------------------------------------------------------------------
Bytes(t) == IF t # "3000" THEN StreamBytes ELSE ReportBytes

ScreenTypes ==
  /\ lines \in [Rows -> Row] /\ lcd \in [Rows -> Row]
  /\ row \in Rows /\ col \in Cells
  /\ dirty \subseteq Rows /\ drawn \subseteq Rows
  /\ type \in Types /\ got \in Seq(StreamBytes) /\ uart \in Seq(Bytes(type))

\* Unless its notification was lost, the phone has each row as it was pushed.
PhoneInv == \A r \in Rows \ lost : last[r] # <<>> => CString(phone[r]) = last[r]

\* Rows that were drawn and neither written in this poll nor pushed
Pending == {r \in drawn : r \notin dirty /\ last[r] # CString(lines[r])}

\* The rows that must agree: once astray, only those drawn whole since
Good == IF stray THEN drawn ELSE Rows

\* Reading s next, we would come to show what the remote shows.
InSync(s) == Synced(s, <<row, col>>, lines, lcd, Good, Pending)

\* Whatever is read before it, s draws every row in drawn.
Restores(s) ==
  \A q \in Places, ours \in [Rows -> Row] : Synced(s, q, ours, lcd, drawn, drawn)
Restored ==
  \E skip \in Seq(StreamBytes), rest \in Seq(StreamBytes) :
    uart = skip \o rest /\ Restores(rest)

\* Every drawing starts with an address, and no answer does.
StartsRow(s) == s # <<>> /\ s[1].kind = "cursor"
Received     == got \o uart

\* Before the remote answers, it sends drawings or nothing.
Asking == lines = [r \in Rows |-> NoChars] /\ (Received = <<>> \/ StartsRow(Received))

\* Once it has answered, either a drawing precedes the answer, which is then
\* refused, or drawings follow it.
Answered ==
  /\ attached
  /\ \/ StartsRow(Received)
     \/ \E pre \in {Answer, <<Char(Half1)>>}, rest \in Seq(StreamBytes) :
          Received = pre \o rest /\ InSync(rest) /\ (rest = <<>> \/ StartsRow(rest))

\* A row is in drawn after bytes went astray only when it was drawn whole
\* since, and the bytes that draw it are still to come or have been read.
StreamInv ==
  Shows =>
    /\ session = "asked" /\ ~stray => IF asked THEN Asking ELSE Answered
    /\ session \in {"verified", "greeted", "open"} /\ ~stray => ~asked /\ attached /\ InSync(uart)
    /\ session \in {"asked", "verified", "greeted"} /\ stray => drawn = {}
    /\ session = "open" /\ stray /\ drawn # {} => attached /\ (InSync(uart) \/ Restored)

DirtyInPoll == dirty # {} => session = "open" /\ Shows /\ turn = "screen"

\* Which remotes are asked for what, and how much of an answer was read
OpeningInv ==
  /\ session = "asked" => Shows /\ Len(got) < Len(Answer)
  /\ session = "sync" => ~Shows

LcdInv == ScreenTypes /\ PhoneInv /\ DirtyInPoll /\ OpeningInv /\ StreamInv

LEMMA BlankTyped == NoChars \in Row /\ [r \in Rows |-> NoChars] \in [Rows -> Row]
BY TerminalAssumption DEF TerminalAssumption, NoChars, Row

LEMMA AnswerTyped ==
  /\ Answer \in Seq(StreamBytes) /\ <<Char(Half1)>> \in Seq(StreamBytes)
  /\ Len(Answer) = 2 /\ Answer[1] = Char(Half1) /\ Answer[2] = Char(Half2)
  /\ Len(<<Char(Half1)>>) = 1 /\ <<Char(Half1)>>[1] = Char(Half1)
<1>1. Char(Half1) \in StreamBytes /\ Char(Half2) \in StreamBytes
  BY TerminalAssumption DEF TerminalAssumption, Char, StreamBytes
<1> QED BY <1>1 DEF Answer

\* What is left when n bytes are taken
LEMMA Taken ==
  ASSUME NEW S, NEW s \in Seq(S), NEW n \in 0 .. Len(s)
  PROVE  /\ SubSeq(s, n + 1, Len(s)) \in Seq(S)
         /\ SubSeq(s, 1, n) \in Seq(S) /\ Len(SubSeq(s, 1, n)) = n
         /\ n = 0 => SubSeq(s, n + 1, Len(s)) = s
         /\ SubSeq(s, 1, n) \o SubSeq(s, n + 1, Len(s)) = s
<1> DEFINE a == SubSeq(s, 1, n)
           b == SubSeq(s, n + 1, Len(s))
           L == Len(s)
<1>1. /\ a \in Seq(S) /\ Len(a) = n /\ \A i \in 1 .. n : a[i] = s[i]
      /\ L \in Nat /\ n \in 0 .. L
  OBVIOUS
<1>2. /\ b \in Seq(S) /\ Len(b) = L - n /\ \A i \in 1 .. L - n : b[i] = s[n + i]
  OBVIOUS
<1> HIDE DEF a, b, L
<1>3. /\ a \o b \in Seq(S) /\ Len(a \o b) = Len(a) + Len(b)
      /\ \A i \in 1 .. Len(a) + Len(b) :
           (a \o b)[i] = IF i <= Len(a) THEN a[i] ELSE b[i - Len(a)]
  BY <1>1, <1>2, ConcatProperties
<1>4. ASSUME NEW i \in 1 .. L PROVE (a \o b)[i] = s[i]
  <2>1. CASE i <= n
    BY <1>1, <1>2, <1>3, <2>1
  <2>2. CASE ~(i <= n)
    <3>1. i - n \in 1 .. L - n /\ n + (i - n) = i
      BY <1>1, <2>2
    <3>2. (a \o b)[i] = b[i - n]
      BY <1>1, <1>2, <1>3, <2>2
    <3> QED BY <1>2, <3>1, <3>2
  <2> QED BY <2>1, <2>2
<1>5. Len(a \o b) = L
  BY <1>1, <1>2, <1>3
<1>6. a \o b = s
  BY <1>3, <1>4, <1>5, SeqEqual DEF L
<1>7. ASSUME n = 0 PROVE b = s
  <2>1. L - n = L /\ \A i \in 1 .. L : n + i = i
    BY <1>1, <1>7
  <2>2. Len(b) = L /\ \A i \in 1 .. L : b[i] = s[i]
    BY <1>2, <2>1
  <2> QED BY <1>2, <2>2, SeqEqual DEF L
<1> QED BY <1>1, <1>2, <1>6, <1>7 DEF a, b, L

LEMMA PushesPhone == ASSUME PhoneInv, NEW rs, Pushes(rs) PROVE PhoneInv'
<1>1. PICK gone \in SUBSET rs :
        /\ phone' = [r \in Rows |-> IF r \in rs \ gone THEN lines'[r] ELSE phone[r]]
        /\ lost'  = (lost \ rs) \cup gone
  BY DEF Pushes, Notify
<1>2. last' = [r \in Rows |-> IF r \in rs THEN CString(lines'[r]) ELSE last[r]]
  BY DEF Pushes
<1> SUFFICES ASSUME NEW r \in Rows \ lost', last'[r] # <<>>
             PROVE  CString(phone'[r]) = last'[r]
  BY DEF PhoneInv
<1>3. CASE r \in rs
  BY <1>1, <1>2, <1>3
<1>4. CASE r \notin rs
  BY <1>1, <1>2, <1>4 DEF PhoneInv
<1> QED BY <1>3, <1>4

LEMMA PhoneKept == ASSUME PhoneInv, UNCHANGED <<last, phone, lost>> PROVE PhoneInv'
BY DEF PhoneInv

LEMMA PhoneNext == PhoneInv /\ [TerminalNext]_allVars => PhoneInv'
<1> SUFFICES ASSUME PhoneInv, [TerminalNext]_allVars PROVE PhoneInv'
  OBVIOUS
<1>1. CASE Remote
  BY <1>1, PhoneKept DEF Remote, RemoteAnswers, RemoteReports, RemoteDraws, screen
<1>2. CASE Phone
  BY <1>2, PhoneKept DEF Phone, screen
<1>3. CASE Closes
  BY <1>3, PhoneKept DEF Closes, screen
<1>4. ASSUME NEW t \in Types, NEW w \in BOOLEAN, Opens(t, w) PROVE PhoneInv'
  BY <1>4 DEF Opens, DisplayInit, PhoneInv
<1>5. CASE \E n \in 0 .. Len(uart) : ReadsAnswer(n)
  BY <1>5, PhoneKept DEF ReadsAnswer, screen
<1>6. CASE Greets
  BY <1>6, PhoneKept DEF Greets, screen
<1>7. CASE Syncs \/ ReadsReport
  <2>1. PICK ls, force : PushRows(ls, force)
    BY <1>7 DEF Syncs, ReadsReport
  <2>2. PICK rs : Pushes(rs)
    BY <2>1 DEF PushRows
  <2> QED BY <2>2, PushesPhone
<1>8. CASE KeysOfStream \/ KeysOf3000
  BY <1>8, PhoneKept DEF KeysOfStream, KeysOf3000, screen
<1>9. CASE ShowsByte
  BY <1>9, PhoneKept DEF ShowsByte, Put
<1>10. CASE ShowsRows
  <2>1. PICK rs : Pushes(rs)
    BY <1>10 DEF ShowsRows, EndPoll
  <2> QED BY <2>1, PushesPhone
<1>11. CASE AsksReport \/ NoReport
  BY <1>11, PhoneKept DEF AsksReport, NoReport, screen
<1>12. CASE UNCHANGED allVars
  BY <1>12, PhoneKept DEF allVars, screen
<1> QED BY <1>1, <1>2, <1>3, <1>4, <1>5, <1>6, <1>7, <1>8, <1>9, <1>10, <1>11, <1>12
           DEF TerminalNext, Task, OpenStep, PollStep
-----------------------------------------------------------------------------
LEMMA Puts ==
  ASSUME row \in Rows, col \in Cells, lines \in [Rows -> Row], dirty \subseteq Rows,
         NEW b \in StreamBytes, Put(b)
  PROVE  /\ <<row', col'>> = After(<<row, col>>, b) /\ row' \in Rows /\ col' \in Cells
         /\ lines' = IF b.kind = "cursor" THEN lines
                     ELSE [lines EXCEPT ![row][col + 1] = b.v]
         /\ lines' \in [Rows -> Row]
         /\ dirty' = IF b.kind = "cursor" THEN dirty ELSE dirty \cup {row}
         /\ UNCHANGED <<last, phone, lost>>
<1>1. CASE b.kind = "cursor"
  <2>1. Position(b.v) \in Places
    BY <1>1, PositionTyped DEF StreamBytes
  <2>2. row' = Position(b.v)[1] /\ col' = Position(b.v)[2] /\ UNCHANGED <<lines, dirty>>
    BY <1>1 DEF Put
  <2>3. <<row', col'>> = Position(b.v) /\ row' \in Rows /\ col' \in Cells
    BY <2>1, <2>2 DEF Places
  <2> QED BY <1>1, <2>2, <2>3 DEF After, Put
<1>2. CASE b.kind # "cursor"
  <2>1. /\ lines' = [lines EXCEPT ![row][col + 1] = b.v]
        /\ dirty' = dirty \cup {row}
        /\ col' = (col + 1) % Cols
        /\ row' = IF col' = 0 THEN (row + 1) % 4 ELSE row
    BY <1>2 DEF Put
  <2>2. (col + 1) % Cols = IF col = Cols - 1 THEN 0 ELSE col + 1
    BY ScreenAssumed DEF Cells
  <2>3. col' = 0 <=> col = Cols - 1
    BY <2>1, <2>2, ScreenAssumed DEF Cells
  <2>4. <<row', col'>> = After(<<row, col>>, b)
    BY <1>2, <2>1, <2>2, <2>3 DEF After
  <2>5. row' \in Rows /\ col' \in Cells
    BY <2>1, <2>2, ScreenAssumed DEF Rows, Cells
  <2>6. b.v \in Chars
    BY <1>2 DEF StreamBytes
  <2>7. lines' \in [Rows -> Row]
    BY <2>1, <2>6, ScreenAssumed DEF Row, Cells
  <2> QED BY <1>2, <2>1, <2>4, <2>5, <2>7 DEF Put
<1> QED BY <1>1, <1>2

LEMMA PushedTyped ==
  ASSUME ScreenTypes, NEW ls, NEW force, PushRows(ls, force),
         DOMAIN ls = Reports, \A r \in Reports : ls[r] \in Row
  PROVE  lines' \in [Rows -> Row] /\ UNCHANGED <<row, col, dirty>>
<1>1. ASSUME NEW l \in Row PROVE Printable(l) \in Row
  BY TerminalAssumption DEF TerminalAssumption, Printable, Row
<1>2. \A r \in Reports : Printable(ls[r]) \in Row
  BY <1>1
<1>3. lines' = [r \in Rows |-> IF r \in Reports THEN Printable(ls[r]) ELSE lines[r]]
  BY DEF PushRows
<1> QED BY <1>2, <1>3 DEF PushRows, ScreenTypes

LEMMA DrawnTyped ==
  ASSUME NEW l \in [Rows -> Row], NEW d \in Draws PROVE Drawn(l, d) \in [Rows -> Row]
<1>1. \A i \in DOMAIN d[3] : d[3][i] \in Chars
  BY DrawTyped
<1>2. d[1] \in Rows
  BY DrawTyped
<1> DEFINE new == [i \in 1 .. Cols |-> IF i - d[2] \in DOMAIN d[3] THEN d[3][i - d[2]] ELSE l[d[1]][i]]
<1>3. new \in Row
  BY <1>1, <1>2 DEF Row
<1>4. Drawn(l, d) = [l EXCEPT ![d[1]] = new]
  BY DEF Drawn
<1> HIDE DEF new
<1> QED BY <1>3, <1>4

\* What RemoteDraws does, in the terms of these proofs
LEMMA Draw ==
  ASSUME ScreenTypes, NEW d \in Draws, RemoteDraws(d)
  PROVE  /\ lcd' = Drawn(lcd, d)
         /\ drawn' = IF stray => WholeRow(d) THEN drawn \cup {d[1]} ELSE drawn
         /\ uart' = IF Shows /\ attached THEN uart \o Drawing(d) ELSE uart
         /\ UNCHANGED <<keys, screen, task, asked, attached, stray>>
<1>1. lcd' = Drawn(lcd, d)
  BY DEF RemoteDraws, Drawn
<1>2. ASSUME Shows, attached PROVE uart' = uart \o Drawing(d)
  <2> DEFINE c == <<Cursor(Address(d[1], d[2]))>>
             t == [i \in DOMAIN d[3] |-> Char(d[3][i])]
  <2>1. uart' = (uart \o c) \o t
    BY <1>2 DEF RemoteDraws
  <2>2. c \in Seq(StreamBytes)
    BY DrawTyped, PositionOfAddress DEF StreamBytes, Cursor
  <2>3. t \in Seq(StreamBytes)
    <3>1. \A i \in 1 .. Len(d[3]) : d[3][i] \in Chars
      BY DrawTyped
    <3>2. t \in [1 .. Len(d[3]) -> StreamBytes] /\ Len(d[3]) \in Nat
      BY <3>1, DrawTyped DEF StreamBytes, Char
    <3> QED BY <3>2
  <2>4. uart \in Seq(StreamBytes)
    BY <1>2 DEF ScreenTypes, Bytes, Shows
  <2>5. Drawing(d) = c \o t
    BY DEF Drawing
  <2> HIDE DEF c, t
  <2> QED BY <2>1, <2>2, <2>3, <2>4, <2>5, ConcatAssociative
<1> QED BY <1>1, <1>2 DEF RemoteDraws

\* Taking, dropping or leaving bytes of uart keeps its type.
LEMMA TakesTyped ==
  ASSUME ScreenTypes, NEW n \in 0 .. Len(uart), Takes(n)
  PROVE  uart' \in Seq(Bytes(type)) /\ (n = 0 => uart' = uart)
<1>1. uart \in Seq(Bytes(type))
  BY DEF ScreenTypes
<1> QED BY <1>1, Taken DEF Takes

LEMMA DropsTyped ==
  ASSUME ScreenTypes, Drops
  PROVE  /\ uart' \in Seq(Bytes(type)) /\ drawn' \subseteq Rows
         /\ (uart' = uart /\ UNCHANGED known) \/ Strays
<1>1. PICK n \in 0 .. Len(uart) : Takes(n) /\ IF n > 0 THEN Strays ELSE UNCHANGED known
  BY DEF Drops
<1>2. ~(n > 0) => n = 0
  OBVIOUS
<1>3. uart' \in Seq(Bytes(type)) /\ (n = 0 => uart' = uart)
  BY <1>1, TakesTyped
<1>4. drawn' \subseteq Rows
  BY <1>1 DEF Strays, known, ScreenTypes
<1> QED BY <1>1, <1>2, <1>3, <1>4

LEMMA TypesKept ==
  ASSUME ScreenTypes, UNCHANGED <<lines, lcd, row, col, dirty, drawn, type, got, uart>>
  PROVE  ScreenTypes'
BY DEF ScreenTypes

LEMMA RemoteTypes == ASSUME LcdInv, Remote PROVE ScreenTypes'
<1> USE DEF LcdInv, screen, task
<1>1. CASE RemoteAnswers
  <2>1. PICK bytes \in {Answer, <<Char(Half1)>>} : uart' = uart \o bytes
    BY <1>1 DEF RemoteAnswers
  <2>2. bytes \in Seq(StreamBytes)
    BY AnswerTyped
  <2>3. uart \in Seq(StreamBytes) /\ Bytes(type) = StreamBytes
    BY <1>1 DEF RemoteAnswers, ScreenTypes, Bytes, Shows
  <2>4. uart' \in Seq(Bytes(type))
    BY <2>1, <2>2, <2>3, ConcatProperties
  <2> QED BY <1>1, <2>4, BlankTyped DEF RemoteAnswers, ScreenTypes
<1>2. CASE RemoteReports
  <2>1. [r \in Reports |-> lcd[r]] \in [Reports -> Row]
    BY DEF ScreenTypes, Reports, Rows
  <2>2. Report([r \in Reports |-> lcd[r]]) \in ReportBytes
    BY <2>1 DEF Report, ReportBytes
  <2>3. uart \in Seq(ReportBytes) /\ Bytes(type) = ReportBytes
    BY <1>2 DEF RemoteReports, ScreenTypes, Bytes, Shows
  <2>4. uart' \in Seq(Bytes(type))
    BY <1>2, <2>2, <2>3, AppendProperties DEF RemoteReports
  <2> QED BY <1>2, <2>4 DEF RemoteReports, ScreenTypes, known
<1>3. ASSUME NEW d \in Draws, RemoteDraws(d) PROVE ScreenTypes'
  <2>1. /\ lcd' = Drawn(lcd, d)
        /\ drawn' = IF stray => WholeRow(d) THEN drawn \cup {d[1]} ELSE drawn
        /\ uart' = IF Shows /\ attached THEN uart \o Drawing(d) ELSE uart
        /\ UNCHANGED <<keys, screen, task, asked, attached, stray>>
    BY <1>3, Draw
  <2>2. lcd' \in [Rows -> Row]
    BY <2>1, DrawnTyped DEF ScreenTypes
  <2>3. drawn' \subseteq Rows
    BY <2>1, DrawTyped DEF ScreenTypes
  <2>4. uart' \in Seq(Bytes(type))
    <3>1. CASE Shows /\ attached
      <4>1. uart \in Seq(StreamBytes) /\ Bytes(type) = StreamBytes
        BY <3>1 DEF ScreenTypes, Bytes, Shows
      <4>2. uart \o Drawing(d) \in Seq(StreamBytes)
        BY <4>1, DrawingBytes, ConcatProperties
      <4> QED BY <2>1, <3>1, <4>1, <4>2
    <3>2. CASE ~(Shows /\ attached)
      BY <2>1, <3>2 DEF ScreenTypes
    <3> QED BY <3>1, <3>2
  <2> QED BY <2>1, <2>2, <2>3, <2>4 DEF ScreenTypes
<1> QED BY <1>1, <1>2, <1>3 DEF Remote

LEMMA OpensTypes ==
  ASSUME LcdInv, NEW t \in Types, NEW w \in BOOLEAN, Opens(t, w) PROVE ScreenTypes'
<1>1. uart' \in Seq(Bytes(t))
  <2>1. CASE t # "3000" /\ Shows
    <3>1. PICK n \in 0 .. Len(uart) : Takes(n)
      BY <2>1 DEF Opens
    <3> QED BY <2>1, <3>1, TakesTyped DEF LcdInv, Bytes, Shows
  <2>2. CASE ~(t # "3000" /\ Shows)
    <3>1. uart' = <<>>
      BY <2>2 DEF Opens
    <3> QED BY <3>1
  <2> QED BY <2>1, <2>2
<1> QED BY <1>1, BlankTyped DEF Opens, DisplayInit, LcdInv, ScreenTypes

LEMMA AnswerTypes ==
  ASSUME LcdInv, NEW n \in 0 .. Len(uart), ReadsAnswer(n) PROVE ScreenTypes'
<1>1. uart \in Seq(StreamBytes) /\ got \in Seq(StreamBytes) /\ uart' \in Seq(Bytes(type))
  BY TakesTyped DEF LcdInv, OpeningInv, ScreenTypes, ReadsAnswer, Bytes, Shows
<1>2. SubSeq(uart, 1, n) \in Seq(StreamBytes)
  BY <1>1, Taken
<1>3. got \o SubSeq(uart, 1, n) \in Seq(StreamBytes)
  BY <1>1, <1>2, ConcatProperties
<1>4. got' \in Seq(StreamBytes)
  <2>1. got' \in {got \o SubSeq(uart, 1, n), <<>>}
    BY DEF ReadsAnswer, HandshakeGoesOn
  <2>2. <<>> \in Seq(StreamBytes)
    OBVIOUS
  <2> QED BY <1>3, <2>1, <2>2, Zenon
<1>5. drawn' \subseteq Rows
  BY DEF ReadsAnswer, HandshakeGoesOn, Strays, known, LcdInv, ScreenTypes
<1> QED BY <1>1, <1>4, <1>5 DEF LcdInv, ScreenTypes, ReadsAnswer, screen, remote

LEMMA ReportTypes ==
  ASSUME LcdInv, Syncs \/ ReadsReport
  PROVE  ScreenTypes' /\ ~Shows /\ dirty' = dirty
<1>1. ~Shows /\ UNCHANGED <<type, got, lcd, drawn>>
  BY DEF LcdInv, OpeningInv, Syncs, ReadsReport, remote, known
<1>2. uart \in Seq(ReportBytes)
  BY <1>1 DEF LcdInv, ScreenTypes, Bytes, Shows
<1>3. CASE \E n \in 1 .. Len(uart), force \in BOOLEAN : Reads(n) /\ PushRows(uart[1].v, force)
  <2>1. PICK n \in 1 .. Len(uart), force \in BOOLEAN : Reads(n) /\ PushRows(uart[1].v, force)
    BY <1>3
  <2>2. uart[1].v \in [Reports -> Row]
    <3>1. uart[1] \in ReportBytes
      BY <1>2, <2>1
    <3> QED BY <3>1 DEF ReportBytes
  <2>3. lines' \in [Rows -> Row] /\ UNCHANGED <<row, col, dirty>>
    BY <2>1, <2>2, PushedTyped DEF LcdInv
  <2>4. n \in 0 .. Len(uart) /\ Takes(n)
    BY <1>2, <2>1 DEF Reads
  <2>5. uart' \in Seq(Bytes(type))
    BY <2>4, TakesTyped DEF LcdInv
  <2> QED BY <1>1, <2>3, <2>5 DEF LcdInv, ScreenTypes
<1>4. CASE UNCHANGED uart /\ PushRows([r \in Reports |-> NoChars], TRUE)
  <2>1. lines' \in [Rows -> Row] /\ UNCHANGED <<row, col, dirty>>
    <3> DEFINE ls == [r \in Reports |-> NoChars]
    <3>1. DOMAIN ls = Reports /\ \A r \in Reports : ls[r] \in Row
      BY BlankTyped
    <3> HIDE DEF ls
    <3> QED BY <1>4, <3>1, PushedTyped DEF LcdInv, ls
  <2> QED BY <1>1, <1>4, <2>1 DEF LcdInv, ScreenTypes
<1> QED BY <1>3, <1>4 DEF Syncs, ReadsReport

LEMMA ByteTypes == ASSUME LcdInv, ShowsByte PROVE ScreenTypes'
<1>1. uart \in Seq(StreamBytes) /\ uart # <<>> /\ Put(uart[1]) /\ uart' = Tail(uart)
  BY DEF LcdInv, ScreenTypes, ShowsByte, Bytes, Shows
<1>2. uart[1] \in StreamBytes /\ uart' \in Seq(StreamBytes)
  BY <1>1
<1>3. row' \in Rows /\ col' \in Cells /\ lines' \in [Rows -> Row] /\ dirty' \subseteq Rows
  BY <1>1, <1>2, Puts DEF LcdInv, ScreenTypes
<1> QED BY <1>2, <1>3 DEF LcdInv, ScreenTypes, ShowsByte, task, remote, known, Bytes, Shows

LEMMA ScreenTypesNext == LcdInv /\ [TerminalNext]_allVars => ScreenTypes'
<1> SUFFICES ASSUME LcdInv, [TerminalNext]_allVars PROVE ScreenTypes'
  OBVIOUS
<1>0. ScreenTypes
  BY DEF LcdInv
<1>1. CASE Remote
  BY <1>1, RemoteTypes
<1>2. CASE Phone \/ KeysOfStream \/ KeysOf3000 \/ NoReport \/ UNCHANGED allVars
  BY <1>0, <1>2, TypesKept
     DEF Phone, KeysOfStream, KeysOf3000, NoReport, allVars, screen, task, remote, known
<1>3. CASE Closes
  <2>1. uart' \in Seq(Bytes(type)) /\ drawn' \subseteq Rows
    <3>1. Drops \/ (uart' = <<>> /\ drawn' = {})
      BY <1>3 DEF Closes
    <3>2. <<>> \in Seq(Bytes(type))
      OBVIOUS
    <3> QED BY <1>0, <3>1, <3>2, DropsTyped, Zenon
  <2> QED BY <1>0, <1>3, <2>1, BlankTyped DEF Closes, ScreenTypes, screen
<1>4. ASSUME NEW t \in Types, NEW w \in BOOLEAN, Opens(t, w) PROVE ScreenTypes'
  BY <1>4, OpensTypes
<1>5. CASE \E n \in 0 .. Len(uart) : ReadsAnswer(n)
  BY <1>5, AnswerTypes
<1>6. CASE Greets
  BY <1>0, <1>6, DropsTyped DEF Greets, ScreenTypes, screen, remote
<1>7. CASE Syncs \/ ReadsReport
  BY <1>7, ReportTypes
<1>8. CASE ShowsByte
  BY <1>8, ByteTypes
<1>9. CASE ShowsRows
  BY <1>0, <1>9 DEF ShowsRows, EndPoll, ScreenTypes, remote, known
<1>10. CASE AsksReport
  <2>1. uart' \in Seq(Bytes(type))
    <3>1. (\E n \in 0 .. Len(uart) : Takes(n)) \/ uart' = uart
      BY <1>10 DEF AsksReport
    <3> QED BY <1>0, <3>1, TakesTyped DEF ScreenTypes
  <2> QED BY <1>0, <1>10, <2>1 DEF AsksReport, ScreenTypes, screen, known
<1> QED BY <1>1, <1>2, <1>3, <1>4, <1>5, <1>6, <1>7, <1>8, <1>9, <1>10
           DEF TerminalNext, Task, OpenStep, PollStep
-----------------------------------------------------------------------------
RestInv == DirtyInPoll /\ OpeningInv /\ StreamInv

\* What follows the first byte does not matter to StartsRow.
LEMMA StartsJoined ==
  ASSUME NEW s \in Seq(StreamBytes), NEW t \in Seq(StreamBytes), StartsRow(s)
  PROVE  StartsRow(s \o t)
<1>1. Len(s) \in Nat /\ Len(s) > 0 /\ Len(t) \in Nat
  BY DEF StartsRow
<1>2. Len(s \o t) = Len(s) + Len(t) /\ (s \o t)[1] = s[1]
  <2>1. 1 \in 1 .. Len(s)
    BY <1>1
  <2> QED BY <2>1, JoinedBytes
<1>3. s \o t # <<>>
  BY <1>1, <1>2
<1> QED BY <1>2, <1>3 DEF StartsRow

LEMMA DrawingStarts == ASSUME NEW d \in Draws PROVE StartsRow(Drawing(d))
<1>1. Len(Drawing(d)) = Len(d[3]) + 1 /\ Drawing(d)[1] = Cursor(Address(d[1], d[2]))
  BY DrawingBytes
<1>2. Len(d[3]) \in Nat
  BY DrawTyped
<1>3. Drawing(d) # <<>>
  BY <1>1, <1>2
<1> QED BY <1>1, <1>3 DEF StartsRow, Cursor

LEMMA Untouched ==
  ASSUME LcdInv,
         UNCHANGED <<session, type, got, uart, lines, last, row, col, dirty, lcd, drawn,
                     asked, attached, stray>>,
         dirty # {} => turn' = turn
  PROVE  RestInv'
<1>1. DirtyInPoll' /\ OpeningInv'
  BY DEF LcdInv, DirtyInPoll, OpeningInv, Shows, Answer
<1>2. /\ Asking' = Asking /\ Answered' = Answered /\ InSync(uart)' = InSync(uart)
      /\ Restored' = Restored
  BY DEF Asking, Answered, InSync, Good, Pending, Received, Restored, Restores
<1>3. StreamInv'
  BY <1>2 DEF LcdInv, StreamInv, Shows
<1> QED BY <1>1, <1>3 DEF RestInv

LEMMA OtherRemote ==
  ASSUME LcdInv, ~Shows, UNCHANGED <<type, dirty>>, session' # "asked" PROVE RestInv'
BY DEF LcdInv, DirtyInPoll, OpeningInv, StreamInv, Shows, RestInv

LEMMA Ended == ASSUME session' = "closed", dirty' = {} PROVE RestInv'
BY DEF DirtyInPoll, OpeningInv, StreamInv, RestInv

\* Bytes that go astray leave nothing to be shown.
LEMMA Strayed ==
  ASSUME Strays, dirty' = {}, session' \in {"verified", "greeted", "open"} PROVE RestInv'
BY DEF Strays, DirtyInPoll, OpeningInv, StreamInv, RestInv

LEMMA OpensRest ==
  ASSUME LcdInv, NEW t \in Types, NEW w \in BOOLEAN, Opens(t, w) PROVE RestInv'
<1>1. /\ session = "closed" /\ type' = t /\ got' = <<>> /\ drawn' = {}
      /\ session' = (IF ~w THEN "open" ELSE IF t = "3000" THEN "sync" ELSE "asked")
      /\ asked' = (w \/ (asked /\ Shows /\ t # "3000"))
      /\ stray' = (uart' # <<>> \/ (t # "3000" /\ ~w))
      /\ lines' = [r \in Rows |-> NoChars] /\ dirty' = dirty
  BY DEF Opens, DisplayInit
<1>2. dirty' = {}
  BY <1>1 DEF LcdInv, DirtyInPoll
<1>3. OpeningInv'
  BY <1>1, AnswerTyped DEF OpeningInv, Shows, Answer
<1> SUFFICES StreamInv'
  BY <1>2, <1>3 DEF RestInv, DirtyInPoll
<1>4. CASE ~w \/ t = "3000"
  BY <1>1, <1>4 DEF StreamInv, Shows
<1>5. CASE w /\ t # "3000"
  <2>1. session' = "asked" /\ asked' /\ (~stray' => uart' = <<>>)
    BY <1>1, <1>5
  <2>2. uart' = <<>> => Received' = <<>>
    BY <1>1 DEF Received
  <2>3. ~stray' => Asking'
    BY <1>1, <2>1, <2>2 DEF Asking
  <2> QED BY <1>1, <2>1, <2>3 DEF StreamInv
<1> QED BY <1>4, <1>5

LEMMA AnswersRest == ASSUME LcdInv, RemoteAnswers PROVE RestInv'
<1>1. /\ asked /\ Shows /\ asked' = FALSE /\ attached' = TRUE
      /\ lcd' = [r \in Rows |-> NoChars] /\ drawn' = {}
      /\ stray' = (stray \/ session # "asked")
      /\ UNCHANGED <<session, type, turn, got, lines, last, row, col, dirty>>
  BY DEF RemoteAnswers, screen, task
<1>2. PICK bytes \in {Answer, <<Char(Half1)>>} : uart' = uart \o bytes
  BY DEF RemoteAnswers
<1>3. bytes \in Seq(StreamBytes) /\ uart \in Seq(StreamBytes) /\ got \in Seq(StreamBytes)
  BY <1>1, AnswerTyped DEF LcdInv, ScreenTypes, Bytes, Shows
<1>4. DirtyInPoll' /\ OpeningInv'
  BY <1>1 DEF LcdInv, DirtyInPoll, OpeningInv, Shows, Answer
<1> SUFFICES StreamInv'
  BY <1>4 DEF RestInv
<1>5. CASE session # "asked" \/ stray
  <2>1. stray'
    BY <1>1, <1>5, Zenon
  <2> QED BY <1>1, <2>1 DEF StreamInv
<1>6. CASE session = "asked" /\ ~stray
  <2>0. ~asked' /\ ~stray' /\ session' = "asked"
    BY <1>1, <1>6
  <2>1. Asking
    BY <1>1, <1>6 DEF LcdInv, StreamInv
  <2>2. Received' = Received \o bytes /\ Received \in Seq(StreamBytes)
    BY <1>1, <1>2, <1>3, ConcatAssociative, ConcatProperties, SMTT(20) DEF Received
  <2>3. CASE StartsRow(Received)
    <3>1. StartsRow(Received)'
      BY <1>3, <2>2, <2>3, StartsJoined DEF StartsRow
    <3>2. Answered'
      BY <1>1, <3>1 DEF Answered
    <3> QED BY <2>0, <3>2 DEF StreamInv
  <2>4. CASE Received = <<>>
    <3>1. Received' = bytes \o <<>>
      BY <1>3, <2>2, <2>4
    <3>2. /\ Pending' = {} /\ <<row, col>> \in Places /\ lines' = lcd' /\ Good' = Rows
      BY <1>1, <2>0, <2>1 DEF Pending, Asking, LcdInv, ScreenTypes, Places, Good
    <3>3. Synced(<<>>, <<row', col'>>, lines', lcd', Good', Pending')
      BY <1>1, <3>2, NothingSynced
    <3>4. InSync(<<>>)'
      BY <3>3 DEF InSync
    <3>5. bytes \in {Answer', <<Char(Half1)>>'} /\ <<>> \in Seq(StreamBytes)
      BY DEF Answer
    <3>6. Answered'
      BY <1>1, <3>1, <3>4, <3>5 DEF Answered
    <3> QED BY <2>0, <3>6 DEF StreamInv
  <2> QED BY <2>1, <2>3, <2>4 DEF Asking
<1> QED BY <1>5, <1>6

\* The rows that must agree after a drawing did before, or are drawn by it.
LEMMA DrawnGood ==
  ASSUME LcdInv, NEW d \in Draws, RemoteDraws(d)
  PROVE  /\ Good' \subseteq Rows /\ Good' \subseteq Good \cup Over(d)
         /\ Pending' \subseteq Pending \cup {d[1]}
<1>1. /\ drawn' = IF stray => WholeRow(d) THEN drawn \cup {d[1]} ELSE drawn
      /\ UNCHANGED <<lines, last, dirty, stray>>
  BY Draw DEF LcdInv, screen
<1>2. d[1] \in Rows /\ drawn \subseteq Rows
  BY DrawTyped DEF LcdInv, ScreenTypes
<1>3. Pending' \subseteq Pending \cup {d[1]}
  BY <1>1 DEF Pending
<1>4. CASE ~stray
  BY <1>1, <1>3, <1>4 DEF Good
<1>5. CASE stray
  <2>1. Good = drawn /\ Good' = drawn'
    BY <1>1, <1>5 DEF Good
  <2>2. drawn' \subseteq drawn \cup Over(d)
    BY <1>1, <1>5 DEF WholeRow, Over
  <2>3. drawn' \subseteq Rows
    BY <1>1, <1>2
  <2> QED BY <1>3, <2>1, <2>2, <2>3
<1> QED BY <1>4, <1>5

\* A drawing keeps what is restored, and a whole row is restored by itself.
LEMMA DrawRestored ==
  ASSUME LcdInv, NEW d \in Draws, stray, uart \in Seq(StreamBytes),
         lcd' = Drawn(lcd, d), uart' = uart \o Drawing(d),
         \/ drawn' = drawn /\ Restored
         \/ Len(d[3]) = Cols /\ drawn' = drawn \cup {d[1]} /\ (drawn = {} \/ Restored)
  PROVE  Restored'
<1>1. /\ Drawing(d) \in Seq(StreamBytes) /\ d[1] \in Rows
      /\ lcd \in [Rows -> Row] /\ drawn \subseteq Rows /\ drawn' \subseteq Rows
  BY DrawingBytes, DrawTyped DEF LcdInv, ScreenTypes
<1>2. ASSUME NEW skip \in Seq(StreamBytes), NEW rest \in Seq(StreamBytes),
             uart = skip \o rest, Restores(rest),
             drawn' \subseteq drawn \cup Over(d), drawn' \subseteq drawn \cup {d[1]}
      PROVE  Restored'
  <2>1. uart' = skip \o (rest \o Drawing(d)) /\ rest \o Drawing(d) \in Seq(StreamBytes)
    BY <1>1, <1>2, ConcatAssociative, ConcatProperties, SMTT(20)
  <2>2. ASSUME NEW q \in Places, NEW ours \in [Rows -> Row]
        PROVE  Synced(rest \o Drawing(d), q, ours, lcd', drawn', drawn')
    <3>1. Synced(rest, q, ours, lcd, drawn, drawn)
      BY <1>2 DEF Restores
    <3>2. Synced(rest \o Drawing(d), q, ours, Drawn(lcd, d), drawn', drawn')
      BY <1>1, <1>2, <3>1, DrawSynced
    <3> QED BY <3>2
  <2>3. Restores(rest \o Drawing(d))'
    BY <2>2 DEF Restores
  <2> QED BY <2>1, <2>3 DEF Restored
<1>3. CASE Restored
  <2>1. PICK skip \in Seq(StreamBytes), rest \in Seq(StreamBytes) :
          uart = skip \o rest /\ Restores(rest)
    BY <1>3 DEF Restored
  <2>2. drawn' \subseteq drawn \cup Over(d) /\ drawn' \subseteq drawn \cup {d[1]}
    BY DEF Over
  <2> QED BY <1>2, <2>1, <2>2
<1>4. CASE Len(d[3]) = Cols /\ drawn' = {d[1]}
  <2>1. ASSUME NEW q \in Places, NEW ours \in [Rows -> Row]
        PROVE  Synced(Drawing(d), q, ours, lcd', drawn', drawn')
    <3>1. Synced(Drawing(d), q, ours, Drawn(lcd, d), {d[1]}, {d[1]})
      BY <1>1, <1>4, WholeSynced
    <3> QED BY <1>4, <3>1
  <2>2. Restores(Drawing(d))'
    BY <2>1 DEF Restores
  <2> QED BY <1>1, <2>2 DEF Restored
<1> QED BY <1>3, <1>4

LEMMA DrawsRest == ASSUME LcdInv, NEW d \in Draws, RemoteDraws(d) PROVE RestInv'
<1>1. /\ lcd' = Drawn(lcd, d)
      /\ drawn' = IF stray => WholeRow(d) THEN drawn \cup {d[1]} ELSE drawn
      /\ uart' = IF Shows /\ attached THEN uart \o Drawing(d) ELSE uart
      /\ UNCHANGED <<session, type, turn, got, lines, last, row, col, dirty,
                     asked, attached, stray>>
  BY Draw DEF LcdInv, screen, task
<1>2. CASE ~Shows
  <2>1. session' # "asked"
    BY <1>1, <1>2 DEF LcdInv, OpeningInv
  <2> QED BY <1>1, <1>2, <2>1, OtherRemote
<1>3. CASE Shows
  <2>1. DirtyInPoll' /\ OpeningInv'
    BY <1>1 DEF LcdInv, DirtyInPoll, OpeningInv, Shows, Answer
  <2> SUFFICES StreamInv'
    BY <2>1 DEF RestInv
  <2>2. /\ session = "asked" /\ ~stray => IF asked THEN Asking ELSE Answered
        /\ session \in {"verified", "greeted", "open"} /\ ~stray
             => ~asked /\ attached /\ InSync(uart)
        /\ session \in {"asked", "verified", "greeted"} /\ stray => drawn = {}
        /\ session = "open" /\ stray /\ drawn # {} => attached /\ (InSync(uart) \/ Restored)
    BY <1>3 DEF LcdInv, StreamInv
  <2>3. /\ uart \in Seq(StreamBytes) /\ got \in Seq(StreamBytes)
        /\ Drawing(d) \in Seq(StreamBytes)
        /\ lcd \in [Rows -> Row] /\ Drawing(d) # <<>> /\ StartsRow(Drawing(d))
    BY <1>3, DrawingBytes, DrawingStarts DEF LcdInv, ScreenTypes, Bytes, Shows, StartsRow
  <2>4. /\ Good' \in SUBSET Rows /\ Good' \subseteq Good \cup Over(d)
        /\ Pending' \subseteq Pending \cup {d[1]}
    BY DrawnGood
  <2>5. ASSUME NEW s \in Seq(StreamBytes), InSync(s)
        PROVE  Synced(s \o Drawing(d), <<row', col'>>, lines', lcd', Good', Pending')
    <3>1. Synced(s, <<row, col>>, lines, lcd, Good, Pending)
      BY <2>5 DEF InSync
    <3>2. Synced(s \o Drawing(d), <<row, col>>, lines, Drawn(lcd, d), Good', Pending')
      BY <2>3, <2>4, <3>1, DrawSynced
    <3> QED BY <1>1, <3>2
  <2>6. CASE ~attached
    <3>1. uart' = uart /\ lines' = lines /\ got' = got
      BY <1>1, <2>6
    <3>2. Asking => Asking'
      BY <3>1 DEF Asking, Received, StartsRow
    <3>3. session = "asked" /\ ~stray => asked
      BY <2>2, <2>6 DEF Answered
    <3>4. session \in {"verified", "greeted", "open"} => stray
      BY <2>2, <2>6
    <3>5. session \in {"asked", "verified", "greeted", "open"} /\ stray => drawn' = {}
      BY <1>1, <2>2, <2>6 DEF WholeRow
    <3> QED BY <1>1, <2>2, <3>2, <3>3, <3>4, <3>5 DEF StreamInv
  <2>7. CASE attached
    <3>1. uart' = uart \o Drawing(d) /\ attached'
      BY <1>1, <1>3, <2>7
    <3>2. Received' = Received \o Drawing(d) /\ Received \in Seq(StreamBytes)
      <4>1. uart' = uart \o Drawing(d) /\ got' = got
        BY <1>1, <3>1
      <4>2. /\ got \in Seq(StreamBytes) /\ uart \in Seq(StreamBytes)
            /\ Drawing(d) \in Seq(StreamBytes)
        BY <2>3
      <4>3. got \o (uart \o Drawing(d)) = (got \o uart) \o Drawing(d)
        BY ONLY <4>2, ConcatAssociative, SMTT(30)
      <4>4. got \o uart \in Seq(StreamBytes)
        BY ONLY <4>2, ConcatProperties, SMTT(30)
      <4> QED BY <4>1, <4>3, <4>4 DEF Received
    <3>3. StartsRow(Received) => StartsRow(Received')
      BY <2>3, <3>2, StartsJoined
    <3>4. Asking => Asking'
      <4>1. Received = <<>> => Received' = Drawing(d)
        BY <2>3, <3>2
      <4>2. Received = <<>> => StartsRow(Received')
        BY <2>3, <4>1
      <4>3. lines' = lines
        BY <1>1
      <4> QED BY <3>3, <4>2, <4>3 DEF Asking, StartsRow
    <3>5. Answered => Answered'
      <4> SUFFICES ASSUME Answered PROVE Answered'
        OBVIOUS
      <4>1. CASE StartsRow(Received)
        BY <1>1, <2>7, <3>3, <4>1 DEF Answered, StartsRow
      <4>2. CASE ~StartsRow(Received)
        <5>1. PICK pre \in {Answer, <<Char(Half1)>>}, rest \in Seq(StreamBytes) :
                Received = pre \o rest /\ InSync(rest) /\ (rest = <<>> \/ StartsRow(rest))
          BY <4>2 DEF Answered
        <5>2. pre \in Seq(StreamBytes)
          BY AnswerTyped
        <5>3. Received' = pre \o (rest \o Drawing(d)) /\ rest \o Drawing(d) \in Seq(StreamBytes)
          BY <2>3, <3>2, <5>1, <5>2, ConcatAssociative, ConcatProperties, SMTT(40)
        <5>4. InSync(rest \o Drawing(d))'
          BY <2>5, <5>1 DEF InSync
        <5>5. StartsRow(rest \o Drawing(d))
          <6>1. rest = <<>> => rest \o Drawing(d) = Drawing(d)
            BY <2>3
          <6> QED BY <2>3, <5>1, <6>1, StartsJoined
        <5>6. Received' = pre \o (rest \o Drawing(d))
              /\ InSync(rest \o Drawing(d))' /\ StartsRow(rest \o Drawing(d))'
          BY <5>3, <5>4, <5>5 DEF StartsRow
        <5>7. attached'
          BY <1>1, <2>7
        <5>8. pre \in {Answer', <<Char(Half1)>>'}
          BY DEF Answer
        <5> QED BY <5>3, <5>6, <5>7, <5>8 DEF Answered
      <4> QED BY <4>1, <4>2
    <3>6. InSync(uart) => InSync(uart)'
      <4>1. InSync(uart)
            => Synced(uart \o Drawing(d), <<row', col'>>, lines', lcd', Good', Pending')
        BY <2>3, <2>5
      <4> QED BY <3>1, <4>1 DEF InSync
    <3>7. CASE ~stray
      <4>1. ~stray' /\ session' = session /\ asked' = asked
        BY <1>1, <3>7
      <4> QED BY <2>2, <3>1, <3>4, <3>5, <3>6, <3>7, <4>1 DEF StreamInv
    <3>8. CASE stray
      <4>1. stray' /\ session' = session
        BY <1>1, <3>8
      <4>2. session \in {"asked", "verified", "greeted"} => drawn' = {}
        BY <1>1, <2>2, <3>8 DEF WholeRow
      <4>3. CASE session # "open"
        BY <4>1, <4>2, <4>3 DEF StreamInv
      <4>4. CASE session = "open" /\ (drawn' = {} \/ InSync(uart))
        BY <3>1, <3>6, <4>1, <4>4 DEF StreamInv
      <4>5. CASE session = "open" /\ drawn' # {} /\ ~InSync(uart)
        <5>1. Restored'
          BY <1>1, <2>2, <2>3, <3>1, <3>8, <4>5, DrawRestored DEF WholeRow
        <5> QED BY <3>1, <4>1, <4>5, <5>1 DEF StreamInv
      <4> QED BY <4>3, <4>4, <4>5
    <3> QED BY <3>7, <3>8
  <2> QED BY <2>6, <2>7
<1> QED BY <1>2, <1>3

\* An answer that is accepted leaves the drawings that followed it.
LEMMA AcceptedRest ==
  ASSUME LcdInv, session = "asked", ~stray, NEW n \in 0 .. Len(uart),
         got \o SubSeq(uart, 1, n) = Answer
  PROVE  ~asked /\ attached /\ InSync(SubSeq(uart, n + 1, Len(uart)))
<1> DEFINE took == SubSeq(uart, 1, n)
           left == SubSeq(uart, n + 1, Len(uart))
<1>1. uart \in Seq(StreamBytes) /\ got \in Seq(StreamBytes) /\ Shows
  BY DEF LcdInv, OpeningInv, ScreenTypes, Bytes, Shows
<1>2. /\ took \in Seq(StreamBytes) /\ left \in Seq(StreamBytes)
      /\ took \o left = uart /\ got \o took = Answer
  BY <1>1, Taken
<1> HIDE DEF took, left
<1>3. Received = Answer \o left
  <2>1. (got \o took) \o left = got \o (took \o left)
    <3>1. took \in Seq(StreamBytes) /\ left \in Seq(StreamBytes) /\ got \in Seq(StreamBytes)
      BY <1>1, <1>2
    <3> QED BY ONLY <3>1, ConcatAssociative, SMTT(30)
  <2> QED BY <1>2, <2>1 DEF Received
<1>4. /\ Len(Received) = 2 + Len(left) /\ Len(left) \in Nat
      /\ Received[1] = Char(Half1) /\ Received[2] = Char(Half2)
      /\ \A i \in 1 .. Len(left) : Received[2 + i] = left[i]
  <2>1. /\ Len(Received) = Len(Answer) + Len(left)
        /\ \A i \in 1 .. Len(Answer) : Received[i] = Answer[i]
        /\ \A i \in 1 .. Len(left) : Received[Len(Answer) + i] = left[i]
    BY <1>2, <1>3, AnswerTyped, JoinedBytes, ZenonT(40)
  <2>2. Len(left) \in Nat /\ 1 \in 1 .. Len(Answer) /\ 2 \in 1 .. Len(Answer)
    BY <1>2, AnswerTyped
  <2> QED BY <2>1, <2>2, AnswerTyped
<1>5. ~StartsRow(Received) /\ Received # <<>>
  BY <1>4 DEF StartsRow, Char
<1>6. IF asked THEN Asking ELSE Answered
  BY <1>1 DEF LcdInv, StreamInv
<1>7. ~asked /\ attached
  BY <1>5, <1>6 DEF Asking, Answered
<1>8. PICK pre \in {Answer, <<Char(Half1)>>}, rest \in Seq(StreamBytes) :
        Received = pre \o rest /\ InSync(rest) /\ (rest = <<>> \/ StartsRow(rest))
  BY <1>5, <1>6, <1>7 DEF Answered
<1>9. CASE pre = Answer
  <2>1. Len(Received) = 2 + Len(rest) /\ \A i \in 1 .. Len(rest) : Received[2 + i] = rest[i]
    <3>1. Received = Answer \o rest /\ Answer \in Seq(StreamBytes) /\ Len(Answer) = 2
      BY <1>8, <1>9, AnswerTyped
    <3>2. rest \in Seq(StreamBytes)
      BY <1>8
    <3>3. /\ Len(Answer \o rest) = Len(Answer) + Len(rest)
          /\ \A i \in 1 .. Len(rest) : (Answer \o rest)[Len(Answer) + i] = rest[i]
      BY ONLY <3>1, <3>2, JoinedBytes, Zenon
    <3> QED BY <3>1, <3>3
  <2>2. Len(rest) \in Nat
    BY <1>8
  <2>3. Len(rest) = Len(left) /\ \A i \in 1 .. Len(rest) : rest[i] = left[i]
    BY <1>4, <2>1, <2>2
  <2>4. rest = left
    BY <1>2, <1>8, <2>3, SeqEqual
  <2> QED BY <1>7, <1>8, <2>4 DEF left
<1>10. CASE pre = <<Char(Half1)>>
  <2>1. Len(Received) = 1 + Len(rest) /\ \A i \in 1 .. Len(rest) : Received[1 + i] = rest[i]
    BY <1>8, <1>10, AnswerTyped, JoinedBytes
  <2>2. Len(rest) \in Nat /\ Len(rest) >= 1
    BY <1>4, <1>8, <2>1
  <2>3. rest[1] = Received[1 + 1]
    BY <2>1, <2>2
  <2>4. rest # <<>> /\ rest[1].kind # "cursor"
    BY <1>4, <2>2, <2>3 DEF Char
  <2> QED BY <1>8, <2>4 DEF StartsRow
<1> QED BY <1>9, <1>10

LEMMA AnswerRest ==
  ASSUME LcdInv, NEW n \in 0 .. Len(uart), ReadsAnswer(n) PROVE RestInv'
<1> DEFINE took == got \o SubSeq(uart, 1, n)
           left == SubSeq(uart, n + 1, Len(uart))
<1>1. /\ session = "asked" /\ uart' = left /\ HandshakeGoesOn(took, tries + 1)
      /\ UNCHANGED <<type, turn, lines, last, row, col, dirty, lcd, asked, attached>>
  BY DEF ReadsAnswer, Takes, screen, remote
<1>2. /\ Shows /\ Shows' /\ dirty' = {}
      /\ uart \in Seq(StreamBytes) /\ got \in Seq(StreamBytes)
  BY <1>1 DEF LcdInv, DirtyInPoll, OpeningInv, ScreenTypes, Bytes, Shows
<1>3. CASE Len(took) < Len(Answer) /\ tries + 1 < RetryMax
  <2>1. got' = took /\ session' = session /\ UNCHANGED <<stray, drawn>>
    BY <1>1, <1>3 DEF HandshakeGoesOn, known
  <2>2. Received' = Received
    <3>1. SubSeq(uart, 1, n) \in Seq(StreamBytes) /\ left \in Seq(StreamBytes)
          /\ SubSeq(uart, 1, n) \o left = uart
      BY <1>2, Taken
    <3> DEFINE first == SubSeq(uart, 1, n)
    <3>2. got' = got \o first
      BY <2>1
    <3>3. first \in Seq(StreamBytes) /\ first \o left = uart
      BY <3>1
    <3> HIDE DEF left, first
    <3>4. (got \o first) \o left = got \o (first \o left)
      <4>1. left \in Seq(StreamBytes) /\ got \in Seq(StreamBytes) /\ first \in Seq(StreamBytes)
        BY <1>2, <3>1, <3>3
      <4> QED BY ONLY <4>1, ConcatAssociative, SMTT(30)
    <3>5. Received' = (got \o first) \o left
      BY <1>1, <3>2 DEF Received
    <3> QED BY <3>3, <3>4, <3>5 DEF Received
  <2> HIDE DEF took, left
  <2>3. Asking' = Asking /\ Answered' = Answered
    BY <1>1, <2>1, <2>2 DEF Asking, Answered, InSync, Good, Pending, StartsRow, Answer
  <2>4. session' = "asked" /\ session' \notin {"verified", "greeted", "open"}
    BY <1>1, <2>1
  <2>5. StreamInv'
    <3>1. (~stray => IF asked THEN Asking ELSE Answered) /\ (stray => drawn = {})
      BY <1>1, <1>2 DEF LcdInv, StreamInv
    <3>2. (~stray' => IF asked' THEN Asking' ELSE Answered') /\ (stray' => drawn' = {})
      BY <1>1, <2>1, <2>3, <3>1
    <3> QED BY <2>4, <3>2 DEF StreamInv
  <2>6. Len(got)' < Len(Answer)'
    BY <1>3, <2>1 DEF Answer
  <2> QED BY <1>2, <2>4, <2>5, <2>6 DEF RestInv, DirtyInPoll, OpeningInv
<1>4. CASE ~(Len(took) < Len(Answer) /\ tries + 1 < RetryMax)
  <2>1. CASE took # Answer
    <3>1. Strays /\ session' = "open"
      BY <1>1, <1>4, <2>1 DEF HandshakeGoesOn
    <3> QED BY <1>2, <3>1, Strayed
  <2>2. CASE took = Answer
    <3>1. session' \in {"verified", "open"} /\ UNCHANGED <<stray, drawn>>
      BY <1>1, <1>4, <2>2 DEF HandshakeGoesOn, known
    <3>2. ~stray => ~asked /\ attached /\ InSync(left)
      BY <1>1, <2>2, AcceptedRest
    <3>3. stray => drawn = {}
      BY <1>1, <1>2 DEF LcdInv, StreamInv
    <3> HIDE DEF took, left
    <3>4. ~stray' => ~asked' /\ attached' /\ InSync(uart)'
      BY <1>1, <3>1, <3>2 DEF InSync, Good, Pending
    <3>5. session' # "asked" /\ session' # "sync" /\ (stray' => drawn' = {})
      BY <3>1, <3>3
    <3>6. StreamInv'
      BY <3>4, <3>5 DEF StreamInv
    <3> QED BY <1>2, <3>5, <3>6 DEF RestInv, DirtyInPoll, OpeningInv
  <2> QED BY <2>1, <2>2
<1> QED BY <1>3, <1>4

LEMMA GreetsRest == ASSUME LcdInv, Greets PROVE RestInv'
<1>1. /\ session \in {"verified", "greeted"} /\ session' \in {"greeted", "open"} /\ Drops
      /\ UNCHANGED <<type, turn, lines, last, row, col, dirty, lcd, asked, attached>>
  BY DEF Greets, screen, remote
<1>2. dirty' = {} /\ session' # "asked" /\ session' # "sync"
  BY <1>1 DEF LcdInv, DirtyInPoll
<1>3. CASE Strays
  BY <1>1, <1>2, <1>3, Strayed
<1>4. CASE uart' = uart /\ UNCHANGED known
  <2>1. UNCHANGED <<stray, drawn>>
    BY <1>4 DEF known
  <2>2. Shows => IF stray THEN drawn = {} ELSE ~asked /\ attached /\ InSync(uart)
    BY <1>1 DEF LcdInv, StreamInv
  <2>3. Shows' => IF stray' THEN drawn' = {} ELSE ~asked' /\ attached' /\ InSync(uart)'
    BY <1>1, <1>4, <2>1, <2>2 DEF InSync, Good, Pending, Shows
  <2>4. StreamInv'
    BY <1>2, <2>3 DEF StreamInv
  <2> QED BY <1>2, <2>4 DEF RestInv, DirtyInPoll, OpeningInv
<1> QED BY <1>1, <1>3, <1>4, DropsTyped DEF LcdInv

LEMMA ByteRest == ASSUME LcdInv, ShowsByte PROVE RestInv'
<1>1. /\ session = "open" /\ Shows /\ turn = "screen" /\ uart # <<>>
      /\ Put(uart[1]) /\ uart' = Tail(uart) /\ uart \in Seq(StreamBytes)
      /\ UNCHANGED <<session, type, turn, got, lcd, drawn, asked, attached, stray>>
  BY DEF LcdInv, ScreenTypes, ShowsByte, Bytes, Shows, task, remote, known
<1>2. uart[1] \in StreamBytes
  BY <1>1
<1>3. /\ <<row', col'>> = After(<<row, col>>, uart[1])
      /\ lines' = IF uart[1].kind = "cursor" THEN lines
                  ELSE [lines EXCEPT ![row][col + 1] = uart[1].v]
      /\ dirty' = IF uart[1].kind = "cursor" THEN dirty ELSE dirty \cup {row}
      /\ UNCHANGED last
  BY <1>1, <1>2, Puts DEF LcdInv, ScreenTypes
<1>4. Pending' \subseteq Pending /\ (uart[1].kind = "char" => row \notin Pending')
  <2>1. \A r \in Rows : r # row => lines'[r] = lines[r]
    BY <1>3 DEF LcdInv, ScreenTypes
  <2>2. CASE uart[1].kind = "cursor"
    BY <1>1, <1>3, <2>2 DEF Pending
  <2>3. CASE uart[1].kind # "cursor"
    <3>1. dirty' = dirty \cup {row}
      BY <1>3, <2>3
    <3>2. drawn \subseteq Rows
      BY DEF LcdInv, ScreenTypes
    <3> QED BY <1>1, <1>3, <2>1, <3>1, <3>2 DEF Pending
  <2> QED BY <2>2, <2>3
<1>5. ASSUME InSync(uart) PROVE InSync(uart)'
  <2>1. Synced(uart, <<row, col>>, lines, lcd, Good, Pending)
    BY <1>5 DEF InSync
  <2>2. /\ <<row, col>> \in Places /\ lines \in [Rows -> Row]
        /\ Good \in SUBSET Rows /\ Good' = Good
    BY <1>1 DEF LcdInv, ScreenTypes, Places, Good
  <2>3. <<row, col>>[1] = row /\ <<row, col>>[2] = col
    OBVIOUS
  <2>4. Synced(Tail(uart), After(<<row, col>>, uart[1]), lines', lcd, Good, Pending')
    BY <1>1, <1>3, <1>4, <2>1, <2>2, <2>3, PutSynced
  <2>5. Synced(uart', <<row', col'>>, lines', lcd', Good', Pending')
    BY <1>1, <1>3, <2>2, <2>4
  <2> QED BY <2>5 DEF InSync
<1>6. ASSUME stray, Restored PROVE InSync(uart)' \/ Restored'
  <2>1. PICK skip \in Seq(StreamBytes), rest \in Seq(StreamBytes) :
          uart = skip \o rest /\ Restores(rest)
    BY <1>6 DEF Restored
  <2>2. CASE skip = <<>>
    <3>1. uart = rest /\ <<row, col>> \in Places /\ lines \in [Rows -> Row]
      BY <2>1, <2>2 DEF LcdInv, ScreenTypes, Places
    <3>2. Synced(uart, <<row, col>>, lines, lcd, drawn, drawn)
      BY <2>1, <3>1 DEF Restores
    <3>3. Good = drawn /\ Pending \subseteq drawn
      BY <1>6 DEF Good, Pending
    <3>4. Synced(uart, <<row, col>>, lines, lcd, Good, Pending)
      BY <3>2, <3>3, LessSynced
    <3> QED BY <1>5, <3>4 DEF InSync
  <2>3. CASE skip # <<>>
    <3>1. Tail(skip) \in Seq(StreamBytes) /\ Tail(uart) = Tail(skip) \o rest
      BY <2>1, <2>3
    <3>2. Restores(rest)'
      BY <1>1, <2>1 DEF Restores
    <3> QED BY <1>1, <3>1, <3>2 DEF Restored
  <2> QED BY <2>2, <2>3
<1>7. /\ ~stray => ~asked /\ attached /\ InSync(uart)
      /\ stray /\ drawn # {} => attached /\ (InSync(uart) \/ Restored)
  BY <1>1 DEF LcdInv, StreamInv
<1>8. session' # "asked" /\ session' # "sync" /\ session' = "open"
  BY <1>1
<1>9. /\ ~stray' => ~asked' /\ attached' /\ InSync(uart)'
      /\ stray' /\ drawn' # {} => attached' /\ (InSync(uart)' \/ Restored')
  BY <1>1, <1>5, <1>6, <1>7
<1>10. StreamInv'
  BY <1>8, <1>9 DEF StreamInv
<1> QED BY <1>1, <1>8, <1>10 DEF RestInv, DirtyInPoll, OpeningInv, Shows

LEMMA RowsRest == ASSUME LcdInv, ShowsRows PROVE RestInv'
<1>1. /\ session = "open" /\ Shows /\ dirty' = {}
      /\ last' = [r \in Rows |-> IF r \in Changed(dirty, lines) THEN CString(lines'[r])
                                                              ELSE last[r]]
      /\ UNCHANGED <<session, type, lines, row, col, lcd, drawn, asked, attached, stray, uart>>
  BY DEF ShowsRows, EndPoll, Pushes, remote, known
<1>2. Pending' = Pending
  <2>1. drawn \subseteq Rows
    BY DEF LcdInv, ScreenTypes
  <2>2. ASSUME NEW r \in Rows
        PROVE  last'[r] # CString(lines[r]) <=> r \notin dirty /\ last[r] # CString(lines[r])
    BY <1>1 DEF Changed
  <2> QED BY <1>1, <2>1, <2>2 DEF Pending
<1>3. /\ ~stray => ~asked /\ attached /\ InSync(uart)
      /\ stray /\ drawn # {} => attached /\ (InSync(uart) \/ Restored)
  BY <1>1 DEF LcdInv, StreamInv
<1>4. InSync(uart)' = InSync(uart) /\ Restored' = Restored
  BY <1>1, <1>2 DEF InSync, Good, Restored, Restores
<1>5. session' = "open"
  BY <1>1
<1>6. StreamInv'
  BY <1>1, <1>3, <1>4, <1>5 DEF StreamInv
<1> QED BY <1>1, <1>5, <1>6 DEF RestInv, DirtyInPoll, OpeningInv

LEMMA RestNext == LcdInv /\ [TerminalNext]_allVars => RestInv'
<1> SUFFICES ASSUME LcdInv, [TerminalNext]_allVars PROVE RestInv'
  OBVIOUS
<1>1. CASE RemoteAnswers
  BY <1>1, AnswersRest
<1>2. CASE RemoteReports
  <2>1. ~Shows /\ UNCHANGED <<type, dirty, session>>
    BY <1>2 DEF RemoteReports, screen, task
  <2> QED BY <2>1, OtherRemote DEF LcdInv, OpeningInv
<1>3. ASSUME NEW d \in Draws, RemoteDraws(d) PROVE RestInv'
  BY <1>3, DrawsRest
<1>4. CASE Phone \/ KeysOf3000 \/ KeysOfStream \/ NoReport \/ UNCHANGED allVars
  BY <1>4, Untouched DEF Phone, KeysOf3000, KeysOfStream, NoReport, allVars, screen, task,
                         remote, known, LcdInv, DirtyInPoll
<1>5. CASE Closes
  <2>1. session' = "closed" /\ dirty' = dirty /\ (Shows => turn = "keys")
    BY <1>5 DEF Closes, screen
  <2>2. dirty = {}
    BY <2>1 DEF LcdInv, DirtyInPoll
  <2> QED BY <2>1, <2>2, Ended
<1>6. ASSUME NEW t \in Types, NEW w \in BOOLEAN, Opens(t, w) PROVE RestInv'
  BY <1>6, OpensRest
<1>7. ASSUME NEW n \in 0 .. Len(uart), ReadsAnswer(n) PROVE RestInv'
  BY <1>7, AnswerRest
<1>8. CASE Greets
  BY <1>8, GreetsRest
<1>9. CASE Syncs \/ ReadsReport
  <2>1. ~Shows /\ dirty' = dirty
    BY <1>9, ReportTypes
  <2>2. type' = type /\ session' = "open"
    BY <1>9 DEF Syncs, ReadsReport
  <2> QED BY <2>1, <2>2, OtherRemote
<1>10. CASE ShowsByte
  BY <1>10, ByteRest
<1>11. CASE ShowsRows
  BY <1>11, RowsRest
<1>12. CASE AsksReport
  <2>1. ~Shows /\ UNCHANGED <<type, dirty>> /\ session' = "open"
    BY <1>12 DEF AsksReport, screen
  <2> QED BY <2>1, OtherRemote
<1> QED BY <1>1, <1>2, <1>3, <1>4, <1>5, <1>6, <1>7, <1>8, <1>9, <1>10, <1>11, <1>12
           DEF TerminalNext, Remote, Task, OpenStep, PollStep

LEMMA LcdInit == TerminalInit => LcdInv
<1> SUFFICES ASSUME TerminalInit PROVE LcdInv
  OBVIOUS
<1> USE DEF TerminalInit, ScreenInit
<1>1. ScreenTypes
  BY BlankTyped, ScreenAssumed DEF ScreenTypes, Rows, Cells, Types
<1>2. PhoneInv /\ DirtyInPoll /\ OpeningInv /\ StreamInv
  BY DEF PhoneInv, DirtyInPoll, OpeningInv, StreamInv
<1> QED BY <1>1, <1>2 DEF LcdInv

LEMMA RowsEqual ==
  ASSUME NEW x \in [1 .. Cols -> Chars], NEW y \in [1 .. Cols -> Chars],
         \A c \in 1 .. Cols : x[c] = y[c]
  PROVE  x = y
<1>1. x = [c \in 1 .. Cols |-> x[c]] /\ y = [c \in 1 .. Cols |-> y[c]]
  OBVIOUS
<1>2. [c \in 1 .. Cols |-> x[c]] = [c \in 1 .. Cols |-> y[c]]
  OBVIOUS
<1> QED BY <1>1, <1>2, Zenon

\* The inductive invariant of the screen
THEOREM LcdInvariance == TerminalSpec => []LcdInv
<1>1. LcdInv /\ [TerminalNext]_allVars => LcdInv'
  BY ScreenTypesNext, PhoneNext, RestNext DEF LcdInv, RestInv
<1> QED BY LcdInit, <1>1, PTL DEF TerminalSpec

\* hht_display.c:154: whatever the remote draws, and however its bytes are cut
\* between the polls, once all of them are read the phone shows every row
\* that was drawn, but for those whose notification was lost; after a failed
\* handshake or an answer that came late, every row that was drawn whole since.
THEOREM ScreenIsShown == TerminalSpec => []LcdShown
<1>1. LcdInv => LcdShown
  <2> SUFFICES ASSUME LcdInv, session = "open", Shows, uart = <<>>, dirty = {},
                      NEW r \in drawn \ lost
               PROVE  OnPhone(r)
    BY DEF LcdShown
  <2>3. r \in Rows /\ r \in Good /\ lines \in [Rows -> Row] /\ lcd \in [Rows -> Row]
    BY DEF LcdInv, ScreenTypes, Good
  <2>0. ~Restored
    <3> SUFFICES ASSUME Restored PROVE FALSE
      OBVIOUS
    <3>1. PICK skip \in Seq(StreamBytes), rest \in Seq(StreamBytes) :
            <<>> = skip \o rest /\ Restores(rest)
      BY DEF Restored
    <3>2. Len(skip) + Len(rest) = 0 /\ Len(skip) \in Nat /\ Len(rest) \in Nat
      <4>1. Len(skip \o rest) = Len(skip) + Len(rest)
        BY JoinedBytes
      <4>2. Len(skip \o rest) = 0
        BY <3>1
      <4> QED BY <4>1, <4>2
    <3>3. Len(rest) = 0 /\ 1 .. Len(rest) = {}
      BY <3>2
    <3>4. Synced(rest, <<row, col>>, lines, lcd, drawn, drawn)
      BY <2>3, <3>1 DEF Restores, LcdInv, ScreenTypes, Places
    <3>5. PICK p : Comes(rest, p, drawn)
      BY <3>4 DEF Synced
    <3> QED BY <3>3, <3>5 DEF Comes
  <2>1. Synced(<<>>, <<row, col>>, lines, lcd, Good, Pending)
    BY <2>0 DEF LcdInv, StreamInv, InSync
  <2>2. PICK p : Shown(<<>>, p, lines, lcd, Good) /\ Comes(<<>>, p, Pending)
    BY <2>1 DEF Synced
  <2>4. \A c \in 1 .. Cols : lcd[r][c] = lines[r][c]
    BY <2>2, <2>3 DEF Shown
  <2>5. lcd[r] = lines[r]
    <3>1. lcd[r] \in [1 .. Cols -> Chars] /\ lines[r] \in [1 .. Cols -> Chars]
      BY <2>3 DEF Row
    <3> QED BY <2>4, <3>1, RowsEqual
  <2>6. r \notin Pending
    BY <2>2 DEF Comes
  <2>7. last[r] = CString(lines[r])
    BY <2>6 DEF Pending
  <2>8. last[r] # <<>> => CString(phone[r]) = last[r]
    BY <2>3 DEF LcdInv, PhoneInv
  <2> QED BY <2>5, <2>7, <2>8 DEF OnPhone
<1> QED BY <1>1, LcdInvariance, PTL
=============================================================================
