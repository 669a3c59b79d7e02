---------------------------- MODULE HhtKeysRace ----------------------------
(***************************************************************************)
(* hht_keys.c again, one shared variable at a time: hht_keys_send runs in  *)
(* the BLE host task (or the CLI task) while hht_keys_poll runs in         *)
(* hht_task, on the two cores and without a lock.  Only short keys are     *)
(* pressed and the screen does not change, so that nothing but the overlap *)
(* can come between a press and its repeats; HhtKeys shows that without    *)
(* the overlap the repeats are complete.                                   *)
(***************************************************************************)
EXTENDS Integers

CONSTANTS
  Keys,            \* key bytes other than 0x00
  NoKey,           \* HHT_KEY_NONE, 0x00: the release byte
  ShortSendCount,  \* HHT_KEY_SHORT_SEND_COUNT
  MaxPresses       \* bound on the number of key presses

VARIABLES
  active, key, ticks, release,  \* the s_hold_* variables and s_release_pending
  spc, skey,                    \* hht_keys_send: its pc and its argument
  ppc, ptick,                   \* hht_keys_poll: its pc, the ticks it read
  latest,                       \* the key of the latest press
  sent,                         \* times it was written since it was pressed
  owed,                         \* its release: none, due, or due to a poll that saw it
  presses

sendVars == <<spc, skey>>
pollVars == <<ppc, ptick>>
history  == <<latest, sent, owed, presses>>
vars == <<active, key, ticks, release, sendVars, pollVars, history>>

Init ==
  /\ active = FALSE /\ release = FALSE /\ key = NoKey /\ ticks = 0
  /\ spc = "idle" /\ skey = NoKey /\ ppc = "idle" /\ ptick = 0
  /\ latest = NoKey /\ sent = 0 /\ owed = "no" /\ presses = 0
-----------------------------------------------------------------------------
(* hht_keys_send: s_release_pending, s_hold_key, s_hold_ticks,             *)
(* s_hold_active are stored in this order.                                 *)
SendBegin(k) ==
  /\ spc = "idle" /\ presses < MaxPresses
  /\ spc' = "key" /\ skey' = k
  /\ release' = FALSE
  /\ owed' = "superseded" /\ presses' = presses + 1
  /\ UNCHANGED <<active, key, ticks, pollVars, latest, sent>>

SendKey ==
  /\ spc = "key" /\ spc' = "ticks"
  /\ key' = skey
  /\ latest' = skey /\ sent' = 0
  /\ UNCHANGED <<active, ticks, release, skey, pollVars, owed, presses>>

SendTicks ==
  /\ spc = "ticks" /\ spc' = "active"
  /\ ticks' = ShortSendCount
  /\ UNCHANGED <<active, key, release, skey, pollVars, history>>

SendActive ==
  /\ spc = "active" /\ spc' = "idle"
  /\ active' = TRUE
  /\ owed' = "new"
  /\ UNCHANGED <<key, ticks, release, skey, pollVars, latest, sent, presses>>
-----------------------------------------------------------------------------
(* hht_keys_poll *)
PollBegin ==
  /\ ppc = "idle"
  /\ ppc' = IF release /\ ~(active /\ ticks > 0) THEN "release"
            ELSE IF active THEN "write" ELSE "idlewrite"
  /\ owed' = IF owed = "new" THEN "seen" ELSE owed
  /\ UNCHANGED <<active, key, ticks, release, sendVars, ptick, latest, sent, presses>>

\* The release branch clears the hold ...
PollClear ==
  /\ ppc = "release" /\ ppc' = "clear"
  /\ release' = FALSE /\ active' = FALSE
  /\ UNCHANGED <<key, ticks, sendVars, ptick, history>>

\* ... and then the counter and the key, and writes 0x00.
PollRelease ==
  /\ ppc = "clear" /\ ppc' = "idle"
  /\ ticks' = 0 /\ key' = NoKey
  /\ owed' = IF owed = "seen" THEN "no" ELSE owed
  /\ UNCHANGED <<active, release, sendVars, ptick, latest, sent, presses>>

PollIdle ==
  /\ ppc = "idlewrite" /\ ppc' = "idle"
  /\ owed' = IF owed = "seen" THEN "no" ELSE owed
  /\ UNCHANGED <<active, key, ticks, release, sendVars, ptick, latest, sent, presses>>

PollWrite ==
  /\ ppc = "write" /\ ppc' = "readticks"
  /\ sent' = IF key = latest /\ sent < ShortSendCount THEN sent + 1 ELSE sent
  /\ UNCHANGED <<active, key, ticks, release, sendVars, ptick, latest, owed, presses>>

\* s_hold_ticks-- is a load and a store.
PollLoadTicks ==
  /\ ppc = "readticks" /\ ppc' = "storeticks"
  /\ ptick' = ticks
  /\ UNCHANGED <<active, key, ticks, release, sendVars, history>>

PollStoreTicks ==
  /\ ppc = "storeticks" /\ ppc' = IF ptick <= 1 THEN "last" ELSE "idle"
  /\ ticks' = ptick - 1
  /\ UNCHANGED <<active, key, release, sendVars, ptick, history>>

PollLast ==
  /\ ppc = "last" /\ ppc' = "idle"
  /\ active' = FALSE /\ key' = NoKey /\ release' = TRUE
  /\ UNCHANGED <<ticks, sendVars, ptick, history>>

Send == (\E k \in Keys : SendBegin(k)) \/ SendKey \/ SendTicks \/ SendActive
Poll == PollBegin \/ PollClear \/ PollRelease \/ PollIdle \/ PollWrite
        \/ PollLoadTicks \/ PollStoreTicks \/ PollLast
Next == Send \/ Poll
Spec == Init /\ [][Next]_vars
-----------------------------------------------------------------------------
\* hht_keys.c:11 "Short key should be transmitted at least 3-4 times": no
\* poll that began after the press of a short key writes the release of that
\* key before the key was written 3 times.
ShortKeyMinimum == [][owed = "seen" /\ owed' = "no" => sent >= 3]_vars
=============================================================================
