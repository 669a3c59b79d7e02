------------------------------ MODULE HhtKeys ------------------------------
(***************************************************************************)
(* hht_keys.c: the phone's (or the CLI's) key presses turned into bytes on *)
(* the HHT UART.  A short key is repeated a fixed number of times and then *)
(* released; a long key is repeated until the phone sends a release; a     *)
(* change of the screen cancels a short key.                               *)
(*                                                                         *)
(* Here a press, a poll and a cancellation are each one step, that is, the *)
(* phone's task and hht_task do not overlap in them.  HhtKeysRace lets     *)
(* them overlap.  press and sent are history: they record the latest press *)
(* and how often it was written.                                           *)
(***************************************************************************)
EXTENDS Naturals

CONSTANTS
  Keys,            \* key bytes other than 0x00
  NoKey,           \* HHT_KEY_NONE, 0x00: the release byte
  ShortSendCount,  \* HHT_KEY_SHORT_SEND_COUNT
  MaxPresses       \* bound on the number of key presses

ASSUME KeysAssumption ==
  /\ NoKey \notin Keys
  /\ ShortSendCount \in Nat \ {0}
  /\ MaxPresses \in Nat

VARIABLES
  active, long,  \* s_hold_active, s_hold_long
  key, ticks,    \* s_hold_key, s_hold_ticks
  release,       \* s_release_pending
  wire,          \* the key byte last written to the UART
  press,         \* what became of the latest press
  sent,          \* times the latest short press was written, while it lasts
  presses        \* number of presses so far

hold    == <<active, long, key, ticks, release>>
history == <<press, sent, presses>>
vars    == <<hold, wire, history>>

Init ==
  /\ active = FALSE /\ long = FALSE /\ release = FALSE
  /\ key = NoKey /\ ticks = 0
  /\ wire = NoKey
  /\ press = "none" /\ sent = 0 /\ presses = 0

\* hht_keys_init, called by every session that opens: what an earlier session
\* held is forgotten, and no release is written for it.
KeysInit ==
  /\ active' = FALSE /\ long' = FALSE /\ release' = FALSE
  /\ key' = NoKey /\ ticks' = 0
  /\ press' = "restarted" /\ sent' = 0
  /\ UNCHANGED <<wire, presses>>

Released ==
  /\ active' = FALSE /\ long' = FALSE /\ release' = FALSE
  /\ key' = NoKey /\ ticks' = 0
  /\ wire' = NoKey
-----------------------------------------------------------------------------
\* hht_keys_send with a key
SendShort(k) ==
  /\ presses < MaxPresses
  /\ active' = TRUE /\ long' = FALSE /\ release' = FALSE
  /\ key' = k /\ ticks' = ShortSendCount
  /\ press' = "short" /\ sent' = 0 /\ presses' = presses + 1
  /\ UNCHANGED wire

\* hht_keys_send with 0x00: the write is left to hht_keys_poll
SendRelease ==
  /\ release' = TRUE
  /\ UNCHANGED <<active, long, key, ticks, wire, history>>

\* hht_keys_send_long
SendLong(k) ==
  /\ presses < MaxPresses
  /\ active' = TRUE /\ long' = TRUE /\ release' = FALSE
  /\ key' = k /\ ticks' = 0
  /\ press' = "long" /\ sent' = 0 /\ presses' = presses + 1
  /\ UNCHANGED wire

\* Faulty variant for DisplayChange: long keys are not spared.
CancelAny ==
  /\ active
  /\ Released
  /\ press' = "cancelled" /\ sent' = 0
  /\ UNCHANGED presses

\* hht_keys_cancel_short_on_display_change
DisplayChange ==
  /\ active /\ ~long
  /\ Released
  /\ press' = "cancelled" /\ sent' = 0
  /\ UNCHANGED presses
-----------------------------------------------------------------------------
\* Faulty variant for Deferred: the phone's release is not put off.
NeverDeferred == FALSE

\* hht_keys_poll: a release waits for the short burst in progress.
Deferred == active /\ ~long /\ ticks > 0

PollRelease ==
  /\ release /\ ~Deferred
  /\ Released
  /\ press' = "none" /\ sent' = 0
  /\ UNCHANGED presses

PollIdle ==
  /\ ~release /\ ~active
  /\ wire' = NoKey
  /\ press' = "none"
  /\ UNCHANGED <<hold, sent, presses>>

PollLong ==
  /\ ~release /\ active /\ long
  /\ wire' = key
  /\ UNCHANGED <<hold, history>>

\* The last repeat leaves a release for the next poll to write.
PollShort ==
  /\ active /\ ~long /\ (release => Deferred)
  /\ wire' = key
  /\ ticks' = ticks - 1
  /\ sent' = sent + 1
  /\ IF ticks > 1
     THEN UNCHANGED <<active, key, release>>
     ELSE active' = FALSE /\ key' = NoKey /\ release' = TRUE
  /\ UNCHANGED <<long, press, presses>>

Poll == PollRelease \/ PollIdle \/ PollLong \/ PollShort
Send == SendRelease \/ \E k \in Keys : SendShort(k) \/ SendLong(k)
Next == KeysInit \/ Send \/ Poll \/ DisplayChange
Spec == Init /\ [][Next]_vars
-----------------------------------------------------------------------------
TypeOK ==
  /\ active \in BOOLEAN /\ long \in BOOLEAN /\ release \in BOOLEAN
  /\ key \in Keys \cup {NoKey} /\ wire \in Keys \cup {NoKey}
  /\ ticks \in 0 .. ShortSendCount /\ sent \in 0 .. ShortSendCount
  /\ press \in {"none", "short", "long", "cancelled", "restarted"}
  /\ presses \in 0 .. MaxPresses

\* hht_keys.c:11, :82: the release that ends a short key is written only
\* after the key itself was written the full number of times, however early
\* the phone's own release arrives.
ShortSentInFull == [][press = "short" /\ press' = "none" => sent = ShortSendCount]_vars

\* hht_keys.c:78, :83: nothing ends a long key but the phone, by a release,
\* another key or a new session; a change of the screen does not.
LongEndsByPhone ==
  [][active /\ long =>
       (active' /\ long' /\ key' = key) \/ release \/ presses' # presses \/ press' = "restarted"]_vars
=============================================================================
