---------------------------- MODULE ProbeUpdate ----------------------------
(***************************************************************************)
(* probe_link_update.c, probe_link_transport.c and probe_link_protocol.c:  *)
(* a debug probe on UART2 is given commands as packets of the GDB remote   *)
(* protocol.  It acknowledges a packet and answers it.                     *)
(*                                                                         *)
(* What the probe sends is a sequence of pieces: "+" or "-", and an answer, *)
(* which is "$", its payload, "#" and the checksum.  coming is what it has *)
(* sent and the UART has not received; it may arrive late.  wait_ack reads *)
(* up to AckRead bytes at once, and a read returns when it has them all or *)
(* its time is up: an answer that comes promptly is read with its "+" and  *)
(* lost.  The probe is external, and a target that it accepts a write for  *)
(* holds the data, if it was erased.                                       *)
(***************************************************************************)
EXTENDS Integers, Sequences

CONSTANTS
  ProbeBlocks, \* blocks of the target's flash
  AckRead,     \* bytes that wait_ack reads: the size of its buffer, 8 in the code
  Metas,       \* what metas say: of dry, erase and reset in their JSON, and a size
  MaxJobs      \* bound on the updates

ProbeAssumption ==
  /\ {ProbeBlocks, MaxJobs} \subseteq Nat /\ AckRead \in Nat \ {0}
  /\ Metas \subseteq [dry : {"absent", "true", "false"}, erase : {"absent", "true", "false"},
                       reset : {"absent", "true", "false"}, sized : BOOLEAN]

VARIABLES
  pc, step, jobs, flash, len, blk, trouble, doubt,   \* as in IspUpdate
  opt,         \* from the meta: dry run, erase, reset, and whether it has a size
  cmd,         \* the command being exchanged
  coming,      \* pieces the probe has sent that did not arrive yet
  line,        \* pieces in the UART's buffer
  got, room,   \* the first piece that wait_ack has read, and how much more it reads
  answered,    \* history: the probe answered this command
  swallowed    \* history: in this update wait_ack read more than a "+"

link == <<coming, line, got, room, answered, swallowed>>
probe == <<opt, cmd, link>>

Erased == -1
Wrong  == -2

\* probe_link_parse_meta: a dry run and an erase unless the JSON says no.
Parsed(m) ==
  [dry |-> m.dry # "false", erase |-> m.erase # "false", reset |-> m.reset = "true",
   sized |-> m.sized]

Commands == {"qSupported", "scan", "attach", "erase", "write", "done", "reset"}
Bodies   == {"OK", "E01", "long"}
Pieces   == Bodies \cup {"+", "-", "junk"}

\* The bytes of a piece, as on the wire.
Bytes(p) == CASE p = "OK" -> 6 [] p = "E01" -> 7 [] p = "long" -> 20 [] OTHER -> 1

\* What the probe sends for each way to answer.
Packet(a) ==
  CASE a = "none" -> <<>>
    [] a = "-"    -> <<"-">>
    [] OTHER      -> <<"+", a>>

\* What is still to come when the time is up, perhaps amid an answer.
Cut ==
  {coming} \cup IF coming # <<>> /\ Head(coming) \in Bodies
                  THEN {<<"junk">> \o Tail(coming)} ELSE {}

\* The command after c.  Only a write is followed by itself.
After(c) ==
  CASE c = "qSupported" -> "scan"
    [] c = "scan"       -> "attach"
    [] c = "attach"     -> IF opt.erase THEN "erase" ELSE "write"
    [] c \in {"erase", "write"} -> "write"
    [] OTHER            -> "reset"

ProbeInit ==
  /\ opt = [dry |-> TRUE, erase |-> TRUE, reset |-> FALSE, sized |-> TRUE]
  /\ cmd = "qSupported" /\ coming = <<>> /\ line = <<>> /\ got = "" /\ room = 0
  /\ answered = FALSE /\ swallowed = FALSE

\* ERROR, and the UART driver is deleted with what is in its buffer.
Fail == pc' = "idle" /\ step' = "ERROR" /\ line' = <<>> /\ UNCHANGED <<cmd, blk>>

\* The next command with rest in the buffer, or DONE after the last one.
Advance(rest) ==
  /\ IF cmd = "reset" \/ (cmd = "done" /\ ~opt.reset)
       THEN pc' = "idle" /\ step' = "DONE" /\ line' = <<>> /\ UNCHANGED cmd
       ELSE pc' = "send" /\ cmd' = After(cmd) /\ line' = rest /\ UNCHANGED step
  /\ blk' = IF cmd = "write" THEN blk + 1 ELSE blk

\* The acknowledgement or the answer did not come: only qSupported and the
\* reset are sent without looking at the result.
Missed ==
  IF cmd \in {"qSupported", "reset"} THEN Advance(line) ELSE Fail
-----------------------------------------------------------------------------
\* The file is only read in a dry run; else the UART is opened and flushed.
\* What an earlier update has not received is trouble for this one.
Job ==
  /\ pc = "idle" /\ jobs < MaxJobs
  /\ jobs' = jobs + 1 /\ len' \in 0 .. ProbeBlocks /\ opt' \in {Parsed(m) : m \in Metas}
  /\ \/ opt'.dry /\ pc' = "idle" /\ step' = "DONE" /\ trouble' = FALSE
     \/ ~opt'.dry /\ pc' = "send" /\ step' = "WRITE" /\ trouble' = (coming # <<>>)
     \/ pc' = "idle" /\ step' = "ERROR" /\ trouble' = TRUE
  /\ blk' = 0 /\ cmd' = "qSupported" /\ line' = <<>> /\ got' = "" /\ room' = 0
  /\ answered' = FALSE /\ swallowed' = FALSE /\ doubt' = FALSE
  /\ UNCHANGED <<flash, coming>>

\* What the target does for a command that its probe answers with OK.  Without
\* a size in the meta nothing is erased.
Done(c) ==
  CASE c = "erase" ->
         [b \in DOMAIN flash |-> IF opt.sized /\ b < len THEN Erased ELSE flash[b]]
    [] c = "write" ->
         [flash EXCEPT ![blk] = IF @ = Erased THEN jobs ELSE Wrong]
    [] OTHER -> flash

\* A packet is sent; the probe answers in its own time.
Send ==
  /\ pc = "send" /\ (cmd = "write" => blk < len)
  /\ \/ \E a \in Bodies \cup {"none", "-"} :
          /\ coming' = coming \o Packet(a)
          /\ answered' = (a \in Bodies)
          /\ trouble' = (trouble \/ a \notin {"OK", "long"}
                                 \/ (a = "long" /\ cmd \in {"write", "done"}))
          /\ flash' = IF a = "OK" THEN Done(cmd) ELSE flash
          /\ pc' = "ack" /\ UNCHANGED <<step, cmd, line, blk>>
     \/ Missed /\ trouble' = TRUE /\ UNCHANGED <<coming, answered, flash>>
  /\ got' = "" /\ room' = AckRead
  /\ UNCHANGED <<jobs, len, doubt, opt, swallowed>>

\* The end of the file, or a read error that looks like it.
EndOfFile ==
  /\ pc = "send" /\ cmd = "write"
  /\ cmd' = "done" /\ doubt' = (doubt \/ blk < len)
  /\ UNCHANGED <<pc, step, jobs, flash, len, blk, trouble, opt, link>>

\* A piece arrives; without a driver it is lost.
Arrive ==
  /\ coming # <<>>
  /\ coming' = Tail(coming)
  /\ line' = IF pc = "idle" THEN <<>> ELSE Append(line, Head(coming))
  /\ UNCHANGED <<pc, step, jobs, flash, len, blk, trouble, doubt, opt, cmd, got, room,
                 answered, swallowed>>

\* wait_ack reads what is there, the last piece perhaps in part, ...
ReadAck ==
  /\ pc = "ack" /\ line # <<>> /\ room > 0
  /\ LET p == Head(line)
     IN  /\ got' = IF got = "" THEN p ELSE got
         /\ \/ Bytes(p) <= room /\ line' = Tail(line) /\ room' = room - Bytes(p)
            \/ Bytes(p) > room /\ line' = <<"junk">> \o Tail(line) /\ room' = 0
         /\ swallowed' = (swallowed \/ p \in Bodies)
  /\ UNCHANGED <<pc, step, jobs, flash, len, blk, trouble, doubt, opt, cmd, coming, answered>>

\* ... until its buffer is full or the time is up, and looks at the first byte.
CheckAck ==
  /\ pc = "ack" /\ (line = <<>> \/ room = 0)
  /\ IF got = "+"
       THEN pc' = "response" /\ UNCHANGED <<step, cmd, line, blk, trouble>>
       ELSE Missed /\ trouble' = (trouble \/ coming # <<>>)
  /\ IF line = <<>> /\ room < AckRead
       THEN \E c \in Cut : coming' = c /\ swallowed' = (swallowed \/ c # coming)
       ELSE UNCHANGED <<coming, swallowed>>
  /\ got' = "" /\ room' = 0
  /\ UNCHANGED <<jobs, flash, len, doubt, opt, answered>>

\* Is the answer just read to an earlier command?
Stale == ~answered \/ \E i \in DOMAIN (Tail(line) \o coming) :
                         (Tail(line) \o coming)[i] \in Bodies

\* Faulty variant for Response: the answer to a write is not looked at.
ResponseIgnored(p) ==
  /\ Advance(Tail(line)) /\ UNCHANGED trouble
  /\ doubt' = (doubt \/ (cmd \in {"erase", "write", "done"} /\ Stale)
                     \/ (cmd = "erase" /\ p # "OK"))

\* A whole answer: that to a write and to vFlashDone has to begin with OK.
Response(p) ==
  /\ IF cmd \in {"write", "done"} /\ p # "OK"
       THEN Fail /\ trouble' = TRUE
       ELSE Advance(Tail(line)) /\ UNCHANGED trouble
  /\ doubt' = (doubt \/ (cmd \in {"erase", "write", "done"} /\ Stale)
                     \/ (cmd = "erase" /\ p # "OK"))

\* read_response skips to "$" and reads up to "#".
ReadResponse ==
  /\ pc = "response" /\ line # <<>>
  /\ \/ Head(line) \in Bodies /\ Response(Head(line))
     \/ /\ Head(line) \notin Bodies
        /\ line' = Tail(line) /\ UNCHANGED <<pc, step, cmd, blk, trouble, doubt>>
  /\ UNCHANGED <<jobs, flash, len, opt, coming, got, room, answered, swallowed>>

\* The time for the answer is up.
ResponseLate ==
  /\ pc = "response" /\ line = <<>>
  /\ Missed /\ trouble' = (trouble \/ coming # <<>>) /\ coming' \in Cut
  /\ UNCHANGED <<jobs, flash, len, doubt, opt, got, room, answered, swallowed>>

Update == Send \/ EndOfFile \/ ReadAck \/ CheckAck \/ ReadResponse \/ ResponseLate
=============================================================================
