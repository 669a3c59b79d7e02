----------------------------- MODULE StmUpdate -----------------------------
(***************************************************************************)
(* stm32_update.c: the bootloader of an STM32 is synchronised with, told   *)
(* to erase everything and given the file in blocks of 256 bytes.  The     *)
(* executor never touches fw_state once it runs.  Its use of UART1 is in   *)
(* RoleUart.  The target is external: it acknowledges, refuses or does not *)
(* answer, and a wait ends in time.                                        *)
(***************************************************************************)
EXTENDS Integers

CONSTANTS
  StmBlocks,   \* blocks of 256 bytes in the target's flash
  BlockBytes,  \* bytes of a full block: 256 in the code ...
  ByteWidth,   \* ... and of the values of a uint8_t: 256 in the code
  StmTails,    \* possible sizes of the last block of a file
  MaxJobs      \* bound on the updates

StmAssumption ==
  /\ {StmBlocks, MaxJobs} \subseteq Nat /\ {BlockBytes, ByteWidth} \subseteq Nat \ {0}
  /\ StmTails \subseteq 1 .. BlockBytes
  /\ BlockBytes <= ByteWidth

VARIABLES
  pc, step, jobs, flash, len, blk, trouble, doubt, ret,   \* as in CanUpdate
  last         \* bytes of the file's last block


Erased == -1

\* The length that stm32_bl_write_block is given for block b.
Length(b) == (IF b = len - 1 THEN last ELSE BlockBytes) % ByteWidth

\* ESP_FAIL; c says whether the card or the target failed a request.
Fail(c) == pc' = "idle" /\ ret' = "fail" /\ trouble' = (trouble \/ c)

Goto(l) == pc' = l /\ UNCHANGED <<ret, trouble>>
-----------------------------------------------------------------------------
\* stm32_update_set_file, and the UART.
Job ==
  /\ pc = "idle" /\ jobs < MaxJobs
  /\ jobs' = jobs + 1 /\ len' \in 0 .. StmBlocks /\ last' \in StmTails
  /\ pc' = "sync" /\ ret' = "none" /\ trouble' = FALSE /\ doubt' = FALSE
  /\ UNCHANGED <<step, flash, blk>>

\* 0x7F, acknowledged within half a second.
Sync ==
  /\ pc = "sync"
  /\ Goto("erase") \/ Fail(TRUE)
  /\ UNCHANGED <<step, jobs, flash, len, blk, doubt, last>>

\* The command and then 0xFFFF for everything: the target may erase and its
\* second acknowledgement come too late.
Erase ==
  /\ pc = "erase"
  /\ \/ flash' = [b \in DOMAIN flash |-> Erased] /\ (Goto("open") \/ Fail(TRUE))
     \/ Fail(TRUE) /\ UNCHANGED flash
  /\ UNCHANGED <<step, jobs, len, blk, doubt, last>>

\* Only now the card is initialised and the file opened.
Open ==
  /\ pc = "open"
  /\ Goto("block") \/ Fail(TRUE)
  /\ blk' = 0
  /\ UNCHANGED <<step, jobs, flash, len, doubt, last>>

\* A block: command, address, then length, data and checksum, each of them
\* acknowledged.  A length of 0 is refused before anything is sent.
Block ==
  /\ pc = "block" /\ blk < len
  /\ \/ Length(blk) = 0 /\ Fail(FALSE) /\ UNCHANGED <<flash, blk>>
     \/ /\ Length(blk) # 0
        /\ \/ /\ flash' = [flash EXCEPT ![blk] = jobs]
              /\ \/ blk' = blk + 1 /\ Goto("block")
                 \/ Fail(TRUE) /\ UNCHANGED blk
           \/ Fail(TRUE) /\ UNCHANGED <<flash, blk>>
  /\ UNCHANGED <<step, jobs, len, doubt, last>>

\* The end of the file, or a read error that looks like it.
Finish ==
  /\ pc = "block"
  /\ pc' = "idle" /\ ret' = "ok" /\ doubt' = (blk < len)
  /\ UNCHANGED <<step, jobs, flash, len, blk, trouble, last>>

Update == Sync \/ Erase \/ Open \/ Block \/ Finish
=============================================================================
