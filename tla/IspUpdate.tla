----------------------------- MODULE IspUpdate -----------------------------
(***************************************************************************)
(* uart_isp_update.c, uart_isp_lowlevel.c and the live part of             *)
(* nxp_isp/isp.c: an LPC is synchronised with, erased sector by sector and *)
(* programmed block by block.  A block goes into the RAM of the target in  *)
(* parts of 512 bytes, which the target may ask to be sent again; then its *)
(* sector is prepared and RAM is copied to flash.                          *)
(*                                                                         *)
(* The target is external: its answer to a command is drawn within the     *)
(* action that sends the command, as the driver waits for it or times out. *)
(* It refuses to erase or copy to a sector that was not prepared.  Lines   *)
(* that the driver skips while it waits for OK or RESEND are left out.     *)
(***************************************************************************)
EXTENDS Integers

CONSTANTS
  PerSector,   \* blocks in a sector; the same for all sectors here
  Parts,       \* parts of 512 bytes in a block
  Resends,     \* what "resend" is set to: 5 in the code
  Retries,     \* attempts to synchronise: 100 in the code
  BankA,       \* possible numbers of sectors in bank A of the target ...
  BankB,       \* ... and in bank B: 0 for a target of one bank
  MaxJobs      \* bound on the updates

IspAssumption ==
  /\ {PerSector, Parts, Resends, Retries} \subseteq Nat \ {0}
  /\ BankA \subseteq Nat \ {0} /\ BankB \subseteq Nat /\ MaxJobs \in Nat

VARIABLES
  target,      \* what partDef says of the target: sectors of its banks, UUENCODE
  flash,       \* what each block of its flash holds: the job that wrote it, ...
  ram,         \* the block that each part of its buffer holds data of, or Garbled
  prepared,    \* the sector it is ready to erase or write, or None
  pc,          \* where uart_isp_update_start is
  len,         \* blocks of the image
  tries,       \* attempts to synchronise
  sector, local, bank,   \* i, startSector and bank of uart_isp_erase_all
  blk, part,   \* the block being written and its part
  resend,      \* the counter of WriteToRAM
  step,        \* fw_state's step
  jobs,        \* number of updates begun
  trouble,     \* history: in this update the host or the target failed a request
  doubt        \* history: the code took data for written that was not

Erased  == -1
Wrong   == -2
Garbled == -1
None    == -1

Sectors == target.a + target.b
Blocks  == Sectors * PerSector
InBankA == target.a * PerSector      \* its blocks in bank A

\* The number in the target of sector n of bank k, or None.
SectorOf(k, n) ==
  CASE k = 0 /\ n < target.a -> n
    [] k = 1 /\ n < target.b -> target.a + n
    [] OTHER -> None

BankOf(i) == IF i < target.a THEN 0 ELSE 1

\* LPCISP_GetSectorAddr of the address of block b, counted from the start of
\* bank A.  Bank B starts at an address of its own, beyond a gap.
SectorAt(b) == IF b < InBankA THEN b \div PerSector ELSE None

\* What a block of the image, or the block after it, programs.
Data(b) == IF b < len THEN jobs ELSE Erased

machine == <<target, flash, ram, prepared>>
erasing == <<sector, local, bank>>
writing == <<blk, part, resend>>

\* partDef, of which the sectors of the banks and the flag UUENCODE matter here.
PartDefs == [a : BankA, b : BankB, uuencode : BOOLEAN]

\* The state of the executor and of a fresh target, but for its flash.
LpcInit ==
  /\ target \in PartDefs
  /\ ram = [p \in 1 .. Parts |-> Garbled] /\ prepared = None
  /\ tries = 0 /\ sector = 0 /\ local = 0 /\ bank = 0 /\ part = 1 /\ resend = Resends

\* Report ERROR and leave, as a request of the driver was not met.
Fail == pc' = "idle" /\ step' = "ERROR" /\ trouble' = TRUE

\* Go on at l.
Goto(l) == pc' = l /\ UNCHANGED <<step, trouble>>
-----------------------------------------------------------------------------
\* An update begins: the card and the file may fail.
Job ==
  /\ pc = "idle" /\ jobs < MaxJobs
  /\ jobs' = jobs + 1 /\ len' \in 1 .. Blocks + 1
  /\ \/ pc' = "sync" /\ step' = "PREPARE" /\ trouble' = FALSE
     \/ Fail
  /\ tries' = 0 /\ doubt' = FALSE
  /\ UNCHANGED <<machine, erasing, writing>>

\* One attempt of Sync that the target does not answer.
SyncAgain ==
  /\ pc = "sync"
  /\ tries' = tries + 1
  /\ IF tries' < Retries THEN Goto("sync") ELSE Fail
  /\ UNCHANGED <<machine, len, erasing, writing, jobs, doubt>>

\* SendCommand: the target does what the command says and answers so, or it
\* answers something else or nothing, which the callers of Command treat alike.
Command(Done, kept) == Done \/ (Fail /\ UNCHANGED kept)

\* Synchronised: the autobaud character, the greeting and the frequency.
Synchronise ==
  /\ pc = "sync" /\ Goto("echo")
  /\ UNCHANGED <<machine, len, tries, erasing, writing, jobs, doubt>>

\* Echo takes any answer for consent: a target that refuses goes on echoing.
Echo ==
  /\ pc = "echo"
  /\ Command(Goto("part") \/ Goto("echoed"), <<>>)
  /\ UNCHANGED <<machine, len, tries, erasing, writing, jobs, doubt>>

\* LPCISP_ReadPartID takes the echo of its command for an answer other than 0.
ReadEcho ==
  /\ pc = "echoed" /\ Fail
  /\ UNCHANGED <<machine, len, tries, erasing, writing, jobs, doubt>>

\* GetPartInfo finds the target in partDef.  A part that is not there has no
\* sectors, and is given up like one that does not say its id.
Identify ==
  /\ pc = "part"
  /\ Command(Goto("unlock"), <<>>)
  /\ UNCHANGED <<machine, len, tries, erasing, writing, jobs, doubt>>

\* Unlock, the last command of LPCISP_Sync: "DEVICE ATTACHED".
Unlock ==
  /\ pc = "unlock"
  /\ Command(pc' = "erase" /\ step' = "WRITE" /\ UNCHANGED trouble, <<>>)
  /\ sector' = 0 /\ local' = 0 /\ bank' = 0
  /\ UNCHANGED <<machine, len, tries, writing, jobs, doubt>>

\* LPCISP_Erase: sector s is prepared and erased.
EraseSector(s) ==
  flash' = [b \in DOMAIN flash |-> IF b \div PerSector = s THEN Erased ELSE flash[b]]

\* Faulty variant for Erase: startSector does not advance.
EraseFirst ==
  /\ pc = "erase" /\ sector < Sectors
  /\ LET k == BankOf(sector)
         s == SectorOf(k, 0)
     IN  EraseSector(s) /\ sector' = sector + 1 /\ bank' = k /\ Goto("erase")
  /\ prepared' = None
  /\ UNCHANGED <<target, ram, len, tries, local, writing, jobs, doubt>>

\* One turn of the loop of uart_isp_erase_all: prepare and erase a sector,
\* numbered within its bank.
Erase ==
  /\ pc = "erase" /\ sector < Sectors
  /\ LET k == BankOf(sector)
         n == IF k # bank THEN 0 ELSE local
         s == SectorOf(k, n)
     IN  Command(/\ s # None /\ EraseSector(s)
                 /\ sector' = sector + 1 /\ local' = n + 1 /\ bank' = k
                 /\ Goto("erase"), <<flash, erasing>>)
  /\ prepared' = None
  /\ UNCHANGED <<target, ram, len, tries, writing, jobs, doubt>>

\* The image is loaded: memory or the card may fail.
Load ==
  /\ pc = "erase" /\ sector = Sectors
  /\ Goto("buffer") \/ Fail
  /\ blk' = 0
  /\ UNCHANGED <<machine, len, tries, erasing, part, resend, jobs, doubt>>

\* LPCISP_WriteToFlash without memory for its buffer writes nothing and
\* returns 0, for success.
Buffer ==
  /\ pc = "buffer"
  /\ \/ Goto("ram") /\ UNCHANGED doubt
     \/ Goto("finish") /\ doubt' = TRUE
  /\ part' = 1 /\ resend' = Resends
  /\ UNCHANGED <<machine, len, tries, erasing, blk, jobs>>

\* WriteRAMAddress: the address and the count of a part, the first time.
Address ==
  /\ pc = "ram" /\ part <= Parts /\ resend > 0
  /\ IF resend = Resends THEN Command(Goto("lines"), <<>>) ELSE Goto("lines")
  /\ UNCHANGED <<machine, len, tries, erasing, writing, jobs, doubt>>

\* The lines of a part and their checksum are out, and the target says OK.
PartTaken ==
  /\ ram' = [ram EXCEPT ![part] = blk]
  /\ part' = part + 1 /\ resend' = Resends
  /\ Goto("ram") /\ UNCHANGED doubt

\* The part arrives garbled.  The target asks for it again; one without
\* UUENCODE is sent no checksum and answers nothing.
PartGarbled ==
  /\ ram' = [ram EXCEPT ![part] = Garbled]
  /\ IF target.uuencode
       THEN resend' = resend - 1 /\ UNCHANGED <<part, doubt>>
       ELSE part' = part + 1 /\ doubt' = TRUE /\ UNCHANGED resend
  /\ Goto("ram")

\* A part is written to RAM, refused or not answered.
SendPart ==
  /\ pc = "lines"
  /\ Command(PartTaken \/ PartGarbled, <<ram, part, resend, doubt>>)
  /\ UNCHANGED <<target, flash, prepared, len, tries, erasing, blk, jobs>>

\* Faulty variant for RamWritten: it waits for a part to be accepted.
RamWrittenWhole ==
  /\ pc = "ram" /\ part > Parts
  /\ Goto("prepare")
  /\ UNCHANGED <<machine, len, tries, erasing, writing, jobs, doubt>>

\* WriteToRAM returns, with success also when resend has counted down to 0.
RamWritten ==
  /\ pc = "ram" /\ (part > Parts \/ resend = 0)
  /\ doubt' = (doubt \/ part <= Parts)
  /\ Goto("prepare")
  /\ UNCHANGED <<machine, len, tries, erasing, writing, jobs>>

\* Faulty variant for Prepare: the block's number is taken for its sector's.
PrepareBlock ==
  /\ pc = "prepare"
  /\ LET s == SectorOf(0, blk)
     IN  \/ s # None /\ prepared' = s /\ Goto("copy")
         \/ /\ s = None /\ pc' = "idle" /\ step' = "ERROR"
            /\ UNCHANGED <<prepared, trouble>>
  /\ UNCHANGED <<target, flash, ram, len, tries, erasing, writing, jobs, doubt>>

\* The sector is looked up in the map, and prepared in bank 0.
Prepare ==
  /\ pc = "prepare"
  /\ LET n == SectorAt(blk)
         s == IF n = None THEN None ELSE SectorOf(0, n)
     IN  \/ s # None /\ prepared' = s /\ Goto("copy")
         \/ /\ s = None /\ pc' = "idle" /\ step' = "ERROR"
            /\ UNCHANGED <<prepared, trouble>>
         \/ Fail /\ UNCHANGED prepared
  /\ UNCHANGED <<target, flash, ram, len, tries, erasing, writing, jobs, doubt>>

\* RAM is copied to flash.  After the image one more block, of 0xFF, is
\* written.
Copy ==
  /\ pc = "copy"
  /\ Command(/\ prepared = SectorAt(blk)
             /\ flash' = [flash EXCEPT ![blk] =
                            IF \A p \in 1 .. Parts : ram[p] = blk THEN Data(blk) ELSE Wrong]
             /\ blk' = blk + 1
             /\ Goto(IF blk < len THEN "ram" ELSE "finish"), <<flash, blk>>)
  /\ prepared' = None /\ part' = 1 /\ resend' = Resends
  /\ UNCHANGED <<target, ram, len, tries, erasing, jobs, doubt>>

\* "Completed", uart_isp_finalize, which does nothing, and the close.
Finish ==
  /\ pc = "finish"
  /\ pc' = "idle" /\ step' = "DONE"
  /\ UNCHANGED <<machine, len, tries, erasing, writing, jobs, trouble, doubt>>

Update == SyncAgain \/ Synchronise \/ Echo \/ ReadEcho \/ Identify \/ Unlock
          \/ Erase \/ Load \/ Buffer \/ Address \/ SendPart \/ RamWritten
          \/ Prepare \/ Copy \/ Finish
-----------------------------------------------------------------------------
TypeOK ==
  /\ target \in PartDefs
  /\ flash \in [0 .. Blocks - 1 -> 0 .. MaxJobs \cup {Erased, Wrong}]
  /\ ram \in [1 .. Parts -> 0 .. Blocks \cup {Garbled}]
  /\ prepared \in 0 .. Sectors - 1 \cup {None}
  /\ pc \in {"idle", "sync", "echo", "echoed", "part", "unlock", "erase", "lines", "buffer", "ram", "prepare", "copy", "finish"}
  /\ len \in 1 .. Blocks + 1 /\ tries \in 0 .. Retries
  /\ sector \in 0 .. Sectors /\ local \in 0 .. Sectors /\ bank \in {0, 1}
  /\ blk \in 0 .. Blocks /\ part \in 1 .. Parts + 1 /\ resend \in 0 .. Resends
  /\ step \in {"PREPARE", "WRITE", "DONE", "ERROR"}
  /\ jobs \in 0 .. MaxJobs /\ trouble \in BOOLEAN /\ doubt \in BOOLEAN
=============================================================================
