-------------------------- MODULE Executors_proofs --------------------------
(***************************************************************************)
(* Proofs about Executors and the four update modules it runs: what is     *)
(* said to be done is programmed, a block is written only where the flash  *)
(* is erased, and an update fails only for a cause, for every image, board *)
(* and number of updates.                                                  *)
(***************************************************************************)
EXTENDS Executors, TLAPS

\* What all boards have in common.
Common ==
  /\ board \in {"lpc", "can", "stm", "probe"}
  /\ flash \in [0 .. Size(board, target) - 1 -> Int]
  /\ {ran, jobs, len, blk} \subseteq Nat
  /\ ran = 0 => pc = "idle"

\* The flash is erased from block b on; up to it, it holds the job's image.
ErasedFrom(b)    == \A c \in DOMAIN flash : c >= b => flash[c] = Erased
ProgrammedTo(b)  == \A c \in DOMAIN flash : c < b => flash[c] = jobs
-----------------------------------------------------------------------------
(* IspUpdate *)

LpcTypes ==
  /\ target \in Isp!PartDefs /\ ram \in [1 .. Parts -> Int]
  /\ {part, sector, local, bank} \subseteq Nat

\* The sectors are erased one by one; bank B is counted from 0 again.
LpcErasing ==
  pc = "erase" =>
    /\ sector <= Isp!Sectors
    /\ sector <= target.a => bank = 0 /\ local = sector
    /\ sector > target.a => bank = 1 /\ local = sector - target.a
    /\ \A b \in DOMAIN flash : b \div PerSector < sector => flash[b] = Erased

LpcWriting ==
  pc \in {"buffer", "ram", "lines", "prepare", "copy", "finish"} =>
    /\ ErasedFrom(blk)
    /\ ~doubt => \A b \in DOMAIN flash : b < blk => flash[b] = Isp!Data(b)
    /\ pc # "finish" => blk <= len
    /\ pc = "finish" /\ ~doubt => blk > len

\* The parts of the block that have gone to the target are those of this block.
LpcRam ==
  /\ pc = "lines" => part <= Parts
  /\ pc \in {"ram", "lines", "prepare", "copy"} /\ ~doubt =>
       \A p \in 1 .. Parts : p < part => ram[p] = blk
  /\ pc \in {"prepare", "copy"} /\ ~doubt => part > Parts

LpcEnd ==
  pc = "idle" /\ ran > 0 =>
    /\ step = "DONE" /\ ~doubt => \A b \in DOMAIN flash : flash[b] = Isp!Data(b)
    /\ step = "ERROR" /\ ~trouble => len >= target.a * PerSector

LpcInv == LpcTypes /\ LpcErasing /\ LpcWriting /\ LpcRam /\ LpcEnd
-----------------------------------------------------------------------------
(* CanUpdate *)

CanTypes ==
  /\ rx \in [want : Nat, got : Nat, next : Nat]
  /\ {tail, index, sent, seq} \subseteq Nat

CanErasing ==
  /\ pc = "check" => rate = Can!timing_from_bps(asked)
  /\ pc = "erase" =>
       index < Indexes /\ \A b \in DOMAIN flash : b % Indexes < index => flash[b] = Erased

CanWriting ==
  pc \in {"page", "flow", "frames", "write", "finish"} =>
    /\ ErasedFrom(blk) /\ ProgrammedTo(blk) /\ blk <= len
    /\ pc \in {"flow", "frames", "write"} => blk < len
    /\ pc = "finish" => doubt

\* The target has of the page what was sent, and expects the next number.
CanPage ==
  /\ pc \in {"flow", "frames", "write"} => rx.want = Can!Bytes(blk)
  /\ pc \in {"flow", "frames"} => seq = rx.next /\ rx.got = Can!Least(rx.want, sent)
  /\ pc = "write" => rx.got = rx.want

\* The step DONE that an earlier update may have left is replaced at once.
CanStep == step = "DONE" => pc \in {"idle", "start"}

CanEnd ==
  pc = "idle" /\ ran > 0 =>
    /\ step = "DONE" /\ ~doubt => ProgrammedTo(len) /\ ErasedFrom(len)
    /\ ret = "fail" /\ ~trouble => Can!timing_from_bps(asked) # BootRate

CanInv == CanTypes /\ CanErasing /\ CanWriting /\ CanPage /\ CanStep /\ CanEnd
-----------------------------------------------------------------------------
(* StmUpdate *)

StmInv ==
  /\ last \in 1 .. BlockBytes
  /\ pc = "open" => ErasedFrom(0)
  /\ pc = "block" => ErasedFrom(blk) /\ ProgrammedTo(blk) /\ blk <= len
  /\ pc = "idle" /\ ran > 0 =>
       /\ ret = "ok" /\ ~doubt => ProgrammedTo(len) /\ ErasedFrom(len)
       /\ ret = "fail" /\ ~trouble => len > 1 \/ last = BlockBytes
-----------------------------------------------------------------------------
(* ProbeUpdate *)

ProbeTypes == coming \in Seq(Probe!Pieces) /\ line \in Seq(Probe!Pieces) /\ cmd \in Probe!Commands

\* The update is one about which DoneIsProgrammed and WritesErased speak.
Erasing == opt.erase /\ opt.sized /\ ~doubt

\* Blocks from b on that belong to the image are erased.
RoomFrom(b) == \A c \in DOMAIN flash : b <= c /\ c < len => flash[c] = Erased

\* What has been erased and written so far.
ProbeWriting ==
  pc # "idle" /\ Erasing =>
    /\ cmd \in {"write", "done", "reset"} => ProgrammedTo(blk)
    /\ cmd = "write" => RoomFrom(blk + 1)
    /\ cmd = "write" /\ pc = "send" => RoomFrom(blk)
    /\ cmd \in {"done", "reset"} => blk >= len
    /\ cmd \in {"erase", "attach", "scan", "qSupported"} => blk = 0

\* What the target has done if it answered OK to the command.
Met == /\ cmd = "erase" /\ opt.sized => RoomFrom(0)
       /\ cmd = "write" => ProgrammedTo(blk + 1)

NoBodies(s) == \A i \in DOMAIN s : s[i] \notin Probe!Bodies

\* An OK is the last answer in s.
LastOK(s) ==
  \E i \in DOMAIN s : s[i] = "OK" /\ \A j \in DOMAIN s : j > i => s[j] \notin Probe!Bodies

\* If the probe answered the command, then its answer is the last one under
\* way, as nothing is reordered.
AnswerLast ==
  pc \in {"ack", "response"} /\ answered /\ Erasing =>
    /\ LastOK(coming) => Met
    /\ LastOK(line) /\ NoBodies(coming) => Met

\* The answer to the command, of a probe that met every request so far.
Good(a) == a \in {"OK", "long"} /\ (cmd \in {"write", "done"} => a = "OK")

\* What is under way as long as nothing was late and nothing swallowed.
InStep ==
  ~trouble /\ ~swallowed =>
    /\ pc = "send" => line = <<>> /\ coming = <<>>
    /\ pc = "ack" =>
         \E a \in Probe!Bodies :
           /\ Good(a)
           /\ \/ /\ got = "" /\ room = AckRead
                 /\ \/ line = <<>> /\ coming = <<"+", a>>
                    \/ line = <<"+">> /\ coming = <<a>>
                    \/ line = <<"+", a>> /\ coming = <<>>
              \/ /\ got = "+"
                 /\ (line = <<a>> /\ coming = <<>>) \/ (line = <<>> /\ coming = <<a>>)
    /\ pc = "response" =>
         \E a \in Probe!Bodies :
           /\ Good(a)
           /\ (line = <<a>> /\ coming = <<>>) \/ (line = <<>> /\ coming = <<a>>)

ProbeEnd ==
  pc = "idle" /\ ran > 0 =>
    /\ step = "DONE" /\ ~opt.dry /\ Erasing => ProgrammedTo(len)
    /\ step = "ERROR" /\ ~trouble => swallowed

ProbeInv == ProbeTypes /\ ProbeWriting /\ AnswerLast /\ InStep /\ ProbeEnd
-----------------------------------------------------------------------------
BoardInv ==
  /\ board = "lpc" => LpcInv
  /\ board = "can" => CanInv
  /\ board = "stm" => StmInv
  /\ board = "probe" => ProbeInv

ExecInv == Common /\ BoardInv
-----------------------------------------------------------------------------
\* Erasing and writing blocks leave a flash.
LEMMA FlashWrite ==
  ASSUME NEW D, NEW f \in [D -> Int], NEW b, NEW d \in Int
  PROVE  [f EXCEPT ![b] = d] \in [D -> Int]
  OBVIOUS
-----------------------------------------------------------------------------
(***************************************************************************)
(* IspUpdate.                                                              *)
(***************************************************************************)
\* A block is in the bank that its sector is in.
LEMMA SectorBounds ==
  ASSUME NEW p \in Nat \ {0}, NEW n \in Nat, NEW b \in Nat
  PROVE  /\ b \div p \in Nat
         /\ b < n * p => b \div p < n
         /\ b \div p < n => b < n * p
<1> DEFINE q == b \div p
           r == b % p
<1>1. q \in Nat /\ r \in Nat /\ r < p /\ b = p * q + r
  OBVIOUS
<1> HIDE DEF q, r
<1>2. ASSUME b < n * p, n <= q PROVE FALSE
  <2>1. n * p <= q * p
    BY <1>1, <1>2
  <2> QED BY <1>1, <1>2, <2>1
<1>3. ASSUME q < n PROVE b < n * p
  <2>1. (q + 1) * p <= n * p
    BY <1>1, <1>3
  <2> QED BY <1>1, <2>1
<1>4. n <= q \/ q < n
  BY <1>1
<1> QED BY <1>1, <1>2, <1>3, <1>4 DEF q

LEMMA LpcJobKeeps ==
  ASSUME Common, LpcInv, board = "lpc", board' = "lpc", Isp!Job, ran' = ran + 1
  PROVE  Common' /\ LpcInv'
  BY DEF Isp!Job, Isp!Fail, Isp!machine, Isp!erasing, Isp!writing, Common, LpcInv, LpcTypes, LpcErasing,
     LpcWriting, LpcRam, LpcEnd

\* The steps before the flash is touched.
LEMMA LpcPrologueKeeps ==
  ASSUME Common, LpcInv, board = "lpc", UNCHANGED <<board, ran>>,
         Isp!SyncAgain \/ Isp!Synchronise \/ Isp!Echo \/ Isp!ReadEcho \/ Isp!Identify
  PROVE  Common' /\ LpcInv'
  BY DEF Isp!SyncAgain, Isp!Synchronise, Isp!Echo, Isp!ReadEcho, Isp!Identify, Isp!Command, Isp!Goto,
     Isp!Fail, Isp!machine, Isp!erasing, Isp!writing, Common, LpcInv, LpcTypes, LpcErasing,
     LpcWriting, LpcRam, LpcEnd

\* What partDef says of a target.
LEMMA LpcTarget ==
  ASSUME LpcTypes
  PROVE  target.a \in Nat /\ target.b \in Nat /\ Isp!Sectors = target.a + target.b
         /\ PerSector \in Nat \ {0} /\ Parts \in Nat \ {0}
  BY ExecAssumption DEF ExecAssumption, Isp!IspAssumption, LpcTypes, Isp!PartDefs, Isp!Sectors

LEMMA LpcUnlockKeeps ==
  ASSUME Common, LpcInv, board = "lpc", UNCHANGED <<board, ran>>, Isp!Unlock
  PROVE  Common' /\ LpcInv'
<1>1. pc' = "erase" \/ (pc' = "idle" /\ step' = "ERROR" /\ trouble' = TRUE)
  BY DEF Isp!Unlock, Isp!Command, Isp!Fail
<1>2. /\ UNCHANGED <<target, flash, ram, prepared, len, blk, part, resend, jobs, doubt>>
      /\ sector' = 0 /\ local' = 0 /\ bank' = 0
  BY DEF Isp!Unlock, Isp!machine, Isp!writing
<1>3. Common' /\ LpcTypes'
  BY <1>1, <1>2, ExecAssumption DEF Common, LpcInv, LpcTypes, Isp!Unlock
<1>4. \A b \in DOMAIN flash : ~(b \div PerSector < 0)
  <2> SUFFICES ASSUME NEW b \in DOMAIN flash PROVE b \div PerSector \in Nat
    OBVIOUS
  <2>1. b \in Nat /\ PerSector \in Nat \ {0}
    BY ExecAssumption DEF Common, ExecAssumption, Isp!IspAssumption
  <2> QED BY <2>1, SectorBounds
<1>5. 0 <= target.a /\ 0 <= Isp!Sectors
  BY LpcTarget DEF LpcInv
<1>6. LpcErasing'
  BY <1>2, <1>4, <1>5, LpcTarget DEF LpcInv, LpcErasing, Isp!Sectors
<1> QED BY <1>1, <1>2, <1>3, <1>6 DEF LpcInv, LpcWriting, LpcRam, LpcEnd

\* The sector that a turn of uart_isp_erase_all erases is the next one.
LEMMA LpcEraseKeeps ==
  ASSUME Common, LpcInv, board = "lpc", UNCHANGED <<board, ran>>, Isp!Erase
  PROVE  Common' /\ LpcInv'
<1>1. /\ pc = "erase" /\ sector < Isp!Sectors /\ prepared' = -1
      /\ UNCHANGED <<target, ram, len, tries, blk, part, resend, jobs, doubt>>
  BY DEF Isp!Erase, Isp!writing, Isp!None
<1>2. CASE Isp!Fail /\ UNCHANGED <<flash, sector, local, bank>>
  BY <1>1, <1>2 DEF Isp!Fail, Common, LpcInv, LpcTypes, LpcErasing, LpcWriting, LpcRam, LpcEnd
<1>3. CASE ~(Isp!Fail /\ UNCHANGED <<flash, sector, local, bank>>)
  <2> DEFINE k == Isp!BankOf(sector)
             n == IF k # bank THEN 0 ELSE local
  <2>1. /\ Isp!EraseSector(Isp!SectorOf(k, n)) /\ sector' = sector + 1 /\ local' = n + 1
        /\ bank' = k /\ pc' = "erase" /\ UNCHANGED <<step, trouble>>
    BY <1>3 DEF Isp!Erase, Isp!Command, Isp!erasing, Isp!Goto
  <2>2. /\ Isp!SectorOf(k, n) = sector
        /\ k = IF sector < target.a THEN 0 ELSE 1
        /\ n = IF sector < target.a THEN sector ELSE sector - target.a
    BY <1>1, LpcTarget DEF LpcInv, LpcErasing, LpcTypes, Isp!SectorOf, Isp!BankOf
  <2> HIDE DEF k, n
  <2>3. flash' = [b \in DOMAIN flash |-> IF b \div PerSector = sector THEN Erased ELSE flash[b]]
    BY <2>1, <2>2 DEF Isp!EraseSector, Isp!Erased, Erased
  <2>4. Common' /\ LpcTypes'
    BY <1>1, <2>1, <2>2, <2>3, LpcTarget DEF Common, LpcInv, LpcTypes, Erased
  <2>5. \A b \in DOMAIN flash' : b \div PerSector < sector + 1 => flash'[b] = Erased
    <3> SUFFICES ASSUME NEW b \in DOMAIN flash, b \div PerSector < sector + 1
                 PROVE  b \div PerSector = sector \/ b \div PerSector < sector
      BY <1>1, <2>3 DEF LpcInv, LpcErasing
    <3>1. b \in Nat /\ PerSector \in Nat \ {0}
      BY LpcTarget DEF Common, LpcInv
    <3>2. b \div PerSector \in Nat
      BY <3>1, SectorBounds
    <3> QED BY <3>2 DEF LpcInv, LpcTypes
  <2>6. LpcErasing'
    BY <1>1, <2>1, <2>2, <2>5, LpcTarget DEF LpcInv, LpcTypes, LpcErasing, Isp!Sectors
  <2> QED BY <1>1, <2>1, <2>4, <2>6 DEF LpcInv, LpcWriting, LpcRam, LpcEnd
<1> QED BY <1>2, <1>3

LEMMA LpcLoadKeeps ==
  ASSUME Common, LpcInv, board = "lpc", UNCHANGED <<board, ran>>, Isp!Load
  PROVE  Common' /\ LpcInv'
<1>1. /\ pc = "erase" /\ sector = Isp!Sectors /\ blk' = 0
      /\ pc' = "buffer" \/ (pc' = "idle" /\ step' = "ERROR" /\ trouble' = TRUE)
      /\ UNCHANGED <<target, flash, ram, prepared, len, tries, sector, local, bank, part, resend, jobs, doubt>>
  BY DEF Isp!Load, Isp!Goto, Isp!Fail, Isp!machine, Isp!erasing
<1>2. Common' /\ LpcTypes'
  BY <1>1 DEF Common, LpcInv, LpcTypes
<1>3. \A b \in DOMAIN flash : b \in Nat /\ flash[b] = Erased
  <2> SUFFICES ASSUME NEW b \in DOMAIN flash PROVE b \in Nat /\ b \div PerSector < sector
    BY <1>1 DEF LpcInv, LpcErasing
  <2>1. target.a + target.b \in Nat /\ PerSector \in Nat \ {0} /\ sector = target.a + target.b
    BY <1>1, LpcTarget DEF LpcInv
  <2>2. Size(board, target) = (target.a + target.b) * PerSector
    BY DEF Size
  <2>3. (target.a + target.b) * PerSector \in Nat
    BY <2>1
  <2>4. b \in 0 .. Size(board, target) - 1
    BY DEF Common
  <2>5. b \in Nat /\ b < (target.a + target.b) * PerSector
    BY <2>2, <2>3, <2>4
  <2> QED BY <2>1, <2>5, SectorBounds
<1>4. ErasedFrom(0)' /\ (\A b \in DOMAIN flash' : ~(b < 0)) /\ 0 <= len'
  BY <1>1, <1>3 DEF ErasedFrom, Common
<1>5. LpcWriting'
  BY <1>1, <1>4 DEF LpcWriting, ErasedFrom
<1> QED BY <1>1, <1>2, <1>5 DEF LpcInv, LpcErasing, LpcRam, LpcEnd

\* The steps of a block before its sector is prepared.
LEMMA LpcBlockKeeps ==
  ASSUME Common, LpcInv, board = "lpc", UNCHANGED <<board, ran>>,
         Isp!Buffer \/ Isp!Address \/ Isp!RamWritten
  PROVE  Common' /\ LpcInv'
<1>1. UNCHANGED <<target, flash, ram, len, tries, sector, local, bank, blk, jobs>>
  BY DEF Isp!Buffer, Isp!Address, Isp!RamWritten, Isp!machine, Isp!erasing, Isp!writing
<1>2. Common' /\ LpcTypes'
  BY <1>1 DEF Isp!Buffer, Isp!Address, Isp!RamWritten, Isp!writing, Common, LpcInv, LpcTypes
<1>3. LpcErasing' /\ LpcEnd'
  BY <1>1 DEF Isp!Buffer, Isp!Address, Isp!RamWritten, Isp!Command, Isp!Goto, Isp!Fail,
     LpcInv, LpcErasing, LpcEnd
<1>4. LpcWriting'
  BY <1>1 DEF Isp!Buffer, Isp!Address, Isp!RamWritten, Isp!Command, Isp!Goto, Isp!Fail,
     LpcInv, LpcWriting, ErasedFrom, Isp!Data
<1>5. CASE Isp!Buffer
  <2>1. part' = 1 /\ (pc' = "ram" \/ pc' = "finish")
    BY <1>5 DEF Isp!Buffer, Isp!Goto
  <2>2. \A p \in 1 .. Parts : ~(p < 1)
    OBVIOUS
  <2>3. LpcRam'
    BY <2>1, <2>2 DEF LpcRam
  <2> QED BY <1>2, <1>3, <1>4, <2>3 DEF LpcInv
<1>6. CASE Isp!Address
  <2>1. LpcRam'
    BY <1>1, <1>6 DEF Isp!Address, Isp!Command, Isp!Goto, Isp!Fail, Isp!writing, LpcInv, LpcRam
  <2> QED BY <1>2, <1>3, <1>4, <2>1 DEF LpcInv
<1>7. CASE Isp!RamWritten
  <2>1. pc = "ram" /\ pc' = "prepare" /\ part' = part
    BY <1>7 DEF Isp!RamWritten, Isp!Goto, Isp!writing
  <2>2. ~doubt' => ~doubt /\ ~(part <= Parts)
    BY <1>7 DEF Isp!RamWritten
  <2>3. part \in Nat /\ Parts \in Nat
    BY LpcTarget DEF LpcInv, LpcTypes
  <2>4. LpcRam'
    BY <1>1, <2>1, <2>2, <2>3 DEF LpcInv, LpcRam
  <2> QED BY <1>2, <1>3, <1>4, <2>4 DEF LpcInv
<1> QED BY <1>5, <1>6, <1>7

LEMMA LpcSendPartKeeps ==
  ASSUME Common, LpcInv, board = "lpc", UNCHANGED <<board, ran>>, Isp!SendPart
  PROVE  Common' /\ LpcInv'
<1>1. /\ pc = "lines"
      /\ UNCHANGED <<target, flash, prepared, len, tries, sector, local, bank, blk, jobs>>
  BY DEF Isp!SendPart, Isp!erasing
<1>2. CASE Isp!PartTaken \/ Isp!PartGarbled
  <2>1. pc' = "ram" /\ UNCHANGED <<step, trouble>>
    BY <1>2 DEF Isp!PartTaken, Isp!PartGarbled, Isp!Goto
  <2>2. Common' /\ LpcTypes'
    BY <1>1, <1>2, <2>1 DEF Isp!PartTaken, Isp!PartGarbled, Isp!Garbled, Common, LpcInv, LpcTypes
  <2>3. ~doubt' => \A p \in 1 .. Parts : p < part' => ram'[p] = blk
    <3> SUFFICES ASSUME ~doubt', NEW p \in 1 .. Parts, p < part' PROVE ram'[p] = blk
      OBVIOUS
    <3>1. ~doubt /\ part \in 1 .. Parts \cup {0} /\ ram \in [1 .. Parts -> Int]
      BY <1>1, <1>2, LpcTarget DEF Isp!PartTaken, Isp!PartGarbled, LpcInv, LpcTypes, LpcRam
    <3>2. p < part => ram[p] = blk
      BY <1>1, <3>1 DEF LpcInv, LpcRam
    <3>3. CASE Isp!PartTaken
      BY <3>1, <3>2, <3>3 DEF Isp!PartTaken
    <3>4. CASE Isp!PartGarbled
      BY <3>1, <3>2, <3>4 DEF Isp!PartGarbled
    <3> QED BY <1>2, <3>3, <3>4
  <2>4. LpcRam'
    BY <1>1, <2>1, <2>3 DEF LpcRam
  <2>5. doubt => doubt'
    BY <1>2 DEF Isp!PartTaken, Isp!PartGarbled
  <2>6. LpcWriting'
    BY <1>1, <2>1, <2>5 DEF LpcInv, LpcWriting, ErasedFrom, Isp!Data
  <2> QED BY <1>1, <2>1, <2>2, <2>4, <2>6 DEF LpcInv, LpcErasing, LpcEnd
<1>3. CASE Isp!Fail /\ UNCHANGED <<ram, part, resend, doubt>>
  BY <1>1, <1>3 DEF Isp!Fail, Common, LpcInv, LpcTypes, LpcErasing, LpcWriting, LpcRam, LpcEnd
<1> QED BY <1>2, <1>3 DEF Isp!SendPart, Isp!Command

\* A block whose sector is not found is beyond bank A.
LEMMA LpcPrepareKeeps ==
  ASSUME Common, LpcInv, board = "lpc", UNCHANGED <<board, ran>>, Isp!Prepare
  PROVE  Common' /\ LpcInv'
<1> DEFINE n == Isp!SectorAt(blk)
           s == IF n = Isp!None THEN Isp!None ELSE Isp!SectorOf(0, n)
<1>1. /\ pc = "prepare"
      /\ UNCHANGED <<target, flash, ram, len, tries, sector, local, bank, blk, part, resend, jobs, doubt>>
      /\ \/ pc' = "copy" /\ UNCHANGED <<step, trouble>>
         \/ s = Isp!None /\ pc' = "idle" /\ step' = "ERROR" /\ UNCHANGED trouble
         \/ pc' = "idle" /\ step' = "ERROR" /\ trouble' = TRUE
  BY DEF Isp!Prepare, Isp!Goto, Isp!Fail, Isp!erasing, Isp!writing
<1>2. Common' /\ LpcTypes' /\ LpcErasing'
  BY <1>1 DEF Common, LpcInv, LpcTypes, LpcErasing
<1>3. LpcWriting' /\ LpcRam'
  BY <1>1 DEF LpcInv, LpcWriting, LpcRam, ErasedFrom, Isp!Data
<1>4. ASSUME s = Isp!None PROVE len >= target.a * PerSector
  <2>1. blk \in Nat /\ len \in Nat /\ blk <= len /\ target.a \in Nat /\ PerSector \in Nat \ {0}
    BY <1>1, LpcTarget DEF Common, LpcInv, LpcWriting
  <2>2. ASSUME blk < target.a * PerSector PROVE FALSE
    <3>1. blk \div PerSector \in Nat /\ blk \div PerSector < target.a
      BY <2>1, <2>2, SectorBounds
    <3>2. n = blk \div PerSector /\ s = blk \div PerSector
      BY <2>2, <3>1 DEF Isp!SectorAt, Isp!InBankA, Isp!SectorOf, Isp!None
    <3> QED BY <1>4, <3>1, <3>2 DEF Isp!None
  <2>3. target.a * PerSector \in Nat
    BY <2>1
  <2> QED BY <2>1, <2>2, <2>3
<1> HIDE DEF s
<1>5. LpcEnd'
  BY <1>1, <1>4 DEF LpcEnd
<1> QED BY <1>2, <1>3, <1>5 DEF LpcInv

\* A block goes where the flash is erased.
LEMMA LpcCopyKeeps ==
  ASSUME Common, LpcInv, board = "lpc", UNCHANGED <<board, ran>>, Isp!Copy
  PROVE  Common' /\ LpcInv'
<1>1. /\ pc = "copy" /\ part' = 1
      /\ UNCHANGED <<target, ram, len, tries, sector, local, bank, jobs, doubt>>
  BY DEF Isp!Copy, Isp!erasing
<1>2. CASE Isp!Fail /\ UNCHANGED <<flash, blk>>
  BY <1>1, <1>2 DEF Isp!Fail, Common, LpcInv, LpcTypes, LpcErasing, LpcWriting, LpcRam, LpcEnd
<1>3. CASE ~(Isp!Fail /\ UNCHANGED <<flash, blk>>)
  <2> DEFINE data == IF \A p \in 1 .. Parts : ram[p] = blk THEN Isp!Data(blk) ELSE Isp!Wrong
  <2>1. /\ flash' = [flash EXCEPT ![blk] = data] /\ blk' = blk + 1
        /\ pc' = IF blk < len THEN "ram" ELSE "finish"
        /\ UNCHANGED <<step, trouble>>
    BY <1>3 DEF Isp!Copy, Isp!Command, Isp!Goto
  <2>2. data \in Int /\ blk \in Nat /\ len \in Nat
    BY DEF Common, Isp!Data, Isp!Wrong, Isp!Erased
  <2>3. ASSUME ~doubt PROVE data = Isp!Data(blk)
    <3>1. \A p \in 1 .. Parts : p < part
      BY <1>1, <2>3, LpcTarget DEF LpcInv, LpcTypes, LpcRam
    <3>2. \A p \in 1 .. Parts : ram[p] = blk
      BY <1>1, <2>3, <3>1 DEF LpcInv, LpcRam
    <3> QED BY <3>2
  <2> HIDE DEF data
  <2>4. flash' \in [0 .. Size(board, target) - 1 -> Int]
    BY <2>1, <2>2, FlashWrite DEF Common
  <2>5. blk + 1 \in Nat /\ pc' # "idle"
    BY <2>1, <2>2
  <2>6. Common' /\ LpcTypes'
    BY <1>1, <2>1, <2>4, <2>5 DEF Common, LpcInv, LpcTypes
  <2>7. ErasedFrom(blk)'
    BY <1>1, <2>1, <2>2 DEF Common, LpcInv, LpcWriting, ErasedFrom
  <2>8. ~doubt' => \A b \in DOMAIN flash' : b < blk' => flash'[b] = Isp!Data(b)
    BY <1>1, <2>1, <2>2, <2>3 DEF Common, LpcInv, LpcWriting
  <2>9. LpcWriting'
    BY <1>1, <2>1, <2>2, <2>7, <2>8 DEF LpcInv, LpcWriting, Isp!Data
  <2>10. LpcRam'
    BY <1>1, <2>1 DEF LpcRam
  <2> QED BY <1>1, <2>1, <2>6, <2>9, <2>10 DEF LpcInv, LpcErasing, LpcEnd
<1> QED BY <1>2, <1>3

LEMMA LpcFinishKeeps ==
  ASSUME Common, LpcInv, board = "lpc", UNCHANGED <<board, ran>>, Isp!Finish
  PROVE  Common' /\ LpcInv'
<1>1. /\ pc = "finish" /\ pc' = "idle" /\ step' = "DONE"
      /\ UNCHANGED <<target, flash, ram, len, sector, local, bank, blk, part, jobs, doubt, trouble>>
  BY DEF Isp!Finish, Isp!machine, Isp!erasing, Isp!writing
<1>2. ~doubt => \A b \in DOMAIN flash : flash[b] = Isp!Data(b)
  BY <1>1 DEF Common, LpcInv, LpcWriting, ErasedFrom, Isp!Data, Isp!Erased, Erased
<1>3. ran # 0
  BY <1>1 DEF Common
<1> QED BY <1>1, <1>2, <1>3 DEF Common, LpcInv, LpcTypes, LpcErasing, LpcWriting, LpcRam, LpcEnd, Isp!Data

LEMMA LpcUpdateKeeps ==
  ASSUME Common, LpcInv, board = "lpc", UNCHANGED <<board, ran>>, Isp!Update
  PROVE  Common' /\ LpcInv'
  BY LpcPrologueKeeps, LpcUnlockKeeps, LpcEraseKeeps, LpcLoadKeeps, LpcBlockKeeps,
     LpcSendPartKeeps, LpcPrepareKeeps, LpcCopyKeeps, LpcFinishKeeps DEF Isp!Update
-----------------------------------------------------------------------------
(***************************************************************************)
(* CanUpdate.                                                              *)
(***************************************************************************)
LEMMA CanAssumed ==
  /\ Indexes \in Nat \ {0} /\ PageBytes \in Nat \ {0} /\ Wrap \in Nat \ {0}
  /\ Tails \subseteq Nat \ {0}
  BY ExecAssumption DEF ExecAssumption, Can!CanAssumption

\* A request is met, or it fails.
LEMMA CanFails ==
  ASSUME NEW c, Can!Fail(c)
  PROVE  pc' = "idle" /\ ret' = "fail" /\ (c \/ trouble => trouble')
  BY DEF Can!Fail

LEMMA CanRequests ==
  ASSUME NEW l, Can!Request(l)
  PROVE  (pc' = l /\ ret' = ret) \/ (pc' = "idle" /\ trouble')
  BY CanFails DEF Can!Request, Can!Goto

LEMMA CanOpens ==
  ASSUME NEW bps, NEW l, Can!Open(bps, l)
  PROVE  (pc' = l /\ rate' = Can!timing_from_bps(bps)) \/ (pc' = "idle" /\ trouble')
  BY CanFails DEF Can!Open, Can!Goto

LEMMA CanJobKeeps ==
  ASSUME Common, CanInv, board = "can", UNCHANGED <<board, target>>, Can!Job, ran' = ran + 1
  PROVE  Common' /\ CanInv'
<1>1. /\ pc' = "start" \/ (pc' = "idle" /\ step' = "ERROR" /\ trouble' = TRUE)
      /\ UNCHANGED <<flash, blk, rate, index, sent, seq, rx>>
      /\ jobs' = jobs + 1 /\ len' \in 0 .. MaxPages /\ tail' \in Tails
  BY DEF Can!Job
<1>2. Common'
  BY <1>1 DEF Common
<1>3. CanTypes'
  BY <1>1, CanAssumed DEF CanInv, CanTypes
<1> QED BY <1>1, <1>2, <1>3 DEF CanInv, CanErasing, CanWriting, CanPage, CanStep, CanEnd

\* The steps before the flash is touched.
LEMMA CanPrologueKeeps ==
  ASSUME Common, CanInv, board = "can", UNCHANGED <<board, ran, target>>,
         Can!OpenSlow \/ Can!Enter \/ Can!OpenFast
  PROVE  Common' /\ CanInv'
<1>1. UNCHANGED <<jobs, flash, len, blk, doubt, tail, mine, asked, index, sent, seq, rx>>
  BY DEF Can!OpenSlow, Can!Enter, Can!OpenFast, Can!can
<1>2. /\ \/ pc' = "idle" /\ trouble'
         \/ pc' \in {"enter", "boot"}
         \/ pc' = "check" /\ rate' = Can!timing_from_bps(asked)
      /\ step' # "DONE" /\ pc # "idle"
  <2>1. CASE Can!OpenSlow
    <3>1. \E bps : Can!Open(bps, "enter")
      BY <2>1, Zenon DEF Can!OpenSlow
    <3>2. pc = "start" /\ step' = "PREPARE"
      BY <2>1, Zenon DEF Can!OpenSlow
    <3> QED BY <3>1, <3>2, CanOpens
  <2>2. CASE Can!Enter
    BY <2>2, CanRequests DEF Can!Enter, CanInv, CanStep
  <2>3. CASE Can!OpenFast
    BY <2>3, CanOpens DEF Can!OpenFast
  <2> QED BY <2>1, <2>2, <2>3
<1>3. Common' /\ CanTypes'
  BY <1>1, <1>2 DEF Common, CanInv, CanTypes
<1>4. CanErasing'
  BY <1>1, <1>2 DEF CanErasing, Can!timing_from_bps
<1> QED BY <1>1, <1>2, <1>3, <1>4 DEF CanInv, CanWriting, CanPage, CanStep, CanEnd

\* Only a rate that is not the target's makes an update fail without trouble.
LEMMA CanCheckKeeps ==
  ASSUME Common, CanInv, board = "can", UNCHANGED <<board, ran, target>>, Can!Check
  PROVE  Common' /\ CanInv'
<1>1. /\ pc = "check" /\ index' = 0
      /\ UNCHANGED <<step, jobs, flash, len, blk, doubt, tail, asked, rate, sent, seq, rx>>
  BY DEF Can!Check
<1>2. \/ pc' = "erase"
      \/ pc' = "idle" /\ (trouble' \/ rate # BootRate)
  BY CanFails, CanRequests DEF Can!Check
<1>3. Common' /\ CanTypes'
  BY <1>1, <1>2 DEF Common, CanInv, CanTypes
<1>4. \A b \in DOMAIN flash : b \in Nat /\ ~(b % Indexes < 0)
  BY CanAssumed DEF Common
<1>5. CanErasing'
  BY <1>1, <1>2, <1>4, CanAssumed DEF CanErasing
<1>6. CanEnd' /\ CanStep'
  BY <1>1, <1>2 DEF CanInv, CanErasing, CanStep, CanEnd, Can!timing_from_bps
<1> QED BY <1>1, <1>2, <1>3, <1>5, <1>6 DEF CanInv, CanWriting, CanPage

LEMMA CanEraseKeeps ==
  ASSUME Common, CanInv, board = "can", UNCHANGED <<board, ran, target>>, Can!Erase
  PROVE  Common' /\ CanInv'
<1>1. /\ pc = "erase" /\ step' = "WRITE" /\ blk' = 0
      /\ UNCHANGED <<jobs, len, doubt, tail, asked, rate, sent, seq, rx>>
  BY DEF Can!Erase
<1>2. CASE pc' = "idle" /\ trouble' /\ UNCHANGED <<flash, index>>
  BY <1>1, <1>2 DEF Common, CanInv, CanTypes, CanErasing, CanWriting, CanPage, CanStep, CanEnd
<1>3. CASE ~(pc' = "idle" /\ trouble' /\ UNCHANGED <<flash, index>>)
  <2>1. /\ flash' = [b \in DOMAIN flash |-> IF b % Indexes = index THEN Erased ELSE flash[b]]
        /\ index' = index + 1 /\ pc' = IF index + 1 < Indexes THEN "erase" ELSE "page"
    BY <1>3, CanFails DEF Can!Erase, Can!Goto, Can!Erased, Erased
  <2>2. index \in Nat /\ index < Indexes /\ Indexes \in Nat \ {0}
    BY <1>1, CanAssumed DEF CanInv, CanTypes, CanErasing
  <2>3. flash' \in [0 .. Size(board, target) - 1 -> Int]
    BY <2>1 DEF Common, Erased
  <2>4. Common' /\ CanTypes'
    BY <1>1, <2>1, <2>2, <2>3 DEF Common, CanInv, CanTypes
  <2>5. \A b \in DOMAIN flash' : b \in Nat /\ (b % Indexes < index + 1 => flash'[b] = Erased)
    <3> SUFFICES ASSUME NEW b \in DOMAIN flash
                 PROVE  b \in Nat /\ (b % Indexes < index + 1 => flash'[b] = Erased)
      BY <2>1
    <3>1. b \in Nat /\ b % Indexes \in Int
      BY <2>2 DEF Common
    <3> QED BY <1>1, <2>1, <2>2, <3>1 DEF CanInv, CanErasing
  <2>6. CASE index + 1 < Indexes
    BY <1>1, <2>1, <2>4, <2>5, <2>6 DEF CanInv, CanErasing, CanWriting, CanPage, CanStep, CanEnd
  <2>7. CASE ~(index + 1 < Indexes)
    <3>1. \A b \in DOMAIN flash' : b % Indexes < index + 1
      BY <2>2, <2>5, <2>7
    <3>2. CanWriting'
      BY <1>1, <2>1, <2>5, <2>7, <3>1 DEF Common, CanWriting, ErasedFrom, ProgrammedTo
    <3> QED BY <1>1, <2>1, <2>4, <2>7, <3>2 DEF CanInv, CanErasing, CanPage, CanStep, CanEnd
  <2> QED BY <2>6, <2>7
<1> QED BY <1>2, <1>3

LEMMA CanFirstFrameKeeps ==
  ASSUME Common, CanInv, board = "can", UNCHANGED <<board, ran, target>>, Can!FirstFrame
  PROVE  Common' /\ CanInv'
<1>1. /\ pc = "page" /\ blk < len
      /\ UNCHANGED <<step, jobs, flash, len, blk, doubt, tail, asked, rate, index>>
  BY DEF Can!FirstFrame
<1>2. CASE pc' = "idle" /\ trouble' /\ UNCHANGED <<rx, sent, seq>>
  BY <1>1, <1>2 DEF Common, CanInv, CanTypes, CanErasing, CanWriting, CanPage, CanStep, CanEnd
<1>3. CASE ~(pc' = "idle" /\ trouble' /\ UNCHANGED <<rx, sent, seq>>)
  <2>1. /\ rx' = [want |-> Can!Bytes(blk), got |-> Can!Least(5, Can!Bytes(blk)), next |-> 1]
        /\ sent' = 5 /\ seq' = 1 /\ pc' = "flow"
    BY <1>3, CanFails DEF Can!FirstFrame, Can!Goto
  <2>2. Can!Bytes(blk) \in Nat /\ Can!Bytes(blk)' = Can!Bytes(blk)
    BY <1>1, CanAssumed DEF CanInv, CanTypes, Can!Bytes
  <2> HIDE DEF Can!Bytes
  <2>3. /\ Can!Least(5, Can!Bytes(blk)) \in Nat
        /\ Can!Least(5, Can!Bytes(blk)) = Can!Least(Can!Bytes(blk), 5)
    BY <2>2 DEF Can!Least
  <2>4. Common' /\ CanTypes'
    BY <1>1, <2>1, <2>2, <2>3 DEF Common, CanInv, CanTypes
  <2>5. CanPage'
    BY <1>1, <2>1, <2>2, <2>3 DEF CanPage
  <2> QED BY <1>1, <2>1, <2>4, <2>5 DEF CanInv, CanErasing, CanWriting, CanStep, CanEnd, ErasedFrom, ProgrammedTo
<1> QED BY <1>2, <1>3

LEMMA CanFlowKeeps ==
  ASSUME Common, CanInv, board = "can", UNCHANGED <<board, ran, target>>,
         Can!ReadsNothing \/ Can!Flow
  PROVE  Common' /\ CanInv'
<1>1. \/ pc = "page" /\ pc' = "finish" /\ doubt' = TRUE
      \/ pc = "flow" /\ pc' = "frames" /\ UNCHANGED doubt
  BY DEF Can!ReadsNothing, Can!Flow, Can!Goto
<1>2. UNCHANGED <<step, jobs, flash, len, blk, tail, asked, rate, index, sent, seq, rx>>
  BY DEF Can!ReadsNothing, Can!Flow, Can!can
<1> QED BY <1>1, <1>2 DEF Common, CanInv, CanTypes, CanErasing, CanWriting, CanPage, CanStep, CanEnd,
           ErasedFrom, ProgrammedTo, Can!Bytes

\* A frame has the number that the target expects: with it the target has all
\* that was sent, as long as that is no more than the page.
LEMMA CanFrameKeeps ==
  ASSUME Common, CanInv, board = "can", UNCHANGED <<board, ran, target>>, Can!Frame
  PROVE  Common' /\ CanInv'
<1>1. /\ pc = "frames" /\ sent < rx.want + 1
      /\ UNCHANGED <<step, jobs, flash, len, blk, doubt, tail, asked, rate, index>>
  BY DEF Can!Frame
<1>2. CASE pc' = "idle" /\ trouble' /\ UNCHANGED <<sent, seq, rx>>
  BY <1>1, <1>2 DEF Common, CanInv, CanTypes, CanErasing, CanWriting, CanPage, CanStep, CanEnd
<1>3. CASE ~(pc' = "idle" /\ trouble' /\ UNCHANGED <<sent, seq, rx>>)
  <2> DEFINE n == Can!Least(7, rx.want + 1 - sent)
  <2>1. /\ sent' = sent + n /\ seq' = (seq + 1) % Wrap /\ pc' = "frames"
        /\ rx' = IF seq = rx.next
                   THEN [rx EXCEPT !.got = Can!Least(rx.want, @ + n), !.next = (@ + 1) % Wrap]
                   ELSE rx
    BY <1>3, CanFails DEF Can!Frame, Can!Goto
  <2>2. /\ rx.want \in Nat /\ rx.got \in Nat /\ rx.next \in Nat /\ sent \in Nat /\ seq \in Nat
        /\ seq = rx.next /\ rx.got = Can!Least(rx.want, sent) /\ Wrap \in Nat \ {0}
    BY <1>1, CanAssumed DEF CanInv, CanTypes, CanPage
  <2>3. n \in Nat
    BY <1>1, <2>2 DEF Can!Least
  <2> HIDE DEF n
  <2>4. /\ rx' = [rx EXCEPT !.got = Can!Least(rx.want, rx.got + n), !.next = (rx.next + 1) % Wrap]
        /\ (rx.next + 1) % Wrap \in Nat
    BY <2>1, <2>2
  <2>5. /\ Can!Least(rx.want, rx.got + n) = Can!Least(rx.want, sent + n)
        /\ Can!Least(rx.want, rx.got + n) \in Nat
    BY <1>1, <2>2, <2>3 DEF Can!Least
  <2>6. /\ rx'.want = rx.want /\ rx'.got = Can!Least(rx.want, sent')
        /\ rx'.next = (rx.next + 1) % Wrap
    BY <2>1, <2>4, <2>5 DEF CanInv, CanTypes
  <2>7. Common' /\ CanTypes'
    <3>1. rx' = [want |-> rx.want, got |-> rx'.got, next |-> rx'.next]
      BY <2>4, <2>6 DEF CanInv, CanTypes
    <3>2. rx' \in [want : Nat, got : Nat, next : Nat]
      BY <2>2, <2>4, <2>5, <2>6, <3>1, <2>1
    <3>3. {tail', index', sent', seq'} \subseteq Nat
      BY <1>1, <2>1, <2>2, <2>3 DEF CanInv, CanTypes
    <3> QED BY <1>1, <2>1, <3>2, <3>3 DEF Common, CanTypes
  <2>8. CanPage'
    BY <1>1, <2>1, <2>2, <2>6 DEF CanInv, CanPage, Can!Bytes
  <2> QED BY <1>1, <2>1, <2>7, <2>8 DEF CanInv, CanErasing, CanWriting, CanStep, CanEnd, ErasedFrom, ProgrammedTo
<1> QED BY <1>2, <1>3

\* The page that was sent is there.
LEMMA WholePage ==
  ASSUME CanInv, pc = "frames", sent >= rx.want + 1
  PROVE  rx.got = rx.want
  BY DEF CanInv, CanTypes, CanPage, Can!Least

LEMMA CanAcceptKeeps ==
  ASSUME Common, CanInv, board = "can", UNCHANGED <<board, ran, target>>, Can!Accept
  PROVE  Common' /\ CanInv'
<1>1. pc = "frames" /\ rx.got = rx.want
  BY WholePage DEF Can!Accept
<1>2. UNCHANGED <<step, jobs, flash, len, blk, doubt, tail, asked, rate, index, sent, seq, rx>>
  BY DEF Can!Accept, Can!can
<1>3. pc' = "write" \/ (pc' = "idle" /\ trouble')
  BY <1>1, CanFails DEF Can!Accept, Can!Goto
<1> QED BY <1>1, <1>2, <1>3 DEF Common, CanInv, CanTypes, CanErasing, CanWriting, CanPage, CanStep, CanEnd,
           ErasedFrom, ProgrammedTo, Can!Bytes

LEMMA CanWriteKeeps ==
  ASSUME Common, CanInv, board = "can", UNCHANGED <<board, ran, target>>, Can!Write
  PROVE  Common' /\ CanInv'
<1>1. /\ pc = "write" /\ rx.got = Can!Bytes(blk)
      /\ UNCHANGED <<step, jobs, len, doubt, tail, asked, rate, index, sent, seq, rx>>
  BY DEF Can!Write, Can!can, CanInv, CanPage
<1>2. CASE pc' = "idle" /\ trouble' /\ UNCHANGED <<flash, blk>>
  BY <1>1, <1>2 DEF Common, CanInv, CanTypes, CanErasing, CanWriting, CanPage, CanStep, CanEnd
<1>3. CASE ~(pc' = "idle" /\ trouble' /\ UNCHANGED <<flash, blk>>)
  <2>1. flash' = [flash EXCEPT ![blk] = jobs] /\ blk' = blk + 1 /\ pc' = "page"
    BY <1>1, <1>3, CanFails DEF Can!Write, Can!Goto
  <2>2. flash' \in [0 .. Size(board, target) - 1 -> Int]
    <3>1. flash \in [0 .. Size(board, target) - 1 -> Int] /\ jobs \in Int
      BY DEF Common
    <3> QED BY <2>1, <3>1, FlashWrite
  <2>3. Common' /\ CanTypes'
    BY <1>1, <2>1, <2>2 DEF Common, CanInv, CanTypes
  <2>4. CanWriting'
    BY <1>1, <2>1 DEF Common, CanInv, CanWriting, ErasedFrom, ProgrammedTo
  <2> QED BY <1>1, <2>1, <2>3, <2>4 DEF CanInv, CanErasing, CanPage, CanStep, CanEnd
<1> QED BY <1>2, <1>3

LEMMA CanFinishKeeps ==
  ASSUME Common, CanInv, board = "can", UNCHANGED <<board, ran, target>>, Can!Finish
  PROVE  Common' /\ CanInv'
<1>1. /\ pc = "finish" \/ (pc = "page" /\ blk >= len)
      /\ pc' = "idle" /\ step' = "DONE" /\ (ret' = "ok" \/ trouble')
      /\ UNCHANGED <<jobs, flash, len, blk, doubt, tail, asked, rate, index, sent, seq, rx>>
  BY CanFails DEF Can!Finish, Can!can
<1>2. ~doubt => ProgrammedTo(len) /\ ErasedFrom(len)
  BY <1>1 DEF Common, CanInv, CanWriting, ErasedFrom, ProgrammedTo
<1>3. Common' /\ CanTypes'
  BY <1>1 DEF Common, CanInv, CanTypes
<1> QED BY <1>1, <1>2, <1>3 DEF CanInv, CanErasing, CanWriting, CanPage, CanStep, CanEnd, ErasedFrom, ProgrammedTo

LEMMA CanUpdateKeeps ==
  ASSUME Common, CanInv, board = "can", UNCHANGED <<board, ran, target>>, Can!Update
  PROVE  Common' /\ CanInv'
  BY CanPrologueKeeps, CanCheckKeeps, CanEraseKeeps, CanFirstFrameKeeps, CanFlowKeeps, CanFrameKeeps,
     CanAcceptKeeps, CanWriteKeeps, CanFinishKeeps DEF Can!Update

LEMMA CanStopsKeeps ==
  ASSUME Common, CanInv, board = "can", UNCHANGED <<board, ran, target>>, Can!TargetStops
  PROVE  Common' /\ CanInv'
  BY DEF Can!TargetStops, Common, CanInv, CanTypes, CanErasing, CanWriting, CanPage, CanStep, CanEnd,
     ErasedFrom, ProgrammedTo, Can!Bytes, Can!timing_from_bps
-----------------------------------------------------------------------------
(***************************************************************************)
(* StmUpdate.                                                              *)
(***************************************************************************)
LEMMA StmFails ==
  ASSUME NEW c, Stm!Fail(c)
  PROVE  pc' = "idle" /\ ret' = "fail" /\ (c \/ trouble => trouble')
  BY DEF Stm!Fail

LEMMA StmJobKeeps ==
  ASSUME Common, StmInv, board = "stm", UNCHANGED <<board, target>>, Stm!Job, ran' = ran + 1
  PROVE  Common' /\ StmInv'
  BY ExecAssumption DEF ExecAssumption, Stm!StmAssumption, Stm!Job, Common, StmInv

\* A length is 0 only if a full block's is.
LEMMA LengthZero ==
  ASSUME last \in 1 .. BlockBytes, len \in Nat, blk \in Nat, blk < len, Stm!Length(blk) = 0
  PROVE  len > 1 \/ last = BlockBytes
<1>1. BlockBytes \in Nat /\ ByteWidth \in Nat /\ BlockBytes <= ByteWidth
  BY ExecAssumption DEF ExecAssumption, Stm!StmAssumption
<1>2. ASSUME last < ByteWidth PROVE last % ByteWidth # 0
  BY <1>1, <1>2
<1>3. CASE blk = len - 1
  <2>1. last % ByteWidth = 0
    BY <1>3 DEF Stm!Length
  <2> QED BY <1>1, <1>2, <2>1
<1> QED BY <1>3

LEMMA StmStartKeeps ==
  ASSUME Common, StmInv, board = "stm", UNCHANGED <<board, ran, target>>,
         Stm!Sync \/ Stm!Erase \/ Stm!Open
  PROVE  Common' /\ StmInv'
<1>1. UNCHANGED <<jobs, len, doubt, last>>
  BY DEF Stm!Sync, Stm!Erase, Stm!Open
<1>2. \/ pc' = "idle" /\ ret' = "fail" /\ trouble'
      \/ pc' = "erase" /\ UNCHANGED <<flash, blk>>
      \/ pc' = "open" /\ flash' = [b \in DOMAIN flash |-> Erased]
      \/ pc = "open" /\ pc' = "block" /\ blk' = 0 /\ UNCHANGED flash
  BY StmFails DEF Stm!Sync, Stm!Erase, Stm!Open, Stm!Goto, Stm!Erased, Erased
<1>3. /\ UNCHANGED flash \/ flash' = [b \in DOMAIN flash |-> Erased]
      /\ blk' = blk \/ blk' = 0
      /\ pc # "idle"
  BY DEF Stm!Sync, Stm!Erase, Stm!Open, Stm!Erased, Erased
<1>4. flash' \in [0 .. Size(board, target) - 1 -> Int]
  BY <1>3 DEF Common, Erased
<1>5. Common'
  BY <1>1, <1>3, <1>4 DEF Common
<1> QED BY <1>1, <1>2, <1>4, <1>5 DEF Common, StmInv, ErasedFrom, ProgrammedTo

LEMMA StmBlockKeeps ==
  ASSUME Common, StmInv, board = "stm", UNCHANGED <<board, ran, target>>,
         Stm!Block \/ Stm!Finish
  PROVE  Common' /\ StmInv'
<1>1. /\ pc = "block" /\ pc' \in {"block", "idle"} /\ UNCHANGED <<step, jobs, len, last>>
      /\ UNCHANGED flash \/ flash' = [flash EXCEPT ![blk] = jobs]
      /\ blk' = blk \/ blk' = blk + 1
  BY StmFails DEF Stm!Block, Stm!Finish, Stm!Goto
<1>2. \/ pc' = "block" /\ blk' = blk + 1 /\ flash' = [flash EXCEPT ![blk] = jobs] /\ blk < len
      \/ pc' = "idle" /\ ret' = "fail" /\ (trouble' \/ (blk < len /\ Stm!Length(blk) = 0))
      \/ pc' = "idle" /\ ret' = "ok" /\ (doubt' \/ ~(blk < len)) /\ UNCHANGED <<flash, blk>>
  BY StmFails DEF Stm!Block, Stm!Finish, Stm!Goto
<1>3. flash' \in [0 .. Size(board, target) - 1 -> Int]
  <2>1. flash \in [0 .. Size(board, target) - 1 -> Int] /\ jobs \in Int
    BY DEF Common
  <2> QED BY <1>1, <2>1, FlashWrite
<1>4. Common'
  BY <1>1, <1>3 DEF Common
<1>5. CASE pc' = "block"
  BY <1>1, <1>2, <1>4, <1>5 DEF Common, StmInv, ErasedFrom, ProgrammedTo
<1>6. CASE pc' = "idle" /\ ret' = "fail"
  <2>1. trouble' \/ len > 1 \/ last = BlockBytes
    BY <1>2, <1>6, LengthZero DEF Common, StmInv
  <2> QED BY <1>1, <1>4, <1>6, <2>1 DEF StmInv
<1>7. CASE pc' = "idle" /\ ret' = "ok"
  BY <1>1, <1>2, <1>4, <1>7 DEF Common, StmInv, ErasedFrom, ProgrammedTo
<1> QED BY <1>1, <1>2, <1>5, <1>6, <1>7

LEMMA StmUpdateKeeps ==
  ASSUME Common, StmInv, board = "stm", UNCHANGED <<board, ran, target>>, Stm!Update
  PROVE  Common' /\ StmInv'
  BY StmStartKeeps, StmBlockKeeps DEF Stm!Update
-----------------------------------------------------------------------------
(***************************************************************************)
(* ProbeUpdate: first what its steps do to the pieces under way.           *)
(***************************************************************************)
\* A piece that arrives keeps its place in the order.
LEMMA OrderOfArrival ==
  ASSUME NEW c \in Seq(Probe!Pieces), NEW l \in Seq(Probe!Pieces), c # <<>>
  PROVE  /\ LastOK(Tail(c)) => LastOK(c)
         /\ LastOK(Append(l, Head(c))) /\ NoBodies(Tail(c)) =>
              LastOK(c) \/ (LastOK(l) /\ NoBodies(c))
<1>1. /\ Tail(c) \in Seq(Probe!Pieces) /\ Len(Tail(c)) = Len(c) - 1 /\ Len(c) \in Nat \ {0}
      /\ \A i \in 1 .. Len(c) - 1 : Tail(c)[i] = c[i + 1]
      /\ Head(c) = c[1]
  OBVIOUS
<1>2. /\ Len(Append(l, Head(c))) = Len(l) + 1 /\ Len(l) \in Nat
      /\ \A i \in 1 .. Len(l) : Append(l, Head(c))[i] = l[i]
      /\ Append(l, Head(c))[Len(l) + 1] = Head(c)
      /\ DOMAIN Append(l, Head(c)) = 1 .. Len(l) + 1
  OBVIOUS
<1>3. DOMAIN c = 1 .. Len(c) /\ DOMAIN l = 1 .. Len(l) /\ DOMAIN Tail(c) = 1 .. Len(c) - 1
  BY <1>1
<1>4. ASSUME NEW i \in DOMAIN Tail(c), Tail(c)[i] = "OK",
             \A j \in DOMAIN Tail(c) : j > i => Tail(c)[j] \notin Probe!Bodies
      PROVE  LastOK(c)
  <2>1. i + 1 \in DOMAIN c /\ c[i + 1] = "OK"
    BY <1>1, <1>3, <1>4
  <2>2. ASSUME NEW j \in DOMAIN c, j > i + 1 PROVE c[j] \notin Probe!Bodies
    <3>1. j - 1 \in DOMAIN Tail(c) /\ j - 1 > i /\ Tail(c)[j - 1] = c[j]
      BY <1>1, <1>3, <1>4, <2>2
    <3> QED BY <1>4, <3>1
  <2> QED BY <2>1, <2>2 DEF LastOK
<1>5. ASSUME NoBodies(Tail(c)), NEW i \in DOMAIN Append(l, Head(c)), Append(l, Head(c))[i] = "OK",
             \A j \in DOMAIN Append(l, Head(c)) :
               j > i => Append(l, Head(c))[j] \notin Probe!Bodies
      PROVE  LastOK(c) \/ (LastOK(l) /\ NoBodies(c))
  <2>1. ASSUME NEW j \in DOMAIN c, j > 1 PROVE c[j] \notin Probe!Bodies
    <3>1. j - 1 \in DOMAIN Tail(c) /\ Tail(c)[j - 1] = c[j]
      BY <1>1, <1>3, <2>1
    <3> QED BY <1>5, <3>1 DEF NoBodies
  <2>2. CASE i = Len(l) + 1
    <3>1. 1 \in DOMAIN c /\ c[1] = "OK"
      BY <1>1, <1>2, <1>3, <1>5, <2>2
    <3> QED BY <2>1, <3>1 DEF LastOK
  <2>3. CASE i # Len(l) + 1
    <3>1. i \in DOMAIN l /\ l[i] = "OK"
      BY <1>2, <1>3, <1>5, <2>3
    <3>2. c[1] \notin Probe!Bodies
      BY <1>1, <1>2, <1>5, <3>1, <1>3
    <3>3. \A j \in DOMAIN l : j > i => l[j] \notin Probe!Bodies
      BY <1>2, <1>3, <1>5
    <3>4. NoBodies(c)
      BY <1>1, <1>3, <2>1, <3>2 DEF NoBodies
    <3> QED BY <3>1, <3>3, <3>4 DEF LastOK
  <2> QED BY <2>2, <2>3
<1> QED BY <1>4, <1>5 DEF LastOK

\* Reading the first piece, or a part of it, leaves the last answer.
LEMMA OrderOfReading ==
  ASSUME NEW l \in Seq(Probe!Pieces), l # <<>>
  PROVE  /\ Tail(l) \in Seq(Probe!Pieces) /\ <<"junk">> \o Tail(l) \in Seq(Probe!Pieces)
         /\ LastOK(Tail(l)) => LastOK(l)
         /\ LastOK(<<"junk">> \o Tail(l)) => LastOK(l)
<1>1. Tail(l) \in Seq(Probe!Pieces)
  OBVIOUS
<1>2. <<"junk">> \in Seq(Probe!Pieces)
  BY DEF Probe!Pieces
<1>3. <<"junk">> \o Tail(l) \in Seq(Probe!Pieces)
  BY <1>1, <1>2
<1>4. LastOK(Tail(l)) => LastOK(l)
  BY OrderOfArrival
<1>5. ASSUME LastOK(<<"junk">> \o Tail(l)) PROVE LastOK(l)
  <2> DEFINE m == <<"junk">> \o Tail(l)
  <2>1. /\ Len(l) \in Nat \ {0} /\ DOMAIN l = 1 .. Len(l) /\ DOMAIN m = 1 .. Len(l)
        /\ m[1] = "junk" /\ \A i \in 2 .. Len(l) : m[i] = l[i]
    BY <1>1, <1>2
  <2> HIDE DEF m
  <2>2. PICK i \in DOMAIN m : m[i] = "OK" /\ \A j \in DOMAIN m : j > i => m[j] \notin Probe!Bodies
    BY <1>5 DEF LastOK, m
  <2>3. i \in 2 .. Len(l)
    BY <2>1, <2>2
  <2>4. i \in DOMAIN l /\ l[i] = "OK"
    BY <2>1, <2>2, <2>3
  <2>5. ASSUME NEW j \in DOMAIN l, j > i PROVE l[j] \notin Probe!Bodies
    <3>1. j \in 2 .. Len(l)
      BY <2>1, <2>3, <2>5
    <3> QED BY <2>1, <2>2, <2>5, <3>1
  <2> QED BY <2>4, <2>5 DEF LastOK
<1> QED BY <1>1, <1>3, <1>4, <1>5

LEMMA NothingIsLast == ~LastOK(<<>>)
  BY DEF LastOK

\* What is cut off a read that times out is no whole answer.
LEMMA OrderOfCuts ==
  ASSUME coming \in Seq(Probe!Pieces), NEW c \in Probe!Cut
  PROVE  c \in Seq(Probe!Pieces) /\ (LastOK(c) => LastOK(coming))
  BY OrderOfReading DEF Probe!Cut

\* The answer to the packet just sent is the last one.
LEMMA OrderOfAnswers ==
  ASSUME NEW c \in Seq(Probe!Pieces), NEW a \in Probe!Bodies
  PROVE  /\ c \o Probe!Packet(a) \in Seq(Probe!Pieces)
         /\ LastOK(c \o Probe!Packet(a)) => a = "OK"
         /\ ~NoBodies(c \o Probe!Packet(a))
<1> DEFINE m == c \o <<"+", a>>
<1>1. Probe!Packet(a) = <<"+", a>> /\ <<"+", a>> \in Seq(Probe!Pieces)
  BY DEF Probe!Packet, Probe!Bodies, Probe!Pieces
<1>2. /\ Len(c) \in Nat /\ DOMAIN m = 1 .. Len(c) + 2 /\ m[Len(c) + 2] = a
      /\ m \in Seq(Probe!Pieces)
  BY <1>1
<1> HIDE DEF m
<1>3. ASSUME LastOK(m) PROVE a = "OK"
  BY <1>2, <1>3 DEF LastOK
<1>4. ~NoBodies(m)
  BY <1>2 DEF NoBodies
<1> QED BY <1>1, <1>2, <1>3, <1>4 DEF m

\* An answer that is not stale is the last one, and to this command.
LEMMA FreshAnswer ==
  ASSUME ProbeTypes, line # <<>>, Head(line) = "OK", ~Probe!Stale
  PROVE  answered /\ LastOK(line) /\ NoBodies(coming)
<1> DEFINE m == Tail(line) \o coming
<1>1. answered /\ \A i \in DOMAIN m : m[i] \notin Probe!Bodies
  BY Zenon DEF Probe!Stale
<1>2. /\ Len(line) \in Nat \ {0} /\ Len(coming) \in Nat /\ line[1] = "OK"
      /\ DOMAIN line = 1 .. Len(line) /\ DOMAIN coming = 1 .. Len(coming)
      /\ DOMAIN m = 1 .. Len(line) - 1 + Len(coming)
      /\ \A i \in 1 .. Len(line) - 1 : m[i] = line[i + 1]
      /\ \A i \in 1 .. Len(coming) : m[Len(line) - 1 + i] = coming[i]
  BY DEF ProbeTypes
<1> HIDE DEF m
<1>3. ASSUME NEW j \in DOMAIN line, j > 1 PROVE line[j] \notin Probe!Bodies
  <2>1. j - 1 \in 1 .. Len(line) - 1 /\ j - 1 \in DOMAIN m /\ m[j - 1] = line[j]
    BY <1>2, <1>3
  <2> QED BY <1>1, <2>1
<1>4. ASSUME NEW j \in DOMAIN coming PROVE coming[j] \notin Probe!Bodies
  <2>1. Len(line) - 1 + j \in DOMAIN m /\ m[Len(line) - 1 + j] = coming[j]
    BY <1>2, <1>4
  <2> QED BY <1>1, <2>1
<1> QED BY <1>1, <1>2, <1>3, <1>4 DEF LastOK, NoBodies
-----------------------------------------------------------------------------
(* The steps of ProbeUpdate. *)

\* The next command finds of the flash what it needs.
LEMMA ProbeAdvances ==
  ASSUME Common, ProbeInv, pc # "idle", NEW rest \in Seq(Probe!Pieces), Probe!Advance(rest),
         UNCHANGED <<board, ran, target, jobs, flash, len, opt>>,
         Erasing' => /\ Erasing
                     /\ cmd = "erase" => RoomFrom(0)
                     /\ cmd = "write" => ProgrammedTo(blk + 1)
  PROVE  /\ Common' /\ line' \in Seq(Probe!Pieces) /\ cmd' \in Probe!Commands /\ ProbeWriting'
         /\ (pc' = "send" /\ line' = rest) \/ (pc' = "idle" /\ step' = "DONE")
         /\ pc' = "idle" /\ Erasing' => ProgrammedTo(len)'
<1>1. CASE cmd = "reset" \/ (cmd = "done" /\ ~opt.reset)
  <2>1. pc' = "idle" /\ step' = "DONE" /\ line' = <<>> /\ UNCHANGED <<cmd, blk>>
    BY <1>1 DEF Probe!Advance
  <2>2. Erasing' => ProgrammedTo(len)
    BY <1>1 DEF Common, ProbeInv, ProbeWriting, ProgrammedTo
  <2>3. <<>> \in Seq(Probe!Pieces)
    OBVIOUS
  <2> QED BY <2>1, <2>2, <2>3 DEF Common, ProbeInv, ProbeTypes, ProbeWriting, ProgrammedTo
<1>2. CASE ~(cmd = "reset" \/ (cmd = "done" /\ ~opt.reset))
  <2>1. /\ pc' = "send" /\ cmd' = Probe!After(cmd) /\ line' = rest
        /\ blk' = IF cmd = "write" THEN blk + 1 ELSE blk
    BY <1>2, Zenon DEF Probe!Advance
  <2>2. cmd \in {"qSupported", "scan", "attach", "erase", "write", "done"}
    BY <1>2 DEF ProbeInv, ProbeTypes, Probe!Commands
  <2>3. Common' /\ cmd' \in Probe!Commands
    BY <2>1, <2>2 DEF Common, Probe!After, Probe!Commands
  <2>4. ASSUME Erasing'
        PROVE  /\ cmd' \in {"write", "done", "reset"} => ProgrammedTo(blk')
               /\ cmd' = "write" => RoomFrom(blk')
               /\ cmd' \in {"done", "reset"} => blk' >= len
               /\ cmd' \in {"erase", "attach", "scan", "qSupported"} => blk' = 0
    <3>1. Erasing /\ opt.erase
      BY <2>4 DEF Erasing
    <3>2. CASE cmd \in {"qSupported", "scan", "attach"}
      BY <2>1, <3>1, <3>2 DEF Probe!After, ProbeInv, ProbeWriting
    <3>3. CASE cmd = "erase"
      BY <2>1, <2>4, <3>1, <3>3
         DEF Probe!After, Common, ProbeInv, ProbeWriting, ProgrammedTo, RoomFrom
    <3>4. CASE cmd = "write"
      BY <2>1, <2>4, <3>1, <3>4 DEF Probe!After, ProbeInv, ProbeWriting
    <3>5. CASE cmd = "done"
      BY <2>1, <3>1, <3>5 DEF Probe!After, ProbeInv, ProbeWriting
    <3> QED BY <2>2, <3>2, <3>3, <3>4, <3>5
  <2>5. RoomFrom(blk') => RoomFrom(blk' + 1)
    BY <2>3 DEF Common, RoomFrom
  <2>6. ProbeWriting'
    BY <2>1, <2>4, <2>5 DEF ProbeWriting, ProgrammedTo, RoomFrom
  <2> QED BY <2>1, <2>3, <2>6
<1> QED BY <1>1, <1>2

\* An update that has failed says nothing of the flash.
LEMMA ProbeFails ==
  ASSUME Common, ProbeInv, pc # "idle", Probe!Fail, UNCHANGED <<board, ran, target, jobs, len, opt>>,
         flash' \in [0 .. Size(board, target) - 1 -> Int], coming' \in Seq(Probe!Pieces),
         trouble' \/ swallowed'
  PROVE  Common' /\ ProbeInv'
<1>1. pc' = "idle" /\ step' = "ERROR" /\ line' = <<>> /\ UNCHANGED <<cmd, blk>>
  BY DEF Probe!Fail
<1>2. <<>> \in Seq(Probe!Pieces)
  OBVIOUS
<1>3. Common' /\ ProbeTypes'
  BY <1>1, <1>2 DEF Common, ProbeInv, ProbeTypes
<1> QED BY <1>1, <1>3 DEF ProbeInv, ProbeWriting, AnswerLast, InStep, ProbeEnd

\* A request that was not met in time: the update goes on or has failed.
LEMMA ProbeMisses ==
  ASSUME Common, ProbeInv, pc # "idle", Probe!Missed,
         UNCHANGED <<board, ran, target, jobs, flash, len, opt, doubt>>,
         coming' \in Seq(Probe!Pieces), trouble' \/ swallowed'
  PROVE  Common' /\ ProbeInv'
<1>1. CASE Probe!Fail
  BY <1>1, ProbeFails DEF Common
<1>2. CASE cmd \in {"qSupported", "reset"} /\ Probe!Advance(line)
  <2>1. Erasing' => Erasing
    BY DEF Erasing
  <2>2. line \in Seq(Probe!Pieces)
    BY DEF ProbeInv, ProbeTypes
  <2>3. /\ Common' /\ line' \in Seq(Probe!Pieces) /\ cmd' \in Probe!Commands /\ ProbeWriting'
        /\ (pc' = "send" /\ line' = line) \/ (pc' = "idle" /\ step' = "DONE")
        /\ pc' = "idle" /\ Erasing' => ProgrammedTo(len)'
    BY <1>2, <2>1, <2>2, ProbeAdvances
  <2> QED BY <2>3 DEF ProbeInv, ProbeTypes, AnswerLast, InStep, ProbeEnd
<1> QED BY <1>1, <1>2 DEF Probe!Missed

LEMMA ProbeJobKeeps ==
  ASSUME Common, ProbeInv, board = "probe", UNCHANGED <<board, target>>, Probe!Job, ran' = ran + 1
  PROVE  Common' /\ ProbeInv'
<1>1. /\ jobs' = jobs + 1 /\ len' \in 0 .. ProbeBlocks
      /\ blk' = 0 /\ cmd' = "qSupported" /\ line' = <<>> /\ UNCHANGED <<flash, coming>>
      /\ \/ opt'.dry /\ pc' = "idle" /\ step' = "DONE"
         \/ pc' = "send" /\ step' = "WRITE" /\ trouble' = (coming # <<>>)
         \/ pc' = "idle" /\ step' = "ERROR" /\ trouble' = TRUE
  BY DEF Probe!Job
<1>2. <<>> \in Seq(Probe!Pieces)
  OBVIOUS
<1>3. Common' /\ ProbeTypes'
  BY <1>1, <1>2 DEF Common, ProbeInv, ProbeTypes, Probe!Commands
<1>4. ProbeWriting' /\ AnswerLast'
  BY <1>1 DEF ProbeWriting, AnswerLast
<1>5. InStep' /\ ProbeEnd'
  BY <1>1 DEF InStep, ProbeEnd
<1> QED BY <1>3, <1>4, <1>5 DEF ProbeInv

LEMMA ProbeEndOfFileKeeps ==
  ASSUME Common, ProbeInv, board = "probe", UNCHANGED <<board, ran, target>>, Probe!EndOfFile
  PROVE  Common' /\ ProbeInv'
<1>1. /\ pc = "send" /\ cmd = "write" /\ cmd' = "done"
      /\ UNCHANGED <<pc, step, jobs, flash, len, blk, trouble, opt, coming, line, swallowed>>
  BY DEF Probe!EndOfFile, Probe!link
<1>2. Erasing' => Erasing /\ ~(blk < len)
  BY Zenon DEF Probe!EndOfFile, Erasing
<1>3. Common' /\ ProbeTypes'
  BY <1>1 DEF Common, ProbeInv, ProbeTypes, Probe!Commands
<1>4. ProbeWriting'
  BY <1>1, <1>2 DEF Common, ProbeInv, ProbeWriting, ProgrammedTo
<1> QED BY <1>1, <1>3, <1>4 DEF ProbeInv, AnswerLast, InStep, ProbeEnd

\* The target does what it is told before its answer is under way.
LEMMA ProbeSendKeeps ==
  ASSUME Common, ProbeInv, board = "probe", UNCHANGED <<board, ran, target>>, Probe!Send
  PROVE  Common' /\ ProbeInv'
<1>1. /\ pc = "send" /\ (cmd = "write" => blk < len) /\ got' = "" /\ room' = AckRead
      /\ UNCHANGED <<jobs, len, doubt, opt, swallowed>>
  BY DEF Probe!Send
<1>2. CASE Probe!Missed /\ trouble' = TRUE /\ UNCHANGED <<coming, answered, flash>>
  BY <1>1, <1>2, ProbeMisses DEF ProbeInv, ProbeTypes
<1>3. ASSUME NEW a \in Probe!Bodies \cup {"none", "-"},
             /\ coming' = coming \o Probe!Packet(a)
             /\ answered' = (a \in Probe!Bodies)
             /\ trouble' = (trouble \/ a \notin {"OK", "long"}
                                    \/ (a = "long" /\ cmd \in {"write", "done"}))
             /\ flash' = IF a = "OK" THEN Probe!Done(cmd) ELSE flash
             /\ pc' = "ack" /\ UNCHANGED <<step, cmd, line, blk>>
      PROVE  Common' /\ ProbeInv'
  <2>1. coming \in Seq(Probe!Pieces) /\ line \in Seq(Probe!Pieces)
    BY DEF ProbeInv, ProbeTypes
  <2>2. coming' \in Seq(Probe!Pieces)
    <3>1. CASE a \in Probe!Bodies
      BY <1>3, <2>1, <3>1, OrderOfAnswers
    <3>2. CASE a \in {"none", "-"}
      <4>1. Probe!Packet(a) \in Seq(Probe!Pieces)
        BY <3>2 DEF Probe!Packet, Probe!Pieces
      <4> QED BY <1>3, <2>1, <4>1
    <3> QED BY <3>1, <3>2
  <2>3. /\ flash \in [0 .. Size(board, target) - 1 -> Int] /\ jobs \in Nat /\ blk \in Nat /\ len \in Nat
        /\ cmd \in {"qSupported", "scan", "attach", "erase", "write", "done", "reset"}
    BY DEF Common, ProbeInv, ProbeTypes, Probe!Commands
  <2>4. Probe!Done("erase") =
          [b \in DOMAIN flash |-> IF opt.sized /\ b < len THEN Erased ELSE flash[b]]
    BY DEF Probe!Done, Probe!Erased, Erased
  <2>5. /\ Probe!Done("write") = [flash EXCEPT ![blk] = IF flash[blk] = Erased THEN jobs ELSE -2]
        /\ cmd \notin {"erase", "write"} => Probe!Done(cmd) = flash
    BY <2>3 DEF Probe!Done, Probe!Erased, Probe!Wrong, Erased
  <2>6. flash' \in [0 .. Size(board, target) - 1 -> Int]
    <3>1. CASE a = "OK" /\ cmd = "erase"
      BY <1>3, <2>3, <2>4, <3>1 DEF Erased
    <3>2. CASE a = "OK" /\ cmd = "write"
      BY <1>3, <2>3, <2>5, <3>2, FlashWrite
    <3>3. CASE ~(a = "OK" /\ cmd \in {"erase", "write"})
      BY <1>3, <2>3, <2>5, <3>3
    <3> QED BY <3>1, <3>2, <3>3
  <2>7. Common' /\ ProbeTypes'
    BY <1>1, <1>3, <2>1, <2>2, <2>6 DEF Common, ProbeInv, ProbeTypes
  <2>8. ASSUME Erasing, cmd = "write"
        PROVE  ProgrammedTo(blk)' /\ RoomFrom(blk + 1)' /\ (a = "OK" => ProgrammedTo(blk + 1)')
    <3>1. RoomFrom(blk) /\ ProgrammedTo(blk) /\ blk < len
      BY <1>1, <2>8 DEF ProbeInv, ProbeWriting
    <3>2. CASE a = "OK"
      <4>1. /\ flash' = [flash EXCEPT ![blk] = IF flash[blk] = Erased THEN jobs ELSE -2]
            /\ UNCHANGED <<jobs, blk, len>>
        BY <1>1, <1>3, <2>5, <2>8, <3>2
      <4>2. ASSUME NEW b \in DOMAIN flash'
            PROVE  /\ b \in Nat /\ b \in DOMAIN flash
                   /\ b # blk => flash'[b] = flash[b]
                   /\ b = blk => flash'[b] = jobs
        BY <2>3, <3>1, <4>1, <4>2 DEF RoomFrom
      <4> QED BY <2>3, <3>1, <4>1, <4>2 DEF ProgrammedTo, RoomFrom
    <3>3. CASE a # "OK"
      <4>1. UNCHANGED <<flash, jobs, blk, len>>
        BY <1>1, <1>3, <3>3
      <4>2. RoomFrom(blk + 1)
        BY <2>3, <3>1 DEF RoomFrom
      <4> QED BY <3>1, <3>3, <4>1, <4>2 DEF ProgrammedTo, RoomFrom
    <3> QED BY <3>2, <3>3
  <2>9. ASSUME Erasing, cmd # "write", cmd # "erase" PROVE flash' = flash
    BY <1>3, <2>3, <2>5, <2>9
  <2>10. Erasing' <=> Erasing
    BY <1>1 DEF Erasing
  <2>11. ProbeWriting'
    <3> SUFFICES ASSUME Erasing
                 PROVE  /\ cmd \in {"write", "done", "reset"} => ProgrammedTo(blk)'
                        /\ cmd = "write" => RoomFrom(blk + 1)'
                        /\ cmd \in {"done", "reset"} => blk >= len
                        /\ cmd \in {"erase", "attach", "scan", "qSupported"} => blk = 0
      BY <1>1, <1>3, <2>10 DEF ProbeWriting, ProgrammedTo, RoomFrom
    <3>1. CASE cmd = "write"
      BY <2>8, <3>1
    <3>2. CASE cmd # "write"
      BY <1>1, <1>3, <2>9, <3>2 DEF ProbeInv, ProbeWriting, ProgrammedTo
    <3> QED BY <3>1, <3>2
  <2>12. ASSUME Erasing, a = "OK" PROVE Met'
    <3>1. cmd = "write" => ProgrammedTo(blk + 1)'
      BY <2>8, <2>12
    <3>2. cmd = "erase" /\ opt.sized => RoomFrom(0)'
      BY <1>1, <1>3, <2>4, <2>12 DEF RoomFrom
    <3> QED BY <1>1, <1>3, <3>1, <3>2 DEF Met, RoomFrom, ProgrammedTo
  <2>13. AnswerLast'
    BY <1>3, <2>1, <2>10, <2>12, OrderOfAnswers DEF AnswerLast
  <2>14. InStep'
    <3> SUFFICES ASSUME ~trouble', ~swallowed
                 PROVE  /\ a \in Probe!Bodies /\ Good(a)
                        /\ line = <<>> /\ coming' = <<"+", a>>
      BY <1>1, <1>3 DEF InStep, Good
    <3>1. ~trouble /\ a \in {"OK", "long"} /\ ~(a = "long" /\ cmd \in {"write", "done"})
      BY <1>3, Zenon
    <3>2. line = <<>> /\ coming = <<>>
      BY <1>1, <3>1 DEF ProbeInv, InStep
    <3>3. Probe!Packet(a) = <<"+", a>>
      BY <3>1 DEF Probe!Packet
    <3>4. coming' = <<"+", a>>
      BY <1>3, <3>2, <3>3
    <3> QED BY <3>1, <3>2, <3>4 DEF Good, Probe!Bodies
  <2>15. ProbeEnd'
    BY <1>3 DEF ProbeEnd
  <2> QED BY <2>7, <2>11, <2>13, <2>14, <2>15 DEF ProbeInv
<1> QED BY <1>2, <1>3 DEF Probe!Send

\* A "+" and an answer arrive one after the other.
LEMMA PairArrives ==
  ASSUME NEW S, NEW x \in S, NEW y \in S
  PROVE  /\ Head(<<x>>) = x /\ Tail(<<x>>) = <<>> /\ Append(<<>>, x) = <<x>>
         /\ Head(<<x, y>>) = x /\ Tail(<<x, y>>) = <<y>> /\ Append(<<x>>, y) = <<x, y>>
<1> DEFINE m == Append(<<x>>, y)
<1>1. <<x>> \in Seq(S) /\ Len(<<x>>) = 1 /\ <<x>>[1] = x
  OBVIOUS
<1>2. m \in Seq(S) /\ Len(m) = 2 /\ m[1] = x /\ m[2] = y
  BY <1>1
<1> HIDE DEF m
<1>3. m = <<x, y>>
  BY <1>2
<1>4. Head(<<x>>) = x /\ Tail(<<x>>) = <<>> /\ Append(<<>>, x) = <<x>>
  OBVIOUS
<1>5. Head(<<x, y>>) = x /\ Tail(<<x, y>>) = <<y>>
  OBVIOUS
<1> QED BY <1>3, <1>4, <1>5 DEF m

LEMMA ProbeArriveKeeps ==
  ASSUME Common, ProbeInv, board = "probe", UNCHANGED <<board, ran, target>>, Probe!Arrive
  PROVE  Common' /\ ProbeInv'
<1>1. /\ coming # <<>> /\ coming' = Tail(coming)
      /\ line' = IF pc = "idle" THEN <<>> ELSE Append(line, Head(coming))
      /\ UNCHANGED <<pc, step, jobs, flash, len, blk, trouble, doubt, opt, cmd, got, room, answered, swallowed>>
  BY DEF Probe!Arrive
<1>2. /\ coming \in Seq(Probe!Pieces) /\ line \in Seq(Probe!Pieces) /\ cmd \in Probe!Commands
  BY DEF ProbeInv, ProbeTypes
<1>3. Common' /\ ProbeTypes'
  BY <1>1, <1>2 DEF Common, ProbeTypes
<1>4. ProbeWriting' /\ ProbeEnd'
  BY <1>1 DEF ProbeInv, ProbeWriting, ProbeEnd, Erasing, ProgrammedTo, RoomFrom
<1>5. AnswerLast'
  <2> SUFFICES ASSUME pc \in {"ack", "response"}, answered, Erasing
               PROVE  LastOK(coming)' \/ (LastOK(line)' /\ NoBodies(coming)') => Met
    BY <1>1 DEF AnswerLast, Erasing, Met, ProgrammedTo, RoomFrom
  <2>1. line' = Append(line, Head(coming))
    BY <1>1
  <2>2. LastOK(coming') \/ (LastOK(line') /\ NoBodies(coming')) =>
          LastOK(coming) \/ (LastOK(line) /\ NoBodies(coming))
    BY <1>1, <1>2, <2>1, OrderOfArrival
  <2> QED BY <2>2 DEF ProbeInv, AnswerLast, LastOK, NoBodies
<1>6. InStep'
  <2> SUFFICES ASSUME ~trouble, ~swallowed, pc \in {"send", "ack", "response"} PROVE InStep'
    BY <1>1 DEF InStep
  <2>1. pc # "send" /\ line' = Append(line, Head(coming))
    BY <1>1 DEF ProbeInv, InStep
  <2>2. /\ Head(<<"+">>) = "+" /\ Tail(<<"+">>) = <<>> /\ Append(<<>>, "+") = <<"+">>
        /\ "+" \in Probe!Pieces /\ Probe!Bodies \subseteq Probe!Pieces
    BY PairArrives DEF Probe!Pieces
  <2>4. CASE pc = "ack"
    <3>1. PICK a \in Probe!Bodies :
             /\ Good(a)
             /\ \/ /\ got = "" /\ room = AckRead
                   /\ \/ line = <<>> /\ coming = <<"+", a>>
                      \/ line = <<"+">> /\ coming = <<a>>
                      \/ line = <<"+", a>> /\ coming = <<>>
                \/ /\ got = "+"
                   /\ (line = <<a>> /\ coming = <<>>) \/ (line = <<>> /\ coming = <<a>>)
      BY <2>4 DEF ProbeInv, InStep
    <3>2. \/ /\ got = "" /\ room = AckRead
             /\ \/ line' = <<"+">> /\ coming' = <<a>>
                \/ line' = <<"+", a>> /\ coming' = <<>>
          \/ got = "+" /\ line' = <<a>> /\ coming' = <<>>
      <4>1. /\ Head(<<a>>) = a /\ Tail(<<a>>) = <<>> /\ Append(<<>>, a) = <<a>>
            /\ Head(<<"+", a>>) = "+" /\ Tail(<<"+", a>>) = <<a>> /\ Append(<<"+">>, a) = <<"+", a>>
        BY <2>2, PairArrives
      <4>2. CASE got = "" /\ room = AckRead /\ line = <<>> /\ coming = <<"+", a>>
        BY <1>1, <2>1, <2>2, <4>1, <4>2
      <4>3. CASE got = "" /\ room = AckRead /\ line = <<"+">> /\ coming = <<a>>
        BY <1>1, <2>1, <2>2, <4>1, <4>3
      <4>4. CASE got = "+" /\ line = <<>> /\ coming = <<a>>
        BY <1>1, <2>1, <2>2, <4>1, <4>4
      <4> QED BY <1>1, <3>1, <4>2, <4>3, <4>4
    <3> QED BY <1>1, <2>4, <3>1, <3>2 DEF InStep, Good
  <2>5. CASE pc = "response"
    <3>1. PICK a \in Probe!Bodies : Good(a) /\ line = <<>> /\ coming = <<a>>
      BY <1>1, <2>5 DEF ProbeInv, InStep
    <3>2. line' = <<a>> /\ coming' = <<>>
      <4>1. Head(<<a>>) = a /\ Tail(<<a>>) = <<>> /\ Append(<<>>, a) = <<a>>
        BY <2>2, PairArrives
      <4> QED BY <1>1, <2>1, <3>1, <4>1
    <3> QED BY <1>1, <2>5, <3>1, <3>2 DEF InStep, Good
  <2> QED BY <2>1, <2>4, <2>5
<1> QED BY <1>3, <1>4, <1>5, <1>6 DEF ProbeInv

\* wait_ack takes the "+" and, if the answer is there, swallows it.
LEMMA ProbeReadAckKeeps ==
  ASSUME Common, ProbeInv, board = "probe", UNCHANGED <<board, ran, target>>, Probe!ReadAck
  PROVE  Common' /\ ProbeInv'
<1> DEFINE p == Head(line)
<1>1. /\ pc = "ack" /\ line # <<>> /\ room > 0
      /\ got' = IF got = "" THEN p ELSE got
      /\ \/ Probe!Bytes(p) <= room /\ line' = Tail(line)
         \/ Probe!Bytes(p) > room /\ line' = <<"junk">> \o Tail(line)
      /\ swallowed' = (swallowed \/ p \in Probe!Bodies)
      /\ UNCHANGED <<pc, step, jobs, flash, len, blk, trouble, doubt, opt, cmd, coming, answered>>
  BY DEF Probe!ReadAck
<1>2. line \in Seq(Probe!Pieces)
  BY DEF ProbeInv, ProbeTypes
<1>3. line' \in Seq(Probe!Pieces) /\ (LastOK(line') => LastOK(line))
  BY <1>1, <1>2, OrderOfReading
<1>4. Common' /\ ProbeTypes'
  BY <1>1, <1>3 DEF Common, ProbeInv, ProbeTypes
<1>5. ProbeWriting' /\ ProbeEnd'
  BY <1>1 DEF ProbeInv, ProbeWriting, ProbeEnd, Erasing, ProgrammedTo, RoomFrom
<1>6. AnswerLast'
  BY <1>1, <1>3 DEF ProbeInv, AnswerLast, Erasing, Met, ProgrammedTo, RoomFrom, LastOK, NoBodies
<1>7. InStep'
  <2> SUFFICES ASSUME ~trouble, ~swallowed' PROVE InStep'
    BY <1>1 DEF InStep
  <2>1. ~swallowed /\ p \notin Probe!Bodies
    BY <1>1, Zenon
  <2>2. PICK a \in Probe!Bodies :
             /\ Good(a)
             /\ \/ /\ got = "" /\ room = AckRead
                   /\ \/ line = <<>> /\ coming = <<"+", a>>
                      \/ line = <<"+">> /\ coming = <<a>>
                      \/ line = <<"+", a>> /\ coming = <<>>
                \/ /\ got = "+"
                   /\ (line = <<a>> /\ coming = <<>>) \/ (line = <<>> /\ coming = <<a>>)
    BY <1>1, <2>1 DEF ProbeInv, InStep
  <2>3. /\ Head(<<a>>) = a /\ Head(<<"+", a>>) = "+" /\ Tail(<<"+", a>>) = <<a>>
        /\ Head(<<"+">>) = "+" /\ Tail(<<"+">>) = <<>>
    BY PairArrives
  <2>4. /\ got = "" /\ room = AckRead
        /\ (line = <<"+">> /\ coming = <<a>>) \/ (line = <<"+", a>> /\ coming = <<>>)
    BY <1>1, <2>1, <2>2, <2>3
  <2>5. p = "+" /\ Probe!Bytes(p) = 1 /\ room \in Nat \ {0}
    BY <2>3, <2>4, ExecAssumption DEF ExecAssumption, Probe!ProbeAssumption, Probe!Bytes
  <2>6. got' = "+" /\ line' = Tail(line)
    <3>1. got' = "+"
      BY <1>1, <2>4, <2>5
    <3>2. ~(Probe!Bytes(p) > room)
      BY <2>5
    <3> QED BY <1>1, <3>1, <3>2
  <2>7. (line' = <<a>> /\ coming' = <<>>) \/ (line' = <<>> /\ coming' = <<a>>)
    BY <1>1, <2>3, <2>4, <2>6
  <2> QED BY <1>1, <2>2, <2>6, <2>7 DEF InStep, Good
<1> QED BY <1>4, <1>5, <1>6, <1>7 DEF ProbeInv

\* Without trouble the first byte that wait_ack has is a "+".
LEMMA ProbeCheckAckKeeps ==
  ASSUME Common, ProbeInv, board = "probe", UNCHANGED <<board, ran, target>>, Probe!CheckAck
  PROVE  Common' /\ ProbeInv'
<1>1. /\ pc = "ack" /\ (line = <<>> \/ room = 0)
      /\ UNCHANGED <<jobs, flash, len, doubt, opt, answered>>
  BY DEF Probe!CheckAck
<1>2. /\ coming' = coming \/ (line = <<>> /\ coming' \in Probe!Cut)
      /\ ~swallowed' => ~swallowed /\ coming' = coming
  BY DEF Probe!CheckAck
<1>3. coming' \in Seq(Probe!Pieces) /\ (LastOK(coming') => LastOK(coming))
  BY <1>2, OrderOfCuts DEF ProbeInv, ProbeTypes
<1>4. CASE got = "+"
  <2>1. pc' = "response" /\ UNCHANGED <<step, cmd, line, blk, trouble>>
    BY <1>4 DEF Probe!CheckAck
  <2>2. Common' /\ ProbeTypes'
    BY <1>1, <1>3, <2>1 DEF Common, ProbeInv, ProbeTypes
  <2>3. ProbeWriting' /\ ProbeEnd'
    BY <1>1, <2>1 DEF ProbeInv, ProbeWriting, ProbeEnd, Erasing, ProgrammedTo, RoomFrom
  <2>4. AnswerLast'
    <3>1. LastOK(line) => coming' = coming
      BY <1>2, NothingIsLast
    <3>2. LastOK(line)' <=> LastOK(line)
      BY <2>1 DEF LastOK
    <3>3. LastOK(coming)' => LastOK(coming)
      BY <1>3 DEF LastOK
    <3>4. LastOK(line) => (NoBodies(coming)' <=> NoBodies(coming))
      BY <3>1 DEF NoBodies
    <3>5. Met' <=> Met
      BY <1>1, <2>1 DEF Met, ProgrammedTo, RoomFrom
    <3>6. Erasing' <=> Erasing
      BY <1>1 DEF Erasing
    <3> QED BY <1>1, <3>2, <3>3, <3>4, <3>5, <3>6 DEF ProbeInv, AnswerLast
  <2>5. InStep'
    <3> SUFFICES ASSUME ~trouble, ~swallowed' PROVE InStep'
      BY <2>1 DEF InStep
    <3>1. PICK a \in Probe!Bodies :
            Good(a) /\ ((line = <<a>> /\ coming = <<>>) \/ (line = <<>> /\ coming = <<a>>))
      BY <1>1, <1>2, <1>4 DEF ProbeInv, InStep
    <3> QED BY <1>2, <2>1, <3>1 DEF InStep, Good
  <2> QED BY <2>2, <2>3, <2>4, <2>5 DEF ProbeInv
<1>5. CASE got # "+"
  <2>1. Probe!Missed
    BY <1>5 DEF Probe!CheckAck
  <2>2. ~trouble' => ~trouble /\ coming = <<>>
    BY <1>5, Zenon DEF Probe!CheckAck
  <2>3. ASSUME ~trouble', ~swallowed' PROVE FALSE
    <3>1. ~trouble /\ ~swallowed /\ coming = <<>>
      BY <1>2, <2>2, <2>3
    <3>2. PICK a \in Probe!Bodies :
             /\ room = AckRead
             /\ \/ line = <<>> /\ coming = <<"+", a>>
                \/ line = <<"+">> /\ coming = <<a>>
                \/ line = <<"+", a>> /\ coming = <<>>
      BY <1>1, <1>5, <3>1 DEF ProbeInv, InStep
    <3>3. line = <<"+", a>> /\ line # <<>>
      BY <3>1, <3>2
    <3>4. room # 0
      BY <3>2, ExecAssumption DEF ExecAssumption, Probe!ProbeAssumption
    <3> QED BY <1>1, <3>3, <3>4
  <2> QED BY <1>1, <1>3, <2>1, <2>3, ProbeMisses
<1> QED BY <1>4, <1>5

\* An answer that counts is the answer to this command.
LEMMA ProbeReadResponseKeeps ==
  ASSUME Common, ProbeInv, board = "probe", UNCHANGED <<board, ran, target>>, Probe!ReadResponse
  PROVE  Common' /\ ProbeInv'
<1>1. /\ pc = "response" /\ line # <<>>
      /\ UNCHANGED <<jobs, flash, len, opt, coming, got, room, answered, swallowed>>
  BY DEF Probe!ReadResponse
<1>2. /\ line \in Seq(Probe!Pieces) /\ Tail(line) \in Seq(Probe!Pieces)
      /\ LastOK(Tail(line)) => LastOK(line)
      /\ coming \in Seq(Probe!Pieces)
  BY <1>1, OrderOfReading DEF ProbeInv, ProbeTypes
<1>3. CASE Head(line) \notin Probe!Bodies
  <2>1. line' = Tail(line) /\ UNCHANGED <<pc, step, cmd, blk, trouble, doubt>>
    BY <1>3 DEF Probe!ReadResponse
  <2>2. Common' /\ ProbeTypes'
    BY <1>1, <1>2, <2>1 DEF Common, ProbeInv, ProbeTypes
  <2>3. ProbeWriting' /\ ProbeEnd'
    BY <1>1, <2>1 DEF ProbeInv, ProbeWriting, ProbeEnd, Erasing, ProgrammedTo, RoomFrom
  <2>4. AnswerLast'
    BY <1>1, <1>2, <2>1 DEF ProbeInv, AnswerLast, Erasing, Met, ProgrammedTo, RoomFrom, LastOK, NoBodies
  <2>5. ASSUME ~trouble, ~swallowed PROVE FALSE
    <3>1. PICK a \in Probe!Bodies : line = <<a>>
      BY <1>1, <2>5 DEF ProbeInv, InStep
    <3> QED BY <1>3, <3>1
  <2>6. InStep'
    BY <1>1, <2>1, <2>5 DEF InStep
  <2> QED BY <2>2, <2>3, <2>4, <2>6 DEF ProbeInv
<1>4. CASE Head(line) \in Probe!Bodies
  <2> DEFINE p == Head(line)
  <2>1. Probe!Response(p)
    BY <1>4 DEF Probe!ReadResponse
  <2>2. CASE cmd \in {"write", "done"} /\ p # "OK"
    BY <1>1, <1>2, <2>1, <2>2, ProbeFails DEF Common, Probe!Response
  <2>3. CASE ~(cmd \in {"write", "done"} /\ p # "OK")
    <3>1. Probe!Advance(Tail(line)) /\ UNCHANGED trouble
      BY <2>1, <2>3 DEF Probe!Response
    <3>2. /\ ~doubt' => ~doubt /\ ~(cmd \in {"erase", "write", "done"} /\ Probe!Stale)
                              /\ ~(cmd = "erase" /\ p # "OK")
      BY <2>1, Zenon DEF Probe!Response
    <3>3. ASSUME Erasing' PROVE Erasing /\ (cmd = "erase" => RoomFrom(0)) /\ (cmd = "write" => ProgrammedTo(blk + 1))
      <4>1. Erasing /\ opt.sized
        BY <1>1, <3>2, <3>3 DEF Erasing
      <4>2. ASSUME cmd \in {"erase", "write"} PROVE Met
        <5>1. p = "OK" /\ ~Probe!Stale
          BY <2>3, <3>2, <3>3, <4>2 DEF Erasing
        <5>2. answered /\ LastOK(line) /\ NoBodies(coming)
          BY <1>1, <5>1, FreshAnswer DEF ProbeInv
        <5> QED BY <1>1, <4>1, <5>2 DEF ProbeInv, AnswerLast
      <4> QED BY <4>1, <4>2 DEF Met
    <3>4. /\ Common' /\ line' \in Seq(Probe!Pieces) /\ cmd' \in Probe!Commands /\ ProbeWriting'
          /\ (pc' = "send" /\ line' = Tail(line)) \/ (pc' = "idle" /\ step' = "DONE")
          /\ pc' = "idle" /\ Erasing' => ProgrammedTo(len)'
      BY <1>1, <1>2, <3>1, <3>3, ProbeAdvances
    <3>5. ~trouble /\ ~swallowed => Tail(line) = <<>> /\ coming = <<>>
      <4> SUFFICES ASSUME ~trouble, ~swallowed PROVE Tail(line) = <<>> /\ coming = <<>>
        OBVIOUS
      <4>1. PICK a \in Probe!Bodies : line = <<a>> /\ coming = <<>>
        BY <1>1 DEF ProbeInv, InStep
      <4> QED BY <4>1, PairArrives
    <3>6. InStep'
      BY <1>1, <3>1, <3>4, <3>5 DEF InStep
    <3> QED BY <1>1, <1>2, <3>4, <3>6 DEF ProbeInv, ProbeTypes, AnswerLast, ProbeEnd
  <2> QED BY <2>2, <2>3
<1> QED BY <1>3, <1>4

LEMMA ProbeResponseLateKeeps ==
  ASSUME Common, ProbeInv, board = "probe", UNCHANGED <<board, ran, target>>, Probe!ResponseLate
  PROVE  Common' /\ ProbeInv'
<1>1. /\ pc = "response" /\ line = <<>> /\ Probe!Missed /\ coming' \in Probe!Cut
      /\ UNCHANGED <<jobs, flash, len, doubt, opt, swallowed>>
  BY DEF Probe!ResponseLate
<1>2. ~trouble' => ~trouble /\ coming = <<>>
  BY Zenon DEF Probe!ResponseLate
<1>3. trouble' \/ swallowed'
  BY <1>1, <1>2 DEF ProbeInv, InStep
<1>4. coming' \in Seq(Probe!Pieces)
  BY <1>1, OrderOfCuts DEF ProbeInv, ProbeTypes
<1> QED BY <1>1, <1>3, <1>4, ProbeMisses

LEMMA ProbeUpdateKeeps ==
  ASSUME Common, ProbeInv, board = "probe", UNCHANGED <<board, ran, target>>, Probe!Update
  PROVE  Common' /\ ProbeInv'
  BY ProbeSendKeeps, ProbeEndOfFileKeeps, ProbeReadAckKeeps, ProbeCheckAckKeeps,
     ProbeReadResponseKeeps, ProbeResponseLateKeeps DEF Probe!Update
-----------------------------------------------------------------------------
(***************************************************************************)
(* The four executors together.                                            *)
(***************************************************************************)
\* A board that was just connected has been updated by nobody.
Fresh ==
  /\ board \in Boards /\ ran = 0 /\ pc = "idle" /\ jobs \in Nat /\ len = 1 /\ blk = 0
  /\ target \in LpcsOf(board) /\ flash = [k \in 0 .. Size(board, target) - 1 |-> 0]
  /\ ram = [p \in 1 .. Parts |-> -1] /\ part = 1 /\ sector = 0 /\ local = 0 /\ bank = 0
  /\ tail = PageBytes /\ index = 0 /\ sent = 0 /\ seq = 0
  /\ rx = [want |-> 0, got |-> 0, next |-> 1] /\ last = BlockBytes
  /\ cmd = "qSupported" /\ coming = <<>> /\ line = <<>>

LEMMA FreshBoard == Fresh => ExecInv
<1> SUFFICES ASSUME Fresh PROVE ExecInv
  OBVIOUS
<1> USE DEF Fresh
<1>1. Common
  BY ExecAssumption DEF ExecAssumption, Common
<1>2. board = "lpc" => LpcInv
  BY DEF LpcsOf, LpcInv, LpcTypes, LpcErasing, LpcWriting, LpcRam, LpcEnd
<1>3. board = "can" => CanInv
  BY CanAssumed DEF CanInv, CanTypes, CanErasing, CanWriting, CanPage, CanStep, CanEnd
<1>4. board = "stm" => StmInv
  BY ExecAssumption DEF ExecAssumption, Stm!StmAssumption, StmInv
<1>5. board = "probe" => ProbeInv
  <2>1. <<>> \in Seq(Probe!Pieces) /\ "qSupported" \in Probe!Commands
    BY DEF Probe!Commands
  <2> QED BY <2>1 DEF ProbeInv, ProbeTypes, ProbeWriting, AnswerLast, InStep, ProbeEnd
<1> QED BY <1>1, <1>2, <1>3, <1>4, <1>5 DEF ExecInv, BoardInv

LEMMA InitExecInv == Init => ExecInv
<1>1. Init => Fresh
  <2> SUFFICES ASSUME Init PROVE Fresh
    OBVIOUS
  <2>1. ram = [p \in 1 .. Parts |-> -1] /\ part = 1 /\ sector = 0 /\ local = 0 /\ bank = 0
    BY DEF Init, Isp!LpcInit, Isp!Garbled
  <2>2. /\ tail = PageBytes /\ index = 0 /\ sent = 0 /\ seq = 0
        /\ rx = [want |-> 0, got |-> 0, next |-> 1]
    BY DEF Init, Can!CanInit
  <2>3. cmd = "qSupported" /\ coming = <<>> /\ line = <<>>
    BY DEF Init, Probe!ProbeInit
  <2> QED BY <2>1, <2>2, <2>3 DEF Init, Fresh
<1> QED BY <1>1, FreshBoard

LEMMA ConnectKeeps == ExecInv /\ Connect => ExecInv'
<1>1. Fresh' => ExecInv'
  BY FreshBoard, PTL
<1>2. ASSUME ExecInv, Connect PROVE Fresh'
  <2>1. jobs' \in Nat
    BY <1>2 DEF ExecInv, Common, Connect
  <2> QED BY <1>2, <2>1 DEF Connect, Fresh
<1> QED BY <1>1, <1>2

LEMMA JobKeeps == ExecInv /\ Job => ExecInv'
<1> SUFFICES ASSUME ExecInv, Job PROVE ExecInv'
  OBVIOUS
<1>1. ran' = ran + 1 /\ UNCHANGED board
  BY DEF Job
<1>2. CASE LpcJob
  BY <1>1, <1>2, LpcJobKeeps DEF LpcJob, ExecInv, BoardInv
<1>3. CASE CanJob
  BY <1>1, <1>3, CanJobKeeps DEF CanJob, lpcVars, ExecInv, BoardInv
<1>4. CASE StmJob
  BY <1>1, <1>4, StmJobKeeps DEF StmJob, lpcVars, ExecInv, BoardInv
<1>5. CASE ProbeJob
  BY <1>1, <1>5, ProbeJobKeeps DEF ProbeJob, lpcVars, ExecInv, BoardInv
<1> QED BY <1>2, <1>3, <1>4, <1>5 DEF Job

LEMMA UpdateKeeps == ExecInv /\ Update => ExecInv'
<1> SUFFICES ASSUME ExecInv, Update PROVE ExecInv'
  OBVIOUS
<1>1. UNCHANGED <<board, ran>>
  BY DEF Update
<1>2. CASE board = "lpc" /\ Isp!Update
  BY <1>1, <1>2, LpcUpdateKeeps DEF ExecInv, BoardInv
<1>3. CASE board = "can" /\ Can!Update /\ UNCHANGED lpcVars
  BY <1>1, <1>3, CanUpdateKeeps DEF lpcVars, ExecInv, BoardInv
<1>4. CASE board = "stm" /\ Stm!Update /\ UNCHANGED lpcVars
  BY <1>1, <1>4, StmUpdateKeeps DEF lpcVars, ExecInv, BoardInv
<1>5. CASE board = "probe" /\ Probe!Update /\ UNCHANGED lpcVars
  BY <1>1, <1>5, ProbeUpdateKeeps DEF lpcVars, ExecInv, BoardInv
<1> QED BY <1>2, <1>3, <1>4, <1>5 DEF Update

LEMMA TargetKeeps == ExecInv /\ Target => ExecInv'
  BY CanStopsKeeps, ProbeArriveKeeps DEF Target, lpcVars, ExecInv, BoardInv

LEMMA StutterKeeps == ExecInv /\ UNCHANGED vars => ExecInv'
<1> SUFFICES ASSUME ExecInv, UNCHANGED vars PROVE ExecInv'
  OBVIOUS
<1> USE DEF vars, lpcVars, canVars, probeVars
<1>1. Common'
  BY DEF ExecInv, Common
<1>2. board = "lpc" => LpcInv'
  BY DEF ExecInv, BoardInv, LpcInv, LpcTypes, LpcErasing, LpcWriting, LpcRam, LpcEnd, ErasedFrom,
     Isp!Sectors, Isp!Data
<1>3. board = "can" => CanInv'
  BY DEF ExecInv, BoardInv, CanInv, CanTypes, CanErasing, CanWriting, CanPage, CanStep, CanEnd,
     ErasedFrom, ProgrammedTo, Can!Bytes
<1>4. board = "stm" => StmInv'
  BY DEF ExecInv, BoardInv, StmInv, ErasedFrom, ProgrammedTo
<1>5. board = "probe" => ProbeInv'
  BY DEF ExecInv, BoardInv, ProbeInv, ProbeTypes, ProbeWriting, AnswerLast, InStep, ProbeEnd,
     Erasing, Met, ProgrammedTo, RoomFrom, LastOK, NoBodies, Good
<1> QED BY <1>1, <1>2, <1>3, <1>4, <1>5 DEF ExecInv, BoardInv

LEMMA AlwaysExecInv == Spec => []ExecInv
<1>1. ExecInv /\ [Next]_vars => ExecInv'
  BY ConnectKeeps, JobKeeps, UpdateKeeps, TargetKeeps, StutterKeeps DEF Next
<1> QED BY InitExecInv, <1>1, PTL DEF Spec

\* fw_state_set_step(FW_STEP_DONE, ...), or ESP_OK of the STM32's executor: the
\* target holds the image of this update, whole and alone, unless the code took
\* data for written, or an erase for done, that was not; for every image, every
\* target and any number of updates of any boards, one after the other.
THEOREM DoneHoldsImage == Spec => []DoneIsProgrammed
<1>1. ASSUME ExecInv PROVE DoneIsProgrammed
  <2> SUFFICES ASSUME SaidDone, ~doubt, board = "probe" => ~opt.dry /\ opt.erase /\ opt.sized,
                      NEW b \in DOMAIN flash
               PROVE  IF b < len THEN flash[b] = jobs ELSE board = "probe" \/ flash[b] = Erased
    BY DEF DoneIsProgrammed
  <2>1. pc = "idle" /\ ran > 0 /\ (IF board = "stm" THEN ret = "ok" ELSE step = "DONE")
    BY DEF SaidDone
  <2>2. b \in Nat /\ len \in Nat /\ board \in {"lpc", "can", "stm", "probe"}
    BY <1>1 DEF ExecInv, Common
  <2>3. CASE board = "lpc"
    BY <1>1, <2>1, <2>3 DEF ExecInv, BoardInv, LpcInv, LpcEnd, Isp!Data, Isp!Erased, Erased
  <2>4. CASE board = "can"
    BY <1>1, <2>1, <2>2, <2>4 DEF ExecInv, BoardInv, CanInv, CanEnd, ProgrammedTo, ErasedFrom
  <2>5. CASE board = "stm"
    BY <1>1, <2>1, <2>2, <2>5 DEF ExecInv, BoardInv, StmInv, ProgrammedTo, ErasedFrom
  <2>6. CASE board = "probe"
    BY <1>1, <2>1, <2>2, <2>6 DEF ExecInv, BoardInv, ProbeInv, ProbeEnd, Erasing, ProgrammedTo
  <2> QED BY <2>2, <2>3, <2>4, <2>5, <2>6
<1>2. ExecInv => DoneIsProgrammed
  BY <1>1
<1> QED BY <1>2, AlwaysExecInv, PTL

\* The error paths of uart_isp_update.c, can_fw_update.c, stm32_update.c and
\* probe_link_update.c: without trouble from outside an update fails only for
\* one of the causes that lie in the code.
THEOREM FailureHasCause == Spec => []FailsForCause
<1>1. ASSUME ExecInv PROVE FailsForCause
  <2>1. board \in {"lpc", "can", "stm", "probe"}
    BY <1>1 DEF ExecInv, Common
  <2> SUFFICES ASSUME pc = "idle", ran > 0, ~trouble
               PROVE  /\ board = "lpc" => (step = "ERROR" => len >= target.a * PerSector)
                      /\ board = "can" => (ret = "fail" => Can!timing_from_bps(asked) # BootRate)
                      /\ board = "stm" => (ret = "fail" => len > 1 \/ last = BlockBytes)
                      /\ board = "probe" => (step = "ERROR" => swallowed)
    BY <2>1 DEF FailsForCause
  <2> QED BY <1>1 DEF ExecInv, BoardInv, LpcInv, LpcEnd, CanInv, CanEnd, StmInv, ProbeInv, ProbeEnd
<1>2. ExecInv => FailsForCause
  BY <1>1
<1> QED BY <1>2, AlwaysExecInv, PTL

\* tms_user_sw_send (incan.c): the frames of a page are numbered as the target
\* counts them and carry all of it, for pages of every size and tails of every
\* length.
THEOREM WholePagesArrive == Spec => []PageArrives
<1>1. ExecInv => PageArrives
  BY WholePage DEF ExecInv, BoardInv, PageArrives
<1> QED BY <1>1, AlwaysExecInv, PTL
-----------------------------------------------------------------------------
(* What is written goes where the flash is erased. *)
WriteErased ==
  \A b \in DOMAIN flash : flash'[b] # flash[b] /\ flash'[b] # Erased => flash[b] = Erased

\* One block is written, where everything from it on is erased.
LEMMA BlockErased ==
  ASSUME Common, ErasedFrom(blk), UNCHANGED flash \/ \E d : flash' = [flash EXCEPT ![blk] = d]
  PROVE  WriteErased
<1>1. CASE UNCHANGED flash
  BY <1>1 DEF WriteErased
<1>2. ASSUME NEW d, flash' = [flash EXCEPT ![blk] = d] PROVE WriteErased
  <2>1. \A b \in DOMAIN flash : b # blk => flash'[b] = flash[b]
    BY <1>2
  <2>2. blk \in DOMAIN flash => flash[blk] = Erased
    BY DEF Common, ErasedFrom
  <2> QED BY <2>1, <2>2 DEF WriteErased
<1> QED BY <1>1, <1>2

LEMMA LpcWritesErased == ASSUME Common, LpcInv, Isp!Job \/ Isp!Update PROVE WriteErased
<1>1. CASE Isp!Erase
  BY <1>1 DEF Isp!Erase, Isp!Command, Isp!EraseSector, Isp!Erased, Erased, WriteErased
<1>2. CASE Isp!Copy
  <2>1. ErasedFrom(blk)
    BY <1>2 DEF Isp!Copy, LpcInv, LpcWriting
  <2>2. UNCHANGED flash \/ \E d : flash' = [flash EXCEPT ![blk] = d]
    BY <1>2 DEF Isp!Copy, Isp!Command
  <2> QED BY <2>1, <2>2, BlockErased
<1>3. CASE UNCHANGED flash
  BY <1>3 DEF WriteErased
<1> QED BY <1>1, <1>2, <1>3 DEF Isp!Job, Isp!Update, Isp!SyncAgain, Isp!Synchronise, Isp!Echo, Isp!ReadEcho,
   Isp!Identify, Isp!Unlock, Isp!Load, Isp!Buffer, Isp!Address, Isp!SendPart, Isp!RamWritten,
   Isp!Prepare, Isp!Finish, Isp!machine

LEMMA CanWritesErased ==
  ASSUME Common, CanInv, Can!Job \/ Can!Update \/ Can!TargetStops PROVE WriteErased
<1>1. CASE Can!Erase
  BY <1>1 DEF Can!Erase, Can!Erased, Erased, WriteErased
<1>2. CASE Can!Write
  <2>1. ErasedFrom(blk)
    BY <1>2 DEF Can!Write, CanInv, CanWriting
  <2>2. UNCHANGED flash \/ \E d : flash' = [flash EXCEPT ![blk] = d]
    BY <1>2 DEF Can!Write
  <2> QED BY <2>1, <2>2, BlockErased
<1>3. CASE UNCHANGED flash
  BY <1>3 DEF WriteErased
<1> QED BY <1>1, <1>2, <1>3 DEF Can!Job, Can!Update, Can!OpenSlow, Can!Enter, Can!OpenFast, Can!Check,
   Can!FirstFrame, Can!ReadsNothing, Can!Flow, Can!Frame, Can!Accept, Can!Finish, Can!TargetStops

LEMMA StmWritesErased == ASSUME Common, StmInv, Stm!Job \/ Stm!Update PROVE WriteErased
<1>1. CASE Stm!Erase
  BY <1>1 DEF Stm!Erase, Stm!Erased, Erased, WriteErased
<1>2. CASE Stm!Block
  <2>1. ErasedFrom(blk)
    BY <1>2 DEF Stm!Block, StmInv
  <2>2. UNCHANGED flash \/ \E d : flash' = [flash EXCEPT ![blk] = d]
    BY <1>2 DEF Stm!Block
  <2> QED BY <2>1, <2>2, BlockErased
<1>3. CASE UNCHANGED flash
  BY <1>3 DEF WriteErased
<1> QED BY <1>1, <1>2, <1>3 DEF Stm!Job, Stm!Update, Stm!Sync, Stm!Open, Stm!Finish

LEMMA ProbeWritesErased ==
  ASSUME Common, ProbeInv, Erasing, Probe!Job \/ Probe!Update \/ Probe!Arrive PROVE WriteErased
<1>1. CASE UNCHANGED flash
  BY <1>1 DEF WriteErased
<1>2. CASE pc = "send" /\ cmd = "erase" /\ flash' = Probe!Done(cmd)
  BY <1>2 DEF Probe!Done, Probe!Erased, Erased, WriteErased
<1>3. CASE pc = "send" /\ cmd = "write" /\ blk < len /\ flash' = Probe!Done(cmd)
  <2>1. \A b \in DOMAIN flash : b # blk => flash'[b] = flash[b]
    BY <1>3 DEF Probe!Done, Common
  <2>2. RoomFrom(blk)
    BY <1>3 DEF ProbeInv, ProbeWriting
  <2> QED BY <1>3, <2>1, <2>2 DEF Common, RoomFrom, WriteErased
<1>4. CASE Probe!Send
  <2>1. cmd \in {"qSupported", "scan", "attach", "erase", "write", "done", "reset"}
    BY DEF ProbeInv, ProbeTypes, Probe!Commands
  <2>2. UNCHANGED flash \/ flash' = Probe!Done(cmd)
    BY <1>4 DEF Probe!Send
  <2>3. cmd \notin {"erase", "write"} => Probe!Done(cmd) = flash
    BY <2>1 DEF Probe!Done
  <2> QED BY <1>1, <1>2, <1>3, <1>4, <2>1, <2>2, <2>3 DEF Probe!Send
<1> QED BY <1>1, <1>4 DEF Probe!Job, Probe!Update, Probe!EndOfFile, Probe!ReadAck, Probe!CheckAck,
   Probe!ReadResponse, Probe!ResponseLate, Probe!Arrive

\* LPCISP_Copy, tms_flash_write, stm32_bl_write_block and vFlashWrite: nothing
\* is programmed over what an update, or the factory, has programmed before, for
\* every kind of target and any image.
THEOREM NothingWrittenTwice == Spec => WritesErased
<1>1. ASSUME ExecInv, Next, ran > 0, ran' > 0, board = "probe" => opt.erase /\ opt.sized /\ ~doubt
      PROVE  WriteErased
  <2>1. CASE Connect
    <3>1. ran' = 0
      BY <2>1 DEF Connect
    <3> QED BY <1>1, <3>1
  <2>2. CASE Job
    BY <1>1, <2>2, LpcWritesErased, CanWritesErased, StmWritesErased, ProbeWritesErased
       DEF Job, LpcJob, CanJob, StmJob, ProbeJob, ExecInv, BoardInv, Erasing
  <2>3. CASE Update \/ Target
    BY <1>1, <2>3, LpcWritesErased, CanWritesErased, StmWritesErased, ProbeWritesErased
       DEF Update, Target, ExecInv, BoardInv, Erasing
  <2> QED BY <1>1, <2>1, <2>2, <2>3 DEF Next
<1>2. ExecInv /\ [Next]_vars =>
        [ran > 0 /\ ran' > 0 /\ (board = "probe" => opt.erase /\ opt.sized /\ ~doubt) =>
           \A b \in DOMAIN flash :
             flash'[b] # flash[b] /\ flash'[b] # Erased => flash[b] = Erased]_vars
  BY <1>1 DEF WriteErased
<1> QED BY <1>2, AlwaysExecInv, PTL DEF Spec, WritesErased
=============================================================================
