----------------------------- MODULE Executors -----------------------------
(***************************************************************************)
(* The worker of fw_update_worker.c runs the executors one after another.  *)
(* They share fw_state, whose step the phone polls, and the firmware job;  *)
(* each has its target, in front of a user who may connect another one.    *)
(***************************************************************************)
EXTENDS Integers, Sequences

CONSTANTS
  Boards,                                    \* of {"lpc", "can", "stm", "probe"}
  PerSector, Parts, Resends, Retries, BankA, BankB,             \* of IspUpdate
  MaxPages, PageBytes, Tails, Indexes, Wrap, Rates, Supported, Default, BootRate, EnterRate,
                                                                \* of CanUpdate
  StmBlocks, BlockBytes, ByteWidth, StmTails,                   \* of StmUpdate
  ProbeBlocks, AckRead, Metas,                                  \* of ProbeUpdate
  MaxJobs,     \* bound on the updates
  Updates,     \* bounds on the updates of one board of each kind
  MaxBoards    \* bound on the boards that are connected

VARIABLES
  board,       \* the kind of target that is connected
  boards,      \* number of boards connected before
  ran,         \* number of updates of this board
  pc, step, jobs, flash, len, blk, trouble, doubt, ret,
  target, ram, prepared, tries, sector, local, bank, part, resend,
  tail, mine, asked, rate, index, sent, seq, rx, silent,
  last,
  opt, cmd, coming, line, got, room, answered, swallowed

Isp   == INSTANCE IspUpdate
Can   == INSTANCE CanUpdate
Stm   == INSTANCE StmUpdate
Probe == INSTANCE ProbeUpdate

ASSUME ExecAssumption ==
  /\ Isp!IspAssumption /\ Can!CanAssumption /\ Stm!StmAssumption /\ Probe!ProbeAssumption
  /\ Boards \subseteq {"lpc", "can", "stm", "probe"} /\ MaxBoards \in Nat
  /\ Updates \in [Boards -> Nat]

lpcVars   == <<target, ram, prepared, tries, sector, local, bank, part, resend>>
canVars   == <<tail, mine, asked, rate, index, sent, seq, rx, silent>>
probeVars == <<opt, cmd, coming, line, got, room, answered, swallowed>>
vars == <<board, boards, ran, pc, step, jobs, flash, len, blk, trouble, doubt, ret,
          lpcVars, canVars, last, probeVars>>

Erased == -1

\* The blocks of a board's flash, which comes with factory contents.
Size(b, t) ==
  CASE b = "lpc"  -> (t.a + t.b) * PerSector
    [] b = "can"  -> MaxPages
    [] b = "stm"  -> StmBlocks
    [] OTHER      -> ProbeBlocks

NoLpc == CHOOSE t \in Isp!PartDefs : TRUE

\* The LPCs that a board of kind b may be; the other kinds leave target alone.
LpcsOf(b) == IF b = "lpc" THEN Isp!PartDefs ELSE {NoLpc}

Init ==
  /\ board \in Boards /\ boards = 0 /\ ran = 0
  /\ pc = "idle" /\ step = "PREPARE" /\ jobs = 0 /\ ret = "none"
  /\ len = 1 /\ blk = 0 /\ trouble = FALSE /\ doubt = FALSE
  /\ Isp!LpcInit /\ target \in LpcsOf(board)
  /\ flash = [k \in 0 .. Size(board, target) - 1 |-> 0]
  /\ Can!CanInit /\ last = BlockBytes /\ Probe!ProbeInit

\* Another board is connected while no update runs.  The step that the phone
\* polls stays; what an executor's locals hold between two jobs does not matter.
Connect ==
  /\ pc = "idle" /\ boards < MaxBoards
  /\ board' \in Boards /\ boards' = boards + 1 /\ ran' = 0
  /\ target' \in LpcsOf(board')
  /\ flash' = [k \in 0 .. Size(board', target') - 1 |-> 0]
  /\ len' = 1 /\ blk' = 0 /\ trouble' = FALSE /\ doubt' = FALSE /\ ret' = "none"
  /\ ram' = [p \in 1 .. Parts |-> -1] /\ prepared' = -1
  /\ tries' = 0 /\ sector' = 0 /\ local' = 0 /\ bank' = 0 /\ part' = 1 /\ resend' = Resends
  /\ tail' = PageBytes /\ mine' = TRUE /\ asked' = Default /\ rate' = 0 /\ index' = 0
  /\ sent' = 0 /\ seq' = 0 /\ rx' = [want |-> 0, got |-> 0, next |-> 1] /\ silent' = FALSE
  /\ last' = BlockBytes
  /\ opt' = [dry |-> TRUE, erase |-> TRUE, reset |-> FALSE, sized |-> TRUE]
  /\ cmd' = "qSupported" /\ coming' = <<>> /\ line' = <<>> /\ got' = "" /\ room' = 0
  /\ answered' = FALSE /\ swallowed' = FALSE
  /\ UNCHANGED <<pc, step, jobs>>

\* The registry and the executor of a job fit the board.
LpcJob   == board = "lpc"   /\ Isp!Job   /\ UNCHANGED <<ret, canVars, last, probeVars>>
CanJob   == board = "can"   /\ Can!Job   /\ UNCHANGED <<lpcVars, last, probeVars>>
StmJob   == board = "stm"   /\ Stm!Job   /\ UNCHANGED <<lpcVars, canVars, probeVars>>
ProbeJob == board = "probe" /\ Probe!Job /\ UNCHANGED <<ret, lpcVars, canVars, last>>

\* fw_update_worker_task takes a job and runs its executor.
Job ==
  /\ ran < Updates[board] /\ ran' = ran + 1
  /\ LpcJob \/ CanJob \/ StmJob \/ ProbeJob
  /\ UNCHANGED <<board, boards>>

\* A step of the executor that runs.
Update ==
  /\ \/ board = "lpc"   /\ Isp!Update   /\ UNCHANGED <<ret, canVars, last, probeVars>>
     \/ board = "can"   /\ Can!Update   /\ UNCHANGED <<lpcVars, last, probeVars>>
     \/ board = "stm"   /\ Stm!Update   /\ UNCHANGED <<lpcVars, canVars, probeVars>>
     \/ board = "probe" /\ Probe!Update /\ UNCHANGED <<ret, lpcVars, canVars, last>>
  /\ UNCHANGED <<board, boards, ran>>

\* A step of the target on its own.
Target ==
  /\ \/ board = "can"   /\ Can!TargetStops /\ UNCHANGED <<lpcVars, last, probeVars>>
     \/ board = "probe" /\ Probe!Arrive    /\ UNCHANGED <<ret, lpcVars, canVars, last>>
  /\ UNCHANGED <<board, boards, ran>>

Next == Connect \/ Job \/ Update \/ Target

Spec == Init /\ [][Next]_vars

\* Every wait has a timeout, but for the two of CanUpdate that no action ends.
FairSpec == Spec /\ WF_vars(Update)
-----------------------------------------------------------------------------
TypeOK ==
  /\ board \in Boards /\ boards \in 0 .. MaxBoards /\ jobs \in 0 .. MaxJobs
  /\ DOMAIN flash = 0 .. Size(board, target) - 1
  /\ board = "lpc" /\ ran > 0 => Isp!TypeOK
  /\ board = "can" /\ ran > 0 => Can!TypeOK
  /\ last \in 1 .. BlockBytes /\ cmd \in Probe!Commands
  /\ room \in 0 .. AckRead /\ {coming, line} \subseteq Seq(Probe!Pieces)

\* The executor says that the board holds the image: by the step DONE, or, for
\* an STM32, which shows no step, by its return value.
SaidDone ==
  /\ pc = "idle" /\ ran > 0
  /\ IF board = "stm" THEN ret = "ok" ELSE step = "DONE"

\* What is said to be done is in the flash, whole and alone, unless the code
\* took data for written, or an erase for done, that was not (doubt) or the
\* update was a dry run or one without an erase.
DoneIsProgrammed ==
  SaidDone /\ ~doubt /\ (board = "probe" => ~opt.dry /\ opt.erase /\ opt.sized) =>
    \A b \in DOMAIN flash :
      IF b < len THEN flash[b] = jobs ELSE board = "probe" \/ flash[b] = Erased

\* A block is written only where the flash is erased: nothing that is sent
\* twice is programmed twice, in any bank and by any executor that erases.
WritesErased ==
  [][ran > 0 /\ ran' > 0 /\ (board = "probe" => opt.erase /\ opt.sized /\ ~doubt) =>
       \A b \in DOMAIN flash :
         flash'[b] # flash[b] /\ flash'[b] # Erased => flash[b] = Erased]_vars

\* An update in which the device, its card and the target met every request
\* fails only for a cause in the code: an image that reaches the end of bank A,
\* another id than the TMS board's or a rate that the driver does not know, a
\* full block for the STM32, an answer of the probe that was read with its "+".
FailsForCause ==
  pc = "idle" /\ ran > 0 /\ ~trouble =>
    CASE board = "lpc"   -> step = "ERROR" => len >= target.a * PerSector
      [] board = "can"   -> ret = "fail" => Can!timing_from_bps(asked) # BootRate
      [] board = "stm"   -> ret = "fail" => len > 1 \/ last = BlockBytes
      [] board = "probe" -> step = "ERROR" => swallowed

\* When the last frame of a page is out, the target has the whole page.
PageArrives ==
  board = "can" /\ pc = "frames" /\ sent >= rx.want + 1 => rx.got = rx.want

\* An update comes to an end, except with a TMS board that stopped to answer or
\* that has another id than the code insists on.
UpdateEnds == pc # "idle" ~> pc = "idle" \/ (board = "can" /\ Can!Stuck)
=============================================================================
