--------------------------- MODULE EspOta_proofs ---------------------------
(***************************************************************************)
(* The device keeps a whole image to run from, whatever fails and whenever *)
(* the power does (EspOta), for every number of blocks and jobs.           *)
(***************************************************************************)
EXTENDS EspOta, TLAPS

Ota     == {"ota_0", "ota_1"}
Writing == {"begin", "write", "end"}
Written == {"setboot", "done"}

\* A job writes an OTA partition that the device does not run from.
PartSpare == pc \in Writing \cup Written => part \in Ota /\ part # runs

\* Nothing on the device is newer than the last job; while it writes, nothing
\* is as new.
ImagesByAge ==
  /\ \A s \in Slots : Whole(s) => image[s] <= jobs
  /\ pc \in Writing \cup {"open"} => \A s \in Slots : Whole(s) => image[s] < jobs
  /\ pc \in Written => /\ image[part] = jobs
                       /\ \A s \in Slots : s # part /\ Whole(s) => image[s] < jobs

\* What is selected is what runs, but for the moment before a restart.
BootFollows ==
  /\ pc = "done" => boot = part
  /\ ~stayed => Whole(boot) /\ (pc # "done" => boot = runs)

DoneInTime ==
  /\ step = "DONE" => pc \in {"done", "idle", "open"} /\ Whole(boot) /\ image[boot] > image[runs]

OtaInv ==
  /\ TypeOK /\ PartSpare /\ ImagesByAge /\ BootFollows /\ DoneInTime
  /\ Whole("factory") /\ Whole(runs)
-----------------------------------------------------------------------------
\* The boot loader finds an image, as factory is never written, and loads the
\* selected one if that is whole.
LEMMA LoadsWhole ==
  ASSUME boot \in Slots, Whole("factory")
  PROVE  /\ Loads(boot) \in Slots /\ Whole(Loads(boot))
         /\ Whole(boot) => Loads(boot) = boot
<1> DEFINE f == Fallback(boot)
           First(i) == Whole(f[i]) /\ \A j \in 1 .. i - 1 : ~Whole(f[j])
           n == CHOOSE i \in 1 .. 3 : First(i)
<1>1. f[1] = boot /\ \A i \in 1 .. 3 : f[i] \in Slots
  BY DEF Fallback, Slots
<1>2. \E i \in 1 .. 3 : f[i] = "factory"
  BY DEF Fallback, Slots
<1>3. \E i \in 1 .. 3 : First(i)
  <2>1. CASE Whole(f[1])
    <3>1. First(1)
      BY <2>1
    <3> QED
      BY <3>1
  <2>2. CASE ~Whole(f[1]) /\ Whole(f[2])
    <3>1. First(2)
      BY <2>2
    <3> QED
      BY <3>1
  <2>3. CASE ~Whole(f[1]) /\ ~Whole(f[2])
    <3>1. Whole(f[3])
      BY <1>2, <2>3
    <3>2. First(3)
      BY <2>3, <3>1
    <3> QED
      BY <3>2
  <2> QED
    BY <2>1, <2>2, <2>3
<1>4. n \in 1 .. 3 /\ First(n)
  BY <1>3
<1>5. Loads(boot) = f[n]
  BY DEF Loads
<1>6. ASSUME Whole(boot) PROVE n = 1
  <2>1. n # 1 => 1 \in 1 .. n - 1
    BY <1>4
  <2> QED
    BY <1>1, <1>4, <1>6, <2>1
<1> QED
  BY <1>1, <1>4, <1>5, <1>6

\* A device as it leaves the factory.
LEMMA InitOtaInv == Init => OtaInv
<1> SUFFICES ASSUME Init PROVE OtaInv
  OBVIOUS
<1> USE OtaAssumption DEF OtaAssumption, Init, Slots, Partial, Whole
<1>1. image \in [Slots -> 0 .. Partial]
  <2>1. 0 \in 0 .. Partial /\ Partial \in 0 .. Partial
    OBVIOUS
  <2> HIDE DEF Partial, Slots
  <2> QED
    BY <2>1
<1>2. stored \in 1 .. Blocks /\ written \in 0 .. Blocks /\ jobs \in 0 .. MaxJobs
  OBVIOUS
<1>3. TypeOK
  BY <1>1, <1>2 DEF TypeOK
<1>4. PartSpare /\ ImagesByAge /\ BootFollows /\ DoneInTime
  BY DEF PartSpare, ImagesByAge, BootFollows, DoneInTime, Writing, Written, Ota
<1> QED
  BY <1>3, <1>4 DEF OtaInv

\* Every step of an update keeps the invariant,
LEMMA UpdateKeeps ==
  ASSUME OtaInv,
         (\E r \in Reboots : Job(r)) \/ Open \/ Begin \/ Write \/ ReadsNothing
           \/ End \/ SetBoot \/ Stay
  PROVE  OtaInv'
<1> USE OtaAssumption DEF OtaAssumption, OtaInv, flash, Fail
<1>1. ASSUME NEW r \in Reboots, Job(r) PROVE OtaInv'
  <2> USE <1>1 DEF Job
  <2>0. skip' \in BOOLEAN
    <3>1. CASE r = "absent"
      BY <3>1, Zenon DEF TypeOK
    <3>2. CASE r # "absent"
      BY <3>2, Zenon
    <3> QED
      BY <3>1, <3>2
  <2>1. TypeOK'
    <3> HIDE <1>1 DEF Job
    <3>1. jobs' \in 0 .. MaxJobs /\ stored' \in 1 .. Blocks /\ pc' = "open"
      BY <1>1 DEF Job, TypeOK
    <3>2. UNCHANGED <<flash, part, written, step, stayed>>
      BY <1>1 DEF Job
    <3> QED
      BY <2>0, <3>1, <3>2 DEF TypeOK, Partial
  <2>2. PartSpare'
    BY DEF TypeOK, PartSpare, Writing, Written, Slots, Ota
  <2>3. ImagesByAge'
    BY DEF TypeOK, ImagesByAge, PartSpare, Writing, Written, Whole, Partial
  <2>4. BootFollows' /\ DoneInTime'
    BY DEF TypeOK, BootFollows, DoneInTime, ImagesByAge, PartSpare, Writing, Written, Whole, Partial
  <2>5. Whole("factory")' /\ Whole(runs)'
    BY DEF TypeOK, PartSpare, Writing, Written, Ota, Slots, Whole, Partial
  <2> QED
    BY <2>1, <2>2, <2>3, <2>4, <2>5
<1>2. CASE Open
  <2> USE <1>2 DEF Open, NextPart
  <2>1. TypeOK'
    BY DEF TypeOK, Partial, Slots
  <2>2. PartSpare'
    BY DEF TypeOK, PartSpare, Writing, Written, Slots, Ota
  <2>3. ImagesByAge'
    BY DEF TypeOK, ImagesByAge, PartSpare, Writing, Written, Whole, Partial
  <2>4. BootFollows' /\ DoneInTime'
    BY DEF TypeOK, BootFollows, DoneInTime, ImagesByAge, PartSpare, Writing, Written, Whole, Partial
  <2>5. Whole("factory")' /\ Whole(runs)'
    BY DEF TypeOK, PartSpare, Writing, Written, Ota, Slots, Whole, Partial
  <2> QED
    BY <2>1, <2>2, <2>3, <2>4, <2>5
<1>3. CASE Begin
  <2> USE <1>3 DEF Begin
  <2>1. TypeOK'
    BY DEF TypeOK, Partial, Slots
  <2>2. PartSpare'
    BY DEF TypeOK, PartSpare, Writing, Written, Slots, Ota
  <2>3. ImagesByAge'
    BY DEF TypeOK, ImagesByAge, PartSpare, Writing, Written, Whole, Partial
  <2>4. BootFollows' /\ DoneInTime'
    BY DEF TypeOK, BootFollows, DoneInTime, ImagesByAge, PartSpare, Writing, Written, Whole, Partial
  <2>5. Whole("factory")' /\ Whole(runs)'
    BY DEF TypeOK, PartSpare, Writing, Written, Ota, Slots, Whole, Partial
  <2> QED
    BY <2>1, <2>2, <2>3, <2>4, <2>5
<1>4. CASE Write
  <2> USE <1>4 DEF Write
  <2>1. TypeOK'
    BY DEF TypeOK, Partial, Slots
  <2>2. PartSpare'
    BY DEF TypeOK, PartSpare, Writing, Written, Slots, Ota
  <2>3. ImagesByAge'
    BY DEF TypeOK, ImagesByAge, PartSpare, Writing, Written, Whole, Partial
  <2>4. BootFollows' /\ DoneInTime'
    BY DEF TypeOK, BootFollows, DoneInTime, ImagesByAge, PartSpare, Writing, Written, Whole, Partial
  <2>5. Whole("factory")' /\ Whole(runs)'
    BY DEF TypeOK, PartSpare, Writing, Written, Ota, Slots, Whole, Partial
  <2> QED
    BY <2>1, <2>2, <2>3, <2>4, <2>5
<1>5. CASE ReadsNothing
  <2> USE <1>5 DEF ReadsNothing
  <2>1. TypeOK'
    BY DEF TypeOK, Partial, Slots
  <2>2. PartSpare'
    BY DEF TypeOK, PartSpare, Writing, Written, Slots, Ota
  <2>3. ImagesByAge'
    BY DEF TypeOK, ImagesByAge, PartSpare, Writing, Written, Whole, Partial
  <2>4. BootFollows' /\ DoneInTime'
    BY DEF TypeOK, BootFollows, DoneInTime, ImagesByAge, PartSpare, Writing, Written, Whole, Partial
  <2>5. Whole("factory")' /\ Whole(runs)'
    BY DEF TypeOK, PartSpare, Writing, Written, Ota, Slots, Whole, Partial
  <2> QED
    BY <2>1, <2>2, <2>3, <2>4, <2>5
<1>6. CASE End
  <2> USE <1>6 DEF End
  <2>1. TypeOK'
    BY DEF TypeOK, Partial, Slots
  <2>2. PartSpare'
    BY DEF TypeOK, PartSpare, Writing, Written, Slots, Ota
  <2>3. ImagesByAge'
    BY DEF TypeOK, ImagesByAge, PartSpare, Writing, Written, Whole, Partial
  <2>4. BootFollows' /\ DoneInTime'
    BY DEF TypeOK, BootFollows, DoneInTime, ImagesByAge, PartSpare, Writing, Written, Whole, Partial
  <2>5. Whole("factory")' /\ Whole(runs)'
    BY DEF TypeOK, PartSpare, Writing, Written, Ota, Slots, Whole, Partial
  <2> QED
    BY <2>1, <2>2, <2>3, <2>4, <2>5
<1>7. CASE SetBoot
  <2> USE <1>7 DEF SetBoot
  <2>1. TypeOK'
    BY DEF TypeOK, Partial, Slots
  <2>2. PartSpare'
    BY DEF TypeOK, PartSpare, Writing, Written, Slots, Ota
  <2>3. ImagesByAge'
    BY DEF TypeOK, ImagesByAge, PartSpare, Writing, Written, Whole, Partial
  <2>4. BootFollows' /\ DoneInTime'
    BY DEF TypeOK, BootFollows, DoneInTime, ImagesByAge, PartSpare, Writing, Written, Whole, Partial
  <2>5. Whole("factory")' /\ Whole(runs)'
    BY DEF TypeOK, PartSpare, Writing, Written, Ota, Slots, Whole, Partial
  <2> QED
    BY <2>1, <2>2, <2>3, <2>4, <2>5
<1>8. CASE Stay
  <2> USE <1>8 DEF Stay
  <2>1. TypeOK'
    BY DEF TypeOK, Partial, Slots
  <2>2. PartSpare'
    BY DEF TypeOK, PartSpare, Writing, Written, Slots, Ota
  <2>3. ImagesByAge'
    BY DEF TypeOK, ImagesByAge, PartSpare, Writing, Written, Whole, Partial
  <2>4. BootFollows' /\ DoneInTime'
    BY DEF TypeOK, BootFollows, DoneInTime, ImagesByAge, PartSpare, Writing, Written, Whole, Partial
  <2>5. Whole("factory")' /\ Whole(runs)'
    BY DEF TypeOK, PartSpare, Writing, Written, Ota, Slots, Whole, Partial
  <2> QED
    BY <2>1, <2>2, <2>3, <2>4, <2>5
<1> QED
  BY <1>1, <1>2, <1>3, <1>4, <1>5, <1>6, <1>7, <1>8

\* and so does a restart, at any point.
LEMMA RestartKeeps == ASSUME OtaInv, Restarted PROVE OtaInv'
<1>1. Loads(boot) \in Slots /\ Whole(Loads(boot)) /\ (Whole(boot) => Loads(boot) = boot)
  BY LoadsWhole DEF OtaInv, TypeOK
<1>2. runs' = Loads(boot) /\ pc' = "idle"
  BY DEF Restarted
<1> USE DEF OtaInv, Restarted
<1>3. TypeOK'
  <2>1. Blocks \in Nat /\ written' = 0
    BY OtaAssumption DEF OtaAssumption
  <2>2. skip' \in BOOLEAN /\ runs' \in Slots /\ pc' = "idle" /\ step' = "PREPARE"
    BY <1>1, <1>2, Zenon
  <2>3. UNCHANGED <<image, boot, part, stored, jobs, stayed>>
    OBVIOUS
  <2> HIDE DEF Restarted
  <2> QED
    BY <2>1, <2>2, <2>3 DEF TypeOK, Partial
<1>4. PartSpare' /\ ImagesByAge' /\ DoneInTime'
  BY <1>2 DEF PartSpare, ImagesByAge, DoneInTime, Writing, Written, Whole, Partial
<1>5. BootFollows'
  BY <1>1, <1>2 DEF BootFollows, Whole, Partial
<1> QED
  BY <1>1, <1>2, <1>3, <1>4, <1>5 DEF Whole, Partial

LEMMA NextKeeps == OtaInv /\ [Next]_vars => OtaInv'
<1>1. ASSUME OtaInv, UNCHANGED vars PROVE OtaInv'
  BY <1>1 DEF OtaInv, TypeOK, PartSpare, ImagesByAge, BootFollows, DoneInTime, Whole, Partial, vars
<1> QED
  BY <1>1, UpdateKeeps, RestartKeeps DEF Next, Restart, PowerFails

\* No state breaks the invariant.
LEMMA AlwaysOtaInv == Spec => []OtaInv
BY InitOtaInv, NextKeeps, PTL DEF Spec

\* esp32_update.c:183: whatever fails, the partition that the device runs from
\* is whole, and the selected one too while every success was restarted.
THEOREM DeviceRunsWhole == Spec => []RunsWhole
<1>1. OtaInv => RunsWhole
  BY DEF OtaInv, BootFollows, RunsWhole
<1> QED
  BY <1>1, AlwaysOtaInv, PTL

\* esp32_update.c:216: DONE is shown for a whole image that is newer than the
\* one that runs.
THEOREM DoneMeansBootable == Spec => []DoneIsBootable
<1>1. OtaInv => DoneIsBootable
  BY DEF OtaInv, DoneInTime, DoneIsBootable
<1> QED
  BY <1>1, AlwaysOtaInv, PTL

\* esp32_update.c:225: no restart goes back to an older image while every
\* update that succeeded was followed by its restart.
THEOREM DeviceNeverOlder == Spec => NeverOlder
<1>1. ASSUME OtaInv, Restarted, ~stayed, runs' # runs PROVE image[runs'] > image[runs]
  <2>1. runs' = boot
    BY <1>1, LoadsWhole DEF OtaInv, TypeOK, BootFollows, Restarted
  <2>2. pc = "done" /\ boot = part
    BY <1>1, <2>1 DEF OtaInv, BootFollows
  <2> QED
    BY <1>1, <2>1, <2>2 DEF OtaInv, TypeOK, ImagesByAge, Written, Slots, Partial
<1>2. ASSUME OtaInv, [Next]_vars, ~stayed, runs' # runs PROVE image[runs'] > image[runs]
  <2>1. Restarted
    BY <1>2 DEF Next, Restart, PowerFails, Job, Open, Begin, Write, ReadsNothing, End, SetBoot,
                Stay, flash, vars
  <2> QED
    BY <1>1, <1>2, <2>1
<1>3. OtaInv /\ [Next]_vars => [runs' # runs /\ ~stayed => image[runs'] > image[runs]]_vars
  BY <1>2
<1> QED
  BY <1>3, AlwaysOtaInv, PTL DEF Spec, NeverOlder
=============================================================================
