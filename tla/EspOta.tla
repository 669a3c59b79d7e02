------------------------------- MODULE EspOta -------------------------------
(***************************************************************************)
(* esp32_update.c and fw_update_exec_ota: the update of the device itself. *)
(* The image is read from the SD card block by block into the next OTA     *)
(* partition; only when esp_ota_end has accepted it does the boot          *)
(* partition change, and then the device restarts, unless a job has asked  *)
(* it not to.  Power can fail at any step.                                 *)
(*                                                                         *)
(* The ESP-IDF parts (esp_ota_*, the bootloader) are external.  partitions *)
(* has factory, ota_0 and ota_1; the bootloader validates an image at each *)
(* start and, if it is not whole, tries the others (sdkconfig sets none of *)
(* the SKIP_VALIDATE options).                                             *)
(***************************************************************************)
EXTENDS Naturals

CONSTANTS
  Blocks,    \* blocks of 4096 bytes in a whole image
  MaxJobs,   \* bound on the OTA jobs
  Reboots    \* values of "reboot" in the jobs: subset of {"absent", "true", "false"}

ASSUME OtaAssumption ==
  /\ Blocks \in Nat \ {0} /\ MaxJobs \in Nat
  /\ Reboots \subseteq {"absent", "true", "false"}

VARIABLES
  image,     \* what each partition holds: the job that wrote it, or Partial
  boot,      \* the partition selected in otadata
  runs,      \* the partition the device runs from
  skip,      \* s_skip_reboot
  pc,        \* where esp32_update_start is
  part,      \* the partition it writes
  stored,    \* blocks of the image on the SD card: Blocks, or fewer if truncated
  written,   \* blocks written
  step,      \* fw_state's step
  jobs,      \* number of jobs begun
  stayed     \* history: a job has succeeded without a restart

vars == <<image, boot, runs, skip, pc, part, stored, written, step, jobs, stayed>>

Slots   == {"factory", "ota_0", "ota_1"}
Partial == MaxJobs + 1
Whole(s) == image[s] # Partial

\* esp_ota_get_next_update_partition(NULL)
NextPart == IF runs = "ota_0" THEN "ota_1" ELSE "ota_0"

\* bootloader_utility_load_boot_image: downwards from the selected one to
\* factory, then upwards.
Fallback(s) ==
  CASE s = "ota_1"   -> <<"ota_1", "ota_0", "factory">>
    [] s = "ota_0"   -> <<"ota_0", "factory", "ota_1">>
    [] s = "factory" -> <<"factory", "ota_0", "ota_1">>

Loads(s) == LET f == Fallback(s)
                i == CHOOSE i \in 1 .. 3 : Whole(f[i]) /\ \A j \in 1 .. i - 1 : ~Whole(f[j])
            IN  f[i]

Init ==
  /\ image = [s \in Slots |-> IF s = "factory" THEN 0 ELSE Partial]
  /\ boot = "factory" /\ runs = "factory"
  /\ skip = FALSE /\ pc = "idle" /\ part = "factory"
  /\ stored = Blocks /\ written = 0 /\ step = "PREPARE" /\ jobs = 0
  /\ stayed = FALSE

flash == <<image, boot, runs>>

\* Leave esp32_update_start, reporting s last.
Fail(s) == pc' = "idle" /\ step' = s
-----------------------------------------------------------------------------
\* fw_update_exec_ota: a job that says nothing of "reboot" leaves the flag.
\* The image on the card may be truncated.
Job(r) ==
  /\ pc = "idle" /\ jobs < MaxJobs
  /\ jobs' = jobs + 1
  /\ skip' = IF r = "absent" THEN skip ELSE r = "false"
  /\ stored' \in 1 .. Blocks
  /\ pc' = "open"
  /\ UNCHANGED <<flash, part, written, step, stayed>>

\* The SD card, the file and its size.
Open ==
  /\ pc = "open"
  /\ \/ pc' = "begin" /\ part' = NextPart /\ step' = "PREPARE"
     \/ Fail("ERROR") /\ UNCHANGED part
  /\ UNCHANGED <<flash, skip, stored, written, jobs, stayed>>

\* Faulty variant for Begin: the partition is selected for boot too early.
BeginSelects ==
  /\ pc = "begin"
  /\ image' = [image EXCEPT ![part] = Partial]
  /\ boot' = part /\ pc' = "write" /\ step' = "WRITE"
  /\ written' = 0
  /\ UNCHANGED <<runs, skip, part, stored, jobs, stayed>>

\* esp_ota_begin erases the partition.  The step shown after a failure is
\* that of ota_send_step, which comes last: PREPARE.
Begin ==
  /\ pc = "begin"
  /\ \/ /\ image' = [image EXCEPT ![part] = Partial]
        /\ pc' = "write" /\ step' = "WRITE"
     \/ Fail("PREPARE") /\ UNCHANGED image
  /\ written' = 0
  /\ UNCHANGED <<boot, runs, skip, part, stored, jobs, stayed>>

Write ==
  /\ pc = "write" /\ written < stored
  /\ \/ written' = written + 1 /\ UNCHANGED <<pc, step>>
     \/ Fail("WRITE") /\ UNCHANGED written
  /\ UNCHANGED <<flash, skip, part, stored, jobs, stayed>>

\* A read returns nothing at the end of the file, and also when it fails.
ReadsNothing ==
  /\ pc = "write"
  /\ pc' = "end" /\ step' = "VERIFY"
  /\ UNCHANGED <<flash, skip, part, stored, written, jobs, stayed>>

\* Faulty variant for End: what was written is not verified.
EndUnverified ==
  /\ pc = "end"
  /\ image' = [image EXCEPT ![part] = IF written = Blocks THEN jobs ELSE Partial]
  /\ pc' = "setboot" /\ step' = "VERIFY"
  /\ UNCHANGED <<boot, runs, skip, part, stored, written, jobs, stayed>>

\* esp_ota_end accepts a whole image only.
End ==
  /\ pc = "end"
  /\ \/ /\ written = Blocks
        /\ image' = [image EXCEPT ![part] = jobs]
        /\ pc' = "setboot" /\ step' = "VERIFY"
     \/ Fail("VERIFY") /\ UNCHANGED image
  /\ UNCHANGED <<boot, runs, skip, part, stored, written, jobs, stayed>>

\* Faulty variant for SetBoot: DONE is shown whatever the result.
SetBootUnchecked ==
  /\ pc = "setboot"
  /\ boot' \in {boot, part} /\ pc' = "done" /\ step' = "DONE"
  /\ UNCHANGED <<image, runs, skip, part, stored, written, jobs, stayed>>

SetBoot ==
  /\ pc = "setboot"
  /\ \/ boot' = part /\ pc' = "done" /\ step' = "DONE"
     \/ Fail("VERIFY") /\ UNCHANGED boot
  /\ UNCHANGED <<image, runs, skip, part, stored, written, jobs, stayed>>

\* Faulty variant for Stay: the job waits for a restart that nobody does.
StayForever ==
  /\ pc = "done" /\ skip
  /\ UNCHANGED vars

Stay ==
  /\ pc = "done" /\ skip
  /\ pc' = "idle"
  /\ stayed' = TRUE
  /\ UNCHANGED <<flash, skip, part, stored, written, step, jobs>>

Restarted ==
  /\ runs' = Loads(boot)
  /\ skip' = FALSE /\ pc' = "idle" /\ written' = 0 /\ step' = "PREPARE"
  /\ UNCHANGED <<image, boot, part, stored, jobs, stayed>>

\* esp_restart
Restart == pc = "done" /\ ~skip /\ Restarted

PowerFails == Restarted

Next ==
  \/ \E r \in Reboots : Job(r)
  \/ Open \/ Begin \/ Write \/ ReadsNothing \/ End \/ SetBoot \/ Stay \/ Restart
  \/ PowerFails

Spec == Init /\ [][Next]_vars

FairSpec == Spec /\ WF_vars(Open \/ Begin \/ Write \/ ReadsNothing \/ End \/ SetBoot
                            \/ Stay \/ Restart)
-----------------------------------------------------------------------------
TypeOK ==
  /\ image \in [Slots -> 0 .. Partial]
  /\ boot \in Slots /\ runs \in Slots /\ part \in Slots
  /\ skip \in BOOLEAN /\ stayed \in BOOLEAN
  /\ pc \in {"idle", "open", "begin", "write", "end", "setboot", "done"}
  /\ stored \in 1 .. Blocks /\ written \in 0 .. Blocks
  /\ pc = "write" => written <= stored
  /\ step \in {"PREPARE", "WRITE", "VERIFY", "DONE", "ERROR"}
  /\ jobs \in 0 .. MaxJobs

\* The partition the device runs from is whole at all times: no update,
\* failed or cut short, touches it, even after updates without a restart.
\* As long as every update that succeeded was followed by the restart, the
\* partition selected for boot is whole, too, so that the bootloader never has
\* to fall back.
RunsWhole == Whole(runs) /\ (~stayed => Whole(boot))

\* DONE is shown only while the partition selected for boot holds a whole
\* image, and a newer one than the device runs.
DoneIsBootable == step = "DONE" => Whole(boot) /\ image[boot] > image[runs]

\* As long as every update that succeeded was followed by the restart, the
\* device never goes back to an older image: no failed update undoes one.
NeverOlder == [][runs' # runs /\ ~stayed => image[runs'] > image[runs]]_vars

\* An update comes to an end.
UpdateEnds == pc # "idle" ~> pc = "idle"
=============================================================================
