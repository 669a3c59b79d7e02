------------------------------ MODULE BleFiles ------------------------------
(***************************************************************************)
(* The listings that phones ask for (ble_cmd_parser.c): the firmware files *)
(* on the SD card, and the files of the internal partition, which are      *)
(* those of DeviceName.  A directory is read twice, first to count its     *)
(* files and then to send one answer for each, while the HTTP and the TCP  *)
(* server write, delete and format.                                        *)
(*                                                                         *)
(* A directory is a row of slots that are read in order; a file keeps its  *)
(* slot.  Files that the listing passes over are not modelled.             *)
(***************************************************************************)
EXTENDS DeviceName, FiniteSets

CONSTANT CardSlots   \* slots of the SD card's directory

ASSUME CardAssumption == CardSlots \in Nat

VARIABLES
  card,     \* slots with a firmware file
  list      \* the last listing

filesVars == <<nameVars, card, list>>

NoList == [of |-> "none", pass |-> 0, slot |-> 0, total |-> 0, sent |-> {},
           stable |-> {}, changed |-> FALSE]

Slots(mount) == IF mount = "sd" THEN 1 .. CardSlots ELSE 1 .. 2

\* The slots of a directory that hold a file.
Files(mount, cardFiles, settingFile, configFile) ==
  IF mount = "sd" THEN cardFiles
  ELSE {s \in 1 .. 2 : (s = 1 /\ settingFile # Missing) \/ (s = 2 /\ configFile # Missing)}

Listed == Files(list.of, card, setting, config)

FilesInit == NameInit /\ card \in SUBSET (1 .. CardSlots) /\ list = NoList
-----------------------------------------------------------------------------
(* ble_send_sdmmc_program_list, ble_send_file_list *)

\* A directory that cannot be opened is answered with a failure.
BeginList(mount) ==
  /\ Go("on", "list")
  /\ list' = [NoList EXCEPT !.of = mount, !.pass = 1, !.stable = Files(mount, card, setting, config)]
  /\ UNCHANGED <<setting, config, alias, gap, history, card>>

AtEnd == \A s \in Slots(list.of) : s <= list.slot

Pass(n) == at = "list" /\ list.pass = n

Count ==
  /\ Pass(1) /\ ~AtEnd
  /\ list' = [list EXCEPT !.slot = @ + 1,
                !.total = IF list.slot + 1 \in Listed THEN @ + 1 ELSE @]
  /\ UNCHANGED <<nameVars, card>>

\* An empty directory is answered at once, and so is one that cannot be opened
\* a second time.
Rewind ==
  /\ Pass(1) /\ AtEnd
  /\ \/ /\ list.total # 0
        /\ list' = [list EXCEPT !.pass = 2, !.slot = 0] /\ UNCHANGED at
     \/ at' = "on" /\ list' = IF list.total = 0 THEN [list EXCEPT !.pass = 3] ELSE NoList
  /\ UNCHANGED <<setting, config, alias, gap, history, card>>

\* Faulty variant for ListsWhatStays: as many answers as were announced.
AnswerUpToTotal ==
  /\ Pass(2) /\ ~AtEnd
  /\ list' = [list EXCEPT !.slot = @ + 1,
                !.sent = IF list.slot + 1 \in Listed /\ Cardinality(@) < list.total
                         THEN @ \cup {list.slot + 1} ELSE @]
  /\ UNCHANGED <<nameVars, card>>

Answer ==
  /\ Pass(2) /\ ~AtEnd
  /\ list' = [list EXCEPT !.slot = @ + 1,
                !.sent = IF list.slot + 1 \in Listed THEN @ \cup {list.slot + 1} ELSE @]
  /\ UNCHANGED <<nameVars, card>>

EndList ==
  /\ Pass(2) /\ AtEnd
  /\ at' = "on" /\ list' = [list EXCEPT !.pass = 3]
  /\ UNCHANGED <<setting, config, alias, gap, history, card>>

\* What the listing that goes on has seen change.
Touched == list' = [list EXCEPT
                      !.changed = @ \/ (at = "list" /\ Files(list.of, card', setting', config') # Listed),
                      !.stable = IF at = "list" THEN @ \cap Files(list.of, card', setting', config') ELSE @]
-----------------------------------------------------------------------------
\* An upload, by the HTTP or the TCP server.
Store(slot) == card' = card \cup {slot} /\ UNCHANGED nameVars /\ Touched

\* POST /delete..., CMD_SDMMC_DELETE_FILE, CMD_FAT_DELETE_FILE
DeleteSd(slot)  == card' = card \ {slot} /\ UNCHANGED nameVars /\ Touched
DeleteFat(file) == Lose({file}) /\ UNCHANGED card /\ Touched

\* GET /..._format, CMD_SDMMC_FORMAT, CMD_FAT_FORMAT
FormatSd  == card' = {} /\ UNCHANGED nameVars /\ Touched
FormatFat == Lose({"setting", "config"}) /\ UNCHANGED card /\ Touched

\* CMD_MIRI_REBOOT, a restart after an update, or a loss of power
Restart == Cut /\ list' = NoList /\ UNCHANGED card

Listing == Count \/ Rewind \/ Answer \/ EndList \/ \E mount \in {"sd", "fat"} : BeginList(mount)

Naming == (NameStep \/ \E n \in Names : BeginRename(n)) /\ UNCHANGED <<card, list>>

Changes ==
  \/ \E slot \in 1 .. CardSlots : Store(slot) \/ DeleteSd(slot)
  \/ \E file \in {"setting", "config"} : DeleteFat(file)
  \/ FormatSd \/ FormatFat

FilesNext == Listing \/ Naming \/ Changes \/ Restart

FilesSpec == FilesInit /\ [][FilesNext]_filesVars
-----------------------------------------------------------------------------
ListsOK ==
  /\ card \subseteq 1 .. CardSlots
  /\ list.of \in {"none", "sd", "fat"} /\ list.pass \in 0 .. 3
  /\ list.sent \subseteq Slots(list.of) /\ list.total <= Cardinality(Slots(list.of))

\* A file that is there as long as the listing takes is in it, whatever is
\* stored or deleted beside it; and if nothing is, the listing announces as
\* many answers as it sends.
ListsWhatStays ==
  list.pass = 3 => /\ list.stable \subseteq list.sent
                   /\ list.changed \/ list.total = Cardinality(list.sent)
=============================================================================
