----------------------------- MODULE DeviceName -----------------------------
(***************************************************************************)
(* The name under which phones see the tool, and the two files on the      *)
(* internal FAT partition that keep it (runtime_config.c, spiflash_fs.c,   *)
(* ble_init.c, and the rename command of ble_cmd_parser.c).                *)
(*                                                                         *)
(* A file is truncated when it is opened for writing and has its contents  *)
(* when it is closed, or is left empty by a partition that is full or      *)
(* fails: nobody looks at what fprintf and fclose return.  The power can   *)
(* fail, or another task restart the chip, in between.  Such cuts are      *)
(* counted up to 2.                                                        *)
(***************************************************************************)
EXTENDS Naturals

CONSTANTS
  Names,    \* names that phones ask for; all are valid
  Default   \* the name made from the MAC address

ASSUME NameAssumption == Default \notin Names

NoName  == "no name"
Missing == "missing"
Empty   == "empty"

ASSUME NamesAreNames == {NoName, Missing, Empty} \cap (Names \cup {Default}) = {}

VARIABLES
  setting,    \* ble_setting.txt: a name
  config,     \* config.json: an alias, or none
  alias,      \* s_config.device_alias
  gap,        \* the name of the GAP service, which is advertised
  at,         \* where the tool is in its start, in a rename or in another command
  trying,     \* history: the name of the last rename that was begun
  acked,      \* history: the name of the last rename that was acknowledged
  powerCuts,  \* history: cuts since then
  trouble     \* history: files were lost, not written or not read, before or after the
              \* last rename was begun

nameVars == <<setting, config, alias, gap, at, trying, acked, powerCuts, trouble>>

\* The tool is new, or its partition has just been formatted.
NameInit ==
  /\ setting = Missing /\ config = Missing
  /\ alias = NoName /\ gap = NoName /\ at = "config"
  /\ trying = Default /\ acked = Default /\ powerCuts = 0 /\ trouble = "none"

history == <<trying, acked, powerCuts, trouble>>
Go(from, to) == at = from /\ at' = to
-----------------------------------------------------------------------------
(* Start: runtime_config_init, then ble_init *)

\* A config.json that is missing or empty is written anew, without an alias,
\* or cannot be opened.  One that is there is not read, or is written anew too,
\* if seeking, the memory for its text or the memory for parsing it fails.
LoadConfig ==
  /\ \/ /\ config \in {Missing, Empty}
        /\ \/ Go("config", "reset") /\ config' = Empty
           \/ Go("config", "name") /\ UNCHANGED config
        /\ UNCHANGED <<alias, trouble>>
     \/ /\ config \notin {Missing, Empty}
        /\ Go("config", "name")
        /\ alias' = config /\ UNCHANGED <<config, trouble>>
     \/ /\ config \notin {Missing, Empty}
        /\ \/ Go("config", "reset") /\ config' = Empty
           \/ Go("config", "name") /\ UNCHANGED config
        /\ trouble' = "now" /\ UNCHANGED alias
  /\ UNCHANGED <<setting, gap, trying, acked, powerCuts>>

ResetConfig ==
  /\ Go("reset", "name")
  /\ config' \in {NoName, Empty}
  /\ UNCHANGED <<setting, alias, gap, history>>

\* Faulty variant for NameSurvivesOneCut: the alias is the only name kept.
FindNameForgetful ==
  /\ Go("name", "on") /\ gap' = IF alias # NoName THEN alias ELSE Default
  /\ UNCHANGED <<setting, config, alias, history>>

\* runtime_config_get_device_name: the alias goes before ble_setting.txt.
\* A name file that is there but cannot be opened has the partition formatted.
FindName ==
  /\ \/ alias # NoName /\ Go("name", "on") /\ gap' = alias /\ UNCHANGED <<setting, config, trouble>>
     \/ /\ alias = NoName /\ setting = Missing
        /\ gap' = Default /\ UNCHANGED <<config, trouble>>
        /\ \/ Go("name", "default") /\ setting' = Empty
           \/ Go("name", "on") /\ UNCHANGED setting
     \/ /\ alias = NoName /\ setting # Missing
        /\ Go("name", "on")
        /\ \/ gap' = (IF setting = Empty THEN Default ELSE setting)
              /\ UNCHANGED <<setting, config, trouble>>
           \/ gap' = Default /\ setting' = Missing /\ config' = Missing /\ trouble' = "now"
  /\ UNCHANGED <<alias, trying, acked, powerCuts>>

StoreDefault ==
  /\ Go("default", "on")
  /\ setting' \in {Default, Empty}
  /\ UNCHANGED <<config, alias, gap, history>>
-----------------------------------------------------------------------------
(* CMD_ESP32_ADV_RENAME: spiflash_fs_set_ble_device_name,                  *)
(* runtime_config_set_device_alias, runtime_config_save, the GAP name      *)

\* A file that cannot be opened, like a name that is not valid, ends the
\* command before anything has changed.
BeginRename(n) ==
  /\ Go("on", "setting")
  /\ setting' = Empty
  /\ trying' = n
  /\ trouble' = IF trouble = "none" THEN "none" ELSE "before"
  /\ UNCHANGED <<config, alias, gap, acked, powerCuts>>

StoreSetting ==
  /\ Go("setting", "save")
  /\ \/ setting' = trying /\ UNCHANGED trouble
     \/ setting' = Empty /\ trouble' = "now"
  /\ alias' = trying
  /\ UNCHANGED <<config, gap, trying, acked, powerCuts>>

\* The result of runtime_config_save is not looked at.
SaveConfig ==
  /\ \/ Go("save", "saving") /\ config' = Empty /\ UNCHANGED trouble
     \/ Go("save", "gap") /\ UNCHANGED config /\ trouble' = "now"
  /\ UNCHANGED <<setting, alias, gap, trying, acked, powerCuts>>

\* Memory that is short leaves the alias out of the text.
StoreConfig ==
  /\ Go("saving", "gap")
  /\ \/ config' = alias /\ UNCHANGED trouble
     \/ config' \in {Empty, NoName} /\ trouble' = "now"
  /\ UNCHANGED <<setting, alias, gap, trying, acked, powerCuts>>

Acknowledge ==
  /\ Go("gap", "on")
  /\ gap' = trying
  /\ acked' = trying /\ powerCuts' = 0
  /\ trouble' = IF trouble = "now" THEN "now" ELSE "none"
  /\ UNCHANGED <<setting, config, alias, trying>>
-----------------------------------------------------------------------------
\* Power fails, or esp_restart is called by another task.
Cut ==
  /\ at' = "config"
  /\ alias' = NoName /\ gap' = NoName
  /\ powerCuts' = IF powerCuts = 2 THEN 2 ELSE powerCuts + 1
  /\ UNCHANGED <<setting, config, trying, acked, trouble>>

\* A file of the partition is deleted, or all are: by a request to the HTTP
\* server, or by a command.  A file that is open for writing may come back.
Lose(files) ==
  /\ setting' = IF "setting" \in files THEN Missing ELSE setting
  /\ config' = IF "config" \in files THEN Missing ELSE config
  /\ trouble' = "now"
  /\ UNCHANGED <<alias, gap, at, trying, acked, powerCuts>>

NameStep ==
  \/ LoadConfig \/ ResetConfig \/ FindName \/ StoreDefault
  \/ StoreSetting \/ SaveConfig \/ StoreConfig \/ Acknowledge

NameNext ==
  \/ NameStep \/ Cut
  \/ \E n \in Names : BeginRename(n)
  \/ \E files \in SUBSET {"setting", "config"} : Lose(files)

NameSpec == NameInit /\ [][NameNext]_nameVars
-----------------------------------------------------------------------------
Known == Names \cup {Default}

NameTypeOK ==
  /\ setting \in Known \cup {Missing, Empty}
  /\ config \in Known \cup {NoName, Missing, Empty}
  /\ alias \in Known \cup {NoName} /\ gap \in Known \cup {NoName}
  /\ at \in {"config", "reset", "name", "default", "on", "list",
            "setting", "save", "saving", "gap"}
  /\ trying \in Known /\ acked \in Known
  /\ powerCuts \in 0 .. 2 /\ trouble \in {"none", "before", "now"}

\* A name that was acknowledged is not lost to one power failure, wherever in
\* the start or in the next rename it comes: the tool then has that name, or
\* the one it was being given.
NameSurvivesOneCut ==
  at = "on" /\ powerCuts <= 1 /\ trouble = "none" => gap \in {acked, trying}
=============================================================================
