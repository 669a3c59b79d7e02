------------------------------ MODULE FwRoute ------------------------------
(***************************************************************************)
(* What the file type (the extension S00 .. A15) says of a firmware file:  *)
(* fw_upload_registry.c and fw_upload_meta_defaults.c, two tables that     *)
(* agree on format and executor.  A meta is the part of fw_meta_t that     *)
(* decides how a file is run; the format to run it in is always BIN, in    *)
(* both tables and in every meta read back from the card.                  *)
(***************************************************************************)

Formats == {"bin", "ihex", "coff", "unknown"}
Execs   == {"ota", "uart_isp", "can", "swd", "jtag", "bootloader", "stm32", "unknown"}

CoffTypes    == {"A02", "A04", "A05", "A07"}
IhexIspTypes == {"A03", "A10", "A11", "A12", "A13", "A14"}
IhexSwdTypes == {"A06", "A15"}
BareTypes    == {"A00", "A01", "A08", "A09"}
Types == {"S00", "S01"} \cup CoffTypes \cup IhexIspTypes \cup IhexSwdTypes \cup BareTypes

FormatOf(t) ==
  CASE t \in {"S00", "S01"}                -> "bin"
    [] t \in CoffTypes                     -> "coff"
    [] t \in IhexIspTypes \cup IhexSwdTypes -> "ihex"
    [] t \in BareTypes                     -> "unknown"

ExecOf(t) ==
  CASE t = "S00"                        -> "ota"
    [] t = "S01"                        -> "stm32"
    [] t \in CoffTypes \cup IhexIspTypes -> "uart_isp"
    [] t \in IhexSwdTypes               -> "swd"
    [] t \in BareTypes                  -> "unknown"

\* fw_registry_lookup
Route(t) == [format |-> FormatOf(t), exec |-> ExecOf(t)]

Metas == [format : Formats, exec : Execs, override : BOOLEAN]

\* fw_upload_prepare_meta: the table's defaults, and the format if one is given.
Prepared(t, format) ==
  [format |-> IF format = "unknown" THEN FormatOf(t) ELSE format,
   exec |-> ExecOf(t), override |-> FALSE]

\* Faulty variant for RoutedUnlessAsked: a name that is not known overrides.
WithAnyExec(m, exec) == [m EXCEPT !.exec = exec, !.override = TRUE]

\* The executor a client names in /fw_meta or in X-Exec; a name that is not
\* known gives "unknown" and no override.
WithExec(m, exec) == [m EXCEPT !.exec = exec, !.override = exec # "unknown"]

\* fw_upload_run_from_sdmmc: a meta that was read follows the route, except
\* where a client has overridden the executor or given a format.
Routed(t, m) ==
  [m EXCEPT !.exec   = IF m.override THEN m.exec ELSE Route(t).exec,
            !.format = IF m.format = "unknown" THEN Route(t).format ELSE m.format]
=============================================================================
