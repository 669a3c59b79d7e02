\* An Intel HEX file for the UART executor, two uploads, a size announced that is right,
\* another or none, power that fails at any time.
SPECIFICATION FairSpec
CONSTANTS
  FileTypes = {"A03"}
  Size = 2
  Sizes = {0, 1, 2}
  AskedExecs = {"none", "can", "unknown"}
  AskedFormats = {"unknown"}
  MaxUploads = 2
INVARIANTS
  PartNeverFlashed
  StoredIsWhole
  RoutedUnlessAsked
  RunsLatest
PROPERTY HttpUploadEnds
