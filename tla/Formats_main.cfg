\* Conversion of Intel HEX files and packaging of binary, COFF and ELF files.
CONSTANTS
  HexFiles <- MCHexFiles
  Objects  <- MCObjects
  ReadSize = 2
  SinkSize = 2
  Wrap     = 16
SPECIFICATION Spec
INVARIANTS
  ConvertedIsFile
  PackagedIsImage
