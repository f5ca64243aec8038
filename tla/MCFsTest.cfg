SPECIFICATION FsSpec
CONSTANTS
  NumSectors = 9
  SectorSize = 2
  NumDirEntries = 3
  SectorFields = 3
  Name <- MCName
  Stored <- MCStored
  Byte <- MCByte
  Sizes <- MCSizes
  FreeMapFileSize = 1
  DirectoryFileSize = 3
  Uninitialized <- MCUninitialized
  Texts <- MCTexts
  Positions <- MCPositions
  TransferSize = 2
  FileName = "t"
  Chars <- MCChars
  FileSize = 2
  MaxCutCalls = 2
  NULL = NULL
INVARIANTS
  
  
  NameFindsFile
  ReadExact
  CommandsExact

  
\* Nachos exits when its commands are done.
CHECK_DEADLOCK FALSE
