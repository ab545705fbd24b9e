SPECIFICATION FilesSpec
CONSTANTS
  ALT_MAX_FD = 5
  Device = {uart, alt_dev_null}
  FileSystem = {fs}
  alt_dev_null = alt_dev_null
  None = None
  uart = uart
  fs = fs
  NameOf <- MCNameOf
  Op <- MCOp
  Name <- MCName
  OpenFlags <- MCOpenFlags
  StdName <- MCStdName
  Signal = {6, 17}
  FatalSignal = {6}
  Pid <- MCPid
  File <- MCFile
  StdinPresent = TRUE
  StdoutPresent = TRUE
  StderrPresent = TRUE
INVARIANTS
  TableInv
  
PROPERTIES
  ImplementsFdPool
  CallsKeepTable
CHECK_DEADLOCK FALSE
