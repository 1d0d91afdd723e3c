CONSTANTS
  Signatures <- Functions
  Paths <- AllPaths
  Reordered <- PixelOnly
  ValuesOf <- Values
  MaxLen = 2
  None = None
  Projects <- AllProjects
  Versions <- FewVersions
SPECIFICATION ProgramSpec
\* One call is made; it ends.
CHECK_DEADLOCK FALSE
INVARIANTS
  BufferFilled
  RefsAligned
  RequestArrives
  ReplyArrives
  Detached
  ProgramFits
  OneVersionFits
  SafetyDeclared
  ImportsSuffice
