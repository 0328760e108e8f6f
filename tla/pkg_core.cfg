SPECIFICATION Spec
CONSTANTS
  Roots <- OneRoot
  Slash = "/"
  Archives = {"A1", "A2", "A2b", "B"}
  Packages = {"A1", "A2", "B"}
  Names = {"A", "B"}
  Pkg <- MCPkg
  Name <- MCName
  Files = {"d/x", "d/y", "d/s/z", "d/u"}
  Dirs = {"d", "d/s"}
  Links = {}
  Ships <- MCShips
  Local = {"d/u"}
  Anc <- MCAnc
  Target <- MCTarget
  Hits <- Exact
  HasDoinst = {"A1", "A2"}
  HasDouninst = {"A1", "A2"}
  Faults = {}
  MaxFaults = 2
INVARIANTS
  TypeOK
  NoOrphans
  NothingSetAside
  UpgradeKeepsSetup
PROPERTIES
  LocalFilesStay
  ActsAtOnce
