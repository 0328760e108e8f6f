SPECIFICATION Spec
CONSTANTS
  Roots <- OneRoot
  Slash = "/"
  Archives = {"A1l", "A2", "A2b"}
  Packages = {"A1", "A2"}
  Names = {"A"}
  Pkg <- MCPkg
  Name <- MCName
  Files = {"d/x", "[l]"}
  Dirs = {"d"}
  Links = {"l"}
  Ships <- MCShips
  Local = {}
  Anc <- MCAnc
  Target <- MCTarget
  Hits <- ByPattern
  HasDoinst = {}
  HasDouninst = {}
  Faults = {"crash"}
  MaxFaults = 2
INVARIANTS
  ProvidedFilesPresent
  SuccessMeansInstalled
  OneVersionAfterUpgrade
PROPERTIES
  UpgradeHasNoGap
