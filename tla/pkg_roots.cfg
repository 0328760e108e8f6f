SPECIFICATION Spec
CONSTANTS
  Roots <- TwoRoots
  Slash = "/"
  Archives = {"A0", "A2b"}
  Packages = {"A0", "A2"}
  Names = {"A"}
  Pkg <- MCPkg
  Name <- MCName
  Files = {"d/x"}
  Dirs = {"d"}
  Links = {}
  Ships <- MCShips
  Local = {}
  Anc <- MCAnc
  Target <- MCTarget
  Hits <- Exact
  HasDoinst = {}
  HasDouninst = {}
  Faults = {"tar"}
  MaxFaults = 1
PROPERTIES
  OtherRootsUntouched
