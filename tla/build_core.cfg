SPECIFICATION Spec
CONSTANTS
  Pkgs = {"libelf", "musl"}
  Revs = {1, 2, 3}
  Versions = {1, 2}
  VersionOf <- MCVersionOf
  Deps <- OneDep
  Custom = {"libelf"}
  CleansFirst = {}
  Cleaners = {"clean", "tidy", "neat"}
  Uninstalls = {}
  Edits <- Forward
  Failures = {"network"}
  MaxFailures = 1
INVARIANTS
  TypeOK
  PackagesHoldTheirVersion
PROPERTIES
  ForcedRebuild
