SPECIFICATION Spec
CONSTANTS
  Pkgs = {"libelf", "musl"}
  Revs = {1, 3}
  Versions = {1, 2}
  VersionOf <- MCVersionOf
  Deps <- OneDep
  Custom = {"libelf"}
  CleansFirst = {"libelf"}
  Cleaners = {"clean"}
  Uninstalls = {"libelf"}
  Edits <- AnyWay
  Failures = {"network", "interrupt", "disk"}
  MaxFailures = 2
INVARIANTS
  DependenciesInstalled
PROPERTIES
  BuiltFromSources
  InstalledIsCurrent
