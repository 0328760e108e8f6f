SPECIFICATION Spec
CONSTANTS
  Pkgs = {"libelf"}
  Revs = {1, 2, 3}
  Versions = {1, 2}
  VersionOf <- MCVersionOf
  Deps <- NoDeps
  Custom = {"libelf"}
  CleansFirst = {}
  Cleaners = {"scrub"}
  Uninstalls = {}
  Edits <- Forward
  Failures = {}
  MaxFailures = 0
PROPERTIES
  ForcedRebuild
