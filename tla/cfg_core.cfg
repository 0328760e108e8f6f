SPECIFICATION Spec
CONSTANTS
  Releases = {1, 2, 3}
  Upstream <- MCUpstream
  Preserved = {1, 2, 3}
  Edited = {"mine", "ours"}
  NewFileActions = {"KEEP", "REPLACE", "OVERWRITE"}
  NoFile = "none"
  MaxCrashes = 3
INVARIANTS
  TypeOK
  EditNotLost
PROPERTIES
  EditSaved
  UpgradeDelivers
