\* Commands in any order and directory, from six inputs over three hand-written
\* .env files.
SPECIFICATION Spec
CONSTANTS
  Value <- MCValue
  Malformed = "bad"
  Reread <- MCReread
  Breaks <- MCBreaks
  Inputs <- MCInputs
  Edits <- MCEdits
  Bundled = FALSE
INVARIANTS
  TypeOK
  WritesNeedOptIn
  SavedLinesComeBack
  CredentialsFollowTheirHost
PROPERTIES
  InitStatusTellsArtifacts
  ProbeIsConclusive
  CommandsEnd
