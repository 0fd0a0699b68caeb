\* The same, for the settings that no line of .env is written for.
SPECIFICATION Spec
CONSTANTS
  Value <- MCValue
  Malformed = "bad"
  Reread <- MCReread
  Breaks <- MCBreaks
  Inputs <- MCInputs
  Edits <- MCEdits
  Bundled = FALSE
INVARIANT
  SavedSettingsComeBack
