\* Two namespaces, two versions: a refresh may replace a version, leave one, or
\* fail on one namespace after the other succeeded.
SPECIFICATION Spec
CONSTANTS
  vmm = vmm
  prism = prism
  Namespaces = {vmm, prism}
  Versions = {v1, v2}
  Listings <- MCListings
  Label <- MCLabel
  Bodies = {"mapping", "malformed", "raises"}
SYMMETRY VersionSymmetry
INVARIANTS
  TypeOK
  RefreshKeepsEveryNamespace
  UnprocessedIsUntouched
  ProcessedHasOneVersion
  InitOnlyAdds
PROPERTY
  ImplementsPromise
