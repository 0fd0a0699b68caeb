SPECIFICATION Spec
CONSTANTS
  vmm = vmm
  prism = prism
  Namespaces = {vmm, prism}
  Versions = {v1}
  Listings <- MCListings
  Label <- MCLabel
  Bodies = {"mapping", "malformed", "raises"}
INVARIANT FailedRefreshKeepsArtifacts
