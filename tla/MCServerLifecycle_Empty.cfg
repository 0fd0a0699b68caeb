SPECIFICATION ServiceSpec
CONSTANTS
  vmm = vmm
  prism = prism
  Namespaces = {vmm, prism}
  Versions = {v1}
  Listings <- MCListings
  Label <- MCLabel
  Bodies = {"mapping", "raises"}
INVARIANT
  ServingHasArtifacts
