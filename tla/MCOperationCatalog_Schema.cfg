SPECIFICATION DiscoverySpec
CONSTANTS
  Letters <- MCLetters
  Lower <- MCLower
  Namespaces = {"prism", "vmm"}
  SchemaNames = {"Vm"}
  Characters <- MCCharacters
  Spaces <- MCSpaces
  Queries <- MCQueries
  Limit = 2
  Directories <- MCTwoFiles
INVARIANT DescribesTheListedOperation
