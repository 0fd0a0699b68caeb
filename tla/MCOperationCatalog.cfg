\* One file with two or three variants of an operation, or two files;
\* searched for one or two words, in pages of two.
SPECIFICATION DiscoverySpec
CONSTANTS
  Letters <- MCLetters
  Lower <- MCLower
  Namespaces = {"prism", "vmm"}
  SchemaNames = {"Vm"}
  Characters <- MCCharacters
  Spaces <- MCSpaces
  Queries <- MCQueries
  Limit = 2
  Directories <- MCDirectories
INVARIANTS
  TypeOK
  VariantsAreDistinguished
  ListedOperationsAreReached
  NamesAreStable
  NamedOperationsRankFirst
  PagesCoverTheMatches
