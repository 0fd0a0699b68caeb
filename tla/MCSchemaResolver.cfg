\* Three schemas with up to two $refs each: 9261 dictionaries, with self loops,
\* cycles of two and three, diamonds and dangling $refs.
SPECIFICATION Spec
CONSTANTS
  a = a
  b = b
  c = c
  Schemas = {a, b, c}
  Unknown = Unknown
  Graphs <- MCGraphs
INVARIANTS
  TypeOK
  BoundedRecursion
  LooseEndsAreCyclic
PROPERTIES
  CacheIsFinal
  AskEnds
