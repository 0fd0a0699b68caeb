SPECIFICATION Spec
CONSTANTS
  a = a
  b = b
  c = c
  Schemas = {a, b}
  Unknown = Unknown
  Graphs <- MCGraphs
INVARIANT AnswerIsSelfContained
