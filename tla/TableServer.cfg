\* A table that fills up, keys of two slots that share one chain, a key outside.
CONSTANTS
  Clients = {c1, c2}
  Keys <- FiveKeys
  Values = {v1, v2}
  Sizes <- OneTable
  None = none
  MaxRequests = 3
SPECIFICATION Spec
SYMMETRY Alike
INVARIANTS TypeOK WellLinked AnswersAgree
PROPERTY TablesAreMaps
\* The server may be down and every client gone.
CHECK_DEADLOCK FALSE
