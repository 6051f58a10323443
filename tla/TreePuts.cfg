\* Histories without deletes, with keys of two lengths.
CONSTANTS
  Keys <- FourKeys
  Values = {1, 2}
  MaxNodes = 4
  KeyRoom = 3
SPECIFICATION PutSpec
INVARIANT PutsAreCounted
PROPERTY PutsMakeMap
