\* Two clients; put, verify and get by one of them and two writes of the other.
CONSTANTS
  Clients = {c1, c2}
  Keys <- TwoKeys
  MaxNodes = 3
  KeyRoom = 1
  None = none
  MaxRequests = 4
  MaxWrites = 2
SPECIFICATION Spec
SYMMETRY Symmetry
INVARIANT TypeOK
PROPERTY VerifiedIsVisible
\* The server may be down and every client gone.
CHECK_DEADLOCK FALSE
