SPECIFICATION Spec
CONSTANTS
  Users = {u1, u2}
  Handles = {h1, h2}
  Threads = {t1, t2}
  MaxClaims = 2
  FreeText = freeText
  Nobody = nobody
INVARIANTS HandleInv ProvedInTime ClaimsAndOwnersAgree
PROPERTIES ImplementsContract
SYMMETRY Symmetry
CHECK_DEADLOCK FALSE
