CONSTANTS
  Jobs = {j1}
  Scopes = {s1, s2, s3}
  Reservations = {r1, r2, r3}
  Ceilings = {3}
  Amounts = {1, 2}
  EscrowBound = 2
  None = None
SPECIFICATION Spec
SYMMETRY TreeSymmetry
INVARIANTS
  TypeOK
  OneCeiling
  WithinShare
  BooksBalance
  SharesCarved
  HeldIffLocked
PROPERTIES
  MoneyStaysPut
  ImplementsAuthority
CHECK_DEADLOCK FALSE
