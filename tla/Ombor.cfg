CONSTANTS
  north = north
  south = south
  ali = ali
  vali = vali
  c1 = c1
  c2 = c2
  p1 = p1
  r1 = r1
  h1 = h1
  h2 = h2
  a1 = a1
  a2 = a2
  noStore = noStore
  noCode = noCode
  Stores <- MCStores
  Codes <- MCCodes
  Sellers <- MCSellers
  Linked <- MCLinked
  Products <- MCProducts
  Admins <- MCAdmins
  FirstStore <- north
  NoStore <- noStore
  NoCode <- noCode
  MaxAdmin = 3
  Slots <- MCSlots
  Patient <- MCPatient
  Requests <- MCRequests
  ProductOf <- MCProductOf
  QuantityOf <- MCQuantityOf
  InitialStock <- MCInitialStock
  MaxFailed = 2
  MaxRequests = 4
  MaxForgets = 1
  MaxRestarts = 1
CONSTRAINT MCFewCalls
SYMMETRY MCSymmetry
SPECIFICATION Spec
INVARIANTS
  TypeOK
  LocksExact
  DeductedOnce
  Balanced
  LoginsBounded
  RevokedStaysOut
  
  OrphansHidden
  NoDanglingLink
CHECK_DEADLOCK FALSE
