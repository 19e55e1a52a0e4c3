CONSTANTS
  root1 = root1
  root2 = root2
  old = old
  new1 = new1
  new2 = new2
  p1 = p1
  p2 = p2
  p3 = p3
  noPhone = noPhone
  noUser = noUser
  h1 = h1
  h2 = h2
  Users <- MCUsers
  Admins <- MCAdmins
  Legacy <- MCLegacy
  Phones <- MCPhones
  NoPhone <- noPhone
  NoUser <- noUser
  LegacyPhone <- MCLegacyPhone
  WithOrders <- MCWithOrders
  Slots <- MCSlots
  Patient <- MCPatient
  OneAdmin = TRUE
  MaxAttempts = 1
  MaxCodes = 2
  MaxRequests = 4
SYMMETRY Symmetry
SPECIFICATION Spec
INVARIANTS
  TypeOK
  TriesBounded
  VerifiedCurrent
  UniquePhones
  AccountsProven
  UsedOnce
  AdminRemains
CHECK_DEADLOCK FALSE
