CONSTANTS
  u1 = u1
  u2 = u2
  tee = tee
  mug = mug
  promoId = promoId
  leaflet = leaflet
  international = international
  local = local
  number = number
  blank = blank
  noNumber = noNumber
  h1 = h1
  h2 = h2
  NoPhone <- noNumber
  NoPromo = noPromo
  Users <- MCUsers
  Items <- MCItems
  Sized <- MCSized
  PromoIds <- MCPromoIds
  Codes <- MCCodes
  Spellings <- MCSpellings
  Phones <- MCPhones
  NormalPhone <- MCNormalPhone
  Slots <- MCSlots
  Quantities = {1}
  MaxRequests = 4
SYMMETRY Symmetric
SPECIFICATION Spec
INVARIANTS
  TypeOK
  OneLinePerItem
  OrderedOnce
  OneDiscountPerPhone
  UsageMatchesOrders
PROPERTY OnlyOrderedCleared
CHECK_DEADLOCK FALSE
