CONSTANTS
  o1 = o1
  o2 = o2
  shirt = shirt
  mug = mug
  small = small
  large = large
  noVariant = noVariant
  h1 = h1
  h2 = h2
  Orders <- MCOrders
  Products <- MCProducts
  Variants <- MCVariants
  VariantOf <- MCVariantOf
  NoVariant <- noVariant
  Lines <- MCLines
  InitialStock <- MCInitialStock
  InitialVariantStock <- MCInitialVariantStock
  Quantities <- MCQuantities
  Handlers <- MCHandlers
  OrderStatus <- MCOrderStatus
  Exclusive = TRUE
  MaxCalls = 6
  MaxEdits = 1
  MaxClears = 1
  MaxRestarts = 1
SYMMETRY HandlerSymmetry
SPECIFICATION Spec
INVARIANTS
  TypeOK
  StockNeverNegative
  CallsSound
  SoldMatchesOut
PROPERTIES
  StockFollowsOut
  PaidNeverRejected
  KeepsLedger
CHECK_DEADLOCK FALSE
