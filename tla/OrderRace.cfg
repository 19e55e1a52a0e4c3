CONSTANTS
  o1 = o1
  o2 = o2
  shirt = shirt
  mug = mug
  small = small
  large = large
  noVariant = noVariant
  h1 = h1
  h2 = h2
  Orders <- MCOrders
  Products <- MCProducts
  Variants <- MCVariants
  VariantOf <- MCVariantOf
  NoVariant <- noVariant
  Lines <- MCLines
  InitialStock <- MCInitialStock
  InitialVariantStock <- MCInitialVariantStock
  Quantities <- MCQuantities
  Handlers <- MCHandlers
  OrderStatus <- MCOrderStatus
  Exclusive = FALSE
  MaxCalls = 4
  MaxEdits = 0
  MaxClears = 0
  MaxRestarts = 0
SPECIFICATION Spec
PROPERTY StockFollowsOut
CHECK_DEADLOCK FALSE
