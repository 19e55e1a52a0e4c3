CONSTANTS
  o1 = o1
  mug = mug
  noVariant = noVariant
  h1 = h1
  k1 = k1
  k2 = k2
  b1 = b1
  Orders <- MCOrders
  Products <- MCProducts
  Variants <- MCVariants
  VariantOf <- MCVariantOf
  NoVariant <- noVariant
  Lines <- MCLines
  InitialStock <- MCInitialStock
  InitialVariantStock <- MCInitialVariantStock
  Quantities <- MCQuantities
  Handlers <- MCHandlers
  OrderStatus <- MCOrderStatus
  Exclusive = FALSE
  MaxCalls = 2
  MaxEdits = 0
  MaxClears = 1
  MaxRestarts = 1
  Hooks <- MCHooks
  Buyers <- MCBuyers
  TestMode = TRUE
SPECIFICATION FairPaymentSpec
INVARIANTS
  PaymentTypeOK
  PaidStaysPaid
PROPERTIES
  PaidArrives
CHECK_DEADLOCK FALSE
