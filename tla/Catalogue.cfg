CONSTANTS
  banner = banner
  fixed = fixed
  percent = percent
  c1 = c1
  c2 = c2
  st1 = st1
  r1 = r1
  r2 = r2
  w1 = w1
  f1 = f1
  f2 = f2
  gone = gone
  unsent = unsent
  Products <- MCProducts
  Sold <- MCSold
  Stars <- MCStars
  ReviewSlots <- MCReviewSlots
  WishSlots <- MCWishSlots
  Calm <- MCCalm
  Limit = 2
  Banners <- MCBanners
  Promos <- MCPromos
  Categories <- MCCategories
  Stores <- MCStores
  CategoryOf <- MCCategoryOf
  StoreOf <- MCStoreOf
  Forms <- MCForms
  Gone <- gone
  Unsent <- unsent
  Unit <- MCUnit
  PricedProducts <- MCProducts
  Sizes <- MCSizes
  ProductPrice <- MCProductPrice
  Volume <- MCVolume
  OwnPrice <- MCOwnPrice
  TermsOf <- MCTermsOf
  Baskets <- MCBaskets
  MaxRequests = 3
SPECIFICATION Spec
INVARIANTS
  TypeOK
  RatingInSync
  PagesPartition
  DiscountBounded
CHECK_DEADLOCK FALSE
