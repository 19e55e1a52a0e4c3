------------------------------- MODULE Pricing -------------------------------
(***************************************************************************)
(* What things cost: resolveUnitPrice (variant-price.util.ts), the total   *)
(* of a basket and the discount of PromoCodeService.evaluate. The checkout *)
(* and the preview of a code both use these rules.                         *)
(*                                                                         *)
(* Prices and terms are Float columns: here they are multiples of 1/Unit,  *)
(* so that a price, a cap or a percentage need not be whole, while what    *)
(* Math.round returns is. That binary floats miss some decimal fractions   *)
(* is left out.                                                            *)
(***************************************************************************)
EXTENDS Integers, FiniteSets, FiniteSetsExt, Sums

CONSTANTS
  Unit,          \* the parts of a so'm, and of one per cent, amounts are counted in
  PricedProducts,
  Sizes,         \* sizes as printed on a product; "" is none
  ProductPrice,  \* Product.price
  Volume,        \* parseMl: the millilitres a size stands for, 0 if it is no volume
  OwnPrice       \* ProductVariant.price of each row, 0 where none is set

\* The variant rows are the domain of OwnPrice: pairs of a product and a size
\* (the colour, the other half of a row's key, is left out).
ASSUME PricingAssumption ==
  /\ Unit \in Nat \ {0}
  /\ ProductPrice \in [PricedProducts -> Nat]
  /\ Volume \in [Sizes -> Nat]
  /\ DOMAIN OwnPrice \subseteq PricedProducts \X Sizes
  /\ OwnPrice \in [DOMAIN OwnPrice -> Nat]

\* Math.round of n / d.
Rounded(n, d) == (2 * n + d) \div (2 * d)

SmallerOf(m, n) == IF m <= n THEN m ELSE n

Volumes(p) == {Volume[v[2]] : v \in {w \in DOMAIN OwnPrice : w[1] = p}} \ {0}

\* baseVolumeMl: the smallest volume among the variants, 0 without one.
BaseVolume(p) == IF Volumes(p) = {} THEN 0 ELSE Min(Volumes(p))

\* resolveUnitPrice and priceForVariant: the variant's own price, else in
\* proportion to the smallest volume, else the price of the product. A size
\* without a row is priced by its volume as well.
UnitPrice(p, size) ==
  LET row == <<p, size>> \in DOMAIN OwnPrice
  IN  IF row /\ OwnPrice[<<p, size>>] > 0 THEN OwnPrice[<<p, size>>]
      ELSE IF Volume[size] > 0 /\ BaseVolume(p) > 0
      THEN Unit * Rounded(ProductPrice[p] * Volume[size], BaseVolume(p) * Unit)
      ELSE ProductPrice[p]

Item == [product : PricedProducts, size : Sizes, quantity : Nat]
Amount(items) == SumOf(items, [i \in items |-> UnitPrice(i.product, i.size) * i.quantity])

\* The terms of a promo code; 0 stands for no cap and no minimum.
Terms == [type : {"PERCENT", "AMOUNT"}, value : Nat, cap : Nat, minimum : Nat]

\* Amounts as the percentages leave them: in parts of a part.
Hundred == 100 * Unit

Capped(t, raw) == IF t.cap > 0 THEN SmallerOf(raw, t.cap * Hundred) ELSE raw

\* Math.round to whole so'm, and never more than the total.
Settled(raw, total) == SmallerOf(Unit * Rounded(raw, Hundred * Unit), total)

\* Mutant of Discount: an amount is not limited to what the code is good for.
DiscountUnlimited(t, eligible, total) ==
  LET raw == IF t.type = "AMOUNT" THEN t.value * Hundred ELSE eligible * t.value
  IN  Settled(Capped(t, raw), total)

\* The discount, once the code was found to apply: the cap comes before the
\* rounding.
Discount(t, eligible, total) ==
  LET raw == IF t.type = "AMOUNT" THEN SmallerOf(t.value, eligible) * Hundred
             ELSE eligible * t.value
  IN  Settled(Capped(t, raw), total)
=============================================================================
