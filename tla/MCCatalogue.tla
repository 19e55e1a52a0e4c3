---------------------------- MODULE MCCatalogue ----------------------------
(***************************************************************************)
(* Up to three products in two categories and one store, one banner, two   *)
(* codes: a fixed amount above some items, a percentage with a cap. Two    *)
(* sizes are volumes; one variant has a price of its own. Amounts are in   *)
(* half so'm; two prices, the amount, the percentage and the cap are odd.  *)
(***************************************************************************)
EXTENDS Catalogue

CONSTANTS banner, fixed, percent, c1, c2, st1, r1, r2, w1, f1, f2, gone, unsent

MCProducts == {1, 2, 3}
MCSold == {1}
MCStars == {1, 5}
MCReviewSlots == {r1, r2}
MCWishSlots == {w1}
MCCalm == {1}
MCBanners == {banner}
MCPromos == {fixed, percent}
MCCategories == {c1, c2}
MCStores == {st1}
MCCategoryOf == [p \in MCProducts |-> c1]
MCStoreOf == [p \in MCProducts |-> st1]
MCForms == {f1, f2}

MCSizes == {"", "M", "30 ml", "50 ml"}
MCUnit == 2
MCProductPrice == [p \in MCProducts |-> IF p = 1 THEN 21 ELSE p * 20]
MCVolume == [s \in MCSizes |-> CASE s = "30 ml" -> 30 [] s = "50 ml" -> 50 [] OTHER -> 0]
MCOwnPrice == [v \in {<<2, "30 ml">>, <<2, "50 ml">>, <<3, "M">>} |->
                 IF v = <<3, "M">> THEN 75 ELSE 0]
MCTermsOf ==
  [h \in MCPromos |->
     IF h = fixed THEN [type |-> "AMOUNT", value |-> 51, cap |-> 0, minimum |-> 0]
     ELSE [type |-> "PERCENT", value |-> 31, cap |-> 9, minimum |-> 60]]

One(p, size, n) == [product |-> p, size |-> size, quantity |-> n]
MCBaskets == SUBSET {One(1, "M", 1), One(2, "50 ml", 2), One(3, "M", 1)}
=============================================================================
