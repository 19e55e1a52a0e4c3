----------------------------- MODULE MCCheckout -----------------------------
(***************************************************************************)
(* The instance TLC checks: two buyers, a tee sold by size and colour and  *)
(* a mug sold without, one promo code, one telephone number in two         *)
(* spellings, shared by the buyers, and one spelling without digits.       *)
(***************************************************************************)
EXTENDS Checkout, TLC

CONSTANTS u1, u2, tee, mug, promoId, leaflet, international, local, blank, number, noNumber, h1, h2

MCUsers == {u1, u2}
MCItems == {tee, mug}
MCSized == {tee}
MCPromoIds == {promoId}
MCCodes == {leaflet}
MCSpellings == {international, local, blank}
MCPhones == {number}
MCNormalPhone == [s \in MCSpellings |-> IF s = blank THEN noNumber ELSE number]
MCSlots == {h1, h2}

Symmetric == Permutations(MCUsers) \cup Permutations(MCSlots)
               \cup Permutations({international, local})
=============================================================================
