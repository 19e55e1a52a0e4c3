------------------------------ MODULE Catalogue ------------------------------
(***************************************************************************)
(* The catalogue as the shop shows it: the products with their reviews and *)
(* wishes (Shelf), the banners and promo codes that point to them (Links)  *)
(* and what a code takes off (Pricing). Deleting a product or a category   *)
(* takes the links to it along.                                            *)
(***************************************************************************)
EXTENDS Links, Pricing

CONSTANTS
  StoreOf,       \* the store of each product
  TermsOf,       \* the terms of each promo code
  Baskets,       \* sets of items to try a code on
  MaxRequests    \* bound on the calls of admins, buyers and visitors

ASSUME EvaluationAssumption ==
  /\ PricedProducts = Products
  /\ StoreOf \in [Products -> Stores]
  /\ TermsOf \in [Promos -> Terms]
  /\ Baskets \subseteq SUBSET Item /\ \A b \in Baskets : IsFiniteSet(b)
  /\ MaxRequests \in Nat

VARIABLE requests

vars == <<shelfVars, linkVars, requests>>

TypeOK ==
  /\ ShelfTypeOK /\ LinksTypeOK
  /\ requests \in 0 .. MaxRequests

Init == InitShelf /\ InitLinks /\ requests = 0
-----------------------------------------------------------------------------
\* What a code is good for in a basket.
InScope(h, item) ==
  LET targets == holders[h].targets
  IN  CASE holders[h].kind = "CATEGORIES" -> CategoryOf[item.product] \in targets
        [] holders[h].kind = "PRODUCTS"   -> item.product \in targets
        [] holders[h].kind = "STORES"     -> StoreOf[item.product] \in targets
        [] holders[h].kind = "ALL"        -> TRUE

\* evaluate, for a code that is active, in its time and not used by this
\* telephone number: checkPromoCode shows the result, the checkout writes it.
Evaluate(h, basket) ==
  LET total == Amount(basket)
      eligible == Amount({i \in basket : InScope(h, i)})
      valid == basket # {} /\ total >= TermsOf[h].minimum /\ eligible > 0
      discount == IF valid THEN Discount(TermsOf[h], eligible, total) ELSE 0
  IN  [valid |-> valid, eligible |-> eligible, discount |-> discount,
       total |-> total - discount]
-----------------------------------------------------------------------------
\* An admin's change to the links.
LinkRequest ==
  /\ \/ \E h \in Holders, kind \in DOMAIN TargetsOf :
          \E list \in SUBSET TargetsOf[kind] : CreateHolder(h, kind, list)
     \/ \E f \in Forms, h \in Holders, sent \in DOMAIN TargetsOf \cup {Unsent} :
          \E list \in (SUBSET TargetsOf[KindReceived(h, sent)]) \cup {Unsent} :
            StartUpdate(f, h, sent, list)
     \/ \E h \in Holders : RemoveHolder(h)
     \/ \E c \in Categories : RemoveCategory(c) \/ CloseCategory(c)
  /\ UNCHANGED shelfVars

\* A request for products, reviews, wishes or pages; a product needs its
\* category.
ShelfRequest ==
  \/ /\ \/ \E p \in Products : (CategoryOf[p] \in categories /\ CreateProduct(p)) \/ HideProduct(p)
        \/ \E s \in ReviewSlots, p \in Products, n \in Stars : StartReview(s, p, n)
        \/ \E s \in WishSlots, p \in Products : StartToggle(s, p)
        \/ visit.page = 0 /\ TurnPage
        \/ NextHour
     /\ UNCHANGED linkVars
  \/ \E p \in Products :
       /\ DeleteProduct(p) /\ Unlink(p)
       /\ UNCHANGED <<categories, closed, form>>

Request ==
  /\ requests < MaxRequests
  /\ LinkRequest \/ ShelfRequest
  /\ requests' = requests + 1

\* What has been begun goes on.
GoOn ==
  /\ \/ /\ \/ \E s \in ReviewSlots : WriteReview(s) \/ ReadAverage(s) \/ WriteRating(s)
           \/ \E s \in WishSlots : Toggle(s)
           \/ visit.page > 0 /\ TurnPage
           \/ LeaveShop
        /\ UNCHANGED linkVars
     \/ /\ \E f \in Forms : WriteUpdate(f)
        /\ UNCHANGED shelfVars
  /\ UNCHANGED requests

Next == Request \/ GoOn

Spec == Init /\ [][Next]_vars
-----------------------------------------------------------------------------
(***************************************************************************)
(* The discount of any code on any basket is at least nothing and at most  *)
(* the total (comment in evaluate). The cap, and what the items cost that  *)
(* the code is good for (a fixed amount, or up to a hundred per cent), are *)
(* kept exactly where they are whole so'm; since the code rounds after it  *)
(* has applied them, one that is not whole is exceeded by up to half.      *)
(***************************************************************************)
Keeps(discount, limit) ==
  /\ limit % Unit = 0 => discount <= limit
  /\ 2 * discount <= 2 * limit + Unit

DiscountBounded ==
  \A h \in Promos, b \in Baskets :
    holders[h] # Gone /\ {i.product : i \in b} \subseteq products =>
      LET t == TermsOf[h]
          e == Evaluate(h, b)
      IN  /\ 0 <= e.discount /\ 0 <= e.total
          /\ t.cap > 0 => Keeps(e.discount, t.cap)
          /\ t.type = "AMOUNT" \/ t.value <= Hundred => Keeps(e.discount, e.eligible)
=============================================================================
