-------------------------------- MODULE Shelf --------------------------------
(***************************************************************************)
(* The products on show: ProductService without its stock figures (those   *)
(* are Inventory), the reviews with the rating copied into the product,    *)
(* the wishlists, and the pages of the shop in random order.               *)
(*                                                                         *)
(* Reviews are counted per product and number of stars; the rating is the  *)
(* average as its sum and its count.                                       *)
(***************************************************************************)
EXTENDS Integers, FiniteSets, Sequences, SequencesExt, FiniteSetsExt, Sums

CONSTANTS
  Products,      \* ids, numbered
  Sold,          \* the products that are in somebody's order
  Stars,
  ReviewSlots, WishSlots,
  Calm,          \* the products with one review or deletion at a time
  Limit          \* products on a page

ASSUME ShelfAssumption ==
  /\ Products \subseteq Nat \ {0} /\ IsFiniteSet(Products)
  /\ Stars \subseteq 1 .. 5
  /\ Limit \in Nat \ {0}

VARIABLES
  products,  \* the rows there are
  used,      \* the ids ever given
  hidden,    \* isActive = false
  reviews,   \* number of reviews of each product with each number of stars
  rating,    \* Product.rating and reviewsCount
  review,    \* the review each slot is about
  wishes,    \* the products on the wishlist of a user
  wish,      \* the toggle each slot executes
  hour,      \* what the shuffle draws in this hour
  visit      \* a visitor who turns the pages of the shop

productVars == <<products, used, hidden>>
ratingVars == <<reviews, rating, review>>
wishVars == <<wishes, wish>>
shelfVars == <<productVars, ratingVars, wishVars, hour, visit>>

Visible == products \ hidden

None == [n |-> 0, sum |-> 0]
NoReviews == [s \in Stars |-> 0]
AverageOf(given) == [n   |-> SumOf(Stars, given),
                     sum |-> SumOf(Stars, [s \in Stars |-> s * given[s]])]
Average(p) == AverageOf(reviews[p])

IdleReview == [step |-> "idle", product |-> 0, stars |-> 0, found |-> None]
IdleWish == [op |-> "idle", product |-> 0]
NoVisit == [page |-> 0, seen |-> << >>, undisturbed |-> TRUE]

\* A draw for each position of the list: an index not beyond it.
Draws == {d \in [1 .. Cardinality(Products) -> 1 .. Cardinality(Products)] :
            \A i \in DOMAIN d : d[i] <= i}

ShelfTypeOK ==
  /\ hidden \subseteq products /\ products \subseteq used /\ used \subseteq Products
  /\ reviews \in [Products -> [Stars -> Nat]]
  /\ \A p \in Products \ products : reviews[p] = NoReviews
  /\ rating \in [Products -> [n : Nat, sum : Nat]]
  /\ wishes \subseteq products
  /\ hour \in Draws
  /\ visit.page \in Nat /\ ToSet(visit.seen) \subseteq Products /\ visit.undisturbed \in BOOLEAN

InitShelf ==
  /\ \E n \in Products : products = {p \in Products : p <= n}
  /\ used = products /\ hidden = {}
  /\ reviews = [p \in Products |-> NoReviews]
  /\ rating = [p \in Products |-> None]
  /\ review = [s \in ReviewSlots |-> IdleReview]
  /\ wishes = {} /\ wish = [s \in WishSlots |-> IdleWish]
  /\ hour \in Draws
  /\ visit = NoVisit

\* The list of the shop changes under a visitor.
Disturb == visit' = [visit EXCEPT !.undisturbed = FALSE]
-----------------------------------------------------------------------------
\* create; a code (SKU) already taken is refused and leaves nothing behind.
CreateProduct(p) ==
  /\ p \notin used
  /\ products' = products \cup {p} /\ used' = used \cup {p}
  /\ Disturb
  /\ UNCHANGED <<hidden, ratingVars, wishVars, hour>>

\* remove only hides; update may show a product again.
HideProduct(p) ==
  /\ p \in products
  /\ hidden' \in {hidden \cup {p}, hidden \ {p}}
  /\ Disturb
  /\ UNCHANGED <<products, used, ratingVars, wishVars, hour>>

\* hardDelete: refused for what has been ordered; the reviews, the wishes and
\* what else hangs on the row go with it.
DeleteProduct(p) ==
  /\ p \in products \ Sold
  /\ p \in Calm => \A s \in ReviewSlots : review[s].product # p
  /\ products' = products \ {p} /\ hidden' = hidden \ {p}
  /\ reviews' = [reviews EXCEPT ![p] = NoReviews]
  /\ rating' = [rating EXCEPT ![p] = None]
  /\ wishes' = wishes \ {p}
  /\ Disturb
  /\ UNCHANGED <<used, review, wish, hour>>
-----------------------------------------------------------------------------
\* createReview and deleteReview up to their first write; only who bought the
\* product, or an admin, gets that far.
StartReview(s, p, stars) ==
  /\ review[s].step = "idle"
  /\ p \in Calm => \A r \in ReviewSlots : review[r].product # p
  /\ p \in products
  /\ \E step \in {"create", "delete"} :
       /\ step = "delete" => reviews[p][stars] > 0
       /\ review' = [review EXCEPT ![s] =
                       [step |-> step, product |-> p, stars |-> stars, found |-> None]]
  /\ UNCHANGED <<productVars, reviews, rating, wishVars, hour, visit>>

ReviewDone(s) == review' = [review EXCEPT ![s] = IdleReview]

\* The review is written or deleted; either throws if the row it needs is gone.
WriteReview(s) ==
  LET p == review[s].product
      stars == review[s].stars
  IN  /\ review[s].step \in {"create", "delete"}
      /\ \/ /\ review[s].step = "create" /\ p \in products
            /\ reviews' = [reviews EXCEPT ![p][stars] = @ + 1]
            /\ review' = [review EXCEPT ![s].step = "average"]
         \/ /\ review[s].step = "delete" /\ reviews[p][stars] > 0
            /\ reviews' = [reviews EXCEPT ![p][stars] = @ - 1]
            /\ review' = [review EXCEPT ![s].step = "average"]
         \/ /\ p \notin products \/ (review[s].step = "delete" /\ reviews[p][stars] = 0)
            /\ ReviewDone(s)
            /\ UNCHANGED reviews
      /\ UNCHANGED <<productVars, rating, wishVars, hour, visit>>

\* Mutant of ReadAverage: the average is taken before the review is written.
ReadAverageEarly(s) ==
  /\ review[s].step = "create"
  /\ review' = [review EXCEPT ![s].step = "rating", ![s].found = Average(review[s].product)]
  /\ reviews' = [reviews EXCEPT ![review[s].product][review[s].stars] = @ + 1]
  /\ UNCHANGED <<productVars, rating, wishVars, hour, visit>>

\* recalculateProductRating: the aggregate is read ...
ReadAverage(s) ==
  /\ review[s].step = "average"
  /\ review' = [review EXCEPT ![s].step = "rating", ![s].found = Average(review[s].product)]
  /\ UNCHANGED <<productVars, reviews, rating, wishVars, hour, visit>>

\* ... and copied into the product in a statement of its own.
WriteRating(s) ==
  LET p == review[s].product
  IN  /\ review[s].step = "rating"
      /\ rating' = IF p \in products THEN [rating EXCEPT ![p] = review[s].found] ELSE rating
      /\ ReviewDone(s)
      /\ UNCHANGED <<productVars, reviews, wishVars, hour, visit>>
-----------------------------------------------------------------------------
\* toggle: decides on whether there is a row.
StartToggle(s, p) ==
  /\ wish[s].op = "idle"
  /\ p \in products
  /\ wish' = [wish EXCEPT ![s] = [op |-> IF p \in wishes THEN "remove" ELSE "add",
                                  product |-> p]]
  /\ UNCHANGED <<productVars, ratingVars, wishes, hour, visit>>

\* The delete throws without a row; the create with one (unique index) and
\* without the product.
Toggle(s) ==
  LET p == wish[s].product
  IN  /\ wish[s].op # "idle"
      /\ wishes' = IF wish[s].op = "remove" THEN wishes \ {p}
                   ELSE wishes \cup ({p} \cap products)
      /\ wish' = [wish EXCEPT ![s] = IdleWish]
      /\ UNCHANGED <<productVars, ratingVars, hour, visit>>
-----------------------------------------------------------------------------
Swapped(list, i, j) == [list EXCEPT ![i] = list[j], ![j] = list[i]]

\* queryProducts with sort RANDOM: the visible products in the order the
\* database returns them, the same for the same rows, shuffled from the end of
\* the list by what this hour's seed draws.
Shuffled ==
  LET ids == SetToSeq(Visible)
      n == Len(ids)
      list[k \in 0 .. n] ==
        IF k = 0 THEN ids ELSE Swapped(list[k - 1], n + 1 - k, hour[n + 1 - k])
  IN  list[n]

\* Mutant of Page: pages overlap by one product.
PageOverlapping(n) ==
  SubSeq(Shuffled, IF n = 1 THEN 1 ELSE (n - 1) * Limit,
         Min({n * Limit, Len(Shuffled)}))

Page(n) == SubSeq(Shuffled, (n - 1) * Limit + 1, Min({n * Limit, Len(Shuffled)}))

Pages == (Cardinality(Visible) + Limit - 1) \div Limit

\* A visitor opens the first page, or the next one. The ids and the rows of a
\* page are two queries; a product deleted in between is left out.
TurnPage ==
  /\ \/ /\ visit.page = 0
        /\ visit' = [page |-> 1, seen |-> Page(1), undisturbed |-> TRUE]
     \/ /\ visit.page \in 1 .. Pages - 1
        /\ visit' = [visit EXCEPT !.page = @ + 1, !.seen = @ \o Page(visit.page + 1)]
  /\ UNCHANGED <<productVars, ratingVars, wishVars, hour>>

LeaveShop ==
  /\ visit.page > 0
  /\ visit' = NoVisit
  /\ UNCHANGED <<productVars, ratingVars, wishVars, hour>>

NextHour ==
  /\ hour' \in Draws
  /\ Disturb
  /\ UNCHANGED <<productVars, ratingVars, wishVars>>
-----------------------------------------------------------------------------
(***************************************************************************)
(* The copy of the rating in the product is in sync with its reviews       *)
(* (comment above recalculateProductRating) whenever no review of it is    *)
(* being written, for a product with one review at a time. Two reviews     *)
(* written together may leave the older average.                           *)
(***************************************************************************)
RatingInSync ==
  \A p \in Calm \cap products :
    (\A s \in ReviewSlots : review[s].product # p) => rating[p] = Average(p)

(***************************************************************************)
(* Whoever turns all the pages of the shop in random order within an hour  *)
(* has seen every product once (comment in queryProducts: "sahifalash      *)
(* to'g'ri ishlaydi"), provided that no product appeared or went.          *)
(***************************************************************************)
PagesPartition ==
  visit.undisturbed /\ visit.page > 0 /\ visit.page = Pages =>
    /\ ToSet(visit.seen) = Visible
    /\ Len(visit.seen) = Cardinality(Visible)
=============================================================================
