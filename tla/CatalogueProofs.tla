--------------------------- MODULE CatalogueProofs ---------------------------
(***************************************************************************)
(* That links, ratings, pages and discounts stay in order, for any number  *)
(* of products, banners, promo codes, reviews and updates in flight.       *)
(*                                                                         *)
(* Links: an update writes what it prepared earlier, when the row or its   *)
(* targets may be gone; so the invariant is also about what was prepared   *)
(* (Prepared).                                                             *)
(*                                                                         *)
(* Ratings: for a product with one review at a time the average is copied  *)
(* before anything else happens to its reviews; the invariant follows the  *)
(* review through its steps (Followed). Which number the average is plays  *)
(* no part: only that it is a function of the reviews (AverageOf).         *)
(*                                                                         *)
(* Pages: the shuffle of the shop is a permutation whatever is drawn       *)
(* (ShuffledOrders), and a visitor nobody disturbed has seen its beginning *)
(* (Undisturbed).                                                          *)
(*                                                                         *)
(* Discounts: arithmetic, the same in every state (DiscountLimits).        *)
(***************************************************************************)
EXTENDS Catalogue, DataFacts, SequenceTheorems, TLAPS

\* A row, or what an update prepared for it, has a kind of its table, and targets of that kind.
Sound(h, link) ==
  /\ link.kind \in KindsOf(h)
  /\ link.targets \subseteq TargetsOf[link.kind]
  /\ link.kind \in Single => Cardinality(link.targets) <= 1

RowSound(h) ==
  holders[h] # Gone =>
    holders[h] \in Link /\ Sound(h, holders[h]) /\ holders[h].targets \subseteq Existing

FormSound(f) ==
  form[f] # IdleForm =>
    /\ form[f].holder \in Holders /\ form[f].link \in Link
    /\ Sound(form[f].holder, form[f].link)

Rows == holders = [h \in Holders |-> holders[h]] /\ \A h \in Holders : RowSound(h)

Prepared == form = [f \in Forms |-> form[f]] /\ \A f \in Forms : FormSound(f)

Shelved ==
  /\ products \subseteq Products /\ categories \subseteq Categories /\ closed \subseteq categories
  /\ {CategoryOf[p] : p \in products} \subseteq categories

Linked == Rows /\ Prepared /\ Shelved

\* The steps of a review, and what they keep in shape.
ReviewSteps == {"idle", "create", "delete", "average", "rating"}

Shaped ==
  /\ products \subseteq Products
  /\ reviews = [p \in Products |-> reviews[p]] /\ rating = [p \in Products |-> rating[p]]
  /\ review = [s \in ReviewSlots |-> review[s]]
  /\ \A s \in ReviewSlots :
       /\ review[s] = [step |-> review[s].step, product |-> review[s].product,
                       stars |-> review[s].stars, found |-> review[s].found]
       /\ review[s].step \in ReviewSteps
       /\ review[s].step = "idle" <=> review[s].product = 0

\* What is known of a product with one review at a time: the rating is wrong
\* only between the two writes, and then the right one is on its way.
Followed(p) ==
  /\ \A r, s \in ReviewSlots : review[r].product = p /\ review[s].product = p => r = s
  /\ \A s \in ReviewSlots : review[s].product = p => p \in products
  /\ \/ rating[p] = Average(p)
     \/ \E s \in ReviewSlots : review[s].product = p /\ review[s].step \in {"average", "rating"}
  /\ \A s \in ReviewSlots :
       review[s].product = p /\ review[s].step = "rating" => review[s].found = Average(p)

Rated == Shaped /\ \A p \in Calm \cap Products : Followed(p)
-----------------------------------------------------------------------------
(***************************************************************************)
(* The targets of a kind are finitely many where the kind has one.         *)
(***************************************************************************)
LEMMA Targets ==
  /\ \A h \in Holders : KindsOf(h) \subseteq DOMAIN TargetsOf
  /\ \A kind \in DOMAIN TargetsOf :
       /\ TargetsOf[kind] \subseteq Products \cup Categories \cup Stores
       /\ kind \in Everything => TargetsOf[kind] = {}
       /\ kind \in Single => IsFiniteSet(TargetsOf[kind])
<1>1. IsFiniteSet(Products) /\ IsFiniteSet(Categories)
  BY ShelfAssumption, LinksAssumption
<1>2. QED
  BY <1>1 DEF KindsOf, TargetsOf, Everything, Single

(***************************************************************************)
(* What normalizeLink and normalizeScope let through is sound.             *)
(***************************************************************************)
LEMMA NormalizedSound ==
  ASSUME NEW h \in Holders, NEW kind \in KindsOf(h), NEW list, Acceptable(kind, list),
         kind \in Single => IsFiniteSet(list)
  PROVE  /\ Normalized(kind, list) \in Link /\ Sound(h, Normalized(kind, list))
         /\ Normalized(kind, list).targets = list \cap TargetsOf[kind]
<1> DEFINE link == Normalized(kind, list)
<1>1. link.kind = kind /\ link.targets = list \cap TargetsOf[kind]
  BY DEF Normalized
<1>2. link \in Link
  <2>1. kind \in DOMAIN TargetsOf /\ TargetsOf[kind] \subseteq Products \cup Categories \cup Stores
    BY Targets
  <2>2. list \cap TargetsOf[kind] \in SUBSET (Products \cup Categories \cup Stores)
    BY <2>1
  <2>3. QED
    BY <2>1, <2>2 DEF Link, Normalized
<1>3. kind \in Single => Cardinality(link.targets) <= 1
  <2> SUFFICES ASSUME kind \in Single PROVE Cardinality(link.targets) <= 1
    OBVIOUS
  <2>1. IsFiniteSet(list) /\ Cardinality(list) <= 1 /\ link.targets \subseteq list
    BY <1>1 DEF Acceptable
  <2>2. Cardinality(link.targets) <= Cardinality(list) /\ Cardinality(list) \in Nat
        /\ Cardinality(link.targets) \in Nat
    BY <2>1, FS_Subset, FS_CardinalityType
  <2>3. QED
    BY <2>1, <2>2
<1>4. QED
  BY <1>1, <1>2, <1>3 DEF Sound

(***************************************************************************)
(* Fewer targets of the same kind are sound too.                           *)
(***************************************************************************)
LEMMA UnlinkSound ==
  ASSUME NEW h \in Holders, NEW link \in Link, Sound(h, link), NEW target
  PROVE  LET rest == [link EXCEPT !.targets = @ \ {target}]
         IN  /\ rest \in Link /\ Sound(h, rest)
             /\ rest.kind = link.kind /\ rest.targets = link.targets \ {target}
<1> DEFINE rest == [link EXCEPT !.targets = @ \ {target}]
<1>1. rest \in Link /\ rest.kind = link.kind /\ rest.targets = link.targets \ {target}
  BY DEF Link
<1>2. link.kind \in Single => Cardinality(rest.targets) <= 1
  <2> SUFFICES ASSUME link.kind \in Single PROVE Cardinality(rest.targets) <= 1
    OBVIOUS
  <2>1. link.targets \subseteq TargetsOf[link.kind] /\ link.kind \in DOMAIN TargetsOf
    BY Targets DEF Sound
  <2>2. IsFiniteSet(link.targets)
    BY <2>1, Targets, FS_Subset
  <2>3. Cardinality(rest.targets) <= Cardinality(link.targets)
        /\ Cardinality(rest.targets) \in Nat /\ Cardinality(link.targets) \in Nat
    BY <1>1, <2>2, FS_Subset, FS_CardinalityType
  <2>4. QED
    BY <2>3 DEF Sound
<1>3. QED
  BY <1>1, <1>2 DEF Sound

(***************************************************************************)
(* A step that leaves rows and updates alone, and the targets there are.   *)
(***************************************************************************)
LEMMA LinkedQuiet ==
  ASSUME Linked, UNCHANGED <<holders, form>>, Shelved', Existing \subseteq Existing'
  PROVE  Linked'
<1>1. ASSUME NEW h \in Holders PROVE RowSound(h)'
  BY DEF Linked, Rows, RowSound, Sound
<1>2. ASSUME NEW f \in Forms PROVE FormSound(f)'
  BY DEF Linked, Prepared, FormSound, Sound, IdleForm
<1>3. QED
  BY <1>1, <1>2 DEF Linked, Rows, Prepared

(***************************************************************************)
(* A row that is written with what is sound and exists, or removed.        *)
(***************************************************************************)
LEMMA LinkedWrite ==
  ASSUME Linked, NEW h \in Holders, NEW link, holders' = [holders EXCEPT ![h] = link],
         link # Gone => link \in Link /\ Sound(h, link) /\ link.targets \subseteq Existing,
         UNCHANGED <<products, categories, closed>>, Prepared'
  PROVE  Linked'
<1>1. Shelved' /\ Existing' = Existing
  BY DEF Linked, Shelved, Existing
<1>2. /\ holders' = [g \in Holders |-> holders'[g]] /\ holders'[h] = link
      /\ \A g \in Holders \ {h} : holders'[g] = holders[g]
  BY DEF Linked, Rows
<1>3. ASSUME NEW g \in Holders PROVE RowSound(g)'
  <2>1. CASE g = h
    BY <1>1, <1>2, <2>1 DEF RowSound, Sound
  <2>2. CASE g # h
    BY <1>1, <1>2, <2>2 DEF RowSound, Sound, Linked, Rows
  <2>3. QED
    BY <2>1, <2>2
<1>4. QED
  BY <1>1, <1>2, <1>3 DEF Linked, Rows

(***************************************************************************)
(* Deleting a target takes it out of every row.                            *)
(***************************************************************************)
LEMMA LinkedUnlink ==
  ASSUME Linked, NEW target, Unlink(target), UNCHANGED form, Shelved',
         Existing \ {target} \subseteq Existing'
  PROVE  Linked'
<1>1. ASSUME NEW h \in Holders PROVE RowSound(h)'
  <2>1. RowSound(h)
    BY DEF Linked, Rows
  <2>2. holders'[h] = IF holders[h] = Gone THEN Gone
                      ELSE [holders[h] EXCEPT !.targets = @ \ {target}]
    BY DEF Unlink
  <2>3. CASE holders[h] = Gone
    BY <2>2, <2>3 DEF RowSound
  <2>4. CASE holders[h] # Gone
    <3>1. /\ holders'[h] \in Link /\ Sound(h, holders'[h])
          /\ holders'[h].targets = holders[h].targets \ {target}
      BY <2>1, <2>2, <2>4, UnlinkSound DEF RowSound
    <3>2. QED
      BY <2>1, <2>4, <3>1 DEF RowSound, Sound
  <2>5. QED
    BY <2>3, <2>4
<1>2. holders' = [h \in Holders |-> holders'[h]]
  BY DEF Unlink
<1>3. Prepared'
  BY DEF Linked, Prepared, FormSound, Sound, IdleForm
<1>4. QED
  BY <1>1, <1>2, <1>3 DEF Linked, Rows

(***************************************************************************)
(* An update prepares what is sound, whatever it takes from the row.       *)
(***************************************************************************)
LEMMA LinkedStart ==
  ASSUME Linked, NEW f \in Forms, NEW h \in Holders, NEW sent,
         NEW list \in (SUBSET TargetsOf[KindReceived(h, sent)]) \cup {Unsent},
         StartUpdate(f, h, sent, list), UNCHANGED products
  PROVE  Linked'
<1> DEFINE kind == KindReceived(h, sent)
           ids == IF list = Unsent THEN holders[h].targets ELSE list
           link == Normalized(kind, ids)
           new == [holder |-> h, sent |-> sent, link |-> link]
<1>1. /\ holders[h] # Gone /\ kind \in KindsOf(h) /\ Acceptable(kind, ids)
      /\ list = Unsent => kind \in Everything \cup {holders[h].kind}
      /\ form' = [form EXCEPT ![f] = new]
      /\ UNCHANGED <<holders, categories, closed>>
  BY DEF StartUpdate
<1>2. kind \in Single => IsFiniteSet(ids)
  <2> SUFFICES ASSUME kind \in Single PROVE IsFiniteSet(ids)
    OBVIOUS
  <2>1. kind \in DOMAIN TargetsOf /\ IsFiniteSet(TargetsOf[kind]) /\ kind \notin Everything
    BY <1>1, Targets DEF Everything, Single
  <2>2. ids \subseteq TargetsOf[kind]
    <3>1. CASE list = Unsent
      <4>1. kind = holders[h].kind /\ RowSound(h)
        BY <1>1, <2>1, <3>1 DEF Linked, Rows
      <4>2. QED
        BY <1>1, <3>1, <4>1 DEF RowSound, Sound
    <3>2. CASE list # Unsent
      BY <3>2
    <3>3. QED
      BY <3>1, <3>2
  <2> HIDE DEF ids, kind
  <2>3. QED
    BY <2>1, <2>2, FS_Subset
<1>3. link \in Link /\ Sound(h, link)
  BY <1>1, <1>2, NormalizedSound
<1>4. /\ form' = [g \in Forms |-> form'[g]] /\ form'[f] = new
      /\ \A g \in Forms \ {f} : form'[g] = form[g]
  <2> HIDE DEF new
  <2>1. QED
    BY <1>1 DEF Linked, Prepared
<1>5. ASSUME NEW g \in Forms PROVE FormSound(g)'
  <2>1. CASE g = f
    BY <1>3, <1>4, <2>1 DEF FormSound, Sound
  <2>2. CASE g # f
    BY <1>4, <2>2 DEF FormSound, Sound, IdleForm, Linked, Prepared
  <2>3. QED
    BY <2>1, <2>2
<1>6. Rows' /\ Shelved'
  BY <1>1 DEF Linked, Rows, RowSound, Sound, Existing, Shelved
<1>7. QED
  BY <1>4, <1>5, <1>6 DEF Linked, Prepared

(***************************************************************************)
(* It writes what it prepared if the row and the targets are still there.  *)
(***************************************************************************)
LEMMA LinkedFinish ==
  ASSUME Linked, NEW f \in Forms, WriteUpdate(f), UNCHANGED products
  PROVE  Linked'
<1> DEFINE h == form[f].holder
           link == form[f].link
<1>1. /\ form[f] # IdleForm /\ UNCHANGED <<categories, closed>>
      /\ form' = [form EXCEPT ![f] = IdleForm]
      /\ holders' = IF holders[h] # Gone /\ link.targets \subseteq Existing
                    THEN [holders EXCEPT ![h] = link] ELSE holders
  BY DEF WriteUpdate
<1>2. h \in Holders /\ link \in Link /\ Sound(h, link)
  BY <1>1 DEF Linked, Prepared, FormSound
<1>3. Prepared'
  <2>1. /\ form' = [g \in Forms |-> form'[g]] /\ form'[f] = IdleForm
        /\ \A g \in Forms \ {f} : form'[g] = form[g]
    <3> HIDE DEF IdleForm
    <3>1. QED
      BY <1>1 DEF Linked, Prepared
  <2>2. ASSUME NEW g \in Forms PROVE FormSound(g)'
    BY <2>1 DEF FormSound, Sound, IdleForm, Linked, Prepared
  <2>3. QED
    BY <2>1, <2>2 DEF Prepared
<1>4. CASE holders[h] # Gone /\ link.targets \subseteq Existing
  <2> HIDE DEF h, link
  <2>1. QED
    BY <1>1, <1>2, <1>3, <1>4, LinkedWrite
<1>5. CASE ~(holders[h] # Gone /\ link.targets \subseteq Existing)
  BY <1>1, <1>3, <1>5 DEF Linked, Rows, RowSound, Sound, Existing, Shelved
<1>6. QED
  BY <1>4, <1>5

(***************************************************************************)
(* Every step keeps rows and what was prepared for them sound.             *)
(***************************************************************************)
LEMMA LinkedStep == Linked /\ [Next]_vars => Linked'
<1> SUFFICES ASSUME Linked, [Next]_vars PROVE Linked'
  OBVIOUS
<1>1. ASSUME NEW h \in Holders, NEW kind \in DOMAIN TargetsOf,
             NEW list \in SUBSET TargetsOf[kind], CreateHolder(h, kind, list),
             UNCHANGED products
      PROVE  Linked'
  <2> DEFINE link == Normalized(kind, list)
  <2>1. /\ kind \in KindsOf(h) /\ Acceptable(kind, list)
        /\ list \cap TargetsOf[kind] \subseteq Existing
        /\ holders' = [holders EXCEPT ![h] = link] /\ UNCHANGED <<categories, closed, form>>
    BY <1>1 DEF CreateHolder
  <2>2. kind \in Single => IsFiniteSet(list)
    BY Targets, FS_Subset
  <2>3. link \in Link /\ Sound(h, link) /\ link.targets \subseteq Existing
    BY <2>1, <2>2, NormalizedSound
  <2>4. Prepared'
    BY <2>1 DEF Linked, Prepared, FormSound, Sound, IdleForm
  <2> HIDE DEF link
  <2>5. QED
    BY <1>1, <2>1, <2>3, <2>4, LinkedWrite
<1>2. ASSUME NEW h \in Holders, RemoveHolder(h), UNCHANGED products PROVE Linked'
  <2>1. Prepared' /\ holders' = [holders EXCEPT ![h] = Gone] /\ UNCHANGED <<categories, closed>>
    BY <1>2 DEF RemoveHolder, Linked, Prepared, FormSound, Sound, IdleForm
  <2>2. QED
    BY <1>2, <2>1, LinkedWrite
<1>3. ASSUME NEW c \in Categories, RemoveCategory(c), UNCHANGED products PROVE Linked'
  <2>1. Shelved' /\ Existing \ {c} \subseteq Existing'
    BY <1>3 DEF RemoveCategory, Linked, Shelved, Existing
  <2>2. QED
    BY <1>3, <2>1, LinkedUnlink DEF RemoveCategory
<1>4. ASSUME NEW c \in Categories, CloseCategory(c), UNCHANGED products PROVE Linked'
  <2>1. Shelved' /\ Existing' = Existing
    BY <1>4 DEF CloseCategory, Linked, Shelved, Existing
  <2>2. QED
    BY <1>4, <2>1, LinkedQuiet DEF CloseCategory
<1>5. CASE LinkRequest
  BY <1>1, <1>2, <1>3, <1>4, <1>5, LinkedStart DEF LinkRequest, shelfVars, productVars
<1>6. ASSUME NEW p \in Products, DeleteProduct(p), Unlink(p),
             UNCHANGED <<categories, closed, form>>
      PROVE  Linked'
  <2>1. Shelved' /\ Existing \ {p} \subseteq Existing'
    BY <1>6 DEF DeleteProduct, Linked, Shelved, Existing
  <2>2. QED
    BY <1>6, <2>1, LinkedUnlink
<1>7. ASSUME NEW p \in Products, CategoryOf[p] \in categories, CreateProduct(p),
             UNCHANGED linkVars
      PROVE  Linked'
  <2>1. Shelved' /\ Existing \subseteq Existing'
    BY <1>7 DEF CreateProduct, Linked, Shelved, Existing, linkVars
  <2>2. QED
    BY <1>7, <2>1, LinkedQuiet DEF linkVars
<1>8. ASSUME UNCHANGED <<products, linkVars>> PROVE Linked'
  <2>1. Shelved' /\ Existing' = Existing
    BY <1>8 DEF Linked, Shelved, Existing, linkVars
  <2>2. QED
    BY <1>8, <2>1, LinkedQuiet DEF linkVars
<1>9. CASE ShelfRequest
  <2>1. ASSUME \/ \E p \in Products : HideProduct(p)
               \/ \E s \in ReviewSlots, p \in Products, n \in Stars : StartReview(s, p, n)
               \/ \E s \in WishSlots, p \in Products : StartToggle(s, p)
               \/ TurnPage \/ NextHour
        PROVE  UNCHANGED products
    BY <2>1 DEF HideProduct, StartReview, StartToggle, TurnPage, NextHour, productVars
  <2>2. QED
    BY <1>6, <1>7, <1>8, <1>9, <2>1 DEF ShelfRequest
<1>10. CASE GoOn
  <2>1. ASSUME \/ \E s \in ReviewSlots : WriteReview(s) \/ ReadAverage(s) \/ WriteRating(s)
               \/ \E s \in WishSlots : Toggle(s)
               \/ TurnPage \/ LeaveShop
        PROVE  UNCHANGED products
    BY <2>1 DEF WriteReview, ReadAverage, WriteRating, Toggle, TurnPage, LeaveShop, productVars
  <2>2. QED
    BY <1>8, <1>10, <2>1, LinkedFinish DEF GoOn, shelfVars, productVars
<1>11. CASE UNCHANGED vars
  BY <1>8, <1>11 DEF vars, shelfVars, productVars
<1>12. QED
  BY <1>5, <1>9, <1>10, <1>11 DEF Next, Request

(***************************************************************************)
(* The links of banners and promo codes are of the kind the row names and  *)
(* lead to what exists, whatever is deleted while an update is under way.  *)
(***************************************************************************)
THEOREM LinksStay == Spec => []LinksTypeOK
<1>1. Init => Linked
  <2> SUFFICES ASSUME Init PROVE Linked
    OBVIOUS
  <2>1. Rows /\ Prepared
    BY DEF Init, InitLinks, Rows, RowSound, Prepared, FormSound
  <2>2. products \subseteq Products /\ categories = Categories /\ closed = {}
    BY DEF Init, InitShelf, InitLinks
  <2>3. Shelved
    BY <2>2, LinksAssumption DEF Shelved
  <2>4. QED
    BY <2>1, <2>3 DEF Linked
<1>2. Linked => LinksTypeOK
  <2>1. Rows => holders \in [Holders -> Link \cup {Gone}]
    BY DEF Rows, RowSound
  <2>2. QED
    BY <2>1 DEF Linked, Rows, RowSound, Prepared, FormSound, Shelved, Sound, LinksTypeOK
<1>3. QED
  BY <1>1, <1>2, LinkedStep, PTL DEF Spec
-----------------------------------------------------------------------------
(***************************************************************************)
(* A step that does not touch reviews or ratings, and that deletes no      *)
(* product, changes nothing of this.                                       *)
(***************************************************************************)
LEMMA RatedQuiet ==
  ASSUME Rated, UNCHANGED ratingVars, products \subseteq products', products' \subseteq Products
  PROVE  Rated'
<1>1. Shaped'
  BY DEF Rated, Shaped, ratingVars
<1>2. ASSUME NEW p \in Calm \cap Products PROVE Followed(p)'
  <2>1. Followed(p)
    BY DEF Rated
  <2>2. QED
    BY <2>1 DEF Followed, Average, ratingVars
<1>3. QED
  BY <1>1, <1>2 DEF Rated

(***************************************************************************)
(* A review begins on a product in the shop, alone if the product is calm. *)
(***************************************************************************)
LEMMA RatedStart ==
  ASSUME Rated, NEW s \in ReviewSlots, NEW p \in Products, NEW n \in Stars, StartReview(s, p, n)
  PROVE  Rated'
<1>1. /\ UNCHANGED <<products, reviews, rating>> /\ p \in products /\ p # 0
      /\ review[s].step = "idle" /\ review[s].product = 0
      /\ p \in Calm => \A r \in ReviewSlots : review[r].product # p
  BY ShelfAssumption DEF StartReview, productVars, Rated, Shaped
<1>2. PICK step \in {"create", "delete"} :
        review' = [review EXCEPT ![s] =
                     [step |-> step, product |-> p, stars |-> n, found |-> None]]
  BY DEF StartReview
<1>3. /\ review'[s] = [step |-> step, product |-> p, stars |-> n, found |-> None]
      /\ review' = [r \in ReviewSlots |-> review'[r]]
      /\ \A r \in ReviewSlots \ {s} : review'[r] = review[r]
  BY <1>2 DEF Rated, Shaped
<1>4. Shaped'
  BY <1>1, <1>3 DEF Rated, Shaped, ReviewSteps
<1>5. ASSUME NEW q \in Calm \cap Products PROVE Followed(q)'
  <2>1. Followed(q) /\ q # 0
    BY ShelfAssumption DEF Rated
  <2>2. Average(q)' = Average(q)
    BY <1>1 DEF Average
  <2>3. CASE q = p
    BY <1>1, <1>3, <2>1, <2>2, <2>3 DEF Followed
  <2>4. CASE q # p
    BY <1>1, <1>3, <2>1, <2>2, <2>4 DEF Followed
  <2>5. QED
    BY <2>3, <2>4
<1>6. QED
  BY <1>4, <1>5 DEF Rated

(***************************************************************************)
(* What a review under way may do keeps the other slots, and the products. *)
(***************************************************************************)
LEMMA RatedGoesOn ==
  ASSUME Rated, NEW s \in ReviewSlots, WriteReview(s) \/ ReadAverage(s) \/ WriteRating(s)
  PROVE  Rated'
<1> DEFINE p == review[s].product
<1>1. /\ UNCHANGED products /\ review[s].step # "idle" /\ p # 0
      /\ reviews = [q \in Products |-> reviews[q]] /\ rating = [q \in Products |-> rating[q]]
      /\ review[s] = [step |-> review[s].step, product |-> p,
                      stars |-> review[s].stars, found |-> review[s].found]
  BY DEF WriteReview, ReadAverage, WriteRating, productVars, Rated, Shaped
<1>2. /\ reviews' = [q \in Products |-> reviews'[q]]
      /\ \A q \in Products \ {p} : reviews'[q] = reviews[q]
  BY <1>1 DEF WriteReview, ReadAverage, WriteRating
<1>3. /\ rating' = [q \in Products |-> rating'[q]]
      /\ \A q \in Products \ {p} : rating'[q] = rating[q]
  BY <1>1 DEF WriteReview, ReadAverage, WriteRating
<1>4. /\ review' = [r \in ReviewSlots |-> review'[r]]
      /\ \A r \in ReviewSlots \ {s} : review'[r] = review[r]
  BY DEF WriteReview, ReadAverage, WriteRating, ReviewDone, Rated, Shaped
<1>5. \/ /\ review[s].step \in {"create", "delete"} /\ rating' = rating
         /\ review'[s] = [step |-> "average", product |-> p,
                          stars |-> review[s].stars, found |-> review[s].found]
      \/ /\ review[s].step \in {"create", "delete"} /\ rating' = rating /\ reviews' = reviews
         /\ review'[s] = IdleReview
      \/ /\ review[s].step = "average" /\ rating' = rating /\ reviews' = reviews
         /\ review'[s] = [step |-> "rating", product |-> p,
                          stars |-> review[s].stars, found |-> Average(p)]
      \/ /\ review[s].step = "rating" /\ reviews' = reviews
         /\ rating' = IF p \in products THEN [rating EXCEPT ![p] = review[s].found] ELSE rating
         /\ review'[s] = IdleReview
  <2>1. review = [r \in ReviewSlots |-> review[r]]
    BY DEF Rated, Shaped
  <2>2. CASE WriteReview(s)
    BY <1>1, <2>1, <2>2 DEF WriteReview, ReviewDone
  <2>3. CASE ReadAverage(s)
    BY <1>1, <2>1, <2>3 DEF ReadAverage
  <2>4. CASE WriteRating(s)
    BY <1>1, <2>1, <2>4 DEF WriteRating, ReviewDone
  <2>5. QED
    BY <2>2, <2>3, <2>4
<1>6. Shaped'
  BY <1>1, <1>2, <1>3, <1>4, <1>5 DEF Rated, Shaped, ReviewSteps, IdleReview
<1>7. ASSUME NEW q \in Calm \cap Products PROVE Followed(q)'
  <2>1. Followed(q) /\ q # 0
    BY ShelfAssumption DEF Rated
  <2>2. reviews'[q] = reviews[q] => Average(q)' = Average(q)
    BY DEF Average
  <2>3. CASE q # p
    <3>1. review'[s].product # q
      BY <1>5, <2>1, <2>3 DEF IdleReview
    <3>2. QED
      BY <1>1, <1>2, <1>3, <1>4, <2>1, <2>2, <2>3, <3>1 DEF Followed
  <2>4. CASE q = p
    <3>1. p \in products /\ \A r \in ReviewSlots \ {s} : review'[r].product # p
      BY <1>4, <2>1, <2>4 DEF Followed
    <3>2. QED
      BY <1>1, <1>5, <2>1, <2>2, <2>4, <3>1 DEF Followed, IdleReview
  <2>5. QED
    BY <2>3, <2>4
<1>8. QED
  BY <1>6, <1>7 DEF Rated

(***************************************************************************)
(* Up to five stars.                                                       *)
(***************************************************************************)
LEMMA StarsFinite == IsFiniteSet(Stars) /\ Stars \subseteq Nat
<1>1. PICK one \in Int, five \in Int : Stars \in SUBSET (one .. five)
  BY ShelfAssumption
<1>2. IsFiniteSet(one .. five)
  BY FS_Interval
<1>3. IsFiniteSet(Stars)
  BY <1>1, <1>2, FS_Subset, Zenon
<1>4. QED
  BY <1>3, ShelfAssumption

(***************************************************************************)
(* No reviews: a count and a sum of 0.                                     *)
(***************************************************************************)
LEMMA NothingReviewed == AverageOf(NoReviews) = None
<1>1. IsFiniteSet(Stars) /\ Stars \subseteq Nat
  BY StarsFinite
<1>2. \A s \in Stars : NoReviews[s] = 0 /\ [r \in Stars |-> r * NoReviews[r]][s] = 0
  BY <1>1 DEF NoReviews
<1>3. QED
  BY <1>1, <1>2, SumZero DEF AverageOf, None

(***************************************************************************)
(* A product that is deleted has nothing under way if it is calm; it       *)
(* leaves no reviews and no rating.                                        *)
(***************************************************************************)
LEMMA RatedDelete ==
  ASSUME Rated, NEW p \in Products, DeleteProduct(p)
  PROVE  Rated'
<1>1. /\ review' = review /\ products' = products \ {p}
      /\ p \in Calm => \A r \in ReviewSlots : review[r].product # p
      /\ reviews'[p] = NoReviews /\ rating'[p] = None
      /\ reviews' = [q \in Products |-> reviews'[q]] /\ rating' = [q \in Products |-> rating'[q]]
      /\ \A q \in Products \ {p} : reviews'[q] = reviews[q] /\ rating'[q] = rating[q]
  BY DEF DeleteProduct, Rated, Shaped
<1>2. Shaped'
  BY <1>1 DEF Rated, Shaped
<1>3. ASSUME NEW q \in Calm \cap Products PROVE Followed(q)'
  <2>1. Followed(q)
    BY DEF Rated
  <2>2. CASE q = p
    <3>1. rating'[q] = Average(q)'
      BY <1>1, <2>2, NothingReviewed DEF Average
    <3>2. QED
      BY <1>1, <2>2, <3>1 DEF Followed
  <2>3. CASE q # p
    <3>1. Average(q)' = Average(q)
      BY <1>1, <2>3 DEF Average
    <3>2. QED
      BY <1>1, <2>1, <2>3, <3>1 DEF Followed
  <2>4. QED
    BY <2>2, <2>3
<1>4. QED
  BY <1>2, <1>3 DEF Rated

(***************************************************************************)
(* The rating of a product with one review at a time is the average of its *)
(* reviews whenever none is being written.                                 *)
(***************************************************************************)
THEOREM RatingStays == Spec => []RatingInSync
<1>1. Init => Rated
  <2> SUFFICES ASSUME Init PROVE Rated
    OBVIOUS
  <2>1. Shaped
    BY DEF Init, InitShelf, Shaped, ReviewSteps, IdleReview
  <2>2. ASSUME NEW p \in Calm \cap Products PROVE Followed(p)
    <3>1. rating[p] = Average(p)
      BY NothingReviewed DEF Init, InitShelf, Average
    <3>2. \A s \in ReviewSlots : review[s].product = 0
      BY DEF Init, InitShelf, IdleReview
    <3>3. QED
      BY <3>1, <3>2, ShelfAssumption DEF Followed
  <2>3. QED
    BY <2>1, <2>2 DEF Rated
<1>2. Rated /\ [Next]_vars => Rated'
  <2> SUFFICES ASSUME Rated, [Next]_vars PROVE Rated'
    OBVIOUS
  <2>1. products \subseteq Products
    BY DEF Rated, Shaped
  <2>2. CASE \/ LinkRequest \/ UNCHANGED vars
             \/ \E f \in Forms : WriteUpdate(f) /\ UNCHANGED shelfVars
    BY <2>1, <2>2, RatedQuiet DEF LinkRequest, shelfVars, productVars, vars
  <2>3. CASE ShelfRequest
    <3>1. ASSUME NEW p \in Products, CreateProduct(p) \/ HideProduct(p) PROVE Rated'
      BY <2>1, <3>1, RatedQuiet DEF CreateProduct, HideProduct
    <3>2. ASSUME \/ \E s \in WishSlots, p \in Products : StartToggle(s, p)
                 \/ TurnPage \/ NextHour
          PROVE  Rated'
      BY <2>1, <3>2, RatedQuiet DEF StartToggle, TurnPage, NextHour, productVars
    <3>3. QED
      BY <2>3, <3>1, <3>2, RatedStart, RatedDelete DEF ShelfRequest
  <2>4. CASE \E s \in ReviewSlots : WriteReview(s) \/ ReadAverage(s) \/ WriteRating(s)
    BY <2>4, RatedGoesOn
  <2>5. CASE (\E s \in WishSlots : Toggle(s)) \/ TurnPage \/ LeaveShop
    BY <2>1, <2>5, RatedQuiet DEF Toggle, TurnPage, LeaveShop, productVars
  <2>6. QED
    BY <2>2, <2>3, <2>4, <2>5 DEF Next, Request, GoOn
<1>3. Rated => RatingInSync
  <2> SUFFICES ASSUME Rated, NEW p \in Calm \cap products,
                      \A s \in ReviewSlots : review[s].product # p
               PROVE  rating[p] = Average(p)
    BY DEF RatingInSync
  <2>1. Followed(p)
    BY DEF Rated, Shaped
  <2>2. QED
    BY <2>1 DEF Followed
<1>4. QED
  BY <1>1, <1>2, <1>3, PTL DEF Spec
-----------------------------------------------------------------------------
(***************************************************************************)
(* Math.round of a quotient of natural numbers is a natural number.        *)
(***************************************************************************)
LEMMA RoundedNat ==
  ASSUME NEW n \in Nat, NEW d \in Nat \ {0}
  PROVE  Rounded(n, d) \in Nat
<1>1. ASSUME NEW m \in Nat, NEW k \in Nat \ {0} PROVE m \div k \in Nat
  BY <1>1
<1>2. 2 * n + d \in Nat /\ 2 * d \in Nat \ {0}
  OBVIOUS
<1>3. QED
  BY <1>1, <1>2 DEF Rounded

(***************************************************************************)
(* A division of natural numbers leaves out no more than a remainder.        *)
(***************************************************************************)
LEMMA DivisionStops ==
  ASSUME NEW n \in Nat, NEW d \in Nat \ {0}
  PROVE  n \div d \in Nat /\ d * (n \div d) <= n
OBVIOUS

(***************************************************************************)
(* A factor can be left out on both sides.                                   *)
(***************************************************************************)
LEMMA Cancelled ==
  ASSUME NEW h \in Nat \ {0}, NEW a \in Int, NEW b \in Int, h * a <= h * b
  PROVE  a <= b
<1>1. ASSUME b < a PROVE FALSE
  <2>1. PICK c \in Nat : a = b + c + 1
    <3>1. a - b - 1 \in Nat /\ a = b + (a - b - 1) + 1
      BY <1>1
    <3>2. QED
      BY <3>1
  <2>2. h * a = h * b + h * c + h
    BY <2>1
  <2>3. h * c \in Nat
    OBVIOUS
  <2>4. h * b \in Int /\ h * a \in Int
    OBVIOUS
  <2>5. QED
    BY <2>2, <2>3, <2>4
<1>2. QED
  BY <1>1

(***************************************************************************)
(* What is rounded to whole so'm passes what it was limited to by half a     *)
(* so'm at the most.                                                         *)
(***************************************************************************)
LEMMA RoundedKeeps ==
  ASSUME NEW u \in Nat \ {0}, NEW h \in Nat \ {0}, NEW limit \in Nat, NEW raw \in Nat,
         raw <= limit * h
  PROVE  /\ Rounded(raw, h * u) \in Nat
         /\ 2 * (u * Rounded(raw, h * u)) <= 2 * limit + u
<1> DEFINE q == Rounded(raw, h * u)
<1>1. PICK d \in Nat \ {0} : d = h * u
  OBVIOUS
<1>2. q \in Nat /\ (2 * d) * q <= 2 * raw + d
  <2>1. q = (2 * raw + d) \div (2 * d)
    BY <1>1 DEF Rounded
  <2>2. 2 * raw + d \in Nat /\ 2 * d \in Nat \ {0}
    OBVIOUS
  <2>3. QED
    BY <2>1, <2>2, DivisionStops
<1> HIDE DEF q
<1>3. h * (2 * (u * q)) = (2 * d) * q
  BY <1>1, <1>2
<1>4. h * (2 * limit + u) = 2 * (limit * h) + d
  BY <1>1
<1>5. u * q \in Nat /\ limit * h \in Nat
  BY <1>2
<1>6. h * (2 * (u * q)) <= h * (2 * limit + u)
  BY <1>2, <1>3, <1>4, <1>5
<1>7. 2 * (u * q) <= 2 * limit + u
  BY <1>5, <1>6, Cancelled
<1>8. QED
  BY <1>2, <1>7 DEF q

(***************************************************************************)
(* And a limit in whole so'm it does not pass.                               *)
(***************************************************************************)
LEMMA WholeLimit ==
  ASSUME NEW u \in Nat \ {0}, NEW q \in Nat, NEW limit \in Nat, limit % u = 0,
         2 * (u * q) <= 2 * limit + u
  PROVE  u * q <= limit
<1>1. PICK k \in Nat : k = limit \div u
  OBVIOUS
<1>2. limit = u * k
  BY <1>1
<1>3. ASSUME k < q PROVE FALSE
  <2>1. q - k - 1 \in Nat
   BY <1>3
  <2>2. PICK c \in Nat : q = k + c + 1
    BY <2>1
  <2>3. u * q = u * k + u * c + u
    BY <2>2
  <2>4. u * c \in Nat /\ u * k \in Nat
    OBVIOUS
  <2>5. QED
    BY <1>2, <2>3, <2>4
<1>4. q <= k
  BY <1>3
<1>5. u * q <= u * k
  BY <1>4
<1>6. QED
  BY <1>2, <1>5

(***************************************************************************)
(* A price is a natural number, whichever of the three rules finds it.     *)
(***************************************************************************)
LEMMA UnitPriceNat ==
  ASSUME NEW p \in PricedProducts, NEW size \in Sizes
  PROVE  UnitPrice(p, size) \in Nat
<1>1. Volumes(p) \subseteq Nat \ {0}
  BY PricingAssumption DEF Volumes
<1>2. BaseVolume(p) \in Nat
  <2>1. CASE Volumes(p) = {}
    BY <2>1 DEF BaseVolume
  <2>2. CASE Volumes(p) # {}
    BY <1>1, <2>2, MinOfNaturals DEF BaseVolume
  <2>3. QED
    BY <2>1, <2>2
<1>3. ProductPrice[p] \in Nat /\ Volume[size] \in Nat
  BY PricingAssumption
<1>4. ProductPrice[p] * Volume[size] \in Nat
  BY <1>3
<1>5. BaseVolume(p) > 0
      => Unit * Rounded(ProductPrice[p] * Volume[size], BaseVolume(p) * Unit) \in Nat
  <2> SUFFICES ASSUME BaseVolume(p) > 0
               PROVE  Unit * Rounded(ProductPrice[p] * Volume[size], BaseVolume(p) * Unit) \in Nat
    OBVIOUS
  <2>1. Unit \in Nat \ {0}
    BY PricingAssumption
  <2>2. BaseVolume(p) * Unit \in Nat \ {0}
    BY <1>2, <2>1
  <2>3. Rounded(ProductPrice[p] * Volume[size], BaseVolume(p) * Unit) \in Nat
    BY <1>4, <2>2, RoundedNat
  <2>4. QED
    BY <2>1, <2>3
<1>6. <<p, size>> \in DOMAIN OwnPrice => OwnPrice[<<p, size>>] \in Nat
  BY PricingAssumption
<1>7. QED
  BY <1>3, <1>5, <1>6 DEF UnitPrice

(***************************************************************************)
(* What a basket costs is a natural number.                                *)
(***************************************************************************)
LEMMA AmountNat ==
  ASSUME NEW items \in SUBSET Item, IsFiniteSet(items)
  PROVE  Amount(items) \in Nat
<1> DEFINE cost == [i \in items |-> UnitPrice(i.product, i.size) * i.quantity]
<1>1. ASSUME NEW i \in items PROVE cost[i] \in Nat
  <2>1. i.product \in PricedProducts /\ i.size \in Sizes /\ i.quantity \in Nat
    BY DEF Item
  <2>2. UnitPrice(i.product, i.size) \in Nat
    BY <2>1, UnitPriceNat
  <2>3. QED
    BY <2>1, <2>2
<1> HIDE DEF cost
<1>2. SumOf(items, cost) \in Nat
  BY <1>1, SumNat
<1>3. QED
  BY <1>2 DEF Amount, cost

(***************************************************************************)
(* Rounded to whole so'm and kept to the total, an amount passes a limit     *)
(* by no more than Keeps allows.                                             *)
(***************************************************************************)
LEMMA SettledKeeps ==
  ASSUME NEW raw \in Nat, NEW total \in Nat
  PROVE  /\ Settled(raw, total) \in Nat
         /\ Settled(raw, total) <= total
         /\ \A limit \in Nat : raw <= limit * Hundred => Keeps(Settled(raw, total), limit)
<1>1. Unit \in Nat \ {0} /\ Hundred \in Nat \ {0}
  BY PricingAssumption DEF Hundred
<1>2. PICK q : q = Rounded(raw, Hundred * Unit)
  OBVIOUS
<1>3. Hundred * Unit \in Nat \ {0}
  BY <1>1
<1>4. q \in Nat
  BY <1>2, <1>3, RoundedNat
<1>5. Unit * q \in Nat
  BY <1>1, <1>4
<1>6. Settled(raw, total) = SmallerOf(Unit * q, total)
  BY <1>2 DEF Settled
<1>7. Settled(raw, total) \in Nat /\ Settled(raw, total) <= total /\ Settled(raw, total) <= Unit * q
  BY <1>5, <1>6 DEF SmallerOf
<1>8. ASSUME NEW limit \in Nat, raw <= limit * Hundred
      PROVE  Keeps(Settled(raw, total), limit)
  <2>1. 2 * (Unit * q) <= 2 * limit + Unit
    BY <1>1, <1>2, <1>8, RoundedKeeps
  <2>2. limit % Unit = 0 => Unit * q <= limit
    BY <1>1, <1>4, <2>1, WholeLimit
  <2>3. PICK settled \in Nat : settled = Settled(raw, total) /\ settled <= Unit * q
    BY <1>7
  <2>4. ASSUME limit % Unit = 0 PROVE settled <= limit
    <3>1. PICK most \in Nat : most = Unit * q /\ most <= limit
      BY <1>5, <2>2, <2>4
    <3>2. QED
      BY <2>3, <3>1
  <2>5. 2 * settled <= 2 * limit + Unit
    <3>1. PICK most \in Nat : most = Unit * q
      BY <1>5
    <3>2. QED
      BY <1>1, <2>1, <2>3, <3>1
  <2>6. Keeps(settled, limit)
    BY <2>4, <2>5 DEF Keeps
  <2>7. QED
    BY <2>3, <2>6
<1>9. QED
  BY <1>7, <1>8

(***************************************************************************)
(* Whatever the terms of a code and the amounts of a basket, the discount    *)
(* is within the total; and it keeps to the cap and, short of more than a    *)
(* hundred per cent, to what the code is good for, up to the rounding that   *)
(* comes after them.                                                         *)
(***************************************************************************)
LEMMA DiscountLimits ==
  ASSUME NEW t \in Terms, NEW eligible \in Nat, NEW total \in Nat
  PROVE  /\ Discount(t, eligible, total) \in Nat
         /\ Discount(t, eligible, total) <= total
         /\ t.cap > 0 => Keeps(Discount(t, eligible, total), t.cap)
         /\ t.type = "AMOUNT" \/ t.value <= Hundred
              => Keeps(Discount(t, eligible, total), eligible)
<1>1. t.value \in Nat /\ t.cap \in Nat
  BY DEF Terms
<1>2. Hundred \in Nat
  BY PricingAssumption DEF Hundred
<1>3. PICK raw \in Nat :
        /\ raw = IF t.type = "AMOUNT" THEN SmallerOf(t.value, eligible) * Hundred
                 ELSE eligible * t.value
        /\ t.type = "AMOUNT" \/ t.value <= Hundred => raw <= eligible * Hundred
  <2>1. PICK v \in Nat : v = t.value
    BY <1>1
  <2>2. CASE t.type = "AMOUNT"
    <3>1. PICK s \in Nat : s = SmallerOf(t.value, eligible) /\ s <= eligible
      BY <1>1 DEF SmallerOf
    <3>2. s * Hundred \in Nat /\ s * Hundred <= eligible * Hundred
      BY <1>2, <3>1
    <3>3. QED
      BY <2>2, <3>1, <3>2
  <2>3. CASE t.type # "AMOUNT"
    <3>1. eligible * v \in Nat
      OBVIOUS
    <3>2. v <= Hundred => eligible * v <= eligible * Hundred
      BY <1>2
    <3>3. QED
      BY <2>1, <2>3, <3>1, <3>2
  <2>4. QED
    BY <2>2, <2>3
<1>4. PICK capped \in Nat : /\ capped = Capped(t, raw) /\ capped <= raw
                            /\ t.cap > 0 => capped <= t.cap * Hundred
  <2>1. PICK limit \in Nat : limit = t.cap * Hundred
    BY <1>1, <1>2
  <2>2. QED
    BY <2>1 DEF Capped, SmallerOf
<1>5. PICK discount : discount = Settled(capped, total)
  OBVIOUS
<1>6. Discount(t, eligible, total) = discount
  BY <1>3, <1>4, <1>5 DEF Discount
<1>7. /\ discount \in Nat /\ discount <= total
      /\ \A limit \in Nat : capped <= limit * Hundred => Keeps(discount, limit)
  BY <1>5, SettledKeeps
<1>8. t.type = "AMOUNT" \/ t.value <= Hundred => capped <= eligible * Hundred
  <2>1. eligible * Hundred \in Nat
    BY <1>2
  <2>2. QED
    BY <1>3, <1>4, <2>1
<1>9. QED
  BY <1>1, <1>4, <1>6, <1>7, <1>8

(***************************************************************************)
(* The discount of any code on any basket is at least nothing and at most    *)
(* the total (comment in evaluate); and it keeps to its cap and, for an      *)
(* amount or up to a hundred per cent, to what the items cost that the code  *)
(* is good for, except for what Math.round adds when that is not in whole    *)
(* so'm. It is the arithmetic that says so, in every state.                  *)
(***************************************************************************)
THEOREM DiscountsBounded == Spec => []DiscountBounded
<1>1. ASSUME NEW h \in Promos, NEW b \in Baskets
      PROVE  LET t == TermsOf[h]
                 e == Evaluate(h, b)
             IN  /\ 0 <= e.discount /\ 0 <= e.total
                 /\ t.cap > 0 => Keeps(e.discount, t.cap)
                 /\ t.type = "AMOUNT" \/ t.value <= Hundred => Keeps(e.discount, e.eligible)
  <2> DEFINE t == TermsOf[h]
             good == {i \in b : InScope(h, i)}
             total == Amount(b)
             eligible == Amount(good)
             valid == b # {} /\ total >= t.minimum /\ eligible > 0
             discount == IF valid THEN Discount(t, eligible, total) ELSE 0
             e == Evaluate(h, b)
  <2>1. b \in SUBSET Item /\ IsFiniteSet(b) /\ good \in SUBSET Item /\ IsFiniteSet(good)
        /\ t \in Terms /\ t.cap \in Nat
    BY EvaluationAssumption, FS_Subset DEF Terms
  <2>2. total \in Nat /\ eligible \in Nat
    BY <2>1, AmountNat
  <2>3. e.discount = discount /\ e.total = total - discount /\ e.eligible = eligible
    BY DEF Evaluate
  <2> HIDE DEF t, good, total, eligible, e
  <2>4. /\ discount \in Nat /\ discount <= total
        /\ t.cap > 0 => Keeps(discount, t.cap)
        /\ t.type = "AMOUNT" \/ t.value <= Hundred => Keeps(discount, eligible)
    <3>1. /\ Discount(t, eligible, total) \in Nat
          /\ Discount(t, eligible, total) <= total
          /\ t.cap > 0 => Keeps(Discount(t, eligible, total), t.cap)
          /\ t.type = "AMOUNT" \/ t.value <= Hundred
               => Keeps(Discount(t, eligible, total), eligible)
      BY <2>1, <2>2, DiscountLimits
    <3> HIDE DEF valid
    <3>2. CASE valid
      BY <3>1, <3>2
    <3>3. CASE ~valid
      <4>1. ASSUME NEW limit \in Nat PROVE Keeps(0, limit)
        BY PricingAssumption DEF Keeps
      <4>2. discount = 0
        BY <3>3
      <4>3. QED
        BY <2>1, <2>2, <4>1, <4>2
    <3>4. QED
      BY <3>2, <3>3
  <2> HIDE DEF discount
  <2>5. /\ 0 <= e.discount /\ 0 <= e.total
        /\ t.cap > 0 => Keeps(e.discount, t.cap)
        /\ t.type = "AMOUNT" \/ t.value <= Hundred => Keeps(e.discount, e.eligible)
    BY <2>2, <2>3, <2>4
  <2>6. QED
    BY <2>5 DEF t, e
<1>2. DiscountBounded
  BY <1>1 DEF DiscountBounded
<1>3. QED
  BY <1>2, PTL
-----------------------------------------------------------------------------
\* The lists that hold each member of a set once.
Orderings(V) ==
  {l \in [1 .. Cardinality(V) -> V] :
     \A a, b \in 1 .. Cardinality(V) : l[a] = l[b] => a = b}

(***************************************************************************)
(* The list a query returns holds each row once.                           *)
(***************************************************************************)
LEMMA QueryOrders ==
  ASSUME NEW V, IsFiniteSet(V)
  PROVE  SetToSeq(V) \in Orderings(V)
<1>1. \E f \in [1 .. Cardinality(V) -> V] : IsInjective(f)
  <2>1. PICK f \in Bijection(1 .. Cardinality(V), V) : TRUE
    BY FS_CardinalityType DEF ExistsBijection
  <2>2. f \in [1 .. Cardinality(V) -> V] /\ IsInjective(f)
    BY DEF Bijection, Injection, IsInjective
  <2>3. QED
    BY <2>2
<1>2. SetToSeq(V) \in [1 .. Cardinality(V) -> V] /\ IsInjective(SetToSeq(V))
  BY <1>1 DEF SetToSeq
<1>3. QED
  BY <1>2 DEF Orderings, IsInjective

(***************************************************************************)
(* Each member of the set is in such a list.                               *)
(***************************************************************************)
LEMMA OrderingIsOnto ==
  ASSUME NEW V, IsFiniteSet(V), NEW l \in Orderings(V)
  PROVE  ToSet(l) = V /\ l \in Seq(V) /\ Len(l) = Cardinality(V)
<1> DEFINE n == Cardinality(V)
<1>1. n \in Nat
  BY FS_CardinalityType
<1>2. l \in Injection(1 .. n, V)
  BY DEF Orderings, Injection, IsInjective
<1>3. Cardinality(1 .. n) = n
  BY <1>1, FS_Interval
<1>4. l \in Surjection(1 .. n, V)
  BY <1>2, <1>3, FS_Injection
<1>5. l \in [1 .. n -> V]
  BY DEF Orderings
<1> HIDE DEF n
<1>6. ToSet(l) = V
  BY <1>4, <1>5 DEF ToSet, Surjection
<1>7. l \in Seq(V) /\ Len(l) = n
  BY <1>1, <1>5
<1>8. QED
  BY <1>6, <1>7 DEF n

(***************************************************************************)
(* Exchanging two rows of such a list keeps it one.                        *)
(***************************************************************************)
LEMMA SwapOrders ==
  ASSUME NEW V, NEW l \in Orderings(V),
         NEW i \in 1 .. Cardinality(V), NEW j \in 1 .. Cardinality(V)
  PROVE  Swapped(l, i, j) \in Orderings(V)
<1> DEFINE n == Cardinality(V)
           m == Swapped(l, i, j)
<1>1. l \in [1 .. n -> V] /\ \A a, b \in 1 .. n : l[a] = l[b] => a = b
  BY DEF Orderings
<1>2. i \in 1 .. n /\ j \in 1 .. n
  OBVIOUS
<1> HIDE DEF n
<1>3. m \in [1 .. n -> V]
  BY <1>1, <1>2 DEF Swapped
<1>4. \A a \in 1 .. n : m[a] = IF a = j THEN l[i] ELSE IF a = i THEN l[j] ELSE l[a]
  BY <1>1, <1>2 DEF Swapped
<1> HIDE DEF m
<1>5. \A a, b \in 1 .. n : m[a] = m[b] => a = b
  BY <1>1, <1>2, <1>4
<1>6. QED
  BY <1>3, <1>5 DEF Orderings, n, m

(***************************************************************************)
(* The random order of the shop is an order of the visible products:       *)
(* whatever is drawn, the shuffle neither loses nor repeats one.           *)
(***************************************************************************)
LEMMA ShuffledOrders ==
  ASSUME products \subseteq Products, hour \in Draws
  PROVE  Shuffled \in Orderings(Visible)
<1> DEFINE n == Cardinality(Visible)
           X == Orderings(Visible)
           ids == SetToSeq(Visible)
           next == [k \in 1 .. n |-> [l \in X |-> Swapped(l, n + 1 - k, hour[n + 1 - k])]]
           list == CHOOSE f : f = [k \in 0 .. n |->
                     IF k = 0 THEN ids ELSE Swapped(f[k - 1], n + 1 - k, hour[n + 1 - k])]
<1>1. /\ IsFiniteSet(Visible) /\ n \in Nat /\ n <= Cardinality(Products)
      /\ Cardinality(Products) \in Nat
  BY ShelfAssumption, FS_Subset, FS_CardinalityType DEF Visible
<1>2. ids \in X /\ Len(ids) = n
  BY <1>1, QueryOrders, OrderingIsOnto
<1>3. Shuffled = list[n]
  BY <1>2 DEF Shuffled
<1> HIDE DEF n, X, ids
<1>4. ASSUME NEW k \in 1 .. n PROVE n + 1 - k \in 1 .. n /\ hour[n + 1 - k] \in 1 .. n
  <2>1. n + 1 - k \in 1 .. n /\ n + 1 - k \in 1 .. Cardinality(Products)
    BY <1>1
  <2>2. hour[n + 1 - k] \in 1 .. Cardinality(Products) /\ hour[n + 1 - k] <= n + 1 - k
    BY <2>1 DEF Draws
  <2>3. QED
    BY <1>1, <2>1, <2>2
<1>5. ASSUME NEW k \in 1 .. n, NEW l \in X
      PROVE  Swapped(l, n + 1 - k, hour[n + 1 - k]) \in X
  BY <1>4, SwapOrders DEF X, n
<1>6. next \in [1 .. n -> [X -> X]]
  BY <1>5
<1> HIDE DEF next, list
<1>7. PICK f \in [0 .. n -> X] : f[0] = ids /\ \A k \in 1 .. n : f[k] = next[k][f[k - 1]]
  BY <1>1, <1>2, <1>6, LoopExists
<1>8. ASSUME NEW k \in 1 .. n
      PROVE  f[k] = Swapped(f[k - 1], n + 1 - k, hour[n + 1 - k])
  <2>1. k - 1 \in 0 .. n
    BY <1>1
  <2>2. PICK l \in X : l = f[k - 1]
    BY <2>1
  <2>3. next[k][l] = Swapped(l, n + 1 - k, hour[n + 1 - k])
    BY DEF next
  <2>4. QED
    BY <1>7, <2>2, <2>3
<1>9. f = [k \in 0 .. n |->
             IF k = 0 THEN ids ELSE Swapped(f[k - 1], n + 1 - k, hour[n + 1 - k])]
  BY <1>7, <1>8
<1>10. list = [k \in 0 .. n |->
                 IF k = 0 THEN ids ELSE Swapped(list[k - 1], n + 1 - k, hour[n + 1 - k])]
  BY <1>9 DEF list
<1> DEFINE Good == {k \in Nat : k <= n => list[k] \in X}
<1>11. 0 \in Good
  BY <1>1, <1>2, <1>10
<1>12. ASSUME NEW k \in Nat, k \in Good PROVE k + 1 \in Good
  <2> SUFFICES ASSUME k + 1 <= n PROVE list[k + 1] \in X
    OBVIOUS
  <2>1. k + 1 \in 1 .. n /\ k + 1 \in 0 .. n /\ k <= n
    BY <1>1
  <2>2. list[k + 1] = Swapped(list[(k + 1) - 1], n + 1 - (k + 1), hour[n + 1 - (k + 1)])
    BY <1>10, <2>1
  <2>3. list[(k + 1) - 1] \in X
    BY <1>12, <2>1
  <2>4. QED
    BY <1>5, <2>1, <2>2, <2>3
<1> HIDE DEF Good
<1>13. n \in Good
  BY <1>1, <1>11, <1>12, NumberInduction
<1>14. QED
  BY <1>1, <1>3, <1>13 DEF Good, X

(***************************************************************************)
(* As a sequence: of all visible products, each once.                      *)
(***************************************************************************)
LEMMA ShuffledSeq ==
  ASSUME products \subseteq Products, hour \in Draws
  PROVE  /\ Shuffled \in Seq(Products) /\ ToSet(Shuffled) = Visible
         /\ Len(Shuffled) = Cardinality(Visible) /\ Len(Shuffled) \in Nat
<1>1. IsFiniteSet(Visible) /\ Visible \subseteq Products
  BY ShelfAssumption, FS_Subset DEF Visible
<1>2. Shuffled \in Orderings(Visible)
  BY ShuffledOrders
<1>3. /\ ToSet(Shuffled) = Visible /\ Shuffled \in Seq(Visible)
      /\ Len(Shuffled) = Cardinality(Visible)
  BY <1>1, <1>2, OrderingIsOnto
<1>4. QED
  BY <1>1, <1>3

(***************************************************************************)
(* A page shows products.                                                  *)
(***************************************************************************)
LEMMA PageTyped ==
  ASSUME products \subseteq Products, hour \in Draws, NEW k \in Nat \ {0}
  PROVE  Page(k) \in Seq(Products)
<1>1. PICK N \in Nat : N = Len(Shuffled)
  BY ShuffledSeq
<1>2. Shuffled \in Seq(Products) /\ DOMAIN Shuffled = 1 .. N
  BY <1>1, ShuffledSeq, LenProperties
<1>3. PICK first \in Nat \ {0} : first = (k - 1) * Limit + 1
  <2>1. k - 1 \in Nat /\ Limit \in Nat
    BY ShelfAssumption
  <2>2. (k - 1) * Limit \in Nat
    BY <2>1
  <2>3. QED
    BY <2>2
<1>4. PICK last \in Nat : last = Min({k * Limit, N}) /\ last <= N
  <2>1. Limit \in Nat /\ k * Limit \in Nat
    BY ShelfAssumption
  <2>2. QED
    BY <2>1, MinOfNaturals
<1>5. \A i \in first .. last : Shuffled[i] \in Products
  BY <1>2, <1>4
<1>6. Page(k) = SubSeq(Shuffled, first, last)
  BY <1>1, <1>3, <1>4 DEF Page
<1>7. SubSeq(Shuffled, first, last) \in Seq(Products)
  BY <1>5, SubSeqProperties
<1>8. QED
  BY <1>6, <1>7
-----------------------------------------------------------------------------
\* The type of the shelf, with that of reviews under way and of the pages seen.
ProductsTyped ==
  hidden \subseteq products /\ products \subseteq used /\ used \subseteq Products /\ wishes \subseteq products

ReviewsTyped ==
  /\ reviews \in [Products -> [Stars -> Nat]]
  /\ \A p \in Products \ products : reviews[p] = NoReviews
  /\ rating \in [Products -> [n : Nat, sum : Nat]]
  /\ review \in [ReviewSlots -> [step : ReviewSteps, product : Products \cup {0},
                                 stars : Stars \cup {0}, found : [n : Nat, sum : Nat]]]
  /\ \A s \in ReviewSlots :
       review[s].step # "idle" => review[s].product \in Products /\ review[s].stars \in Stars

VisitTyped ==
  /\ hour \in Draws
  /\ visit \in [page : Nat, seen : Seq(Products), undisturbed : BOOLEAN]

Kept == ProductsTyped /\ ReviewsTyped /\ VisitTyped

(***************************************************************************)
(* An average is a count and a sum.                                        *)
(***************************************************************************)
LEMMA AverageTyped ==
  ASSUME NEW given \in [Stars -> Nat]
  PROVE  AverageOf(given) \in [n : Nat, sum : Nat]
<1> DEFINE weighed == [s \in Stars |-> s * given[s]]
<1>1. IsFiniteSet(Stars) /\ Stars \subseteq Nat
  BY StarsFinite
<1>2. ASSUME NEW s \in Stars PROVE given[s] \in Nat /\ weighed[s] \in Nat
  BY <1>1
<1> HIDE DEF weighed
<1>3. SumOf(Stars, given) \in Nat /\ SumOf(Stars, weighed) \in Nat
  BY <1>1, <1>2, SumNat
<1>4. QED
  BY <1>3 DEF AverageOf, weighed

(***************************************************************************)
(* Products come, are hidden and go, with what hangs on them.              *)
(***************************************************************************)
LEMMA KeptProducts ==
  ASSUME Kept, NEW p \in Products, CreateProduct(p) \/ HideProduct(p) \/ DeleteProduct(p)
  PROVE  Kept'
<1>1. NoReviews \in [Stars -> Nat] /\ None \in [n : Nat, sum : Nat]
  BY DEF NoReviews, None
<1>2. ProductsTyped'
  BY DEF Kept, ProductsTyped, CreateProduct, HideProduct, DeleteProduct, wishVars
<1>3. /\ review' = review /\ hour' = hour
      /\ visit' = [visit EXCEPT !.undisturbed = FALSE]
  BY DEF CreateProduct, HideProduct, DeleteProduct, ratingVars, Disturb
<1>4. CASE DeleteProduct(p)
  <2>1. /\ products' = products \ {p} /\ reviews' = [reviews EXCEPT ![p] = NoReviews]
        /\ rating' = [rating EXCEPT ![p] = None]
    BY <1>4 DEF DeleteProduct
  <2>2. ReviewsTyped'
    BY <1>1, <1>3, <2>1 DEF Kept, ReviewsTyped
  <2>3. QED
    BY <1>2, <1>3, <2>2 DEF Kept, VisitTyped
<1>5. CASE CreateProduct(p) \/ HideProduct(p)
  <2>1. products \subseteq products' /\ UNCHANGED ratingVars
    BY <1>5 DEF CreateProduct, HideProduct
  <2>2. ReviewsTyped'
    BY <2>1 DEF Kept, ReviewsTyped, ratingVars
  <2>3. QED
    BY <1>2, <1>3, <2>2 DEF Kept, VisitTyped
<1>6. QED
  BY <1>4, <1>5

(***************************************************************************)
(* Reviews are written of products there are, and ratings are averages.    *)
(***************************************************************************)
LEMMA KeptReviews ==
  ASSUME Kept, NEW s \in ReviewSlots,
         \/ \E p \in Products, n \in Stars : StartReview(s, p, n)
         \/ WriteReview(s) \/ ReadAverage(s) \/ WriteRating(s)
  PROVE  Kept'
<1>1. ProductsTyped' /\ VisitTyped' /\ products' = products
  BY DEF Kept, ProductsTyped, VisitTyped, StartReview, WriteReview, ReadAverage, WriteRating,
         productVars, wishVars
<1>2. ReviewsTyped /\ IdleReview \in [step : ReviewSteps, product : Products \cup {0},
                                      stars : Stars \cup {0}, found : [n : Nat, sum : Nat]]
  BY DEF Kept, IdleReview, ReviewSteps, None
<1>3. CASE \E p \in Products, n \in Stars : StartReview(s, p, n)
  <2>1. PICK p \in Products, n \in Stars : StartReview(s, p, n)
    BY <1>3
  <2>2. PICK step \in {"create", "delete"} :
          review' = [review EXCEPT ![s] =
                       [step |-> step, product |-> p, stars |-> n, found |-> None]]
    BY <2>1 DEF StartReview
  <2>3. [step |-> step, product |-> p, stars |-> n, found |-> None]
          \in [step : ReviewSteps, product : Products \cup {0},
               stars : Stars \cup {0}, found : [n : Nat, sum : Nat]]
    BY DEF ReviewSteps, None
  <2>4. reviews' = reviews /\ rating' = rating
    BY <2>1 DEF StartReview
  <2>5. ReviewsTyped'
    BY <1>1, <1>2, <2>2, <2>3, <2>4 DEF ReviewsTyped
  <2>6. QED
    BY <1>1, <2>5 DEF Kept
<1>4. CASE WriteReview(s)
  <2> DEFINE p == review[s].product
             n == review[s].stars
  <2>1. p \in Products /\ n \in Stars /\ rating' = rating
    BY <1>2, <1>4 DEF WriteReview, ReviewsTyped
  <2>2. reviews[p] \in [Stars -> Nat] /\ reviews[p][n] \in Nat
    BY <1>2, <2>1 DEF ReviewsTyped
  <2>3. \/ reviews' = reviews
        \/ p \in products /\ reviews' = [reviews EXCEPT ![p] = [reviews[p] EXCEPT ![n] = reviews[p][n] + 1]]
        \/ /\ reviews[p][n] > 0
           /\ reviews' = [reviews EXCEPT ![p] = [reviews[p] EXCEPT ![n] = reviews[p][n] - 1]]
    BY <1>4 DEF WriteReview
  <2>4. p \notin products => reviews[p][n] = 0
    BY <1>2, <2>1 DEF ReviewsTyped, NoReviews
  <2>5. \/ review' = [review EXCEPT ![s].step = "average"]
        \/ review' = [review EXCEPT ![s] = IdleReview]
    BY <1>4 DEF WriteReview, ReviewDone
  <2> HIDE DEF p, n
  <2>6. /\ reviews' \in [Products -> [Stars -> Nat]]
        /\ \A q \in Products \ products : reviews'[q] = NoReviews
    <3>1. CASE reviews' = reviews
      BY <1>2, <3>1 DEF ReviewsTyped
    <3>2. ASSUME NEW m \in Nat, p \in products,
                 reviews' = [reviews EXCEPT ![p] = [reviews[p] EXCEPT ![n] = m]]
          PROVE  /\ reviews' \in [Products -> [Stars -> Nat]]
                 /\ \A q \in Products \ products : reviews'[q] = NoReviews
      <4>1. [reviews[p] EXCEPT ![n] = m] \in [Stars -> Nat]
        BY <2>1, <2>2
      <4>2. QED
        BY <1>2, <2>1, <3>2, <4>1 DEF ReviewsTyped
    <3>3. reviews[p][n] + 1 \in Nat /\ (reviews[p][n] > 0 => reviews[p][n] - 1 \in Nat)
      BY <2>2
    <3>4. reviews[p][n] > 0 => p \in products
      BY <2>4
    <3>5. QED
      BY <2>3, <3>1, <3>2, <3>3, <3>4
  <2>7. /\ review' \in [ReviewSlots -> [step : ReviewSteps, product : Products \cup {0},
                                        stars : Stars \cup {0}, found : [n : Nat, sum : Nat]]]
        /\ \A r \in ReviewSlots :
             review'[r].step # "idle" => review'[r].product \in Products /\ review'[r].stars \in Stars
    <3>1. CASE review' = [review EXCEPT ![s] = IdleReview]
      BY <1>2, <3>1 DEF ReviewsTyped, IdleReview
    <3>2. CASE review' = [review EXCEPT ![s].step = "average"]
      BY <1>2, <2>1, <3>2 DEF ReviewsTyped, ReviewSteps, p, n
    <3>3. QED
      BY <2>5, <3>1, <3>2
  <2>8. ReviewsTyped'
    BY <1>1, <1>2, <2>1, <2>6, <2>7 DEF ReviewsTyped
  <2>9. QED
    BY <1>1, <2>8 DEF Kept
<1>5. CASE ReadAverage(s)
  <2>1. /\ review[s].product \in Products /\ review[s].stars \in Stars
        /\ reviews' = reviews /\ rating' = rating
    BY <1>2, <1>5 DEF ReadAverage, ReviewsTyped
  <2>2. PICK found \in [n : Nat, sum : Nat] : found = Average(review[s].product)
    BY <1>2, <2>1, AverageTyped DEF Average, ReviewsTyped
  <2>3. review' = [review EXCEPT ![s].step = "rating", ![s].found = found]
    BY <1>5, <2>2 DEF ReadAverage
  <2>4. ReviewsTyped'
    BY <1>1, <1>2, <2>1, <2>3 DEF ReviewsTyped, ReviewSteps
  <2>5. QED
    BY <1>1, <2>4 DEF Kept
<1>6. CASE WriteRating(s)
  <2>1. /\ review[s].product \in Products /\ review[s].found \in [n : Nat, sum : Nat]
        /\ reviews' = reviews /\ review' = [review EXCEPT ![s] = IdleReview]
    BY <1>2, <1>6 DEF WriteRating, ReviewDone, ReviewsTyped
  <2>2. rating' = rating \/ rating' = [rating EXCEPT ![review[s].product] = review[s].found]
    BY <1>6 DEF WriteRating
  <2>3. rating' \in [Products -> [n : Nat, sum : Nat]]
    BY <1>2, <2>1, <2>2 DEF ReviewsTyped
  <2>4. ReviewsTyped'
    BY <1>1, <1>2, <2>1, <2>3 DEF ReviewsTyped, IdleReview
  <2>5. QED
    BY <1>1, <2>4 DEF Kept
<1>7. QED
  BY <1>3, <1>4, <1>5, <1>6

(***************************************************************************)
(* What a visitor has seen are products.                                   *)
(***************************************************************************)
LEMMA KeptVisit ==
  ASSUME Kept, TurnPage \/ LeaveShop \/ NextHour
  PROVE  Kept'
<1>1. ProductsTyped' /\ ReviewsTyped'
  BY DEF Kept, ProductsTyped, ReviewsTyped, TurnPage, LeaveShop, NextHour,
         productVars, ratingVars, wishVars
<1>2. VisitTyped /\ products \subseteq Products
  BY DEF Kept, ProductsTyped
<1>3. CASE LeaveShop \/ NextHour
  <2>1. NoVisit \in [page : Nat, seen : Seq(Products), undisturbed : BOOLEAN]
    BY DEF NoVisit
  <2>2. [visit EXCEPT !.undisturbed = FALSE]
          \in [page : Nat, seen : Seq(Products), undisturbed : BOOLEAN]
    BY <1>2 DEF VisitTyped
  <2>3. VisitTyped'
    BY <1>2, <1>3, <2>1, <2>2 DEF VisitTyped, LeaveShop, NextHour, Disturb
  <2>4. QED
    BY <1>1, <2>3 DEF Kept
<1>4. CASE TurnPage
  <2>1. ASSUME NEW k \in Nat \ {0} PROVE Page(k) \in Seq(Products)
    BY <1>2, <2>1, PageTyped DEF VisitTyped
  <2>2. Page(1) \in Seq(Products)
    BY <2>1
  <2>3. visit.page + 1 \in Nat \ {0} /\ visit.seen \in Seq(Products)
    BY <1>2 DEF VisitTyped
  <2>4. visit.seen \o Page(visit.page + 1) \in Seq(Products)
    BY <2>1, <2>3
  <2>5. visit' \in [page : Nat, seen : Seq(Products), undisturbed : BOOLEAN]
    <3>1. CASE visit' = [page |-> 1, seen |-> Page(1), undisturbed |-> TRUE]
      BY <2>2, <3>1
    <3>2. PICK more \in Seq(Products) : more = visit.seen \o Page(visit.page + 1)
      BY <2>4
    <3>3. CASE visit' = [visit EXCEPT !.page = @ + 1, !.seen = more]
      BY <1>2, <2>3, <3>3 DEF VisitTyped
    <3>4. QED
      BY <1>4, <3>1, <3>2, <3>3 DEF TurnPage
  <2>6. QED
    BY <1>1, <1>2, <1>4, <2>5 DEF Kept, VisitTyped, TurnPage
<1>5. QED
  BY <1>3, <1>4

(***************************************************************************)
(* Every step keeps the type of the shelf.                                 *)
(***************************************************************************)
LEMMA KeptStep == Kept /\ [Next]_vars => Kept'
<1> SUFFICES ASSUME Kept, [Next]_vars PROVE Kept'
  OBVIOUS
<1>1. ASSUME UNCHANGED <<productVars, ratingVars, hour, visit>>, wishes' \subseteq products
      PROVE  Kept'
  BY <1>1 DEF Kept, ProductsTyped, ReviewsTyped, VisitTyped, productVars, ratingVars
<1>2. wishes \subseteq products
  BY DEF Kept, ProductsTyped
<1>3. CASE \/ LinkRequest \/ UNCHANGED vars
           \/ \E f \in Forms : WriteUpdate(f) /\ UNCHANGED shelfVars
  BY <1>1, <1>2, <1>3 DEF LinkRequest, shelfVars, wishVars, vars
<1>4. CASE \/ \E s \in WishSlots, p \in Products : StartToggle(s, p)
           \/ \E s \in WishSlots : Toggle(s)
  BY <1>1, <1>2, <1>4 DEF StartToggle, Toggle
<1>5. CASE \E p \in Products : CreateProduct(p) \/ HideProduct(p) \/ DeleteProduct(p)
  BY <1>5, KeptProducts
<1>6. CASE \E s \in ReviewSlots :
             \/ \E p \in Products, n \in Stars : StartReview(s, p, n)
             \/ WriteReview(s) \/ ReadAverage(s) \/ WriteRating(s)
  BY <1>6, KeptReviews
<1>7. CASE TurnPage \/ LeaveShop \/ NextHour
  BY <1>7, KeptVisit
<1>8. CASE ShelfRequest
  BY <1>4, <1>5, <1>6, <1>7, <1>8 DEF ShelfRequest
<1>9. CASE GoOn
  BY <1>3, <1>4, <1>6, <1>7, <1>9 DEF GoOn
<1>10. QED
  BY <1>3, <1>8, <1>9 DEF Next, Request

(***************************************************************************)
(* Where it starts.                                                        *)
(***************************************************************************)
LEMMA KeptInit == Init => Kept
<1> SUFFICES ASSUME Init PROVE Kept
  OBVIOUS
<1>1. ProductsTyped
  BY DEF Init, InitShelf, ProductsTyped
<1>2. ReviewsTyped
  <2>1. NoReviews \in [Stars -> Nat] /\ None \in [n : Nat, sum : Nat]
    BY DEF NoReviews, None
  <2>2. IdleReview \in [step : ReviewSteps, product : Products \cup {0},
                        stars : Stars \cup {0}, found : [n : Nat, sum : Nat]]
        /\ IdleReview.step = "idle"
    BY <2>1 DEF IdleReview, ReviewSteps
  <2>3. QED
    BY <2>1, <2>2 DEF Init, InitShelf, ReviewsTyped
<1>3. NoVisit \in [page : Nat, seen : Seq(Products), undisturbed : BOOLEAN]
  BY DEF NoVisit
<1>4. QED
  BY <1>1, <1>2, <1>3 DEF Init, InitShelf, Kept, VisitTyped

(***************************************************************************)
(* Every reachable state of the catalogue is well typed: what is shown and *)
(* wished for is there, a product that is gone has no reviews, every       *)
(* rating is a count and a sum.                                            *)
(***************************************************************************)
THEOREM TypeCorrect == Spec => []TypeOK
<1>1. Init => requests \in 0 .. MaxRequests
  BY EvaluationAssumption DEF Init
<1>2. requests \in 0 .. MaxRequests /\ [Next]_vars => (requests \in 0 .. MaxRequests)'
  BY EvaluationAssumption DEF Next, Request, GoOn, vars
<1>3. Kept => ShelfTypeOK
  <2> SUFFICES ASSUME Kept PROVE ShelfTypeOK
    OBVIOUS
  <2>1. ToSet(visit.seen) \subseteq Products
    <3>1. PICK seen \in Seq(Products) : seen = visit.seen
      BY DEF Kept, VisitTyped
    <3>2. QED
      BY <3>1, LenProperties DEF ToSet
  <2>2. QED
    BY <2>1 DEF Kept, ProductsTyped, ReviewsTyped, VisitTyped, ShelfTypeOK
<1>4. QED
  BY <1>1, <1>2, <1>3, KeptInit, KeptStep, LinksStay, PTL DEF Spec, TypeOK
-----------------------------------------------------------------------------
\* What a visitor of the first so many pages has seen.
FirstPages(k) == SubSeq(Shuffled, 1, Min({k * Limit, Len(Shuffled)}))

Undisturbed == visit.undisturbed /\ visit.page > 0 => visit.seen = FirstPages(visit.page)

(***************************************************************************)
(* As many pages as it takes: one less leaves something out.               *)
(***************************************************************************)
LEMMA PagesEnough ==
  ASSUME NEW n \in Nat, NEW limit \in Nat \ {0}
  PROVE  LET pages == (n + limit - 1) \div limit
         IN  /\ pages \in Nat /\ n <= pages * limit
             /\ \A k \in Nat : k < pages => k * limit < n
<1> DEFINE m == n + limit - 1
           pages == m \div limit
<1>1. m \in Nat
  OBVIOUS
<1> HIDE DEF m
<1>2. pages \in Nat /\ limit * pages <= m /\ m < limit * (pages + 1)
  BY <1>1
<1> HIDE DEF pages
<1>3. n <= pages * limit
  BY <1>2 DEF m
<1>4. ASSUME NEW k \in Nat, k < pages PROVE k * limit < n
  <2>1. PICK more \in Nat : pages = k + 1 + more
    <3>1. pages - k - 1 \in Nat
      BY <1>2, <1>4
    <3>2. QED
      BY <1>2, <3>1
  <2>2. PICK rest \in Nat : rest = limit * more
    BY <2>1
  <2>3. limit * pages = k * limit + limit + rest
    BY <1>2, <2>1, <2>2
  <2>4. k * limit \in Nat
    OBVIOUS
  <2>5. QED
    BY <1>2, <2>2, <2>3, <2>4 DEF m
<1>5. QED
  BY <1>2, <1>3, <1>4 DEF pages, m

(***************************************************************************)
(* The next page goes on where the pages before it end.                    *)
(***************************************************************************)
LEMMA PageAppends ==
  ASSUME products \subseteq Products, hour \in Draws, NEW k \in Nat, k < Pages
  PROVE  FirstPages(k) \o Page(k + 1) = FirstPages(k + 1)
<1>1. PICK N \in Nat : N = Len(Shuffled) /\ N = Cardinality(Visible)
  BY ShuffledSeq
<1>2. PICK L \in Nat \ {0} : L = Limit
  BY ShelfAssumption
<1>3. k * L < N
  BY <1>1, <1>2, PagesEnough DEF Pages
<1>4. PICK from \in Nat : from = k * L
  OBVIOUS
<1>5. (k + 1) * L = from + L
  BY <1>4
<1>6. Min({k * Limit, Len(Shuffled)}) = from
  BY <1>1, <1>2, <1>3, <1>4, MinOfNaturals
<1>7. PICK to \in Nat : to = Min({(k + 1) * Limit, Len(Shuffled)}) /\ from <= to /\ to <= N
  BY <1>1, <1>2, <1>3, <1>4, <1>5, MinOfNaturals
<1>8. FirstPages(k) = SubSeq(Shuffled, 1, from)
  BY <1>6 DEF FirstPages
<1>9. FirstPages(k + 1) = SubSeq(Shuffled, 1, to)
  BY <1>7 DEF FirstPages
<1>10. Page(k + 1) = SubSeq(Shuffled, from + 1, to)
  <2>1. (k + 1) - 1 = k
    OBVIOUS
  <2>2. Page(k + 1) = SubSeq(Shuffled, k * Limit + 1, to)
    BY <1>7, <2>1 DEF Page
  <2>3. QED
    BY <1>2, <1>4, <2>2
<1>11. SubSeq(Shuffled, 1, from) \o SubSeq(Shuffled, from + 1, to) = SubSeq(Shuffled, 1, to)
  <2>1. Shuffled \in Seq(Products)
    BY ShuffledSeq
  <2>2. 1 \in 1 .. Len(Shuffled) + 1 /\ from \in 1 - 1 .. Len(Shuffled) /\ to \in from .. Len(Shuffled)
    BY <1>1, <1>3, <1>4, <1>7
  <2>3. QED
    BY <2>1, <2>2, ConcatAdjacentSubSeq
<1>12. QED
  BY <1>8, <1>9, <1>10, <1>11

(***************************************************************************)
(* All pages together are the list.                                        *)
(***************************************************************************)
LEMMA AllPages ==
  ASSUME products \subseteq Products, hour \in Draws
  PROVE  FirstPages(Pages) = Shuffled
<1>1. PICK N \in Nat : N = Len(Shuffled) /\ N = Cardinality(Visible)
  BY ShuffledSeq
<1>2. N <= Pages * Limit /\ Pages \in Nat
  BY <1>1, PagesEnough, ShelfAssumption DEF Pages
<1>3. PICK all \in Nat : all = Pages * Limit
  BY <1>2, ShelfAssumption
<1>4. Min({all, N}) = N
  BY <1>1, <1>2, <1>3, MinOfNaturals
<1>5. FirstPages(Pages) = SubSeq(Shuffled, 1, Len(Shuffled))
  BY <1>1, <1>3, <1>4 DEF FirstPages
<1>6. QED
  BY <1>5, ShuffledSeq, SubSeqFull

(***************************************************************************)
(* The list stays the same as long as products and draws do.               *)
(***************************************************************************)
LEMMA SameList ==
  ASSUME products' = products, hidden' = hidden, hour' = hour, NEW k
  PROVE  FirstPages(k)' = FirstPages(k)
<1>1. Visible' = Visible
  BY DEF Visible
<1>2. Shuffled' = Shuffled
  BY <1>1 DEF Shuffled
<1>3. QED
  BY <1>2 DEF FirstPages

(***************************************************************************)
(* A visitor turns a page, leaves, or is disturbed.                        *)
(***************************************************************************)
LEMMA UndisturbedStep ==
  Kept /\ Undisturbed /\ [Next]_vars => Undisturbed'
<1> SUFFICES ASSUME Kept, Undisturbed, [Next]_vars PROVE Undisturbed'
  OBVIOUS
<1>1. /\ products \subseteq Products /\ hour \in Draws
      /\ visit \in [page : Nat, seen : Seq(Products), undisturbed : BOOLEAN]
  BY DEF Kept, ProductsTyped, VisitTyped
<1>2. ASSUME UNCHANGED <<productVars, hour, visit>> PROVE Undisturbed'
  BY <1>2, SameList DEF Undisturbed, productVars
<1>3. ASSUME Disturb PROVE Undisturbed'
  BY <1>1, <1>3 DEF Undisturbed, Disturb
<1>4. ASSUME LeaveShop PROVE Undisturbed'
  BY <1>4 DEF Undisturbed, LeaveShop, NoVisit
<1>5. ASSUME TurnPage PROVE Undisturbed'
  <2>1. products' = products /\ hidden' = hidden /\ hour' = hour
    BY <1>5 DEF TurnPage, productVars
  <2>2. \A k : FirstPages(k)' = FirstPages(k)
    BY <2>1, SameList
  <2>3. CASE visit' = [page |-> 1, seen |-> Page(1), undisturbed |-> TRUE]
    <3>1. Page(1) = FirstPages(1)
      <4>1. (1 - 1) * Limit + 1 = 1
        BY ShelfAssumption
      <4>2. QED
        BY <4>1 DEF Page, FirstPages
    <3>2. QED
      BY <2>2, <2>3, <3>1 DEF Undisturbed
  <2>4. CASE /\ visit.page \in 1 .. Pages - 1
             /\ visit' = [visit EXCEPT !.page = @ + 1, !.seen = @ \o Page(visit.page + 1)]
    <3>1. PICK k \in Nat : k = visit.page
      BY <1>1
    <3>2. k > 0 /\ k < Pages
      <4>1. Pages \in Nat
        <5>1. PICK N \in Nat : N = Cardinality(Visible)
          BY <1>1, ShuffledSeq
        <5>2. QED
          BY <5>1, PagesEnough, ShelfAssumption DEF Pages
      <4>2. QED
        BY <2>4, <3>1, <4>1
    <3>3. FirstPages(k) \o Page(k + 1) = FirstPages(k + 1)
      BY <1>1, <3>2, PageAppends
    <3>4. /\ visit'.page = k + 1 /\ visit'.undisturbed = visit.undisturbed
          /\ visit'.seen = visit.seen \o Page(k + 1)
      BY <1>1, <2>4, <3>1
    <3>5. visit.undisturbed => visit.seen = FirstPages(k)
      BY <3>1, <3>2 DEF Undisturbed
    <3>6. QED
      BY <2>2, <3>3, <3>4, <3>5 DEF Undisturbed
  <2>5. QED
    BY <1>5, <2>3, <2>4 DEF TurnPage
<1>6. CASE \/ LinkRequest \/ UNCHANGED vars
           \/ \E f \in Forms : WriteUpdate(f) /\ UNCHANGED shelfVars
  BY <1>2, <1>6 DEF LinkRequest, shelfVars, vars
<1>7. CASE ShelfRequest
  <2>1. ASSUME \/ \E s \in ReviewSlots, p \in Products, n \in Stars : StartReview(s, p, n)
               \/ \E s \in WishSlots, p \in Products : StartToggle(s, p)
        PROVE  Undisturbed'
    BY <1>2, <2>1 DEF StartReview, StartToggle
  <2>2. ASSUME \/ \E p \in Products : CreateProduct(p) \/ HideProduct(p) \/ DeleteProduct(p)
               \/ NextHour
        PROVE  Undisturbed'
    BY <1>3, <2>2 DEF CreateProduct, HideProduct, DeleteProduct, NextHour
  <2>3. QED
    BY <1>5, <1>7, <2>1, <2>2 DEF ShelfRequest
<1>8. CASE GoOn
  <2>1. ASSUME \/ \E s \in ReviewSlots : WriteReview(s) \/ ReadAverage(s) \/ WriteRating(s)
               \/ \E s \in WishSlots : Toggle(s)
        PROVE  Undisturbed'
    BY <1>2, <2>1 DEF WriteReview, ReadAverage, WriteRating, Toggle
  <2>2. QED
    BY <1>4, <1>5, <1>6, <1>8, <2>1 DEF GoOn
<1>9. QED
  BY <1>6, <1>7, <1>8 DEF Next, Request

(***************************************************************************)
(* Whoever turns all pages of the shop in random order, with no product    *)
(* coming or going and within the hour, has seen every product once: for   *)
(* any number of products, any length of a page and whatever is drawn.     *)
(***************************************************************************)
THEOREM PagesShowAll == Spec => []PagesPartition
<1>1. Init => Undisturbed
  BY DEF Init, InitShelf, NoVisit, Undisturbed
<1>2. Kept /\ Undisturbed => PagesPartition
  <2> SUFFICES ASSUME Kept, Undisturbed, visit.undisturbed, visit.page > 0, visit.page = Pages
               PROVE  /\ ToSet(visit.seen) = Visible
                      /\ Len(visit.seen) = Cardinality(Visible)
    BY DEF PagesPartition
  <2>1. products \subseteq Products /\ hour \in Draws
    BY DEF Kept, ProductsTyped, VisitTyped
  <2>2. visit.seen = Shuffled
    BY <2>1, AllPages DEF Undisturbed
  <2>3. QED
    BY <2>1, <2>2, ShuffledSeq
<1>3. QED
  BY <1>1, <1>2, KeptInit, KeptStep, UndisturbedStep, PTL DEF Spec
=============================================================================
