--------------------------- MODULE CheckoutProofs ---------------------------
(***************************************************************************)
(* That a promo code is good for one order per telephone number, that its  *)
(* usages are an exact account, and that a cart has one line per item and  *)
(* is bought once, for any number of buyers, requests, codes and items.    *)
(*                                                                         *)
(* The codes rest on one inductive invariant, Account: an order with a     *)
(* discount has its usage row as long as the code exists, an id is never   *)
(* issued twice, and the usages are a finite set that the counter counts.  *)
(* It needs nothing of the requests in flight: what evaluate read before   *)
(* the transaction is not what keeps the promise, the unique index inside  *)
(* it is.                                                                  *)
(*                                                                         *)
(* A cart row is known in three places: in the cart, in a checkout that    *)
(* has read it and in the orders that contain it. The invariant says that  *)
(* these places agree on its owner (Owned) and that a row that was ordered *)
(* has left the cart (OrderedGone). For a buyer with one request at a time *)
(* what the request read is then still true when it commits: a line it did *)
(* not find is not there (StillNew) and what it is about to order was not  *)
(* ordered (NotYetOrdered), and what it selected to delete is what it      *)
(* ordered (AsRead), so that the delete clears nothing else.               *)
(***************************************************************************)
EXTENDS Checkout, FiniteSetTheorems, TLAPS

\* The usage row an order with a discount must have.
UsageOf(o) == [promo |-> o.promo, phone |-> o.phone, order |-> o.id]

\* The tables hold rows of their own: codes and usages have the declared
\* columns, and ids of orders and of codes were given out.
Tables ==
  /\ promos \subseteq Promo
  /\ \A x \in promos : x.id \in issued
  /\ lastOrder \in Nat
  /\ usedCount \in [PromoIds -> Nat]

OrderIds ==
  /\ \A o \in orders : o.id \in Nat /\ o.id <= lastOrder
  /\ \A o, q \in orders : o.id = q.id => o = q
  /\ \A u \in usages : u.order \in Nat /\ u.order <= lastOrder

\* A discount is accounted for, and was given under a code that was issued.
Accounted ==
  /\ \A o \in orders : o.promo # NoPromo => o.promo \in issued
  /\ \A o \in orders : Exists(o.promo) => UsageOf(o) \in usages
  /\ \A u \in usages : Exists(u.promo)
  /\ \A u \in usages, o \in orders : u.order = o.id => o.promo = u.promo /\ o.phone = u.phone

UsesOf(p) == {u \in usages : u.promo = p}

Counted ==
  /\ IsFiniteSet(usages)
  /\ \A p \in PromoIds : usedCount[p] = Cardinality(UsesOf(p))

Account == Tables /\ OrderIds /\ Accounted /\ Counted /\ OneDiscountPerPhone

promoState == <<promoVars, orders, lastOrder>>
-----------------------------------------------------------------------------
(***************************************************************************)
(* Initially there is nothing to account for.                              *)
(***************************************************************************)
LEMMA AccountInit == Init => Account
  <1> SUFFICES ASSUME Init PROVE Account
    OBVIOUS
  <1> USE DEF Init, InitPromo
  <1>1. Tables
    BY DEF Tables
  <1>2. OrderIds /\ Accounted /\ OneDiscountPerPhone
    BY DEF OrderIds, Accounted, OneDiscountPerPhone
  <1>3. Counted
    <2>1. IsFiniteSet(usages)
      BY FS_EmptySet
    <2>2. ASSUME NEW p \in PromoIds PROVE usedCount[p] = Cardinality(UsesOf(p))
      <3>1. UsesOf(p) = {}
        BY DEF UsesOf
      <3> QED BY <3>1, FS_EmptySet
    <2> QED BY <2>1, <2>2 DEF Counted
  <1> QED BY <1>1, <1>2, <1>3 DEF Account

(***************************************************************************)
(* Deleting orders and carts (the data reset) keeps the account, and so    *)
(* does everything that leaves the orders and the codes alone.             *)
(***************************************************************************)
LEMMA ForgettingKeeps ==
  ASSUME Account, orders' \subseteq orders, UNCHANGED <<promoVars, lastOrder>>
  PROVE  Account'
  <1> USE DEF promoVars
  <1>1. Tables'
    BY DEF Account, Tables
  <1>2. OrderIds'
    BY DEF Account, OrderIds
  <1>3. Accounted'
    BY DEF Account, Accounted, Exists, UsageOf
  <1>4. Counted'
    BY DEF Account, Counted, UsesOf
  <1>5. OneDiscountPerPhone'
    BY DEF Account, OneDiscountPerPhone
  <1> QED BY <1>1, <1>2, <1>3, <1>4, <1>5 DEF Account

(***************************************************************************)
(* A new code has a new id, so no order has its discount and no usage      *)
(* counts for it.                                                          *)
(***************************************************************************)
LEMMA CreateKeeps ==
  ASSUME Account, NEW p \in PromoIds, NEW code \in Codes, CreatePromo(p, code),
         UNCHANGED <<orders, lastOrder>>
  PROVE  Account'
  <1> PICK a \in BOOLEAN : promos' = promos \cup {[id |-> p, code |-> code, active |-> a]}
    BY DEF CreatePromo
  <1>1. p \notin issued /\ issued' = issued \cup {p} /\ UNCHANGED <<usages, usedCount>>
    BY DEF CreatePromo
  <1>2. \A q : Exists(q)' <=> Exists(q) \/ q = p
    <2> DEFINE new == [id |-> p, code |-> code, active |-> a]
    <2>1. new.id = p /\ promos' = promos \cup {new}
      OBVIOUS
    <2> HIDE DEF new
    <2> QED BY <2>1 DEF Exists
  <1>3. Tables'
    BY <1>1 DEF Account, Tables, Promo
  <1>4. OrderIds'
    BY <1>1 DEF Account, OrderIds
  <1>5. Accounted'
    <2>1. \A o \in orders : o.promo # p
      BY <1>1, PromoAssumption, CheckoutAssumption DEF Account, Accounted
    <2> QED BY <1>1, <1>2, <2>1 DEF Account, Accounted, UsageOf
  <1>6. Counted'
    BY <1>1 DEF Account, Counted, UsesOf
  <1>7. OneDiscountPerPhone'
    BY DEF Account, OneDiscountPerPhone
  <1> QED BY <1>3, <1>4, <1>5, <1>6, <1>7 DEF Account

(***************************************************************************)
(* Changing a code keeps its id and its usages.                            *)
(***************************************************************************)
LEMMA UpdateKeeps ==
  ASSUME Account, NEW p \in PromoIds, UpdatePromo(p), UNCHANGED <<orders, lastOrder>>
  PROVE  Account'
  <1> PICK code \in Codes, a \in BOOLEAN :
        promos' = {x \in promos : x.id # p} \cup {[id |-> p, code |-> code, active |-> a]}
    BY DEF UpdatePromo
  <1>1. Exists(p) /\ UNCHANGED <<issued, usages, usedCount>>
    BY DEF UpdatePromo
  <1>2. \A q : Exists(q)' <=> Exists(q)
    <2> DEFINE new == [id |-> p, code |-> code, active |-> a]
    <2>1. new.id = p /\ promos' = {x \in promos : x.id # p} \cup {new}
      OBVIOUS
    <2> HIDE DEF new
    <2> QED BY <1>1, <2>1 DEF Exists
  <1>3. Tables'
    BY <1>1 DEF Account, Tables, Promo, Exists
  <1>4. OrderIds'
    BY <1>1 DEF Account, OrderIds
  <1>5. Accounted'
    BY <1>1, <1>2 DEF Account, Accounted, UsageOf
  <1>6. Counted'
    BY <1>1 DEF Account, Counted, UsesOf
  <1>7. OneDiscountPerPhone'
    BY DEF Account, OneDiscountPerPhone
  <1> QED BY <1>3, <1>4, <1>5, <1>6, <1>7 DEF Account

(***************************************************************************)
(* Removing a code removes its usages and no others.                       *)
(***************************************************************************)
LEMMA RemoveKeeps ==
  ASSUME Account, NEW p \in PromoIds, RemovePromo(p), UNCHANGED <<orders, lastOrder>>
  PROVE  Account'
  <1>1. /\ promos' = {x \in promos : x.id # p}
        /\ usages' = {u \in usages : u.promo # p}
        /\ usedCount' = [usedCount EXCEPT ![p] = 0]
        /\ UNCHANGED issued
    BY DEF RemovePromo
  <1>2. \A q : Exists(q)' <=> Exists(q) /\ q # p
    BY <1>1 DEF Exists
  <1>3. Tables'
    BY <1>1 DEF Account, Tables
  <1>4. OrderIds'
    BY <1>1 DEF Account, OrderIds
  <1>5. Accounted'
    BY <1>1, <1>2 DEF Account, Accounted, UsageOf
  <1>6. Counted'
    <2>1. IsFiniteSet(usages')
      BY <1>1, FS_Subset DEF Account, Counted
    <2>2. ASSUME NEW q \in PromoIds PROVE usedCount'[q] = Cardinality(UsesOf(q)')
      <3>1. CASE q = p
        <4>1. UsesOf(q)' = {}
          BY <1>1, <3>1 DEF UsesOf
        <4>2. usedCount'[q] = 0
          BY <1>1, <3>1 DEF Account, Tables
        <4> QED BY <4>1, <4>2, FS_EmptySet
      <3>2. CASE q # p
        <4>1. UsesOf(q)' = UsesOf(q)
          BY <1>1, <3>2 DEF UsesOf
        <4>2. usedCount'[q] = usedCount[q]
          BY <1>1, <3>2 DEF Account, Tables
        <4> QED BY <4>1, <4>2 DEF Account, Counted
      <3> QED BY <3>1, <3>2
    <2> QED BY <2>1, <2>2 DEF Counted
  <1>7. OneDiscountPerPhone'
    BY DEF Account, OneDiscountPerPhone
  <1> QED BY <1>3, <1>4, <1>5, <1>6, <1>7 DEF Account

(***************************************************************************)
(* An order without a promo code gets a fresh id and nothing else.         *)
(***************************************************************************)
LEMMA PlainOrderKeeps ==
  ASSUME Account, NEW new, new.id = lastOrder + 1, new.promo = NoPromo,
         orders' = orders \cup {new}, lastOrder' = lastOrder + 1, UNCHANGED promoVars
  PROVE  Account'
  <1> USE DEF promoVars
  <1>1. lastOrder \in Nat
    BY DEF Account, Tables
  <1>2. Tables'
    BY DEF Account, Tables
  <1>3. OrderIds'
    BY <1>1 DEF Account, OrderIds
  <1>4. ~Exists(NoPromo)
    BY CheckoutAssumption DEF Account, Tables, Exists, Promo
  <1>5. Accounted'
    <2>1. \A u \in usages : u.order # new.id
      BY <1>1 DEF Account, OrderIds
    <2> QED BY <1>4, <2>1 DEF Account, Accounted, Exists, UsageOf
  <1>6. Counted'
    BY DEF Account, Counted, UsesOf
  <1>7. OneDiscountPerPhone'
    BY DEF Account, OneDiscountPerPhone
  <1> QED BY <1>2, <1>3, <1>5, <1>6, <1>7 DEF Account

(***************************************************************************)
(* An order with a promo code is created together with its usage row, and  *)
(* only if there was no usage row for that code and number.                *)
(***************************************************************************)
LEMMA DiscountKeeps ==
  ASSUME Account, NEW new, NEW p, NEW phone,
         new.id = lastOrder + 1, new.promo = p, new.phone = phone, p # NoPromo,
         orders' = orders \cup {new}, lastOrder' = lastOrder + 1,
         RecordUsage(p, phone, lastOrder + 1)
  PROVE  Account'
  <1> DEFINE row == [promo |-> p, phone |-> phone, order |-> lastOrder + 1]
  <1>1. lastOrder \in Nat
    BY DEF Account, Tables
  <1>2. /\ Exists(p) /\ UsedBy(p, phone) = {}
        /\ usages' = usages \cup {row}
        /\ usedCount' = [usedCount EXCEPT ![p] = @ + 1]
        /\ UNCHANGED <<promos, issued>>
    BY DEF RecordUsage, Recordable
  <1>3. p \in PromoIds /\ p \in issued
    BY <1>2 DEF Account, Tables, Exists, Promo
  <1>4. row.promo = p /\ row.phone = phone /\ row.order = lastOrder + 1
    OBVIOUS
  <1>5. row = UsageOf(new)
    BY DEF UsageOf
  <1> HIDE DEF row
  <1>6. \A q : Exists(q)' <=> Exists(q)
    BY <1>2 DEF Exists
  <1>7. \A u \in usages : u.order # new.id
    BY <1>1 DEF Account, OrderIds
  <1>8. \A o \in orders : o.id # row.order
    BY <1>1, <1>4 DEF Account, OrderIds
  <1>9. Tables'
    BY <1>1, <1>2, <1>3 DEF Account, Tables
  <1>10. OrderIds'
    BY <1>1, <1>2, <1>4 DEF Account, OrderIds
  <1>11. Accounted'
    <2>1. \A o \in orders' : o.promo # NoPromo => o.promo \in issued'
      BY <1>2, <1>3 DEF Account, Accounted
    <2>2. \A o \in orders' : Exists(o.promo)' => UsageOf(o) \in usages'
      BY <1>2, <1>5, <1>6 DEF Account, Accounted
    <2>3. \A u \in usages' : Exists(u.promo)'
      BY <1>2, <1>4, <1>6 DEF Account, Accounted
    <2>4. \A u \in usages', o \in orders' : u.order = o.id => o.promo = u.promo /\ o.phone = u.phone
      BY <1>2, <1>4, <1>7, <1>8 DEF Account, Accounted
    <2> QED BY <2>1, <2>2, <2>3, <2>4 DEF Accounted, UsageOf
  <1>12. Counted'
    <2>1. IsFiniteSet(usages) /\ IsFiniteSet(usages')
      BY <1>2, FS_AddElement DEF Account, Counted
    <2>2. ASSUME NEW q \in PromoIds PROVE usedCount'[q] = Cardinality(UsesOf(q)')
      <3>1. CASE q = p
        <4>1. UsesOf(q)' = UsesOf(q) \cup {row}
          BY <1>2, <1>4, <3>1 DEF UsesOf
        <4>2. row \notin UsesOf(q)
          BY <1>4, <1>7 DEF UsesOf
        <4>3. IsFiniteSet(UsesOf(q))
          BY <2>1, FS_Subset DEF UsesOf
        <4>4. Cardinality(UsesOf(q)') = Cardinality(UsesOf(q)) + 1
          BY <4>1, <4>2, <4>3, FS_AddElement
        <4>5. usedCount'[q] = usedCount[q] + 1
          BY <1>2, <1>3, <3>1 DEF Account, Tables
        <4> QED BY <4>4, <4>5 DEF Account, Counted
      <3>2. CASE q # p
        <4>1. UsesOf(q)' = UsesOf(q)
          BY <1>2, <1>4, <3>2 DEF UsesOf
        <4>2. usedCount'[q] = usedCount[q]
          BY <1>2, <3>2 DEF Account, Tables
        <4> QED BY <4>1, <4>2 DEF Account, Counted
      <3> QED BY <3>1, <3>2
    <2> QED BY <2>1, <2>2 DEF Counted
  <1>13. OneDiscountPerPhone'
    <2>1. ASSUME NEW o \in orders, o.promo = p, o.phone = phone PROVE FALSE
      <3>1. UsageOf(o) \in usages
        BY <1>2, <2>1 DEF Account, Accounted
      <3>2. UsageOf(o) \in UsedBy(p, phone)
        BY <2>1, <3>1 DEF UsedBy, UsageOf
      <3> QED BY <1>2, <3>2
    <2> QED BY <2>1 DEF Account, OneDiscountPerPhone
  <1> QED BY <1>9, <1>10, <1>11, <1>12, <1>13 DEF Account

(***************************************************************************)
(* createFromCart's transaction does one or the other, or is rolled back.  *)
(***************************************************************************)
LEMMA CommitOrderKeeps ==
  ASSUME Account, NEW h \in Slots, CommitOrder(h)
  PROVE  Account'
  <1> DEFINE r == request[h]
             new == [id |-> lastOrder + 1, user |-> r.user, items |-> r.items,
                     promo |-> r.promo, phone |-> r.phone]
  <1>1. new.id = lastOrder + 1 /\ new.promo = r.promo /\ new.phone = r.phone
    OBVIOUS
  <1>2. CASE /\ orders' = orders \cup {new}
             /\ lastOrder' = lastOrder + 1
             /\ IF r.promo = NoPromo THEN UNCHANGED promoVars
                ELSE RecordUsage(r.promo, r.phone, lastOrder + 1)
    <2> HIDE DEF new
    <2>1. CASE r.promo = NoPromo
      BY <1>1, <1>2, <2>1, PlainOrderKeeps
    <2>2. CASE r.promo # NoPromo
      BY <1>1, <1>2, <2>2, DiscountKeeps
    <2> QED BY <2>1, <2>2
  <1>3. CASE Fail(h)
    BY <1>3, ForgettingKeeps DEF Fail
  <1> QED BY <1>2, <1>3 DEF CommitOrder

(***************************************************************************)
(* Every step keeps the account.                                           *)
(***************************************************************************)
LEMMA AccountNext == Account /\ [Next]_vars => Account'
  <1> SUFFICES ASSUME Account, [Next]_vars PROVE Account'
    OBVIOUS
  <1>1. ASSUME NEW h \in Slots, NEW u \in Users, Read(h, u) PROVE Account'
    <2>1. UNCHANGED <<promoVars, orders, lastOrder>>
      BY <1>1 DEF Read, ReadForAdd, ReadForBuyNow, ReadForUpdate, ReadForRemove,
                  ReadForOrder, Begin
    <2> QED BY <2>1, ForgettingKeeps
  <1>2. ASSUME NEW h \in Slots, CommitAdd(h) \/ CommitUpdate(h) \/ CommitRemove(h)
        PROVE  Account'
    <2>1. UNCHANGED <<promoVars, orders, lastOrder>>
      BY <1>2 DEF CommitAdd, CommitUpdate, CommitRemove, Fail
    <2> QED BY <2>1, ForgettingKeeps
  <1>3. ASSUME NEW h \in Slots, CommitOrder(h) PROVE Account'
    BY <1>3, CommitOrderKeeps
  <1>4. ASSUME NEW u \in Users, ClearCart(u) PROVE Account'
    BY <1>4, ForgettingKeeps DEF ClearCart
  <1>5. CASE ClearData
    BY <1>5, ForgettingKeeps DEF ClearData
  <1>6. CASE Restart
    BY <1>6, ForgettingKeeps DEF Restart
  <1>7. CASE Admin
    <2>1. UNCHANGED <<orders, lastOrder>>
      BY <1>7 DEF Admin
    <2> QED BY <1>7, <2>1, CreateKeeps, UpdateKeeps, RemoveKeeps DEF Admin
  <1>8. CASE UNCHANGED vars
    BY <1>8, ForgettingKeeps DEF vars
  <1> QED BY <1>1, <1>2, <1>3, <1>4, <1>5, <1>6, <1>7, <1>8 DEF Next, Commit

(***************************************************************************)
(* A telephone number gets the discount of a promo code at most once,      *)
(* whatever requests race for it.                                          *)
(***************************************************************************)
THEOREM OneDiscount == Spec => []OneDiscountPerPhone
  <1>1. Account => OneDiscountPerPhone
    BY DEF Account
  <1> QED BY AccountInit, AccountNext, <1>1, PTL DEF Spec

(***************************************************************************)
(* The usages and the counter of a promo code are an exact account of the  *)
(* orders that got its discount.                                           *)
(***************************************************************************)
THEOREM UsagesExact == Spec => []UsageMatchesOrders
  <1>1. Account => UsageMatchesOrders
    BY DEF Account, Accounted, Counted, UsageMatchesOrders, UsageOf, UsesOf
  <1> QED BY AccountInit, AccountNext, <1>1, PTL DEF Spec
-----------------------------------------------------------------------------
\* Beyond the types: only a real number redeems a code.
Redeems ==
  /\ request \in [Slots -> Request]
  /\ \A h \in Slots : request[h].op = "order" /\ request[h].promo # NoPromo =>
                        request[h].phone \in Phones

Typed == TypeOK /\ Redeems

\* The cart rows among a set of order items.
Rows(items) == {x.row : x \in items} \ {NoRow}

\* User u is known somewhere as the owner of cart row id.
Claims(id, u) ==
  \/ \E r \in cart : r.id = id /\ r.user = u
  \/ \E h \in Slots : /\ request[h].op = "order" /\ request[h].user = u
                      /\ id \in Rows(request[h].items)
  \/ \E o \in orders : o.user = u /\ id \in Rows(o.items)

Owned ==
  /\ \A id, u : Claims(id, u) => id \in Nat /\ id <= lastRow
  /\ \A id, u, v : Claims(id, u) /\ Claims(id, v) => u = v
  /\ \A r, s \in cart : r.id = s.id => r = s

OneAtATime ==
  \A g, h \in Slots :
    /\ Busy(g) /\ Busy(h)
    /\ request[g].user = request[h].user /\ request[g].user \notin overlapped
    => g = h

\* The `where` clause of a checkout selects the rows it read.
Selects ==
  \A h \in Slots : request[h].op = "order" =>
    \A id \in Rows(request[h].items) :
      \/ request[h].where.kind = "cart"
      \/ request[h].where.kind = "ids" /\ id \in request[h].where.ids

OrderedGone == \A o \in orders, r \in cart : r.id \notin Rows(o.items)

NotYetOrdered ==
  \A h \in Slots : request[h].op = "order" /\ request[h].user \notin overlapped =>
    \A o \in orders, id \in Rows(request[h].items) : id \notin Rows(o.items)

StillNew ==
  \A h \in Slots :
    /\ request[h].op = "add" /\ request[h].row = NoRow
    /\ request[h].user \notin overlapped
    => Matching(request[h].user, request[h].item) = {}

\* The row a request is about, if any, is one its buyer has or had.
OwnRow(c) == c.row \in 0 .. lastRow /\ \A r \in cart : r.id = c.row => r.user = c.user
KnowsOwnRow == \A h \in Slots : request[h].op \in {"add", "update"} => OwnRow(request[h])

\* Whatever the `where` clause of a checkout selects was read, as it is.
AsRead ==
  \A h \in Slots : request[h].op = "order" /\ request[h].user \notin overlapped =>
    \A r \in Selected(request[h].user, request[h].where) : AsItem(r) \in request[h].items

Bought == Owned /\ OneAtATime /\ Selects /\ OrderedGone /\ NotYetOrdered /\ OrderedOnce
Merged == Owned /\ OneAtATime /\ StillNew /\ OneLinePerItem
Unchanged == KnowsOwnRow /\ AsRead
-----------------------------------------------------------------------------
(***************************************************************************)
(* Beginning a request puts it into a free slot and writes nothing else.   *)
(***************************************************************************)
LEMMA BeginTyped ==
  ASSUME Typed, NEW h \in Slots, NEW r \in Request, r.op # "idle", r.user \in Users,
         r.op = "order" /\ r.promo # NoPromo => r.phone \in Phones, Begin(h, r)
  PROVE  Typed'
<1> USE DEF Typed, Redeems
<1>1. /\ request' \in [Slots -> Request]
      /\ \A g \in Slots : request'[g] = IF g = h THEN r ELSE request[g]
  BY DEF Begin
<1>2. requests' \in Nat /\ overlapped' \subseteq Users
  BY DEF Begin, TypeOK
<1>3. UNCHANGED <<cart, lastRow, promos, issued, usages, usedCount, orders, lastOrder>>
  BY DEF Begin, cartVars, promoVars
<1>4. TypeOK'
  BY <1>1, <1>2, <1>3 DEF TypeOK, CartType, PromoType
<1>5. QED
  BY <1>1, <1>4

(***************************************************************************)
(* Every request a buyer begins is one: `add` names a row of the cart or   *)
(* none, a checkout takes at least one item.                               *)
(***************************************************************************)
LEMMA ReadTyped ==
  ASSUME Typed, NEW h \in Slots, NEW u \in Users, Read(h, u)
  PROVE  Typed'
<1>1. cart \subseteq CartRow
  BY DEF Typed, TypeOK, CartType
<1>2. Quantities \subseteq Quantity /\ NoPromo \notin PromoIds
  BY CheckoutAssumption
<1>3. \A s \in Spellings : NormalPhone[s] \in Phones \cup {NoPhone}
  BY PromoAssumption
<1>4. ASSUME NEW i \in Items, ReadForAdd(h, u, i) PROVE Typed'
  <2>1. PICK n \in Quantities, id \in IF Matching(u, i) = {} THEN {NoRow}
                                      ELSE {r.id : r \in Matching(u, i)} :
          Begin(h, [op |-> "add", user |-> u, item |-> i, quantity |-> n, row |-> id])
    BY <1>4 DEF ReadForAdd
  <2>2. id \in Nat
    BY <1>1, <2>1 DEF Matching, CartRow, NoRow
  <2> DEFINE r == [op |-> "add", user |-> u, item |-> i, quantity |-> n, row |-> id]
  <2>3. r \in Request /\ r.op = "add" /\ r.user = u
    BY <1>2, <2>2 DEF Request
  <2> HIDE DEF r
  <2>4. Begin(h, r)
    BY <2>1 DEF r
  <2>5. QED
    BY <2>3, <2>4, BeginTyped
<1>5. ASSUME NEW i \in Items, ReadForBuyNow(h, u, i) PROVE Typed'
  <2>1. PICK code \in Codes, spelling \in Spellings, n \in Quantities :
          \E promo \in Redeemable(code, spelling) :
            Begin(h, [op |-> "order", user |-> u, where |-> [kind |-> "none", ids |-> {}],
                      promo |-> promo,
                      items |-> {[row |-> NoRow, item |-> i, quantity |-> n]},
                      phone |-> NormalPhone[spelling]])
    BY <1>5 DEF ReadForBuyNow
  <2>2. PICK promo \in Redeemable(code, spelling) :
            Begin(h, [op |-> "order", user |-> u, where |-> [kind |-> "none", ids |-> {}],
                      promo |-> promo,
                      items |-> {[row |-> NoRow, item |-> i, quantity |-> n]},
                      phone |-> NormalPhone[spelling]])
    BY <2>1
  <2>3. /\ promo \in PromoIds \cup {NoPromo}
        /\ promo # NoPromo => NormalPhone[spelling] \in Phones
    BY <1>3 DEF Redeemable, Usable
  <2> DEFINE where == [kind |-> "none", ids |-> {}]
             items == {[row |-> NoRow, item |-> i, quantity |-> n]}
             phone == NormalPhone[spelling]
             r == [op |-> "order", user |-> u, where |-> where, promo |-> promo,
                   items |-> items, phone |-> phone]
  <2>4. where \in Where
    BY DEF Where
  <2>5. items \in (SUBSET Item) \ {{}}
    <3>1. [row |-> NoRow, item |-> i, quantity |-> n] \in Item
      BY <1>2 DEF Item, NoRow
    <3>2. QED
      BY <3>1
  <2>6. phone \in Phones \cup {NoPhone} /\ (promo # NoPromo => phone \in Phones)
    BY <1>3, <2>3
  <2>7. Begin(h, r)
    BY <2>2
  <2> HIDE DEF where, items, phone
  <2>8. /\ r \in [op : {"order"}, user : Users, items : (SUBSET Item) \ {{}}, where : Where,
                 promo : PromoIds \cup {NoPromo}, phone : Phones \cup {NoPhone}]
        /\ r.op = "order" /\ r.user = u /\ r.promo = promo /\ r.phone = phone
    BY <2>3, <2>4, <2>5, <2>6
  <2> HIDE DEF r
  <2>9. r \in Request
    BY <2>8 DEF Request
  <2>10. QED
    BY <2>6, <2>7, <2>8, <2>9, BeginTyped
<1>6. ASSUME ReadForOrder(h, u) PROVE Typed'
  <2>1. PICK code \in Codes, spelling \in Spellings,
             where \in [kind : {"cart"}, ids : {{}}]
               \cup [kind : {"ids"}, ids : (SUBSET {r.id : r \in cart}) \ {{}}] :
          \E promo \in Redeemable(code, spelling) :
            /\ Selected(u, where) # {}
            /\ Begin(h, [op |-> "order", user |-> u, where |-> where, promo |-> promo,
                         items |-> {AsItem(r) : r \in Selected(u, where)},
                         phone |-> NormalPhone[spelling]])
    BY <1>6 DEF ReadForOrder
  <2>2. PICK promo \in Redeemable(code, spelling) :
            /\ Selected(u, where) # {}
            /\ Begin(h, [op |-> "order", user |-> u, where |-> where, promo |-> promo,
                         items |-> {AsItem(r) : r \in Selected(u, where)},
                         phone |-> NormalPhone[spelling]])
    BY <2>1
  <2>3. /\ promo \in PromoIds \cup {NoPromo}
        /\ promo # NoPromo => NormalPhone[spelling] \in Phones
    BY <1>3 DEF Redeemable, Usable
  <2>4. where \in Where
    <3>1. {r.id : r \in cart} \subseteq Nat
      BY <1>1 DEF CartRow
    <3>2. QED
      BY <3>1 DEF Where
  <2> DEFINE items == {AsItem(r) : r \in Selected(u, where)}
             phone == NormalPhone[spelling]
             r == [op |-> "order", user |-> u, where |-> where, promo |-> promo,
                   items |-> items, phone |-> phone]
  <2>5. items \in (SUBSET Item) \ {{}}
    <3>1. \A x \in Selected(u, where) : AsItem(x) \in Item
      BY <1>1 DEF Item, AsItem, Selected, CartRow
    <3>2. PICK x \in Selected(u, where) : TRUE
      BY <2>2
    <3>3. AsItem(x) \in items /\ items \subseteq Item
      BY <3>1, <3>2
    <3>4. QED
      BY <3>3
  <2>6. phone \in Phones \cup {NoPhone} /\ (promo # NoPromo => phone \in Phones)
    BY <1>3, <2>3
  <2>7. Begin(h, r)
    BY <2>2
  <2> HIDE DEF items, phone
  <2>8. /\ r \in [op : {"order"}, user : Users, items : (SUBSET Item) \ {{}}, where : Where,
                 promo : PromoIds \cup {NoPromo}, phone : Phones \cup {NoPhone}]
        /\ r.op = "order" /\ r.user = u /\ r.promo = promo /\ r.phone = phone
    BY <2>3, <2>4, <2>5, <2>6
  <2> HIDE DEF r
  <2>9. r \in Request
    BY <2>8 DEF Request
  <2>10. QED
    BY <2>6, <2>7, <2>8, <2>9, BeginTyped
<1>7. ASSUME ReadForUpdate(h, u) PROVE Typed'
  <2>1. PICK x \in cart, n \in Quantities :
          Begin(h, [op |-> "update", user |-> u, row |-> x.id, quantity |-> n])
    BY <1>7 DEF ReadForUpdate
  <2> DEFINE r == [op |-> "update", user |-> u, row |-> x.id, quantity |-> n]
  <2>2. r \in Request /\ r.op = "update" /\ r.user = u /\ Begin(h, r)
    BY <1>1, <1>2, <2>1 DEF Request, CartRow
  <2> HIDE DEF r
  <2>3. QED
    BY <2>2, BeginTyped
<1>8. ASSUME ReadForRemove(h, u) PROVE Typed'
  <2>1. PICK x \in cart : Begin(h, [op |-> "remove", user |-> u, row |-> x.id])
    BY <1>8 DEF ReadForRemove
  <2> DEFINE r == [op |-> "remove", user |-> u, row |-> x.id]
  <2>2. r \in Request /\ r.op = "remove" /\ r.user = u /\ Begin(h, r)
    BY <1>1, <2>1 DEF Request, CartRow
  <2> HIDE DEF r
  <2>3. QED
    BY <2>2, BeginTyped
<1>9. QED
  BY <1>4, <1>5, <1>6, <1>7, <1>8 DEF Read

(***************************************************************************)
(* A request that returns leaves its slot free.                            *)
(***************************************************************************)
LEMMA ReturnTyped ==
  ASSUME Typed, NEW h \in Slots, Return(h)
  PROVE  /\ Redeems' /\ requests' \in Nat /\ overlapped' \subseteq Users
         /\ \A g \in Slots : request'[g] = IF g = h THEN Idle ELSE request[g]
<1>1. Idle \in Request /\ Idle.op = "idle"
  BY DEF Idle, Request
<1>2. QED
  BY <1>1 DEF Return, Typed, Redeems, TypeOK

(***************************************************************************)
(* A request of one kind has the fields of that kind.                      *)
(***************************************************************************)
LEMMA RequestFields ==
  ASSUME Typed, NEW h \in Slots
  PROVE  /\ request[h].op \in {"idle", "add", "update", "remove", "order"}
         /\ request[h].op # "idle" => request[h].user \in Users
         /\ request[h].op = "add" => /\ request[h].item \in Items
                                     /\ request[h].quantity \in Quantity
                                     /\ request[h].row \in Nat
         /\ request[h].op = "update" => request[h].quantity \in Quantity
         /\ request[h].op = "order" =>
              /\ request[h].items \in (SUBSET Item) \ {{}}
              /\ request[h].promo \in PromoIds \cup {NoPromo}
              /\ request[h].phone \in Phones \cup {NoPhone}
<1>1. request[h] \in Request
  BY DEF Typed, Redeems
<1>2. QED
  BY <1>1 DEF Request

(***************************************************************************)
(* The cart statements keep cart rows.                                     *)
(***************************************************************************)
LEMMA CartTyped ==
  ASSUME Typed, NEW id \in Nat, NEW u \in Users, NEW i \in Items, NEW n \in Quantity,
         Increment(id, n) \/ SetQuantity(id, n) \/ Insert(u, i, n)
  PROVE  CartType'
<1>1. cart \subseteq CartRow /\ lastRow \in Nat
  BY DEF Typed, TypeOK, CartType
<1>2. \A r \in CartRow : /\ [r EXCEPT !.quantity = @ + n] \in CartRow
                          /\ [r EXCEPT !.quantity = n] \in CartRow
  BY DEF CartRow, Quantity
<1>3. CASE Increment(id, n)
  BY <1>1, <1>2, <1>3 DEF Increment, CartType
<1>4. CASE SetQuantity(id, n)
  BY <1>1, <1>2, <1>4 DEF SetQuantity, CartType
<1>5. CASE Insert(u, i, n)
  <2>1. lastRow + 1 \in Nat \ {0}
    BY <1>1
  <2>2. [id |-> lastRow + 1, user |-> u, item |-> i, quantity |-> n] \in CartRow
    BY <2>1 DEF CartRow
  <2>3. QED
    BY <1>1, <1>5, <2>1, <2>2 DEF Insert, CartType
<1>6. QED
  BY <1>3, <1>4, <1>5

(***************************************************************************)
(* The order a checkout creates is an order, and the usage it records      *)
(* names a telephone number.                                               *)
(***************************************************************************)
LEMMA CommitOrderTyped ==
  ASSUME Typed, NEW h \in Slots, CommitOrder(h)
  PROVE  Typed'
<1> DEFINE r == request[h]
           new == [id |-> lastOrder + 1, user |-> r.user, items |-> r.items,
                   promo |-> r.promo, phone |-> r.phone]
<1>1. Return(h) /\ r.op = "order"
  BY DEF CommitOrder, Fail
<1>2. /\ r.user \in Users /\ r.items \in (SUBSET Item) \ {{}}
      /\ r.promo \in PromoIds \cup {NoPromo} /\ r.phone \in Phones \cup {NoPhone}
      /\ r.promo # NoPromo => r.phone \in Phones
  BY <1>1, RequestFields DEF Typed, Redeems
<1>3. lastOrder \in Nat /\ PromoType
  BY DEF Typed, TypeOK
<1>4. new \in Order
  BY <1>2, <1>3 DEF Order
<1>5. lastOrder + 1 \in Nat
  BY <1>3
<1>6. CASE /\ orders' = orders \cup {new}
           /\ lastOrder' = lastOrder + 1
           /\ IF r.promo = NoPromo THEN UNCHANGED promoVars
              ELSE RecordUsage(r.promo, r.phone, lastOrder + 1)
           /\ Delete(Selected(r.user, r.where))
  <2>1. PromoType'
    <3>1. CASE r.promo = NoPromo
      BY <1>3, <1>6, <3>1 DEF promoVars, PromoType
    <3>2. CASE r.promo # NoPromo
      <4> DEFINE usage == [promo |-> r.promo, phone |-> r.phone, order |-> lastOrder + 1]
      <4>1. usage \in Usage
        BY <1>2, <1>5, <3>2 DEF Usage
      <4>2. /\ usages' = usages \cup {usage} /\ UNCHANGED <<promos, issued>>
            /\ usedCount' = [usedCount EXCEPT ![r.promo] = @ + 1]
        BY <1>6, <3>2 DEF RecordUsage
      <4> HIDE DEF usage
      <4>3. usedCount' \in [PromoIds -> Nat]
        <5>1. \A p \in PromoIds : usedCount[p] + 1 \in Nat
          BY <1>3 DEF PromoType
        <5>2. r.promo \in PromoIds
          BY <1>2, <3>2
        <5>3. QED
          BY <1>3, <4>2, <5>1, <5>2 DEF PromoType
      <4>4. QED
        BY <1>3, <4>1, <4>2, <4>3 DEF PromoType
    <3>3. QED
      BY <3>1, <3>2
  <2>2. CartType'
    BY <1>6 DEF Delete, Typed, TypeOK, CartType
  <2> HIDE DEF new
  <2>3. (\A o \in orders' : o \in Order) /\ lastOrder' \in Nat
    BY <1>4, <1>5, <1>6 DEF Typed, TypeOK
  <2>4. QED
    BY <1>1, <2>1, <2>2, <2>3, ReturnTyped DEF Typed, TypeOK, Redeems
<1>7. CASE Fail(h)
  BY <1>7, ReturnTyped DEF Fail, Typed, TypeOK, Redeems, cartVars, promoVars, CartType,
                           PromoType
<1>8. QED
  BY <1>6, <1>7 DEF CommitOrder

(***************************************************************************)
(* The commits of the cart's own requests keep the types.                  *)
(***************************************************************************)
LEMMA CartCommitTyped ==
  ASSUME Typed, NEW h \in Slots, CommitAdd(h) \/ CommitUpdate(h) \/ CommitRemove(h)
  PROVE  Typed'
<1> DEFINE r == request[h]
<1>1. Return(h) /\ UNCHANGED <<promoVars, orders, lastOrder>>
  BY DEF CommitAdd, CommitUpdate, CommitRemove, Fail
<1>2. CartType'
  <2>1. ASSUME UNCHANGED cartVars PROVE CartType'
    BY <2>1 DEF cartVars, Typed, TypeOK, CartType
  <2>2. CASE CommitAdd(h)
    <3>1. r.op = "add"
      BY <2>2 DEF CommitAdd
    <3>2. r.user \in Users /\ r.item \in Items /\ r.quantity \in Quantity /\ r.row \in Nat
      BY <3>1, RequestFields
    <3>3. \/ Increment(r.row, r.quantity) \/ Insert(r.user, r.item, r.quantity)
          \/ UNCHANGED cartVars
      BY <2>2 DEF CommitAdd, Fail
    <3>4. QED
      BY <2>1, <3>2, <3>3, CartTyped
  <2>3. CASE CommitUpdate(h)
    <3>1. r.op = "update"
      BY <2>3 DEF CommitUpdate
    <3>2. r.quantity \in Quantity
      BY <3>1, RequestFields
    <3>3. SetQuantity(r.row, r.quantity) \/ UNCHANGED cartVars
      BY <2>3 DEF CommitUpdate, Fail
    <3>4. CASE SetQuantity(r.row, r.quantity)
      <4>1. \A n \in Quantity, x \in CartRow : [x EXCEPT !.quantity = n] \in CartRow
        BY DEF CartRow
      <4>2. QED
        BY <3>2, <3>4, <4>1 DEF SetQuantity, Typed, TypeOK, CartType
    <3>5. QED
      BY <2>1, <3>3, <3>4
  <2>4. CASE CommitRemove(h)
    BY <2>1, <2>4 DEF CommitRemove, Fail, Delete, Typed, TypeOK, CartType
  <2>5. QED
    BY <2>2, <2>3, <2>4
<1>3. QED
  BY <1>1, <1>2, ReturnTyped DEF Typed, TypeOK, Redeems, promoVars, PromoType

(***************************************************************************)
(* Every step of a buyer, of the admin and of the process keeps the types. *)
(***************************************************************************)
LEMMA NextTyped == Typed /\ [Next]_vars => Typed'
<1> SUFFICES ASSUME Typed, [Next]_vars PROVE Typed'
  OBVIOUS
<1> USE DEF Typed, TypeOK, Redeems
<1>1. CASE \E u \in Users : ClearCart(u)
  BY <1>1 DEF ClearCart, Delete, CartType, promoVars, PromoType
<1>2. CASE ClearData
  BY <1>2 DEF ClearData, promoVars, requestVars, CartType, PromoType
<1>3. CASE Restart
  <2>1. Idle \in Request /\ Idle.op = "idle"
    BY DEF Idle, Request
  <2>2. QED
    BY <1>3, <2>1 DEF Restart, cartVars, promoVars, CartType, PromoType
<1>4. CASE Admin
  <2>1. UNCHANGED <<cart, lastRow, orders, lastOrder, request, requests, overlapped>>
    BY <1>4 DEF Admin, cartVars, requestVars
  <2>2. PICK p \in PromoIds :
          (\E code \in Codes : CreatePromo(p, code)) \/ UpdatePromo(p) \/ RemovePromo(p)
    BY <1>4 DEF Admin
  <2>3. \A code \in Codes, a \in BOOLEAN : [id |-> p, code |-> code, active |-> a] \in Promo
    BY DEF Promo
  <2>4. PromoType'
    BY <2>2, <2>3 DEF CreatePromo, UpdatePromo, RemovePromo, PromoType
  <2>5. QED
    BY <2>1, <2>4 DEF CartType
<1>5. CASE UNCHANGED vars
  BY <1>5 DEF vars, cartVars, promoVars, requestVars, CartType, PromoType
<1>6. QED
  BY <1>1, <1>2, <1>3, <1>4, <1>5, ReadTyped, CartCommitTyped, CommitOrderTyped
     DEF Next, Commit

(***************************************************************************)
(* The empty tables are well typed.                                        *)
(***************************************************************************)
LEMMA InitTyped == Init => Typed
<1> SUFFICES ASSUME Init PROVE Typed
  OBVIOUS
<1>1. Idle \in Request /\ Idle.op = "idle"
  BY DEF Idle, Request
<1>2. QED
  BY <1>1 DEF Init, InitCart, InitPromo, Typed, TypeOK, Redeems, CartType, PromoType

(***************************************************************************)
(* Every reachable state of the carts, the orders, the promo codes and the *)
(* requests is well typed.                                                 *)
(***************************************************************************)
THEOREM TypeCorrect == Spec => []TypeOK
<1>1. Typed => TypeOK
  BY DEF Typed
<1>2. QED
  BY InitTyped, NextTyped, <1>1, PTL DEF Spec
-----------------------------------------------------------------------------
\* Seen from the rows, a step is one of four. Quiet: rows leave or change their
\* quantity, requests return, orders are deleted.
Quiet ==
  /\ lastRow' = lastRow
  /\ \A r \in cart' : \E q \in cart : q.id = r.id /\ q.user = r.user /\ q.item = r.item
  /\ \A r, s \in cart' : r.id = s.id => r = s
  /\ orders' \subseteq orders
  /\ overlapped \subseteq overlapped'
  /\ \A g \in Slots : request'[g] = request[g] \/ request'[g] = Idle

Returns(h) ==
  /\ overlapped' = overlapped
  /\ \A g \in Slots : request'[g] = IF g = h THEN Idle ELSE request[g]

\* A line is added.
Inserts(h) ==
  /\ request[h].op = "add" /\ request[h].row = NoRow
  /\ Insert(request[h].user, request[h].item, request[h].quantity)
  /\ orders' = orders /\ Returns(h)

\* An order is created.
Orders(h) ==
  /\ request[h].op = "order"
  /\ \E new \in Order : /\ orders' = orders \cup {new}
                        /\ new.user = request[h].user /\ new.items = request[h].items
                        /\ new.id = lastOrder + 1
  /\ Delete(Selected(request[h].user, request[h].where))
  /\ Returns(h)

\* A request begins, and knows what was true when it read.
Begins(h, c) ==
  /\ Begin(h, c)
  /\ c.op # "idle"
  /\ c.op = "order" =>
       \A id \in Rows(c.items) :
         /\ \E r \in cart : r.id = id /\ r.user = c.user
         /\ c.where.kind = "cart" \/ (c.where.kind = "ids" /\ id \in c.where.ids)
  /\ c.op = "order" => \A r \in Selected(c.user, c.where) : AsItem(r) \in c.items
  /\ c.op \in {"add", "update"} => OwnRow(c)
  /\ c.op = "add" /\ c.row = NoRow => Matching(c.user, c.item) = {}

(***************************************************************************)
(* What a request has read was so when it read it.                         *)
(***************************************************************************)
LEMMA ReadBegins ==
  ASSUME Typed, Owned, NEW h \in Slots, NEW u \in Users, Read(h, u)
  PROVE  \E c : Begins(h, c)
<1>1. /\ \A r \in cart : r.id \in Nat \ {0} /\ r.id \in 0 .. lastRow
      /\ \A r, q \in cart : r.id = q.id => r = q
      /\ 0 \in 0 .. lastRow
  <2>1. lastRow \in Nat /\ \A r \in cart : r.id \in Nat \ {0}
    BY DEF Typed, TypeOK, CartType, CartRow
  <2>2. \A r \in cart : Claims(r.id, r.user)
    BY DEF Claims
  <2>3. QED
    BY <2>1, <2>2 DEF Owned
<1>2. ASSUME NEW i \in Items, ReadForAdd(h, u, i) PROVE \E c : Begins(h, c)
  <2>1. PICK n \in Quantities, id \in IF Matching(u, i) = {} THEN {NoRow}
                                      ELSE {r.id : r \in Matching(u, i)} :
          Begin(h, [op |-> "add", user |-> u, item |-> i, quantity |-> n, row |-> id])
    BY <1>2 DEF ReadForAdd
  <2>2. /\ id = NoRow => Matching(u, i) = {}
        /\ id \in 0 .. lastRow /\ \A r \in cart : r.id = id => r.user = u
    BY <1>1, <2>1 DEF Matching, NoRow
  <2> DEFINE c == [op |-> "add", user |-> u, item |-> i, quantity |-> n, row |-> id]
  <2>3. c.op = "add" /\ c.user = u /\ c.item = i /\ c.row = id
    OBVIOUS
  <2> HIDE DEF c
  <2>4. Begins(h, c)
    BY <2>1, <2>2, <2>3 DEF Begins, OwnRow, c
  <2>5. QED
    BY <2>4
<1>3. ASSUME NEW i \in Items, ReadForBuyNow(h, u, i) PROVE \E c : Begins(h, c)
  <2>1. PICK n, promo, phone :
          Begin(h, [op |-> "order", user |-> u, where |-> [kind |-> "none", ids |-> {}],
                    promo |-> promo, items |-> {[row |-> NoRow, item |-> i, quantity |-> n]},
                    phone |-> phone])
    BY <1>3 DEF ReadForBuyNow
  <2> DEFINE items == {[row |-> NoRow, item |-> i, quantity |-> n]}
             c == [op |-> "order", user |-> u, where |-> [kind |-> "none", ids |-> {}],
                   promo |-> promo, items |-> items, phone |-> phone]
  <2>2. Rows(items) = {}
    BY DEF Rows
  <2> HIDE DEF items
  <2>3. c.op = "order" /\ c.items = items /\ Selected(c.user, c.where) = {}
    BY DEF Selected
  <2>4. Begin(h, c)
    BY <2>1 DEF items
  <2> HIDE DEF c
  <2>5. Begins(h, c)
    BY <2>2, <2>3, <2>4 DEF Begins
  <2>6. QED
    BY <2>5
<1>4. ASSUME ReadForOrder(h, u) PROVE \E c : Begins(h, c)
  <2>1. PICK where \in [kind : {"cart"}, ids : {{}}]
                       \cup [kind : {"ids"}, ids : (SUBSET {r.id : r \in cart}) \ {{}}] :
          \E promo, phone :
            Begin(h, [op |-> "order", user |-> u, where |-> where, promo |-> promo,
                      items |-> {AsItem(r) : r \in Selected(u, where)}, phone |-> phone])
    BY <1>4 DEF ReadForOrder
  <2>2. PICK promo, phone :
          Begin(h, [op |-> "order", user |-> u, where |-> where, promo |-> promo,
                    items |-> {AsItem(r) : r \in Selected(u, where)}, phone |-> phone])
    BY <2>1
  <2> DEFINE items == {AsItem(r) : r \in Selected(u, where)}
             c == [op |-> "order", user |-> u, where |-> where, promo |-> promo,
                   items |-> items, phone |-> phone]
  <2>3. /\ \A id \in Rows(items) : \E r \in Selected(u, where) : r.id = id
        /\ \A r \in Selected(u, where) : AsItem(r) \in items
    BY DEF Rows, AsItem
  <2> HIDE DEF items
  <2>4. c.op = "order" /\ c.items = items /\ c.where = where /\ c.user = u
    OBVIOUS
  <2>5. Begin(h, c)
    BY <2>2 DEF items
  <2> HIDE DEF c
  <2>6. Begins(h, c)
    BY <2>1, <2>3, <2>4, <2>5 DEF Begins, Selected
  <2>7. QED
    BY <2>6
<1>5. ASSUME ReadForUpdate(h, u) PROVE \E c : Begins(h, c)
  <2>1. PICK x \in cart, n \in Quantities :
          x.user = u /\ Begin(h, [op |-> "update", user |-> u, row |-> x.id, quantity |-> n])
    BY <1>5 DEF ReadForUpdate
  <2> DEFINE c == [op |-> "update", user |-> u, row |-> x.id, quantity |-> n]
  <2>2. c.op = "update" /\ c.user = u /\ c.row = x.id
    OBVIOUS
  <2> HIDE DEF c
  <2>3. OwnRow(c)
    BY <1>1, <2>1, <2>2 DEF OwnRow
  <2>4. Begins(h, c)
    BY <2>1, <2>2, <2>3 DEF Begins, c
  <2>5. QED
    BY <2>4
<1>6. ASSUME ReadForRemove(h, u) PROVE \E c : Begins(h, c)
  <2>1. PICK x \in cart : Begin(h, [op |-> "remove", user |-> u, row |-> x.id])
    BY <1>6 DEF ReadForRemove
  <2> DEFINE c == [op |-> "remove", user |-> u, row |-> x.id]
  <2>2. c.op = "remove"
    OBVIOUS
  <2> HIDE DEF c
  <2>3. Begins(h, c)
    BY <2>1, <2>2 DEF Begins, c
  <2>4. QED
    BY <2>3
<1>7. QED
  BY <1>2, <1>3, <1>4, <1>5, <1>6 DEF Read

(***************************************************************************)
(* Every step is one of the four kinds.                                    *)
(***************************************************************************)
LEMMA FourKinds ==
  ASSUME Typed, Owned, [Next]_vars
  PROVE  \/ Quiet
         \/ \E h \in Slots : Inserts(h) \/ Orders(h)
         \/ \E h \in Slots : \E c : Begins(h, c)
<1>1. /\ \A r, s \in cart : r.id = s.id => r = s
      /\ \A r \in cart : r \in CartRow
  BY DEF Owned, Typed, TypeOK, CartType
<1>2. ASSUME cart' \subseteq cart, lastRow' = lastRow, orders' \subseteq orders,
             overlapped \subseteq overlapped',
             \A g \in Slots : request'[g] = request[g] \/ request'[g] = Idle
      PROVE  Quiet
  BY <1>1, <1>2 DEF Quiet
<1>3. ASSUME NEW h \in Slots, Return(h) PROVE Returns(h)
  BY <1>3, ReturnTyped DEF Return, Returns
<1>4. ASSUME NEW h \in Slots, Commit(h) PROVE Quiet \/ Inserts(h) \/ Orders(h)
  <2> DEFINE r == request[h]
  <2>1. Return(h) /\ Returns(h)
    BY <1>3, <1>4 DEF Commit, CommitAdd, CommitUpdate, CommitRemove, CommitOrder, Fail
  <2>2. ASSUME NEW id, NEW n, Increment(id, n) \/ SetQuantity(id, n), orders' = orders
        PROVE  Quiet
    <3>1. PICK f : /\ cart' = {f[x] : x \in cart}
                   /\ \/ f = [x \in cart |->
                               IF x.id = id THEN [x EXCEPT !.quantity = n] ELSE x]
                      \/ f = [x \in cart |->
                               IF x.id = id THEN [x EXCEPT !.quantity = @ + n] ELSE x]
      BY <2>2 DEF Increment, SetQuantity
    <3>2. \A x \in cart : f[x].id = x.id /\ f[x].user = x.user /\ f[x].item = x.item
      BY <1>1, <3>1 DEF CartRow
    <3>3. \A x \in cart' : \E q \in cart : x = f[q]
      BY <3>1
    <3>4. \A x, y \in cart' : x.id = y.id => x = y
      BY <1>1, <3>2, <3>3
    <3>5. lastRow' = lastRow
      BY <2>2 DEF Increment, SetQuantity
    <3>6. QED
      BY <2>1, <2>2, <3>2, <3>3, <3>4, <3>5 DEF Quiet, Returns
  <2>3. CASE Fail(h)
    BY <1>2, <2>1, <2>3 DEF Fail, Returns, cartVars
  <2>4. CASE CommitAdd(h)
    BY <2>1, <2>2, <2>3, <2>4 DEF CommitAdd, Inserts
  <2>5. CASE CommitUpdate(h)
    BY <2>2, <2>3, <2>5 DEF CommitUpdate
  <2>6. CASE CommitRemove(h)
    BY <1>2, <2>1, <2>3, <2>6 DEF CommitRemove, Delete, Returns
  <2>7. CASE CommitOrder(h)
    <3> DEFINE new == [id |-> lastOrder + 1, user |-> r.user, items |-> r.items,
                       promo |-> r.promo, phone |-> r.phone]
    <3>1. new \in Order /\ r.op = "order"
      <4>1. r.op = "order"
        BY <2>7 DEF CommitOrder
      <4>2. /\ r.user \in Users /\ r.items \in (SUBSET Item) \ {{}}
            /\ r.promo \in PromoIds \cup {NoPromo} /\ r.phone \in Phones \cup {NoPhone}
        BY <4>1, RequestFields
      <4>3. lastOrder \in Nat
        BY DEF Typed, TypeOK
      <4>4. QED
        BY <4>1, <4>2, <4>3 DEF Order
    <3>2. new.user = r.user /\ new.items = r.items /\ new.id = lastOrder + 1
      OBVIOUS
    <3>3. \/ Fail(h)
          \/ orders' = orders \cup {new} /\ Delete(Selected(r.user, r.where))
      BY <2>7 DEF CommitOrder
    <3> HIDE DEF new
    <3>4. QED
      BY <2>1, <2>3, <3>1, <3>2, <3>3 DEF Orders
  <2>8. QED
    BY <1>4, <2>4, <2>5, <2>6, <2>7 DEF Commit
<1>5. CASE \E u \in Users : ClearCart(u)
  BY <1>2, <1>5 DEF ClearCart, Delete
<1>6. CASE ClearData \/ Restart \/ Admin \/ UNCHANGED vars
  <2>1. CASE Restart
    BY <1>2, <2>1 DEF Restart, cartVars
  <2>2. CASE ClearData
    BY <1>2, <2>2 DEF ClearData, requestVars
  <2>3. CASE Admin \/ UNCHANGED vars
    BY <1>2, <2>3 DEF Admin, vars, cartVars, requestVars
  <2>4. QED
    BY <1>6, <2>1, <2>2, <2>3
<1>7. ASSUME NEW h \in Slots, NEW u \in Users, Read(h, u) PROVE \E c : Begins(h, c)
  BY <1>7, ReadBegins
<1>8. QED
  BY <1>4, <1>5, <1>6, <1>7 DEF Next
-----------------------------------------------------------------------------
(***************************************************************************)
(* A row changes hands never: the only claim that is new is the one on a   *)
(* row inserted with an id of its own.                                     *)
(***************************************************************************)
LEMMA OwnedStep ==
  ASSUME Typed, Owned, [Next]_vars
  PROVE  Owned'
<1>1. lastRow \in Nat
  BY DEF Typed, TypeOK, CartType
<1>2. ASSUME \A id, u : Claims(id, u)' => Claims(id, u), lastRow' = lastRow,
             \A r, s \in cart' : r.id = s.id => r = s
      PROVE  Owned'
  BY <1>2 DEF Owned
<1>3. CASE Quiet
  <2>1. \A id, u : Claims(id, u)' => Claims(id, u)
    BY <1>3 DEF Quiet, Claims, Idle
  <2>2. QED
    BY <1>2, <1>3, <2>1 DEF Quiet
<1>4. ASSUME NEW h \in Slots, Orders(h) PROVE Owned'
  <2>1. PICK new \in Order :
          /\ orders' = orders \cup {new}
          /\ new.user = request[h].user /\ new.items = request[h].items
    BY <1>4 DEF Orders
  <2>2. cart' \subseteq cart /\ lastRow' = lastRow
    BY <1>4 DEF Orders, Delete
  <2>3. \A g \in Slots : request'[g] = request[g] \/ request'[g].op = "idle"
    BY <1>4 DEF Orders, Returns, Idle
  <2>4. \A id, u : Claims(id, u)' => Claims(id, u)
    BY <1>4, <2>1, <2>2, <2>3 DEF Claims, Orders
  <2>5. QED
    BY <1>2, <2>2, <2>4 DEF Owned
<1>5. ASSUME NEW h \in Slots, NEW c, Begins(h, c) PROVE Owned'
  <2>1. /\ UNCHANGED <<cart, lastRow, orders>>
        /\ \A g \in Slots : request'[g] = IF g = h THEN c ELSE request[g]
    BY <1>5 DEF Begins, Begin, cartVars, Typed, Redeems
  <2>2. \A id, u : Claims(id, u)' => Claims(id, u)
    BY <1>5, <2>1 DEF Claims, Begins
  <2>3. QED
    BY <1>2, <2>1, <2>2 DEF Owned
<1>6. ASSUME NEW h \in Slots, Inserts(h) PROVE Owned'
  <2> DEFINE new == [id |-> lastRow + 1, user |-> request[h].user,
                     item |-> request[h].item, quantity |-> request[h].quantity]
  <2>1. /\ cart' = cart \cup {new} /\ new.id = lastRow + 1
        /\ lastRow' = lastRow + 1 /\ orders' = orders
        /\ \A g \in Slots : request'[g] = request[g] \/ request'[g].op = "idle"
    BY <1>6 DEF Inserts, Insert, Returns, Idle
  <2> HIDE DEF new
  <2>2. \A id, u : Claims(id, u)' => Claims(id, u) \/ (id = new.id /\ u = new.user)
    BY <2>1 DEF Claims
  <2>3. \A u : ~Claims(new.id, u)
    BY <1>1, <2>1 DEF Owned
  <2>4. \A r \in cart : r.id # new.id
    BY <2>3 DEF Claims
  <2>5. \A id, u : Claims(id, u)' => id \in Nat /\ id <= lastRow'
    <3>1. ASSUME NEW id, NEW u, Claims(id, u) PROVE id \in Nat /\ id <= lastRow + 1
      <4>1. id \in Nat /\ id <= lastRow
        BY <3>1 DEF Owned
      <4>2. QED
        BY <1>1, <4>1
    <3>2. new.id \in Nat /\ new.id <= lastRow + 1
      BY <1>1, <2>1
    <3>3. QED
      BY <2>1, <2>2, <3>1, <3>2
  <2>6. \A id, u, v : Claims(id, u)' /\ Claims(id, v)' => u = v
    BY <2>2, <2>3 DEF Owned
  <2>7. \A r, s \in cart' : r.id = s.id => r = s
    BY <2>1, <2>4 DEF Owned
  <2>8. QED
    BY <2>5, <2>6, <2>7 DEF Owned
<1>7. QED
  BY <1>3, <1>4, <1>5, <1>6, FourKinds

(***************************************************************************)
(* A buyer who never had two requests in flight has at most one.           *)
(***************************************************************************)
LEMMA OneAtATimeStep ==
  ASSUME Typed, Owned, OneAtATime, [Next]_vars
  PROVE  OneAtATime'
<1> USE DEF OneAtATime, Busy
<1>1. Idle.op = "idle"
  BY DEF Idle
<1>2. CASE Quiet
  BY <1>1, <1>2 DEF Quiet
<1>3. ASSUME NEW h \in Slots, Returns(h) PROVE OneAtATime'
  BY <1>1, <1>3 DEF Returns
<1>4. ASSUME NEW h \in Slots, NEW c, Begins(h, c) PROVE OneAtATime'
  <2>1. /\ \A g \in Slots : request'[g] = IF g = h THEN c ELSE request[g]
        /\ overlapped' = IF InFlight(c.user) = {} THEN overlapped
                                                 ELSE overlapped \cup {c.user}
    BY <1>4 DEF Begins, Begin, Typed, Redeems
  <2>2. QED
    BY <2>1 DEF InFlight
<1>5. QED
  BY <1>2, <1>3, <1>4, FourKinds DEF Inserts, Orders

(***************************************************************************)
(* The `where` clause of a checkout goes on selecting the rows it read.    *)
(***************************************************************************)
LEMMA SelectsStep ==
  ASSUME Typed, Owned, Selects, [Next]_vars
  PROVE  Selects'
<1> USE DEF Selects
<1>1. ASSUME \A g \in Slots : request'[g] = request[g] \/ request'[g] = Idle PROVE Selects'
  BY <1>1 DEF Idle
<1>2. ASSUME NEW h \in Slots, NEW c, Begins(h, c) PROVE Selects'
  <2>1. \A g \in Slots : request'[g] = IF g = h THEN c ELSE request[g]
    BY <1>2 DEF Begins, Begin, Typed, Redeems
  <2>2. QED
    BY <1>2, <2>1 DEF Begins
<1>3. QED
  BY <1>1, <1>2, FourKinds DEF Quiet, Inserts, Orders, Returns

(***************************************************************************)
(* An order takes its rows out of the cart, and no later row has the id.   *)
(***************************************************************************)
LEMMA OrderedGoneStep ==
  ASSUME Typed, Owned, Selects, OrderedGone, [Next]_vars
  PROVE  OrderedGone'
<1> USE DEF OrderedGone
<1>1. CASE Quiet
  BY <1>1 DEF Quiet
<1>2. ASSUME NEW h \in Slots, Inserts(h) PROVE OrderedGone'
  <2> DEFINE new == [id |-> lastRow + 1, user |-> request[h].user,
                     item |-> request[h].item, quantity |-> request[h].quantity]
  <2>1. cart' = cart \cup {new} /\ new.id = lastRow + 1 /\ orders' = orders
    BY <1>2 DEF Inserts, Insert
  <2> HIDE DEF new
  <2>2. lastRow \in Nat
    BY DEF Typed, TypeOK, CartType
  <2>3. \A o \in orders : new.id \notin Rows(o.items)
    <3>1. ASSUME NEW o \in orders, new.id \in Rows(o.items) PROVE FALSE
      <4>1. Claims(new.id, o.user)
        BY <3>1 DEF Claims
      <4>2. QED
        BY <2>1, <2>2, <4>1 DEF Owned
    <3>2. QED
      BY <3>1
  <2>4. QED
    BY <2>1, <2>3
<1>3. ASSUME NEW h \in Slots, Orders(h) PROVE OrderedGone'
  <2>1. PICK new \in Order :
          /\ orders' = orders \cup {new}
          /\ new.user = request[h].user /\ new.items = request[h].items
    BY <1>3 DEF Orders
  <2>2. cart' = cart \ Selected(request[h].user, request[h].where)
    BY <1>3 DEF Orders, Delete
  <2>3. ASSUME NEW r \in cart', r.id \in Rows(new.items) PROVE FALSE
    <3>1. r \in cart /\ r \notin Selected(request[h].user, request[h].where)
      BY <2>2
    <3>2. Claims(r.id, r.user) /\ Claims(r.id, request[h].user)
      BY <1>3, <2>1, <2>3, <3>1 DEF Claims, Orders
    <3>3. r.user = request[h].user
      BY <3>2 DEF Owned
    <3>4. QED
      BY <1>3, <2>1, <2>3, <3>1, <3>3 DEF Selected, Selects, Orders
  <2>4. QED
    BY <2>1, <2>2, <2>3
<1>4. ASSUME NEW h \in Slots, NEW c, Begins(h, c) PROVE OrderedGone'
  BY <1>4 DEF Begins, Begin, cartVars
<1>5. QED
  BY <1>1, <1>2, <1>3, <1>4, FourKinds

(***************************************************************************)
(* What a buyer with one request in flight is about to order has not been  *)
(* ordered since it was read: another buyer cannot own the rows, and this  *)
(* one has no second request.                                              *)
(***************************************************************************)
LEMMA NotYetOrderedStep ==
  ASSUME Typed, Owned, OneAtATime, OrderedGone, NotYetOrdered, [Next]_vars
  PROVE  NotYetOrdered'
<1> USE DEF NotYetOrdered
<1>1. ASSUME orders' \subseteq orders, overlapped \subseteq overlapped',
             \A g \in Slots : request'[g] = request[g] \/ request'[g] = Idle
      PROVE  NotYetOrdered'
  BY <1>1 DEF Idle
<1>2. ASSUME NEW h \in Slots, Orders(h) PROVE NotYetOrdered'
  <2>1. PICK new \in Order :
          /\ orders' = orders \cup {new}
          /\ new.user = request[h].user /\ new.items = request[h].items
    BY <1>2 DEF Orders
  <2>2. overlapped' = overlapped /\ request[h].op = "order"
        /\ \A g \in Slots : request'[g] = IF g = h THEN Idle ELSE request[g]
    BY <1>2 DEF Orders, Returns
  <2>3. ASSUME NEW g \in Slots, g # h, request[g].op = "order",
               request[g].user \notin overlapped,
               NEW id, id \in Rows(request[g].items), id \in Rows(new.items)
        PROVE  FALSE
    <3>1. Claims(id, request[g].user) /\ Claims(id, request[h].user)
      BY <2>1, <2>2, <2>3 DEF Claims
    <3>2. request[g].user = request[h].user
      BY <3>1 DEF Owned
    <3>3. QED
      BY <2>2, <2>3, <3>2 DEF OneAtATime, Busy
  <2>4. QED
    BY <2>1, <2>2, <2>3 DEF Idle
<1>3. ASSUME NEW h \in Slots, NEW c, Begins(h, c) PROVE NotYetOrdered'
  <2>1. /\ \A g \in Slots : request'[g] = IF g = h THEN c ELSE request[g]
        /\ orders' = orders /\ overlapped \subseteq overlapped'
    BY <1>3 DEF Begins, Begin, Typed, Redeems
  <2>2. c.op = "order" => \A o \in orders, id \in Rows(c.items) : id \notin Rows(o.items)
    BY <1>3 DEF Begins, OrderedGone
  <2>3. QED
    BY <2>1, <2>2
<1>4. QED
  BY <1>1, <1>2, <1>3, FourKinds DEF Quiet, Inserts, Returns

(***************************************************************************)
(* No cart row is bought twice by a buyer without overlapping requests.    *)
(***************************************************************************)
LEMMA OrderedOnceStep ==
  ASSUME Typed, Bought, [Next]_vars
  PROVE  OrderedOnce'
<1> USE DEF OrderedOnce
<1>1. OrderedOnce
  BY DEF Bought
<1>2. ASSUME orders' \subseteq orders, overlapped \subseteq overlapped' PROVE OrderedOnce'
  BY <1>1, <1>2
<1>3. ASSUME NEW h \in Slots, Orders(h) PROVE OrderedOnce'
  <2>1. PICK new \in Order :
          /\ orders' = orders \cup {new}
          /\ new.user = request[h].user /\ new.items = request[h].items
    BY <1>3 DEF Orders
  <2>2. overlapped' = overlapped /\ request[h].op = "order"
    BY <1>3 DEF Orders, Returns
  <2>3. \A o : \A x \in FromCart(o) : x.row \in Rows(o.items)
    BY DEF FromCart, Rows
  <2>4. ASSUME NEW o \in orders, o.user \notin overlapped \/ new.user \notin overlapped,
               NEW id, id \in Rows(o.items), id \in Rows(new.items)
        PROVE  FALSE
    <3>1. Claims(id, o.user) /\ Claims(id, new.user)
      BY <2>1, <2>2, <2>4 DEF Claims
    <3>2. o.user = new.user
      BY <3>1 DEF Bought, Owned
    <3>3. QED
      BY <2>1, <2>2, <2>4, <3>2 DEF Bought, NotYetOrdered
  <2>5. \A o \in orders : o.user \notin overlapped \/ new.user \notin overlapped =>
          \A x \in FromCart(o), y \in FromCart(new) : x.row # y.row
    BY <2>3, <2>4
  <2>6. QED
    BY <1>1, <2>1, <2>2, <2>5
<1>4. QED
  BY <1>2, <1>3, FourKinds DEF Quiet, Inserts, Returns, Begins, Begin, Bought

(***************************************************************************)
(* A line a buyer with one request in flight did not find is still not     *)
(* there.                                                                  *)
(***************************************************************************)
LEMMA StillNewStep ==
  ASSUME Typed, Owned, OneAtATime, StillNew, [Next]_vars
  PROVE  StillNew'
<1> USE DEF StillNew
<1>1. ASSUME \A r \in cart' : \E q \in cart : q.user = r.user /\ q.item = r.item
      PROVE  \A u, i : Matching(u, i) = {} => Matching(u, i)' = {}
  BY <1>1 DEF Matching
<1>2. ASSUME \A r \in cart' : \E q \in cart : q.user = r.user /\ q.item = r.item,
             overlapped \subseteq overlapped',
             \A g \in Slots : request'[g] = request[g] \/ request'[g] = Idle
      PROVE  StillNew'
  BY <1>1, <1>2 DEF Idle
<1>3. CASE Quiet
  BY <1>2, <1>3 DEF Quiet
<1>4. ASSUME NEW h \in Slots, Orders(h) PROVE StillNew'
  BY <1>2, <1>4 DEF Orders, Delete, Returns
<1>5. ASSUME NEW h \in Slots, Inserts(h) PROVE StillNew'
  <2> DEFINE new == [id |-> lastRow + 1, user |-> request[h].user,
                     item |-> request[h].item, quantity |-> request[h].quantity]
  <2>1. /\ cart' = cart \cup {new} /\ new.user = request[h].user
        /\ request[h].op = "add" /\ overlapped' = overlapped
        /\ \A g \in Slots : request'[g] = IF g = h THEN Idle ELSE request[g]
    BY <1>5 DEF Inserts, Insert, Returns
  <2> HIDE DEF new
  <2>2. ASSUME NEW g \in Slots, g # h, request[g].op = "add", request[g].row = NoRow,
               request[g].user \notin overlapped
        PROVE  Matching(request[g].user, request[g].item)' = {}
    <3>1. request[g].user # new.user
      BY <2>1, <2>2 DEF OneAtATime, Busy
    <3>2. request'[g] = request[g]
      BY <2>1, <2>2
    <3>3. QED
      BY <2>1, <2>2, <3>1, <3>2 DEF Matching
  <2>3. QED
    BY <2>1, <2>2 DEF Idle
<1>6. ASSUME NEW h \in Slots, NEW c, Begins(h, c) PROVE StillNew'
  <2>1. /\ \A g \in Slots : request'[g] = IF g = h THEN c ELSE request[g]
        /\ cart' = cart /\ overlapped \subseteq overlapped'
    BY <1>6 DEF Begins, Begin, cartVars, Typed, Redeems
  <2>2. QED
    BY <1>6, <2>1 DEF Begins, Matching
<1>7. QED
  BY <1>3, <1>4, <1>5, <1>6, FourKinds

(***************************************************************************)
(* No second line of an item appears in the cart of a buyer with one       *)
(* request at a time, nor of anyone for an item the unique index covers.   *)
(***************************************************************************)
LEMMA OneLineStep ==
  ASSUME Typed, Merged, [Next]_vars
  PROVE  OneLinePerItem'
<1> USE DEF OneLinePerItem
<1>1. OneLinePerItem /\ Owned
  BY DEF Merged
<1>2. CASE Quiet
  <2> SUFFICES ASSUME NEW r \in cart', NEW s \in cart', r.user = s.user, r.item = s.item,
                      r.item \in Sized \/ r.user \notin overlapped'
               PROVE  r = s
    OBVIOUS
  <2>1. PICK p \in cart : p.id = r.id /\ p.user = r.user /\ p.item = r.item
    BY <1>2 DEF Quiet
  <2>2. PICK q \in cart : q.id = s.id /\ q.user = s.user /\ q.item = s.item
    BY <1>2 DEF Quiet
  <2>3. p = q
    BY <1>1, <1>2, <2>1, <2>2 DEF Quiet
  <2>4. QED
    BY <1>2, <2>1, <2>2, <2>3 DEF Quiet
<1>3. ASSUME NEW h \in Slots, Inserts(h) PROVE OneLinePerItem'
  <2> DEFINE new == [id |-> lastRow + 1, user |-> request[h].user,
                     item |-> request[h].item, quantity |-> request[h].quantity]
  <2>1. /\ cart' = cart \cup {new} /\ overlapped' = overlapped
        /\ new.user = request[h].user /\ new.item = request[h].item
        /\ new.item \in Sized => Matching(new.user, new.item) = {}
    BY <1>3 DEF Inserts, Insert, Insertable, Returns
  <2>2. new.user \notin overlapped => Matching(new.user, new.item) = {}
    BY <1>3, <2>1 DEF Inserts, Merged, StillNew
  <2> HIDE DEF new
  <2>3. QED
    BY <1>1, <2>1, <2>2 DEF Matching
<1>4. ASSUME cart' \subseteq cart, overlapped \subseteq overlapped' PROVE OneLinePerItem'
  BY <1>1, <1>4
<1>5. ASSUME NEW h \in Slots, Orders(h) PROVE OneLinePerItem'
  BY <1>4, <1>5 DEF Orders, Delete, Returns
<1>6. ASSUME NEW h \in Slots, NEW c, Begins(h, c) PROVE OneLinePerItem'
  BY <1>4, <1>6 DEF Begins, Begin, cartVars
<1>7. QED
  BY <1>1, <1>2, <1>3, <1>5, <1>6, FourKinds

(***************************************************************************)
(* At the beginning nothing is in a cart, ordered or asked for.            *)
(***************************************************************************)
LEMMA NothingYet == Init => Bought /\ Merged
<1> SUFFICES ASSUME Init PROVE Bought /\ Merged
  OBVIOUS
<1>1. cart = {} /\ orders = {} /\ \A h \in Slots : request[h].op = "idle"
  BY DEF Init, InitCart, Idle
<1>2. QED
  BY <1>1 DEF Bought, Merged, Owned, Claims, OneAtATime, Busy, Selects, OrderedGone,
              NotYetOrdered, OrderedOnce, StillNew, OneLinePerItem

(***************************************************************************)
(* The cart of a buyer without overlapping requests is bought once: no two *)
(* orders contain the same cart row.                                       *)
(***************************************************************************)
THEOREM BoughtOnce == Spec => []OrderedOnce
<1>1. Typed /\ Bought /\ [Next]_vars => Bought'
  BY OwnedStep, OneAtATimeStep, SelectsStep, OrderedGoneStep, NotYetOrderedStep,
     OrderedOnceStep DEF Bought
<1>2. Bought => OrderedOnce
  BY DEF Bought
<1>3. QED
  BY InitTyped, NextTyped, NothingYet, <1>1, <1>2, PTL DEF Spec

(***************************************************************************)
(* CartService.add merges identical lines: at most one line per item for a *)
(* buyer without overlapping requests, and for every buyer where the       *)
(* unique index applies.                                                   *)
(***************************************************************************)
THEOREM LinesMerged == Spec => []OneLinePerItem
<1>1. Typed /\ Merged /\ [Next]_vars => Merged'
  BY OwnedStep, OneAtATimeStep, StillNewStep, OneLineStep DEF Merged
<1>2. Merged => OneLinePerItem
  BY DEF Merged
<1>3. QED
  BY InitTyped, NextTyped, NothingYet, <1>1, <1>2, PTL DEF Spec
-----------------------------------------------------------------------------
(***************************************************************************)
(* A row that appears in a cart, or changes there, is that of a buyer who  *)
(* has a request to add or to update in flight.                            *)
(***************************************************************************)
LEMMA RowsTraced ==
  ASSUME Typed, Owned, KnowsOwnRow, [Next]_vars, NEW r \in cart'
  PROVE  r \in cart \/ \E h \in Slots : /\ request[h].op \in {"add", "update"}
                                        /\ request[h].user = r.user
<1>1. \A q \in cart : q \in CartRow
  BY DEF Typed, TypeOK, CartType
<1>2. CASE cart' \subseteq cart
  BY <1>2
<1>3. ASSUME NEW h \in Slots, request[h].op \in {"add", "update"}, NEW n,
             Increment(request[h].row, n) \/ SetQuantity(request[h].row, n)
      PROVE  r \in cart \/ r.user = request[h].user
  <2> DEFINE id == request[h].row
  <2>1. PICK q \in cart : \/ r = IF q.id = id THEN [q EXCEPT !.quantity = n] ELSE q
                          \/ r = IF q.id = id THEN [q EXCEPT !.quantity = @ + n] ELSE q
    BY <1>3 DEF Increment, SetQuantity
  <2>2. q.id = id => r.user = q.user
    BY <1>1, <2>1 DEF CartRow
  <2>3. q.id = id => q.user = request[h].user
    BY <1>3 DEF KnowsOwnRow, OwnRow
  <2>4. QED
    BY <2>1, <2>2, <2>3
<1>4. ASSUME NEW h \in Slots, CommitAdd(h)
      PROVE  r \in cart \/ (request[h].op = "add" /\ r.user = request[h].user)
  <2>1. CASE Insert(request[h].user, request[h].item, request[h].quantity)
    BY <1>4, <2>1 DEF CommitAdd, Insert
  <2>2. QED
    BY <1>3, <1>4, <2>1 DEF CommitAdd, Fail, cartVars
<1>5. ASSUME NEW h \in Slots, CommitUpdate(h)
      PROVE  r \in cart \/ (request[h].op = "update" /\ r.user = request[h].user)
  BY <1>3, <1>5 DEF CommitUpdate, Fail, cartVars
<1>6. ASSUME NEW h \in Slots, CommitRemove(h) \/ CommitOrder(h) PROVE cart' \subseteq cart
  BY <1>6 DEF CommitRemove, CommitOrder, Delete, Fail, cartVars
<1>7. ASSUME NEW h \in Slots, NEW u \in Users, Read(h, u) PROVE cart' \subseteq cart
  <2>1. PICK c : Begins(h, c)
    BY <1>7, ReadBegins
  <2>2. QED
    BY <2>1 DEF Begins, Begin, cartVars
<1>8. CASE (\E u \in Users : ClearCart(u)) \/ ClearData \/ Restart \/ Admin \/ UNCHANGED vars
  BY <1>8 DEF ClearCart, Delete, ClearData, Restart, Admin, vars, cartVars
<1>9. QED
  BY <1>2, <1>4, <1>5, <1>6, <1>7, <1>8 DEF Next, Commit

(***************************************************************************)
(* A request goes on knowing its own row: ids are not reused and rows do   *)
(* not change hands.                                                       *)
(***************************************************************************)
LEMMA KnowsOwnRowStep ==
  ASSUME Typed, Owned, KnowsOwnRow, [Next]_vars
  PROVE  KnowsOwnRow'
<1> USE DEF KnowsOwnRow, OwnRow
<1>1. lastRow \in Nat /\ Idle.op = "idle"
  BY DEF Typed, TypeOK, CartType, Idle
<1>2. CASE Quiet
  <2>1. \A r \in cart' : \E q \in cart : q.id = r.id /\ q.user = r.user
    BY <1>2 DEF Quiet
  <2>2. QED
    BY <1>1, <1>2, <2>1 DEF Quiet
<1>3. ASSUME NEW h \in Slots, Inserts(h) PROVE KnowsOwnRow'
  <2> DEFINE new == [id |-> lastRow + 1, user |-> request[h].user,
                     item |-> request[h].item, quantity |-> request[h].quantity]
  <2>1. cart' = cart \cup {new} /\ new.id = lastRow + 1 /\ lastRow' = lastRow + 1
    BY <1>3 DEF Inserts, Insert
  <2> HIDE DEF new
  <2>2. \A g \in Slots : request'[g] = request[g] \/ request'[g] = Idle
    BY <1>3 DEF Inserts, Returns
  <2>3. QED
    BY <1>1, <2>1, <2>2
<1>4. ASSUME NEW h \in Slots, Orders(h) PROVE KnowsOwnRow'
  BY <1>1, <1>4 DEF Orders, Delete, Returns
<1>5. ASSUME NEW h \in Slots, NEW c, Begins(h, c) PROVE KnowsOwnRow'
  <2>1. /\ \A g \in Slots : request'[g] = IF g = h THEN c ELSE request[g]
        /\ UNCHANGED <<cart, lastRow>>
    BY <1>5 DEF Begins, Begin, cartVars, Typed, Redeems
  <2>2. QED
    BY <1>5, <2>1 DEF Begins
<1>6. QED
  BY <1>2, <1>3, <1>4, <1>5, FourKinds

(***************************************************************************)
(* While a buyer with one request at a time checks out, nothing appears    *)
(* among the rows he selected and none of them changes: only a request of  *)
(* his own could do that.                                                  *)
(***************************************************************************)
LEMMA AsReadStep ==
  ASSUME Typed, Owned, OneAtATime, KnowsOwnRow, AsRead, [Next]_vars
  PROVE  AsRead'
<1> SUFFICES ASSUME NEW h \in Slots, request'[h].op = "order",
                    request'[h].user \notin overlapped',
                    NEW r \in Selected(request[h].user, request[h].where)'
             PROVE  AsItem(r) \in request'[h].items
  BY DEF AsRead, AsItem
<1>1. CASE request'[h] = request[h] /\ overlapped \subseteq overlapped'
  <2>1. r \in cart' /\ r.user = request[h].user
    BY <1>1 DEF Selected
  <2>2. r \in cart
    BY <1>1, <2>1, RowsTraced DEF OneAtATime, Busy
  <2>3. r \in Selected(request[h].user, request[h].where)
    BY <1>1, <2>2 DEF Selected
  <2>4. QED
    BY <1>1, <2>3 DEF AsRead
<1>2. CASE Quiet
  BY <1>1, <1>2 DEF Quiet, Idle
<1>3. ASSUME NEW g \in Slots, Returns(g) PROVE request'[h] = request[h] /\ overlapped' = overlapped
  BY <1>3 DEF Returns, Idle
<1>4. ASSUME NEW g \in Slots, NEW c, Begins(g, c) PROVE AsItem(r) \in request'[h].items
  <2>1. /\ \A k \in Slots : request'[k] = IF k = g THEN c ELSE request[k]
        /\ cart' = cart /\ overlapped \subseteq overlapped'
    BY <1>4 DEF Begins, Begin, cartVars, Typed, Redeems
  <2>2. CASE g # h
    BY <1>1, <2>1, <2>2
  <2>3. CASE g = h
    BY <1>4, <2>1, <2>3 DEF Begins, Selected
  <2>4. QED
    BY <2>2, <2>3
<1>5. QED
  BY <1>1, <1>2, <1>3, <1>4, FourKinds DEF Inserts, Orders

(***************************************************************************)
(* What a checkout takes out of the cart is what it ordered, and all of it.*)
(***************************************************************************)
LEMMA CheckoutClears ==
  ASSUME Typed, Owned, OrderIds, AsRead, OrderedGone', [Next]_vars,
         NEW o \in Placed, o.user \notin overlapped
  PROVE  /\ {AsItem(r) : r \in cart \ cart'} \subseteq FromCart(o)
         /\ \A x \in FromCart(o) : ~\E r \in cart' : r.id = x.row
<1>1. o \in orders' /\ o \notin orders
  BY DEF Placed, OrderIds, Typed, TypeOK
<1>2. PICK h \in Slots : Orders(h)
  <2>1. ~Quiet /\ ~(\E h \in Slots : Inserts(h)) /\ ~(\E h \in Slots : \E c : Begins(h, c))
    BY <1>1 DEF Quiet, Inserts, Begins, Begin
  <2>2. QED
    BY <2>1, FourKinds
<1>3. /\ o.user = request[h].user /\ o.items = request[h].items /\ request[h].op = "order"
      /\ cart' = cart \ Selected(request[h].user, request[h].where)
  BY <1>1, <1>2 DEF Orders, Delete
<1>4. \A r \in cart \ cart' : AsItem(r) \in o.items
  BY <1>3 DEF AsRead
<1>5. \A r \in cart : AsItem(r).row # NoRow
  BY DEF AsItem, NoRow, Typed, TypeOK, CartType, CartRow
<1>6. {AsItem(r) : r \in cart \ cart'} \subseteq FromCart(o)
  BY <1>4, <1>5 DEF FromCart
<1>7. \A x \in FromCart(o) : x.row \in Rows(o.items)
  BY DEF FromCart, Rows
<1>8. QED
  BY <1>1, <1>6, <1>7 DEF OrderedGone

(***************************************************************************)
(* A checkout only clears the items that were actually ordered, with the   *)
(* quantities they had, and leaves none of them, for a buyer without       *)
(* overlapping requests: createFromCart deletes by its `where` clause, not *)
(* by what it read, but nothing came in between.                           *)
(***************************************************************************)
THEOREM ClearsOrdered == Spec => OnlyOrderedCleared
<1>1. Init => Unchanged
  BY NothingYet DEF Unchanged, KnowsOwnRow, AsRead, Init, Idle
<1>2. Typed /\ Bought /\ Unchanged /\ [Next]_vars => Unchanged'
  BY KnowsOwnRowStep, AsReadStep DEF Bought, Unchanged
<1>3. Typed /\ Bought /\ [Next]_vars => Bought'
  BY OwnedStep, OneAtATimeStep, SelectsStep, OrderedGoneStep, NotYetOrderedStep,
     OrderedOnceStep DEF Bought
<1>4. Typed /\ Account /\ Bought /\ Bought' /\ Unchanged /\ [Next]_vars =>
        [\A o \in Placed : o.user \notin overlapped =>
           /\ {AsItem(r) : r \in cart \ cart'} \subseteq FromCart(o)
           /\ \A x \in FromCart(o) : ~\E r \in cart' : r.id = x.row]_vars
  BY CheckoutClears DEF Account, Bought, Unchanged
<1>5. QED
  BY InitTyped, NextTyped, NothingYet, AccountInit, AccountNext, <1>1, <1>2, <1>3, <1>4, PTL
     DEF Spec, OnlyOrderedCleared
=============================================================================
