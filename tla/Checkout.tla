------------------------------ MODULE Checkout ------------------------------
(***************************************************************************)
(* A buyer's requests on the cart and the checkout: CartService.add,       *)
(* updateQuantity, remove and clear, OrderService.createFromCart with the  *)
(* promo code it redeems, the admin's promo codes and data reset, and a    *)
(* restart of the process.                                                 *)
(*                                                                         *)
(* A buyer may have several tabs open, press a button twice or retry, so   *)
(* one user may have several requests in flight. Each request reads first  *)
(* and writes later, so it is a read step followed by a commit step; a     *)
(* request that is refused by what it read (nothing on stock, a withdrawn  *)
(* product, somebody else's row) changes nothing and is not begun.         *)
(***************************************************************************)
EXTENDS Cart, PromoCode

CONSTANTS
  Slots,        \* request slots: how many requests can be in flight
  Quantities,   \* quantities a buyer enters
  NoPromo,      \* a checkout that redeems no code
  MaxRequests   \* bound on the number of requests

ASSUME CheckoutAssumption ==
  /\ Quantities \subseteq Quantity
  /\ NoPromo \notin PromoIds
  /\ MaxRequests \in Nat

VARIABLES
  orders,      \* the rows of orders with their items and discount
  lastOrder,   \* the last order id given out
  request,     \* what each slot is executing
  requests,    \* requests begun so far
  overlapped   \* users who at some time had two requests in flight

requestVars == <<request, requests, overlapped>>
vars == <<cartVars, promoVars, orders, lastOrder, requestVars>>

\* An order item, with the cart row it came from (NoRow for "buy now").
Item == [row : Nat, item : Items, quantity : Quantity]
Order == [id : Nat \ {0}, user : Users, items : (SUBSET Item) \ {{}},
          promo : PromoIds \cup {NoPromo}, phone : Phones \cup {NoPhone}]

\* cartItemWhere of createFromCart: no row, all rows of the user, or the rows
\* with the given ids among them.
Where == [kind : {"none", "cart"}, ids : {{}}] \cup [kind : {"ids"}, ids : SUBSET Nat]

Request ==
  [op : {"idle"}]
  \cup [op : {"add"}, user : Users, item : Items, quantity : Quantity, row : Nat]
  \cup [op : {"update"}, user : Users, row : Nat, quantity : Quantity]
  \cup [op : {"remove"}, user : Users, row : Nat]
  \cup [op : {"order"}, user : Users, items : (SUBSET Item) \ {{}}, where : Where,
        promo : PromoIds \cup {NoPromo}, phone : Phones \cup {NoPhone}]
Idle == [op |-> "idle"]

TypeOK ==
  /\ CartType /\ PromoType
  /\ \A o \in orders : o \in Order
  /\ lastOrder \in Nat
  /\ \A h \in Slots : request[h] \in Request
  /\ requests \in Nat
  /\ overlapped \subseteq Users

Init ==
  /\ InitCart /\ InitPromo
  /\ orders = {} /\ lastOrder = 0
  /\ request = [h \in Slots |-> Idle]
  /\ requests = 0
  /\ overlapped = {}
-----------------------------------------------------------------------------
Busy(h) == request[h].op # "idle"
InFlight(u) == {h \in Slots : Busy(h) /\ request[h].user = u}

Begin(h, r) ==
  /\ ~Busy(h)
  /\ requests < MaxRequests
  /\ request' = [request EXCEPT ![h] = r]
  /\ requests' = requests + 1
  /\ overlapped' = IF InFlight(r.user) = {} THEN overlapped ELSE overlapped \cup {r.user}
  /\ UNCHANGED <<cartVars, promoVars, orders, lastOrder>>

\* Mutant of ReadForAdd: identical lines are not looked for.
ReadForAddNew(h, u, i) ==
  \E n \in Quantities :
    Begin(h, [op |-> "add", user |-> u, item |-> i, quantity |-> n, row |-> NoRow])

\* add: findFirst returns one of the rows of the same item, if there is one.
ReadForAdd(h, u, i) ==
  \E n \in Quantities :
  \E id \in IF Matching(u, i) = {} THEN {NoRow} ELSE {r.id : r \in Matching(u, i)} :
    Begin(h, [op |-> "add", user |-> u, item |-> i, quantity |-> n, row |-> id])

\* updateQuantity and remove: the row must be the caller's.
ReadForUpdate(h, u) ==
  \E r \in cart, n \in Quantities :
    /\ r.user = u
    /\ Begin(h, [op |-> "update", user |-> u, row |-> r.id, quantity |-> n])

ReadForRemove(h, u) ==
  \E r \in cart :
    /\ r.user = u
    /\ Begin(h, [op |-> "remove", user |-> u, row |-> r.id])

\* The rows a `where` clause of user u selects at this moment.
Selected(u, where) ==
  {r \in cart : /\ r.user = u
                /\ \/ where.kind = "cart"
                   \/ where.kind = "ids" /\ r.id \in where.ids}

AsItem(r) == [row |-> r.id, item |-> r.item, quantity |-> r.quantity]

\* The promo code a checkout takes along: none entered, entered and refused
\* (which does not stop the order), or one that evaluate found valid.
Redeemable(code, spelling) == {NoPromo} \cup Usable(code, spelling)

\* Mutant of ReadForOrder: an empty selection is not refused.
ReadForOrderOfNothing(h, u) ==
  \E where \in [kind : {"ids"}, ids : (SUBSET {r.id : r \in cart}) \ {{}}] :
    Begin(h, [op |-> "order", user |-> u, where |-> where, promo |-> NoPromo,
              items |-> {AsItem(r) : r \in Selected(u, where)}, phone |-> NoPhone])

\* createFromCart up to its transaction, for the whole cart or for the rows
\* the buyer ticked.
ReadForOrder(h, u) ==
  \E code \in Codes, spelling \in Spellings :
  \E where \in [kind : {"cart"}, ids : {{}}]
               \cup [kind : {"ids"}, ids : (SUBSET {r.id : r \in cart}) \ {{}}] :
  \E promo \in Redeemable(code, spelling) :
    /\ Selected(u, where) # {}
    /\ Begin(h, [op |-> "order", user |-> u, where |-> where, promo |-> promo,
                 items |-> {AsItem(r) : r \in Selected(u, where)},
                 phone |-> NormalPhone[spelling]])

\* The same for "buy now", which does not look at the cart.
ReadForBuyNow(h, u, i) ==
  \E code \in Codes, spelling \in Spellings, n \in Quantities :
  \E promo \in Redeemable(code, spelling) :
    Begin(h, [op |-> "order", user |-> u, where |-> [kind |-> "none", ids |-> {}],
              promo |-> promo, items |-> {[row |-> NoRow, item |-> i, quantity |-> n]},
              phone |-> NormalPhone[spelling]])
-----------------------------------------------------------------------------
Return(h) ==
  /\ request' = [request EXCEPT ![h] = Idle]
  /\ UNCHANGED <<requests, overlapped>>

\* A statement throws; nothing it was part of is kept.
Fail(h) ==
  /\ Return(h)
  /\ UNCHANGED <<cartVars, promoVars, orders, lastOrder>>

CommitAdd(h) ==
  LET r == request[h]
  IN  /\ r.op = "add"
      /\ \/ /\ \/ r.row # NoRow /\ Increment(r.row, r.quantity)
               \/ r.row = NoRow /\ Insert(r.user, r.item, r.quantity)
            /\ Return(h)
            /\ UNCHANGED <<promoVars, orders, lastOrder>>
         \/ /\ IF r.row # NoRow THEN RowsById(r.row) = {}
               ELSE ~Insertable(r.user, r.item)
            /\ Fail(h)

CommitUpdate(h) ==
  LET r == request[h]
  IN  /\ r.op = "update"
      /\ \/ /\ SetQuantity(r.row, r.quantity)
            /\ Return(h)
            /\ UNCHANGED <<promoVars, orders, lastOrder>>
         \/ RowsById(r.row) = {} /\ Fail(h)

CommitRemove(h) ==
  LET r == request[h]
  IN  /\ r.op = "remove"
      /\ \/ /\ RowsById(r.row) # {}
            /\ Delete(RowsById(r.row))
            /\ Return(h)
            /\ UNCHANGED <<promoVars, orders, lastOrder>>
         \/ RowsById(r.row) = {} /\ Fail(h)

\* Mutants of CommitOrder: the whole cart is cleared after a partial checkout;
\* the cart is left as it is.
CommitOrderClearingAll(h) ==
  LET r == request[h]
  IN  /\ r.op = "order"
      /\ orders' = orders \cup {[id |-> lastOrder + 1, user |-> r.user, items |-> r.items,
                                 promo |-> NoPromo, phone |-> r.phone]}
      /\ lastOrder' = lastOrder + 1
      /\ Delete({x \in cart : x.user = r.user})
      /\ Return(h)
      /\ UNCHANGED promoVars

CommitOrderKeepingCart(h) ==
  LET r == request[h]
  IN  /\ r.op = "order"
      /\ orders' = orders \cup {[id |-> lastOrder + 1, user |-> r.user, items |-> r.items,
                                 promo |-> NoPromo, phone |-> r.phone]}
      /\ lastOrder' = lastOrder + 1
      /\ Return(h)
      /\ UNCHANGED <<cartVars, promoVars>>

\* The transaction of createFromCart: the order with the items that were read,
\* the usage of the code, and whatever rows the `where` clause selects by now.
\* It is rolled back when the code can no longer be redeemed, and when the
\* random order number is taken.
CommitOrder(h) ==
  LET r == request[h]
  IN  /\ r.op = "order"
      /\ \/ /\ orders' = orders \cup {[id |-> lastOrder + 1, user |-> r.user,
                                       items |-> r.items, promo |-> r.promo,
                                       phone |-> r.phone]}
            /\ lastOrder' = lastOrder + 1
            /\ IF r.promo = NoPromo THEN UNCHANGED promoVars
               ELSE RecordUsage(r.promo, r.phone, lastOrder + 1)
            /\ Delete(Selected(r.user, r.where))
            /\ Return(h)
         \/ Fail(h)
-----------------------------------------------------------------------------
\* clear: one statement.
ClearCart(u) ==
  /\ requests < MaxRequests
  /\ requests' = requests + 1
  /\ overlapped' = IF InFlight(u) = {} THEN overlapped ELSE overlapped \cup {u}
  /\ Delete({r \in cart : r.user = u})
  /\ UNCHANGED <<promoVars, orders, lastOrder, request>>

\* clearOrdersData and clearAllData, in this module's tables: the orders and
\* the carts go, the promo codes and their usages stay.
ClearData ==
  /\ orders' = {}
  /\ cart' = {}
  /\ UNCHANGED <<lastRow, promoVars, lastOrder, requestVars>>

\* The process dies with the requests in flight.
Restart ==
  /\ request' = [h \in Slots |-> Idle]
  /\ UNCHANGED <<cartVars, promoVars, orders, lastOrder, requests, overlapped>>

Admin ==
  /\ \E p \in PromoIds :
       \/ \E code \in Codes : CreatePromo(p, code)
       \/ UpdatePromo(p)
       \/ RemovePromo(p)
  /\ UNCHANGED <<cartVars, orders, lastOrder, requestVars>>

Read(h, u) ==
  \/ \E i \in Items : ReadForAdd(h, u, i) \/ ReadForBuyNow(h, u, i)
  \/ ReadForUpdate(h, u) \/ ReadForRemove(h, u) \/ ReadForOrder(h, u)

Commit(h) == CommitAdd(h) \/ CommitUpdate(h) \/ CommitRemove(h) \/ CommitOrder(h)

Next ==
  \/ \E h \in Slots : Commit(h) \/ \E u \in Users : Read(h, u)
  \/ \E u \in Users : ClearCart(u)
  \/ ClearData \/ Restart \/ Admin

Spec == Init /\ [][Next]_vars
-----------------------------------------------------------------------------
(***************************************************************************)
(* CartService.add merges identical lines: a buyer who never had two       *)
(* requests in flight has at most one row per item, with or without a size *)
(* and a colour; and the unique index guarantees it to every buyer for the *)
(* items that have both.                                                   *)
(***************************************************************************)
OneLinePerItem ==
  \A r, s \in cart :
    /\ r.user = s.user /\ r.item = s.item
    /\ r.item \in Sized \/ r.user \notin overlapped
    => r = s

Placed == {o \in orders' : o.id > lastOrder}
FromCart(o) == {x \in o.items : x.row # NoRow}

(***************************************************************************)
(* A checkout "only clears the items that were actually ordered"           *)
(* (createFromCart): when an order of a buyer without overlapping requests *)
(* is created, every row that leaves a cart was ordered, with the quantity *)
(* it had, and no row that was ordered stays.                              *)
(***************************************************************************)
OnlyOrderedCleared ==
  [][\A o \in Placed : o.user \notin overlapped =>
       /\ {AsItem(r) : r \in cart \ cart'} \subseteq FromCart(o)
       /\ \A x \in FromCart(o) : ~\E r \in cart' : r.id = x.row]_vars

(***************************************************************************)
(* The same comment taken for every buyer, also one with two requests in   *)
(* flight: "Only clears the items that were actually ordered".             *)
(***************************************************************************)
NothingElseCleared ==
  [][\A o \in Placed : {AsItem(r) : r \in cart \ cart'} \subseteq FromCart(o)]_vars

(***************************************************************************)
(* The cart of a buyer without overlapping requests is bought once: no two *)
(* orders contain the same cart row.                                       *)
(***************************************************************************)
OrderedOnce ==
  \A o, q \in orders :
    o.id # q.id /\ o.user \notin overlapped =>
      \A x \in FromCart(o), y \in FromCart(q) : x.row # y.row

(***************************************************************************)
(* "One number, one time": whatever requests race, no two orders carry the *)
(* discount of the same promo code for the same telephone number.          *)
(***************************************************************************)
OneDiscountPerPhone ==
  \A o, q \in orders :
    o.promo # NoPromo /\ o.promo = q.promo /\ o.phone = q.phone => o = q

(***************************************************************************)
(* The usages are an exact account of the discounts given: every order     *)
(* with the discount of a code that still exists has its usage row, a      *)
(* usage row whose order still exists points at an order with that         *)
(* discount, and the counter of the code is the number of its usages.      *)
(***************************************************************************)
UsageMatchesOrders ==
  /\ \A o \in orders : Exists(o.promo) =>
       [promo |-> o.promo, phone |-> o.phone, order |-> o.id] \in usages
  /\ \A u \in usages, o \in orders : u.order = o.id =>
       o.promo = u.promo /\ o.phone = u.phone
  /\ \A p \in PromoIds : usedCount[p] = Cardinality({u \in usages : u.promo = p})
=============================================================================
