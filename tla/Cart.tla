-------------------------------- MODULE Cart --------------------------------
(***************************************************************************)
(* The cart_items table and the single statements CartService and          *)
(* OrderService run on it. When a statement runs and with what it was told *)
(* by an earlier read is the business of module Checkout.                  *)
(*                                                                         *)
(* An item is a product with the size and colour chosen. The unique index  *)
(* on (user, product, size, colour) binds only rows whose size and colour  *)
(* are both present: SQLite takes two NULLs to be different.               *)
(***************************************************************************)
EXTENDS Integers, FiniteSets

CONSTANTS
  Users,
  Items,      \* the (product, size, colour) combinations on sale
  Sized       \* those with both a size and a colour

ASSUME CartAssumption == Sized \subseteq Items

VARIABLES
  cart,       \* the rows of cart_items
  lastRow     \* the last row id given out: ids are never reused

cartVars == <<cart, lastRow>>

Quantity == Nat \ {0}
CartRow == [id : Nat \ {0}, user : Users, item : Items, quantity : Quantity]
NoRow == 0

CartType == cart \subseteq CartRow /\ lastRow \in Nat

InitCart == cart = {} /\ lastRow = 0

Matching(u, i) == {r \in cart : r.user = u /\ r.item = i}
RowsById(id) == {r \in cart : r.id = id}

\* An update addressed by id, whoever owns the row by now.
Increment(id, n) ==
  /\ RowsById(id) # {}
  /\ cart' = {IF r.id = id THEN [r EXCEPT !.quantity = @ + n] ELSE r : r \in cart}
  /\ UNCHANGED lastRow

SetQuantity(id, n) ==
  /\ RowsById(id) # {}
  /\ cart' = {IF r.id = id THEN [r EXCEPT !.quantity = n] ELSE r : r \in cart}
  /\ UNCHANGED lastRow

\* Whether the unique index lets a row be inserted.
Insertable(u, i) == i \in Sized => Matching(u, i) = {}

Insert(u, i, n) ==
  /\ Insertable(u, i)
  /\ cart' = cart \cup {[id |-> lastRow + 1, user |-> u, item |-> i, quantity |-> n]}
  /\ lastRow' = lastRow + 1

Delete(rows) ==
  /\ cart' = cart \ rows
  /\ UNCHANGED lastRow
=============================================================================
