------------------------------ MODULE OrderStock ------------------------------
(***************************************************************************)
(* The order service against the stock: OrderService.updateStatus,         *)
(* setPaymentStatus, rejectPayment and the row createFromCart inserts,     *)
(* with the two maintenance operations that reset order data, and a        *)
(* restart of the process.                                                 *)
(*                                                                         *)
(* Two actors call these handlers, the admin web panel and the admin's     *)
(* Telegram buttons, and nothing serialises them.  Every handler reads the *)
(* order first and writes later, in another statement or transaction, on   *)
(* the strength of what it read; so a call here is a read step that takes  *)
(* the snapshot `existing` and a later commit step.  Calls that return or  *)
(* throw right after the read leave no trace and are not begun.            *)
(***************************************************************************)
EXTENDS Inventory

CONSTANTS
  Handlers,     \* request slots: how many calls can be in flight
  OrderStatus,  \* the values of the OrderStatus enum that are used
  Exclusive,    \* TRUE: the admins never have two calls on one order in flight
  MaxClears, MaxRestarts, MaxCalls  \* bounds of the model

PaymentStatus == {"PENDING", "PAID", "FAILED"}

ASSUME OrderAssumption ==
  /\ {"PENDING", "CANCELLED"} \subseteq OrderStatus
  /\ Exclusive \in BOOLEAN
  /\ MaxClears \in Nat /\ MaxRestarts \in Nat /\ MaxCalls \in Nat

VARIABLES
  live,      \* the orders that have a row
  used,      \* the orders that ever had one: ids are not reused
  row,       \* the two status columns of each order
  call,      \* the request each slot is executing
  clearing,  \* clearOrdersData is between its two writes
  todo,      \* products the boot-time recount has still to read
  tally,     \* the product it has read and not yet written, and its count
  clears, restarts, calls

orderVars == <<live, used, row>>
bootVars == <<todo, tally>>
counters == <<clears, restarts, calls>>
vars == <<inventory, orderVars, call, clearing, bootVars, counters>>

Row == [status : OrderStatus, paymentStatus : PaymentStatus]
NewRow == [status |-> "PENDING", paymentStatus |-> "PENDING"]

Call == [op : {"idle", "create", "status", "payment", "reject"}, order : Orders,
         status : OrderStatus, paid : BOOLEAN, existing : Row]
Idle == [op |-> "idle", order |-> CHOOSE o \in Orders : TRUE,
         status |-> "PENDING", paid |-> FALSE, existing |-> NewRow]

Tally == [product : Products, count : Int]

TypeOK ==
  /\ InventoryType
  /\ live \subseteq used /\ used \subseteq Orders /\ IsFiniteSet(used)
  /\ row \in [Orders -> Row]
  /\ call \in [Handlers -> Call]
  /\ clearing \in BOOLEAN
  /\ todo \subseteq Products
  /\ tally \subseteq Tally
  /\ clears \in Nat /\ restarts \in Nat /\ calls \in Nat

Init ==
  /\ InitInventory
  /\ live = {} /\ used = {}
  /\ row = [o \in Orders |-> NewRow]
  /\ call = [h \in Handlers |-> Idle]
  /\ clearing = FALSE
  /\ todo = {} /\ tally = {}
  /\ clears = 0 /\ restarts = 0 /\ calls = 0
-----------------------------------------------------------------------------
\* stockIsOut: the goods of an order are out of the warehouse.
StockIsOut(r) == r.paymentStatus = "PAID" /\ r.status # "CANCELLED"

Busy(h) == call[h].op # "idle"

\* The HTTP server listens once every onModuleInit hook has finished; the
\* Telegram bot is launched by such a hook and may be answering before that.
Listening == todo = {} /\ tally = {}

Begin(h, c) ==
  /\ ~Busy(h)
  /\ calls < MaxCalls
  /\ Exclusive => \A g \in Handlers : Busy(g) => call[g].order # c.order
  /\ call' = [call EXCEPT ![h] = c]
  /\ calls' = calls + 1
  /\ UNCHANGED <<inventory, orderVars, clearing, bootVars, clears, restarts>>

\* createFromCart up to its transaction: every line must be available on its
\* own, from its variant row if there is one and from the product otherwise.
ReadForCreate(h, o) ==
  /\ Listening
  /\ o \notin used
  /\ \A g \in Handlers : Busy(g) => call[g].order # o
  /\ \A l \in Lines[o] :
       l.quantity <= IF l.variant \in listed THEN vstock[l.variant] ELSE stock[l.product]
  /\ Begin(h, [Idle EXCEPT !.op = "create", !.order = o])

\* updateStatus: findById.
ReadForStatus(h, o, s) ==
  /\ Listening
  /\ o \in live
  /\ Begin(h, [op |-> "status", order |-> o, status |-> s, paid |-> FALSE,
               existing |-> row[o]])

\* setPaymentStatus: findById, and the early return when nothing changes.
\* Marking paid is also the bot's "approve" button.
ReadForPayment(h, o, paid) ==
  /\ Listening \/ paid
  /\ o \in live
  /\ (row[o].paymentStatus = "PAID") # paid
  /\ Begin(h, [op |-> "payment", order |-> o, status |-> "PENDING", paid |-> paid,
               existing |-> row[o]])

\* Mutant of ReadForReject: a paid order is not refused.
ReadForRejectAny(h, o) ==
  /\ o \in live
  /\ row[o].paymentStatus # "FAILED"
  /\ Begin(h, [op |-> "reject", order |-> o, status |-> "PENDING", paid |-> FALSE,
               existing |-> row[o]])

\* rejectPayment: findById, the refusal of a paid order, the early return on
\* one already rejected. Both the panel and the bot's "reject" button call it.
ReadForReject(h, o) ==
  /\ o \in live
  /\ row[o].paymentStatus = "PENDING"
  /\ Begin(h, [op |-> "reject", order |-> o, status |-> "PENDING", paid |-> FALSE,
               existing |-> row[o]])
-----------------------------------------------------------------------------
\* End the call, whatever became of it.
Return(h) ==
  /\ call' = [call EXCEPT ![h] = Idle]
  /\ UNCHANGED <<clearing, bootVars, counters>>

\* order.update throws on a missing row and adjustInventory on a shortage; the
\* transaction is rolled back and the error goes to the caller.
Fail(h) == UNCHANGED <<inventory, orderVars>> /\ Return(h)

\* Mutant of SetRow: an update without its where clause.
SetEveryRow(o, r) == row' = [x \in Orders |-> r] /\ UNCHANGED <<live, used>>

SetRow(o, r) == row' = [row EXCEPT ![o] = r] /\ UNCHANGED <<live, used>>

(***************************************************************************)
(* The shared ending of updateStatus and setPaymentStatus: the snapshot    *)
(* decides whether goods move, in which direction, and whether a           *)
(* transaction is needed; the row written is `new`.                        *)
(***************************************************************************)
MoveAndSet(h, willBeOut, new) ==
  LET o == call[h].order
      wasOut == StockIsOut(call[h].existing)
  IN  \/ /\ o \in live
         /\ wasOut = willBeOut
         /\ UNCHANGED inventory
         /\ SetRow(o, new)
         /\ Return(h)
      \/ /\ o \in live
         /\ wasOut /\ ~willBeOut
         /\ ReturnStock(o)
         /\ SetRow(o, new)
         /\ Return(h)
      \/ /\ o \in live
         /\ ~wasOut /\ willBeOut
         /\ Available(o)
         /\ TakeStock(o)
         /\ SetRow(o, new)
         /\ Return(h)
      \/ /\ \/ o \notin live
            \/ ~wasOut /\ willBeOut /\ ~Available(o)
         /\ Fail(h)

\* updateStatus: cancelling an order that was paid when it was read also
\* resets the payment; otherwise the payment column is not written.
CommitStatus(h) ==
  /\ call[h].op = "status"
  /\ LET o == call[h].order
         was == call[h].existing
         s == call[h].status
         resetPayment == s = "CANCELLED" /\ was.paymentStatus = "PAID"
     IN  MoveAndSet(h, StockIsOut([was EXCEPT !.status = s]),
                    [status |-> s,
                     paymentStatus |-> IF resetPayment THEN "PENDING"
                                       ELSE row[o].paymentStatus])

\* Mutant of CommitPayment: stock moves on the payment column alone, the bug
\* the comment above stockIsOut describes.
CommitPaymentByColumn(h) ==
  /\ call[h].op = "payment"
  /\ LET o == call[h].order
     IN  /\ o \in live
         /\ \/ call[h].paid /\ Available(o) /\ TakeStock(o)
            \/ ~call[h].paid /\ ReturnStock(o)
         /\ SetRow(o, [row[o] EXCEPT
                         !.paymentStatus = IF call[h].paid THEN "PAID" ELSE "PENDING"])
         /\ Return(h)

\* setPaymentStatus: the status column is not written.
CommitPayment(h) ==
  /\ call[h].op = "payment"
  /\ LET o == call[h].order
         p == IF call[h].paid THEN "PAID" ELSE "PENDING"
     IN  MoveAndSet(h, StockIsOut([call[h].existing EXCEPT !.paymentStatus = p]),
                    [row[o] EXCEPT !.paymentStatus = p])

\* rejectPayment: a plain update to FAILED, whatever the row says by now.
CommitReject(h) ==
  /\ call[h].op = "reject"
  /\ LET o == call[h].order
     IN  \/ /\ o \in live
            /\ UNCHANGED inventory
            /\ SetRow(o, [row[o] EXCEPT !.paymentStatus = "FAILED"])
            /\ Return(h)
         \/ o \notin live /\ Fail(h)

\* Mutant of CommitCreate: the id is not recorded as taken.
CommitCreateReusable(h) ==
  /\ call[h].op = "create"
  /\ live' = live \cup {call[h].order}
  /\ row' = [row EXCEPT ![call[h].order] = NewRow]
  /\ UNCHANGED <<inventory, used>>
  /\ Return(h)

\* The transaction of createFromCart, as far as the order row is concerned. It
\* is rolled back when the random order number is taken.
CommitCreate(h) ==
  /\ call[h].op = "create"
  /\ \/ /\ live' = live \cup {call[h].order}
        /\ used' = used \cup {call[h].order}
        /\ row' = [row EXCEPT ![call[h].order] = NewRow]
        /\ UNCHANGED inventory
        /\ Return(h)
     \/ Fail(h)
-----------------------------------------------------------------------------
\* clearOrdersData: one transaction deletes the orders, and a statement of its
\* own sets every soldCount to 0 afterwards. The stock is not given back.
ClearOrders ==
  /\ Listening /\ ~clearing
  /\ clears < MaxClears
  /\ live' = {}
  /\ row' = [o \in Orders |-> NewRow]
  /\ clearing' = TRUE
  /\ clears' = clears + 1
  /\ UNCHANGED <<inventory, used, call, bootVars, restarts, calls>>

ClearSoldCounts ==
  /\ clearing
  /\ clearing' = FALSE
  /\ soldCount' = [p \in Products |-> 0]
  /\ UNCHANGED <<stock, listed, vstock, edits, orderVars, call, bootVars, counters>>

\* The process dies, with every call in flight, and boots again:
\* ProductService.onModuleInit starts recalculateSoldCounts.
Restart ==
  /\ restarts < MaxRestarts
  /\ restarts' = restarts + 1
  /\ call' = [h \in Handlers |-> Idle]
  /\ clearing' = FALSE
  /\ todo' = Products
  /\ tally' = {}
  /\ UNCHANGED <<inventory, orderVars, clears, calls>>

\* What the aggregate query returns: the units of p in the items of PAID orders.
PaidUnits(p) ==
  SumOf({o \in live : row[o].paymentStatus = "PAID"}, [o \in Orders |-> Demand(o, p)])

\* recalculateSoldCounts: for each product an aggregate query, then an update.
RecountRead(p) ==
  /\ tally = {} /\ p \in todo
  /\ tally' = {[product |-> p, count |-> PaidUnits(p)]}
  /\ todo' = todo \ {p}
  /\ UNCHANGED <<inventory, orderVars, call, clearing, counters>>

RecountWrite ==
  /\ \E t \in tally : soldCount' = [soldCount EXCEPT ![t.product] = t.count]
  /\ tally' = {}
  /\ UNCHANGED <<stock, listed, vstock, edits, orderVars, call, clearing, todo, counters>>

\* The other writers of the stock; they leave the orders alone.
Catalogue ==
  /\ Listening
  /\ CatalogueStep
  /\ UNCHANGED <<orderVars, call, clearing, bootVars, counters>>
-----------------------------------------------------------------------------
Commit(h) == CommitStatus(h) \/ CommitPayment(h) \/ CommitReject(h) \/ CommitCreate(h)

Read(h) ==
  \E o \in Orders :
    \/ ReadForCreate(h, o)
    \/ \E s \in OrderStatus : ReadForStatus(h, o, s)
    \/ \E paid \in BOOLEAN : ReadForPayment(h, o, paid)
    \/ ReadForReject(h, o)

Next ==
  \/ \E h \in Handlers : Read(h) \/ Commit(h)
  \/ ClearOrders \/ ClearSoldCounts
  \/ Restart \/ (\E p \in Products : RecountRead(p)) \/ RecountWrite
  \/ Catalogue

Spec == Init /\ [][Next]_vars
-----------------------------------------------------------------------------
\* Order o holds goods of product p (of variant v) that left the warehouse.
OutOrders == {o \in live : StockIsOut(row[o])}
Held(o, p) == IF o \in OutOrders THEN Demand(o, p) ELSE 0
HeldVariant(o, v) == IF o \in OutOrders THEN VariantDemand(o, v) ELSE 0

(***************************************************************************)
(* No sale is confirmed beyond what is there: neither the aggregate of a   *)
(* product nor the figure of a variant row ever goes below zero, with any  *)
(* number of handlers, catalogue edits and deductions in flight. The       *)
(* checks are inside the transaction (order.service.ts, adjustInventory).  *)
(***************************************************************************)
StockNeverNegative ==
  /\ \A p \in Products : stock[p] >= 0
  /\ \A v \in Variants : vstock[v] >= 0

\* At most one call per order is in flight; a creation works on a new id; a
\* rejection began on an unpaid order; the snapshot is still the row.
OneCallPerOrder ==
  Exclusive => \A g, h \in Handlers :
                 Busy(g) /\ Busy(h) /\ g # h => call[g].order # call[h].order
CreateOfNew ==
  \A h \in Handlers : call[h].op = "create" =>
    /\ call[h].order \notin used
    /\ \A g \in Handlers : Busy(g) /\ g # h => call[g].order # call[h].order
RejectOfPending ==
  \A h \in Handlers : call[h].op = "reject" => call[h].existing.paymentStatus = "PENDING"
SnapshotFresh ==
  Exclusive => \A h \in Handlers :
                 /\ call[h].op \in {"status", "payment", "reject"}
                 /\ call[h].order \in live
                 => call[h].existing = row[call[h].order]

(***************************************************************************)
(* What a handler read before its transaction is still what the row says   *)
(* when it commits, provided the admins work on an order one call at a     *)
(* time; updateStatus, setPaymentStatus and rejectPayment decide on that   *)
(* snapshot. This is the inductive invariant the stock properties rest on. *)
(***************************************************************************)
CallsSound == OneCallPerOrder /\ CreateOfNew /\ RejectOfPending /\ SnapshotFresh

(***************************************************************************)
(* "Any transition only moves stock by the actual delta" (order.service.ts *)
(* above stockIsOut): in every step that is not a catalogue edit or the    *)
(* deletion of all orders, at most one order changes between holding goods *)
(* and not holding them, and the stock of every product and variant row    *)
(* changes by exactly the goods of that order.                             *)
(***************************************************************************)
StockFollowsOut ==
  [][edits' = edits /\ clears' = clears =>
       \E o \in Orders :
         /\ \A q \in Orders \ {o}, p \in Products : Held(q, p)' = Held(q, p)
         /\ \A p \in Products : stock'[p] + Held(o, p)' = stock[p] + Held(o, p)
         /\ \A v \in listed :
              vstock'[v] + HeldVariant(o, v)' = vstock[v] + HeldVariant(o, v)]_vars

(***************************************************************************)
(* rejectPayment refuses a paid order: the payment of an order that is     *)
(* paid never turns into FAILED, which would keep its goods out for ever.  *)
(***************************************************************************)
PaidNeverRejected ==
  [][\A o \in live \cap live' :
       row[o].paymentStatus = "PAID" => row'[o].paymentStatus # "FAILED"]_vars

(***************************************************************************)
(* soldCount is the number of units that are out with orders: it goes up   *)
(* when goods leave and down by the same when they come back, until order  *)
(* data is cleared or the counts are recomputed at boot.                   *)
(***************************************************************************)
SoldMatchesOut ==
  clears = 0 /\ restarts = 0 =>
    \A p \in Products :
      soldCount[p] = SumOf(OutOrders, [o \in Orders |-> Demand(o, p)])

(***************************************************************************)
(* What the comment above ProductService.onModuleInit says of the recount  *)
(* at boot: it "guarantees the number shown is always correct", that is,   *)
(* once the boot is over the counts agree with the goods that are out.     *)
(***************************************************************************)
SoldCorrectAfterBoot ==
  clears = 0 /\ restarts > 0 /\ Listening =>
    \A p \in Products :
      soldCount[p] = SumOf(OutOrders, [o \in Orders |-> Demand(o, p)])

(***************************************************************************)
(* The order service keeps the abstract ledger: an order's goods go out    *)
(* once and come back once.                                                *)
(***************************************************************************)
Ledger == INSTANCE StockLedger
  WITH Needs <- [o \in Orders |-> [p \in Products |-> Demand(o, p)]],
       out <- OutOrders, revision <- edits

KeepsLedger == Ledger!Spec
=============================================================================
