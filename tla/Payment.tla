------------------------------- MODULE Payment -------------------------------
(***************************************************************************)
(* Online payment on top of the order service: PaymentService, the routes  *)
(* Click and Payme call back on, and the providers as seen from there.     *)
(*                                                                         *)
(* initiate, markPaid and markFailed are plain statements one after the    *)
(* other, without a transaction: the Payment row is written first, the     *)
(* order afterwards, and neither moves stock.  A provider repeats a notice *)
(* until it is acknowledged; an acknowledgement may get lost.              *)
(***************************************************************************)
EXTENDS OrderStock

CONSTANTS
  Hooks,     \* callbacks that can be in flight
  Buyers,    \* request slots of initiatePayment
  TestMode   \* CLICK_TEST_MODE or PAYME_TEST_MODE: the local checkout pages

ASSUME PaymentAssumption == TestMode \in BOOLEAN

VARIABLES
  payment,    \* Payment.status of each order, "NONE" without a row
  owed,       \* the notices a provider has not seen acknowledged
  hook,       \* the callback each slot executes
  starting,   \* the order each initiatePayment has read as unpaid
  confirmed,  \* history: the orders a callback has marked paid
  crossed,    \* history: confirmed while a failure was under way, or before one
  handled     \* history: the orders an admin has made any call on

payVars == <<payment, owed, hook, starting, confirmed, crossed, handled>>
allVars == <<vars, payVars>>

Notice == [order : Orders, ok : BOOLEAN]
Hook == [op : {"idle", "payment", "order"}, notice : Notice, answered : BOOLEAN]
NoHook == [op |-> "idle", answered |-> FALSE,
           notice |-> [order |-> CHOOSE o \in Orders : TRUE, ok |-> FALSE]]

\* A Payment row belongs to an order that exists (the schema cascades).
PaymentTypeOK ==
  /\ TypeOK
  /\ payment \in [Orders -> {"NONE"} \cup PaymentStatus]
  /\ \A o \in Orders : payment[o] # "NONE" => o \in live
  /\ owed \subseteq Notice
  /\ confirmed \subseteq Orders /\ crossed \subseteq Orders /\ handled \subseteq Orders
  /\ hook \in [Hooks -> Hook]
  /\ starting \in [Buyers -> SUBSET Orders]

PaymentInit ==
  /\ Init
  /\ payment = [o \in Orders |-> "NONE"]
  /\ owed = {} /\ confirmed = {} /\ crossed = {} /\ handled = {}
  /\ hook = [k \in Hooks |-> NoHook]
  /\ starting = [b \in Buyers |-> {}]
-----------------------------------------------------------------------------
\* initiate up to its first write: a paid order is refused.
ReadForInitiate(b, o) ==
  /\ Listening
  /\ starting[b] = {}
  /\ o \in live
  /\ row[o].paymentStatus # "PAID"
  /\ starting' = [starting EXCEPT ![b] = {o}]
  /\ UNCHANGED <<vars, payment, owed, hook, confirmed, crossed, handled>>

\* Mutant of UpsertPayment: the order's payment starts over as well.
UpsertBoth(b) ==
  /\ \E o \in starting[b] \cap live :
       /\ payment' = [payment EXCEPT ![o] = "PENDING"]
       /\ row' = [row EXCEPT ![o].paymentStatus = "PENDING"]
  /\ starting' = [starting EXCEPT ![b] = {}]
  /\ UNCHANGED <<inventory, live, used, call, clearing, bootVars, counters, owed,
                 hook, confirmed, crossed, handled>>

\* The upsert of the Payment row (an order that has gone fails the foreign
\* key); the order's paymentMethod, written next, is not modelled.
UpsertPayment(b) ==
  /\ \E o \in starting[b] :
       \/ o \in live /\ payment' = [payment EXCEPT ![o] = "PENDING"]
       \/ o \notin live /\ UNCHANGED payment
  /\ starting' = [starting EXCEPT ![b] = {}]
  /\ UNCHANGED <<vars, owed, hook, confirmed, crossed, handled>>
-----------------------------------------------------------------------------
\* A failure of order o that is still to be delivered, or being worked on.
FailureUnderway(o) ==
  \/ [order |-> o, ok |-> FALSE] \in owed
  \/ \E k \in Hooks : hook[k].op # "idle" /\ hook[k].notice = [order |-> o, ok |-> FALSE]

\* A provider, external: the buyer has paid there, or failed to. Attempts to
\* pay follow each other, so their notices may come in any order.
Report(o, ok) ==
  /\ payment[o] # "NONE"
  /\ owed' = owed \cup {[order |-> o, ok |-> ok]}
  /\ crossed' = IF ~ok /\ o \in confirmed THEN crossed \cup {o} ELSE crossed
  /\ UNCHANGED <<vars, payment, hook, starting, confirmed, handled>>

\* clickComplete and payme_ after the signature is verified: a negative error
\* or CancelTransaction is a failure, the rest a success. (clickPrepare and the
\* other methods of Payme write nothing.)
Deliver(k, n) ==
  /\ Listening
  /\ hook[k].op = "idle"
  /\ n \in owed
  /\ hook' = [hook EXCEPT ![k] = [op |-> "payment", notice |-> n, answered |-> TRUE]]
  /\ UNCHANGED <<vars, payment, owed, starting, confirmed, crossed, handled>>

\* The local checkout pages: markPaid without any notice.
TestCheckout(k, o) ==
  /\ Listening /\ TestMode
  /\ hook[k].op = "idle"
  /\ payment[o] # "NONE"
  /\ hook' = [hook EXCEPT ![k] = [op |-> "payment", answered |-> FALSE,
                                  notice |-> [order |-> o, ok |-> TRUE]]]
  /\ UNCHANGED <<vars, payment, owed, starting, confirmed, crossed, handled>>

\* Mutant of WritePayment: a notice that repeats what the row says is answered
\* at once.
WritePaymentOnce(k) ==
  LET n == hook[k].notice
      new == IF n.ok THEN "PAID" ELSE "FAILED"
  IN  /\ hook[k].op = "payment"
      /\ \/ /\ payment[n.order] \notin {"NONE", new}
            /\ payment' = [payment EXCEPT ![n.order] = new]
            /\ hook' = [hook EXCEPT ![k].op = "order"]
            /\ UNCHANGED owed
         \/ /\ payment[n.order] \in {"NONE", new}
            /\ hook' = [hook EXCEPT ![k] = NoHook]
            /\ owed' = IF payment[n.order] = new THEN owed \ {n} ELSE owed
            /\ UNCHANGED payment
      /\ UNCHANGED <<vars, starting, confirmed, crossed, handled>>

\* markPaid and markFailed: the update of the Payment row throws without one.
WritePayment(k) ==
  LET n == hook[k].notice
  IN  /\ hook[k].op = "payment"
      /\ \/ /\ payment[n.order] # "NONE"
            /\ payment' = [payment EXCEPT ![n.order] = IF n.ok THEN "PAID" ELSE "FAILED"]
            /\ hook' = [hook EXCEPT ![k].op = "order"]
         \/ /\ payment[n.order] = "NONE"
            /\ hook' = [hook EXCEPT ![k] = NoHook]
            /\ UNCHANGED payment
      /\ UNCHANGED <<vars, owed, starting, confirmed, crossed, handled>>

\* The second statement: the order. Then the answer, if the provider hears it.
WriteOrder(k) ==
  LET n == hook[k].notice
      o == n.order
  IN  /\ hook[k].op = "order"
      /\ \/ /\ o \in live
            /\ SetRow(o, [row[o] EXCEPT !.paymentStatus = IF n.ok THEN "PAID" ELSE "FAILED"])
            /\ confirmed' = IF n.ok THEN confirmed \cup {o} ELSE confirmed
            /\ crossed' = IF n.ok /\ FailureUnderway(o) THEN crossed \cup {o} ELSE crossed
            /\ \/ owed' = IF hook[k].answered THEN owed \ {n} ELSE owed
               \/ UNCHANGED owed
         \/ o \notin live /\ UNCHANGED <<orderVars, confirmed, crossed, owed>>
      /\ hook' = [hook EXCEPT ![k] = NoHook]
      /\ UNCHANGED <<inventory, call, clearing, bootVars, counters, payment,
                     starting, handled>>
-----------------------------------------------------------------------------
\* The order service goes on as before; the Payment rows go with the orders
\* that are deleted, and a restart takes the callbacks with it.
OrderStep ==
  /\ \/ \E h \in Handlers : Read(h) \/ Commit(h)
     \/ ClearSoldCounts
     \/ Catalogue
  /\ handled' = handled \cup
       {call'[h].order : h \in {g \in Handlers : call'[g].op \in {"status", "payment", "reject"}}}
  /\ UNCHANGED <<payment, owed, hook, starting, confirmed, crossed>>

Boot ==
  /\ (\E p \in Products : RecountRead(p)) \/ RecountWrite
  /\ UNCHANGED payVars

\* Mutant of ClearAll: the Payment rows stay behind.
ClearOrdersOnly ==
  /\ ClearOrders
  /\ UNCHANGED payVars

ClearAll ==
  /\ ClearOrders
  /\ payment' = [o \in Orders |-> "NONE"]
  /\ UNCHANGED <<owed, hook, starting, confirmed, crossed, handled>>

Crash ==
  /\ Restart
  /\ hook' = [k \in Hooks |-> NoHook]
  /\ starting' = [b \in Buyers |-> {}]
  /\ UNCHANGED <<payment, owed, confirmed, crossed, handled>>

PaymentStep ==
  \/ \E b \in Buyers : (\E o \in Orders : ReadForInitiate(b, o)) \/ UpsertPayment(b)
  \/ \E o \in Orders, ok \in BOOLEAN : Report(o, ok)
  \/ \E k \in Hooks :
       \/ \E n \in Notice : Deliver(k, n)
       \/ \E o \in Orders : TestCheckout(k, o)
       \/ WritePayment(k) \/ WriteOrder(k)

PaymentNext == OrderStep \/ Boot \/ ClearAll \/ Crash \/ PaymentStep

PaymentSpec == PaymentInit /\ [][PaymentNext]_allVars

(***************************************************************************)
(* A provider repeats its notice until it is answered, whatever else is    *)
(* using the request slots; a callback that runs comes to its end; the     *)
(* boot comes to its end.                                                  *)
(***************************************************************************)
Fairness ==
  /\ \A n \in Notice : SF_allVars(\E k \in Hooks : Deliver(k, n))
  /\ \A k \in Hooks : WF_allVars(WritePayment(k) \/ WriteOrder(k))
  /\ WF_allVars(Boot)

FairPaymentSpec == PaymentSpec /\ Fairness
-----------------------------------------------------------------------------
(***************************************************************************)
(* A payment reported by Click or Payme reaches the order, although        *)
(* markPaid writes two rows in two statements and the process may die      *)
(* between them: the notice is repeated and markPaid writes both again.    *)
(***************************************************************************)
PaidArrives ==
  \A o \in Orders :
    [order |-> o, ok |-> TRUE] \in owed
      ~> (row[o].paymentStatus = "PAID" \/ o \notin live)

(***************************************************************************)
(* An order that a callback has marked paid and no admin has touched stays *)
(* paid, whatever attempts to pay again were under way (initiate refuses a *)
(* paid order on a row read earlier, and writes later). The one thing that *)
(* takes it away is a failure notice: markFailed looks at nothing before   *)
(* it writes, so an order for which one was still to be delivered, was     *)
(* being worked on or was reported after the confirmation (`crossed`) may  *)
(* end FAILED, and nothing else than FAILED.                               *)
(***************************************************************************)
PaidStaysPaid ==
  \A o \in (confirmed \cap live) \ handled :
    \/ row[o].paymentStatus = "PAID"
    \/ o \in crossed /\ row[o].paymentStatus = "FAILED"
=============================================================================
