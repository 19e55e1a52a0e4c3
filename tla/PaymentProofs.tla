---------------------------- MODULE PaymentProofs ----------------------------
(***************************************************************************)
(* That an order a callback has marked paid stays paid, for any number of  *)
(* orders, admins, buyers and callbacks, unless a failure of the same      *)
(* order crossed the confirmation.                                         *)
(*                                                                         *)
(* The argument is about what can still be on its way. A failure undoes a  *)
(* payment when it is written after it; so the invariant says that of a    *)
(* confirmed order which is not `crossed` no failure is among the notices  *)
(* or in a callback that runs (NoLateFailure). The other writer of the     *)
(* column is an order call: one that an admin began is in `handled`        *)
(* (Noticed), and one that creates an order works on an id no callback     *)
(* knows (CreateOfNew with confirmed \subseteq used).                      *)
(***************************************************************************)
EXTENDS Payment, OrderStockProofs

\* What was confirmed and not crossed has no failure before it any more.
NoLateFailure == \A o \in confirmed \ crossed : ~FailureUnderway(o)

\* An admin's call that is in flight has been noticed.
Noticed ==
  \A h \in Handlers :
    call[h].op \in {"status", "payment", "reject"} => call[h].order \in handled

\* What a callback confirmed is an order, or was one.
ConfirmedKnown == confirmed \subseteq used

Sound == CreateOfNew /\ NoLateFailure /\ Noticed /\ ConfirmedKnown /\ PaidStaysPaid
-----------------------------------------------------------------------------
(***************************************************************************)
(* The row a free callback slot holds is a callback.                       *)
(***************************************************************************)
LEMMA NoHookIsHook == NoHook \in Hook
<1>1. (CHOOSE o \in Orders : TRUE) \in Orders
  BY CatalogueAssumption
<1>2. QED
  BY <1>1 DEF NoHook, Hook, Notice

(***************************************************************************)
(* The order service deletes no order, except with all of them.            *)
(***************************************************************************)
LEMMA OrdersKept ==
  ASSUME TypeOK, OrderStep
  PROVE  TypeOK' /\ live \subseteq live'
<1>1. ASSUME NEW h \in Handlers, Read(h) PROVE live' = live
  BY <1>1 DEF Read, ReadForCreate, ReadForStatus, ReadForPayment, ReadForReject, Begin,
              orderVars
<1>2. ASSUME NEW h \in Handlers, Commit(h) PROVE live \subseteq live'
  BY <1>2 DEF Commit, CommitStatus, CommitPayment, CommitReject, CommitCreate, MoveAndSet,
              SetRow, Fail, orderVars
<1>3. CASE ClearSoldCounts \/ Catalogue
  BY <1>3, OtherTyped DEF ClearSoldCounts, Catalogue, orderVars
<1>4. QED
  BY <1>1, <1>2, <1>3, CommitTyped, OtherTyped DEF OrderStep

(***************************************************************************)
(* A callback writes the two columns of one order.                         *)
(***************************************************************************)
LEMMA WriteOrderTyped ==
  ASSUME PaymentTypeOK, NEW k \in Hooks, WriteOrder(k)
  PROVE  TypeOK' /\ live' = live /\ used' = used
<1>1. hook[k] \in Hook /\ hook[k].notice.order \in Orders
  BY DEF PaymentTypeOK, Hook, Notice
<1>2. row' \in [Orders -> Row] /\ live' = live /\ used' = used
  BY <1>1 DEF WriteOrder, PaymentTypeOK, TypeOK, SetRow, orderVars, Row, PaymentStatus
<1>3. QED
  BY <1>2 DEF WriteOrder, PaymentTypeOK, TypeOK, InventoryType, inventory, bootVars, counters

(***************************************************************************)
(* The steps of the payment service and of the providers keep the types.   *)
(***************************************************************************)
LEMMA PaymentStepTyped ==
  ASSUME PaymentTypeOK, PaymentStep
  PROVE  PaymentTypeOK'
<1> USE DEF PaymentTypeOK
<1>1. ASSUME UNCHANGED vars PROVE TypeOK' /\ live' = live
  BY <1>1 DEF vars, inventory, orderVars, bootVars, counters, TypeOK, InventoryType
<1>2. ASSUME NEW b \in Buyers, NEW o \in Orders, ReadForInitiate(b, o) PROVE PaymentTypeOK'
  BY <1>1, <1>2 DEF ReadForInitiate
<1>3. ASSUME NEW b \in Buyers, UpsertPayment(b) PROVE PaymentTypeOK'
  <2>1. PICK o \in starting[b] :
          \/ o \in live /\ payment' = [payment EXCEPT ![o] = "PENDING"]
          \/ UNCHANGED payment
    BY <1>3 DEF UpsertPayment
  <2>2. QED
    BY <1>1, <1>3, <2>1 DEF UpsertPayment, PaymentStatus
<1>4. ASSUME NEW o \in Orders, NEW ok \in BOOLEAN, Report(o, ok) PROVE PaymentTypeOK'
  BY <1>1, <1>4 DEF Report, Notice
<1>5. ASSUME NEW k \in Hooks, NEW n \in Notice, Deliver(k, n) PROVE PaymentTypeOK'
  BY <1>1, <1>5 DEF Deliver, Hook
<1>6. ASSUME NEW k \in Hooks, NEW o \in Orders, TestCheckout(k, o) PROVE PaymentTypeOK'
  BY <1>1, <1>6 DEF TestCheckout, Hook, Notice
<1>7. ASSUME NEW k \in Hooks, WritePayment(k) PROVE PaymentTypeOK'
  <2>1. hook[k] \in Hook /\ hook[k].notice.order \in Orders
    BY DEF Hook, Notice
  <2>2. hook' \in [Hooks -> Hook]
    BY <1>7, <2>1, NoHookIsHook DEF WritePayment, Hook
  <2>3. payment' \in [Orders -> {"NONE"} \cup PaymentStatus]
    BY <1>7, <2>1 DEF WritePayment, PaymentStatus
  <2>4. \A o \in Orders : payment'[o] # "NONE" => payment[o] # "NONE"
    BY <1>7, <2>1 DEF WritePayment
  <2>5. QED
    BY <1>1, <1>7, <2>2, <2>3, <2>4 DEF WritePayment
<1>8. ASSUME NEW k \in Hooks, WriteOrder(k) PROVE PaymentTypeOK'
  <2>1. hook[k] \in Hook /\ hook[k].notice.order \in Orders
    BY DEF Hook, Notice
  <2>2. owed' \subseteq Notice /\ confirmed' \subseteq Orders /\ crossed' \subseteq Orders
    BY <1>8, <2>1 DEF WriteOrder
  <2>3. hook' \in [Hooks -> Hook]
    BY <1>8, NoHookIsHook DEF WriteOrder
  <2>4. QED
    BY <1>8, <2>2, <2>3, WriteOrderTyped DEF WriteOrder
<1>9. QED
  BY <1>2, <1>3, <1>4, <1>5, <1>6, <1>7, <1>8 DEF PaymentStep

(***************************************************************************)
(* Every reachable state of the payment service, the providers and the     *)
(* order service below them is well typed; in particular no Payment row    *)
(* outlives its order.                                                     *)
(***************************************************************************)
THEOREM PaymentTyped == PaymentSpec => []PaymentTypeOK
<1>1. PaymentInit => PaymentTypeOK
  BY InitTyped, NoHookIsHook DEF PaymentInit, PaymentTypeOK, PaymentStatus
<1>2. PaymentTypeOK /\ [PaymentNext]_allVars => PaymentTypeOK'
  <2> SUFFICES ASSUME PaymentTypeOK, [PaymentNext]_allVars PROVE PaymentTypeOK'
    OBVIOUS
  <2>1. CASE OrderStep
    <3>1. handled' \subseteq Orders
      <4>1. call' \in [Handlers -> Call]
        BY <2>1, OrdersKept DEF PaymentTypeOK, TypeOK
      <4>2. QED
        BY <2>1, <4>1 DEF OrderStep, PaymentTypeOK, Call
    <3>2. QED
      BY <2>1, <3>1, OrdersKept DEF OrderStep, PaymentTypeOK
  <2>2. CASE Boot
    <3>1. TypeOK' /\ live' = live
      BY <2>2, OtherTyped DEF Boot, PaymentTypeOK, RecountRead, RecountWrite, orderVars
    <3>2. QED
      BY <2>2, <3>1 DEF Boot, payVars, PaymentTypeOK
  <2>3. CASE ClearAll
    <3>1. TypeOK'
      BY <2>3, OtherTyped DEF ClearAll, PaymentTypeOK
    <3>2. QED
      BY <2>3, <3>1 DEF ClearAll, PaymentTypeOK
  <2>4. CASE Crash
    <3>1. TypeOK' /\ live' = live
      BY <2>4, OtherTyped DEF Crash, PaymentTypeOK, Restart, orderVars
    <3>2. QED
      BY <2>4, <3>1, NoHookIsHook DEF Crash, PaymentTypeOK
  <2>5. CASE PaymentStep
    BY <2>5, PaymentStepTyped
  <2>6. CASE UNCHANGED allVars
    BY <2>6 DEF allVars, payVars, vars, inventory, orderVars, bootVars, counters,
                PaymentTypeOK, TypeOK, InventoryType
  <2>7. QED
    BY <2>1, <2>2, <2>3, <2>4, <2>5, <2>6 DEF PaymentNext
<1>3. QED
  BY <1>1, <1>2, PTL DEF PaymentSpec
-----------------------------------------------------------------------------
(***************************************************************************)
(* A creation works on a new id, whatever the callbacks do.                *)
(***************************************************************************)
LEMMA CreatesNew ==
  ASSUME PaymentTypeOK, CreateOfNew, [PaymentNext]_allVars
  PROVE  CreateOfNew'
<1> USE DEF CreateOfNew, Busy
<1>1. ASSUME used' = used, call' = call PROVE CreateOfNew'
  BY <1>1
<1>2. Idle.op = "idle"
  BY DEF Idle
<1>3. ASSUME NEW h \in Handlers, Read(h) PROVE CreateOfNew'
  <2>1. ASSUME NEW c \in Call, Begin(h, c), c.op # "idle",
               c.op = "create" => /\ c.order \notin used
                                  /\ \A g \in Handlers : Busy(g) => call[g].order # c.order,
               c.op # "create" => c.order \in live
        PROVE  CreateOfNew'
    <3>1. used' = used /\ \A g \in Handlers : call'[g] = IF g = h THEN c ELSE call[g]
      BY <2>1 DEF Begin, orderVars, PaymentTypeOK, TypeOK
    <3>2. live \subseteq used
      BY DEF PaymentTypeOK, TypeOK
    <3>3. QED
      BY <2>1, <3>1, <3>2
  <2>2. PICK o \in Orders :
          \/ ReadForCreate(h, o)
          \/ \E s \in OrderStatus : ReadForStatus(h, o, s)
          \/ \E paid \in BOOLEAN : ReadForPayment(h, o, paid)
          \/ ReadForReject(h, o)
    BY <1>3 DEF Read
  <2>3. row[o] \in Row /\ Idle \in Call /\ "PENDING" \in OrderStatus
    BY IdleIsCall, OrderAssumption DEF PaymentTypeOK, TypeOK
  <2>4. CASE ReadForCreate(h, o)
    <3>1. [Idle EXCEPT !.op = "create", !.order = o] \in Call
      BY <2>3 DEF Call
    <3>2. /\ [Idle EXCEPT !.op = "create", !.order = o].op = "create"
          /\ [Idle EXCEPT !.op = "create", !.order = o].order = o
      BY DEF Idle
    <3>3. QED
      BY <2>1, <2>4, <3>1, <3>2 DEF ReadForCreate
  <2>5. CASE \E s \in OrderStatus : ReadForStatus(h, o, s)
    BY <2>1, <2>3, <2>5 DEF ReadForStatus, Call
  <2>6. CASE \E paid \in BOOLEAN : ReadForPayment(h, o, paid)
    BY <2>1, <2>3, <2>6 DEF ReadForPayment, Call
  <2>7. CASE ReadForReject(h, o)
    BY <2>1, <2>3, <2>7 DEF ReadForReject, Call
  <2>8. QED
    BY <2>2, <2>4, <2>5, <2>6, <2>7
<1>4. ASSUME NEW h \in Handlers, Commit(h) PROVE CreateOfNew'
  <2>1. /\ Busy(h) /\ call' = [call EXCEPT ![h] = Idle]
        /\ \A q \in Orders \ {call[h].order} : q \in used' => q \in used
    BY <1>4, CommitWritesOwnRow DEF PaymentTypeOK
  <2>2. \A g \in Handlers : call'[g] = IF g = h THEN Idle ELSE call[g]
    BY <2>1 DEF PaymentTypeOK, TypeOK
  <2>3. \A g \in Handlers : call[g].order \in Orders
    BY DEF PaymentTypeOK, TypeOK, Call
  <2>4. QED
    BY <1>2, <2>1, <2>2, <2>3
<1>5. CASE OrderStep
  <2>1. CASE ClearSoldCounts \/ Catalogue
    BY <1>1, <2>1 DEF ClearSoldCounts, Catalogue, orderVars
  <2>2. QED
    BY <1>3, <1>4, <1>5, <2>1 DEF OrderStep
<1>6. CASE Boot
  BY <1>1, <1>6 DEF Boot, RecountRead, RecountWrite, orderVars
<1>7. CASE ClearAll
  BY <1>1, <1>7 DEF ClearAll, ClearOrders
<1>8. CASE Crash
  BY <1>2, <1>8 DEF Crash, Restart
<1>9. CASE PaymentStep
  <2>1. ASSUME NEW k \in Hooks, WriteOrder(k) PROVE CreateOfNew'
    BY <1>1, <2>1, WriteOrderTyped DEF WriteOrder
  <2>2. ASSUME UNCHANGED vars PROVE CreateOfNew'
    BY <1>1, <2>2 DEF vars, orderVars
  <2>3. QED
    BY <1>9, <2>1, <2>2 DEF PaymentStep, ReadForInitiate, UpsertPayment, Report, Deliver,
                            TestCheckout, WritePayment
<1>10. CASE UNCHANGED allVars
  BY <1>1, <1>10 DEF allVars, vars, orderVars
<1>11. QED
  BY <1>5, <1>6, <1>7, <1>8, <1>9, <1>10 DEF PaymentNext

(***************************************************************************)
(* Every admin's call in flight is noticed, however it began.              *)
(***************************************************************************)
LEMMA CallsNoticed ==
  ASSUME PaymentTypeOK, Noticed, [PaymentNext]_allVars
  PROVE  Noticed' /\ handled \subseteq handled'
<1> USE DEF Noticed
<1>1. ASSUME call' = call, handled' = handled PROVE Noticed' /\ handled \subseteq handled'
  BY <1>1
<1>2. CASE OrderStep
  BY <1>2 DEF OrderStep
<1>3. CASE Crash
  BY <1>3 DEF Crash, Restart, Idle
<1>4. CASE Boot \/ ClearAll
  BY <1>1, <1>4 DEF Boot, RecountRead, RecountWrite, payVars, ClearAll, ClearOrders
<1>5. CASE PaymentStep
  <2>1. ASSUME UNCHANGED <<vars, handled>> PROVE Noticed' /\ handled \subseteq handled'
    BY <1>1, <2>1 DEF vars
  <2>2. QED
    BY <1>1, <1>5, <2>1 DEF PaymentStep, ReadForInitiate, UpsertPayment, Report, Deliver,
                            TestCheckout, WritePayment, WriteOrder
<1>6. CASE UNCHANGED allVars
  BY <1>1, <1>6 DEF allVars, vars, payVars
<1>7. QED
  BY <1>2, <1>3, <1>4, <1>5, <1>6 DEF PaymentNext

(***************************************************************************)
(* A failure is on its way after a step only if it was before, or was      *)
(* reported in it.                                                         *)
(***************************************************************************)
LEMMA FailuresEnd ==
  ASSUME PaymentTypeOK, NEW o \in Orders,
         \A n \in Notice : n.order = o /\ ~n.ok => (n \in owed' => n \in owed),
         \A k \in Hooks : hook'[k].op # "idle" =>
           \/ hook[k].op # "idle" /\ hook'[k].notice = hook[k].notice
           \/ hook'[k].notice \in owed
           \/ hook'[k].notice.ok
  PROVE  FailureUnderway(o)' => FailureUnderway(o)
<1> DEFINE n == [order |-> o, ok |-> FALSE]
<1>1. n \in Notice /\ n.order = o /\ ~n.ok
  BY DEF Notice
<1>2. CASE n \in owed'
  BY <1>1, <1>2 DEF FailureUnderway
<1>3. ASSUME NEW k \in Hooks, hook'[k].op # "idle", hook'[k].notice = n
      PROVE  FailureUnderway(o)
  BY <1>1, <1>3 DEF FailureUnderway
<1>4. QED
  BY <1>2, <1>3 DEF FailureUnderway

(***************************************************************************)
(* A confirmed order that is not crossed has no failure before it: one     *)
(* that is reported later, or is there when the success is written, makes  *)
(* it crossed.                                                             *)
(***************************************************************************)
LEMMA NoneLate ==
  ASSUME PaymentTypeOK, NoLateFailure, [PaymentNext]_allVars
  PROVE  NoLateFailure' /\ crossed \subseteq crossed'
<1> DEFINE Fine == NoLateFailure' /\ crossed \subseteq crossed'
<1> USE DEF NoLateFailure
<1>1. ASSUME UNCHANGED <<owed, hook, confirmed, crossed>> PROVE Fine
  BY <1>1 DEF FailureUnderway
<1>2. NoHook.op = "idle"
  BY DEF NoHook
<1>3. \A k \in Hooks : hook[k] \in Hook /\ hook[k].notice \in Notice
  BY DEF PaymentTypeOK, Hook
<1>4. ASSUME confirmed' = confirmed, crossed' = crossed,
             \A o \in Orders : FailureUnderway(o)' => FailureUnderway(o)
      PROVE  Fine
  BY <1>4 DEF PaymentTypeOK
<1>5. CASE Crash
  <2>1. /\ UNCHANGED <<owed, confirmed, crossed>>
        /\ \A k \in Hooks : hook'[k].op = "idle"
    BY <1>2, <1>5 DEF Crash
  <2>2. \A o \in Orders : FailureUnderway(o)' => FailureUnderway(o)
    BY <2>1, FailuresEnd
  <2>3. QED
    BY <1>4, <2>1, <2>2
<1>6. CASE OrderStep \/ Boot \/ ClearAll
  BY <1>1, <1>6 DEF OrderStep, Boot, ClearAll, payVars
<1>7. ASSUME NEW o \in Orders, NEW ok \in BOOLEAN, Report(o, ok) PROVE Fine
  <2>1. /\ owed' = owed \cup {[order |-> o, ok |-> ok]} /\ hook' = hook
        /\ confirmed' = confirmed
        /\ crossed' = IF ~ok /\ o \in confirmed THEN crossed \cup {o} ELSE crossed
    BY <1>7 DEF Report
  <2>2. ASSUME NEW q \in confirmed' \ crossed', FailureUnderway(q)' PROVE FALSE
    <3>1. q \in confirmed \ crossed /\ q \in Orders /\ (ok \/ q # o)
      BY <2>1, <2>2 DEF PaymentTypeOK
    <3>2. FailureUnderway(q)
      BY <2>1, <2>2, <3>1, FailuresEnd
    <3>3. QED
      BY <3>1, <3>2
  <2>3. QED
    BY <2>1, <2>2
<1>8. ASSUME NEW k \in Hooks, NEW n \in Notice, Deliver(k, n) PROVE Fine
  <2>1. /\ n \in owed /\ UNCHANGED <<owed, confirmed, crossed>>
        /\ \A j \in Hooks : hook'[j] = IF j = k
              THEN [op |-> "payment", notice |-> n, answered |-> TRUE] ELSE hook[j]
    BY <1>8 DEF Deliver, PaymentTypeOK
  <2>2. \A o \in Orders : FailureUnderway(o)' => FailureUnderway(o)
    BY <2>1, FailuresEnd
  <2>3. QED
    BY <1>4, <2>1, <2>2
<1>9. ASSUME NEW k \in Hooks, NEW o \in Orders, TestCheckout(k, o) PROVE Fine
  <2>1. /\ UNCHANGED <<owed, confirmed, crossed>>
        /\ \A j \in Hooks : hook'[j] = IF j = k
              THEN [op |-> "payment", answered |-> FALSE,
                    notice |-> [order |-> o, ok |-> TRUE]] ELSE hook[j]
    BY <1>9 DEF TestCheckout, PaymentTypeOK
  <2>2. \A q \in Orders : FailureUnderway(q)' => FailureUnderway(q)
    BY <2>1, FailuresEnd
  <2>3. QED
    BY <1>4, <2>1, <2>2
<1>10. ASSUME NEW k \in Hooks, WritePayment(k) PROVE Fine
  <2>1. UNCHANGED <<owed, confirmed, crossed>>
    BY <1>10 DEF WritePayment
  <2>2. \A j \in Hooks :
          \/ hook'[j].op = "idle"
          \/ hook[j].op # "idle" /\ hook'[j].notice = hook[j].notice
    BY <1>2, <1>3, <1>10 DEF WritePayment, PaymentTypeOK, Hook
  <2>3. \A o \in Orders : FailureUnderway(o)' => FailureUnderway(o)
    BY <2>1, <2>2, FailuresEnd
  <2>4. QED
    BY <1>4, <2>1, <2>3
<1>11. ASSUME NEW k \in Hooks, WriteOrder(k) PROVE Fine
  <2> DEFINE n == hook[k].notice
  <2>1. /\ owed' \subseteq owed
        /\ \/ confirmed' = confirmed /\ crossed' = crossed
           \/ /\ confirmed' = confirmed \cup {n.order}
              /\ crossed' = IF FailureUnderway(n.order) THEN crossed \cup {n.order} ELSE crossed
    BY <1>11 DEF WriteOrder
  <2>2. \A j \in Hooks : hook'[j] = IF j = k THEN NoHook ELSE hook[j]
    BY <1>11 DEF WriteOrder, PaymentTypeOK
  <2>3. \A o \in Orders : FailureUnderway(o)' => FailureUnderway(o)
    BY <1>2, <2>1, <2>2, FailuresEnd
  <2>4. n.order \in Orders
    BY <1>3 DEF Notice
  <2>5. QED
    BY <2>1, <2>3, <2>4 DEF PaymentTypeOK
<1>12. CASE PaymentStep
  BY <1>1, <1>7, <1>8, <1>9, <1>10, <1>11, <1>12
     DEF PaymentStep, ReadForInitiate, UpsertPayment
<1>13. CASE UNCHANGED allVars
  BY <1>1, <1>13 DEF allVars, payVars
<1>14. QED
  BY <1>5, <1>6, <1>12, <1>13 DEF PaymentNext

(***************************************************************************)
(* A confirmed order is one that exists or existed, so that no creation    *)
(* takes its row.                                                          *)
(***************************************************************************)
LEMMA ConfirmedExisted ==
  ASSUME PaymentTypeOK, confirmed \subseteq used, [PaymentNext]_allVars
  PROVE  confirmed' \subseteq used'
<1>1. CASE OrderStep
  <2>1. ASSUME NEW h \in Handlers, Commit(h) PROVE used \subseteq used'
    BY <2>1 DEF Commit, CommitStatus, CommitPayment, CommitReject, CommitCreate, MoveAndSet,
                SetRow, Fail, orderVars
  <2>2. used \subseteq used'
    BY <1>1, <2>1 DEF OrderStep, Read, ReadForCreate, ReadForStatus, ReadForPayment,
                      ReadForReject, Begin, ClearSoldCounts, Catalogue, orderVars
  <2>3. QED
    BY <1>1, <2>2 DEF OrderStep
<1>2. CASE Boot \/ ClearAll \/ Crash
  BY <1>2 DEF Boot, RecountRead, RecountWrite, payVars, ClearAll, ClearOrders, Crash, Restart,
              orderVars
<1>3. CASE PaymentStep
  <2>1. ASSUME NEW k \in Hooks, WriteOrder(k) PROVE confirmed' \subseteq used'
    <3>1. confirmed' \subseteq confirmed \cup live /\ live \subseteq used
      BY <2>1 DEF WriteOrder, PaymentTypeOK, TypeOK
    <3>2. QED
      BY <2>1, <3>1, WriteOrderTyped
  <2>2. ASSUME UNCHANGED <<vars, confirmed>> PROVE confirmed' \subseteq used'
    BY <2>2 DEF vars, orderVars
  <2>3. QED
    BY <1>3, <2>1, <2>2 DEF PaymentStep, ReadForInitiate, UpsertPayment, Report, Deliver,
                            TestCheckout, WritePayment
<1>4. CASE UNCHANGED allVars
  BY <1>4 DEF allVars, vars, payVars, orderVars
<1>5. QED
  BY <1>1, <1>2, <1>3, <1>4 DEF PaymentNext

(***************************************************************************)
(* The step that matters: whoever writes the payment column of an order    *)
(* writes it for an order an admin handled, one no callback knows, or one  *)
(* whose confirmation is crossed if it is a failure that is written.       *)
(***************************************************************************)
LEMMA PaidStep ==
  ASSUME PaymentTypeOK, Sound, [PaymentNext]_allVars
  PROVE  PaidStaysPaid'
<1> SUFFICES ASSUME NEW o, o \in confirmed', o \in live', o \notin handled'
             PROVE  \/ row'[o].paymentStatus = "PAID"
                    \/ o \in crossed' /\ row'[o].paymentStatus = "FAILED"
  BY DEF PaidStaysPaid
<1> DEFINE Good == \/ row'[o].paymentStatus = "PAID"
                   \/ o \in crossed' /\ row'[o].paymentStatus = "FAILED"
<1> USE DEF PaymentTypeOK
<1>1. handled \subseteq handled' /\ crossed \subseteq crossed'
  BY CallsNoticed, NoneLate DEF Sound
<1>2. o \in confirmed /\ o \in live =>
        \/ row[o].paymentStatus = "PAID"
        \/ o \in crossed /\ row[o].paymentStatus = "FAILED"
  BY <1>1 DEF Sound, PaidStaysPaid
<1>3. ASSUME UNCHANGED <<row, live, confirmed>> PROVE Good
  BY <1>1, <1>2, <1>3
<1>4. ASSUME NEW h \in Handlers, Commit(h), confirmed' = confirmed
      PROVE  Good
  <2>1. /\ Busy(h) /\ call[h] \in Call
        /\ o # call[h].order => row'[o] = row[o] /\ (o \in live' <=> o \in live)
    BY <1>4, CommitWritesOwnRow DEF PaymentTypeOK, TypeOK
  <2>2. o # call[h].order
    <3>1. CASE call[h].op = "create"
      BY <1>4, <3>1 DEF Sound, CreateOfNew, ConfirmedKnown
    <3>2. CASE call[h].op \in {"status", "payment", "reject"}
      BY <1>1, <3>2 DEF Sound, Noticed
    <3>3. QED
      BY <2>1, <3>1, <3>2 DEF Busy, Call
  <2>3. QED
    BY <1>1, <1>2, <1>4, <2>1, <2>2
<1>5. CASE OrderStep
  <2>1. ASSUME NEW h \in Handlers, Read(h) PROVE UNCHANGED <<row, live>>
    BY <2>1 DEF Read, ReadForCreate, ReadForStatus, ReadForPayment, ReadForReject, Begin,
                orderVars
  <2>2. CASE ClearSoldCounts \/ Catalogue
    BY <1>3, <1>5, <2>2 DEF OrderStep, ClearSoldCounts, Catalogue, orderVars
  <2>3. QED
    BY <1>3, <1>4, <1>5, <2>1, <2>2 DEF OrderStep
<1>6. CASE Boot \/ Crash
  BY <1>3, <1>6 DEF Boot, RecountRead, RecountWrite, payVars, Crash, Restart, orderVars
<1>7. CASE ClearAll
  BY <1>7 DEF ClearAll, ClearOrders
<1>8. ASSUME NEW k \in Hooks, WriteOrder(k) PROVE Good
  <2> DEFINE n == hook[k].notice
  <2>1. /\ n \in Notice /\ hook[k].op = "order"
        /\ row \in [Orders -> Row] /\ o \in live
    BY <1>8, WriteOrderTyped DEF WriteOrder, PaymentTypeOK, TypeOK, Hook
  <2>2. CASE o # n.order
    <3>1. row'[o] = row[o] /\ live' = live /\ (o \in confirmed' => o \in confirmed)
      BY <1>8, <2>1, <2>2 DEF WriteOrder, SetRow, orderVars, Notice
    <3>2. QED
      BY <1>1, <1>2, <3>1
  <2>3. CASE o = n.order /\ n.ok
    BY <1>8, <2>1, <2>3 DEF WriteOrder, SetRow, Row, Notice
  <2>4. CASE o = n.order /\ ~n.ok
    <3>1. n = [order |-> o, ok |-> FALSE]
      BY <2>1, <2>4 DEF Notice
    <3>2. FailureUnderway(o)
      BY <2>1, <3>1 DEF FailureUnderway
    <3>3. confirmed' = confirmed /\ row'[o].paymentStatus = "FAILED"
      BY <1>8, <2>1, <2>4 DEF WriteOrder, SetRow, Row, Notice
    <3>4. o \in crossed
      BY <3>2, <3>3 DEF Sound, NoLateFailure
    <3>5. QED
      BY <1>1, <3>3, <3>4
  <2>5. QED
    BY <2>2, <2>3, <2>4
<1>9. CASE PaymentStep
  <2>1. ASSUME UNCHANGED <<vars, confirmed>> PROVE Good
    BY <1>3, <2>1 DEF vars, orderVars
  <2>2. QED
    BY <1>8, <1>9, <2>1 DEF PaymentStep, ReadForInitiate, UpsertPayment, Report, Deliver,
                            TestCheckout, WritePayment
<1>10. CASE UNCHANGED allVars
  BY <1>3, <1>10 DEF allVars, vars, payVars, orderVars
<1>11. QED
  BY <1>5, <1>6, <1>7, <1>9, <1>10 DEF PaymentNext

(***************************************************************************)
(* An order a callback has marked paid and no admin has touched stays      *)
(* paid, however callbacks, repeated notices, attempts to pay again, data  *)
(* resets and restarts interleave; only one whose confirmation a failure   *)
(* crossed may end FAILED, since markFailed looks at nothing before it     *)
(* writes.                                                                 *)
(***************************************************************************)
THEOREM PaidStaysSo == PaymentSpec => []PaidStaysPaid
<1>1. PaymentInit => Sound
  <2> SUFFICES ASSUME PaymentInit PROVE Sound
    OBVIOUS
  <2>1. \A h \in Handlers : call[h].op = "idle"
    BY DEF PaymentInit, Init, Idle
  <2>2. confirmed = {}
    BY DEF PaymentInit
  <2>3. QED
    BY <2>1, <2>2
       DEF Sound, CreateOfNew, NoLateFailure, Noticed, ConfirmedKnown, PaidStaysPaid
<1>2. PaymentTypeOK /\ Sound /\ [PaymentNext]_allVars => Sound'
  <2> SUFFICES ASSUME PaymentTypeOK, Sound, [PaymentNext]_allVars PROVE Sound'
    OBVIOUS
  <2>1. CreateOfNew' /\ Noticed' /\ NoLateFailure' /\ PaidStaysPaid'
    BY CreatesNew, CallsNoticed, NoneLate, PaidStep DEF Sound
  <2>2. ConfirmedKnown'
    BY ConfirmedExisted DEF Sound, ConfirmedKnown
  <2>3. QED
    BY <2>1, <2>2 DEF Sound
<1>3. Sound => PaidStaysPaid
  BY DEF Sound
<1>4. QED
  BY <1>1, <1>2, <1>3, PaymentTyped, PTL DEF PaymentSpec
=============================================================================
