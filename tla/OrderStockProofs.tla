--------------------------- MODULE OrderStockProofs ---------------------------
(***************************************************************************)
(* Proofs about the order service and the stock, for any number of orders, *)
(* products, variants and handlers, any order lines and any stock.         *)
(***************************************************************************)
EXTENDS OrderStock, DataFacts, TLAPS

\* The quantities of the lines of an order add up to a natural number.
LEMMA DemandNat ==
  /\ \A o \in Orders, p \in Products : Demand(o, p) \in Nat
  /\ \A o \in Orders, v \in Variants : VariantDemand(o, v) \in Nat
<1>1. ASSUME NEW o \in Orders, NEW lines \in SUBSET Lines[o] PROVE Total(lines) \in Nat
  <2>1. IsFiniteSet(lines) /\ \A l \in lines : l.quantity \in Nat
    BY CatalogueAssumption, FS_Subset DEF Line
  <2>2. QED
    BY <2>1, SumNat DEF Total
<1>2. QED
  BY <1>1 DEF Demand, VariantDemand

\* An idle slot holds a call, and a new order's columns are well typed.
LEMMA IdleIsCall == Idle \in Call /\ NewRow \in Row
<1>1. NewRow \in Row
  BY OrderAssumption DEF NewRow, Row, PaymentStatus
<1>2. (CHOOSE o \in Orders : TRUE) \in Orders
  BY CatalogueAssumption
<1>3. QED
  BY <1>1, <1>2, OrderAssumption DEF Idle, Call

\* adjustInventory leaves integers in every figure.
LEMMA MovesTyped ==
  ASSUME InventoryType, NEW o \in Orders, TakeStock(o) \/ ReturnStock(o)
  PROVE  InventoryType'
<1>1. \A p \in Products : Demand(o, p) \in Int
  BY DemandNat
<1>2. \A v \in Variants : VariantDemand(o, v) \in Int
  BY DemandNat
<1>3. CASE TakeStock(o)
  BY <1>1, <1>2, <1>3 DEF InventoryType, TakeStock
<1>4. CASE ReturnStock(o)
  BY <1>1, <1>2, <1>4 DEF InventoryType, ReturnStock
<1>5. QED
  BY <1>3, <1>4

\* A product has finitely many variant rows.
LEMMA RowsFinite ==
  ASSUME InventoryType, NEW p \in Products
  PROVE  RowsOf(p) \subseteq Variants /\ IsFiniteSet(RowsOf(p))
<1>1. RowsOf(p) \subseteq {v \in Variants : VariantOf[v] = p}
  BY DEF RowsOf, InventoryType
<1>2. QED
  BY <1>1, CatalogueAssumption, FS_Subset

\* The numbers typed into the form for the rows of a product add up to a natural
\* number.
LEMMA FormSumNat ==
  ASSUME NEW p \in Products, NEW rows \in SUBSET {v \in Variants : VariantOf[v] = p},
         NEW typed \in [rows -> Quantities]
  PROVE  SumOf(rows, typed) \in Nat
<1>1. IsFiniteSet(rows)
  BY CatalogueAssumption, FS_Subset
<1>2. \A v \in rows : typed[v] \in Nat
  BY QuantityAssumption
<1>3. QED
  BY <1>1, <1>2, SumNat

\* So do the admin form and the warehouse.
LEMMA CatalogueTyped ==
  ASSUME InventoryType, CatalogueStep
  PROVE  InventoryType'
<1> USE QuantityAssumption, CatalogueAssumption DEF InventoryType
<1>1. ASSUME NEW p \in Products, EditVariants(p) PROVE InventoryType'
  <2>1. PICK rows \in (SUBSET {v \in Variants : VariantOf[v] = p}) \ {{}} :
        \E typed \in [rows -> Quantities] :
          /\ listed' = {v \in listed : VariantOf[v] # p} \cup rows
          /\ vstock' = [v \in Variants |->
                          IF v \in rows THEN typed[v]
                          ELSE IF VariantOf[v] = p THEN 0 ELSE vstock[v]]
          /\ stock' = [stock EXCEPT ![p] = SumOf(rows, typed)]
    BY <1>1 DEF EditVariants
  <2>2. PICK typed \in [rows -> Quantities] :
          /\ listed' = {v \in listed : VariantOf[v] # p} \cup rows
          /\ vstock' = [v \in Variants |->
                          IF v \in rows THEN typed[v]
                          ELSE IF VariantOf[v] = p THEN 0 ELSE vstock[v]]
          /\ stock' = [stock EXCEPT ![p] = SumOf(rows, typed)]
    BY <2>1
  <2>3. vstock' \in [Variants -> Int] /\ listed' \subseteq Variants
    <3>1. \A v \in rows : v \in Variants /\ typed[v] \in Int
      <4>1. \A v \in rows : v \in Variants /\ typed[v] \in Quantities
        BY Zenon
      <4>2. \A n \in Quantities : n \in Int
        BY QuantityAssumption
      <4>3. QED
        BY <4>1, <4>2, Zenon
    <3>2. \A v \in Variants :
            (IF v \in rows THEN typed[v] ELSE IF VariantOf[v] = p THEN 0 ELSE vstock[v]) \in Int
      BY <3>1
    <3>3. vstock' \in [Variants -> Int]
      BY <2>2, <3>2
    <3>4. listed' \subseteq Variants
      BY <2>2, <3>1
    <3>5. QED
      BY <3>3, <3>4
  <2>4. stock' \in [Products -> Int]
    BY <2>2, FormSumNat
  <2>5. edits' \in 0 .. MaxEdits /\ soldCount' = soldCount
    BY <1>1 DEF EditVariants
  <2>6. QED
    BY <2>3, <2>4, <2>5
<1>2. ASSUME NEW p \in Products, EditStock(p) PROVE InventoryType'
  BY <1>2 DEF EditStock
<1>3. ASSUME NEW v \in Variants, DeductVariant(v) PROVE InventoryType'
  <2>1. SumOf(RowsOf(VariantOf[v]), vstock') \in Int
    <3>1. \A u \in Variants : vstock'[u] \in Int
      BY <1>3 DEF DeductVariant
    <3>2. QED
      BY <3>1, RowsFinite, SumInt
  <2>2. stock' = [stock EXCEPT ![VariantOf[v]] = SumOf(RowsOf(VariantOf[v]), vstock')]
    BY <1>3 DEF DeductVariant
  <2>3. stock' \in [Products -> Int]
    BY <2>1, <2>2
  <2>4. QED
    BY <1>3, <2>3 DEF DeductVariant
<1>4. ASSUME NEW p \in Products, DeductPlain(p) PROVE InventoryType'
  BY <1>4 DEF DeductPlain
<1>5. ASSUME NEW p \in Products, DropVariants(p) PROVE InventoryType'
  <2>1. stock' \in [Products -> Int]
    BY <1>5 DEF DropVariants
  <2>2. vstock' \in [Variants -> Int]
    BY <1>5 DEF DropVariants
  <2>3. edits' \in 0 .. MaxEdits /\ listed' \subseteq Variants /\ soldCount' \in [Products -> Int]
    BY <1>5 DEF DropVariants
  <2>4. QED
    BY <2>1, <2>2, <2>3
<1>6. QED
  BY <1>1, <1>2, <1>3, <1>4, <1>5 DEF CatalogueStep

\* The end of every call keeps the types.
LEMMA CommitTyped ==
  ASSUME TypeOK, NEW h \in Handlers, Commit(h)
  PROVE  TypeOK'
<1> DEFINE o == call[h].order
<1>1. o \in Orders /\ call[h] \in Call /\ row[o] \in Row
  BY DEF TypeOK, Call
<1>2. ASSUME Return(h)
      PROVE  /\ call' \in [Handlers -> Call]
             /\ UNCHANGED <<clearing, todo, tally, clears, restarts, calls>>
  BY <1>2, IdleIsCall DEF TypeOK, Return, bootVars, counters
<1>3. ASSUME NEW out, NEW new \in Row, MoveAndSet(h, out, new) PROVE TypeOK'
  <2>1. /\ InventoryType'
        /\ row' \in [Orders -> Row] /\ live' = live /\ used' = used
        /\ Return(h)
    BY <1>1, <1>3, MovesTyped DEF MoveAndSet, SetRow, Fail, TypeOK, inventory,
       orderVars, InventoryType
  <2>2. QED
    BY <1>2, <2>1 DEF TypeOK
<1>4. CASE CommitStatus(h)
  <2>1. PICK p \in PaymentStatus : \E out :
          MoveAndSet(h, out, [status |-> call[h].status, paymentStatus |-> p])
    BY <1>1, <1>4 DEF CommitStatus, Row, PaymentStatus
  <2>2. [status |-> call[h].status, paymentStatus |-> p] \in Row
    BY <1>1, <2>1 DEF Row, Call
  <2>3. QED
    BY <1>3, <2>1, <2>2
<1>5. CASE CommitPayment(h)
  <2>1. PICK p \in PaymentStatus : \E out : MoveAndSet(h, out, [row[o] EXCEPT !.paymentStatus = p])
    BY <1>5 DEF CommitPayment, PaymentStatus
  <2>2. [row[o] EXCEPT !.paymentStatus = p] \in Row
    BY <1>1, <2>1 DEF Row
  <2>3. QED
    BY <1>3, <2>1, <2>2
<1>6. CASE CommitReject(h)
  <2>1. [row[o] EXCEPT !.paymentStatus = "FAILED"] \in Row
    BY <1>1 DEF Row, PaymentStatus
  <2>2. /\ InventoryType'
        /\ row' \in [Orders -> Row] /\ live' = live /\ used' = used
        /\ Return(h)
    BY <1>1, <1>6, <2>1 DEF CommitReject, SetRow, Fail, TypeOK, inventory, orderVars,
       InventoryType
  <2>3. QED
    BY <1>2, <2>2 DEF TypeOK
<1>7. CASE CommitCreate(h)
  <2>1. /\ InventoryType'
        /\ row' \in [Orders -> Row]
        /\ live' \subseteq used' /\ used' \subseteq Orders /\ IsFiniteSet(used')
        /\ Return(h)
    BY <1>1, <1>7, IdleIsCall, FS_AddElement
    DEF CommitCreate, Fail, TypeOK, inventory, orderVars, InventoryType
  <2>2. QED
    BY <1>2, <2>1 DEF TypeOK
<1>8. QED
  BY <1>4, <1>5, <1>6, <1>7 DEF Commit

\* The units of a product in any of the orders that have a row.
LEMMA LiveSumNat ==
  ASSUME TypeOK, NEW some \in SUBSET live, NEW p \in Products
  PROVE  IsFiniteSet(some) /\ SumOf(some, [o \in Orders |-> Demand(o, p)]) \in Nat
<1>1. IsFiniteSet(some) /\ some \subseteq Orders
  BY FS_Subset DEF TypeOK
<1>2. QED
  BY <1>1, DemandNat, SumNat

\* The steps that are not the end of a call.
LEMMA OtherTyped ==
  ASSUME TypeOK,
         \/ \E h \in Handlers : Read(h)
         \/ ClearOrders \/ ClearSoldCounts
         \/ Restart \/ (\E p \in Products : RecountRead(p)) \/ RecountWrite
         \/ Catalogue
  PROVE  TypeOK'
<1>1. ASSUME NEW h \in Handlers, Read(h) PROVE TypeOK'
  <2>1. ASSUME NEW c \in Call, Begin(h, c) PROVE TypeOK'
    BY <2>1, OrderAssumption DEF Begin, TypeOK, inventory, orderVars, bootVars, InventoryType
  <2>2. PICK o \in Orders :
          \/ ReadForCreate(h, o)
          \/ \E s \in OrderStatus : ReadForStatus(h, o, s)
          \/ \E paid \in BOOLEAN : ReadForPayment(h, o, paid)
          \/ ReadForReject(h, o)
    BY <1>1 DEF Read
  <2>3. row[o] \in Row /\ "PENDING" \in OrderStatus
    BY OrderAssumption DEF TypeOK
  <2>4. CASE ReadForCreate(h, o)
    <3>1. [Idle EXCEPT !.op = "create", !.order = o] \in Call
      BY IdleIsCall DEF Call
    <3>2. QED
      BY <2>1, <2>4, <3>1 DEF ReadForCreate
  <2>5. ASSUME NEW s \in OrderStatus, ReadForStatus(h, o, s) PROVE TypeOK'
    <3>1. [op |-> "status", order |-> o, status |-> s, paid |-> FALSE,
           existing |-> row[o]] \in Call
      BY <2>3 DEF Call
    <3>2. QED
      BY <2>1, <2>5, <3>1 DEF ReadForStatus
  <2>6. ASSUME NEW paid \in BOOLEAN, ReadForPayment(h, o, paid) PROVE TypeOK'
    <3>1. [op |-> "payment", order |-> o, status |-> "PENDING", paid |-> paid,
           existing |-> row[o]] \in Call
      BY <2>3 DEF Call
    <3>2. QED
      BY <2>1, <2>6, <3>1 DEF ReadForPayment
  <2>7. CASE ReadForReject(h, o)
    <3>1. [op |-> "reject", order |-> o, status |-> "PENDING", paid |-> FALSE,
           existing |-> row[o]] \in Call
      BY <2>3 DEF Call
    <3>2. QED
      BY <2>1, <2>7, <3>1 DEF ReadForReject
  <2>8. QED
    BY <2>2, <2>4, <2>5, <2>6, <2>7
<1>2. CASE ClearOrders
  BY <1>2, IdleIsCall DEF ClearOrders, TypeOK, inventory, bootVars, InventoryType
<1>3. CASE ClearSoldCounts
  <2>1. clearing' \in BOOLEAN
    BY <1>3, Zenon DEF ClearSoldCounts
  <2>2. InventoryType'
    BY <1>3 DEF ClearSoldCounts, TypeOK, InventoryType
  <2>3. QED
    BY <1>3, <2>1, <2>2, Zenon DEF ClearSoldCounts, TypeOK, orderVars, bootVars, counters
<1>4. CASE Restart
  <2>1. clearing' \in BOOLEAN
    BY <1>4, Zenon DEF Restart
  <2>2. /\ InventoryType' /\ live' \subseteq used' /\ used' \subseteq Orders /\ IsFiniteSet(used')
        /\ row' \in [Orders -> Row] /\ call' \in [Handlers -> Call]
        /\ todo' \subseteq Products /\ tally' \subseteq Tally
        /\ clears' \in Nat /\ restarts' \in Nat /\ calls' \in Nat
    BY <1>4, IdleIsCall DEF Restart, TypeOK, inventory, orderVars, InventoryType
  <2>3. QED
    BY <2>1, <2>2, Zenon DEF TypeOK
<1>5. ASSUME NEW p \in Products, RecountRead(p) PROVE TypeOK'
  <2>1. [product |-> p, count |-> PaidUnits(p)] \in Tally
    BY LiveSumNat DEF PaidUnits, Tally
  <2>2. QED
    BY <1>5, <2>1 DEF RecountRead, TypeOK, inventory, orderVars, counters, InventoryType
<1>6. CASE RecountWrite
  BY <1>6 DEF RecountWrite, TypeOK, orderVars, counters, InventoryType, Tally
<1>7. CASE Catalogue
  BY <1>7, CatalogueTyped DEF Catalogue, TypeOK, orderVars, bootVars, counters
<1>8. QED
  BY <1>1, <1>2, <1>3, <1>4, <1>5, <1>6, <1>7

\* The initial state is well typed.
LEMMA InitTyped == Init => TypeOK
<1> SUFFICES ASSUME Init PROVE TypeOK
  OBVIOUS
<1>1. clearing \in BOOLEAN
  BY Zenon DEF Init
<1>2. InventoryType
  BY QuantityAssumption DEF Init, InitInventory, InventoryType
<1>3. /\ live \subseteq used /\ used \subseteq Orders /\ IsFiniteSet(used)
      /\ row \in [Orders -> Row] /\ call \in [Handlers -> Call]
      /\ todo \subseteq Products /\ tally \subseteq Tally
      /\ clears \in Nat /\ restarts \in Nat /\ calls \in Nat
  BY IdleIsCall, FS_EmptySet DEF Init
<1>4. QED
  BY <1>1, <1>2, <1>3, Zenon DEF TypeOK

\* Every step keeps the types.
LEMMA NextTyped == TypeOK /\ [Next]_vars => TypeOK'
<1> SUFFICES ASSUME TypeOK, [Next]_vars PROVE TypeOK'
  OBVIOUS
<1>1. CASE Next
  BY <1>1, CommitTyped, OtherTyped DEF Next
<1>2. CASE UNCHANGED vars
  BY <1>2 DEF vars, inventory, orderVars, bootVars, counters, TypeOK, InventoryType
<1>3. QED
  BY <1>1, <1>2

(***************************************************************************)
(* Every variable keeps its type: in particular an order that has a row    *)
(* has had its id assigned, and the recount only ever holds integers.      *)
(***************************************************************************)
THEOREM TypeCorrect == Spec => []TypeOK
BY InitTyped, NextTyped, PTL DEF Spec
-----------------------------------------------------------------------------
\* A sale takes only what is available, a return only adds.
LEMMA MovesNonNegative ==
  ASSUME TypeOK, StockNeverNegative, NEW o \in Orders,
         (TakeStock(o) /\ Available(o)) \/ ReturnStock(o)
  PROVE  StockNeverNegative'
<1>1. \A p \in Products : Demand(o, p) \in Nat /\ stock[p] \in Int
  BY DemandNat DEF TypeOK, InventoryType
<1>2. \A v \in Variants : VariantDemand(o, v) \in Nat /\ vstock[v] \in Int
  BY DemandNat DEF TypeOK, InventoryType
<1>3. CASE TakeStock(o) /\ Available(o)
  BY <1>1, <1>2, <1>3 DEF StockNeverNegative, TakeStock, Available
<1>4. CASE ReturnStock(o)
  BY <1>1, <1>2, <1>4 DEF StockNeverNegative, ReturnStock
<1>5. QED
  BY <1>3, <1>4

\* The form accepts no negative number and a deduction checks the figure it
\* decrements; the recomputed aggregate is a sum of such figures.
LEMMA CatalogueNonNegative ==
  ASSUME TypeOK, StockNeverNegative, CatalogueStep
  PROVE  StockNeverNegative'
<1> USE DEF StockNeverNegative, TypeOK, InventoryType
<1>1. \A n \in Quantities : n \in Nat
  BY QuantityAssumption
<1>2. ASSUME NEW p \in Products, EditVariants(p) PROVE StockNeverNegative'
  <2>1. PICK rows \in (SUBSET {v \in Variants : VariantOf[v] = p}) \ {{}} :
        \E typed \in [rows -> Quantities] :
          /\ vstock' = [v \in Variants |->
                          IF v \in rows THEN typed[v]
                          ELSE IF VariantOf[v] = p THEN 0 ELSE vstock[v]]
          /\ stock' = [stock EXCEPT ![p] = SumOf(rows, typed)]
    BY <1>2 DEF EditVariants
  <2>2. PICK typed \in [rows -> Quantities] :
          /\ vstock' = [v \in Variants |->
                          IF v \in rows THEN typed[v]
                          ELSE IF VariantOf[v] = p THEN 0 ELSE vstock[v]]
          /\ stock' = [stock EXCEPT ![p] = SumOf(rows, typed)]
    BY <2>1
  <2>3. \A v \in rows : typed[v] \in Quantities
    BY Zenon
  <2>4. \A v \in rows : typed[v] \in Nat
    BY <1>1, <2>3, Zenon
  <2>5. \A v \in Variants : vstock'[v] >= 0
    BY <2>2, <2>4
  <2>6. \A q \in Products : stock'[q] >= 0
    BY <2>2, FormSumNat
  <2>7. QED
    BY <2>5, <2>6
<1>3. ASSUME NEW p \in Products, EditStock(p) PROVE StockNeverNegative'
  BY <1>1, <1>3 DEF EditStock
<1>4. ASSUME NEW v \in Variants, DeductVariant(v) PROVE StockNeverNegative'
  <2>1. \A u \in Variants : vstock'[u] >= 0
    BY <1>1, <1>4 DEF DeductVariant
  <2>2. /\ SumOf(RowsOf(VariantOf[v]), vstock') \in Nat
        /\ stock' = [stock EXCEPT ![VariantOf[v]] = SumOf(RowsOf(VariantOf[v]), vstock')]
    <3>1. \A u \in Variants : vstock'[u] \in Nat
      <4>1. \A u \in Variants : vstock'[u] \in Int
        BY <1>1, <1>4 DEF DeductVariant
      <4>2. QED
        BY <2>1, <4>1
    <3>2. VariantOf[v] \in Products
      BY CatalogueAssumption
    <3>3. RowsOf(VariantOf[v]) \subseteq Variants /\ IsFiniteSet(RowsOf(VariantOf[v]))
      BY <3>2, RowsFinite
    <3>4. SumOf(RowsOf(VariantOf[v]), vstock') \in Nat
      BY <3>1, <3>3, SumNat
    <3>5. QED
      BY <1>4, <3>4 DEF DeductVariant
  <2>3. \A q \in Products : stock'[q] >= 0
    BY <2>2
  <2>4. QED
    BY <2>1, <2>3
<1>5. ASSUME NEW p \in Products, DeductPlain(p) PROVE StockNeverNegative'
  BY <1>1, <1>5 DEF DeductPlain
<1>6. ASSUME NEW p \in Products, DropVariants(p) PROVE StockNeverNegative'
  BY <1>1, <1>6 DEF DropVariants
<1>7. QED
  BY <1>2, <1>3, <1>4, <1>5, <1>6 DEF CatalogueStep

(***************************************************************************)
(* Whatever the handlers do at the same time, no figure of the stock goes  *)
(* below zero: the inductive invariant is TypeOK with the property itself, *)
(* because adjustInventory checks inside the transaction that decrements.  *)
(***************************************************************************)
THEOREM NeverNegative == Spec => []StockNeverNegative
<1>1. Init => StockNeverNegative
  BY QuantityAssumption DEF Init, InitInventory, StockNeverNegative
<1>2. TypeOK /\ StockNeverNegative /\ [Next]_vars => StockNeverNegative'
  <2> SUFFICES ASSUME TypeOK, StockNeverNegative, [Next]_vars
               PROVE  StockNeverNegative'
    OBVIOUS
  <2>1. CASE UNCHANGED <<stock, vstock>>
    BY <2>1 DEF StockNeverNegative
  <2>2. ASSUME NEW h \in Handlers, Commit(h) PROVE StockNeverNegative'
    <3>1. call[h].order \in Orders
      BY DEF TypeOK, Call
    <3>2. ASSUME NEW out, NEW new, MoveAndSet(h, out, new) PROVE StockNeverNegative'
      BY <2>1, <3>1, <3>2, MovesNonNegative DEF MoveAndSet, Fail, inventory
    <3>3. QED
      BY <2>1, <2>2, <3>2 DEF Commit, CommitStatus, CommitPayment, CommitReject,
         CommitCreate, Fail, inventory
  <2>3. CASE Catalogue
    BY <2>3, CatalogueNonNegative DEF Catalogue
  <2>4. ASSUME NEW h \in Handlers, Read(h) PROVE UNCHANGED <<stock, vstock>>
    BY <2>4 DEF Read, ReadForCreate, ReadForStatus, ReadForPayment, ReadForReject, Begin,
       inventory
  <2>5. QED
    BY <2>1, <2>2, <2>3, <2>4 DEF Next, vars, inventory, ClearOrders, ClearSoldCounts,
       Restart, RecountRead, RecountWrite
<1>3. QED
  BY <1>1, <1>2, TypeCorrect, PTL DEF Spec
-----------------------------------------------------------------------------
\* A new call is on an order no other call is working on.
LEMMA BeginSound ==
  ASSUME TypeOK, CallsSound, NEW h \in Handlers, Read(h)
  PROVE  CallsSound'
<1> USE DEF CallsSound, OneCallPerOrder, CreateOfNew, RejectOfPending, SnapshotFresh, Busy
<1>1. ASSUME NEW c \in Call, Begin(h, c), c.op # "idle",
             c.op = "create" =>
               c.order \notin used /\ \A g \in Handlers : Busy(g) => call[g].order # c.order,
             c.op = "reject" => c.existing.paymentStatus = "PENDING",
             c.op # "create" => c.order \in live /\ c.existing = row[c.order]
      PROVE  CallsSound'
  <2>1. /\ call' = [call EXCEPT ![h] = c]
        /\ row' = row /\ live' = live /\ used' = used
        /\ Exclusive => \A g \in Handlers : Busy(g) => call[g].order # c.order
    BY <1>1 DEF Begin, orderVars
  <2>2. \A g \in Handlers : call'[g] = IF g = h THEN c ELSE call[g]
    BY <2>1 DEF TypeOK
  <2>3. OneCallPerOrder'
    BY <2>1, <2>2
  <2>4. CreateOfNew'
    BY <1>1, <2>1, <2>2 DEF TypeOK
  <2>5. RejectOfPending' /\ SnapshotFresh'
    BY <1>1, <2>1, <2>2
  <2>6. QED
    BY <2>3, <2>4, <2>5
<1>2. PICK o \in Orders :
        \/ ReadForCreate(h, o)
        \/ \E s \in OrderStatus : ReadForStatus(h, o, s)
        \/ \E paid \in BOOLEAN : ReadForPayment(h, o, paid)
        \/ ReadForReject(h, o)
  BY DEF Read
<1>3. row[o] \in Row /\ "PENDING" \in OrderStatus
  BY OrderAssumption DEF TypeOK
<1>4. CASE ReadForCreate(h, o)
  <2>1. [Idle EXCEPT !.op = "create", !.order = o] \in Call
    BY IdleIsCall DEF Call
  <2>2. /\ [Idle EXCEPT !.op = "create", !.order = o].op = "create"
        /\ [Idle EXCEPT !.op = "create", !.order = o].order = o
    BY DEF Idle
  <2> DEFINE c == [Idle EXCEPT !.op = "create", !.order = o]
  <2>3. Begin(h, c) /\ c.order \notin used
        /\ \A g \in Handlers : Busy(g) => call[g].order # c.order
    BY <1>4, <2>2 DEF ReadForCreate
  <2> HIDE DEF c
  <2>4. QED
    BY <1>1, <2>1, <2>2, <2>3 DEF c
<1>5. ASSUME NEW s \in OrderStatus, ReadForStatus(h, o, s) PROVE CallsSound'
  <2>1. [op |-> "status", order |-> o, status |-> s, paid |-> FALSE,
         existing |-> row[o]] \in Call
    BY <1>3 DEF Call
  <2>2. QED
    BY <1>1, <1>5, <2>1 DEF ReadForStatus
<1>6. ASSUME NEW paid \in BOOLEAN, ReadForPayment(h, o, paid) PROVE CallsSound'
  <2>1. [op |-> "payment", order |-> o, status |-> "PENDING", paid |-> paid,
         existing |-> row[o]] \in Call
    BY <1>3 DEF Call
  <2>2. QED
    BY <1>1, <1>6, <2>1 DEF ReadForPayment
<1>7. CASE ReadForReject(h, o)
  <2>1. [op |-> "reject", order |-> o, status |-> "PENDING", paid |-> FALSE,
         existing |-> row[o]] \in Call
    BY <1>3 DEF Call
  <2>2. QED
    BY <1>1, <1>7, <2>1 DEF ReadForReject
<1>8. QED
  BY <1>2, <1>4, <1>5, <1>6, <1>7

\* The end of a call touches the row of its own order only, which no other
\* call has read.
LEMMA CommitWritesOwnRow ==
  ASSUME TypeOK, NEW h \in Handlers, Commit(h)
  PROVE  /\ Busy(h)
         /\ call' = [call EXCEPT ![h] = Idle]
         /\ \A q \in Orders \ {call[h].order} :
              row'[q] = row[q] /\ (q \in live' <=> q \in live) /\ (q \in used' <=> q \in used)
<1>1. ASSUME NEW out, NEW new, MoveAndSet(h, out, new)
      PROVE  /\ call' = [call EXCEPT ![h] = Idle]
             /\ live' = live /\ used' = used
             /\ row' = row \/ row' = [row EXCEPT ![call[h].order] = new]
  BY <1>1 DEF MoveAndSet, SetRow, Fail, Return, orderVars
<1>2. CASE CommitStatus(h) \/ CommitPayment(h)
  BY <1>1, <1>2 DEF CommitStatus, CommitPayment, TypeOK, Busy
<1>3. CASE CommitReject(h)
  BY <1>3 DEF CommitReject, SetRow, Fail, Return, TypeOK, orderVars, Busy
<1>4. CASE CommitCreate(h)
  BY <1>4 DEF CommitCreate, Fail, Return, orderVars, TypeOK, Busy
<1>5. QED
  BY <1>2, <1>3, <1>4 DEF Commit

\* Ending a call, with whatever it writes, keeps the calls sound.
LEMMA CommitSound ==
  ASSUME TypeOK, CallsSound, NEW h \in Handlers, Commit(h)
  PROVE  CallsSound'
<1> USE DEF CallsSound, OneCallPerOrder, CreateOfNew, RejectOfPending, SnapshotFresh, Busy
<1>1. Idle.op = "idle"
  BY DEF Idle
<1>2. \A g \in Handlers : call'[g] = IF g = h THEN Idle ELSE call[g]
  BY CommitWritesOwnRow DEF TypeOK
<1>3. \A g \in Handlers : call[g] \in Call /\ call[g].order \in Orders
  BY DEF TypeOK, Call
<1>4. OneCallPerOrder' /\ RejectOfPending'
  BY <1>1, <1>2
<1>5. SnapshotFresh'
  BY <1>1, <1>2, <1>3, CommitWritesOwnRow
<1>6. CreateOfNew'
  <2> SUFFICES ASSUME NEW g \in Handlers, call'[g].op = "create"
               PROVE  /\ call'[g].order \notin used'
                      /\ \A f \in Handlers :
                           Busy(f)' /\ f # g => call'[f].order # call'[g].order
    OBVIOUS
  <2>1. g # h /\ call[g].op = "create" /\ call'[g].order = call[g].order
    BY <1>1, <1>2
  <2>2. \A f \in Handlers : Busy(f)' /\ f # g => call'[f].order # call'[g].order
    BY <1>1, <1>2, <2>1
  <2>3. CASE CommitCreate(h)
    <3>1. used' = used \/ used' = used \cup {call[h].order}
      BY <2>3 DEF CommitCreate, Fail, orderVars
    <3>2. call[g].order # call[h].order
      BY <2>1, <2>3 DEF CommitCreate, TypeOK
    <3>3. QED
      BY <2>1, <2>2, <3>1, <3>2
  <2>4. CASE used' = used
    BY <2>1, <2>2, <2>4
  <2>5. QED
    BY <2>3, <2>4 DEF Commit, CommitStatus, CommitPayment, CommitReject, MoveAndSet, SetRow,
       Fail, orderVars
<1>7. QED
  BY <1>4, <1>5, <1>6

(***************************************************************************)
(* The snapshot of every call is current when it commits, if the admins    *)
(* have one call per order in flight at a time. Calls that only started on *)
(* the same order in turn never see a stale row, whatever the catalogue,   *)
(* the clearing of the orders and a restart do in between.                 *)
(***************************************************************************)
THEOREM CallsStaySound == Spec => []CallsSound
<1>1. Init => CallsSound
  <2> SUFFICES ASSUME Init PROVE CallsSound
    OBVIOUS
  <2>1. \A h \in Handlers : call[h] = Idle /\ Idle.op = "idle"
    BY DEF Init, Idle
  <2>2. QED
    BY <2>1 DEF CallsSound, OneCallPerOrder, CreateOfNew, RejectOfPending, SnapshotFresh, Busy
<1>2. TypeOK /\ CallsSound /\ [Next]_vars => CallsSound'
  <2> SUFFICES ASSUME TypeOK, CallsSound, [Next]_vars PROVE CallsSound'
    OBVIOUS
  <2> USE DEF CallsSound, OneCallPerOrder, CreateOfNew, RejectOfPending, SnapshotFresh, Busy
  <2>1. CASE UNCHANGED <<live, used, row, call>>
    BY <2>1
  <2>2. CASE ClearOrders
    BY <2>2 DEF ClearOrders
  <2>3. CASE Restart
    <3>1. \A h \in Handlers : call'[h] = Idle /\ Idle.op = "idle"
      BY <2>3 DEF Restart, Idle
    <3>2. QED
      BY <3>1
  <2>4. QED
    BY <2>1, <2>2, <2>3, BeginSound, CommitSound DEF Next, vars, orderVars, Catalogue,
       ClearSoldCounts, RecountRead, RecountWrite
<1>3. QED
  BY <1>1, <1>2, TypeCorrect, PTL DEF Spec
-----------------------------------------------------------------------------
\* What the end of a call does to the stock, seen from the rows: nothing, or
\* the order's goods go out, or they come back.
LEMMA CommitMoves ==
  ASSUME Exclusive, TypeOK, CallsSound, NEW h \in Handlers, Commit(h),
         NEW o \in Orders, o = call[h].order
  PROVE  /\ \A q \in Orders \ {o} : q \in OutOrders' <=> q \in OutOrders
         /\ \/ UNCHANGED inventory /\ (o \in OutOrders' <=> o \in OutOrders)
            \/ o \in OutOrders /\ o \notin OutOrders' /\ ReturnStock(o)
            \/ o \notin OutOrders /\ o \in OutOrders' /\ Available(o) /\ TakeStock(o)
<1>1. \A q \in Orders \ {o} : q \in OutOrders' <=> q \in OutOrders
  BY CommitWritesOwnRow DEF OutOrders
<1>2. /\ call[h] \in Call /\ row[o] \in Row
      /\ call[h].op \in {"status", "payment", "reject"} /\ o \in live
           => call[h].existing = row[o]
  BY DEF CallsSound, SnapshotFresh, TypeOK
<1>3. ASSUME NEW out \in BOOLEAN, NEW new, MoveAndSet(h, out, new),
             call[h].op \in {"status", "payment"},
             o \in live => (out <=> StockIsOut(new))
      PROVE  \/ UNCHANGED inventory /\ (o \in OutOrders' <=> o \in OutOrders)
             \/ o \in OutOrders /\ o \notin OutOrders' /\ ReturnStock(o)
             \/ o \notin OutOrders /\ o \in OutOrders' /\ Available(o) /\ TakeStock(o)
  <2>1. CASE Fail(h)
    BY <2>1 DEF Fail, orderVars, OutOrders
  <2>2. ASSUME o \in live, SetRow(o, new)
        PROVE  (o \in OutOrders' <=> out) /\ (o \in OutOrders <=> StockIsOut(call[h].existing))
    <3>1. row'[o] = new /\ live' = live
      BY <2>2 DEF SetRow, TypeOK
    <3>2. QED
      BY <1>2, <1>3, <2>2, <3>1 DEF OutOrders
  <2>3. QED
    BY <1>3, <2>1, <2>2 DEF MoveAndSet
<1>4. CASE CommitStatus(h)
  <2> DEFINE was == call[h].existing
             s == call[h].status
             reset == s = "CANCELLED" /\ was.paymentStatus = "PAID"
             new == [status |-> s,
                     paymentStatus |-> IF reset THEN "PENDING" ELSE row[o].paymentStatus]
             out == StockIsOut([was EXCEPT !.status = s])
  <2>1. MoveAndSet(h, out, new) /\ call[h].op = "status"
    BY <1>4 DEF CommitStatus
  <2>2. was \in Row
    BY <1>2 DEF Call
  <2>3. out = (was.paymentStatus = "PAID" /\ s # "CANCELLED")
    BY <2>2 DEF StockIsOut, Row
  <2>4. o \in live => (out <=> StockIsOut(new))
    BY <1>2, <2>1, <2>3 DEF StockIsOut
  <2>5. out \in BOOLEAN
    BY <2>3
  <2>6. QED
    BY <1>1, <1>3, <2>1, <2>4, <2>5
<1>5. CASE CommitPayment(h)
  <2> DEFINE was == call[h].existing
             p == IF call[h].paid THEN "PAID" ELSE "PENDING"
             new == [row[o] EXCEPT !.paymentStatus = p]
             out == StockIsOut([was EXCEPT !.paymentStatus = p])
  <2>1. MoveAndSet(h, out, new) /\ call[h].op = "payment"
    BY <1>5 DEF CommitPayment
  <2>2. o \in live => (out <=> StockIsOut(new))
    BY <1>2, <2>1
  <2>3. out \in BOOLEAN
    BY DEF StockIsOut
  <2>4. QED
    BY <1>1, <1>3, <2>1, <2>2, <2>3
<1>6. CASE CommitReject(h)
  <2>1. CASE o \notin live
    BY <1>1, <1>6, <2>1 DEF CommitReject, Fail, orderVars, OutOrders
  <2>2. CASE o \in live
    <3>1. row[o].paymentStatus = "PENDING"
      BY <1>2, <1>6, <2>2 DEF CommitReject, CallsSound, RejectOfPending
    <3>2. row' = [row EXCEPT ![o] = [row[o] EXCEPT !.paymentStatus = "FAILED"]]
          /\ UNCHANGED inventory /\ live' = live
      BY <1>6, <2>2 DEF CommitReject, SetRow, Fail
    <3>3. row'[o].paymentStatus = "FAILED"
      BY <1>2, <3>2 DEF TypeOK, Row
    <3>4. QED
      BY <1>1, <3>1, <3>2, <3>3 DEF OutOrders, StockIsOut
  <2>3. QED
    BY <2>1, <2>2
<1>7. CASE CommitCreate(h)
  <2>1. o \notin live
    BY <1>7 DEF CommitCreate, CallsSound, CreateOfNew, TypeOK
  <2>2. CASE Fail(h)
    BY <1>1, <2>2 DEF Fail, orderVars, OutOrders
  <2>3. CASE ~Fail(h)
    <3>1. UNCHANGED inventory /\ row'[o] = NewRow
      BY <1>7, <2>3 DEF CommitCreate, TypeOK
    <3>2. QED
      BY <1>1, <2>1, <3>1 DEF OutOrders, StockIsOut, NewRow
  <2>4. QED
    BY <2>2, <2>3
<1>8. QED
  BY <1>4, <1>5, <1>6, <1>7 DEF Commit

\* The steps that are neither the end of a call, nor a catalogue revision, nor
\* the clearing of the orders leave the stock and the rows alone.
LEMMA OtherStepsKeepStock ==
  ASSUME [Next]_vars, ~(\E h \in Handlers : Commit(h)), ~ClearOrders, ~Catalogue
  PROVE  UNCHANGED <<stock, vstock, listed, edits, live, row>>
<1>1. ASSUME NEW h \in Handlers, Read(h)
      PROVE  UNCHANGED <<stock, vstock, listed, edits, live, row>>
  BY <1>1 DEF Read, ReadForCreate, ReadForStatus, ReadForPayment, ReadForReject, Begin,
     inventory, orderVars
<1>2. CASE UNCHANGED vars
  BY <1>2 DEF vars, inventory, orderVars
<1>3. CASE ClearSoldCounts \/ Restart \/ (\E p \in Products : RecountRead(p)) \/ RecountWrite
  BY <1>3 DEF ClearSoldCounts, Restart, RecountRead, RecountWrite, inventory, orderVars
<1>4. QED
  BY <1>1, <1>2, <1>3 DEF Next

\* Every catalogue edit is counted and leaves the orders alone.
LEMMA CatalogueCounts == ASSUME Catalogue PROVE edits' = edits + 1 /\ UNCHANGED <<live, row>>
BY DEF Catalogue, CatalogueStep, EditVariants, DropVariants, EditStock, DeductVariant, DeductPlain, orderVars

\* A step of the order service changes the goods held by one order at most.
LEMMA StepFollows ==
  ASSUME Exclusive, TypeOK, CallsSound, [Next]_vars, edits' = edits, clears' = clears
  PROVE  \E o \in Orders :
           /\ \A q \in Orders \ {o}, p \in Products : Held(q, p)' = Held(q, p)
           /\ \A p \in Products : stock'[p] + Held(o, p)' = stock[p] + Held(o, p)
           /\ \A v \in listed :
                vstock'[v] + HeldVariant(o, v)' = vstock[v] + HeldVariant(o, v)
<1>1. /\ \A o \in Orders, p \in Products : Demand(o, p) \in Int
      /\ \A o \in Orders, v \in Variants : VariantDemand(o, v) \in Int
      /\ \A p \in Products : stock[p] \in Int
      /\ \A v \in Variants : vstock[v] \in Int
      /\ listed \subseteq Variants
  BY DemandNat DEF TypeOK, InventoryType
<1>2. ~ClearOrders /\ ~Catalogue
  BY CatalogueCounts DEF ClearOrders, TypeOK, InventoryType
<1>3. CASE \E h \in Handlers : Commit(h)
  <2>1. PICK h \in Handlers : Commit(h)
    BY <1>3
  <2>2. PICK o \in Orders : o = call[h].order
    BY DEF TypeOK, Call
  <2>3. \A q \in Orders \ {o}, p \in Products : Held(q, p)' = Held(q, p)
    BY <2>1, <2>2, CommitMoves DEF Held
  <2>4. \A p \in Products : stock'[p] + Held(o, p)' = stock[p] + Held(o, p)
    BY <1>1, <2>1, <2>2, CommitMoves DEF Held, inventory, TakeStock, ReturnStock
  <2>5. \A v \in listed : vstock'[v] + HeldVariant(o, v)' = vstock[v] + HeldVariant(o, v)
    BY <1>1, <2>1, <2>2, CommitMoves DEF HeldVariant, inventory, TakeStock, ReturnStock
  <2>6. QED
    BY <2>3, <2>4, <2>5
<1>4. CASE UNCHANGED <<stock, vstock, listed, edits, live, row>>
  <2>1. \A q \in Orders, p \in Products : Held(q, p)' = Held(q, p)
    BY <1>4 DEF Held, OutOrders
  <2>2. \A q \in Orders, v \in Variants : HeldVariant(q, v)' = HeldVariant(q, v)
    BY <1>4 DEF HeldVariant, OutOrders
  <2>3. PICK o \in Orders : TRUE
    BY CatalogueAssumption
  <2>4. QED
    BY <1>1, <1>4, <2>1, <2>2, <2>3
<1>5. QED
  BY <1>2, <1>3, <1>4, OtherStepsKeepStock

(***************************************************************************)
(* With one call per order at a time, stock moves exactly when an order    *)
(* starts or stops holding goods, and by exactly those goods.              *)
(***************************************************************************)
THEOREM StockFollows == Exclusive => (Spec => StockFollowsOut)
<1>1. CASE Exclusive
  <2>1. TypeOK /\ CallsSound /\ [Next]_vars =>
          [edits' = edits /\ clears' = clears =>
             \E o \in Orders :
               /\ \A q \in Orders \ {o}, p \in Products : Held(q, p)' = Held(q, p)
               /\ \A p \in Products : stock'[p] + Held(o, p)' = stock[p] + Held(o, p)
               /\ \A v \in listed :
                    vstock'[v] + HeldVariant(o, v)' = vstock[v] + HeldVariant(o, v)]_vars
    BY <1>1, StepFollows
  <2>2. QED
    BY <2>1, TypeCorrect, CallsStaySound, PTL DEF Spec, StockFollowsOut
<1>2. CASE ~Exclusive
  BY <1>2
<1>3. QED
  BY <1>1, <1>2
-----------------------------------------------------------------------------
\* No call that ends rejects an order that is paid.
LEMMA StepKeepsPaid ==
  ASSUME Exclusive, TypeOK, CallsSound, [Next]_vars,
         NEW o \in live \cap live', row[o].paymentStatus = "PAID"
  PROVE  row'[o].paymentStatus # "FAILED"
<1>1. o \in Orders /\ row[o] \in Row
  BY DEF TypeOK
<1>2. CASE row'[o] = row[o]
  BY <1>2
<1>3. ASSUME NEW h \in Handlers, Commit(h), o = call[h].order
      PROVE  row'[o].paymentStatus # "FAILED"
  <2>1. call[h] \in Call
    BY DEF TypeOK
  <2>2. ASSUME NEW out, NEW new, MoveAndSet(h, out, new), new.paymentStatus # "FAILED"
        PROVE  row'[o].paymentStatus # "FAILED"
    BY <1>1, <1>3, <2>2 DEF MoveAndSet, SetRow, Fail, orderVars, TypeOK
  <2>3. CASE CommitStatus(h)
    BY <1>3, <2>2, <2>3 DEF CommitStatus
  <2>4. CASE CommitPayment(h)
    <3>1. ASSUME NEW p \in {"PAID", "PENDING"}
          PROVE  [row[o] EXCEPT !.paymentStatus = p].paymentStatus = p
      BY <1>1 DEF Row
    <3>2. QED
      BY <1>3, <2>2, <2>4, <3>1 DEF CommitPayment
  <2>5. ~CommitReject(h)
    BY <1>3 DEF CommitReject, CallsSound, RejectOfPending, SnapshotFresh
  <2>6. CASE CommitCreate(h)
    BY <1>3, <2>6 DEF CommitCreate, CallsSound, CreateOfNew, TypeOK
  <2>7. QED
    BY <1>3, <2>3, <2>4, <2>5, <2>6 DEF Commit
<1>4. ASSUME NEW h \in Handlers, Commit(h), o # call[h].order
      PROVE  row'[o] = row[o]
  BY <1>1, <1>4, CommitWritesOwnRow
<1>5. CASE ClearOrders
  BY <1>5 DEF ClearOrders
<1>6. QED
  BY <1>2, <1>3, <1>4, <1>5, OtherStepsKeepStock, CatalogueCounts

(***************************************************************************)
(* With one call per order at a time, a paid order is never rejected.      *)
(***************************************************************************)
THEOREM PaidStays == Exclusive => (Spec => PaidNeverRejected)
<1>1. CASE Exclusive
  <2>1. TypeOK /\ CallsSound /\ [Next]_vars =>
          [\A o \in live \cap live' :
             row[o].paymentStatus = "PAID" => row'[o].paymentStatus # "FAILED"]_vars
    BY <1>1, StepKeepsPaid
  <2>2. QED
    BY <2>1, TypeCorrect, CallsStaySound, PTL DEF Spec, PaidNeverRejected
<1>2. CASE ~Exclusive
  BY <1>2
<1>3. QED
  BY <1>1, <1>2
-----------------------------------------------------------------------------
\* The units of a product that the orders in some set asked for.
Units(some, p) == SumOf(some, [o \in Orders |-> Demand(o, p)])

\* Before the first clearing and the first restart nothing rewrites the counts,
\* and none of the steps that would is under way.
Counted ==
  clears = 0 /\ restarts = 0 =>
    /\ ~clearing /\ todo = {} /\ tally = {}
    /\ \A p \in Products : soldCount[p] = Units(OutOrders, p)

\* One more order with its goods out adds its units to the sum.
LEMMA UnitsMove ==
  ASSUME NEW some \in SUBSET Orders, IsFiniteSet(some), NEW o \in Orders \ some, NEW p \in Products
  PROVE  /\ Units(some, p) \in Nat /\ Demand(o, p) \in Nat
         /\ Units(some \cup {o}, p) = Units(some, p) + Demand(o, p)
<1> DEFINE demand == [q \in Orders |-> Demand(q, p)]
<1>1. (\A q \in some \cup {o} : demand[q] \in Nat) /\ demand[o] = Demand(o, p)
  BY DemandNat
<1> HIDE DEF demand
<1>2. SumOf(some, demand) \in Nat
  BY <1>1, SumNat
<1>3. SumOf(some \cup {o}, demand) = demand[o] + SumOf(some, demand)
  BY <1>1, SumAdd
<1>4. demand[o] + SumOf(some, demand) = SumOf(some, demand) + demand[o] /\ demand[o] \in Nat
  BY <1>1, <1>2
<1>5. QED
  BY <1>1, <1>2, <1>3, <1>4 DEF Units, demand

\* The end of a call changes the counts with the orders that are out.
LEMMA CommitCounts ==
  ASSUME Exclusive, TypeOK, TypeOK', CallsSound, Counted, NEW h \in Handlers, Commit(h)
  PROVE  Counted'
<1> DEFINE o == call[h].order
<1>1. o \in Orders /\ OutOrders \in SUBSET live /\ OutOrders' \subseteq Orders
  BY DEF TypeOK, Call, OutOrders
<1>2. UNCHANGED <<clearing, todo, tally, clears, restarts>>
  BY DEF Commit, CommitStatus, CommitPayment, CommitReject, CommitCreate, MoveAndSet, Fail,
     Return, bootVars, counters
<1>3. /\ \A q \in Orders \ {o} : q \in OutOrders' <=> q \in OutOrders
      /\ \/ UNCHANGED inventory /\ (o \in OutOrders' <=> o \in OutOrders)
         \/ o \in OutOrders /\ o \notin OutOrders' /\ ReturnStock(o)
         \/ o \notin OutOrders /\ o \in OutOrders' /\ Available(o) /\ TakeStock(o)
  BY <1>1, CommitMoves
<1> HIDE DEF o
<1> SUFFICES ASSUME clears = 0, restarts = 0, NEW p \in Products
             PROVE  soldCount'[p] = Units(OutOrders', p)
  BY <1>2 DEF Counted
<1>4. soldCount[p] = Units(OutOrders, p)
  BY DEF Counted
<1>5. IsFiniteSet(OutOrders) /\ IsFiniteSet(OutOrders \ {o}) /\ OutOrders \in SUBSET Orders
  BY <1>1, LiveSumNat, FS_Subset DEF TypeOK
<1>6. CASE UNCHANGED inventory /\ (o \in OutOrders' <=> o \in OutOrders)
  <2>1. OutOrders' = OutOrders
    BY <1>1, <1>3, <1>5, <1>6
  <2>2. QED
    BY <1>4, <1>6, <2>1 DEF inventory
<1>7. CASE o \in OutOrders /\ o \notin OutOrders' /\ ReturnStock(o)
  <2>1. OutOrders' = OutOrders \ {o} /\ (OutOrders \ {o}) \cup {o} = OutOrders
    BY <1>1, <1>3, <1>5, <1>7
  <2>2. /\ Units(OutOrders', p) \in Nat /\ Demand(o, p) \in Nat
        /\ Units(OutOrders, p) = Units(OutOrders', p) + Demand(o, p)
    BY <1>1, <1>5, <2>1, UnitsMove
  <2>3. soldCount'[p] = soldCount[p] - Demand(o, p)
    BY <1>7 DEF ReturnStock
  <2>4. QED
    BY <1>4, <2>2, <2>3
<1>8. CASE o \notin OutOrders /\ o \in OutOrders' /\ TakeStock(o)
  <2>1. OutOrders' = OutOrders \cup {o}
    BY <1>1, <1>3, <1>5, <1>8
  <2>2. /\ Units(OutOrders, p) \in Nat /\ Demand(o, p) \in Nat
        /\ Units(OutOrders', p) = Units(OutOrders, p) + Demand(o, p)
    BY <1>1, <1>5, <1>8, <2>1, UnitsMove
  <2>3. soldCount'[p] = soldCount[p] + Demand(o, p)
    BY <1>8 DEF TakeStock
  <2>4. QED
    BY <1>4, <2>2, <2>3
<1>9. QED
  BY <1>3, <1>6, <1>7, <1>8

\* The steps that are not the end of a call rewrite a count only on the way of
\* a clearing or of a boot.
LEMMA OtherCounts ==
  ASSUME TypeOK, Counted, [Next]_vars, ~(\E h \in Handlers : Commit(h))
  PROVE  Counted'
<1>1. CASE ClearOrders
  BY <1>1 DEF ClearOrders, TypeOK, Counted
<1>2. CASE Restart
  BY <1>2 DEF Restart, TypeOK, Counted
<1>3. CASE ClearSoldCounts \/ (\E p \in Products : RecountRead(p)) \/ RecountWrite
  BY <1>3 DEF ClearSoldCounts, RecountRead, RecountWrite, counters, Counted
<1>4. ASSUME UNCHANGED <<soldCount, live, row, clearing, todo, tally, clears, restarts>>
      PROVE  Counted'
  BY <1>4 DEF Counted, OutOrders
<1>5. CASE Catalogue
  <2>1. soldCount' = soldCount
    BY <1>5 DEF Catalogue, CatalogueStep, EditVariants, DropVariants, EditStock, DeductVariant,
       DeductPlain
  <2>2. QED
    BY <1>4, <1>5, <2>1 DEF Catalogue, orderVars, bootVars, counters
<1>6. ASSUME NEW h \in Handlers, Read(h) PROVE Counted'
  BY <1>4, <1>6 DEF Read, ReadForCreate, ReadForStatus, ReadForPayment, ReadForReject, Begin,
     inventory, orderVars, bootVars
<1>7. CASE UNCHANGED vars
  BY <1>4, <1>7 DEF vars, inventory, orderVars, bootVars, counters
<1>8. QED
  BY <1>1, <1>2, <1>3, <1>5, <1>6, <1>7 DEF Next

(***************************************************************************)
(* With one call per order at a time, and until order data is cleared or   *)
(* the shop boots again, soldCount is the number of units that are out     *)
(* with orders, although it is only ever moved up and down.                *)
(***************************************************************************)
THEOREM SoldMatches == Exclusive => (Spec => []SoldMatchesOut)
<1>1. CASE Exclusive
  <2>1. Init => Counted
    <3>1. Init => OutOrders = {}
      BY DEF Init, OutOrders
    <3>2. QED
      BY <3>1, SumEmpty DEF Init, InitInventory, Counted, Units
  <2>2. TypeOK /\ TypeOK' /\ CallsSound /\ Counted /\ [Next]_vars => Counted'
    BY <1>1, CommitCounts, OtherCounts
  <2>3. Counted => SoldMatchesOut
    BY DEF Counted, SoldMatchesOut, Units
  <2>4. QED
    BY <2>1, <2>2, <2>3, TypeCorrect, CallsStaySound, PTL DEF Spec
<1>2. CASE ~Exclusive
  BY <1>2
<1>3. QED
  BY <1>1, <1>2
-----------------------------------------------------------------------------
\* Every step is a step of the ledger, or leaves it alone.
LEMMA StepKeepsLedger ==
  ASSUME Exclusive, TypeOK, StockNeverNegative', TypeOK', CallsSound, [Next]_vars
  PROVE  [Ledger!Next]_<<stock, OutOrders, edits>>
<1> DEFINE Needs == [o \in Orders |-> [p \in Products |-> Demand(o, p)]]
<1>1. OutOrders \subseteq Orders
  BY DEF OutOrders, TypeOK
<1>2. CASE Catalogue
  <2>1. edits' = edits + 1 /\ OutOrders' = OutOrders
    BY <1>2, CatalogueCounts DEF OutOrders
  <2>2. stock' \in [Products -> Nat]
    BY DEF TypeOK, InventoryType, StockNeverNegative
  <2>3. QED
    BY <2>1, <2>2 DEF Ledger!Next, Ledger!Revise
<1>3. CASE ClearOrders
  <2>1. OutOrders' = {} /\ stock' = stock /\ edits' = edits
    BY <1>3 DEF ClearOrders, OutOrders, inventory
  <2>2. QED
    BY <2>1 DEF Ledger!Next, Ledger!Forget
<1>4. CASE \E h \in Handlers : Commit(h)
  <2>1. PICK h \in Handlers : Commit(h)
    BY <1>4
  <2>2. PICK o \in Orders : o = call[h].order
    BY DEF TypeOK, Call
  <2>3. OutOrders' \subseteq Orders
    BY DEF OutOrders, TypeOK
  <2>4. \A q \in Orders \ {o} : q \in OutOrders' <=> q \in OutOrders
    BY <2>1, <2>2, CommitMoves
  <2>5. CASE UNCHANGED inventory /\ (o \in OutOrders' <=> o \in OutOrders)
    <3>1. OutOrders' = OutOrders
      BY <1>1, <2>3, <2>4, <2>5
    <3>2. QED
      BY <2>5, <3>1 DEF inventory
  <2>6. CASE o \in OutOrders /\ o \notin OutOrders' /\ ReturnStock(o)
    <3>1. OutOrders' = OutOrders \ {o}
      BY <1>1, <2>3, <2>4, <2>6
    <3>2. stock' = [p \in Products |-> stock[p] + Needs[o][p]] /\ edits' = edits
      BY <2>2, <2>6 DEF ReturnStock
    <3>3. QED
      BY <2>2, <2>6, <3>1, <3>2 DEF Ledger!Next, Ledger!PutBack
  <2>7. CASE o \notin OutOrders /\ o \in OutOrders' /\ Available(o) /\ TakeStock(o)
    <3>1. OutOrders' = OutOrders \cup {o}
      BY <1>1, <2>3, <2>4, <2>7
    <3>2. /\ stock' = [p \in Products |-> stock[p] - Needs[o][p]] /\ edits' = edits
          /\ \A p \in Products : stock[p] >= Needs[o][p]
      BY <2>2, <2>7 DEF TakeStock, Available
    <3>3. QED
      BY <2>2, <2>7, <3>1, <3>2 DEF Ledger!Next, Ledger!TakeOut
  <2>8. QED
    BY <2>1, <2>2, <2>5, <2>6, <2>7, CommitMoves
<1>5. CASE UNCHANGED <<stock, vstock, listed, edits, live, row>>
  BY <1>5 DEF OutOrders
<1>6. QED
  BY <1>2, <1>3, <1>4, <1>5, OtherStepsKeepStock

(***************************************************************************)
(* With one call per order at a time, the order service implements the     *)
(* abstract stock ledger: whatever happens, an order's goods leave once    *)
(* and come back once, and never leave when they are not there.            *)
(***************************************************************************)
THEOREM LedgerKept == Exclusive => (Spec => KeepsLedger)
<1>1. CASE Exclusive
  <2>1. Init => Ledger!Init
    BY QuantityAssumption DEF Init, InitInventory, Ledger!Init, OutOrders
  <2>2. /\ TypeOK /\ TypeOK' /\ StockNeverNegative' /\ CallsSound /\ [Next]_vars
        => [Ledger!Next]_Ledger!ledger
    BY <1>1, StepKeepsLedger DEF Ledger!ledger
  <2>3. QED
    BY <2>1, <2>2, TypeCorrect, NeverNegative, CallsStaySound, PTL
       DEF Spec, KeepsLedger, Ledger!Spec
<1>2. CASE ~Exclusive
  BY <1>2
<1>3. QED
  BY <1>1, <1>2
=============================================================================
