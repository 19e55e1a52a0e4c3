------------------------------ MODULE Inventory ------------------------------
(***************************************************************************)
(* The stock figures of the shop and everything that writes them, apart    *)
(* from the bookkeeping of the orders themselves (module OrderStock).      *)
(*                                                                         *)
(* A product row carries an aggregate `stock` and a `soldCount`; a product *)
(* sold by size and colour also has ProductVariant rows with a stock each. *)
(* Four parts of the program write these numbers: adjustInventory of the   *)
(* order service, the admin's product form, the deduction of the warehouse *)
(* (ombor) Mini App, and the two resets of soldCount.                      *)
(*                                                                         *)
(* SQLite runs one write transaction at a time and Prisma opens an         *)
(* interactive transaction as a write transaction, so the body of a        *)
(* $transaction is one step here.                                          *)
(***************************************************************************)
EXTENDS Integers, FiniteSets, Sums

CONSTANTS
  Orders,      \* ids of the orders that can ever be created
  Products,    \* ids of the product rows
  Variants,    \* the (product, size, colour) triples that can have a row
  VariantOf,   \* the product of each variant
  NoVariant,   \* an order line without a size and a colour
  Lines,       \* the item rows of each order, fixed when it is created
  InitialStock, InitialVariantStock,
  Quantities,  \* quantities typed into the admin form or the Mini App
  MaxEdits     \* bound on the number of catalogue edits and deductions

Line == [id : Nat, product : Products, variant : Variants \cup {NoVariant},
         quantity : Nat \ {0}]

(***************************************************************************)
(* adjustInventory walks the items one by one inside one transaction and   *)
(* any failure rolls everything back, so it succeeds exactly when the      *)
(* total asked of every product and of every variant row is available, and *)
(* moves those totals.                                                     *)
(***************************************************************************)
Total(lines) == SumOf(lines, [l \in lines |-> l.quantity])
Demand(o, p) == Total({l \in Lines[o] : l.product = p})
VariantDemand(o, v) == Total({l \in Lines[o] : l.variant = v})

ASSUME CatalogueAssumption ==
  /\ Orders # {}
  /\ NoVariant \notin Variants
  /\ VariantOf \in [Variants -> Products]
  /\ \A p \in Products : IsFiniteSet({v \in Variants : VariantOf[v] = p})
  /\ \A o \in Orders : IsFiniteSet(Lines[o])
  /\ \A o \in Orders : \A l \in Lines[o] :
       /\ l \in Line
       /\ l.variant \in Variants => VariantOf[l.variant] = l.product

ASSUME QuantityAssumption ==
  /\ InitialStock \in [Products -> Nat]
  /\ InitialVariantStock \in [Variants -> Nat]
  /\ Quantities \subseteq Nat
  /\ MaxEdits \in Nat

VARIABLES
  stock,      \* Product.stock
  listed,     \* the variants that have a ProductVariant row
  vstock,     \* ProductVariant.stock of the listed variants, 0 for the others
  soldCount,  \* Product.soldCount
  edits       \* catalogue edits and deductions so far

inventory == <<stock, listed, vstock, soldCount, edits>>

InventoryType ==
  /\ stock \in [Products -> Int]
  /\ listed \subseteq Variants
  /\ vstock \in [Variants -> Int]
  /\ soldCount \in [Products -> Int]
  /\ edits \in 0 .. MaxEdits

RowsOf(p) == {v \in listed : VariantOf[v] = p}

InitInventory ==
  /\ stock = InitialStock
  /\ listed = Variants
  /\ vstock = InitialVariantStock
  /\ soldCount = [p \in Products |-> 0]
  /\ edits = 0
-----------------------------------------------------------------------------
(***************************************************************************)
(* adjustInventory, 'decrease' and 'increase', for all items of order o.   *)
(* A line whose variant has no row moves the product's figure only.        *)
(***************************************************************************)
\* Mutant of Available: the variant rows are not checked.
AvailableByProduct(o) == \A p \in Products : stock[p] >= Demand(o, p)

Available(o) ==
  /\ \A p \in Products : stock[p] >= Demand(o, p)
  /\ \A v \in listed : vstock[v] >= VariantDemand(o, v)

TakeStock(o) ==
  /\ stock' = [p \in Products |-> stock[p] - Demand(o, p)]
  /\ vstock' = [v \in Variants |->
                  IF v \in listed THEN vstock[v] - VariantDemand(o, v) ELSE vstock[v]]
  /\ soldCount' = [p \in Products |-> soldCount[p] + Demand(o, p)]
  /\ UNCHANGED <<listed, edits>>

\* Mutants of ReturnStock: the variant rows are forgotten; soldCount moves the
\* wrong way, as it once did.
ReturnProductOnly(o) ==
  /\ stock' = [p \in Products |-> stock[p] + Demand(o, p)]
  /\ soldCount' = [p \in Products |-> soldCount[p] - Demand(o, p)]
  /\ UNCHANGED <<listed, vstock, edits>>

ReturnSameSign(o) ==
  /\ stock' = [p \in Products |-> stock[p] + Demand(o, p)]
  /\ vstock' = [v \in Variants |->
                  IF v \in listed THEN vstock[v] + VariantDemand(o, v) ELSE vstock[v]]
  /\ soldCount' = [p \in Products |-> soldCount[p] + Demand(o, p)]
  /\ UNCHANGED <<listed, edits>>

ReturnStock(o) ==
  /\ stock' = [p \in Products |-> stock[p] + Demand(o, p)]
  /\ vstock' = [v \in Variants |->
                  IF v \in listed THEN vstock[v] + VariantDemand(o, v) ELSE vstock[v]]
  /\ soldCount' = [p \in Products |-> soldCount[p] - Demand(o, p)]
  /\ UNCHANGED <<listed, edits>>
-----------------------------------------------------------------------------
\* ProductService.update with a `variants` grid: the rows are deleted and
\* created again and the aggregate becomes their sum (aggregateStock).
EditVariants(p) ==
  /\ edits < MaxEdits
  /\ \E rows \in (SUBSET {v \in Variants : VariantOf[v] = p}) \ {{}} :
     \E typed \in [rows -> Quantities] :
       /\ listed' = {v \in listed : VariantOf[v] # p} \cup rows
       /\ vstock' = [v \in Variants |->
                       IF v \in rows THEN typed[v]
                       ELSE IF VariantOf[v] = p THEN 0 ELSE vstock[v]]
       /\ stock' = [stock EXCEPT ![p] = SumOf(rows, typed)]
  /\ edits' = edits + 1
  /\ UNCHANGED soldCount

\* The same with an empty grid: the rows are deleted and the aggregate is what
\* was typed as `stock`, 0 when it was not sent.
DropVariants(p) ==
  /\ edits < MaxEdits
  /\ listed' = {v \in listed : VariantOf[v] # p}
  /\ vstock' = [v \in Variants |-> IF VariantOf[v] = p THEN 0 ELSE vstock[v]]
  /\ \E n \in Quantities \cup {0} : stock' = [stock EXCEPT ![p] = n]
  /\ edits' = edits + 1
  /\ UNCHANGED soldCount

\* ProductService.update without `variants`: the aggregate is overwritten,
\* with the number typed or, when the field is not sent, with the default 0
\* of the GraphQL input type; the variant rows stay.
EditStock(p) ==
  /\ edits < MaxEdits
  /\ \E n \in Quantities \cup {0} : stock' = [stock EXCEPT ![p] = n]
  /\ edits' = edits + 1
  /\ UNCHANGED <<listed, vstock, soldCount>>

\* The transaction of OmborService.deduct on a product with variant rows:
\* a conditional decrement of one row, then the aggregate is recomputed.
DeductVariant(v) ==
  /\ edits < MaxEdits
  /\ v \in listed
  /\ \E n \in Quantities \ {0} :
       /\ vstock[v] >= n
       /\ vstock' = [vstock EXCEPT ![v] = @ - n]
  /\ LET p == VariantOf[v]
     IN  stock' = [stock EXCEPT ![p] = SumOf(RowsOf(p), vstock')]
  /\ edits' = edits + 1
  /\ UNCHANGED <<listed, soldCount>>

\* The same transaction on a product without variant rows.
DeductPlain(p) ==
  /\ edits < MaxEdits
  /\ RowsOf(p) = {}
  /\ \E n \in Quantities \ {0} :
       /\ stock[p] >= n
       /\ stock' = [stock EXCEPT ![p] = @ - n]
  /\ edits' = edits + 1
  /\ UNCHANGED <<listed, vstock, soldCount>>

CatalogueStep ==
  \/ \E p \in Products : EditVariants(p)
  \/ \E p \in Products : DropVariants(p) \/ EditStock(p)
  \/ \E v \in Variants : DeductVariant(v)
  \/ \E p \in Products : DeductPlain(p)
=============================================================================
