------------------------------ MODULE MCPayment ------------------------------
(***************************************************************************)
(* One order for the only piece of a product, one admin request and one    *)
(* buyer request at a time, two callbacks.                                 *)
(***************************************************************************)
EXTENDS Payment, TLC

CONSTANTS o1, mug, noVariant, h1, k1, k2, b1

MCOrders == {o1}
MCProducts == {mug}
MCVariants == {}
MCVariantOf == [v \in {} |-> mug]
MCLines == o1 :> {[id |-> 1, product |-> mug, variant |-> noVariant, quantity |-> 1]}
MCInitialStock == mug :> 1
MCInitialVariantStock == [v \in {} |-> 0]
MCQuantities == {0, 1}
MCHandlers == {h1}
MCOrderStatus == {"PENDING", "CANCELLED"}
MCHooks == {k1, k2}
MCBuyers == {b1}
=============================================================================
