----------------------------- MODULE MCOrderStock -----------------------------
(***************************************************************************)
(* The instance TLC checks: a shirt sold in two sizes, of which one small  *)
(* is left and no large, and two mugs, sold by the piece. Two orders want  *)
(* the last small shirt; the first one also a mug, a line without a size.  *)
(***************************************************************************)
EXTENDS OrderStock, TLC

CONSTANTS o1, o2, shirt, mug, small, large, noVariant, h1, h2

MCOrders == {o1, o2}
MCProducts == {shirt, mug}
MCVariants == {small, large}
MCVariantOf == small :> shirt @@ large :> shirt
MCHandlers == {h1, h2}
MCOrderStatus == {"PENDING", "DELIVERED", "CANCELLED"}

item(i, p, v, n) == [id |-> i, product |-> p, variant |-> v, quantity |-> n]

MCLines ==
  o1 :> {item(1, shirt, small, 1), item(2, mug, noVariant, 1)}
  @@ o2 :> {item(3, shirt, small, 1)}

MCInitialStock == shirt :> 1 @@ mug :> 2
MCInitialVariantStock == small :> 1 @@ large :> 0
MCQuantities == {0, 1}

HandlerSymmetry == Permutations(MCHandlers)
=============================================================================
