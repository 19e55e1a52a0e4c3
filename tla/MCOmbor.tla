------------------------------- MODULE MCOmbor -------------------------------
(***************************************************************************)
(* Two stores, two sellers, one linked by the old bot and one who never    *)
(* waits, one tap with its retries, one product with a single piece more   *)
(* than the tap takes, two requests of the panel at a time.                *)
(***************************************************************************)
EXTENDS Ombor, TLC

CONSTANTS north, south, ali, vali, c1, c2, p1, r1, h1, h2, a1, a2, noStore, noCode

MCStores == {north, south}
MCSellers == {ali, vali}
MCPatient == {vali}
MCLinked == {vali}
MCCodes == {c1, c2}
MCProducts == {p1}
MCRequests == {r1}
MCProductOf == r1 :> p1
MCQuantityOf == r1 :> 1
MCInitialStock == p1 :> 2
MCSlots == {h1, h2}
MCAdmins == {a1, a2}

\* The two bounds are not used up together.
MCFewCalls == adminCalls + requests <= 6

MCSymmetry == Permutations(MCSlots) \cup Permutations(MCAdmins) \cup Permutations(MCCodes)
=============================================================================
