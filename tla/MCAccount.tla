------------------------------ MODULE MCAccount ------------------------------
(***************************************************************************)
(* Two admins, an account of the old flow and two ids for new ones;        *)
(* one free number whose owner waits for each answer and one used from two *)
(* devices at once.                                                        *)
(***************************************************************************)
EXTENDS Account, TLC

CONSTANTS root1, root2, old, new1, new2, p1, p2, p3, noPhone, noUser, h1, h2

MCUsers == {root1, root2, old, new1, new2}
MCAdmins == {root1, root2}
MCLegacy == {old}
MCPhones == {p1, p2, p3}
MCLegacyPhone == old :> p3
MCWithOrders == {old}
MCSlots == {h1, h2}
MCPatient == {p2}

Symmetry == Permutations(MCSlots) \cup Permutations({new1, new2})
=============================================================================
