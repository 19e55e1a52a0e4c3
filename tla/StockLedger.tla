------------------------------ MODULE StockLedger ------------------------------
(***************************************************************************)
(* What the order service promises about the stock, without its handlers:  *)
(* the goods of an order are either in the warehouse or out, an order      *)
(* takes its goods out once and gives the same goods back once, never more *)
(* than there is, and nothing else moves stock except a revision of the    *)
(* catalogue.                                                              *)
(***************************************************************************)
EXTENDS Integers

CONSTANTS
  Orders, Products,
  Needs      \* the units of each product an order needs

VARIABLES
  stock,     \* units of each product in the warehouse
  out,       \* the orders whose goods are out
  revision   \* number of catalogue revisions so far

ledger == <<stock, out, revision>>

Init ==
  /\ stock \in [Products -> Nat]
  /\ out = {}
  /\ revision = 0

TakeOut(o) ==
  /\ o \notin out
  /\ \A p \in Products : stock[p] >= Needs[o][p]
  /\ stock' = [p \in Products |-> stock[p] - Needs[o][p]]
  /\ out' = out \cup {o}
  /\ UNCHANGED revision

PutBack(o) ==
  /\ o \in out
  /\ stock' = [p \in Products |-> stock[p] + Needs[o][p]]
  /\ out' = out \ {o}
  /\ UNCHANGED revision

\* All orders are deleted; their goods stay where they are.
Forget ==
  /\ out' = {}
  /\ UNCHANGED <<stock, revision>>

Revise ==
  /\ stock' \in [Products -> Nat]
  /\ revision' = revision + 1
  /\ UNCHANGED out

Next == (\E o \in Orders : TakeOut(o) \/ PutBack(o)) \/ Forget \/ Revise

Spec == Init /\ [][Next]_ledger
=============================================================================
