------------------------------ MODULE PromoCode ------------------------------
(***************************************************************************)
(* Promo codes and the record of who used them (PromoCodeService).         *)
(*                                                                         *)
(* A code is good for one order per telephone number. Numbers are compared *)
(* in one spelling, the result of normalizePhone. How much a code takes    *)
(* off, and on which items, is not described here: a code that exists and  *)
(* is active may still not apply to what is being bought.                  *)
(***************************************************************************)
EXTENDS Integers, FiniteSets

CONSTANTS
  PromoIds,     \* ids of the promo code rows that can ever be created
  Codes,        \* what is printed on the leaflet
  Spellings,    \* telephone numbers as typed
  Phones,       \* telephone numbers as stored
  NoPhone,      \* what a spelling without digits becomes
  NormalPhone   \* normalizePhone

ASSUME PromoAssumption ==
  /\ NoPhone \notin Phones
  /\ NormalPhone \in [Spellings -> Phones \cup {NoPhone}]

VARIABLES
  promos,      \* the rows of promo_codes
  issued,      \* the ids that were ever given to a row
  usages,      \* the rows of promo_code_usages
  usedCount    \* the counter shown in the admin's list

promoVars == <<promos, issued, usages, usedCount>>

Promo == [id : PromoIds, code : Codes, active : BOOLEAN]
Usage == [promo : PromoIds, phone : Phones, order : Nat]

PromoType ==
  /\ promos \subseteq Promo
  /\ issued \subseteq PromoIds
  /\ usages \subseteq Usage
  /\ usedCount \in [PromoIds -> Nat]

InitPromo ==
  /\ promos = {} /\ issued = {}
  /\ usages = {}
  /\ usedCount = [p \in PromoIds |-> 0]

Exists(p) == \E x \in promos : x.id = p
UsedBy(p, phone) == {u \in usages : u.promo = p /\ u.phone = phone}

\* create: the code is unique, in the check and in the table.
CreatePromo(p, code) ==
  /\ p \notin issued
  /\ \A x \in promos : x.code # code
  /\ \E active \in BOOLEAN :
       promos' = promos \cup {[id |-> p, code |-> code, active |-> active]}
  /\ issued' = issued \cup {p}
  /\ UNCHANGED <<usages, usedCount>>

\* update: the code and the switch, both optional in the input.
UpdatePromo(p) ==
  /\ Exists(p)
  /\ \E code \in Codes, active \in BOOLEAN :
       /\ \A x \in promos : x.code = code => x.id = p
       /\ promos' = {x \in promos : x.id # p}
                      \cup {[id |-> p, code |-> code, active |-> active]}
  /\ UNCHANGED <<issued, usages, usedCount>>

\* remove: the usages go with the code.
RemovePromo(p) ==
  /\ Exists(p)
  /\ promos' = {x \in promos : x.id # p}
  /\ usages' = {u \in usages : u.promo # p}
  /\ usedCount' = [usedCount EXCEPT ![p] = 0]
  /\ UNCHANGED issued

\* evaluate: the promo codes the checkout can come away with.
Usable(code, spelling) ==
  {p \in PromoIds :
     /\ [id |-> p, code |-> code, active |-> TRUE] \in promos
     /\ NormalPhone[spelling] # NoPhone
     /\ UsedBy(p, NormalPhone[spelling]) = {}}

\* Mutant of Recordable: no unique index.
RecordableAgain(p, phone) == Exists(p)

\* Whether recordUsage succeeds: the code is still there (foreign key) and
\* the unique index on (promoCodeId, phone) has no row for the number.
Recordable(p, phone) == Exists(p) /\ UsedBy(p, phone) = {}

\* Mutant of RecordUsage: the counter is forgotten.
RecordUsageUncounted(p, phone, order) ==
  /\ Recordable(p, phone)
  /\ usages' = usages \cup {[promo |-> p, phone |-> phone, order |-> order]}
  /\ UNCHANGED <<promos, issued, usedCount>>

RecordUsage(p, phone, order) ==
  /\ Recordable(p, phone)
  /\ usages' = usages \cup {[promo |-> p, phone |-> phone, order |-> order]}
  /\ usedCount' = [usedCount EXCEPT ![p] = @ + 1]
  /\ UNCHANGED <<promos, issued>>
=============================================================================
