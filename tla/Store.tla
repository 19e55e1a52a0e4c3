-------------------------------- MODULE Store --------------------------------
(***************************************************************************)
(* The stores of the shop as the admin panel manages them: StoreService    *)
(* with the tables it writes (Store, Product.storeId and isActive,         *)
(* TelegramStoreLink).  Module Ombor adds the sellers' Mini App.           *)
(*                                                                         *)
(* regenerateAccessCode, the statistics pages (which call ensureAccessCode)*)
(* and remove are several statements each, and an answer takes its time to *)
(* the panel; an admin request is in `admin` between two of these steps.   *)
(***************************************************************************)
EXTENDS Integers, FiniteSets, FiniteSetsExt, Sums

CONSTANTS
  Stores,     \* ids of the stores that can ever exist
  Codes,      \* the access codes randomCode can draw
  Sellers,    \* Telegram users
  Linked,     \* the sellers whom the old bot has linked to FirstStore
  Products,   \* rows holding a stock figure: a product, or one of its variants
  Admins,     \* request slots of the admin panel
  FirstStore, \* the store that exists, without a code, with all the products
  NoStore, NoCode,
  MaxAdmin    \* bound on the number of admin requests

ASSUME StoreAssumption ==
  /\ FirstStore \in Stores /\ NoStore \notin Stores
  /\ NoCode \notin Codes /\ Codes # {}
  /\ Linked \subseteq Sellers /\ IsFiniteSet(Admins)
  /\ MaxAdmin \in Nat

VARIABLES
  open,       \* the stores that have a row
  closed,     \* the stores that were deleted: ids are not reused
  accessCode, \* Store.accessCode
  shown,      \* history: the codes answered for each store since it had none
  lost,       \* history: stores whose code a crash kept from being answered
  owner,      \* Product.storeId
  active,     \* the products with isActive
  strayed,    \* history: products put on sale in a store about to be deleted
  link,       \* TelegramStoreLink: the store of each Telegram user
  admin,      \* what each admin request does next
  adminCalls

storeVars == <<open, closed, accessCode, shown, lost, owner, active, strayed>>
adminVars == <<admin, adminCalls>>

AdminCall == [op : {"idle", "clear", "ensure", "answer", "hide", "delete"},
              store : Stores, code : Codes \cup {NoCode}]
AdminIdle == [op |-> "idle", store |-> FirstStore, code |-> NoCode]

StoreType ==
  /\ open \subseteq Stores /\ closed \subseteq Stores
  /\ accessCode \in [Stores -> Codes \cup {NoCode}]
  /\ shown \in [Stores -> SUBSET (Codes \cup {NoCode})] /\ lost \subseteq Stores
  /\ owner \in [Products -> Stores \cup {NoStore}]
  /\ active \subseteq Products /\ strayed \subseteq Products
  /\ link \in [Sellers -> Stores \cup {NoStore}]
  /\ admin \in [Admins -> AdminCall]
  /\ adminCalls \in 0 .. MaxAdmin

InitStore ==
  /\ open = {FirstStore} /\ closed = {}
  /\ accessCode = [t \in Stores |-> NoCode]
  /\ shown = [t \in Stores |-> {}] /\ lost = {}
  /\ owner = [p \in Products |-> FirstStore]
  /\ active = Products /\ strayed = {}
  /\ link = [s \in Sellers |-> IF s \in Linked THEN FirstStore ELSE NoStore]
  /\ admin = [a \in Admins |-> AdminIdle]
  /\ adminCalls = 0

\* The store's own goods on sale: what products, product and categories answer
\* from, what deduct looks its product up in, and what the statistics count.
Shown(t) == {p \in active : owner[p] = t}
-----------------------------------------------------------------------------
Proceed(a, op, t) ==
  admin' = [admin EXCEPT ![a] = [op |-> op, store |-> t, code |-> NoCode]]
AnswerWith(a, t, c) ==
  admin' = [admin EXCEPT ![a] = [op |-> "answer", store |-> t, code |-> c]]
Answer(a) == admin' = [admin EXCEPT ![a] = AdminIdle]

\* A request of the panel; findById refuses a store that has no row.
Ask(a) ==
  /\ admin[a].op = "idle"
  /\ adminCalls < MaxAdmin
  /\ adminCalls' = adminCalls + 1

\* create: the code comes later, from ensureAccessCode.
CreateStore(a, t) ==
  /\ Ask(a)
  /\ t \notin open \cup closed
  /\ open' = open \cup {t}
  /\ UNCHANGED <<closed, accessCode, shown, lost, owner, active, strayed, link, admin>>

\* statsForAll and overview: computeStats with the store as it was read. A
\* code that is there is answered; otherwise ensureAccessCode will draw one.
Stats(a, t) ==
  /\ Ask(a)
  /\ t \in open
  /\ \/ accessCode[t] # NoCode /\ AnswerWith(a, t, accessCode[t])
     \/ accessCode[t] = NoCode /\ Proceed(a, "ensure", t)
  /\ UNCHANGED <<storeVars, link>>

\* regenerateAccessCode up to its first update.
Regenerate(a, t) ==
  /\ Ask(a)
  /\ t \in open
  /\ Proceed(a, "clear", t)
  /\ UNCHANGED <<storeVars, link>>

\* The update to null; it throws when the store has gone.
ClearCode(a) ==
  LET t == admin[a].store
  IN  /\ admin[a].op = "clear"
      /\ \/ /\ t \in open
            /\ accessCode' = [accessCode EXCEPT ![t] = NoCode]
            /\ shown' = [shown EXCEPT ![t] = {}]
            /\ Proceed(a, "ensure", t)
         \/ t \notin open /\ Answer(a) /\ UNCHANGED <<accessCode, shown>>
      /\ UNCHANGED <<open, closed, lost, owner, active, strayed, link, adminCalls>>

Taken(c, t) == \E u \in open \ {t} : accessCode[u] = c

\* Mutant of EnsureCode: the code answered is not the one that was stored.
EnsureCodeShowsDraw(a) ==
  LET t == admin[a].store
  IN  /\ admin[a].op = "ensure"
      /\ t \in open
      /\ \E c, d \in Codes :
           /\ ~Taken(c, t)
           /\ accessCode' = [accessCode EXCEPT ![t] = c]
           /\ AnswerWith(a, t, d)
      /\ UNCHANGED <<open, closed, shown, lost, owner, active, strayed, link, adminCalls>>

\* ensureAccessCode once it has seen no code, whether there is one by now or
\* not: an attempt that meets the unique index changes nothing and is repeated,
\* so either a free code is stored and is what will be answered or, after five
\* failures, nothing has happened.
EnsureCode(a) ==
  LET t == admin[a].store
  IN  /\ admin[a].op = "ensure"
      /\ \/ /\ t \in open
            /\ \E c \in Codes :
                 /\ ~Taken(c, t)
                 /\ accessCode' = [accessCode EXCEPT ![t] = c]
                 /\ AnswerWith(a, t, c)
         \/ /\ t \notin open \/ \E c \in Codes : Taken(c, t)
            /\ Answer(a)
            /\ UNCHANGED accessCode
      /\ UNCHANGED <<open, closed, shown, lost, owner, active, strayed, link, adminCalls>>

\* The panel gets the answer: the figures of the store, the code with them.
AnswerCode(a) ==
  LET t == admin[a].store
      c == admin[a].code
  IN  /\ admin[a].op = "answer"
      /\ shown' = [shown EXCEPT ![t] = @ \cup {c}]
      /\ lost' = IF accessCode[t] = c THEN lost \ {t} ELSE lost
      /\ Answer(a)
      /\ UNCHANGED <<open, closed, accessCode, owner, active, strayed, link, adminCalls>>

\* revokeSellers: one deleteMany.
Revoke(a, t) ==
  /\ Ask(a)
  /\ t \in open
  /\ link' = [s \in Sellers |-> IF link[s] = t THEN NoStore ELSE link[s]]
  /\ UNCHANGED <<storeVars, admin>>

\* remove: first its products are hidden and lose their store, ...
Remove(a, t) ==
  /\ Ask(a)
  /\ t \in open
  /\ Proceed(a, "hide", t)
  /\ UNCHANGED <<storeVars, link>>

\* Mutant of Hide: the products lose their store and stay on sale.
HideNothing(a) ==
  LET t == admin[a].store
  IN  /\ admin[a].op = "hide"
      /\ owner' = [p \in Products |-> IF owner[p] = t THEN NoStore ELSE owner[p]]
      /\ Proceed(a, "delete", t)
      /\ UNCHANGED <<open, closed, accessCode, shown, lost, active, strayed, link, adminCalls>>

Hide(a) ==
  LET t == admin[a].store
  IN  /\ admin[a].op = "hide"
      /\ owner' = [p \in Products |-> IF owner[p] = t THEN NoStore ELSE owner[p]]
      /\ active' = {p \in active : owner[p] # t}
      /\ Proceed(a, "delete", t)
      /\ UNCHANGED <<open, closed, accessCode, shown, lost, strayed, link, adminCalls>>

\* Mutant of Delete: the schema does not cascade to the sellers' links.
DeleteKeepingLinks(a) ==
  LET t == admin[a].store
  IN  /\ admin[a].op = "delete"
      /\ t \in open
      /\ open' = open \ {t} /\ closed' = closed \cup {t}
      /\ accessCode' = [accessCode EXCEPT ![t] = NoCode]
      /\ owner' = [p \in Products |-> IF owner[p] = t THEN NoStore ELSE owner[p]]
      /\ Answer(a)
      /\ UNCHANGED <<shown, lost, active, strayed, link, adminCalls>>

\* ... then the row is deleted: the links go with it, and a product that has
\* been given to the store since is left without one.
Delete(a) ==
  LET t == admin[a].store
  IN  /\ admin[a].op = "delete"
      /\ \/ /\ t \in open
            /\ open' = open \ {t} /\ closed' = closed \cup {t}
            /\ accessCode' = [accessCode EXCEPT ![t] = NoCode]
            /\ owner' = [p \in Products |-> IF owner[p] = t THEN NoStore ELSE owner[p]]
            /\ link' = [s \in Sellers |-> IF link[s] = t THEN NoStore ELSE link[s]]
         \/ t \notin open /\ UNCHANGED <<open, closed, accessCode, owner, link>>
      /\ Answer(a)
      /\ UNCHANGED <<shown, lost, active, strayed, adminCalls>>

\* The product form puts a product on sale in a store.
PutOnSale(a, p, t) ==
  /\ Ask(a)
  /\ t \in open
  /\ owner' = [owner EXCEPT ![p] = t]
  /\ active' = active \cup {p}
  /\ strayed' = IF \E b \in Admins : admin[b].op = "delete" /\ admin[b].store = t
                THEN strayed \cup {p} ELSE strayed \ {p}
  /\ UNCHANGED <<open, closed, accessCode, shown, lost, link, admin>>

AdminStep(a) ==
  \/ \E t \in Stores :
       \/ CreateStore(a, t) \/ Stats(a, t) \/ Regenerate(a, t)
       \/ Revoke(a, t) \/ Remove(a, t)
  \/ \E t \in Stores, p \in Products : PutOnSale(a, p, t)
  \/ ClearCode(a) \/ EnsureCode(a) \/ AnswerCode(a) \/ Hide(a) \/ Delete(a)
-----------------------------------------------------------------------------
(***************************************************************************)
(* No store has a code nobody can pass on: whichever requests of admins    *)
(* race, the stored code was answered to one of them since it was set, or  *)
(* is on its way to one (ensureAccessCode and regenerateAccessCode answer  *)
(* what they have written, not what they drew). A crash can take the       *)
(* answer; the next page of statistics makes up for it. Another admin may  *)
(* hold an older code: ensureAccessCode replaces one it has not seen.      *)
(***************************************************************************)
OnItsWay(t) ==
  {admin[a].code : a \in {b \in Admins : admin[b].op = "answer" /\ admin[b].store = t}}

CodeShownIsStored ==
  \A t \in open \ lost : accessCode[t] \in {NoCode} \cup shown[t] \cup OnItsWay(t)

(***************************************************************************)
(* What remove promises of the products of a store: when the store has     *)
(* gone, or a crash came between its two statements, they are kept but off *)
(* the site until an admin puts them on sale again (store.service.ts,      *)
(* comment above remove). The exception are products another admin puts on *)
(* sale in the store between these statements (`strayed`).                 *)
(***************************************************************************)
OrphansHidden == \A p \in active \ strayed : owner[p] \in open

(***************************************************************************)
(* No Telegram user is linked to a store that has been deleted, whatever   *)
(* logins were on their way when it was.                                   *)
(***************************************************************************)
NoDanglingLink == \A s \in Sellers : link[s] \in open \cup {NoStore}
=============================================================================
