-------------------------------- MODULE Links --------------------------------
(***************************************************************************)
(* What banners lead to (BannerService) and what promo codes are good for  *)
(* (PromoCodeService): rows of the two tables, each with a kind (linkType, *)
(* scope) and the targets of that kind, and the categories among the       *)
(* targets (CategoryService). Both services follow one pattern: normalise  *)
(* the input, and in an update read the row first and write it afterwards. *)
(***************************************************************************)
EXTENDS Shelf

CONSTANTS
  Banners, Promos,
  Categories, Stores,
  CategoryOf,    \* the category of each product
  Forms,         \* updates that may be in flight
  Gone,          \* no such row
  Unsent         \* a field that the request leaves out

Holders == Banners \cup Promos

\* The kinds, and what can be a target of each.
TargetsOf == [PRODUCT |-> Products, PRODUCTS |-> Products, CATEGORY |-> Categories,
              CATEGORIES |-> Categories, STORES |-> Stores, NONE |-> {}, ALL |-> {}]
KindsOf(h) == IF h \in Banners THEN {"NONE", "PRODUCT", "PRODUCTS", "CATEGORY"}
              ELSE {"ALL", "CATEGORIES", "PRODUCTS", "STORES"}
Everything == {"NONE", "ALL"}
Single == {"PRODUCT", "CATEGORY"}

ASSUME LinksAssumption ==
  /\ Banners \cap Promos = {} /\ Gone \notin Holders
  /\ CategoryOf \in [Products -> Categories]
  /\ Categories \cap Stores = {} /\ IsFiniteSet(Categories)

VARIABLES
  holders,     \* the rows of both tables
  categories,  \* the categories there are
  closed,      \* those with isActive = false
  form         \* the update each slot executes

linkVars == <<holders, categories, closed, form>>

Link == [kind : DOMAIN TargetsOf, targets : SUBSET (Products \cup Categories \cup Stores)]
IdleForm == [holder |-> Gone, sent |-> Unsent, link |-> Gone]

Existing == products \cup categories \cup Stores

\* The kind and the targets agree, and every target exists (foreign keys).
\* Deleting the targets leaves a kind without any.
LinksTypeOK ==
  /\ holders \in [Holders -> Link \cup {Gone}]
  /\ \A h \in Holders : holders[h] # Gone =>
       /\ holders[h].kind \in KindsOf(h)
       /\ holders[h].targets \subseteq TargetsOf[holders[h].kind] \cap Existing
       /\ holders[h].kind \in Single => Cardinality(holders[h].targets) <= 1
  /\ categories \subseteq Categories /\ closed \subseteq categories
  /\ {CategoryOf[p] : p \in products} \subseteq categories
  /\ \A f \in Forms : form[f] # IdleForm => form[f].link \in Link

InitLinks ==
  /\ holders = [h \in Holders |-> Gone]
  /\ categories = Categories /\ closed = {}
  /\ form = [f \in Forms |-> IdleForm]
-----------------------------------------------------------------------------
\* Mutant of Normalized: the targets of another kind stay in the row.
NormalizedKeeping(kind, list) == [kind |-> kind, targets |-> list]

\* normalizeLink, normalizeScope: the targets of the other kinds are dropped.
Normalized(kind, list) == [kind |-> kind, targets |-> list \cap TargetsOf[kind]]

\* ... and they throw without a target where the kind needs one. A kind with
\* one target has a field for one id only.
Acceptable(kind, list) ==
  /\ kind \notin Everything => list \cap TargetsOf[kind] # {}
  /\ kind \in Single => Cardinality(list) <= 1

\* create; a target that does not exist violates a foreign key, a code already
\* there the unique index, and nothing is written.
CreateHolder(h, kind, list) ==
  /\ holders[h] = Gone
  /\ kind \in KindsOf(h)
  /\ Acceptable(kind, list) /\ list \cap TargetsOf[kind] \subseteq Existing
  /\ holders' = [holders EXCEPT ![h] = Normalized(kind, list)]
  /\ UNCHANGED <<categories, closed, form>>

\* The kind that reaches update: UpdateBannerInput and UpdatePromoCodeInput are
\* partial copies of the create inputs and keep their defaults.
DefaultKind(h) == IF h \in Banners THEN "NONE" ELSE "ALL"
KindReceived(h, sent) == IF sent = Unsent THEN DefaultKind(h) ELSE sent

\* update up to its write: the row as it is read, and what to write. A list
\* that is not sent is taken from the row, which has none of another kind.
StartUpdate(f, h, sent, list) ==
  LET kind == KindReceived(h, sent)
      ids == IF list = Unsent THEN holders[h].targets ELSE list
  IN  /\ form[f] = IdleForm
      /\ holders[h] # Gone
      /\ kind \in KindsOf(h)
      /\ list = Unsent => kind \in Everything \cup {holders[h].kind}
      /\ Acceptable(kind, ids)
      /\ form' = [form EXCEPT ![f] = [holder |-> h, sent |-> sent,
                                      link |-> Normalized(kind, ids)]]
      /\ UNCHANGED <<holders, categories, closed>>

\* Throws if the row or a target is gone by now; the old links are deleted and
\* the new ones written in one statement.
WriteUpdate(f) ==
  LET h == form[f].holder
  IN  /\ form[f] # IdleForm
      /\ holders' = IF holders[h] # Gone /\ form[f].link.targets \subseteq Existing
                    THEN [holders EXCEPT ![h] = form[f].link] ELSE holders
      /\ form' = [form EXCEPT ![f] = IdleForm]
      /\ UNCHANGED <<categories, closed>>

RemoveHolder(h) ==
  /\ holders[h] # Gone
  /\ holders' = [holders EXCEPT ![h] = Gone]
  /\ UNCHANGED <<categories, closed, form>>

\* onDelete SetNull and Cascade: the links to a deleted row go with it.
Unlink(target) ==
  holders' = [h \in Holders |->
                IF holders[h] = Gone THEN Gone
                ELSE [holders[h] EXCEPT !.targets = @ \ {target}]]

\* A category with products cannot be removed (foreign key).
RemoveCategory(c) ==
  /\ c \in categories
  /\ \A p \in products : CategoryOf[p] # c
  /\ categories' = categories \ {c} /\ closed' = closed \ {c}
  /\ Unlink(c)
  /\ UNCHANGED form

CloseCategory(c) ==
  /\ c \in categories
  /\ closed' \in {closed \cup {c}, closed \ {c}}
  /\ UNCHANGED <<holders, categories, form>>
-----------------------------------------------------------------------------
\* What a visitor sees of a banner (map): a banner whose targets are all hidden
\* or gone leads nowhere.
Shown(h) ==
  LET kind == holders[h].kind
      targets == holders[h].targets \ (hidden \cup closed)
  IN  IF kind \notin Everything /\ targets = {}
      THEN [kind |-> "NONE", targets |-> {}]
      ELSE [kind |-> kind, targets |-> targets]

(***************************************************************************)
(* An update changes only what was sent: without linkType or scope the row *)
(* keeps the one it has (comments in BannerService.update and in           *)
(* PromoCodeService.update).                                               *)
(***************************************************************************)
UnsentKept ==
  [][\A f \in Forms, h \in Holders :
       form[f].holder = h /\ form[f].sent = Unsent /\ form'[f] = IdleForm
         /\ holders[h] # Gone
       => holders'[h].kind = holders[h].kind]_<<holders, form>>
=============================================================================
