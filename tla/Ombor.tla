-------------------------------- MODULE Ombor --------------------------------
(***************************************************************************)
(* The warehouse Mini App: OmborService, OmborController and the guard of  *)
(* its routes, on top of the stores of module Store.                       *)
(*                                                                         *)
(* Three maps live in the memory of the process and are lost when it       *)
(* restarts: wrong codes per seller, results of deductions by request key, *)
(* and the keys being processed.  A request is a sequence of steps with an *)
(* await between two of them, in any interleaving with the others.         *)
(***************************************************************************)
EXTENDS Store

CONSTANTS
  Slots,        \* requests of the Mini App that can be in flight
  Patient,      \* the sellers who wait for an answer before they ask again
  Requests,     \* the requestIds the Mini App generates, one per tap
  ProductOf, QuantityOf,  \* what the tap of a requestId asks for
  InitialStock,
  MaxFailed,    \* MAX_FAILED_LOGINS
  MaxRequests, MaxForgets, MaxRestarts  \* bounds of the model

Key == [store : Stores, seller : Sellers, request : Requests]

ASSUME OmborAssumption ==
  /\ Patient \subseteq Sellers
  /\ ProductOf \in [Requests -> Products]
  /\ QuantityOf \in [Requests -> Nat \ {0}]
  /\ InitialStock \in [Products -> Nat]
  /\ MaxFailed \in Nat \ {0}
  /\ Slots # {} /\ IsFiniteSet(Slots) /\ Sellers # {} /\ Requests # {}
  /\ MaxRequests \in Nat /\ MaxForgets \in Nat /\ MaxRestarts \in Nat

VARIABLES
  stock,       \* the stock figure of each product
  taken,       \* history: how often the deduction of a key was committed
  tokens,      \* the session tokens that were issued
  failures,    \* failedLogins: wrong codes of each seller in the last 15 minutes
  idempotency, \* the keys whose result is remembered
  inFlight,    \* the keys being processed
  slot,        \* the request each slot executes, and how far it is
  forgotten,   \* history: the keys whose request the server has lost track of
  barred,      \* history: who was cut off from which store, and has not logged in
  passed,      \* history: the requests that had passed the guard when cut off
  wrong,       \* history: the wrong codes of each seller, unless they expired
  renewed,     \* history: how often the count of a seller was cleared
  requests, forgets, restarts

memory == <<failures, idempotency, inFlight>>
attempts == <<wrong, renewed>>
history == <<taken, forgotten, barred, passed, attempts>>
bounds == <<requests, forgets, restarts>>
vars == <<storeVars, link, adminVars, stock, tokens, memory, history, slot, bounds>>

Slot == [op : {"idle", "login", "found", "logout", "deduct", "txn", "done"},
         seller : Sellers, store : Stores, code : Codes \cup {NoCode}, request : Requests]
Free == [op |-> "idle", seller |-> CHOOSE s \in Sellers : TRUE, store |-> FirstStore,
         code |-> NoCode, request |-> CHOOSE r \in Requests : TRUE]

TypeOK ==
  /\ StoreType
  /\ stock \in [Products -> Int]
  /\ taken \in [Key -> Nat]
  /\ tokens \subseteq Sellers \X Stores
  /\ failures \in [Sellers -> Nat]
  /\ idempotency \subseteq Key /\ inFlight \subseteq Key /\ forgotten \subseteq Key
  /\ slot \in [Slots -> Slot]
  /\ barred \subseteq Sellers \X Stores /\ passed \subseteq Slots
  /\ wrong \in [Sellers -> Int] /\ renewed \in [Sellers -> Nat]
  /\ requests \in Nat /\ forgets \in Nat /\ restarts \in Nat

Init ==
  /\ InitStore
  /\ stock = InitialStock
  /\ taken = [k \in Key |-> 0]
  /\ tokens = {} /\ failures = [s \in Sellers |-> 0]
  /\ idempotency = {} /\ inFlight = {} /\ forgotten = {}
  /\ slot = [h \in Slots |-> Free]
  /\ barred = {} /\ passed = {}
  /\ wrong = [s \in Sellers |-> 0] /\ renewed = [s \in Sellers |-> 0]
  /\ requests = 0 /\ forgets = 0 /\ restarts = 0

Cleared(s) == IF failures[s] > 0 THEN renewed[s] + 1 ELSE renewed[s]
KeyOf(h) == [store |-> slot[h].store, seller |-> slot[h].seller,
             request |-> slot[h].request]
Busy(s) == \E h \in Slots : slot[h].op # "idle" /\ slot[h].seller = s
-----------------------------------------------------------------------------
(***************************************************************************)
(* initData as Telegram signs it: verifyTelegramInitData wants its hash to *)
(* match, its date to be no older than a day, and a user in it.            *)
(***************************************************************************)
InitData == [user : Sellers, matches : BOOLEAN, fresh : BOOLEAN, hasUser : BOOLEAN]

Verified(d) == d.matches /\ d.fresh /\ d.hasUser

Arrive(h, s) ==
  /\ slot[h].op = "idle"
  /\ s \in Patient => ~Busy(s)
  /\ requests < MaxRequests
  /\ requests' = requests + 1
  /\ UNCHANGED <<forgets, restarts>>

\* session: the stored link is enough for a new token, also one that the old
\* bot has left.
Session(h, d) ==
  /\ Verified(d)
  /\ Arrive(h, d.user)
  /\ link[d.user] # NoStore
  /\ tokens' = tokens \cup {<<d.user, link[d.user]>>}
  /\ UNCHANGED <<storeVars, link, adminVars, stock, memory, history, slot>>

\* Mutant of Login: the number of wrong codes is not checked.
LoginUnlimited(h, d, c) ==
  /\ Verified(d)
  /\ Arrive(h, d.user)
  /\ slot' = [slot EXCEPT ![h] = [Free EXCEPT !.op = "login", !.seller = d.user,
                                              !.code = c]]
  /\ barred' = {b \in barred : b[1] # d.user}
  /\ UNCHANGED <<storeVars, link, adminVars, stock, tokens, memory, taken, forgotten,
                 passed, attempts>>

\* login up to its query: TOO_MANY_ATTEMPTS is decided here. Who asks to log in
\* is no longer cut off.
Login(h, d, c) ==
  /\ Verified(d)
  /\ Arrive(h, d.user)
  /\ failures[d.user] < MaxFailed
  /\ slot' = [slot EXCEPT ![h] = [Free EXCEPT !.op = "login", !.seller = d.user,
                                              !.code = c]]
  /\ barred' = {b \in barred : b[1] # d.user}
  /\ UNCHANGED <<storeVars, link, adminVars, stock, tokens, memory, taken, forgotten,
                 passed, attempts>>

\* Mutant of LookUpCode: a code that no store has is not refused.
LookUpCodeUnchecked(h) ==
  /\ slot[h].op = "login"
  /\ \E t \in open \cup {NoStore} :
       /\ t \in open => accessCode[t] = slot[h].code
       /\ slot' = [slot EXCEPT ![h].op = "found", ![h].store = t]
  /\ failures' = [failures EXCEPT ![slot[h].seller] = 0]
  /\ UNCHANGED <<storeVars, link, adminVars, stock, tokens, idempotency, inFlight,
                 history, bounds>>

\* The answer to findFirst: a wrong code is counted, a right one clears the count.
LookUpCode(h) ==
  LET s == slot[h].seller
      owners == {t \in open : accessCode[t] = slot[h].code}
  IN  /\ slot[h].op = "login"
      /\ \/ /\ owners = {}
            /\ failures' = [failures EXCEPT ![s] = @ + 1]
            /\ wrong' = [wrong EXCEPT ![s] = @ + 1]
            /\ slot' = [slot EXCEPT ![h] = Free]
            /\ UNCHANGED renewed
         \/ \E t \in owners :
              /\ failures' = [failures EXCEPT ![s] = 0]
              /\ renewed' = [renewed EXCEPT ![s] = Cleared(s)]
              /\ slot' = [slot EXCEPT ![h].op = "found", ![h].store = t]
              /\ UNCHANGED wrong
      /\ UNCHANGED <<storeVars, link, adminVars, stock, tokens, idempotency, inFlight,
                     taken, forgotten, barred, passed, bounds>>

\* The upsert of the link, and the token; a store deleted meanwhile fails the
\* foreign key.
CommitLogin(h) ==
  LET s == slot[h].seller
      t == slot[h].store
  IN  /\ slot[h].op = "found"
      /\ \/ /\ t \in open
            /\ link' = [link EXCEPT ![s] = t]
            /\ tokens' = tokens \cup {<<s, t>>}
         \/ t \notin open /\ UNCHANGED <<link, tokens>>
      /\ slot' = [slot EXCEPT ![h] = Free]
      /\ UNCHANGED <<storeVars, adminVars, stock, memory, history, bounds>>
-----------------------------------------------------------------------------
\* Mutant of Authorized: the signature of the token is enough.
SignedOnly(s, t) == <<s, t>> \in tokens

\* OmborAuthGuard: the token is one that was issued, and its link is still in
\* the database.
Authorized(s, t) == <<s, t>> \in tokens /\ link[s] = t

\* A guarded request has passed the guard; its handler has not begun. (me,
\* products, product and categories only read: they are Shown.)
Enter(h, op, s, t, r) ==
  /\ Arrive(h, s)
  /\ Authorized(s, t)
  /\ slot' = [slot EXCEPT ![h] = [Free EXCEPT !.op = op, !.seller = s, !.store = t,
                                              !.request = r]]
  /\ passed' = passed \ {h}
  /\ UNCHANGED <<storeVars, link, adminVars, stock, tokens, memory, taken, forgotten, barred,
                 attempts>>

\* The sellers in S lose their links by this step: they are cut off unless a
\* login of theirs is on its way; what has passed the guard goes on.
CutOff(S) ==
  LET out == {s \in S : \A h \in Slots : slot[h].seller = s => slot[h].op \notin {"login", "found"}}
  IN  /\ barred' = barred \cup {<<s, link[s]>> : s \in out}
      /\ passed' = passed \cup {h \in Slots : slot[h].op # "idle" /\ slot[h].seller \in out}

\* logout deletes the link of this seller to this store.
CommitLogout(h) ==
  LET s == slot[h].seller
      t == slot[h].store
  IN  /\ slot[h].op = "logout"
      /\ link' = [link EXCEPT ![s] = IF @ = t THEN NoStore ELSE @]
      /\ slot' = [slot EXCEPT ![h] = Free]
      /\ CutOff({x \in {s} : link[x] = t})
      /\ UNCHANGED <<storeVars, adminVars, stock, tokens, memory, taken, forgotten, attempts,
                     bounds>>

\* Mutant of StartDeduct: requests being processed are not recognised.
StartDeductAgain(h) ==
  /\ slot[h].op = "deduct"
  /\ IF KeyOf(h) \in idempotency
     THEN slot' = [slot EXCEPT ![h] = Free] /\ UNCHANGED inFlight
     ELSE slot' = [slot EXCEPT ![h].op = "txn"] /\ inFlight' = inFlight \cup {KeyOf(h)}
  /\ UNCHANGED <<storeVars, link, adminVars, stock, tokens, failures, idempotency,
                 history, bounds>>

\* deduct before its transaction: a remembered result is answered, a request
\* being processed is DUPLICATE_REQUEST.
StartDeduct(h) ==
  /\ slot[h].op = "deduct"
  /\ \/ /\ KeyOf(h) \in idempotency \cup inFlight
        /\ slot' = [slot EXCEPT ![h] = Free]
        /\ UNCHANGED inFlight
     \/ /\ KeyOf(h) \notin idempotency \cup inFlight
        /\ slot' = [slot EXCEPT ![h].op = "txn"]
        /\ inFlight' = inFlight \cup {KeyOf(h)}
  /\ UNCHANGED <<storeVars, link, adminVars, stock, tokens, failures, idempotency,
                 history, bounds>>

\* Mutant of Deductible: any product of the shop, whatever is left of it.
AnyProduct(h) == ProductOf[slot[h].request] \in active

\* The product is one of the store's own on sale and has enough left.
Deductible(h) ==
  LET p == ProductOf[slot[h].request]
  IN  p \in Shown(slot[h].store) /\ stock[p] >= QuantityOf[slot[h].request]

\* The transaction of deduct: all of it, or nothing and an error.
Deduct(h) ==
  LET r == slot[h].request
  IN  /\ slot[h].op = "txn"
      /\ \/ /\ Deductible(h)
            /\ stock' = [stock EXCEPT ![ProductOf[r]] = @ - QuantityOf[r]]
            /\ taken' = [taken EXCEPT ![KeyOf(h)] = @ + 1]
            /\ slot' = [slot EXCEPT ![h].op = "done"]
            /\ UNCHANGED inFlight
         \/ /\ ~Deductible(h)
            /\ slot' = [slot EXCEPT ![h] = Free]
            /\ inFlight' = inFlight \ {KeyOf(h)}
            /\ UNCHANGED <<stock, taken>>
      /\ UNCHANGED <<storeVars, link, adminVars, tokens, failures, idempotency, forgotten,
                     barred, passed, attempts, bounds>>

\* Mutant of FinishDeduct: the result is not remembered.
FinishForgetting(h) ==
  /\ slot[h].op = "done"
  /\ inFlight' = inFlight \ {KeyOf(h)}
  /\ slot' = [slot EXCEPT ![h] = Free]
  /\ UNCHANGED <<storeVars, link, adminVars, stock, tokens, failures, idempotency,
                 history, bounds>>

\* The result is remembered and the key released, in one go; then the admin is
\* told, which changes nothing.
FinishDeduct(h) ==
  /\ slot[h].op = "done"
  /\ idempotency' = idempotency \cup {KeyOf(h)}
  /\ inFlight' = inFlight \ {KeyOf(h)}
  /\ slot' = [slot EXCEPT ![h] = Free]
  /\ UNCHANGED <<storeVars, link, adminVars, stock, tokens, failures, history, bounds>>
-----------------------------------------------------------------------------
\* Ten minutes later: the loop at the head of deduct drops the result.
ForgetResult(k) ==
  /\ k \in idempotency
  /\ forgets < MaxForgets
  /\ forgets' = forgets + 1
  /\ idempotency' = idempotency \ {k}
  /\ forgotten' = forgotten \cup {k}
  /\ UNCHANGED <<storeVars, link, adminVars, stock, taken, tokens, failures, inFlight,
                 slot, barred, passed, attempts, requests, restarts>>

\* Fifteen minutes later: pruneFailures drops a wrong code.
ForgetFailure(s) ==
  /\ failures[s] > 0
  /\ forgets < MaxForgets
  /\ forgets' = forgets + 1
  /\ failures' = [failures EXCEPT ![s] = @ - 1]
  /\ wrong' = [wrong EXCEPT ![s] = @ - 1]
  /\ UNCHANGED <<storeVars, link, adminVars, stock, tokens, idempotency, inFlight, slot,
                 taken, forgotten, barred, passed, renewed, requests, restarts>>

\* The process dies and starts again: its memory and its requests are gone.
Restart ==
  /\ restarts < MaxRestarts
  /\ restarts' = restarts + 1
  /\ failures' = [s \in Sellers |-> 0]
  /\ idempotency' = {} /\ inFlight' = {}
  /\ slot' = [h \in Slots |-> Free]
  /\ admin' = [a \in Admins |-> AdminIdle]
  /\ lost' = lost \cup {t \in Stores : OnItsWay(t) # {}}
  /\ forgotten' = forgotten \cup idempotency \cup inFlight
  /\ passed' = {} /\ renewed' = [s \in Sellers |-> Cleared(s)]
  /\ UNCHANGED <<open, closed, accessCode, shown, owner, active, strayed, link, adminCalls,
                 stock, taken, tokens, barred, wrong, requests, forgets>>

\* An admin request; whoever loses his link by it is cut off.
Manage(a) ==
  /\ AdminStep(a)
  /\ CutOff({s \in Sellers : link[s] # NoStore /\ link'[s] = NoStore})
  /\ UNCHANGED <<stock, tokens, memory, taken, forgotten, attempts, slot, bounds>>

Serve(h) ==
  \/ \E d \in InitData : Session(h, d) \/ \E c \in Codes : Login(h, d, c)
  \/ LookUpCode(h) \/ CommitLogin(h)
  \/ \E s \in Sellers, t \in Stores :
       \/ Enter(h, "logout", s, t, Free.request)
       \/ \E r \in Requests : Enter(h, "deduct", s, t, r)
  \/ CommitLogout(h)
  \/ StartDeduct(h) \/ Deduct(h) \/ FinishDeduct(h)

Next ==
  \/ \E h \in Slots : Serve(h)
  \/ \E a \in Admins : Manage(a)
  \/ (\E k \in Key : ForgetResult(k)) \/ (\E s \in Sellers : ForgetFailure(s))
  \/ Restart

Spec == Init /\ [][Next]_vars
-----------------------------------------------------------------------------
(***************************************************************************)
(* Exactly the keys being processed are locked, and no two requests work   *)
(* on one key (inFlight in ombor.service.ts, released in the finally).     *)
(***************************************************************************)
Working(h) == slot[h].op \in {"txn", "done"}

LocksExact ==
  /\ inFlight = {KeyOf(h) : h \in {g \in Slots : Working(g)}}
  /\ \A g, h \in Slots : Working(g) /\ Working(h) /\ g # h => KeyOf(g) # KeyOf(h)

(***************************************************************************)
(* A tap of the Mini App is deducted at most once however often it is      *)
(* sent, while it is processed or later, as long as the server has not     *)
(* lost track of it; and a remembered result stands for a deduction that   *)
(* was really made (deduct, comment above it).                             *)
(***************************************************************************)
DeductedOnce ==
  \A k \in Key \ forgotten :
    taken[k] = IF k \in idempotency \/ \E h \in Slots : slot[h].op = "done" /\ KeyOf(h) = k
               THEN 1 ELSE 0

Deducted == {k \in Key : taken[k] > 0}

(***************************************************************************)
(* What is left of a product and what was deducted make up its stock, and  *)
(* it is never deducted below zero, with any requests racing for the last  *)
(* piece and any restart between two steps of one.                         *)
(***************************************************************************)
Balanced ==
  \A p \in Products :
    /\ stock[p] >= 0
    /\ stock[p] + SumOf({k \in Deducted : ProductOf[k.request] = p},
                        [k \in Key |-> taken[k] * QuantityOf[k.request]]) = InitialStock[p]

(***************************************************************************)
(* The limit of wrong codes, counted at the codes that were really entered *)
(* and not at the map: a seller who waits for each answer gets MaxFailed   *)
(* of them into the window, and one who does not as many more as there are *)
(* requests in flight beside his; but again as many each time the map is   *)
(* cleared, by a right code or a restart (the comment above                *)
(* MAX_FAILED_LOGINS knows of neither). The map counts nothing else.       *)
(***************************************************************************)
LimitOf(s) == IF s \in Patient THEN MaxFailed ELSE MaxFailed + Cardinality(Slots) - 1

LoginsBounded ==
  \A s \in Sellers :
    /\ failures[s] <= wrong[s]
    /\ wrong[s] <= LimitOf(s) * (1 + renewed[s])

(***************************************************************************)
(* A seller who logs out, whom the admin disconnects or whose store is     *)
(* removed stays out of that store until he logs in again: old tokens open *)
(* nothing (comment above verifySessionToken). What he may still finish    *)
(* are the requests that had passed the guard by then. One who has a login *)
(* on its way at that moment may come in with it.                          *)
(***************************************************************************)
RevokedStaysOut ==
  \A b \in barred :
    /\ link[b[1]] # b[2]
    /\ \A h \in Slots \ passed :
         slot[h].op # "idle" => <<slot[h].seller, slot[h].store>> # b
=============================================================================
