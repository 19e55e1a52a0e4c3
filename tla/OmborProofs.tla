----------------------------- MODULE OmborProofs -----------------------------
(***************************************************************************)
(* What module Ombor promises of the warehouse Mini App, for any stores,   *)
(* sellers, codes, products and requests in flight.                        *)
(*                                                                         *)
(* Everything rests on inductive invariants besides TypeOK, one for each   *)
(* concern: Idempotent (the locks, the remembered results and the          *)
(* deductions), Limited and Counted (wrong codes), KeptOut (who was cut    *)
(* off) and Panel (stores, their codes and products).  NoDanglingLink      *)
(* needs none.                                                             *)
(***************************************************************************)
EXTENDS Ombor, DataFacts, TLAPS

(***************************************************************************)
(* The request that stands in for none is well formed.                     *)
(***************************************************************************)
LEMMA FreeIsSlot == Free \in Slot /\ Free.op = "idle" /\ Free.store = FirstStore
  BY StoreAssumption, OmborAssumption DEF Free, Slot

(***************************************************************************)
(* The admin panel keeps its tables well formed and takes links away only. *)
(***************************************************************************)
LEMMA AdminTypes ==
  ASSUME StoreType, NEW a \in Admins, AdminStep(a)
  PROVE  /\ StoreType'
         /\ \A s \in Sellers : link'[s] \in {link[s], NoStore}
  <1> USE DEF StoreType, storeVars, AdminCall
  <1>0. AdminIdle \in AdminCall
    BY StoreAssumption DEF AdminIdle
  <1>1. ASSUME NEW t \in Stores, CreateStore(a, t) \/ Stats(a, t)
        PROVE  StoreType' /\ link' = link
    BY <1>1, StoreAssumption DEF CreateStore, Stats, Ask, Proceed, AnswerWith
  <1>2. ASSUME NEW t \in Stores, Regenerate(a, t) \/ Remove(a, t)
        PROVE  StoreType' /\ link' = link
    BY <1>2, StoreAssumption DEF Regenerate, Remove, Ask, Proceed
  <1>3. ASSUME NEW t \in Stores, Revoke(a, t)
        PROVE  StoreType' /\ \A s \in Sellers : link'[s] \in {link[s], NoStore}
    BY <1>3, StoreAssumption DEF Revoke, Ask
  <1>4. ASSUME NEW t \in Stores, NEW p \in Products, PutOnSale(a, p, t)
        PROVE  StoreType' /\ link' = link
    BY <1>4, StoreAssumption DEF PutOnSale, Ask
  <1>5. ASSUME ClearCode(a) PROVE StoreType' /\ link' = link
    BY <1>0, <1>5 DEF ClearCode, Proceed, Answer
  <1>6. ASSUME EnsureCode(a) PROVE StoreType' /\ link' = link
    <2>1. accessCode' \in [Stores -> Codes \cup {NoCode}]
      BY <1>6 DEF EnsureCode
    <2>2. admin' \in [Admins -> AdminCall]
      BY <1>0, <1>6 DEF EnsureCode, Answer, AnswerWith
    <2> QED BY <1>6, <2>1, <2>2 DEF EnsureCode
  <1>9. ASSUME AnswerCode(a) PROVE StoreType' /\ link' = link
    <2>1. admin[a].code \in Codes \cup {NoCode} /\ admin[a].store \in Stores
      OBVIOUS
    <2>2. shown' \in [Stores -> SUBSET (Codes \cup {NoCode})] /\ lost' \subseteq Stores
      BY <1>9, <2>1 DEF AnswerCode
    <2>3. admin' \in [Admins -> AdminCall]
      BY <1>0, <1>9 DEF AnswerCode, Answer
    <2> QED BY <1>9, <2>2, <2>3 DEF AnswerCode
  <1>7. ASSUME Hide(a) PROVE StoreType' /\ link' = link
    BY <1>7 DEF Hide, Proceed
  <1>8. ASSUME Delete(a)
        PROVE  StoreType' /\ \A s \in Sellers : link'[s] \in {link[s], NoStore}
    BY <1>0, <1>8 DEF Delete, Answer
  <1> QED BY <1>1, <1>2, <1>3, <1>4, <1>5, <1>6, <1>7, <1>8, <1>9 DEF AdminStep

(***************************************************************************)
(* Cutting sellers off names them with the stores they were linked to.     *)
(***************************************************************************)
LEMMA CutOffTypes ==
  ASSUME TypeOK, NEW S \in SUBSET Sellers, \A s \in S : link[s] # NoStore, CutOff(S)
  PROVE  barred' \subseteq Sellers \X Stores /\ passed' \subseteq Slots
  BY DEF CutOff, TypeOK, StoreType

(***************************************************************************)
(* Every request of the Mini App leaves a well-formed state.               *)
(***************************************************************************)
LEMMA ServeTypes ==
  ASSUME TypeOK, NEW h \in Slots, Serve(h)
  PROVE  TypeOK'
  <1> USE DEF TypeOK, storeVars, adminVars, memory, history, attempts, bounds, Slot, InitData
  <1>0. Free \in Slot /\ KeyOf(h) \in Key
    BY FreeIsSlot DEF KeyOf, Key
  <1>1. ASSUME UNCHANGED <<storeVars, adminVars>>, link' \in [Sellers -> Stores \cup {NoStore}]
        PROVE  StoreType'
    BY <1>1 DEF StoreType
  <1>2. ASSUME NEW d \in InitData, Session(h, d) PROVE TypeOK'
    BY <1>1, <1>2 DEF Session, Arrive, StoreType
  <1>3. ASSUME NEW d \in InitData, NEW c \in Codes, Login(h, d, c) PROVE TypeOK'
    <2> DEFINE new == [Free EXCEPT !.op = "login", !.seller = d.user, !.code = c]
    <2>1. new \in Slot
      BY <1>0
    <2>2. slot' = [slot EXCEPT ![h] = new]
      BY <1>3 DEF Login
    <2>3. slot' \in [Slots -> Slot] /\ barred' \subseteq Sellers \X Stores
      <3> HIDE DEF new, Slot
      <3> QED BY <1>3, <2>1, <2>2 DEF Login
    <2>4. requests' \in Nat
      BY <1>3 DEF Login, Arrive
    <2>5. UNCHANGED <<storeVars, link, adminVars, stock, tokens, memory, taken, forgotten,
                      passed, attempts, forgets, restarts>>
      BY <1>3 DEF Login, Arrive
    <2> HIDE DEF new, Slot
    <2> QED BY <1>1, <2>3, <2>4, <2>5 DEF StoreType
  <1>4. ASSUME LookUpCode(h) PROVE TypeOK'
    <2>1. wrong' \in [Sellers -> Int] /\ renewed' \in [Sellers -> Nat]
      BY <1>4 DEF LookUpCode, Cleared
    <2>2. slot' \in [Slots -> Slot] /\ failures' \in [Sellers -> Nat]
      BY <1>0, <1>4 DEF LookUpCode
    <2> QED BY <1>1, <1>4, <2>1, <2>2 DEF LookUpCode, StoreType
  <1>5. ASSUME CommitLogin(h) PROVE TypeOK'
    BY <1>0, <1>1, <1>5 DEF CommitLogin, StoreType
  <1>6. ASSUME NEW op \in {"logout", "deduct"}, NEW s \in Sellers, NEW t \in Stores,
               NEW r \in Requests, Enter(h, op, s, t, r)
        PROVE  TypeOK'
    <2> DEFINE new == [Free EXCEPT !.op = op, !.seller = s, !.store = t, !.request = r]
    <2>1. new \in Slot
      BY <1>0
    <2>2. slot' = [slot EXCEPT ![h] = new]
      BY <1>6 DEF Enter
    <2>3. slot' \in [Slots -> Slot]
      <3> HIDE DEF new, Slot
      <3> QED BY <2>1, <2>2
    <2>4. requests' \in Nat
      BY <1>6 DEF Enter, Arrive
    <2>5. /\ UNCHANGED <<storeVars, link, adminVars, stock, tokens, memory, taken, forgotten,
                         barred, attempts, forgets, restarts>>
          /\ passed' \subseteq passed
      BY <1>6 DEF Enter, Arrive
    <2> HIDE DEF new, Slot
    <2> QED BY <1>1, <2>3, <2>4, <2>5 DEF StoreType
  <1>7. ASSUME CommitLogout(h) PROVE TypeOK'
    <2> DEFINE S == {x \in {slot[h].seller} : link[x] = slot[h].store}
    <2>1. CutOff(S) /\ S \in SUBSET Sellers /\ \A x \in S : link[x] # NoStore
      BY <1>7, StoreAssumption DEF CommitLogout
    <2> HIDE DEF S
    <2>2. barred' \subseteq Sellers \X Stores /\ passed' \subseteq Slots
      BY <2>1, CutOffTypes
    <2> QED BY <1>0, <1>1, <1>7, <2>2 DEF CommitLogout, StoreType
  <1>8. ASSUME StartDeduct(h) PROVE TypeOK'
    BY <1>0, <1>1, <1>8 DEF StartDeduct, StoreType
  <1>9. ASSUME Deduct(h) PROVE TypeOK'
    <2>1. UNCHANGED <<storeVars, link, adminVars, tokens, failures, idempotency, forgotten,
                      barred, passed, attempts, bounds>>
      BY <1>9 DEF Deduct
    <2>0. slot' = [slot EXCEPT ![h].op = "done"] \/ slot' = [slot EXCEPT ![h] = Free]
      BY <1>9 DEF Deduct
    <2>2. slot' \in [Slots -> Slot]
      BY <1>0, <2>0
    <2>3. inFlight' \subseteq Key
      BY <1>9 DEF Deduct
    <2>4. stock' \in [Products -> Int] /\ taken' \in [Key -> Nat]
      <3>1. slot[h].request \in Requests
        OBVIOUS
      <3>2. ProductOf[slot[h].request] \in Products /\ QuantityOf[slot[h].request] \in Nat
        BY <3>1, OmborAssumption
      <3>3. \/ UNCHANGED <<stock, taken>>
            \/ /\ stock' = [stock EXCEPT ![ProductOf[slot[h].request]] =
                              @ - QuantityOf[slot[h].request]]
               /\ taken' = [taken EXCEPT ![KeyOf(h)] = @ + 1]
        BY <1>9 DEF Deduct
      <3> HIDE DEF Slot
      <3> QED BY <1>0, <3>2, <3>3
    <2> HIDE DEF Slot
    <2> QED BY <1>1, <2>1, <2>2, <2>3, <2>4 DEF StoreType
  <1>10. ASSUME FinishDeduct(h) PROVE TypeOK'
    BY <1>0, <1>1, <1>10 DEF FinishDeduct, StoreType
  <1> QED BY <1>0, <1>2, <1>3, <1>4, <1>5, <1>6, <1>7, <1>8, <1>9, <1>10 DEF Serve

(***************************************************************************)
(* So does every other step.                                               *)
(***************************************************************************)
LEMMA TypeStep == TypeOK /\ [Next]_vars => TypeOK'
  <1> SUFFICES ASSUME TypeOK, [Next]_vars PROVE TypeOK'
    OBVIOUS
  <1> USE DEF TypeOK, storeVars, adminVars, memory, history, attempts, bounds
  <1>1. ASSUME NEW a \in Admins, Manage(a) PROVE TypeOK'
    <2>1. StoreType'
      BY <1>1, AdminTypes DEF Manage
    <2> DEFINE S == {s \in Sellers : link[s] # NoStore /\ link'[s] = NoStore}
    <2>3. CutOff(S) /\ S \in SUBSET Sellers /\ \A s \in S : link[s] # NoStore
      BY <1>1 DEF Manage
    <2> HIDE DEF S
    <2>2. barred' \subseteq Sellers \X Stores /\ passed' \subseteq Slots
      BY <2>3, CutOffTypes
    <2> QED BY <1>1, <2>1, <2>2 DEF Manage
  <1>2. ASSUME NEW k \in Key, ForgetResult(k) PROVE TypeOK'
    BY <1>2 DEF ForgetResult, StoreType
  <1>3. ASSUME NEW s \in Sellers, ForgetFailure(s) PROVE TypeOK'
    BY <1>3 DEF ForgetFailure, StoreType
  <1>4. ASSUME Restart PROVE TypeOK'
    <2>1. renewed' \in [Sellers -> Nat] /\ failures' \in [Sellers -> Nat]
      BY <1>4 DEF Restart, Cleared
    <2> QED BY <1>4, <2>1, FreeIsSlot, StoreAssumption
            DEF Restart, StoreType, AdminIdle, AdminCall
  <1>5. ASSUME UNCHANGED vars PROVE TypeOK'
    BY <1>5 DEF vars, StoreType
  <1> QED BY <1>1, <1>2, <1>3, <1>4, <1>5, ServeTypes DEF Next

(***************************************************************************)
(* The type invariant.                                                     *)
(***************************************************************************)
THEOREM TypeCorrect == Spec => []TypeOK
  <1>1. Init => TypeOK
    BY FreeIsSlot, StoreAssumption, OmborAssumption
    DEF Init, InitStore, TypeOK, StoreType, AdminIdle, AdminCall
  <1> QED BY <1>1, TypeStep, PTL DEF Spec
-----------------------------------------------------------------------------
(***************************************************************************)
(* Locks and results.  Besides what LocksExact and DeductedOnce say, no    *)
(* result is remembered for a key that is being processed: StartDeduct     *)
(* looks at both sets before it goes on.                                   *)
(***************************************************************************)
NotYetRemembered == \A h \in Slots : Working(h) => KeyOf(h) \notin idempotency

Idempotent == LocksExact /\ NotYetRemembered /\ DeductedOnce

(***************************************************************************)
(* Nothing happens to locks and results in a step that touches neither     *)
(* them nor a request at work.                                             *)
(***************************************************************************)
LEMMA IdempotentFrame ==
  ASSUME Idempotent, UNCHANGED <<inFlight, idempotency, taken, forgotten>>,
         \A g \in Slots : (Working(g)' <=> Working(g)) /\ (Working(g) => slot'[g] = slot[g])
  PROVE  Idempotent'
  <1>1. \A g \in Slots : Working(g) => KeyOf(g)' = KeyOf(g)
    BY DEF KeyOf
  <1>2. \A g \in Slots : (slot'[g].op = "done") <=> (slot[g].op = "done")
    BY DEF Working
  <1>3. \A g \in Slots : slot[g].op = "done" => Working(g)
    BY DEF Working
  <1>4. LocksExact'
    BY <1>1 DEF Idempotent, LocksExact
  <1>5. NotYetRemembered'
    BY <1>1 DEF Idempotent, NotYetRemembered
  <1>6. DeductedOnce'
    BY <1>1, <1>2, <1>3 DEF Idempotent, DeductedOnce
  <1> QED BY <1>4, <1>5, <1>6 DEF Idempotent

(***************************************************************************)
(* A deduction takes its lock, works under it and leaves a result.         *)
(***************************************************************************)
LEMMA DeductKeeps ==
  ASSUME TypeOK, Idempotent, NEW h \in Slots,
         StartDeduct(h) \/ Deduct(h) \/ FinishDeduct(h)
  PROVE  Idempotent'
  <1> DEFINE k == KeyOf(h)
  <1>0. k \in Key /\ slot \in [Slots -> Slot] /\ Free.op = "idle" /\ taken \in [Key -> Nat]
    BY FreeIsSlot DEF TypeOK, KeyOf, Key, Slot
  <1>1. ASSUME slot' = [slot EXCEPT ![h] = Free]
        PROVE  ~Working(h)' /\ \A g \in Slots \ {h} : slot'[g] = slot[g]
    BY <1>0, <1>1 DEF Working
  <1>2. ASSUME NEW op \in {"txn", "done"}, slot' = [slot EXCEPT ![h].op = op]
        PROVE  /\ slot'[h].op = op /\ Working(h)' /\ KeyOf(h)' = k
               /\ \A g \in Slots \ {h} : slot'[g] = slot[g]
    BY <1>0, <1>2 DEF Working, KeyOf, Slot
  <1>3. \A g \in Slots : slot'[g] = slot[g] =>
          /\ Working(g)' = Working(g) /\ KeyOf(g)' = KeyOf(g)
    BY DEF Working, KeyOf
  <1>4. \A g \in Slots : slot[g].op = "done" => Working(g)
    BY DEF Working
  <1>5. CASE StartDeduct(h)
    <2>1. ~Working(h) /\ UNCHANGED <<idempotency, taken, forgotten>>
      BY <1>5 DEF StartDeduct, Working, history
    <2>2. CASE slot' = [slot EXCEPT ![h] = Free] /\ UNCHANGED inFlight
      BY <1>1, <1>3, <2>1, <2>2, IdempotentFrame
    <2>3. CASE /\ k \notin idempotency \cup inFlight
               /\ slot' = [slot EXCEPT ![h].op = "txn"]
               /\ inFlight' = inFlight \cup {k}
      <3>1. LocksExact'
        BY <1>2, <1>3, <2>1, <2>3 DEF Idempotent, LocksExact
      <3>2. NotYetRemembered'
        BY <1>2, <1>3, <2>1, <2>3 DEF Idempotent, NotYetRemembered
      <3>3. \A g \in Slots : (slot'[g].op = "done") <=> (slot[g].op = "done")
        BY <1>2, <1>4, <2>1, <2>3
      <3>4. \A g \in Slots : slot[g].op = "done" => KeyOf(g)' = KeyOf(g)
        BY <1>2, <1>3, <1>4, <2>1, <2>3
      <3>5. DeductedOnce'
        BY <2>1, <3>3, <3>4 DEF Idempotent, DeductedOnce
      <3> QED BY <3>1, <3>2, <3>5 DEF Idempotent
    <2> QED BY <1>5, <2>2, <2>3 DEF StartDeduct
  <1>6. CASE Deduct(h)
    <2>1. /\ slot[h].op = "txn" /\ Working(h)
          /\ UNCHANGED <<idempotency, forgotten>>
      BY <1>6 DEF Deduct, Working
    <2>2. CASE /\ slot' = [slot EXCEPT ![h] = Free]
               /\ inFlight' = inFlight \ {k} /\ UNCHANGED taken
      <3>1. LocksExact'
        BY <1>1, <1>3, <2>1, <2>2 DEF Idempotent, LocksExact
      <3>2. NotYetRemembered'
        BY <1>1, <1>3, <2>1, <2>2 DEF Idempotent, NotYetRemembered
      <3>3. \A g \in Slots : (slot'[g].op = "done") <=> (slot[g].op = "done" /\ g # h)
        BY <1>0, <1>1, <2>1, <2>2
      <3>4. DeductedOnce'
        BY <1>3, <2>1, <2>2, <1>1, <3>3 DEF Idempotent, DeductedOnce
      <3> QED BY <3>1, <3>2, <3>4 DEF Idempotent
    <2>3. CASE /\ slot' = [slot EXCEPT ![h].op = "done"]
               /\ taken' = [taken EXCEPT ![k] = @ + 1] /\ UNCHANGED inFlight
      <3>1. LocksExact'
        BY <1>2, <1>3, <2>1, <2>3 DEF Idempotent, LocksExact
      <3>2. NotYetRemembered'
        BY <1>2, <1>3, <2>1, <2>3 DEF Idempotent, NotYetRemembered
      <3>3. ASSUME NEW j \in Key \ forgotten
            PROVE  taken'[j] = IF j \in idempotency
                                  \/ \E g \in Slots : slot'[g].op = "done" /\ KeyOf(g)' = j
                               THEN 1 ELSE 0
        <4>1. CASE j = k
          <5>1. j \notin idempotency
            BY <2>1, <4>1 DEF Idempotent, NotYetRemembered
          <5>2. ~\E g \in Slots : slot[g].op = "done" /\ KeyOf(g) = j
            BY <1>4, <2>1, <4>1 DEF Idempotent, LocksExact
          <5>3. taken[j] = 0
            BY <5>1, <5>2 DEF Idempotent, DeductedOnce
          <5>4. slot'[h].op = "done" /\ KeyOf(h)' = j
            BY <1>2, <2>3, <4>1
          <5> HIDE DEF k
          <5>5. taken'[j] = 1
            BY <1>0, <2>3, <4>1, <5>3
          <5> QED BY <5>4, <5>5
        <4>2. CASE j # k
          <5>1. \A g \in Slots : (slot'[g].op = "done" /\ KeyOf(g)' = j)
                                 <=> (slot[g].op = "done" /\ KeyOf(g) = j)
            BY <1>2, <1>3, <2>1, <2>3, <4>2
          <5> HIDE DEF k
          <5>2. taken'[j] = taken[j]
            BY <1>0, <2>3, <4>2
          <5> QED BY <5>1, <5>2 DEF Idempotent, DeductedOnce
        <4> QED BY <4>1, <4>2
      <3>4. DeductedOnce'
        BY <2>1, <3>3 DEF DeductedOnce
      <3> QED BY <3>1, <3>2, <3>4 DEF Idempotent
    <2> QED BY <1>6, <2>2, <2>3 DEF Deduct
  <1>7. CASE FinishDeduct(h)
    <2>1. /\ slot[h].op = "done" /\ Working(h)
          /\ idempotency' = idempotency \cup {k} /\ inFlight' = inFlight \ {k}
          /\ slot' = [slot EXCEPT ![h] = Free]
          /\ UNCHANGED <<taken, forgotten>>
      BY <1>7 DEF FinishDeduct, Working, history
    <2>2. LocksExact'
      BY <1>1, <1>3, <2>1 DEF Idempotent, LocksExact
    <2>3. NotYetRemembered'
      BY <1>1, <1>3, <2>1 DEF Idempotent, NotYetRemembered, LocksExact
    <2>4. \A g \in Slots : (slot'[g].op = "done") <=> (slot[g].op = "done" /\ g # h)
      BY <1>0, <1>1, <2>1
    <2>5. \A g \in Slots \ {h} : KeyOf(g)' = KeyOf(g)
      BY <1>1, <1>3, <2>1
    <2>6. DeductedOnce'
      BY <2>1, <2>4, <2>5 DEF Idempotent, DeductedOnce
    <2> QED BY <2>2, <2>3, <2>6 DEF Idempotent
  <1> QED BY <1>5, <1>6, <1>7

(***************************************************************************)
(* The other steps leave them alone, forget a result by name, or forget    *)
(* everything in a restart.                                                *)
(***************************************************************************)
LEMMA IdempotentStep == TypeOK /\ Idempotent /\ [Next]_vars => Idempotent'
  <1> SUFFICES ASSUME TypeOK, Idempotent, [Next]_vars PROVE Idempotent'
    OBVIOUS
  <1>0. slot \in [Slots -> Slot] /\ Free.op = "idle"
    BY FreeIsSlot DEF TypeOK
  <1>1. ASSUME NEW h \in Slots, ~Working(h), ~Working(h)',
               \A g \in Slots \ {h} : slot'[g] = slot[g],
               UNCHANGED <<inFlight, idempotency, taken, forgotten>>
        PROVE  Idempotent'
    <2>1. \A g \in Slots : (Working(g)' <=> Working(g)) /\ (Working(g) => slot'[g] = slot[g])
      BY <1>1 DEF Working
    <2> QED BY <1>1, <2>1, IdempotentFrame
  <1>2. ASSUME UNCHANGED <<slot, inFlight, idempotency, taken, forgotten>> PROVE Idempotent'
    BY <1>2, IdempotentFrame DEF Working
  <1>3. ASSUME NEW h \in Slots, Serve(h) PROVE Idempotent'
    <2> USE DEF memory, history
    <2>1. ASSUME NEW d \in InitData, Session(h, d) PROVE Idempotent'
      BY <1>2, <2>1 DEF Session
    <2>2. ASSUME NEW d \in InitData, NEW c \in Codes, Login(h, d, c) PROVE Idempotent'
      <3> DEFINE new == [Free EXCEPT !.op = "login", !.seller = d.user, !.code = c]
      <3>1. new.op = "login"
        BY FreeIsSlot DEF Slot
      <3>2. slot[h].op = "idle" /\ slot' = [slot EXCEPT ![h] = new]
        BY <2>2 DEF Login, Arrive
      <3>3. slot'[h].op = "login" /\ \A g \in Slots \ {h} : slot'[g] = slot[g]
        <4> HIDE DEF new
        <4> QED BY <1>0, <3>1, <3>2
      <3> QED BY <1>1, <2>2, <3>2, <3>3 DEF Working, Login
    <2>3. ASSUME LookUpCode(h) PROVE Idempotent'
      BY <1>0, <1>1, <2>3 DEF LookUpCode, Working, Slot
    <2>4. ASSUME CommitLogin(h) PROVE Idempotent'
      BY <1>0, <1>1, <2>4 DEF CommitLogin, Working
    <2>5. ASSUME NEW op \in {"logout", "deduct"}, NEW s \in Sellers, NEW t \in Stores,
                 NEW r \in Requests, Enter(h, op, s, t, r)
          PROVE  Idempotent'
      <3> DEFINE new == [Free EXCEPT !.op = op, !.seller = s, !.store = t, !.request = r]
      <3>1. new.op = op
        BY FreeIsSlot DEF Slot
      <3>2. slot[h].op = "idle" /\ slot' = [slot EXCEPT ![h] = new]
        BY <2>5 DEF Enter, Arrive
      <3>3. slot'[h].op = op /\ \A g \in Slots \ {h} : slot'[g] = slot[g]
        <4> HIDE DEF new
        <4> QED BY <1>0, <3>1, <3>2
      <3> QED BY <1>1, <2>5, <3>2, <3>3 DEF Working, Enter
    <2>6. ASSUME CommitLogout(h) PROVE Idempotent'
      BY <1>0, <1>1, <2>6 DEF CommitLogout, Working
    <2>7. Free.request \in Requests
      BY FreeIsSlot DEF Slot
    <2> QED BY <1>3, <2>1, <2>2, <2>3, <2>4, <2>5, <2>6, <2>7, DeductKeeps DEF Serve
  <1>4. ASSUME NEW a \in Admins, Manage(a) PROVE Idempotent'
    BY <1>2, <1>4 DEF Manage, memory
  <1>5. ASSUME NEW k \in Key, ForgetResult(k) PROVE Idempotent'
    BY <1>5 DEF ForgetResult, Idempotent, LocksExact, NotYetRemembered, DeductedOnce,
                Working, KeyOf
  <1>6. ASSUME NEW s \in Sellers, ForgetFailure(s) PROVE Idempotent'
    BY <1>2, <1>6 DEF ForgetFailure, history
  <1>7. ASSUME Restart PROVE Idempotent'
    <2>1. \A g \in Slots : slot'[g].op = "idle"
      BY <1>0, <1>7 DEF Restart
    <2>2. \A g \in Slots : ~Working(g)'
      BY <2>1 DEF Working
    <2>3. /\ inFlight' = {} /\ idempotency' = {} /\ taken' = taken
          /\ forgotten' = forgotten \cup idempotency \cup inFlight
      BY <1>7 DEF Restart
    <2>4. \A g \in Slots : slot[g].op = "done" => KeyOf(g) \in inFlight
      BY DEF Idempotent, LocksExact, Working
    <2> QED BY <2>1, <2>2, <2>3, <2>4
            DEF Idempotent, LocksExact, NotYetRemembered, DeductedOnce
  <1>8. ASSUME UNCHANGED vars PROVE Idempotent'
    BY <1>2, <1>8 DEF vars, memory, history
  <1> QED BY <1>3, <1>4, <1>5, <1>6, <1>7, <1>8 DEF Next

(***************************************************************************)
(* The invariant of the deductions holds in every reachable state.         *)
(***************************************************************************)
LEMMA AlwaysIdempotent == Spec => []Idempotent
  <1>1. Init => Idempotent
    BY FreeIsSlot
    DEF Init, Idempotent, LocksExact, NotYetRemembered, DeductedOnce, Working
  <1> QED BY <1>1, TypeCorrect, IdempotentStep, PTL DEF Spec

(***************************************************************************)
(* Exactly the keys being processed are locked, each by one request.       *)
(***************************************************************************)
THEOREM LocksHold == Spec => []LocksExact
  <1>1. Idempotent => LocksExact
    BY DEF Idempotent
  <1> QED BY <1>1, AlwaysIdempotent, PTL

(***************************************************************************)
(* A tap is deducted at most once while the server has track of it.        *)
(***************************************************************************)
THEOREM DeductsOnce == Spec => []DeductedOnce
  <1>1. Idempotent => DeductedOnce
    BY DEF Idempotent
  <1> QED BY <1>1, AlwaysIdempotent, PTL
-----------------------------------------------------------------------------
\* What was deducted of product p, by key.
KeysOf(p) == {k \in Deducted : ProductOf[k.request] = p}
Amounts == [k \in Key |-> taken[k] * QuantityOf[k.request]]
Gone(p) == SumOf(KeysOf(p), Amounts)

\* At any time only finitely many keys were deducted, however many the Mini App
\* may generate, so that there is a sum of them.
Accounted ==
  /\ IsFiniteSet(Deducted)
  /\ Balanced

(***************************************************************************)
(* One more deduction by a key adds its quantity to what was deducted of   *)
(* the product, whether the key was deducted before (the process restarted *)
(* in between) or not, and nothing to that of another.                     *)
(***************************************************************************)
LEMMA GoneGrows ==
  ASSUME TypeOK, IsFiniteSet(Deducted), NEW k \in Key,
         taken' = [taken EXCEPT ![k] = @ + 1], NEW p \in Products
  PROVE  /\ IsFiniteSet(Deducted')
         /\ Gone(p) \in Nat
         /\ Gone(p)' = Gone(p) + IF ProductOf[k.request] = p THEN QuantityOf[k.request] ELSE 0
<1>1. /\ \A x \in Key : taken[x] \in Nat /\ QuantityOf[x.request] \in Nat
      /\ \A x \in Key : taken'[x] = IF x = k THEN taken[k] + 1 ELSE taken[x]
  BY OmborAssumption DEF TypeOK, Key
<1>2. /\ \A x \in Key : Amounts[x] \in Nat /\ Amounts'[x] \in Nat
      /\ \A x \in Key \ {k} : Amounts'[x] = Amounts[x]
      /\ Amounts'[k] = Amounts[k] + QuantityOf[k.request]
  <2>1. ASSUME NEW x \in Key
        PROVE  Amounts[x] = taken[x] * QuantityOf[x.request]
               /\ Amounts'[x] = taken'[x] * QuantityOf[x.request]
    BY DEF Amounts
  <2>2. ASSUME NEW m \in Nat, NEW n \in Nat
        PROVE  m * n \in Nat /\ (m + 1) * n = m * n + n /\ (m + 1) * n \in Nat
    OBVIOUS
  <2>3. QED
    BY <1>1, <2>1, <2>2
<1>3. Deducted' = Deducted \cup {k} /\ Deducted \subseteq Key
  BY <1>1 DEF Deducted
<1>4. IsFiniteSet(Deducted') /\ IsFiniteSet(KeysOf(p)) /\ KeysOf(p) \subseteq Key
  BY <1>3, FS_AddElement, FS_Subset DEF KeysOf
<1>5. Gone(p) \in Nat
  BY <1>2, <1>4, SumNat DEF Gone
<1>6. CASE ProductOf[k.request] # p
  <2>1. KeysOf(p)' = KeysOf(p) /\ k \notin KeysOf(p)
    BY <1>3, <1>6 DEF KeysOf
  <2>2. SumOf(KeysOf(p), Amounts') = SumOf(KeysOf(p), Amounts)
    BY <1>2, <1>4, <2>1, SumSame
  <2>3. QED
    BY <1>4, <1>5, <1>6, <2>1, <2>2 DEF Gone
<1>7. CASE ProductOf[k.request] = p /\ k \in Deducted
  <2>1. KeysOf(p)' = KeysOf(p) /\ k \in KeysOf(p)
    BY <1>3, <1>7 DEF KeysOf
  <2>2. SumOf(KeysOf(p), Amounts') = SumOf(KeysOf(p), Amounts) + Amounts'[k] - Amounts[k]
    BY <1>2, <1>4, <2>1, SumChange
  <2>3. QED
    BY <1>1, <1>2, <1>4, <1>5, <1>7, <2>1, <2>2 DEF Gone
<1>8. CASE ProductOf[k.request] = p /\ k \notin Deducted
  <2>1. KeysOf(p)' = KeysOf(p) \cup {k} /\ k \notin KeysOf(p)
    BY <1>3, <1>8 DEF KeysOf
  <2>2. Amounts[k] = 0
    BY <1>1, <1>8 DEF Amounts, Deducted
  <2>3. SumOf(KeysOf(p) \cup {k}, Amounts') = Amounts'[k] + SumOf(KeysOf(p), Amounts')
    BY <1>2, <1>4, <2>1, SumAdd
  <2>4. SumOf(KeysOf(p), Amounts') = SumOf(KeysOf(p), Amounts)
    BY <1>2, <1>4, <2>1, SumSame
  <2>5. QED
    BY <1>1, <1>2, <1>4, <1>5, <1>8, <2>1, <2>2, <2>3, <2>4 DEF Gone
<1>9. QED
  BY <1>4, <1>5, <1>6, <1>7, <1>8

(***************************************************************************)
(* The transaction of a deduction keeps the balance: it takes what is      *)
(* there, and takes it under its key.                                      *)
(***************************************************************************)
LEMMA DeductBalances ==
  ASSUME TypeOK, Accounted, NEW h \in Slots, Deduct(h)
  PROVE  Accounted'
<1> DEFINE k == KeyOf(h)
           r == slot[h].request
<1>1. k \in Key /\ k.request = r /\ ProductOf[r] \in Products /\ QuantityOf[r] \in Nat
  BY OmborAssumption DEF TypeOK, Slot, KeyOf, Key
<1>2. CASE ~Deductible(h)
  <2>1. UNCHANGED <<stock, taken>>
    BY <1>2 DEF Deduct
  <2>2. QED
    BY <2>1 DEF Accounted, Balanced, Deducted
<1>3. CASE Deductible(h)
  <2>1. /\ stock' = [stock EXCEPT ![ProductOf[r]] = @ - QuantityOf[r]]
        /\ taken' = [taken EXCEPT ![k] = @ + 1]
        /\ stock[ProductOf[r]] >= QuantityOf[r]
    BY <1>3 DEF Deduct, Deductible
  <2> HIDE DEF k, r
  <2>2. ASSUME NEW p \in Products
        PROVE  stock'[p] >= 0 /\ stock'[p] + Gone(p)' = InitialStock[p]
    <3>1. stock[p] >= 0 /\ stock[p] + Gone(p) = InitialStock[p] /\ stock[p] \in Int
      BY DEF Accounted, Balanced, Gone, KeysOf, Amounts, TypeOK
    <3>2. /\ Gone(p) \in Nat
          /\ Gone(p)' = Gone(p) + IF ProductOf[r] = p THEN QuantityOf[r] ELSE 0
      BY <1>1, <2>1, GoneGrows DEF Accounted
    <3>3. stock'[p] = stock[p] - IF ProductOf[r] = p THEN QuantityOf[r] ELSE 0
      BY <1>1, <2>1, <3>1 DEF TypeOK
    <3>4. QED
      BY <1>1, <2>1, <3>1, <3>2, <3>3
  <2>3. PICK p \in Products : TRUE
    BY <1>1
  <2>4. IsFiniteSet(Deducted')
    BY <1>1, <2>1, GoneGrows DEF Accounted
  <2>5. QED
    BY <2>2, <2>4 DEF Accounted, Balanced, Gone, KeysOf, Amounts
<1>4. QED
  BY <1>2, <1>3

(***************************************************************************)
(* What is left of a product and what was deducted of it make up its       *)
(* initial stock, and the stock is never below zero, whatever requests     *)
(* race for the last piece and wherever the process dies.                  *)
(***************************************************************************)
THEOREM StockBalances == Spec => []Balanced
<1>1. Init => Accounted
  <2> SUFFICES ASSUME Init PROVE Accounted
    OBVIOUS
  <2>1. Deducted = {}
    BY DEF Init, Deducted
  <2>2. \A p \in Products : {k \in Deducted : ProductOf[k.request] = p} = {}
    BY <2>1
  <2>3. \A p \in Products : stock[p] \in Nat /\ stock[p] = InitialStock[p]
    BY OmborAssumption DEF Init
  <2>4. QED
    BY <2>1, <2>2, <2>3, SumEmpty, FS_EmptySet DEF Accounted, Balanced
<1>2. TypeOK /\ Accounted /\ [Next]_vars => Accounted'
  <2> SUFFICES ASSUME TypeOK, Accounted, [Next]_vars PROVE Accounted'
    OBVIOUS
  <2>1. CASE UNCHANGED <<stock, taken>>
    BY <2>1 DEF Accounted, Balanced, Deducted
  <2>2. ASSUME NEW h \in Slots, Serve(h), ~Deduct(h) PROVE UNCHANGED <<stock, taken>>
    BY <2>2 DEF Serve, Session, Login, LookUpCode, CommitLogin, Enter, CommitLogout, StartDeduct,
       FinishDeduct, history
  <2>3. ASSUME NEW a \in Admins, Manage(a) PROVE UNCHANGED <<stock, taken>>
    BY <2>3 DEF Manage
  <2>4. QED
    BY <2>1, <2>2, <2>3, DeductBalances DEF Next, vars, history, ForgetResult, ForgetFailure, Restart
<1>3. Accounted => Balanced
  BY DEF Accounted
<1>4. QED
  BY <1>1, <1>2, <1>3, TypeCorrect, PTL DEF Spec
-----------------------------------------------------------------------------
(***************************************************************************)
(* Links.  They appear only in CommitLogin, for a store that has a row,    *)
(* and go with the row.                                                    *)
(***************************************************************************)
LEMMA LinksStep == TypeOK /\ NoDanglingLink /\ [Next]_vars => NoDanglingLink'
  <1> SUFFICES ASSUME TypeOK, NoDanglingLink, [Next]_vars PROVE NoDanglingLink'
    OBVIOUS
  <1> USE DEF NoDanglingLink
  <1>1. ASSUME NEW h \in Slots, Serve(h), ~CommitLogin(h), ~CommitLogout(h)
        PROVE  UNCHANGED <<open, link>>
    BY <1>1 DEF Serve, Session, Login, LookUpCode, Enter, StartDeduct, Deduct, FinishDeduct,
                storeVars
  <1>2. ASSUME NEW h \in Slots, CommitLogin(h) \/ CommitLogout(h) PROVE NoDanglingLink'
    BY <1>2 DEF CommitLogin, CommitLogout, storeVars, TypeOK, StoreType
  <1>3. ASSUME NEW a \in Admins, AdminStep(a) PROVE NoDanglingLink'
    <2>1. ASSUME NEW t \in Stores, CreateStore(a, t) \/ Revoke(a, t) PROVE NoDanglingLink'
      BY <2>1 DEF CreateStore, Revoke, storeVars, TypeOK, StoreType
    <2>2. CASE Delete(a)
      BY <2>2 DEF Delete, TypeOK, StoreType
    <2>3. ASSUME \/ \E t \in Stores : Stats(a, t) \/ Regenerate(a, t) \/ Remove(a, t)
                 \/ \E t \in Stores, p \in Products : PutOnSale(a, p, t)
                 \/ ClearCode(a) \/ EnsureCode(a) \/ AnswerCode(a) \/ Hide(a)
          PROVE  UNCHANGED <<open, link>>
      BY <2>3 DEF Stats, Regenerate, Remove, PutOnSale, ClearCode, EnsureCode, AnswerCode,
                  Hide, storeVars
    <2> QED BY <1>3, <2>1, <2>2, <2>3 DEF AdminStep
  <1>4. ASSUME \/ \E k \in Key : ForgetResult(k)
               \/ \E s \in Sellers : ForgetFailure(s)
               \/ Restart \/ UNCHANGED vars
        PROVE  UNCHANGED <<open, link>>
    BY <1>4 DEF ForgetResult, ForgetFailure, Restart, vars, storeVars
  <1> QED BY <1>1, <1>2, <1>3, <1>4 DEF Next, Manage

(***************************************************************************)
(* No seller is linked to a store that is gone.                            *)
(***************************************************************************)
THEOREM LinksLive == Spec => []NoDanglingLink
  <1>1. Init => NoDanglingLink
    BY StoreAssumption DEF Init, InitStore, NoDanglingLink
  <1> QED BY <1>1, TypeCorrect, LinksStep, PTL DEF Spec
-----------------------------------------------------------------------------
(***************************************************************************)
(* Sellers who were cut off.  Besides what RevokedStaysOut says, none of   *)
(* them is on the way to log in: Login takes his name off the list, and    *)
(* who has a login under way does not get on it.                           *)
(***************************************************************************)
Entering(h) == slot[h].op \in {"login", "found"}

KeptOut ==
  /\ RevokedStaysOut
  /\ \A b \in barred, h \in Slots : Entering(h) => slot[h].seller # b[1]

(***************************************************************************)
(* A step keeps them out when it gives a link or a request only to a       *)
(* seller and a store that are not on the list.                            *)
(***************************************************************************)
LEMMA KeptOutFrame ==
  ASSUME KeptOut, barred' \subseteq barred,
         \A b \in barred' : link'[b[1]] # link[b[1]] => link'[b[1]] # b[2],
         \A g \in Slots, b \in barred' :
           slot'[g] # slot[g] /\ slot'[g].op # "idle" =>
             /\ g \notin passed' => <<slot'[g].seller, slot'[g].store>> # b
             /\ slot'[g].op \in {"login", "found"} => slot'[g].seller # b[1],
         \A g \in passed \ passed' : slot'[g] # slot[g] \/ slot'[g].op = "idle"
  PROVE  KeptOut'
  BY DEF KeptOut, RevokedStaysOut, Entering

(***************************************************************************)
(* Cutting sellers off keeps them out as well: none of them has a login    *)
(* under way, and the requests they have are past the guard.               *)
(***************************************************************************)
LEMMA KeptOutCut ==
  ASSUME TypeOK, KeptOut, NEW S \in SUBSET Sellers, CutOff(S),
         \A x \in S : link[x] # NoStore /\ link'[x] = NoStore,
         \A x \in Sellers : link'[x] \in {link[x], NoStore},
         \A g \in Slots : slot'[g] = slot[g] \/ slot'[g].op = "idle"
  PROVE  KeptOut'
  <1>1. NoStore \notin Stores /\ barred \subseteq Sellers \X Stores
    BY StoreAssumption DEF TypeOK
  <1>2. passed \subseteq passed'
    BY DEF CutOff
  <1>3. \A b \in barred' \ barred :
          /\ b[1] \in S /\ b[2] = link[b[1]]
          /\ \A h \in Slots : slot[h].seller = b[1] =>
               /\ slot[h].op \notin {"login", "found"}
               /\ slot[h].op # "idle" => h \in passed'
    BY DEF CutOff
  <1>4. \A b \in barred : b[1] \in Sellers /\ b[2] # NoStore
    BY <1>1
  <1>5. \A b \in barred' : link'[b[1]] # b[2]
    BY <1>3, <1>4 DEF KeptOut, RevokedStaysOut
  <1>6. \A b \in barred', h \in Slots :
          /\ h \notin passed' /\ slot[h].op # "idle" => <<slot[h].seller, slot[h].store>> # b
          /\ Entering(h) => slot[h].seller # b[1]
    BY <1>2, <1>3 DEF KeptOut, RevokedStaysOut, Entering
  <1> QED BY <1>5, <1>6 DEF KeptOut, RevokedStaysOut, Entering

(***************************************************************************)
(* Requests of the Mini App keep them out.                                 *)
(***************************************************************************)
LEMMA KeptOutServe ==
  ASSUME TypeOK, KeptOut, NEW h \in Slots, Serve(h)
  PROVE  KeptOut'
  <1>0. /\ slot \in [Slots -> Slot] /\ Free \in Slot /\ Free.op = "idle"
        /\ link \in [Sellers -> Stores \cup {NoStore}]
        /\ barred \subseteq Sellers \X Stores
    BY FreeIsSlot DEF TypeOK, StoreType
  <1>1. ASSUME NEW d \in InitData, Session(h, d) PROVE KeptOut'
    BY <1>1, KeptOutFrame DEF Session, history
  <1>2. ASSUME NEW d \in InitData, NEW c \in Codes, Login(h, d, c) PROVE KeptOut'
    <2> DEFINE new == [Free EXCEPT !.op = "login", !.seller = d.user, !.code = c]
    <2>1. new.op = "login" /\ new.seller = d.user
      BY <1>0 DEF Slot
    <2>2. slot' = [slot EXCEPT ![h] = new] /\ barred' = {b \in barred : b[1] # d.user}
          /\ UNCHANGED <<link, passed>>
      BY <1>2 DEF Login
    <2> HIDE DEF new
    <2>3. \A g \in Slots : slot'[g] # slot[g] => slot'[g] = new
      BY <1>0, <2>2
    <2>4. \A b \in barred' : b[1] # d.user
      BY <2>2
    <2> QED BY <2>1, <2>2, <2>3, <2>4, KeptOutFrame
  <1>3. ASSUME LookUpCode(h) PROVE KeptOut'
    <2>1. slot[h].op = "login" /\ UNCHANGED <<link, barred, passed>>
      BY <1>3 DEF LookUpCode, history
    <2>2. \A b \in barred : slot[h].seller # b[1]
      BY <2>1 DEF KeptOut, Entering
    <2>3. \A g \in Slots : slot'[g] # slot[g] =>
            slot'[g].op = "idle" \/ slot'[g].seller = slot[h].seller
      BY <1>0, <1>3 DEF LookUpCode, Slot
    <2> QED BY <1>0, <2>1, <2>2, <2>3, KeptOutFrame
  <1>4. ASSUME CommitLogin(h) PROVE KeptOut'
    <2>1. /\ slot[h].op = "found" /\ UNCHANGED <<barred, passed>>
          /\ \A s \in Sellers \ {slot[h].seller} : link'[s] = link[s]
          /\ \A g \in Slots : slot'[g] # slot[g] => slot'[g].op = "idle"
      BY <1>0, <1>4 DEF CommitLogin, history
    <2>2. \A b \in barred : slot[h].seller # b[1] /\ b[1] \in Sellers
      BY <1>0, <2>1 DEF KeptOut, Entering
    <2> QED BY <2>1, <2>2, KeptOutFrame
  <1>5. ASSUME NEW op \in {"logout", "deduct"}, NEW s \in Sellers, NEW t \in Stores,
               NEW r \in Requests, Enter(h, op, s, t, r)
        PROVE  KeptOut'
    <2> DEFINE new == [Free EXCEPT !.op = op, !.seller = s, !.store = t, !.request = r]
    <2>1. new.op = op /\ new.seller = s /\ new.store = t
      BY <1>0 DEF Slot
    <2>2. /\ slot' = [slot EXCEPT ![h] = new] /\ UNCHANGED <<link, barred>> /\ link[s] = t
          /\ passed' = passed \ {h} /\ slot[h].op = "idle"
      BY <1>5 DEF Enter, Arrive, Authorized
    <2> HIDE DEF new
    <2>3. \A g \in Slots : slot'[g] # slot[g] => slot'[g] = new
      BY <1>0, <2>2
    <2>4. \A b \in barred : <<s, t>> # b
      BY <2>2 DEF KeptOut, RevokedStaysOut
    <2>5. slot'[h] = new /\ slot'[h] # slot[h]
      BY <1>0, <2>1, <2>2
    <2> QED BY <2>1, <2>2, <2>3, <2>4, <2>5, KeptOutFrame
  <1>6. ASSUME CommitLogout(h) PROVE KeptOut'
    <2> DEFINE s == slot[h].seller
               t == slot[h].store
               S == {x \in {s} : link[x] = t}
    <2>1. s \in Sellers /\ t \in Stores /\ NoStore \notin Stores
      BY <1>0, StoreAssumption DEF Slot
    <2>2. /\ link' = [link EXCEPT ![s] = IF @ = t THEN NoStore ELSE @]
          /\ slot' = [slot EXCEPT ![h] = Free]
          /\ CutOff(S)
      BY <1>6 DEF CommitLogout
    <2> HIDE DEF s, t
    <2>3. /\ \A x \in Sellers : link'[x] \in {link[x], NoStore}
          /\ \A x \in S : link[x] # NoStore /\ link'[x] = NoStore
      BY <1>0, <2>1, <2>2
    <2>4. \A g \in Slots : slot'[g] = slot[g] \/ slot'[g].op = "idle"
      BY <1>0, <2>2
    <2>5. S \in SUBSET Sellers
      BY <2>1
    <2> HIDE DEF S
    <2> QED BY <2>2, <2>3, <2>4, <2>5, KeptOutCut
  <1>7. ASSUME StartDeduct(h) \/ Deduct(h) \/ FinishDeduct(h) PROVE KeptOut'
    <2>1. UNCHANGED <<link, barred, passed>> /\ slot[h].op # "idle"
      BY <1>7 DEF StartDeduct, Deduct, FinishDeduct, history
    <2>2. \/ slot' = [slot EXCEPT ![h] = Free]
          \/ \E op \in {"txn", "done"} : slot' = [slot EXCEPT ![h].op = op]
      BY <1>7 DEF StartDeduct, Deduct, FinishDeduct
    <2>3. \A g \in Slots : slot'[g] # slot[g] =>
            \/ slot'[g].op = "idle"
            \/ g = h /\ slot'[g].op \in {"txn", "done"}
               /\ slot'[g].seller = slot[h].seller /\ slot'[g].store = slot[h].store
      BY <1>0, <2>2 DEF Slot
    <2>4. h \notin passed => \A b \in barred : <<slot[h].seller, slot[h].store>> # b
      BY <2>1 DEF KeptOut, RevokedStaysOut
    <2> QED BY <2>1, <2>3, <2>4, KeptOutFrame
  <1>8. Free.request \in Requests
    BY <1>0 DEF Slot
  <1> QED BY <1>1, <1>2, <1>3, <1>4, <1>5, <1>6, <1>7, <1>8 DEF Serve

(***************************************************************************)
(* So do the admin, the clock and a restart.                               *)
(***************************************************************************)
LEMMA KeptOutStep == TypeOK /\ KeptOut /\ [Next]_vars => KeptOut'
  <1> SUFFICES ASSUME TypeOK, KeptOut, [Next]_vars PROVE KeptOut'
    OBVIOUS
  <1>1. ASSUME NEW a \in Admins, Manage(a) PROVE KeptOut'
    <2> DEFINE S == {s \in Sellers : link[s] # NoStore /\ link'[s] = NoStore}
    <2>1. /\ \A s \in Sellers : link'[s] \in {link[s], NoStore}
          /\ slot' = slot /\ CutOff(S) /\ S \in SUBSET Sellers
          /\ \A s \in S : link[s] # NoStore /\ link'[s] = NoStore
      BY <1>1, AdminTypes DEF Manage, TypeOK
    <2> HIDE DEF S
    <2> QED BY <2>1, KeptOutCut
  <1>2. ASSUME Restart PROVE KeptOut'
    <2>1. /\ \A g \in Slots : slot'[g].op = "idle"
          /\ UNCHANGED <<link, barred>> /\ passed \subseteq Slots
      BY <1>2, FreeIsSlot DEF Restart, TypeOK
    <2> QED BY <2>1, KeptOutFrame
  <1>3. ASSUME \/ \E k \in Key : ForgetResult(k)
               \/ \E s \in Sellers : ForgetFailure(s)
               \/ UNCHANGED vars
        PROVE  KeptOut'
    <2>1. UNCHANGED <<link, slot, barred, passed>>
      BY <1>3 DEF ForgetResult, ForgetFailure, vars, history
    <2> QED BY <2>1, KeptOutFrame
  <1> QED BY <1>1, <1>2, <1>3, KeptOutServe DEF Next

(***************************************************************************)
(* Who was cut off stays out until he logs in again.                       *)
(***************************************************************************)
THEOREM CutOffStays == Spec => []RevokedStaysOut
  <1>1. Init => KeptOut
    BY DEF Init, KeptOut, RevokedStaysOut
  <1>2. KeptOut => RevokedStaysOut
    BY DEF KeptOut
  <1> QED BY <1>1, <1>2, TypeCorrect, KeptOutStep, PTL DEF Spec
-----------------------------------------------------------------------------
(***************************************************************************)
(* Wrong codes.  A login in flight may add one, so those count as well: a  *)
(* login is admitted below the limit when at most all the other slots hold *)
(* another.  A seller who waits has no other.                              *)
(***************************************************************************)
LoggingIn(s) == {h \in Slots : slot[h].op = "login" /\ slot[h].seller = s}

OneByOne(s) ==
  /\ \A g, h \in Slots : /\ slot[g].op # "idle" /\ slot[g].seller = s
                         /\ slot[h].op # "idle" /\ slot[h].seller = s
                         => g = h
  /\ failures[s] <= MaxFailed
  /\ LoggingIn(s) # {} => failures[s] < MaxFailed

Limited ==
  \A s \in Sellers :
    /\ failures[s] + Cardinality(LoggingIn(s)) <= MaxFailed + Cardinality(Slots) - 1
    /\ s \in Patient => OneByOne(s)

(***************************************************************************)
(* How many of a seller's logins can be in flight.                         *)
(***************************************************************************)
LEMMA LoggingInBound ==
  \A s : /\ IsFiniteSet(LoggingIn(s)) /\ Cardinality(LoggingIn(s)) \in Nat
         /\ Cardinality(LoggingIn(s)) <= Cardinality(Slots)
         /\ Cardinality(Slots) \in Nat \ {0}
  <1> TAKE s
  <1>1. LoggingIn(s) \in SUBSET Slots /\ IsFiniteSet(Slots) /\ Slots # {}
    BY OmborAssumption DEF LoggingIn
  <1>2. IsFiniteSet(LoggingIn(s)) /\ Cardinality(LoggingIn(s)) <= Cardinality(Slots)
    BY <1>1, FS_Subset
  <1> QED BY <1>1, <1>2, FS_CardinalityType, FS_EmptySet

(***************************************************************************)
(* A step that admits no login and counts no wrong code keeps the limit,   *)
(* when sellers who wait still have one request each.                      *)
(***************************************************************************)
LEMMA LimitedFrame ==
  ASSUME TypeOK, Limited, failures' \in [Sellers -> Nat],
         \A s \in Sellers : failures'[s] <= failures[s],
         \A g \in Slots : slot'[g].op = "login" => slot'[g] = slot[g],
         \A s \in Patient : \A g, h \in Slots :
            /\ slot'[g].op # "idle" /\ slot'[g].seller = s
            /\ slot'[h].op # "idle" /\ slot'[h].seller = s
            => g = h
  PROVE  Limited'
  <1>1. ASSUME NEW s \in Sellers
        PROVE  failures'[s] + Cardinality(LoggingIn(s)') <= MaxFailed + Cardinality(Slots) - 1
    <2>1. LoggingIn(s)' \in SUBSET LoggingIn(s)
      BY DEF LoggingIn
    <2>2. Cardinality(LoggingIn(s)') <= Cardinality(LoggingIn(s))
          /\ Cardinality(LoggingIn(s)') \in Nat
      BY <2>1, LoggingInBound, FS_Subset, FS_CardinalityType
    <2>3. failures[s] + Cardinality(LoggingIn(s)) <= MaxFailed + Cardinality(Slots) - 1
          /\ failures[s] \in Nat /\ failures'[s] \in Nat /\ failures'[s] <= failures[s]
          /\ MaxFailed \in Nat
      BY OmborAssumption DEF Limited, TypeOK
    <2> QED BY <2>2, <2>3, LoggingInBound
  <1>2. ASSUME NEW s \in Patient PROVE OneByOne(s)'
    <2>0. s \in Sellers /\ OneByOne(s) /\ MaxFailed \in Nat
      BY OmborAssumption DEF Limited
    <2>1. failures'[s] <= failures[s] /\ failures[s] \in Nat /\ failures'[s] \in Nat
      BY <2>0 DEF TypeOK
    <2>2. LoggingIn(s)' # {} => LoggingIn(s) # {}
      BY DEF LoggingIn
    <2>3. failures'[s] <= MaxFailed /\ (LoggingIn(s)' # {} => failures'[s] < MaxFailed)
      BY <2>0, <2>1, <2>2 DEF OneByOne
    <2> QED BY <2>3 DEF OneByOne
  <1> QED BY <1>1, <1>2 DEF Limited

(***************************************************************************)
(* A request that advances or ends is not a new one.                       *)
(***************************************************************************)
LEMMA LimitedAdvance ==
  ASSUME TypeOK, Limited, failures' = failures,
         NEW h \in Slots, slot[h].op # "idle",
         \/ slot' = [slot EXCEPT ![h] = Free]
         \/ \E op \in {"txn", "done"} : slot' = [slot EXCEPT ![h].op = op]
  PROVE  Limited'
  <1>0. slot \in [Slots -> Slot] /\ Free.op = "idle"
    BY FreeIsSlot DEF TypeOK
  <1>1. \A g \in Slots : slot'[g] # slot[g] =>
          \/ slot'[g].op = "idle"
          \/ slot'[g].op \in {"txn", "done"} /\ slot'[g].seller = slot[g].seller
             /\ slot[g].op # "idle"
    BY <1>0 DEF Slot
  <1>2. failures' \in [Sellers -> Nat] /\ \A s \in Sellers : failures'[s] <= failures[s]
    BY DEF TypeOK
  <1>3. \A g \in Slots : slot'[g].op # "idle" =>
          slot[g].op # "idle" /\ slot'[g].seller = slot[g].seller
    BY <1>1
  <1>4. ASSUME NEW s \in Patient, NEW g \in Slots, NEW i \in Slots,
               slot'[g].op # "idle" /\ slot'[g].seller = s,
               slot'[i].op # "idle" /\ slot'[i].seller = s
        PROVE  g = i
    BY <1>3, <1>4, OmborAssumption DEF Limited, OneByOne
  <1>5. \A g \in Slots : slot'[g].op = "login" => slot'[g] = slot[g]
    BY <1>1
  <1> QED BY <1>2, <1>4, <1>5, LimitedFrame

(***************************************************************************)
(* A login is admitted below the limit only; so are the requests of who    *)
(* waits one by one.                                                       *)
(***************************************************************************)
LEMMA LimitedLogin ==
  ASSUME TypeOK, Limited, NEW h \in Slots, NEW d \in InitData, NEW c \in Codes,
         Login(h, d, c)
  PROVE  Limited'
  <1> DEFINE new == [Free EXCEPT !.op = "login", !.seller = d.user, !.code = c]
             u == d.user
  <1>0. /\ slot \in [Slots -> Slot] /\ failures \in [Sellers -> Nat]
        /\ MaxFailed \in Nat \ {0} /\ u \in Sellers
    BY OmborAssumption DEF TypeOK, InitData
  <1>1. new.op = "login" /\ new.seller = u
    BY FreeIsSlot DEF Slot
  <1>2. /\ slot' = [slot EXCEPT ![h] = new] /\ failures' = failures
        /\ slot[h].op = "idle" /\ failures[u] < MaxFailed
        /\ u \in Patient => ~Busy(u)
    BY DEF Login, Arrive, memory
  <1> HIDE DEF new, u
  <1>3. slot'[h] = new /\ \A g \in Slots \ {h} : slot'[g] = slot[g]
    BY <1>0, <1>2
  <1>4. ASSUME NEW s \in Sellers
        PROVE  failures'[s] + Cardinality(LoggingIn(s)') <= MaxFailed + Cardinality(Slots) - 1
    <2>1. CASE s = u
      <3>1. LoggingIn(s)' \in SUBSET Slots /\ IsFiniteSet(Slots)
        BY OmborAssumption DEF LoggingIn
      <3>2. Cardinality(LoggingIn(s)') <= Cardinality(Slots)
            /\ Cardinality(LoggingIn(s)') \in Nat /\ Cardinality(Slots) \in Nat
        BY <3>1, FS_Subset, FS_CardinalityType
      <3> QED BY <1>0, <1>2, <2>1, <3>2
    <2>2. CASE s # u
      <3>1. LoggingIn(s)' = LoggingIn(s)
        BY <1>1, <1>2, <1>3, <2>2 DEF LoggingIn
      <3> QED BY <1>2, <3>1 DEF Limited
    <2> QED BY <2>1, <2>2
  <1>5. ASSUME NEW s \in Patient PROVE OneByOne(s)'
    <2>1. s \in Sellers /\ OneByOne(s)
      BY <1>5, OmborAssumption DEF Limited
    <2>2. CASE s = u
      <3>1. \A g \in Slots : slot'[g].op # "idle" /\ slot'[g].seller = s => g = h
        BY <1>2, <1>3, <1>5, <2>2 DEF Busy
      <3>2. failures'[s] < MaxFailed /\ failures'[s] <= MaxFailed
        BY <1>0, <1>2, <2>2
      <3> QED BY <3>1, <3>2 DEF OneByOne
    <2>3. CASE s # u
      <3>1. \A g \in Slots : slot'[g].op # "idle" /\ slot'[g].seller = s =>
                              slot[g].op # "idle" /\ slot[g].seller = s
        BY <1>1, <1>3, <2>3
      <3>2. LoggingIn(s)' = LoggingIn(s)
        BY <1>1, <1>2, <1>3, <2>3 DEF LoggingIn
      <3> QED BY <1>2, <2>1, <3>1, <3>2 DEF OneByOne
    <2> QED BY <2>2, <2>3
  <1> QED BY <1>4, <1>5 DEF Limited

(***************************************************************************)
(* A wrong code takes the place of the login that brought it.              *)
(***************************************************************************)
LEMMA LimitedLookUp ==
  ASSUME TypeOK, Limited, NEW h \in Slots, LookUpCode(h)
  PROVE  Limited'
  <1>1. slot \in [Slots -> Slot] /\ slot[h].seller \in Sellers
    BY DEF TypeOK, Slot
  <1>2. PICK u \in Sellers : u = slot[h].seller
    BY <1>1
  <1>3. /\ slot \in [Slots -> Slot] /\ failures \in [Sellers -> Nat] /\ Free.op = "idle"
        /\ MaxFailed \in Nat \ {0} /\ u = slot[h].seller /\ slot[h].op = "login"
    BY <1>2, FreeIsSlot, OmborAssumption DEF TypeOK, Slot, LookUpCode
  <1>4. \/ failures' = [failures EXCEPT ![u] = @ + 1]
        \/ failures' = [failures EXCEPT ![u] = 0]
    BY <1>2 DEF LookUpCode
  <1>5. /\ slot'[h].op \in {"idle", "found"}
        /\ slot'[h].op = "idle" \/ slot'[h].seller = u
        /\ \A g \in Slots \ {h} : slot'[g] = slot[g]
    BY <1>3 DEF LookUpCode, Slot
  <1>6. \A g \in Slots : slot'[g].op # "idle" =>
          slot[g].op # "idle" /\ slot'[g].seller = slot[g].seller
    BY <1>3, <1>5
  <1>7. h \in LoggingIn(u) /\ LoggingIn(u)' = LoggingIn(u) \ {h}
    BY <1>3, <1>5 DEF LoggingIn
  <1>8. \A s : s # u => LoggingIn(s)' = LoggingIn(s)
    BY <1>3, <1>5 DEF LoggingIn
  <1>9. /\ failures'[u] \in {failures[u] + 1, 0}
        /\ \A s \in Sellers : s # u => failures'[s] = failures[s]
    BY <1>3, <1>4
  <1>10. ASSUME NEW s \in Sellers
        PROVE  failures'[s] + Cardinality(LoggingIn(s)') <= MaxFailed + Cardinality(Slots) - 1
    <2>1. /\ failures[s] + Cardinality(LoggingIn(s)) <= MaxFailed + Cardinality(Slots) - 1
          /\ failures[s] \in Nat
      BY <1>3 DEF Limited
    <2>2. CASE s = u
      <3>1. Cardinality(LoggingIn(s)') = Cardinality(LoggingIn(s)) - 1
        BY <1>7, <2>2, LoggingInBound, FS_RemoveElement
      <3> QED BY <1>3, <1>9, <2>1, <2>2, <3>1, LoggingInBound
    <2>3. CASE s # u
      BY <1>8, <1>9, <2>1, <2>3
    <2> QED BY <2>2, <2>3
  <1>11. ASSUME NEW s \in Patient PROVE OneByOne(s)'
    <2>1. s \in Sellers /\ OneByOne(s)
      BY <1>11, OmborAssumption DEF Limited
    <2>2. \A g, i \in Slots : /\ slot'[g].op # "idle" /\ slot'[g].seller = s
                              /\ slot'[i].op # "idle" /\ slot'[i].seller = s
                              => g = i
      BY <1>6, <2>1 DEF OneByOne
    <2>3. CASE s = u
      <3>1. \A g \in LoggingIn(u) : g = h
        BY <1>3, <2>1, <2>3 DEF OneByOne, LoggingIn
      <3>2. LoggingIn(s)' = {}
        BY <1>7, <2>3, <3>1
      <3>3. failures[s] < MaxFailed
        BY <1>7, <2>1, <2>3 DEF OneByOne
      <3>4. failures'[s] <= MaxFailed
        BY <1>3, <1>9, <2>3, <3>3
      <3> QED BY <2>2, <3>2, <3>4 DEF OneByOne
    <2>4. CASE s # u
      <3>1. failures'[s] = failures[s] /\ LoggingIn(s)' = LoggingIn(s)
        BY <1>8, <1>9, <2>1, <2>4
      <3> QED BY <2>1, <2>2, <3>1 DEF OneByOne
    <2> QED BY <2>3, <2>4
  <1> QED BY <1>10, <1>11 DEF Limited

(***************************************************************************)
(* The other requests leave the count alone.                               *)
(***************************************************************************)
LEMMA LimitedServe ==
  ASSUME TypeOK, Limited, NEW h \in Slots, Serve(h)
  PROVE  Limited'
  <1>0. /\ slot \in [Slots -> Slot] /\ Free \in Slot /\ Patient \subseteq Sellers
        /\ failures \in [Sellers -> Nat] /\ \A s \in Sellers : failures[s] <= failures[s]
    BY FreeIsSlot, OmborAssumption DEF TypeOK
  <1>1. ASSUME NEW d \in InitData, Session(h, d) PROVE Limited'
    BY <1>1 DEF Session, memory, Limited, OneByOne, LoggingIn
  <1>2. ASSUME CommitLogin(h) \/ CommitLogout(h) \/ StartDeduct(h) \/ Deduct(h) \/ FinishDeduct(h)
        PROVE  Limited'
    <2>1. /\ failures' = failures /\ slot[h].op # "idle"
          /\ \/ slot' = [slot EXCEPT ![h] = Free]
             \/ \E op \in {"txn", "done"} : slot' = [slot EXCEPT ![h].op = op]
      BY <1>2 DEF CommitLogin, CommitLogout, StartDeduct, Deduct, FinishDeduct, memory
    <2> QED BY <2>1, LimitedAdvance
  <1>3. ASSUME NEW op \in {"logout", "deduct"}, NEW s \in Sellers, NEW t \in Stores,
               NEW r \in Requests, Enter(h, op, s, t, r)
        PROVE  Limited'
    <2> DEFINE new == [Free EXCEPT !.op = op, !.seller = s, !.store = t, !.request = r]
    <2>1. new.op = op /\ new.seller = s
      BY <1>0 DEF Slot
    <2>2. /\ slot' = [slot EXCEPT ![h] = new] /\ failures' = failures
          /\ slot[h].op = "idle" /\ (s \in Patient => ~Busy(s))
      BY <1>3 DEF Enter, Arrive, memory
    <2> HIDE DEF new
    <2>3. slot'[h] = new /\ \A g \in Slots \ {h} : slot'[g] = slot[g]
      BY <1>0, <2>2
    <2>4. ASSUME NEW x \in Patient, NEW g \in Slots, NEW i \in Slots,
                 slot'[g].op # "idle" /\ slot'[g].seller = x,
                 slot'[i].op # "idle" /\ slot'[i].seller = x
          PROVE  g = i
      <3>1. CASE x = s
        BY <2>1, <2>2, <2>3, <2>4, <3>1 DEF Busy
      <3>2. CASE x # s
        BY <1>0, <2>1, <2>3, <2>4, <3>2 DEF Limited, OneByOne
      <3> QED BY <3>1, <3>2
    <2>5. \A g \in Slots : slot'[g].op = "login" => slot'[g] = slot[g]
      BY <2>1, <2>3
    <2> QED BY <1>0, <2>2, <2>4, <2>5, LimitedFrame
  <1>4. Free.request \in Requests
    BY <1>0 DEF Slot
  <1> QED BY <1>1, <1>2, <1>3, <1>4, LimitedLogin, LimitedLookUp DEF Serve

(***************************************************************************)
(* Nor does anything else add to it.                                       *)
(***************************************************************************)
LEMMA LimitedStep == TypeOK /\ Limited /\ [Next]_vars => Limited'
  <1> SUFFICES ASSUME TypeOK, Limited, [Next]_vars PROVE Limited'
    OBVIOUS
  <1>0. /\ slot \in [Slots -> Slot] /\ Free.op = "idle" /\ Patient \subseteq Sellers
        /\ failures \in [Sellers -> Nat]
    BY FreeIsSlot, OmborAssumption DEF TypeOK
  <1>1. ASSUME UNCHANGED <<slot, failures>> PROVE Limited'
    BY <1>1 DEF Limited, OneByOne, LoggingIn
  <1>2. ASSUME NEW s \in Sellers, ForgetFailure(s) PROVE Limited'
    <2>1. /\ slot' = slot /\ failures[s] > 0
          /\ failures' = [failures EXCEPT ![s] = @ - 1]
      BY <1>2 DEF ForgetFailure
    <2>2. failures' \in [Sellers -> Nat] /\ \A x \in Sellers : failures'[x] <= failures[x]
      BY <1>0, <2>1
    <2>3. \A x \in Patient : \A g, h \in Slots :
            /\ slot'[g].op # "idle" /\ slot'[g].seller = x
            /\ slot'[h].op # "idle" /\ slot'[h].seller = x
            => g = h
      BY <1>0, <2>1 DEF Limited, OneByOne
    <2> QED BY <2>1, <2>2, <2>3, LimitedFrame
  <1>3. ASSUME Restart PROVE Limited'
    <2>1. /\ \A g \in Slots : slot'[g].op = "idle"
          /\ failures' = [s \in Sellers |-> 0]
      BY <1>0, <1>3 DEF Restart
    <2>2. failures' \in [Sellers -> Nat] /\ \A x \in Sellers : failures'[x] <= failures[x]
      BY <1>0, <2>1
    <2> QED BY <2>1, <2>2, LimitedFrame
  <1>4. ASSUME \/ \E a \in Admins : Manage(a)
               \/ \E k \in Key : ForgetResult(k)
               \/ UNCHANGED vars
        PROVE  UNCHANGED <<slot, failures>>
    BY <1>4 DEF Manage, ForgetResult, vars, memory
  <1> QED BY <1>1, <1>2, <1>3, <1>4, LimitedServe DEF Next

(***************************************************************************)
(* The wrong codes a seller really entered and not the map of them: the    *)
(* map forgets them only when it is cleared, and each time it forgets no   *)
(* more than the limit.                                                    *)
(***************************************************************************)
Counted ==
  \A s \in Sellers :
    /\ failures[s] <= wrong[s]
    /\ wrong[s] <= LimitOf(s) * renewed[s] + failures[s]

(***************************************************************************)
(* The map stays below the limit, which is a number.                       *)
(***************************************************************************)
LEMMA FailuresBounded ==
  ASSUME TypeOK, Limited, NEW s \in Sellers
  PROVE  LimitOf(s) \in Nat /\ failures[s] \in Nat /\ failures[s] <= LimitOf(s)
  <1>1. failures[s] \in Nat /\ MaxFailed \in Nat \ {0}
    BY OmborAssumption DEF TypeOK
  <1> QED BY <1>1, LoggingInBound DEF Limited, OneByOne, LimitOf

(***************************************************************************)
(* One more clearing allows for as many more wrong codes.                  *)
(***************************************************************************)
LEMMA OnceMore == ASSUME NEW l \in Nat, NEW n \in Nat
                  PROVE  l * (n + 1) = l * n + l /\ l * n \in Nat
  OBVIOUS

(***************************************************************************)
(* The wrong codes of one seller, after a clearing of the map.             *)
(***************************************************************************)
LEMMA CountCleared ==
  ASSUME TypeOK, Limited, Counted, NEW s \in Sellers,
         failures'[s] = 0, wrong'[s] = wrong[s], renewed'[s] = Cleared(s)
  PROVE  failures'[s] <= wrong'[s] /\ wrong'[s] <= LimitOf(s) * renewed'[s] + failures'[s]
  <1>1. /\ LimitOf(s) \in Nat /\ failures[s] \in Nat /\ failures[s] <= LimitOf(s)
        /\ renewed[s] \in Nat /\ wrong[s] \in Int
        /\ failures[s] <= wrong[s] /\ wrong[s] <= LimitOf(s) * renewed[s] + failures[s]
    BY FailuresBounded DEF Counted, TypeOK
  <1>2. /\ LimitOf(s) * (renewed[s] + 1) = LimitOf(s) * renewed[s] + LimitOf(s)
        /\ LimitOf(s) * renewed[s] \in Nat
    BY <1>1, OnceMore
  <1>3. CASE failures[s] > 0
    <2>1. renewed'[s] = renewed[s] + 1
      BY <1>3 DEF Cleared
    <2> QED BY <1>1, <1>2, <2>1
  <1>4. CASE ~(failures[s] > 0)
    <2>1. renewed'[s] = renewed[s] /\ failures[s] = 0
      BY <1>1, <1>4 DEF Cleared
    <2> QED BY <1>1, <2>1
  <1> QED BY <1>3, <1>4

(***************************************************************************)
(* Wrong codes are counted one by one, and only a right code or a restart  *)
(* clears the map.                                                         *)
(***************************************************************************)
LEMMA CountedStep == TypeOK /\ Limited /\ Counted /\ [Next]_vars => Counted'
  <1> SUFFICES ASSUME TypeOK, Limited, Counted, [Next]_vars PROVE Counted'
    OBVIOUS
  <1>0. /\ failures \in [Sellers -> Nat] /\ wrong \in [Sellers -> Int]
        /\ renewed \in [Sellers -> Nat]
    BY DEF TypeOK
  <1>1. \A s : LimitOf(s)' = LimitOf(s)
    BY DEF LimitOf
  <1>2. ASSUME UNCHANGED <<failures, attempts>> PROVE Counted'
    BY <1>1, <1>2 DEF Counted, attempts
  <1>3. ASSUME NEW u \in Sellers, NEW d \in {1, -1},
               failures' = [failures EXCEPT ![u] = @ + d],
               wrong' = [wrong EXCEPT ![u] = @ + d], renewed' = renewed
        PROVE  Counted'
    <2> SUFFICES ASSUME NEW s \in Sellers
                 PROVE  /\ failures'[s] <= wrong'[s]
                        /\ wrong'[s] <= LimitOf(s) * renewed'[s] + failures'[s]
      BY <1>1 DEF Counted
    <2>1. /\ LimitOf(s) * renewed[s] \in Nat /\ failures[s] <= wrong[s]
          /\ wrong[s] <= LimitOf(s) * renewed[s] + failures[s]
      BY <1>0, FailuresBounded, OnceMore DEF Counted
    <2>2. LimitOf(s) * renewed'[s] = LimitOf(s) * renewed[s]
      BY <1>3
    <2>3. \/ failures'[s] = failures[s] /\ wrong'[s] = wrong[s]
          \/ failures'[s] = failures[s] + d /\ wrong'[s] = wrong[s] + d
      BY <1>0, <1>3
    <2> QED BY <1>0, <2>1, <2>2, <2>3
  <1>4. ASSUME NEW h \in Slots, LookUpCode(h) PROVE Counted'
    <2>1. slot[h].seller \in Sellers
      BY DEF TypeOK, Slot
    <2>2. PICK u \in Sellers : u = slot[h].seller
      BY <2>1
    <2>3. CASE /\ failures' = [failures EXCEPT ![u] = @ + 1]
               /\ wrong' = [wrong EXCEPT ![u] = @ + 1] /\ renewed' = renewed
      BY <1>3, <2>3
    <2>4. CASE /\ failures' = [failures EXCEPT ![u] = 0]
               /\ renewed' = [renewed EXCEPT ![u] = Cleared(u)] /\ wrong' = wrong
      <3> SUFFICES ASSUME NEW s \in Sellers
                   PROVE  /\ failures'[s] <= wrong'[s]
                          /\ wrong'[s] <= LimitOf(s) * renewed'[s] + failures'[s]
        BY <1>1 DEF Counted
      <3>1. CASE s = u
        <4>1. failures'[s] = 0 /\ wrong'[s] = wrong[s] /\ renewed'[s] = Cleared(s)
          BY <1>0, <2>4, <3>1
        <4> QED BY <4>1, CountCleared
      <3>2. CASE s # u
        <4>1. failures'[s] = failures[s] /\ wrong'[s] = wrong[s] /\ renewed'[s] = renewed[s]
          BY <1>0, <2>4, <3>2
        <4> QED BY <4>1 DEF Counted
      <3> QED BY <3>1, <3>2
    <2> QED BY <1>4, <2>2, <2>3, <2>4 DEF LookUpCode
  <1>5. ASSUME NEW s \in Sellers, ForgetFailure(s) PROVE Counted'
    <2>1. failures' = [failures EXCEPT ![s] = @ + -1] /\ wrong' = [wrong EXCEPT ![s] = @ + -1]
      BY <1>0, <1>5 DEF ForgetFailure
    <2> QED BY <1>3, <1>5, <2>1 DEF ForgetFailure
  <1>6. ASSUME Restart PROVE Counted'
    <2>1. \A s \in Sellers :
            failures'[s] = 0 /\ wrong'[s] = wrong[s] /\ renewed'[s] = Cleared(s)
      BY <1>6 DEF Restart
    <2> QED BY <1>1, <2>1, CountCleared DEF Counted
  <1>7. ASSUME \/ \E h \in Slots : Serve(h) /\ ~LookUpCode(h)
               \/ \E a \in Admins : Manage(a)
               \/ \E k \in Key : ForgetResult(k)
               \/ UNCHANGED vars
        PROVE  UNCHANGED <<failures, attempts>>
    BY <1>7 DEF Serve, Session, Login, CommitLogin, Enter, CommitLogout, StartDeduct, Deduct,
                FinishDeduct, Manage, ForgetResult, vars, memory, history
  <1> QED BY <1>2, <1>4, <1>5, <1>6, <1>7 DEF Next

(***************************************************************************)
(* The limit of wrong codes, as they are entered, with any number of       *)
(* requests in flight: as many as the limit into the window, and again as  *)
(* many each time a right code or a restart clears the map.                *)
(***************************************************************************)
THEOREM LoginsLimited == Spec => []LoginsBounded
  <1>1. Init => Limited /\ Counted
    <2> SUFFICES ASSUME Init PROVE Limited /\ Counted
      OBVIOUS
    <2>1. failures = [s \in Sellers |-> 0] /\ \A h \in Slots : slot[h].op = "idle"
      BY FreeIsSlot DEF Init
    <2>2. \A s : LoggingIn(s) = {}
      BY <2>1 DEF LoggingIn
    <2>3. MaxFailed \in Nat \ {0} /\ Patient \subseteq Sellers
      BY OmborAssumption
    <2>4. Limited
      BY <2>1, <2>2, <2>3, LoggingInBound, FS_EmptySet DEF Limited, OneByOne
    <2>5. \A s \in Sellers : wrong[s] = 0 /\ renewed[s] = 0 /\ failures[s] = 0
      BY DEF Init
    <2>6. \A s : LimitOf(s) \in Nat
      BY <2>3, LoggingInBound DEF LimitOf
    <2>7. Counted
      BY <2>5, <2>6 DEF Counted
    <2> QED BY <2>4, <2>7
  <1>2. TypeOK /\ Limited /\ Counted => LoginsBounded
    <2> SUFFICES ASSUME TypeOK, Limited, Counted, NEW s \in Sellers
                 PROVE  /\ failures[s] <= wrong[s]
                        /\ wrong[s] <= LimitOf(s) * (1 + renewed[s])
      BY DEF LoginsBounded
    <2>1. /\ LimitOf(s) \in Nat /\ failures[s] \in Nat /\ failures[s] <= LimitOf(s)
          /\ renewed[s] \in Nat /\ wrong[s] \in Int
          /\ failures[s] <= wrong[s] /\ wrong[s] <= LimitOf(s) * renewed[s] + failures[s]
      BY FailuresBounded DEF Counted, TypeOK
    <2>2. /\ LimitOf(s) * (renewed[s] + 1) = LimitOf(s) * renewed[s] + LimitOf(s)
          /\ LimitOf(s) * renewed[s] \in Nat
      BY <2>1, OnceMore
    <2>3. 1 + renewed[s] = renewed[s] + 1
      BY <2>1
    <2> QED BY <2>1, <2>2, <2>3
  <1> QED BY <1>1, <1>2, TypeCorrect, LimitedStep, CountedStep, PTL DEF Spec
-----------------------------------------------------------------------------
(***************************************************************************)
(* The admin panel.  A store without a row has no code.  A store whose     *)
(* products have been hidden and whose row is about to go has products on  *)
(* sale only that were put there since.                                    *)
(***************************************************************************)
HiddenFirst ==
  \A a \in Admins : admin[a].op = "delete" =>
    \A p \in active \ strayed : owner[p] # admin[a].store

Panel ==
  /\ CodeShownIsStored
  /\ \A t \in Stores \ open : accessCode[t] = NoCode
  /\ OrphansHidden /\ HiddenFirst

(***************************************************************************)
(* A step that writes no code keeps the answers that are on their way, as  *)
(* long as no other request than an answered one ends.                     *)
(***************************************************************************)
LEMMA StillOnItsWay ==
  ASSUME NEW t, \A a \in Admins : admin[a].op = "answer" => admin'[a] = admin[a]
  PROVE  OnItsWay(t) \subseteq OnItsWay(t)'
  BY DEF OnItsWay

(***************************************************************************)
(* Every step of the panel keeps the codes known, whichever others are     *)
(* between two steps of theirs.                                            *)
(***************************************************************************)
LEMMA CodesKnown ==
  ASSUME StoreType, Panel, NEW a \in Admins, AdminStep(a)
  PROVE  CodeShownIsStored' /\ \A t \in Stores \ open' : accessCode'[t] = NoCode
  <1> DEFINE Known == CodeShownIsStored' /\ \A t \in Stores \ open' : accessCode'[t] = NoCode
  <1> USE DEF StoreType
  <1>0. AdminIdle.op = "idle"
    BY DEF AdminIdle
  <1>1. \A t \in open \ lost : accessCode[t] \in {NoCode} \cup shown[t] \cup OnItsWay(t)
    BY DEF Panel, CodeShownIsStored
  <1>2. \A t \in Stores \ open : accessCode[t] = NoCode
    BY DEF Panel
  <1>3. ASSUME UNCHANGED <<accessCode, shown, lost>>, open \subseteq open', open' \subseteq Stores,
               \A b \in Admins : admin[b].op = "answer" => admin'[b] = admin[b]
        PROVE  Known
    <2>1. \A t : OnItsWay(t) \subseteq OnItsWay(t)'
      BY <1>3, StillOnItsWay
    <2> QED BY <1>1, <1>2, <1>3, <2>1 DEF CodeShownIsStored
  <1>4. ASSUME NEW t \in Stores, CreateStore(a, t) PROVE Known
    BY <1>3, <1>4 DEF CreateStore, Ask
  <1>5. ASSUME NEW t \in Stores, Stats(a, t) PROVE Known
    <2>1. admin[a].op = "idle" /\ \A b \in Admins \ {a} : admin'[b] = admin[b]
      BY <1>5 DEF Stats, Ask, AnswerWith, Proceed
    <2> QED BY <1>3, <1>5, <2>1 DEF Stats, storeVars
  <1>6. ASSUME NEW t \in Stores, Regenerate(a, t) \/ Remove(a, t) PROVE Known
    <2>1. admin[a].op = "idle" /\ \A b \in Admins \ {a} : admin'[b] = admin[b]
      BY <1>6 DEF Regenerate, Remove, Ask, Proceed
    <2> QED BY <1>3, <1>6, <2>1 DEF Regenerate, Remove, storeVars
  <1>7. ASSUME NEW t \in Stores, Revoke(a, t) PROVE Known
    BY <1>3, <1>7 DEF Revoke, storeVars
  <1>8. ASSUME NEW t \in Stores, NEW p \in Products, PutOnSale(a, p, t) PROVE Known
    BY <1>3, <1>8 DEF PutOnSale
  <1>9. CASE Hide(a)
    <2>1. admin[a].op = "hide" /\ \A b \in Admins \ {a} : admin'[b] = admin[b]
      BY <1>9 DEF Hide, Proceed
    <2> QED BY <1>3, <1>9, <2>1 DEF Hide
  <1>10. CASE ClearCode(a)
    <2>1. admin[a].op = "clear" /\ \A b \in Admins \ {a} : admin'[b] = admin[b]
      BY <1>10 DEF ClearCode, Proceed, Answer
    <2>2. \A t : OnItsWay(t) \subseteq OnItsWay(t)'
      BY <2>1, StillOnItsWay
    <2>3. UNCHANGED <<open, lost>>
      BY <1>10 DEF ClearCode
    <2>4. \A t \in Stores : \/ accessCode'[t] = NoCode
                            \/ accessCode'[t] = accessCode[t] /\ shown'[t] = shown[t]
      BY <1>10 DEF ClearCode
    <2> QED BY <1>1, <1>2, <2>2, <2>3, <2>4 DEF CodeShownIsStored
  <1>11. CASE EnsureCode(a)
    <2> DEFINE t == admin[a].store
    <2>1. admin[a].op = "ensure" /\ \A b \in Admins \ {a} : admin'[b] = admin[b]
      BY <1>11 DEF EnsureCode, AnswerWith, Answer
    <2>2. \A u : OnItsWay(u) \subseteq OnItsWay(u)'
      BY <2>1, StillOnItsWay
    <2>3. UNCHANGED <<open, shown, lost>> /\ t \in Stores
      BY <1>11 DEF EnsureCode, AdminCall
    <2>4. CASE accessCode' = accessCode
      BY <1>1, <1>2, <2>2, <2>3, <2>4 DEF CodeShownIsStored
    <2>5. ASSUME t \in open, NEW c \in Codes, accessCode' = [accessCode EXCEPT ![t] = c],
                 AnswerWith(a, t, c)
          PROVE  Known
      <3>1. admin'[a] = [op |-> "answer", store |-> t, code |-> c]
        BY <2>5 DEF AnswerWith
      <3>2. \A u : u = t => c \in OnItsWay(u)'
        BY <3>1 DEF OnItsWay
      <3> HIDE DEF t
      <3>3. accessCode'[t] = c /\ \A u \in Stores \ {t} : accessCode'[u] = accessCode[u]
        BY <2>3, <2>5
      <3>4. ASSUME NEW u \in open \ lost
            PROVE  accessCode'[u] \in {NoCode} \cup shown'[u] \cup OnItsWay(u)'
        <4>1. CASE u = t
          BY <3>2, <3>3, <4>1
        <4>2. CASE u # t
          <5>1. u \in Stores /\ accessCode'[u] = accessCode[u] /\ shown'[u] = shown[u]
            BY <2>3, <3>3, <3>4, <4>2
          <5>2. accessCode[u] \in {NoCode} \cup shown[u] \cup OnItsWay(u)
            BY <1>1
          <5> QED BY <2>2, <5>1, <5>2
        <4> QED BY <4>1, <4>2
      <3>5. CodeShownIsStored'
        BY <2>3, <3>4 DEF CodeShownIsStored
      <3>6. \A u \in Stores \ open' : accessCode'[u] = NoCode
        BY <1>2, <2>3, <2>5, <3>3
      <3> QED BY <3>5, <3>6
    <2>6. \/ accessCode' = accessCode
          \/ t \in open /\ \E c \in Codes : /\ accessCode' = [accessCode EXCEPT ![t] = c]
                                           /\ AnswerWith(a, t, c)
      BY <1>11 DEF EnsureCode
    <2> HIDE DEF t
    <2> QED BY <2>4, <2>5, <2>6
  <1>12. CASE AnswerCode(a)
    <2> DEFINE t == admin[a].store
               c == admin[a].code
    <2>1. /\ admin[a].op = "answer" /\ t \in Stores /\ UNCHANGED <<open, accessCode>>
          /\ shown' = [shown EXCEPT ![t] = @ \cup {c}]
          /\ lost' = IF accessCode[t] = c THEN lost \ {t} ELSE lost
          /\ admin' = [admin EXCEPT ![a] = AdminIdle]
      BY <1>12 DEF AnswerCode, Answer, AdminCall
    <2>2. \A u : OnItsWay(u) \subseteq OnItsWay(u)' \cup (IF u = t THEN {c} ELSE {})
      BY <2>1 DEF OnItsWay
    <2> HIDE DEF t, c
    <2>3. /\ shown'[t] = shown[t] \cup {c}
          /\ \A u \in Stores \ {t} : shown'[u] = shown[u]
      BY <2>1
    <2>4. ASSUME NEW u \in open' \ lost'
          PROVE  accessCode'[u] \in {NoCode} \cup shown'[u] \cup OnItsWay(u)'
      <3>1. u \in open /\ (u \in lost => u = t /\ accessCode[t] = c)
        BY <2>1
      <3>2. CASE u \in lost
        BY <2>1, <2>3, <3>1, <3>2
      <3>3. CASE u \notin lost
        BY <1>1, <2>1, <2>2, <2>3, <3>1, <3>3
      <3> QED BY <3>2, <3>3
    <2> QED BY <1>2, <2>1, <2>4 DEF CodeShownIsStored
  <1>13. CASE Delete(a)
    <2>1. admin[a].op = "delete" /\ \A b \in Admins \ {a} : admin'[b] = admin[b]
      BY <1>13 DEF Delete, Answer
    <2>2. \A u : OnItsWay(u) \subseteq OnItsWay(u)'
      BY <2>1, StillOnItsWay
    <2>3. UNCHANGED <<shown, lost>> /\ open' \subseteq open
      BY <1>13 DEF Delete
    <2>4. \A u \in Stores : /\ accessCode'[u] \in {NoCode, accessCode[u]}
                            /\ u \in open \ open' => accessCode'[u] = NoCode
      BY <1>13 DEF Delete
    <2> QED BY <1>1, <1>2, <2>2, <2>3, <2>4 DEF CodeShownIsStored
  <1> QED BY <1>4, <1>5, <1>6, <1>7, <1>8, <1>9, <1>10, <1>11, <1>12, <1>13 DEF AdminStep

(***************************************************************************)
(* And products are hidden before their store goes.                        *)
(***************************************************************************)
LEMMA HidesFirst ==
  ASSUME StoreType, Panel, NEW a \in Admins, AdminStep(a)
  PROVE  OrphansHidden' /\ HiddenFirst'
  <1> DEFINE Fine == OrphansHidden' /\ HiddenFirst'
  <1> USE DEF StoreType, Panel, OrphansHidden, HiddenFirst
  <1>0. AdminIdle.op = "idle" /\ NoStore \notin Stores
    BY StoreAssumption DEF AdminIdle
  <1>1. ASSUME UNCHANGED <<owner, active, strayed>>, open \subseteq open',
               \A b \in Admins : admin'[b].op = "delete" => admin'[b] = admin[b]
        PROVE  Fine
    BY <1>1
  <1>2. ASSUME NEW t \in Stores, CreateStore(a, t) \/ Revoke(a, t) PROVE Fine
    BY <1>1, <1>2 DEF CreateStore, Revoke, Ask, storeVars
  <1>3. ASSUME NEW t \in Stores, Stats(a, t) \/ Regenerate(a, t) \/ Remove(a, t) PROVE Fine
    <2>1. \A b \in Admins : admin'[b].op = "delete" => admin'[b] = admin[b]
      BY <1>3 DEF Stats, Regenerate, Remove, AnswerWith, Proceed
    <2> QED BY <1>1, <1>3, <2>1 DEF Stats, Regenerate, Remove, storeVars
  <1>4. CASE ClearCode(a) \/ EnsureCode(a) \/ AnswerCode(a)
    <2>1. \A b \in Admins : admin'[b].op = "delete" => admin'[b] = admin[b]
      BY <1>0, <1>4 DEF ClearCode, EnsureCode, AnswerCode, AnswerWith, Proceed, Answer
    <2> QED BY <1>1, <1>4, <2>1 DEF ClearCode, EnsureCode, AnswerCode
  <1>5. ASSUME NEW t \in Stores, NEW p \in Products, PutOnSale(a, p, t) PROVE Fine
    <2>1. /\ t \in open /\ UNCHANGED <<open, admin>>
          /\ owner'[p] = t /\ \A q \in Products \ {p} : owner'[q] = owner[q]
          /\ active' = active \cup {p}
          /\ strayed' = IF \E b \in Admins : admin[b].op = "delete" /\ admin[b].store = t
                        THEN strayed \cup {p} ELSE strayed \ {p}
      BY <1>5 DEF PutOnSale
    <2> QED BY <2>1
  <1>6. CASE Hide(a)
    <2>1. /\ UNCHANGED <<open, strayed>>
          /\ active' = {p \in active : owner[p] # admin[a].store}
          /\ \A p \in active' : owner'[p] = owner[p]
          /\ admin'[a].store = admin[a].store /\ \A b \in Admins \ {a} : admin'[b] = admin[b]
      BY <1>6 DEF Hide, Proceed
    <2> QED BY <2>1
  <1>7. CASE Delete(a)
    <2> DEFINE t == admin[a].store
    <2>1. /\ admin[a].op = "delete" /\ admin'[a].op = "idle" /\ UNCHANGED <<active, strayed>>
          /\ \A b \in Admins \ {a} : admin'[b] = admin[b]
          /\ open' \in {open, open \ {t}}
          /\ \A p \in Products : owner[p] # t => owner'[p] = owner[p]
      BY <1>0, <1>7 DEF Delete, Answer
    <2>2. \A p \in active \ strayed : owner[p] # t
      BY <2>1
    <2> HIDE DEF t
    <2> QED BY <2>1, <2>2
  <1> QED BY <1>2, <1>3, <1>4, <1>5, <1>6, <1>7 DEF AdminStep

(***************************************************************************)
(* A crash takes the answers with it, and the stores they were for are     *)
(* `lost`; sellers do nothing here.                                        *)
(***************************************************************************)
LEMMA PanelStep == TypeOK /\ Panel /\ [Next]_vars => Panel'
  <1> SUFFICES ASSUME TypeOK, Panel, [Next]_vars PROVE Panel'
    OBVIOUS
  <1>1. ASSUME UNCHANGED <<storeVars, adminVars>> PROVE Panel'
    BY <1>1 DEF storeVars, adminVars, Panel, CodeShownIsStored, OnItsWay, OrphansHidden,
                HiddenFirst
  <1>2. ASSUME NEW a \in Admins, AdminStep(a) PROVE Panel'
    BY <1>2, CodesKnown, HidesFirst DEF Panel, TypeOK
  <1>3. ASSUME Restart PROVE Panel'
    <2>1. /\ UNCHANGED <<open, accessCode, shown, owner, active, strayed>>
          /\ lost' = lost \cup {t \in Stores : OnItsWay(t) # {}}
          /\ \A b \in Admins : admin'[b].op = "idle"
      BY <1>3 DEF Restart, AdminIdle
    <2>2. open \subseteq Stores
      BY DEF TypeOK, StoreType
    <2>3. CodeShownIsStored'
      BY <2>1, <2>2 DEF Panel, CodeShownIsStored
    <2> QED BY <2>1, <2>3 DEF Panel, OrphansHidden, HiddenFirst
  <1>4. ASSUME NEW h \in Slots, Serve(h) PROVE UNCHANGED <<storeVars, adminVars>>
    BY <1>4 DEF Serve, Session, Login, LookUpCode, CommitLogin, Enter, CommitLogout,
                StartDeduct, Deduct, FinishDeduct
  <1>5. ASSUME \/ \E k \in Key : ForgetResult(k)
               \/ \E s \in Sellers : ForgetFailure(s)
               \/ UNCHANGED vars
        PROVE  UNCHANGED <<storeVars, adminVars>>
    BY <1>5 DEF ForgetResult, ForgetFailure, vars
  <1> QED BY <1>1, <1>2, <1>3, <1>4, <1>5 DEF Next, Manage

(***************************************************************************)
(* The invariant of the panel holds in every reachable state.              *)
(***************************************************************************)
LEMMA AlwaysPanel == Spec => []Panel
  <1>1. Init => Panel
    BY StoreAssumption
       DEF Init, InitStore, Panel, CodeShownIsStored, OrphansHidden, HiddenFirst, AdminIdle
  <1> QED BY <1>1, TypeCorrect, PanelStep, PTL DEF Spec

(***************************************************************************)
(* The stored code was answered to an admin since it was set, is on its    *)
(* way to one, or a crash took the answer: whichever requests race.        *)
(***************************************************************************)
THEOREM ShownCodeWorks == Spec => []CodeShownIsStored
  <1>1. Panel => CodeShownIsStored
    BY DEF Panel
  <1> QED BY <1>1, AlwaysPanel, PTL

(***************************************************************************)
(* No product is on sale in a store that is gone, except one an admin put  *)
(* there between the two statements of another's remove.                   *)
(***************************************************************************)
THEOREM OrphansStayHidden == Spec => []OrphansHidden
  <1>1. Panel => OrphansHidden
    BY DEF Panel
  <1> QED BY <1>1, AlwaysPanel, PTL
=============================================================================
