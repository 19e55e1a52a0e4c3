---------------------------- MODULE AccountProofs ----------------------------
(***************************************************************************)
(* What module Account promises, for any users, numbers, codes and         *)
(* requests in flight.                                                     *)
(*                                                                         *)
(* A request is a read and a later write, so each invariant has a part     *)
(* about the requests in between: what a read has established must survive *)
(* whatever the others write.  Those parts are Earned (proofs of numbers), *)
(* Current (the same, for numbers used one request at a time), Counted     *)
(* (wrong entries), Fresh (codes) and Survivor (the admins).               *)
(***************************************************************************)
EXTENDS Account, FiniteSetTheorems, TLAPS

(***************************************************************************)
(* Where a request is executed, the slot holds it; the others stay.        *)
(***************************************************************************)
LEMMA FreeIsSlot == Free \in Slot /\ Free.op = "idle"
  BY AccountAssumption DEF Free, Slot, Codes, Channels

Kept(h) == \A g \in Slots \ {h} : slot'[g] = slot[g]

(***************************************************************************)
(* A request that begins takes its slot and leaves the others alone.       *)
(***************************************************************************)
LEMMA BeginTypes ==
  ASSUME slot \in [Slots -> Slot], requests \in Nat, NEW h \in Slots, NEW c \in Slot, Begin(h, c)
  PROVE  /\ slot' \in [Slots -> Slot] /\ requests' \in Nat
         /\ slot'[h] = c /\ Kept(h) /\ slot[h].op = "idle"
  <1> HIDE DEF Slot
  <1> QED BY DEF Begin, Kept, Busy

(***************************************************************************)
(* A request that returns frees its slot and leaves the others alone.      *)
(***************************************************************************)
LEMMA ReturnTypes ==
  ASSUME slot \in [Slots -> Slot], NEW h \in Slots, Return(h)
  PROVE  slot' \in [Slots -> Slot] /\ slot'[h] = Free /\ Kept(h)
  <1>1. Free \in Slot
    BY FreeIsSlot
  <1> HIDE DEF Slot
  <1> QED BY <1>1 DEF Return, Kept

(***************************************************************************)
(* A request that is executed is for a number or a user as its kind wants, *)
(* and the account it has created is there.  A code that is stored was     *)
(* drawn.                                                                  *)
(***************************************************************************)
Formed ==
  \A h \in Slots :
    /\ slot[h].op \in {"send", "right", "wrong", "register", "cleanup", "phone"} =>
         slot[h].phone \in Phones
    /\ slot[h].op \in {"code", "use", "login", "phone"} \cup Moderation =>
         slot[h].user \in Users
    /\ slot[h].op = "cleanup" => slot[h].user \in usedIds
    /\ slot[h].op \in {"right", "wrong", "use"} => slot[h].code \in 0 .. drawn

AllDrawn ==
  /\ \A p \in Phones : otp[p].code \in 0 .. drawn
  /\ \A u \in Users, ch \in Channels : user[u].code[ch] \in 0 .. drawn

Typed == TypeOK /\ Formed /\ AllDrawn

\* The requests that are about to use a code.
Using(c) == {h \in Slots : slot[h].op = "use" /\ slot[h].code = c}

(***************************************************************************)
(* What a request c knows when its read has let it pass.                   *)
(***************************************************************************)
Asked(c) ==
  \/ /\ c.op = "send" /\ c.phone \in Phones
     /\ UNCHANGED <<proved, tries, shared>>
  \/ /\ c.op = "right" /\ c.phone \in Phones
     /\ c.code = otp[c.phone].code /\ c.code \in 1 .. drawn
     /\ proved' = proved \cup {<<c.phone, c.code>>} /\ UNCHANGED <<tries, shared>>
  \/ /\ c.op = "wrong" /\ c.phone \in Phones /\ c.code \in 0 .. drawn
     /\ otp[c.phone].attempts < MaxAttempts
     /\ tries' = [tries EXCEPT ![c.phone] = @ + 1] /\ UNCHANGED <<proved, shared>>
  \/ /\ c.op = "register" /\ c.phone \in Phones
     /\ otp[c.phone].verified = "yes"
     /\ UNCHANGED <<proved, tries, shared>>
  \/ /\ c.op \in {"code", "login", "phone"} /\ c.user \in Users
     /\ c.op = "phone" => c.phone \in Phones
     /\ UNCHANGED <<proved, tries, shared>>
  \/ /\ c.op = "use" /\ c.user \in Users
     /\ c.code = user[c.user].code[c.channel] /\ c.code \in 1 .. drawn
     /\ shared' = IF Using(c.code) # {} THEN shared \cup {c.code} ELSE shared
     /\ UNCHANGED <<proved, tries>>
  \/ /\ c.op \in Moderation /\ c.user \in Users
     /\ \E a \in Admins \cap accounts : user[a].active /\ a # c.user
     /\ OneAdmin => \A g \in Slots : slot[g].op \notin Moderation
     /\ UNCHANGED <<proved, tries, shared>>

(***************************************************************************)
(* Every read that lets a request pass leaves it with what Asked says.     *)
(***************************************************************************)
LEMMA ReadAsks ==
  ASSUME Typed, NEW h \in Slots, Read(h)
  PROVE  /\ UNCHANGED <<tables, codeVars, sessions, uses>>
         /\ \E c \in Slot : Begin(h, c) /\ Asked(c)
  <1> DEFINE Goal == /\ UNCHANGED <<tables, codeVars, sessions, uses>>
                     /\ \E c \in Slot : Begin(h, c) /\ Asked(c)
  <1>0. Free \in Slot /\ drawn \in Codes /\ Codes = 0 .. MaxCodes /\ MaxCodes \in Nat
    BY FreeIsSlot, AccountAssumption DEF Typed, TypeOK, Codes
  <1> USE DEF history, Asked
  <1>1. ASSUME NEW p \in Phones, ReadForSend(h, p) PROVE Goal
    <2> DEFINE c == [Free EXCEPT !.op = "send", !.phone = p]
    <2>1. c \in Slot /\ c.op = "send" /\ c.phone = p
      BY <1>0 DEF Slot
    <2>2. Begin(h, c) /\ UNCHANGED <<tables, codeVars, sessions, history>>
      BY <1>1 DEF ReadForSend
    <2> HIDE DEF c
    <2> QED BY <2>1, <2>2
  <1>2. ASSUME NEW p \in Phones, ReadForRegister(h, p) PROVE Goal
    <2> DEFINE c == [Free EXCEPT !.op = "register", !.phone = p]
    <2>1. c \in Slot /\ c.op = "register" /\ c.phone = p
      BY <1>0 DEF Slot
    <2>2. /\ Begin(h, c) /\ otp[p].verified = "yes"
          /\ UNCHANGED <<tables, codeVars, sessions, history>>
      BY <1>2 DEF ReadForRegister
    <2> HIDE DEF c
    <2> QED BY <2>1, <2>2
  <1>3. ASSUME NEW p \in Phones, NEW n \in 0 .. drawn, ReadForVerify(h, p, n) PROVE Goal
    <2> DEFINE right == [Free EXCEPT !.op = "right", !.phone = p, !.code = n]
               wrong == [Free EXCEPT !.op = "wrong", !.phone = p, !.code = n]
    <2>0. n \in Codes
      BY <1>0
    <2>1. /\ right \in Slot /\ right.op = "right" /\ right.phone = p /\ right.code = n
          /\ wrong \in Slot /\ wrong.op = "wrong" /\ wrong.phone = p /\ wrong.code = n
      BY <1>0, <2>0 DEF Slot
    <2>2. /\ otp[p].code # 0 /\ otp[p].attempts < MaxAttempts
          /\ UNCHANGED <<tables, codeVars, sessions, uses, shared>>
          /\ \/ /\ n = otp[p].code /\ Begin(h, right)
                /\ proved' = proved \cup {<<p, n>>} /\ tries' = tries
             \/ /\ Begin(h, wrong)
                /\ tries' = [tries EXCEPT ![p] = @ + 1] /\ proved' = proved
      BY <1>3 DEF ReadForVerify
    <2> HIDE DEF right, wrong
    <2>3. ASSUME n = otp[p].code PROVE n \in 1 .. drawn
      BY <1>0, <2>2, <2>3
    <2> QED BY <2>1, <2>2, <2>3
  <1>4. ASSUME NEW u \in Users, NEW p \in Phones, ReadForPhone(h, u, p) PROVE Goal
    <2> DEFINE c == [Free EXCEPT !.op = "phone", !.user = u, !.phone = p]
    <2>1. c \in Slot /\ c.op = "phone" /\ c.user = u /\ c.phone = p
      BY <1>0 DEF Slot
    <2>2. Begin(h, c) /\ UNCHANGED <<tables, codeVars, sessions, history>>
      BY <1>4 DEF ReadForPhone
    <2> HIDE DEF c
    <2> QED BY <2>1, <2>2
  <1>5. ASSUME NEW u \in Users, NEW ch \in Channels, ReadForCode(h, u, ch) PROVE Goal
    <2> DEFINE c == [Free EXCEPT !.op = "code", !.user = u, !.channel = ch]
    <2>1. c \in Slot /\ c.op = "code" /\ c.user = u
      BY <1>0 DEF Slot
    <2>2. Begin(h, c) /\ UNCHANGED <<tables, codeVars, sessions, history>>
      BY <1>5 DEF ReadForCode
    <2> HIDE DEF c
    <2> QED BY <2>1, <2>2
  <1>6. ASSUME NEW u \in Users, NEW ch \in Channels, ReadForUse(h, u, ch) PROVE Goal
    <2> DEFINE n == user[u].code[ch]
               c == [Free EXCEPT !.op = "use", !.user = u, !.channel = ch, !.code = n]
    <2>0. n \in Codes /\ n \in 1 .. drawn
      BY <1>0, <1>6 DEF ReadForUse, Typed, AllDrawn
    <2> HIDE DEF n
    <2>1. /\ c \in Slot /\ c.op = "use" /\ c.user = u /\ c.channel = ch /\ c.code = n
      BY <1>0, <2>0 DEF Slot
    <2>2. /\ Begin(h, c) /\ UNCHANGED <<tables, codeVars, sessions, proved, tries, uses>>
          /\ shared' = IF Using(n) # {} THEN shared \cup {n} ELSE shared
      BY <1>6 DEF ReadForUse, Using, n
    <2> HIDE DEF c
    <2> QED BY <2>0, <2>1, <2>2 DEF n
  <1>7. ASSUME NEW u \in Users, NEW w \in Passwords, ReadForLogin(h, u, w) PROVE Goal
    <2> DEFINE c == [Free EXCEPT !.op = "login", !.user = u]
    <2>1. c \in Slot /\ c.op = "login" /\ c.user = u
      BY <1>0 DEF Slot
    <2>2. Begin(h, c) /\ UNCHANGED <<tables, codeVars, sessions, history>>
      BY <1>7 DEF ReadForLogin
    <2> HIDE DEF c
    <2> QED BY <2>1, <2>2
  <1>8. ASSUME NEW u \in Users, NEW a \in Admins, NEW op \in Moderation, ReadForAdmin(h, a, u, op)
        PROVE  Goal
    <2> DEFINE c == [Free EXCEPT !.op = op, !.user = u]
    <2>1. c \in Slot /\ c.op = op /\ c.user = u
      BY <1>0 DEF Slot
    <2>2. /\ Begin(h, c) /\ UNCHANGED <<tables, codeVars, sessions, history>>
          /\ a \in Admins \cap accounts /\ user[a].active /\ a # u
          /\ OneAdmin => \A g \in Slots : slot[g].op \notin Moderation
      BY <1>8 DEF ReadForAdmin, Authorized
    <2> HIDE DEF c
    <2> QED BY <2>1, <2>2
  <1> QED BY <1>1, <1>2, <1>3, <1>4, <1>5, <1>6, <1>7, <1>8 DEF Read

(***************************************************************************)
(* A write takes up its request, and one that does not register changes    *)
(* only what it is for.                                                    *)
(***************************************************************************)
LEMMA CommitTakes ==
  ASSUME Typed, NEW h \in Slots, Commit(h)
  PROVE  /\ slot' \in [Slots -> Slot] /\ Kept(h) /\ requests' = requests
         /\ slot[h].op # "idle"
         /\ \/ slot'[h] = Free
            \/ /\ CommitRegister(h)
               /\ slot'[h].op = "cleanup" /\ slot'[h].phone = slot[h].phone
               /\ slot'[h].user \in usedIds'
         /\ UNCHANGED <<proved, shared>> /\ drawn' \in {drawn, drawn + 1}
         /\ drawn' \in Codes /\ drawn <= drawn' /\ expired' = expired
  <1> USE DEF history, codeVars, Moderation
  <1>0. slot \in [Slots -> Slot] /\ drawn \in Nat /\ drawn \in Codes /\ MaxCodes \in Nat
    BY AccountAssumption DEF Typed, TypeOK, Codes
  <1>1. CASE CommitRegister(h)
    <2>0. /\ slot[h].op # "idle"
          /\ UNCHANGED <<proved, shared, drawn, expired, requests>>
      BY <1>1 DEF CommitRegister
    <2>1. ASSUME Return(h) PROVE slot' \in [Slots -> Slot] /\ Kept(h) /\ slot'[h] = Free
      BY <1>0, <2>1, ReturnTypes
    <2>2. ASSUME NEW u \in Users \ usedIds, usedIds' = usedIds \cup {u},
                 slot' = [slot EXCEPT ![h].op = "cleanup", ![h].user = u]
          PROVE  /\ slot' \in [Slots -> Slot] /\ Kept(h)
                 /\ slot'[h].op = "cleanup" /\ slot'[h].phone = slot[h].phone
                 /\ slot'[h].user \in usedIds'
      BY <1>0, <2>2 DEF Kept, Slot
    <2>3. \/ Return(h)
          \/ \E u \in Users \ usedIds :
               /\ usedIds' = usedIds \cup {u}
               /\ slot' = [slot EXCEPT ![h].op = "cleanup", ![h].user = u]
      BY <1>1 DEF CommitRegister
    <2> QED BY <1>0, <1>1, <2>0, <2>1, <2>2, <2>3
  <1>2. ASSUME Return(h) PROVE slot' \in [Slots -> Slot] /\ Kept(h) /\ slot'[h] = Free
    BY <1>0, <1>2, ReturnTypes
  <1>3. CASE CommitSend(h) \/ CommitCode(h)
    BY <1>0, <1>2, <1>3 DEF CommitSend, CommitCode, Codes, tables, SetOtp, SetUser
  <1>4. CASE CommitVerify(h) \/ Cleanup(h) \/ CommitUse(h) \/ CommitLogin(h) \/ CommitPhone(h)
             \/ CommitActive(h) \/ CommitRemove(h)
    <2>1. /\ slot[h].op # "idle" /\ Return(h)
          /\ UNCHANGED <<proved, shared, drawn, expired, requests>>
      BY <1>4 DEF CommitVerify, Cleanup, CommitUse, CommitLogin, CommitPhone,
                  CommitActive, CommitRemove
    <2> QED BY <1>0, <1>2, <2>1
  <1> QED BY <1>1, <1>3, <1>4 DEF Commit

\* The row e is r with its code of a channel set, alone or in one write with
\* the mark of a verified number or with a new password.
Edited(e, r, ch, k) ==
  \/ e = [r EXCEPT !.code[ch] = k]
  \/ e = [r EXCEPT !.phoneVerified = TRUE, !.code[ch] = k]
  \/ \E w \in Passwords : e = [r EXCEPT !.password = w, !.code[ch] = k]

(***************************************************************************)
(* A row whose code is set, alone or with the number marked verified or    *)
(* with a new password, is a row and keeps its numbers and its blocking.   *)
(***************************************************************************)
LEMMA RowEdited ==
  ASSUME NEW r \in User, NEW ch \in Channels, NEW k \in Codes,
         NEW e, Edited(e, r, ch, k)
  PROVE  e \in User /\ e.registered = r.registered /\ e.phone = r.phone /\ e.active = r.active
  <1>1. [r.code EXCEPT ![ch] = k] \in [Channels -> Codes]
    BY DEF User
  <1>2. CASE e = [r EXCEPT !.code[ch] = k]
    BY <1>1, <1>2 DEF User
  <1>3. CASE e = [r EXCEPT !.phoneVerified = TRUE, !.code[ch] = k]
    BY <1>1, <1>3 DEF User
  <1>4. ASSUME NEW w \in Passwords, e = [r EXCEPT !.password = w, !.code[ch] = k]
        PROVE  e \in User /\ e.registered = r.registered /\ e.phone = r.phone
               /\ e.active = r.active
    BY <1>1, <1>4 DEF User
  <1> QED BY <1>2, <1>3, <1>4 DEF Edited

(***************************************************************************)
(* What a write that does not register does to the columns: no account     *)
(* appears, no registered number changes, and each column changes only in  *)
(* the write that is about it.                                             *)
(***************************************************************************)
LEMMA CommitColumns ==
  ASSUME Typed, NEW h \in Slots, Commit(h), ~CommitRegister(h)
  PROVE  /\ accounts' \subseteq accounts /\ usedIds' = usedIds
         /\ user' \in [Users -> User]
         /\ \A u \in Users : user'[u].registered = user[u].registered
         /\ CommitPhone(h) \/ \A u \in Users : user'[u].phone = user[u].phone
         /\ CommitActive(h) \/ \A u \in Users : user'[u].active = user[u].active
         /\ CommitCode(h) \/ CommitUse(h) \/ \A u \in Users : user'[u].code = user[u].code
  <1>0. user \in [Users -> User] /\ slot[h].phone \in Phones \cup {NoPhone}
        /\ slot[h].channel \in Channels
    BY DEF Typed, TypeOK, Slot
  <1>1. CASE CommitSend(h) \/ CommitVerify(h) \/ Cleanup(h) \/ CommitLogin(h) \/ CommitRemove(h)
    <2>1. UNCHANGED <<usedIds, user>> /\ accounts' \subseteq accounts
      BY <1>1 DEF CommitSend, CommitVerify, Cleanup, CommitLogin, CommitRemove, SetOtp, tables
    <2> QED BY <1>0, <2>1
  <1>2. CASE CommitCode(h)
    <2> DEFINE u == slot[h].user
               ch == slot[h].channel
    <2>1. \/ UNCHANGED <<accounts, usedIds, user>>
          \/ /\ u \in accounts /\ drawn < MaxCodes /\ UNCHANGED <<accounts, usedIds>>
             /\ \E r : Edited(r, user[u], ch, drawn + 1) /\ user' = [user EXCEPT ![u] = r]
      BY <1>2 DEF CommitCode, SetUser, tables, Edited
    <2>2. u \in accounts /\ drawn < MaxCodes => u \in Users /\ drawn + 1 \in Codes
      BY AccountAssumption DEF Typed, TypeOK, Codes
    <2>3. ASSUME u \in Users, drawn + 1 \in Codes, NEW r, Edited(r, user[u], ch, drawn + 1)
          PROVE  /\ r \in User /\ r.registered = user[u].registered
                 /\ r.phone = user[u].phone /\ r.active = user[u].active
      <3>1. user[u] \in User /\ ch \in Channels
        BY <1>0, <2>3
      <3> HIDE DEF u, ch
      <3> QED BY <2>3, <3>1, RowEdited
    <2> HIDE DEF u, ch
    <2> QED BY <1>0, <1>2, <2>1, <2>2, <2>3
  <1>3. CASE CommitUse(h)
    <2> DEFINE u == slot[h].user
               ch == slot[h].channel
    <2>1. 0 \in Codes
      BY AccountAssumption DEF Codes
    <2>2. u \in Users
      BY <1>3 DEF CommitUse, Formed, Typed
    <2>3. \/ UNCHANGED <<accounts, usedIds, user>>
          \/ /\ UNCHANGED <<accounts, usedIds>>
             /\ \E r : Edited(r, user[u], ch, 0) /\ user' = [user EXCEPT ![u] = r]
      BY <1>3 DEF CommitUse, SetUser, tables, Edited
    <2>4. ASSUME NEW r, Edited(r, user[u], ch, 0)
          PROVE  /\ r \in User /\ r.registered = user[u].registered
                 /\ r.phone = user[u].phone /\ r.active = user[u].active
      <3>1. user[u] \in User /\ ch \in Channels
        BY <1>0, <2>2
      <3> HIDE DEF u, ch
      <3> QED BY <2>1, <2>4, <3>1, RowEdited
    <2> HIDE DEF u, ch
    <2> QED BY <1>0, <1>3, <2>2, <2>3, <2>4
  <1> USE <1>0 DEF SetUser, tables, User, Channels
  <1>4. CASE CommitPhone(h)
    BY <1>4 DEF CommitPhone
  <1>5. CASE CommitActive(h)
    <2> DEFINE on == slot[h].op = "unblock"
    <2>1. on \in BOOLEAN
      OBVIOUS
    <2>2. \/ UNCHANGED tables
          \/ /\ user' = [user EXCEPT ![slot[h].user] = [user[slot[h].user] EXCEPT !.active = on]]
             /\ UNCHANGED <<accounts, usedIds>>
      BY <1>5 DEF CommitActive
    <2> HIDE DEF on
    <2> QED BY <1>5, <2>1, <2>2
  <1> QED BY <1>1, <1>2, <1>3, <1>4, <1>5 DEF Commit

(***************************************************************************)
(* What a write does to the PhoneOtp row of its number; other rows stay.   *)
(***************************************************************************)
Rewritten(h, p) ==
  \/ /\ slot[h].op = "send" /\ drawn' = drawn + 1 /\ tries'[p] = 0
     /\ otp'[p].code = drawn + 1 /\ otp'[p].attempts = 0 /\ otp'[p].verified = "no"
  \/ /\ slot[h].op = "wrong" /\ tries' = tries
     /\ otp'[p].code = otp[p].code /\ otp'[p].verified = otp[p].verified
     /\ otp'[p].attempts = otp[p].attempts + 1
  \/ /\ slot[h].op = "right" /\ tries' = tries
     /\ otp'[p].code = otp[p].code /\ otp'[p].verified = "yes" /\ otp'[p].attempts = 0
  \/ /\ slot[h].op = "cleanup" /\ tries' = tries
     /\ otp'[p].code = 0 /\ otp'[p].verified = "no" /\ otp'[p].attempts = 0

(***************************************************************************)
(* A write changes the row of no other number than its own.                *)
(***************************************************************************)
LEMMA CommitOtp ==
  ASSUME Typed, NEW h \in Slots, Commit(h)
  PROVE  /\ otp' \in [Phones -> Otp] /\ tries' \in [Phones -> Nat]
         /\ \A p \in Phones : \/ otp'[p] = otp[p] /\ tries'[p] = tries[p]
                              \/ p = slot[h].phone /\ Rewritten(h, p)
  <1>0. /\ otp \in [Phones -> Otp] /\ tries \in [Phones -> Nat]
        /\ drawn \in Codes /\ Codes = 0 .. MaxCodes /\ MaxCodes \in Nat
    BY AccountAssumption DEF Typed, TypeOK, Codes
  <1> USE DEF SetOtp, SetUser, history, tables, Moderation
  <1>1. CASE CommitSend(h)
    <2> DEFINE p == slot[h].phone
               new == [code |-> drawn + 1, attempts |-> 0, verified |-> "no", recent |-> TRUE]
    <2>1. /\ p \in Phones /\ slot[h].op = "send" /\ drawn' = drawn + 1 /\ drawn < MaxCodes
          /\ otp' = [otp EXCEPT ![p] = new] /\ tries' = [tries EXCEPT ![p] = 0]
      BY <1>1 DEF CommitSend, Formed, Typed
    <2>2. new \in Otp /\ new.code = drawn + 1 /\ new.attempts = 0 /\ new.verified = "no"
      BY <1>0, <2>1 DEF Otp
    <2> HIDE DEF p, new, Otp
    <2>3. otp'[p] = new /\ tries'[p] = 0
          /\ \A q \in Phones : q # p => otp'[q] = otp[q] /\ tries'[q] = tries[q]
      BY <1>0, <2>1
    <2>4. otp' \in [Phones -> Otp] /\ tries' \in [Phones -> Nat]
      BY <1>0, <2>1, <2>2
    <2> QED BY <2>1, <2>2, <2>3, <2>4 DEF Rewritten, p
  <1>2. CASE CommitVerify(h)
    <2> DEFINE p == slot[h].phone
               more == [otp[p] EXCEPT !.attempts = @ + 1]
               good == [otp[p] EXCEPT !.verified = "yes", !.attempts = 0]
    <2>1. /\ p \in Phones /\ slot[h].op \in {"wrong", "right"} /\ tries' = tries
          /\ \/ slot[h].op = "wrong" /\ otp' = [otp EXCEPT ![p] = more]
             \/ slot[h].op = "right" /\ otp' = [otp EXCEPT ![p] = good]
             \/ otp' = otp
      BY <1>2 DEF CommitVerify, Formed, Typed
    <2> HIDE DEF p
    <2>0. otp[p] \in Otp
      BY <1>0, <2>1
    <2>2. ASSUME NEW n \in Nat, n = otp[p].attempts
          PROVE  n + 1 \in Nat /\ [otp[p] EXCEPT !.attempts = n + 1] \in Otp
      BY <2>0, <2>2 DEF Otp
    <2>3. otp[p].attempts \in Nat
      BY <2>0 DEF Otp
    <2>4. /\ more \in Otp /\ more.code = otp[p].code
          /\ more.verified = otp[p].verified /\ more.attempts = otp[p].attempts + 1
      <3>1. more \in Otp
        BY <2>2, <2>3
      <3> QED BY <2>0, <3>1 DEF Otp
    <2>5. /\ good \in Otp /\ good.code = otp[p].code /\ good.verified = "yes" /\ good.attempts = 0
      BY <2>0 DEF Otp
    <2> HIDE DEF more, good, Otp
    <2> QED BY <1>0, <2>1, <2>4, <2>5 DEF Rewritten, p
  <1>3. CASE Cleanup(h)
    <2>1. /\ slot[h].op = "cleanup" /\ slot[h].phone \in Phones /\ tries' = tries
          /\ \/ otp' = [otp EXCEPT ![slot[h].phone] = NoOtp]
             \/ otp' = [otp EXCEPT ![slot[h].phone] = otp[slot[h].phone]]
      BY <1>3 DEF Cleanup, Formed, Typed
    <2>2. NoOtp \in Otp /\ NoOtp.code = 0 /\ NoOtp.verified = "no" /\ NoOtp.attempts = 0
      BY <1>0 DEF NoOtp, Otp
    <2> HIDE DEF Otp
    <2> QED BY <1>0, <2>1, <2>2 DEF Rewritten
  <1>4. CASE CommitRegister(h) \/ CommitCode(h) \/ CommitUse(h) \/ CommitLogin(h)
             \/ CommitPhone(h) \/ CommitActive(h) \/ CommitRemove(h)
    <2>1. UNCHANGED <<otp, tries>>
      BY <1>4 DEF CommitRegister, CommitCode, CommitUse, CommitLogin, CommitPhone,
                  CommitActive, CommitRemove
    <2> QED BY <1>0, <2>1
  <1> QED BY <1>1, <1>2, <1>3, <1>4 DEF Commit

(***************************************************************************)
(* Registration creates one account, with a new id, for a free number.     *)
(***************************************************************************)
LEMMA CommitCreates ==
  ASSUME Typed, NEW h \in Slots, CommitRegister(h)
  PROVE  /\ slot[h].op = "register" /\ UNCHANGED <<otp, tries, drawn, sessions, uses, proved>>
         /\ \/ UNCHANGED <<accounts, usedIds, user>>
            \/ \E u \in Users \ usedIds :
                 /\ accounts' = accounts \cup {u} /\ usedIds' = usedIds \cup {u}
                 /\ user' \in [Users -> User]
                 /\ \A v \in Users \ {u} : user'[v] = user[v]
                 /\ user'[u].phone = slot[h].phone /\ user'[u].registered = slot[h].phone
                 /\ \A ch \in Channels : user'[u].code[ch] = 0
                 /\ Owner(slot[h].phone) = {}
  <1> DEFINE p == slot[h].phone
             new == [NewUser(p, TRUE) EXCEPT !.registered = p]
  <1>0. user \in [Users -> User] /\ p \in Phones
    BY DEF Typed, TypeOK, CommitRegister, Formed
  <1>1. /\ new \in User /\ new.phone = p /\ new.registered = p
        /\ \A ch \in Channels : new.code[ch] = 0
    <2>1. 0 \in Codes
      BY AccountAssumption DEF Codes
    <2> QED BY <1>0, <2>1 DEF NewUser, User, Passwords, Channels
  <1>2. /\ slot[h].op = "register"
        /\ UNCHANGED <<otp, tries, drawn, sessions, uses, proved>>
        /\ \/ UNCHANGED <<accounts, usedIds, user>>
           \/ \E u \in Users \ usedIds :
                 /\ accounts' = accounts \cup {u} /\ usedIds' = usedIds \cup {u}
                 /\ user' = [user EXCEPT ![u] = new]
                 /\ Owner(p) = {}
    BY DEF CommitRegister, history, codeVars
  <1> HIDE DEF new, User
  <1> QED BY <1>0, <1>1, <1>2

(***************************************************************************)
(* What a write that does not register does to the codes in the accounts.  *)
(***************************************************************************)
CodesBecome(h, n) ==
  \A u \in Users, ch \in Channels :
    user'[u].code[ch] = IF u = slot[h].user /\ ch = slot[h].channel THEN n
                        ELSE user[u].code[ch]

(***************************************************************************)
(* A write that does not register uses a code, draws a new one, or leaves  *)
(* the codes in the accounts alone.                                        *)
(***************************************************************************)
LEMMA CommitCodes ==
  ASSUME Typed, NEW h \in Slots, Commit(h), ~CommitRegister(h)
  PROVE  \/ /\ slot[h].op = "use" /\ drawn' = drawn /\ CodesBecome(h, 0)
            /\ uses' = [uses EXCEPT ![slot[h].code] = @ + 1]
         \/ /\ slot[h].op = "code" /\ drawn' = drawn + 1 /\ uses' = uses
            /\ CodesBecome(h, drawn + 1)
         \/ /\ uses' = uses
            /\ \A u \in Users : user'[u].code = user[u].code
  <1>0. user \in [Users -> User] /\ slot[h].channel \in Channels
    BY DEF Typed, TypeOK, Slot
  <1>1. CASE CommitUse(h)
    <2> DEFINE u == slot[h].user
               ch == slot[h].channel
               verify == [user[u] EXCEPT !.phoneVerified = TRUE, !.code[ch] = 0]
               reset(w) == [user[u] EXCEPT !.password = w, !.code[ch] = 0]
    <2>1. u \in Users
      BY <1>1 DEF CommitUse, Formed, Typed
    <2>2. /\ \A d \in Channels : verify.code[d] = IF d = ch THEN 0 ELSE user[u].code[d]
          /\ \A w \in Passwords, d \in Channels :
               reset(w).code[d] = IF d = ch THEN 0 ELSE user[u].code[d]
      BY <1>0, <2>1 DEF User
    <2>3. \/ /\ user' = user /\ uses' = uses
          \/ /\ \/ user' = [user EXCEPT ![u] = verify]
                \/ \E w \in Passwords : user' = [user EXCEPT ![u] = reset(w)]
             /\ uses' = [uses EXCEPT ![slot[h].code] = @ + 1]
      BY <1>1 DEF CommitUse, SetUser, tables
    <2>4. slot[h].op = "use" /\ drawn' = drawn
      BY <1>1 DEF CommitUse, codeVars
    <2> HIDE DEF u, ch, verify, reset, User
    <2> QED BY <1>0, <2>1, <2>2, <2>3, <2>4 DEF CodesBecome, u, ch
  <1>2. CASE CommitCode(h)
    <2> DEFINE u == slot[h].user
               ch == slot[h].channel
               new == [user[u] EXCEPT !.code[ch] = drawn + 1]
    <2>1. u \in Users
      BY <1>2 DEF CommitCode, Formed, Typed
    <2>2. \A d \in Channels : new.code[d] = IF d = ch THEN drawn + 1 ELSE user[u].code[d]
      BY <1>0, <2>1 DEF User
    <2>3. \/ user' = user
          \/ user' = [user EXCEPT ![u] = new] /\ drawn' = drawn + 1
      BY <1>2 DEF CommitCode, SetUser, tables
    <2>4. slot[h].op = "code" /\ uses' = uses
      BY <1>2 DEF CommitCode, history
    <2> HIDE DEF u, ch, new, User
    <2> QED BY <1>0, <2>1, <2>2, <2>3, <2>4 DEF CodesBecome, u, ch
  <1>3. CASE ~CommitUse(h) /\ ~CommitCode(h)
    <2>1. uses' = uses
      BY <1>3 DEF Commit, CommitSend, CommitVerify, Cleanup, CommitLogin, CommitPhone,
                  CommitActive, CommitRemove, history
    <2> QED BY <1>3, <2>1, CommitColumns
  <1> QED BY <1>1, <1>2, <1>3

(***************************************************************************)
(* Every step leaves a well-formed state.                                  *)
(***************************************************************************)
LEMMA TypedStep == Typed /\ [Next]_vars => Typed'
  <1> SUFFICES ASSUME Typed, [Next]_vars PROVE Typed'
    OBVIOUS
  <1>0. /\ TypeOK /\ Formed /\ AllDrawn /\ Free.op = "idle"
        /\ slot \in [Slots -> Slot] /\ requests \in Nat /\ drawn \in Codes /\ drawn \in Nat
        /\ Codes = 0 .. MaxCodes /\ MaxCodes \in Nat
    BY FreeIsSlot, AccountAssumption DEF Typed, TypeOK, Codes
  <1>1. ASSUME NEW h \in Slots, Read(h) PROVE Typed'
    <2>1. PICK c \in Slot : Begin(h, c) /\ Asked(c)
      BY <1>1, ReadAsks
    <2>2. UNCHANGED <<accounts, usedIds, user, otp, drawn, expired, sessions, uses>>
      BY <1>1, ReadAsks DEF tables, codeVars
    <2>3. /\ slot' \in [Slots -> Slot] /\ requests' \in Nat
          /\ slot'[h] = c /\ Kept(h)
      BY <1>0, <2>1, BeginTypes
    <2>4. /\ proved' \subseteq Phones \X (1 .. drawn) /\ tries' \in [Phones -> Nat]
          /\ shared' \subseteq Codes
      <3>1. /\ proved \subseteq Phones \X (1 .. drawn) /\ tries \in [Phones -> Nat]
            /\ shared \subseteq Codes /\ 1 .. drawn \subseteq Codes
        BY <1>0 DEF TypeOK
      <3> QED BY <2>1, <3>1 DEF Asked
    <2>5. TypeOK'
      BY <1>0, <2>2, <2>3, <2>4 DEF TypeOK
    <2>6. /\ c.op \in {"send", "right", "wrong", "register", "cleanup", "phone"} =>
               c.phone \in Phones
          /\ c.op \in {"code", "use", "login", "phone"} \cup Moderation => c.user \in Users
          /\ c.op # "cleanup"
          /\ c.op \in {"right", "wrong", "use"} => c.code \in 0 .. drawn
      BY <1>0, <2>1 DEF Asked, Moderation
    <2>7. Formed'
      BY <1>0, <2>2, <2>3, <2>6 DEF Formed, Kept
    <2>8. AllDrawn'
      BY <1>0, <2>2 DEF AllDrawn
    <2> QED BY <2>5, <2>7, <2>8 DEF Typed
  <1>2. ASSUME NEW h \in Slots, Commit(h) PROVE Typed'
    <2>1. /\ slot' \in [Slots -> Slot] /\ Kept(h) /\ requests' = requests
          /\ \/ slot'[h] = Free
             \/ /\ CommitRegister(h) /\ slot'[h].op = "cleanup"
                /\ slot'[h].phone = slot[h].phone /\ slot'[h].user \in usedIds'
          /\ UNCHANGED <<proved, shared>> /\ drawn' \in Codes /\ drawn' \in Nat
          /\ drawn <= drawn' /\ drawn' \in {drawn, drawn + 1} /\ expired' = expired
      BY <1>0, <1>2, CommitTakes
    <2>2. /\ otp' \in [Phones -> Otp] /\ tries' \in [Phones -> Nat]
          /\ \A p \in Phones : otp'[p].code \in 0 .. drawn'
      <3>1. \A p \in Phones : otp[p].code \in 0 .. drawn /\ otp[p].code \in 0 .. drawn'
        BY <1>0, <2>1 DEF AllDrawn
      <3> QED BY <1>0, <1>2, <2>1, <3>1, CommitOtp DEF Rewritten
    <2>3. /\ usedIds \subseteq usedIds' /\ accounts' \subseteq usedIds' /\ usedIds' \subseteq Users
          /\ user' \in [Users -> User]
      <3>1. /\ accounts \subseteq usedIds /\ usedIds \subseteq Users /\ user \in [Users -> User]
        BY <1>0 DEF TypeOK
      <3>2. CASE CommitRegister(h)
        BY <3>1, <3>2, CommitCreates
      <3>3. CASE ~CommitRegister(h)
        BY <1>2, <3>1, <3>3, CommitColumns
      <3> QED BY <3>2, <3>3
    <2>4. sessions' \subseteq usedIds'
      <3>1. sessions \subseteq usedIds /\ accounts \subseteq usedIds
        BY <1>0 DEF TypeOK
      <3>2. CommitUse(h) => slot[h].user \in accounts \/ sessions' = sessions
        BY DEF CommitUse
      <3>3. Cleanup(h) => slot[h].user \in usedIds
        BY <1>0 DEF Cleanup, Formed
      <3>4. sessions' \subseteq sessions \cup usedIds
        BY <1>2, <3>1, <3>2, <3>3
        DEF Commit, CommitSend, CommitVerify, CommitRegister, Cleanup, CommitCode, CommitUse,
            CommitLogin, CommitPhone, CommitActive, CommitRemove
      <3> QED BY <2>3, <3>1, <3>4
    <2>5. uses' \in [Codes -> Nat]
      <3>1. uses \in [Codes -> Nat]
        BY <1>0 DEF TypeOK
      <3>2. CASE CommitRegister(h)
        BY <3>1, <3>2, CommitCreates
      <3>3. CASE ~CommitRegister(h)
        BY <1>2, <3>1, <3>3, CommitCodes
      <3> QED BY <3>2, <3>3
    <2>6. TypeOK'
      <3>1. /\ proved' \subseteq Phones \X (1 .. drawn') /\ expired' \subseteq 1 .. drawn'
            /\ shared' \subseteq Codes
        BY <1>0, <2>1 DEF TypeOK
      <3>2. requests' \in Nat
        BY <1>0, <2>1
      <3> QED BY <2>1, <2>2, <2>3, <2>4, <2>5, <3>1, <3>2 DEF TypeOK
    <2>7. Formed'
      <3>1. \A g \in Slots \ {h} : slot'[g] = slot[g]
        BY <2>1 DEF Kept
      <3>2. \A n \in 0 .. drawn : n \in 0 .. drawn'
        BY <1>0, <2>1
      <3>3. \/ slot'[h].op = "idle"
            \/ /\ slot'[h].op = "cleanup"
               /\ slot'[h].user \in usedIds' /\ slot'[h].phone \in Phones
        <4>1. CommitRegister(h) => slot[h].op = "register"
          BY DEF CommitRegister
        <4>2. CommitRegister(h) => slot[h].phone \in Phones
          BY <1>0, <4>1 DEF Formed
        <4>3. CASE slot'[h] = Free
          BY <1>0, <4>3
        <4>4. CASE slot'[h] # Free
          BY <2>1, <4>2, <4>4
        <4> QED BY <4>3, <4>4
      <3> QED BY <1>0, <2>3, <3>1, <3>2, <3>3 DEF Formed, Moderation
    <2>8. ASSUME NEW u \in Users, NEW ch \in Channels PROVE user'[u].code[ch] \in 0 .. drawn'
      <3>1. user[u].code[ch] \in 0 .. drawn /\ user[u].code[ch] \in 0 .. drawn'
        BY <1>0, <2>1 DEF AllDrawn
      <3>2. CASE CommitRegister(h)
        BY <1>0, <2>1, <3>1, <3>2, CommitCreates
      <3>3. CASE ~CommitRegister(h)
        BY <1>0, <1>2, <2>1, <3>1, <3>3, CommitCodes DEF CodesBecome
      <3> QED BY <3>2, <3>3
    <2> QED BY <2>2, <2>6, <2>7, <2>8 DEF Typed, AllDrawn
  <1>3. ASSUME NEW c \in Codes, Expire(c) PROVE Typed'
    BY <1>0, <1>3 DEF Expire, Typed, TypeOK, Formed, AllDrawn, tables, history
  <1>4. ASSUME NEW p \in Phones, Wait(p) PROVE Typed'
    <2>1. /\ otp' \in [Phones -> Otp] /\ \A q \in Phones : otp'[q].code = otp[q].code
          /\ UNCHANGED <<accounts, usedIds, user, drawn, expired, sessions, slot, proved, tries,
                         uses, shared, requests>>
      <3> DEFINE late == [otp[p] EXCEPT !.verified = "late"]
                 over == [otp[p] EXCEPT !.recent = FALSE]
      <3>1. otp \in [Phones -> Otp] /\ otp[p] \in Otp
        BY <1>0 DEF TypeOK
      <3>2. /\ late \in Otp /\ late.code = otp[p].code
            /\ over \in Otp /\ over.code = otp[p].code
        BY <3>1 DEF Otp
      <3>3. otp' = [otp EXCEPT ![p] = late] \/ otp' = [otp EXCEPT ![p] = over]
        BY <1>4 DEF Wait, SetOtp
      <3>4. UNCHANGED <<accounts, usedIds, user, drawn, expired, sessions, slot, proved, tries,
                        uses, shared, requests>>
        BY <1>4 DEF Wait, SetOtp, codeVars, history
      <3> HIDE DEF late, over, Otp
      <3> QED BY <3>1, <3>2, <3>3, <3>4
    <2> QED BY <1>0, <2>1 DEF Typed, TypeOK, Formed, AllDrawn
  <1>5. ASSUME UNCHANGED vars PROVE Typed'
    BY <1>0, <1>5 DEF vars, tables, codeVars, history, Typed, TypeOK, Formed, AllDrawn
  <1> QED BY <1>1, <1>2, <1>3, <1>4, <1>5 DEF Next

(***************************************************************************)
(* Types hold in every reachable state.                                    *)
(***************************************************************************)
LEMMA AlwaysTyped == Spec => []Typed
  <1>1. Init => Typed
    <2> SUFFICES ASSUME Init PROVE Typed
      OBVIOUS
    <2>0. 0 \in Codes /\ Free \in Slot /\ Free.op = "idle" /\ NoOtp \in Otp /\ NoOtp.code = 0
      BY FreeIsSlot, AccountAssumption DEF Codes, NoOtp, Otp
    <2>1. user \in [Users -> User] /\ \A u \in Users, ch \in Channels : user[u].code[ch] = 0
      <3>1. ASSUME NEW p \in Phones \cup {NoPhone}, NEW b \in BOOLEAN
            PROVE  NewUser(p, b) \in User /\ \A ch \in Channels : NewUser(p, b).code[ch] = 0
        BY <2>0 DEF NewUser, User, Passwords
      <3>2. \A u \in Users :
              (IF u \in Legacy THEN LegacyPhone[u] ELSE NoPhone) \in Phones \cup {NoPhone}
        BY AccountAssumption
      <3> HIDE DEF User
      <3> QED BY <3>1, <3>2 DEF Init
    <2>2. TypeOK
      <3> HIDE DEF User, Otp, Slot
      <3> QED BY <2>0, <2>1, AccountAssumption DEF Init, TypeOK
    <2>3. Formed
      BY <2>0 DEF Init, Formed, Moderation
    <2>4. AllDrawn
      BY <2>0, <2>1 DEF Init, AllDrawn
    <2> QED BY <2>2, <2>3, <2>4 DEF Typed
  <1> QED BY <1>1, TypedStep, PTL DEF Spec

(***************************************************************************)
(* The type invariant.                                                     *)
(***************************************************************************)
THEOREM TypeCorrect == Spec => []TypeOK
  <1>1. Typed => TypeOK
    BY DEF Typed
  <1> QED BY <1>1, AlwaysTyped, PTL
-----------------------------------------------------------------------------
(***************************************************************************)
(* The steps that are no write change neither accounts nor the state of a  *)
(* proof, and no request but a new one.                                    *)
(***************************************************************************)
LEMMA OtherSteps ==
  ASSUME Typed, [Next]_vars, ~\E h \in Slots : Read(h) \/ Commit(h)
  PROVE  /\ UNCHANGED <<accounts, usedIds, user, drawn, slot, proved, tries, uses, shared>>
         /\ \A p \in Phones : /\ otp'[p].code = otp[p].code
                              /\ otp'[p].attempts = otp[p].attempts
                              /\ otp'[p].verified = "no" <=> otp[p].verified = "no"
  <1> USE DEF SetOtp, tables, codeVars, history
  <1>1. ASSUME NEW p \in Phones, Wait(p)
        PROVE  /\ UNCHANGED <<accounts, usedIds, user, drawn, slot, proved, tries, uses, shared>>
               /\ \A q \in Phones : /\ otp'[q].code = otp[q].code
                                    /\ otp'[q].attempts = otp[q].attempts
                                    /\ otp'[q].verified = "no" <=> otp[q].verified = "no"
    <2> DEFINE late == [otp[p] EXCEPT !.verified = "late"]
               over == [otp[p] EXCEPT !.recent = FALSE]
    <2>1. otp \in [Phones -> Otp] /\ otp[p] \in Otp
      BY DEF Typed, TypeOK
    <2>2. /\ late.code = otp[p].code /\ late.attempts = otp[p].attempts
          /\ late.verified = "late"
          /\ over.code = otp[p].code /\ over.attempts = otp[p].attempts
          /\ over.verified = otp[p].verified
      BY <2>1 DEF Otp
    <2>3. \/ otp' = [otp EXCEPT ![p] = late] /\ otp[p].verified = "yes"
          \/ otp' = [otp EXCEPT ![p] = over]
      BY <1>1 DEF Wait
    <2> HIDE DEF late, over, Otp
    <2>4. \A q \in Phones : q # p => otp'[q] = otp[q]
      BY <2>1, <2>3
    <2>5. \/ otp'[p] = over
          \/ otp'[p] = late /\ otp[p].verified = "yes"
      BY <2>1, <2>3
    <2> QED BY <1>1, <2>2, <2>4, <2>5 DEF Wait
  <1>2. ASSUME \/ \E c \in Codes : Expire(c)
               \/ UNCHANGED vars
        PROVE  UNCHANGED <<accounts, usedIds, user, otp, drawn, slot, proved, tries, uses, shared>>
    BY <1>2 DEF Expire, vars
  <1> QED BY <1>1, <1>2 DEF Next

(***************************************************************************)
(* A read adds its request and nothing else.                               *)
(***************************************************************************)
LEMMA ReadAdds ==
  ASSUME Typed, NEW h \in Slots, Read(h)
  PROVE  /\ UNCHANGED <<accounts, usedIds, user, otp, drawn, uses>>
         /\ slot[h].op = "idle" /\ \A g \in Slots \ {h} : slot'[g] = slot[g]
         /\ Asked(slot'[h]) /\ slot'[h] \in Slot
         /\ slot'[h].phone \in Patient =>
              \A g \in Slots : Busy(g) => slot[g].phone # slot'[h].phone
  <1>1. PICK c \in Slot : Begin(h, c) /\ Asked(c)
    BY ReadAsks
  <1>2. slot'[h] = c /\ Kept(h) /\ slot[h].op = "idle"
    BY <1>1, BeginTypes DEF Typed, TypeOK
  <1>3. UNCHANGED <<accounts, usedIds, user, otp, drawn, uses>>
    BY ReadAsks DEF tables, codeVars
  <1>4. c.phone \in Patient => \A g \in Slots : Busy(g) => slot[g].phone # c.phone
    BY <1>1 DEF Begin
  <1> HIDE DEF Slot
  <1> QED BY <1>1, <1>2, <1>3, <1>4 DEF Kept

(***************************************************************************)
(* Only two writes give a number to an account, and both want it free.     *)
(***************************************************************************)
LEMMA UniqueStep == Typed /\ UniquePhones /\ [Next]_vars => UniquePhones'
  <1> SUFFICES ASSUME Typed, UniquePhones, [Next]_vars PROVE UniquePhones'
    OBVIOUS
  <1>0. accounts \subseteq usedIds /\ usedIds \subseteq Users /\ user \in [Users -> User]
    BY DEF Typed, TypeOK
  <1>1. ASSUME UNCHANGED <<accounts, user>> PROVE UniquePhones'
    BY <1>1 DEF UniquePhones
  <1>2. ASSUME NEW h \in Slots, Commit(h) PROVE UniquePhones'
    <2>1. CASE CommitRegister(h)
      <3>1. ASSUME NEW u \in Users \ usedIds, accounts' = accounts \cup {u},
                   \A v \in Users \ {u} : user'[v] = user[v],
                   user'[u].phone = slot[h].phone, Owner(slot[h].phone) = {}
            PROVE  UniquePhones'
        <4>1. \A v \in accounts : v # u /\ user'[v] = user[v] /\ user[v].phone # slot[h].phone
          BY <1>0, <3>1 DEF Owner
        <4> QED BY <3>1, <4>1 DEF UniquePhones
      <3> QED BY <1>1, <2>1, <3>1, CommitCreates
    <2>2. CASE CommitPhone(h)
      <3> DEFINE u == slot[h].user
                 p == slot[h].phone
                 new == [user[u] EXCEPT !.phone = p]
      <3>1. \/ UNCHANGED <<accounts, user>>
            \/ /\ u \in accounts /\ Owner(p) \subseteq {u}
               /\ accounts' = accounts /\ user' = [user EXCEPT ![u] = new]
        BY <2>2 DEF CommitPhone, SetUser, tables
      <3>2. u \in accounts => new.phone = p
        BY <1>0 DEF User
      <3> HIDE DEF u, p, new, User
      <3>3. ASSUME u \in accounts, Owner(p) \subseteq {u},
                   accounts' = accounts, user' = [user EXCEPT ![u] = new]
            PROVE  UniquePhones'
        <4>1. \A v \in accounts : v # u => user'[v] = user[v] /\ user[v].phone # p
          BY <1>0, <3>3 DEF Owner
        <4>2. user'[u].phone = p
          BY <1>0, <3>2, <3>3
        <4> QED BY <3>3, <4>1, <4>2 DEF UniquePhones
      <3> QED BY <1>1, <3>1, <3>3
    <2>3. CASE ~CommitRegister(h) /\ ~CommitPhone(h)
      BY <1>0, <1>2, <2>3, CommitColumns DEF UniquePhones
    <2> QED BY <2>1, <2>2, <2>3
  <1> QED BY <1>1, <1>2, ReadAdds, OtherSteps

(***************************************************************************)
(* No two accounts have one number.                                        *)
(***************************************************************************)
THEOREM NumbersUnique == Spec => []UniquePhones
  <1>1. Init => UniquePhones
    <2> SUFFICES ASSUME Init, NEW u \in accounts, NEW v \in accounts,
                        u # v, user[u].phone # NoPhone
                 PROVE  user[u].phone # user[v].phone
      BY DEF UniquePhones
    <2>1. \A x \in accounts :
            user[x].phone = IF x \in Legacy THEN LegacyPhone[x] ELSE NoPhone
      BY AccountAssumption DEF Init, NewUser
    <2> QED BY <2>1, AccountAssumption
  <1> QED BY <1>1, AlwaysTyped, UniqueStep, PTL DEF Spec
-----------------------------------------------------------------------------
(***************************************************************************)
(* Proofs of numbers.  A verified row, a request that saw one or that has  *)
(* entered the code, and a registered account all go back to a code that   *)
(* was entered right for that number; and proofs are never taken back.     *)
(***************************************************************************)
Entered(p) == \E c \in 1 .. drawn : <<p, c>> \in proved

Earned ==
  /\ \A p \in Phones : otp[p].verified # "no" => Entered(p)
  /\ \A h \in Slots : slot[h].op \in {"right", "register"} => Entered(slot[h].phone)
  /\ \A u \in accounts : user[u].registered # NoPhone => Entered(user[u].registered)

EnteredAfter(p) == \E c \in 1 .. drawn' : <<p, c>> \in proved'

(***************************************************************************)
(* A number whose code was entered once remains one: codes are not         *)
(* forgotten.                                                              *)
(***************************************************************************)
LEMMA EnteredStays ==
  ASSUME Typed, [Next]_vars, NEW p, Entered(p)
  PROVE  EnteredAfter(p)
  <1>1. drawn \in Nat
    BY AccountAssumption DEF Typed, TypeOK, Codes
  <1>2. ASSUME NEW h \in Slots, Read(h) PROVE drawn' = drawn /\ proved \subseteq proved'
    BY <1>2, ReadAdds DEF Asked
  <1>3. ASSUME NEW h \in Slots, Commit(h) PROVE drawn' \in {drawn, drawn + 1} /\ proved' = proved
    BY <1>3, CommitTakes
  <1> QED BY <1>1, <1>2, <1>3, OtherSteps DEF Entered, EnteredAfter

(***************************************************************************)
(* Every step keeps what was earned by entering a code.                    *)
(***************************************************************************)
LEMMA EarnedStep == Typed /\ Earned /\ [Next]_vars => Earned'
  <1> SUFFICES ASSUME Typed, Earned, [Next]_vars PROVE Earned'
    OBVIOUS
  <1>1. /\ accounts \subseteq Users /\ Free.op = "idle"
        /\ \A p : Entered(p) => EnteredAfter(p)
    BY FreeIsSlot, EnteredStays DEF Typed, TypeOK
  <1>2. ASSUME \A p \in Phones : otp'[p].verified # "no" => EnteredAfter(p),
               \A h \in Slots : slot'[h].op \in {"right", "register"} =>
                                 EnteredAfter(slot'[h].phone),
               \A u \in accounts' : user'[u].registered # NoPhone =>
                                     EnteredAfter(user'[u].registered)
        PROVE  Earned'
    BY <1>2 DEF Earned, Entered, EnteredAfter
  <1>3. ASSUME NEW h \in Slots, Read(h) PROVE Earned'
    <2>1. slot'[h].op \in {"right", "register"} => EnteredAfter(slot'[h].phone)
      <3>1. CASE slot'[h].op = "right"
        <4>1. <<slot'[h].phone, slot'[h].code>> \in proved' /\ slot'[h].code \in 1 .. drawn'
          BY <1>3, <3>1, ReadAdds DEF Asked, Moderation
        <4> QED BY <4>1 DEF EnteredAfter
      <3>2. CASE slot'[h].op = "register"
        <4>1. Entered(slot'[h].phone)
          BY <1>3, <3>2, ReadAdds DEF Asked, Moderation, Earned
        <4> QED BY <1>1, <4>1
      <3> QED BY <3>1, <3>2
    <2>2. /\ UNCHANGED <<accounts, user, otp>> /\ \A g \in Slots \ {h} : slot'[g] = slot[g]
      BY <1>3, ReadAdds
    <2> QED BY <1>1, <1>2, <2>1, <2>2 DEF Earned
  <1>4. ASSUME NEW h \in Slots, Commit(h) PROVE Earned'
    <2>1. \A p \in Phones : otp'[p].verified # "no" => Entered(p)
      BY <1>4, CommitOtp DEF Rewritten, Earned
    <2>2. \A g \in Slots : slot'[g].op \in {"right", "register"} => slot'[g] = slot[g]
      BY <1>1, <1>4, CommitTakes DEF Kept
    <2>3. \A u \in accounts' : user'[u].registered # NoPhone => Entered(user'[u].registered)
      <3>1. CASE CommitRegister(h)
        <4>1. Entered(slot[h].phone)
          BY <3>1, CommitCreates DEF Earned
        <4> QED BY <1>1, <3>1, <4>1, CommitCreates DEF Earned
      <3>2. CASE ~CommitRegister(h)
        BY <1>1, <1>4, <3>2, CommitColumns DEF Earned
      <3> QED BY <3>1, <3>2
    <2> QED BY <1>1, <1>2, <2>1, <2>2, <2>3 DEF Earned
  <1>5. ASSUME ~\E h \in Slots : Read(h) \/ Commit(h) PROVE Earned'
    BY <1>1, <1>2, <1>5, OtherSteps DEF Earned
  <1> QED BY <1>3, <1>4, <1>5

(***************************************************************************)
(* Nobody registers a number without a proof.                              *)
(***************************************************************************)
THEOREM RegistrationProven == Spec => []AccountsProven
  <1>1. Init => Earned
    <2> SUFFICES ASSUME Init PROVE Earned
      OBVIOUS
    <2>1. \A u \in accounts : user[u].registered = NoPhone
      BY AccountAssumption DEF Init, NewUser
    <2> QED BY <2>1, FreeIsSlot DEF Init, Earned, NoOtp
  <1>2. Earned => AccountsProven
    BY DEF Earned, AccountsProven, Entered
  <1> QED BY <1>1, <1>2, AlwaysTyped, EarnedStep, PTL DEF Spec
-----------------------------------------------------------------------------
(***************************************************************************)
(* Numbers used one request at a time.  While a right entry waits to be    *)
(* written, nothing replaces the code it was compared with.                *)
(***************************************************************************)
Alone ==
  \A g, h \in Slots :
    Busy(g) /\ Busy(h) /\ g # h => slot[g].phone \notin Patient \/ slot[h].phone # slot[g].phone

Current ==
  /\ Alone
  /\ VerifiedCurrent
  /\ \A h \in Slots : slot[h].op = "right" /\ slot[h].phone \in Patient =>
       <<slot[h].phone, otp[slot[h].phone].code>> \in proved

(***************************************************************************)
(* Every step leaves a patient number with one request at a time.          *)
(***************************************************************************)
LEMMA AloneStep == Typed /\ Alone /\ [Next]_vars => Alone'
  <1> SUFFICES ASSUME Typed, Alone, [Next]_vars PROVE Alone'
    OBVIOUS
  <1> USE DEF Alone, Busy
  <1>1. ASSUME NEW h \in Slots, Read(h) PROVE Alone'
    BY <1>1, ReadAdds
  <1>2. ASSUME NEW h \in Slots, Commit(h) PROVE Alone'
    <2>1. \A g \in Slots : slot'[g].op # "idle" =>
            slot[g].op # "idle" /\ slot'[g].phone = slot[g].phone
      BY <1>2, CommitTakes, FreeIsSlot DEF Kept
    <2> QED BY <2>1
  <1> QED BY <1>1, <1>2, OtherSteps

(***************************************************************************)
(* Every step keeps the verification with the code of the row: a new code  *)
(* resets it, and nobody else sends one while it is being written.         *)
(***************************************************************************)
LEMMA CurrentStep == Typed /\ Current /\ [Next]_vars => Current'
  <1> SUFFICES ASSUME Typed, Current, [Next]_vars PROVE Current'
    OBVIOUS
  <1>0. Alone' /\ Patient \subseteq Phones /\ Free.op = "idle"
    BY AloneStep, FreeIsSlot, AccountAssumption DEF Current
  <1>1. ASSUME NEW h \in Slots, Read(h) PROVE Current'
    <2>1. otp' = otp /\ proved \subseteq proved' /\ \A g \in Slots \ {h} : slot'[g] = slot[g]
      BY <1>1, ReadAdds DEF Asked
    <2>2. slot'[h].op = "right" => <<slot'[h].phone, otp[slot'[h].phone].code>> \in proved'
      BY <1>1, ReadAdds DEF Asked, Moderation
    <2> QED BY <1>0, <2>1, <2>2 DEF Current, VerifiedCurrent
  <1>2. ASSUME NEW h \in Slots, Commit(h) PROVE Current'
    <2>1. /\ proved' = proved /\ slot[h].op # "idle"
          /\ \A g \in Slots : slot'[g].op = "right" => g # h /\ slot'[g] = slot[g]
      BY <1>0, <1>2, CommitTakes DEF Kept
    <2>2. \A p \in Phones : \/ otp'[p] = otp[p]
                            \/ p = slot[h].phone /\ Rewritten(h, p)
      BY <1>2, CommitOtp
    <2>3. ASSUME NEW p \in Phones \cap Patient, otp'[p].verified # "no"
          PROVE  <<p, otp'[p].code>> \in proved
      <3>1. CASE otp'[p] = otp[p]
        BY <2>3, <3>1 DEF Current, VerifiedCurrent
      <3>2. CASE p = slot[h].phone /\ Rewritten(h, p)
        BY <2>3, <3>2 DEF Current, VerifiedCurrent, Rewritten
      <3> QED BY <2>2, <3>1, <3>2
    <2>4. ASSUME NEW g \in Slots, slot'[g].op = "right", slot'[g].phone \in Patient
          PROVE  <<slot'[g].phone, otp'[slot'[g].phone].code>> \in proved
      <3>1. g # h /\ slot'[g] = slot[g] /\ slot[g].phone \in Phones
        BY <1>0, <2>1, <2>4
      <3>2. slot[h].phone # slot[g].phone
        BY <2>1, <2>4, <3>1 DEF Current, Alone, Busy
      <3>3. otp'[slot[g].phone] = otp[slot[g].phone]
        BY <2>2, <3>1, <3>2
      <3> QED BY <2>4, <3>1, <3>3 DEF Current
    <2> QED BY <1>0, <2>1, <2>3, <2>4 DEF Current, VerifiedCurrent
  <1>3. ASSUME ~\E h \in Slots : Read(h) \/ Commit(h) PROVE Current'
    BY <1>0, <1>3, OtherSteps DEF Current, VerifiedCurrent
  <1> QED BY <1>1, <1>2, <1>3

(***************************************************************************)
(* The invariant of patient numbers holds in every reachable state.        *)
(***************************************************************************)
LEMMA AlwaysCurrent == Spec => []Current
  <1>1. Init => Current
    BY FreeIsSlot DEF Init, Current, Alone, Busy, VerifiedCurrent, NoOtp
  <1> QED BY <1>1, AlwaysTyped, CurrentStep, PTL DEF Spec

(***************************************************************************)
(* Such a number is verified with the code it has now.                     *)
(***************************************************************************)
THEOREM VerifiedWithCurrent == Spec => []VerifiedCurrent
  <1>1. Current => VerifiedCurrent
    BY DEF Current
  <1> QED BY <1>1, AlwaysCurrent, PTL
-----------------------------------------------------------------------------
(***************************************************************************)
(* Wrong entries.  Each was made below the limit, when at most the other   *)
(* slots held entries not counted yet; and the entries for a code that was *)
(* never right are counted, or about to be.                                *)
(***************************************************************************)
Wrong(p) == {h \in Slots : slot[h].op = "wrong" /\ slot[h].phone = p}

Limit(p) == IF p \in Patient THEN MaxAttempts ELSE MaxAttempts + Cardinality(Slots) - 1

Counted ==
  \A p \in Phones :
    /\ otp[p].attempts + Cardinality(Wrong(p)) <= Limit(p)
    /\ otp[p].code # 0 /\ otp[p].verified = "no" =>
         tries[p] <= otp[p].attempts + Cardinality(Wrong(p))

(***************************************************************************)
(* The wrong entries on their way are finitely many, and at most the       *)
(* slots.                                                                  *)
(***************************************************************************)
LEMMA WrongBound ==
  \A p : /\ IsFiniteSet(Wrong(p)) /\ Cardinality(Wrong(p)) \in Nat
         /\ Cardinality(Wrong(p)) <= Cardinality(Slots)
         /\ Cardinality(Slots) \in Nat \ {0}
  <1> TAKE p
  <1>1. Wrong(p) \in SUBSET Slots /\ IsFiniteSet(Slots) /\ Slots # {}
    BY AccountAssumption DEF Wrong
  <1>2. IsFiniteSet(Wrong(p)) /\ Cardinality(Wrong(p)) <= Cardinality(Slots)
    BY <1>1, FS_Subset
  <1> QED BY <1>1, <1>2, FS_CardinalityType, FS_EmptySet

(***************************************************************************)
(* When a send or a right entry for a number is written, the other entries *)
(* for it stay within its limit.                                           *)
(***************************************************************************)
LEMMA WrongFits ==
  ASSUME Typed, Alone, NEW h \in Slots, slot[h].op # "idle",
         NEW p \in Phones, p = slot[h].phone
  PROVE  Cardinality(Wrong(p) \ {h}) <= Limit(p)
  <1>0. MaxAttempts \in Nat \ {0} /\ Patient \subseteq Phones /\ IsFiniteSet(Slots)
    BY AccountAssumption
  <1>1. CASE p \in Patient
    <2>1. Wrong(p) \ {h} = {}
      BY <1>1 DEF Wrong, Alone, Busy
    <2> QED BY <1>0, <1>1, <2>1, FS_EmptySet DEF Limit
  <1>2. CASE p \notin Patient
    <2>1. Wrong(p) \ {h} \in SUBSET (Slots \ {h}) /\ IsFiniteSet(Slots \ {h})
          /\ Cardinality(Slots \ {h}) = Cardinality(Slots) - 1
      BY <1>0, FS_RemoveElement DEF Wrong
    <2>2. Cardinality(Wrong(p) \ {h}) <= Cardinality(Slots) - 1
      BY <2>1, FS_Subset
    <2>3. Cardinality(Wrong(p) \ {h}) \in Nat
      BY <2>1, FS_Subset, FS_CardinalityType
    <2> QED BY <1>0, <1>2, <2>2, <2>3, WrongBound DEF Limit
  <1> QED BY <1>1, <1>2

(***************************************************************************)
(* A wrong entry is let in only below the limit, and takes a free slot.    *)
(***************************************************************************)
LEMMA CountedRead ==
  ASSUME Typed, Alone, Counted, NEW h \in Slots, Read(h)
  PROVE  Counted'
  <1>0. /\ UNCHANGED otp /\ slot[h].op = "idle" /\ \A g \in Slots \ {h} : slot'[g] = slot[g]
        /\ Asked(slot'[h]) /\ MaxAttempts \in Nat \ {0}
        /\ slot'[h].phone \in Patient =>
              \A g \in Slots : Busy(g) => slot[g].phone # slot'[h].phone
    BY ReadAdds, AccountAssumption
  <1>1. SUFFICES ASSUME NEW p \in Phones
                 PROVE  /\ otp[p].attempts + Cardinality(Wrong(p)') <= Limit(p)
                        /\ otp[p].code # 0 /\ otp[p].verified = "no" =>
                             tries'[p] <= otp[p].attempts + Cardinality(Wrong(p)')
    BY <1>0 DEF Counted, Limit
  <1>2. otp[p].attempts \in Nat /\ tries[p] \in Nat /\ tries \in [Phones -> Nat]
    BY DEF Typed, TypeOK, Otp
  <1>3. CASE slot'[h].op = "wrong" /\ slot'[h].phone = p
    <2>1. Wrong(p)' = Wrong(p) \cup {h} /\ h \notin Wrong(p)
      BY <1>0, <1>3 DEF Wrong
    <2>2. Cardinality(Wrong(p)') = Cardinality(Wrong(p)) + 1
      BY <2>1, WrongBound, FS_AddElement
    <2>3. otp[p].attempts < MaxAttempts /\ tries'[p] = tries[p] + 1
      BY <1>0, <1>2, <1>3 DEF Asked, Moderation
    <2>4. otp[p].attempts + Cardinality(Wrong(p)') <= Limit(p)
      <3>1. CASE p \in Patient
        <4>1. Wrong(p) = {}
          BY <1>0, <1>3, <3>1 DEF Wrong, Busy
        <4> QED BY <1>0, <1>2, <2>2, <2>3, <3>1, <4>1, FS_EmptySet DEF Limit
      <3>2. CASE p \notin Patient
        <4>1. Wrong(p)' \in SUBSET Slots
          BY DEF Wrong
        <4>2. Cardinality(Wrong(p)') <= Cardinality(Slots)
          BY <4>1, AccountAssumption, FS_Subset
        <4> QED BY <1>0, <1>2, <2>2, <2>3, <3>2, <4>2, WrongBound DEF Limit
      <3> QED BY <3>1, <3>2
    <2> QED BY <1>2, <2>2, <2>3, <2>4, WrongBound DEF Counted
  <1>4. CASE ~(slot'[h].op = "wrong" /\ slot'[h].phone = p)
    <2>1. Wrong(p)' = Wrong(p)
      BY <1>0, <1>4 DEF Wrong
    <2>2. tries'[p] = tries[p]
      BY <1>0, <1>2, <1>4 DEF Asked
    <2> QED BY <2>1, <2>2 DEF Counted
  <1> QED BY <1>3, <1>4

(***************************************************************************)
(* A wrong entry that is counted is no longer on its way; a new code       *)
(* starts from nothing.                                                    *)
(***************************************************************************)
LEMMA CountedCommit ==
  ASSUME Typed, Alone, Counted, NEW h \in Slots, Commit(h)
  PROVE  Counted'
  <1>0. /\ slot[h].op # "idle" /\ slot'[h].op \notin {"wrong"}
        /\ \A g \in Slots \ {h} : slot'[g] = slot[g]
        /\ \A p \in Phones : \/ otp'[p] = otp[p] /\ tries'[p] = tries[p]
                             \/ p = slot[h].phone /\ Rewritten(h, p)
        /\ otp' \in [Phones -> Otp] /\ tries' \in [Phones -> Nat]
    BY CommitTakes, CommitOtp, FreeIsSlot DEF Kept
  <1>1. SUFFICES ASSUME NEW p \in Phones
                 PROVE  /\ otp'[p].attempts + Cardinality(Wrong(p)') <= Limit(p)
                        /\ otp'[p].code # 0 /\ otp'[p].verified = "no" =>
                             tries'[p] <= otp'[p].attempts + Cardinality(Wrong(p)')
    BY DEF Counted, Limit
  <1>2. /\ otp[p].attempts \in Nat /\ tries[p] \in Nat
        /\ otp'[p].attempts \in Nat /\ tries'[p] \in Nat
    BY <1>0 DEF Typed, TypeOK, Otp
  <1>3. Wrong(p)' = Wrong(p) \ {h}
    BY <1>0 DEF Wrong
  <1>4. /\ Cardinality(Wrong(p)') =
             IF h \in Wrong(p) THEN Cardinality(Wrong(p)) - 1 ELSE Cardinality(Wrong(p))
        /\ Cardinality(Wrong(p)) \in Nat /\ Cardinality(Wrong(p)') \in Nat
    BY <1>3, WrongBound, FS_RemoveElement, FS_CardinalityType
  <1>5. Limit(p) \in Nat
    BY AccountAssumption, WrongBound DEF Limit
  <1>6. CASE otp'[p] = otp[p] /\ tries'[p] = tries[p]
    <2>1. h \notin Wrong(p) \/ otp[p].code = 0
      <3>1. SUFFICES ASSUME slot[h].op = "wrong", slot[h].phone = p PROVE otp[p].code = 0
        BY DEF Wrong
      <3>2. CommitVerify(h)
        BY <3>1 DEF Commit, CommitSend, CommitRegister, Cleanup, CommitCode, CommitUse,
                    CommitLogin, CommitPhone, CommitActive, CommitRemove
      <3>3. CASE otp[p].code # 0
        <4>1. otp' = [otp EXCEPT ![p] = [otp[p] EXCEPT !.attempts = @ + 1]]
          BY <3>1, <3>2, <3>3 DEF CommitVerify, SetOtp
        <4>2. otp \in [Phones -> Otp]
          BY DEF Typed, TypeOK
        <4>3. otp'[p].attempts = otp[p].attempts + 1
          BY <4>1, <4>2 DEF Otp
        <4> QED BY <1>2, <1>6, <4>3
      <3> QED BY <3>3
    <2> QED BY <1>2, <1>4, <1>5, <1>6, <2>1 DEF Counted
  <1>7. CASE p = slot[h].phone /\ Rewritten(h, p)
    <2>1. CASE slot[h].op = "wrong"
      <3>1. /\ h \in Wrong(p) /\ tries'[p] = tries[p]
            /\ otp'[p].code = otp[p].code /\ otp'[p].verified = otp[p].verified
            /\ otp'[p].attempts = otp[p].attempts + 1
        BY <1>7, <2>1 DEF Wrong, Rewritten
      <3> QED BY <1>2, <1>4, <1>5, <3>1 DEF Counted
    <2>2. CASE slot[h].op # "wrong"
      <3>1. /\ otp'[p].attempts = 0
            /\ \/ tries'[p] = 0
               \/ otp'[p].verified = "yes"
               \/ otp'[p].code = 0
        BY <1>7, <2>2 DEF Rewritten
      <3>2. Cardinality(Wrong(p)') <= Limit(p)
        BY <1>0, <1>3, <1>7, WrongFits
      <3> QED BY <1>2, <1>4, <1>5, <3>1, <3>2
    <2> QED BY <2>1, <2>2
  <1> QED BY <1>0, <1>6, <1>7

(***************************************************************************)
(* Every step keeps the account of the attempts.                           *)
(***************************************************************************)
LEMMA CountedStep == Typed /\ Alone /\ Counted /\ [Next]_vars => Counted'
  <1> SUFFICES ASSUME Typed, Alone, Counted, [Next]_vars,
                      ~\E h \in Slots : Read(h) \/ Commit(h)
               PROVE  Counted'
    BY CountedRead, CountedCommit
  <1>1. \A p : Wrong(p)' = Wrong(p)
    BY OtherSteps DEF Wrong
  <1> QED BY <1>1, OtherSteps DEF Counted, Limit

(***************************************************************************)
(* The limit of wrong entries, with any number of requests in flight.      *)
(***************************************************************************)
THEOREM TriesLimited == Spec => []TriesBounded
  <1>1. Init => Counted
    <2> SUFFICES ASSUME Init PROVE Counted
      OBVIOUS
    <2>1. \A p : Wrong(p) = {}
      BY FreeIsSlot DEF Init, Wrong
    <2>2. \A p \in Phones : otp[p].attempts = 0 /\ otp[p].code = 0
      BY DEF Init, NoOtp
    <2>3. \A p : Limit(p) \in Nat
      BY AccountAssumption, WrongBound DEF Limit
    <2>4. \A p \in Phones : 0 + 0 <= Limit(p)
      BY <2>3
    <2>5. \A p \in Phones : Cardinality(Wrong(p)) = 0
      BY <2>1, FS_EmptySet
    <2> QED BY <2>2, <2>4, <2>5 DEF Counted
  <1>2. Typed /\ Counted => TriesBounded
    <2> SUFFICES ASSUME Typed, Counted, NEW p \in Phones,
                        otp[p].code # 0 /\ otp[p].verified = "no"
                 PROVE  tries[p] <= Limit(p)
      BY DEF TriesBounded, Limit
    <2>1. otp[p].attempts \in Nat /\ tries[p] \in Nat
      BY DEF Typed, TypeOK, Otp
    <2>2. Limit(p) \in Nat
      BY AccountAssumption, WrongBound DEF Limit
    <2>3. /\ tries[p] <= otp[p].attempts + Cardinality(Wrong(p))
          /\ otp[p].attempts + Cardinality(Wrong(p)) <= Limit(p)
      BY DEF Counted
    <2> QED BY <2>1, <2>2, <2>3, WrongBound
  <1>3. Current => Alone
    BY DEF Current
  <1> QED BY <1>1, <1>2, <1>3, AlwaysTyped, AlwaysCurrent, CountedStep, PTL DEF Spec
-----------------------------------------------------------------------------
(***************************************************************************)
(* Codes of accounts.  A code is stored in one column of one account, and  *)
(* whoever has read it clears that column when he uses it: so a code that  *)
(* is stored has no use yet, and one that was used is read no more. Uses   *)
(* and requests about to use it add up to one, unless two of these met.    *)
(***************************************************************************)
UseLimit(c) == IF c \in shared THEN Cardinality(Slots) ELSE 1

Fresh ==
  /\ \A u, v \in Users, ch, dh \in Channels :
       user[u].code[ch] # 0 /\ user[u].code[ch] = user[v].code[dh] => u = v /\ ch = dh
  /\ \A h \in Slots : slot[h].op = "use" =>
       /\ slot[h].code # 0
       /\ \A u \in Users, ch \in Channels :
            user[u].code[ch] = slot[h].code => u = slot[h].user /\ ch = slot[h].channel
  /\ \A u \in Users, ch \in Channels : user[u].code[ch] # 0 => uses[user[u].code[ch]] = 0
  /\ \A c \in Codes : c > drawn => uses[c] = 0
  /\ \A c \in Codes : uses[c] + Cardinality(Using(c)) <= UseLimit(c)

(***************************************************************************)
(* The requests about to use a code are finitely many, and at most the     *)
(* slots.                                                                  *)
(***************************************************************************)
LEMMA UsingBound ==
  \A c : /\ IsFiniteSet(Using(c)) /\ Cardinality(Using(c)) \in Nat
         /\ Cardinality(Using(c)) <= Cardinality(Slots)
         /\ Cardinality(Slots) \in Nat
  <1> TAKE c
  <1>1. Using(c) \in SUBSET Slots /\ IsFiniteSet(Slots)
    BY AccountAssumption DEF Using
  <1>2. IsFiniteSet(Using(c)) /\ Cardinality(Using(c)) <= Cardinality(Slots)
    BY <1>1, FS_Subset
  <1> QED BY <1>1, <1>2, FS_CardinalityType

(***************************************************************************)
(* A request that starts on a code finds it in the account, hence unused.  *)
(***************************************************************************)
LEMMA FreshRead ==
  ASSUME Typed, Fresh, NEW h \in Slots, Read(h)
  PROVE  Fresh'
  <1>0. /\ UNCHANGED <<user, uses, drawn>> /\ slot[h].op = "idle"
        /\ \A g \in Slots \ {h} : slot'[g] = slot[g]
        /\ Asked(slot'[h]) /\ slot'[h] \in Slot
        /\ uses \in [Codes -> Nat] /\ drawn \in Nat
    BY ReadAdds, AccountAssumption DEF Typed, TypeOK, Codes
  <1>1. slot'[h].op = "use" =>
          /\ slot'[h].user \in Users /\ slot'[h].channel \in Channels
          /\ slot'[h].code = user[slot'[h].user].code[slot'[h].channel]
          /\ slot'[h].code # 0
    BY <1>0 DEF Asked, Moderation, Slot
  <1>2. ASSUME NEW g \in Slots, slot'[g].op = "use"
        PROVE  /\ slot'[g].code # 0
               /\ \A u \in Users, ch \in Channels :
                    user[u].code[ch] = slot'[g].code =>
                      u = slot'[g].user /\ ch = slot'[g].channel
    BY <1>0, <1>1, <1>2 DEF Fresh
  <1>4. \A c \in Codes : \/ slot'[h].op = "use" /\ slot'[h].code = c
                         \/ UseLimit(c)' = UseLimit(c)
    BY <1>0 DEF Asked, UseLimit
  <1>3. ASSUME NEW c \in Codes
        PROVE  uses[c] + Cardinality(Using(c)') <= UseLimit(c)'
    <2>1. CASE slot'[h].op = "use" /\ slot'[h].code = c
      <3>1. uses[c] = 0
        BY <1>1, <2>1 DEF Fresh
      <3>2. Using(c)' \in SUBSET Slots /\ IsFiniteSet(Slots)
        BY AccountAssumption DEF Using
      <3>3. Cardinality(Using(c)') <= Cardinality(Slots) /\ Cardinality(Using(c)') \in Nat
        BY <3>2, FS_Subset, FS_CardinalityType
      <3>4. CASE c \in shared'
        BY <3>1, <3>3, <3>4 DEF UseLimit
      <3>5. CASE c \notin shared'
        <4>1. Using(c) = {}
          BY <1>0, <2>1, <3>5 DEF Asked, Moderation
        <4>2. Using(c)' = {h}
          BY <1>0, <2>1, <4>1 DEF Using
        <4>3. Cardinality(Using(c)') = 1
          BY <4>2, FS_Singleton
        <4> QED BY <3>1, <3>5, <4>3 DEF UseLimit
      <3> QED BY <3>4, <3>5
    <2>2. CASE ~(slot'[h].op = "use" /\ slot'[h].code = c)
      <3>1. Using(c)' = Using(c)
        BY <1>0, <2>2 DEF Using
      <3> QED BY <1>4, <2>2, <3>1 DEF Fresh
    <2> QED BY <2>1, <2>2
  <1> QED BY <1>0, <1>2, <1>3 DEF Fresh

(***************************************************************************)
(* A use passes from the requests in flight to the count and takes the     *)
(* code out of its column; a new code was never seen before.               *)
(***************************************************************************)
LEMMA FreshCommit ==
  ASSUME Typed, Fresh, NEW h \in Slots, Commit(h)
  PROVE  Fresh'
  <1>0. /\ slot[h].op # "idle" /\ slot'[h].op # "use"
        /\ \A g \in Slots \ {h} : slot'[g] = slot[g]
        /\ drawn \in Nat /\ drawn' \in Nat /\ drawn <= drawn' /\ Codes \subseteq Nat
        /\ uses \in [Codes -> Nat]
    <2>1. drawn \in Nat /\ Codes \subseteq Nat /\ uses \in [Codes -> Nat]
      BY AccountAssumption DEF Typed, TypeOK, Codes
    <2>2. slot[h].op # "idle" /\ drawn <= drawn' /\ drawn' \in Codes
      BY CommitTakes
    <2>3. slot'[h].op # "use" /\ \A g \in Slots \ {h} : slot'[g] = slot[g]
      BY CommitTakes, FreeIsSlot DEF Kept
    <2> QED BY <2>1, <2>2, <2>3
  <1>1. ASSUME NEW c PROVE Using(c)' = Using(c) \ {h}
    BY <1>0 DEF Using
  <1>2. ASSUME NEW c
        PROVE  /\ Cardinality(Using(c)') =
                    IF h \in Using(c) THEN Cardinality(Using(c)) - 1 ELSE Cardinality(Using(c))
               /\ Cardinality(Using(c)) \in Nat /\ Cardinality(Slots) \in Nat
    BY <1>1, UsingBound, FS_RemoveElement
  <1>9. \A c : UseLimit(c)' = UseLimit(c) /\ UseLimit(c) \in Nat
    BY CommitTakes, UsingBound DEF UseLimit
  <1>3. ASSUME uses' = uses
        PROVE  /\ \A c \in Codes : uses'[c] + Cardinality(Using(c)') <= UseLimit(c)'
               /\ \A c \in Codes : c > drawn' => uses'[c] = 0
    <2>1. \A c \in Codes : uses[c] \in Nat
                           /\ uses[c] + Cardinality(Using(c)) <= UseLimit(c)
      BY <1>0 DEF Fresh
    <2>2. \A c \in Codes : c > drawn' => c > drawn
      BY <1>0
    <2> QED BY <1>2, <1>3, <1>9, <2>1, <2>2 DEF Fresh
  <1>4. ASSUME uses' = uses,
               \A u \in Users, ch \in Channels :
                 user'[u].code[ch] = user[u].code[ch] \/ user'[u].code[ch] = 0
        PROVE  Fresh'
    BY <1>0, <1>3, <1>4 DEF Fresh
  <1>5. CASE CommitRegister(h)
    BY <1>4, <1>5, CommitCreates
  <1>6. CASE ~CommitRegister(h) /\ uses' = uses /\ \A u \in Users : user'[u].code = user[u].code
    BY <1>4, <1>6
  <1>7. CASE /\ slot[h].op = "use" /\ drawn' = drawn /\ CodesBecome(h, 0)
             /\ uses' = [uses EXCEPT ![slot[h].code] = @ + 1]
    <2>1. PICK n \in Codes : n = slot[h].code
      BY DEF Typed, TypeOK, Slot
    <2>2. /\ n # 0 /\ n \in 0 .. drawn
          /\ \A u \in Users, ch \in Channels :
               user[u].code[ch] = n => u = slot[h].user /\ ch = slot[h].channel
      BY <1>7, <2>1 DEF Fresh, Typed, Formed
    <2>3. /\ uses'[n] = uses[n] + 1 /\ \A c \in Codes : c # n => uses'[c] = uses[c]
          /\ \A c \in Codes : uses[c] \in Nat
      BY <1>0, <1>7, <2>1
    <2>4. \A u \in Users, ch \in Channels :
            /\ user'[u].code[ch] # n
            /\ user'[u].code[ch] # 0 => user'[u].code[ch] = user[u].code[ch]
      BY <1>7, <2>2 DEF CodesBecome
    <2>5. \A u \in Users, ch \in Channels : user[u].code[ch] \in Codes
      BY DEF Typed, TypeOK, User
    <2>6. \A u \in Users, ch \in Channels :
            user'[u].code[ch] # 0 => uses'[user'[u].code[ch]] = 0
      BY <2>3, <2>4, <2>5 DEF Fresh
    <2>7. ASSUME NEW c \in Codes
          PROVE  /\ uses'[c] + Cardinality(Using(c)') <= UseLimit(c)'
                 /\ c > drawn => uses'[c] = 0
      <3>0. uses[c] + Cardinality(Using(c)) <= UseLimit(c) /\ uses[c] \in Nat
        BY <2>3 DEF Fresh
      <3>1. CASE c = n
        <4>1. h \in Using(c)
          BY <1>7, <2>1, <3>1 DEF Using
        <4>2. ~(c > drawn)
          BY <1>0, <2>2, <3>1
        <4> QED BY <1>2, <1>9, <2>3, <3>0, <3>1, <4>1, <4>2
      <3>2. CASE c # n
        <4>1. h \notin Using(c)
          BY <2>1, <3>2 DEF Using
        <4> QED BY <1>2, <1>9, <2>3, <3>0, <3>2, <4>1 DEF Fresh
      <3> QED BY <3>1, <3>2
    <2> QED BY <1>0, <1>7, <2>4, <2>6, <2>7 DEF Fresh
  <1>8. CASE /\ slot[h].op = "code" /\ drawn' = drawn + 1 /\ uses' = uses
             /\ CodesBecome(h, drawn + 1)
    <2>1. PICK n \in Nat : n = drawn + 1
      BY <1>0
    <2>2. /\ \A u \in Users, ch \in Channels : user[u].code[ch] \in Nat /\ user[u].code[ch] < n
          /\ \A g \in Slots : slot[g].op = "use" => slot[g].code \in Nat /\ slot[g].code < n
      BY <1>0, <2>1 DEF Typed, AllDrawn, Formed
    <2>3. uses[n] = 0
      <3>1. n \in Codes
        BY <1>8, <2>1, CommitTakes
      <3> QED BY <1>0, <2>1, <3>1 DEF Fresh
    <2>4. \A u \in Users, ch \in Channels :
            user'[u].code[ch] = IF u = slot[h].user /\ ch = slot[h].channel THEN n
                                ELSE user[u].code[ch]
      BY <1>8, <2>1 DEF CodesBecome
    <2>5. \A u, v \in Users, ch, dh \in Channels :
            user'[u].code[ch] # 0 /\ user'[u].code[ch] = user'[v].code[dh] => u = v /\ ch = dh
      BY <2>2, <2>4 DEF Fresh
    <2>6. \A g \in Slots : slot'[g].op = "use" =>
            /\ slot'[g].code # 0
            /\ \A u \in Users, ch \in Channels :
                 user'[u].code[ch] = slot'[g].code => u = slot'[g].user /\ ch = slot'[g].channel
      BY <1>0, <2>2, <2>4 DEF Fresh
    <2>7. \A u \in Users, ch \in Channels :
            user'[u].code[ch] # 0 => uses[user'[u].code[ch]] = 0
      BY <2>3, <2>4 DEF Fresh
    <2> QED BY <1>3, <1>8, <2>5, <2>6, <2>7 DEF Fresh
  <1> QED BY <1>5, <1>6, <1>7, <1>8, CommitCodes

(***************************************************************************)
(* Every step keeps the codes in the accounts unused.                      *)
(***************************************************************************)
LEMMA FreshStep == Typed /\ Fresh /\ [Next]_vars => Fresh'
  <1> SUFFICES ASSUME Typed, Fresh, [Next]_vars, ~\E h \in Slots : Read(h) \/ Commit(h)
               PROVE  Fresh'
    BY FreshRead, FreshCommit
  <1>1. \A c : Using(c)' = Using(c) /\ UseLimit(c)' = UseLimit(c)
    BY OtherSteps DEF Using, UseLimit
  <1> QED BY <1>1, OtherSteps DEF Fresh

(***************************************************************************)
(* A code that was used is gone; it works once, or once for each of the    *)
(* requests that overlapped.                                               *)
(***************************************************************************)
THEOREM CodesUsedOnce == Spec => []UsedOnce
  <1>1. Init => Fresh
    <2> SUFFICES ASSUME Init PROVE Fresh
      OBVIOUS
    <2>1. \A c : Using(c) = {}
      BY FreeIsSlot DEF Init, Using
    <2>2. \A u \in Users, ch \in Channels : user[u].code[ch] = 0
      BY DEF Init, NewUser
    <2>3. \A c \in Codes : uses[c] = 0
      BY DEF Init
    <2>4. \A c \in Codes : uses[c] + Cardinality(Using(c)) <= UseLimit(c)
      <3>1. Cardinality({}) = 0
        BY FS_EmptySet
      <3>2. \A c : UseLimit(c) \in Nat
        BY UsingBound DEF UseLimit
      <3> QED BY <2>1, <2>3, <3>1, <3>2
    <2>5. \A h \in Slots : slot[h].op # "use"
      BY FreeIsSlot DEF Init
    <2> QED BY <2>2, <2>3, <2>4, <2>5 DEF Fresh
  <1>2. Typed /\ Fresh => UsedOnce
    <2> SUFFICES ASSUME Typed, Fresh PROVE UsedOnce
      OBVIOUS
    <2>1. accounts \subseteq Users /\ uses \in [Codes -> Nat]
      BY DEF Typed, TypeOK
    <2>2. ASSUME NEW c \in Codes PROVE uses[c] <= UseLimit(c)
      <3>1. /\ uses[c] + Cardinality(Using(c)) <= UseLimit(c) /\ uses[c] \in Nat
            /\ UseLimit(c) \in Nat
        BY <2>1, UsingBound DEF Fresh, UseLimit
      <3> QED BY <3>1, UsingBound
    <2> QED BY <2>1, <2>2 DEF Fresh, UsedOnce, UseLimit
  <1> QED BY <1>1, <1>2, AlwaysTyped, FreshStep, PTL DEF Spec
-----------------------------------------------------------------------------
(***************************************************************************)
(* Admins.  Whoever is about to be blocked or removed is not the admin who *)
(* asked for it, and that one is still active when it is written, because  *)
(* nothing else is being blocked or removed meanwhile.                     *)
(***************************************************************************)
Moderating(h) == slot[h].op \in Moderation

Survivor ==
  OneAdmin =>
    /\ \E a \in Admins \cap accounts : user[a].active
    /\ \A g, h \in Slots : Moderating(g) /\ Moderating(h) => g = h
    /\ \A h \in Slots : Moderating(h) =>
         \E a \in Admins \cap accounts : user[a].active /\ a # slot[h].user

(***************************************************************************)
(* Every step leaves an active admin other than the one being moderated,   *)
(* if the admins moderate one at a time: whoever moderates is active and   *)
(* not his own target.                                                     *)
(***************************************************************************)
LEMMA SurvivorStep == Typed /\ Survivor /\ [Next]_vars => Survivor'
  <1> SUFFICES ASSUME Typed, Survivor, OneAdmin, [Next]_vars PROVE Survivor'
    BY DEF Survivor
  <1>0. accounts \subseteq usedIds /\ usedIds \subseteq Users /\ user \in [Users -> User]
        /\ Free.op = "idle"
    BY FreeIsSlot DEF Typed, TypeOK
  <1>1. ASSUME NEW h \in Slots, Read(h) PROVE Survivor'
    <2>1. /\ UNCHANGED <<accounts, user>> /\ \A g \in Slots \ {h} : slot'[g] = slot[g]
          /\ Asked(slot'[h])
      BY <1>1, ReadAdds
    <2>2. slot'[h].op \in Moderation =>
            /\ \E a \in Admins \cap accounts : user[a].active /\ a # slot'[h].user
            /\ \A g \in Slots : slot[g].op \notin Moderation
      BY <2>1 DEF Asked, Moderation
    <2> QED BY <2>1, <2>2 DEF Survivor, Moderating
  <1>2. ASSUME NEW h \in Slots, Commit(h) PROVE Survivor'
    <2>1. /\ slot'[h].op \notin Moderation /\ \A g \in Slots \ {h} : slot'[g] = slot[g]
      BY <1>0, <1>2, CommitTakes DEF Kept, Moderation
    <2>2. ASSUME \A a \in Admins \cap accounts :
                   user[a].active => a \in accounts' /\ user'[a].active
          PROVE  Survivor'
      BY <2>1, <2>2 DEF Survivor, Moderating
    <2>3. CASE CommitRegister(h)
      BY <1>0, <2>2, <2>3, CommitCreates
    <2>4. CASE CommitActive(h) \/ CommitRemove(h)
      <3>1. slot[h].op \in Moderation
        BY <2>4 DEF CommitActive, CommitRemove, Moderation
      <3>2. PICK a \in Admins \cap accounts : user[a].active /\ a # slot[h].user
        BY <3>1 DEF Survivor, Moderating
      <3>3. a \in accounts' /\ user'[a] = user[a]
        BY <1>0, <2>4, <3>2 DEF CommitActive, CommitRemove, SetUser, tables
      <3>4. \A g \in Slots : slot'[g].op \notin Moderation
        BY <2>1, <3>1 DEF Survivor, Moderating
      <3> QED BY <3>2, <3>3, <3>4 DEF Survivor, Moderating
    <2>5. CASE ~CommitRegister(h) /\ ~CommitActive(h) /\ ~CommitRemove(h)
      <3>1. accounts' = accounts
        BY <1>2, <2>5 DEF Commit, CommitSend, CommitVerify, Cleanup, CommitCode, CommitUse,
                          CommitLogin, CommitPhone, SetOtp, SetUser, tables
      <3>2. \A u \in Users : user'[u].active = user[u].active
        BY <1>2, <2>5, CommitColumns
      <3> QED BY <1>0, <2>2, <3>1, <3>2
    <2> QED BY <2>3, <2>4, <2>5
  <1>3. ASSUME ~\E h \in Slots : Read(h) \/ Commit(h) PROVE Survivor'
    BY <1>3, OtherSteps DEF Survivor, Moderating
  <1> QED BY <1>1, <1>2, <1>3

(***************************************************************************)
(* An active admin is left.                                                *)
(***************************************************************************)
THEOREM AdminsRemain == Spec => []AdminRemains
  <1>1. Init => Survivor
    <2> SUFFICES ASSUME Init PROVE Survivor
      OBVIOUS
    <2>1. \A h \in Slots : slot[h].op \notin Moderation
      BY FreeIsSlot DEF Init, Moderation
    <2>2. \A a \in Admins : a \in accounts /\ user[a].active
      BY AccountAssumption DEF Init, NewUser
    <2> QED BY <2>1, <2>2, AccountAssumption DEF Survivor, Moderating
  <1>2. Survivor => AdminRemains
    BY DEF Survivor, AdminRemains
  <1> QED BY <1>1, <1>2, AlwaysTyped, SurvivorStep, PTL DEF Spec
=============================================================================
