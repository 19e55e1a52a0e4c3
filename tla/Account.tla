------------------------------- MODULE Account -------------------------------
(***************************************************************************)
(* Accounts: AuthService and UserService with the guards in front of them. *)
(*                                                                         *)
(* Registration proves a telephone number first (the PhoneOtp row) and     *)
(* creates the account afterwards; passwords are reset with a code or a    *)
(* link.  Every handler reads a row, awaits (often a slow password hash)   *)
(* and writes later, so a request is a read step and a commit step.        *)
(*                                                                         *)
(* Codes are numbered in the order they are drawn: the five digits are     *)
(* secret, so a code is entered by somebody it was sent to, and 0 is any   *)
(* other entry.  Times are the expiry of a code, the half hour a proof is  *)
(* good for and the minute between two messages.                           *)
(***************************************************************************)
EXTENDS Integers, FiniteSets

CONSTANTS
  Users,        \* ids an account can have
  Admins,       \* the administrators, active accounts from the start
  Legacy,       \* accounts of the old flow, whose number is not verified
  Phones, NoPhone,
  LegacyPhone,  \* the number of each legacy account
  WithOrders,   \* the users with an order history
  Slots,        \* requests that can be in flight
  Patient,      \* the numbers whose owner has one request at a time
  OneAdmin,     \* TRUE: there are never two requests of admins in flight
  NoUser,
  MaxAttempts,  \* REGISTER_OTP_MAX_ATTEMPTS
  MaxCodes, MaxRequests  \* bounds of the model

Passwords == {"first", "second"}
Channels == {"verify", "sms", "link"}
Codes == 0 .. MaxCodes
Moderation == {"block", "unblock", "remove"}

ASSUME AccountAssumption ==
  /\ Admins \subseteq Users /\ Legacy \subseteq Users /\ Admins \cap Legacy = {}
  /\ Admins # {}
  /\ NoPhone \notin Phones /\ Patient \subseteq Phones
  /\ NoUser \notin Users
  /\ OneAdmin \in BOOLEAN
  /\ LegacyPhone \in [Legacy -> Phones]
  /\ \A u, v \in Legacy : u # v => LegacyPhone[u] # LegacyPhone[v]
  /\ Slots # {} /\ IsFiniteSet(Slots)
  /\ MaxAttempts \in Nat \ {0} /\ MaxCodes \in Nat /\ MaxRequests \in Nat

VARIABLES
  accounts,  \* the users that have a row
  usedIds,   \* the ids ever given: they are not reused
  user,      \* the columns of each row
  otp,       \* the PhoneOtp row of each number
  drawn,     \* the codes drawn so far are 1 .. drawn
  expired,   \* the codes whose time is over
  sessions,  \* the users somebody holds tokens of
  slot,      \* the request each slot executes
  proved,    \* the registration codes that were entered right, with their numbers
  tries,     \* wrong entries for the current code of each number
  uses,      \* how often each code has set a password or verified an account
  shared,    \* the codes that two requests in flight at once went by
  requests

tables == <<accounts, usedIds, user, otp>>
codeVars == <<drawn, expired>>
history == <<proved, tries, uses, shared>>
vars == <<tables, codeVars, sessions, slot, history, requests>>

User == [phone : Phones \cup {NoPhone}, password : Passwords, active : BOOLEAN,
         phoneVerified : BOOLEAN, code : [Channels -> Codes],
         registered : Phones \cup {NoPhone}]
NewUser(p, verified) ==
  [phone |-> p, password |-> "first", active |-> TRUE, phoneVerified |-> verified,
   code |-> [c \in Channels |-> 0], registered |-> NoPhone]

Otp == [code : Codes, attempts : Nat, verified : {"no", "yes", "late"}, recent : BOOLEAN]
NoOtp == [code |-> 0, attempts |-> 0, verified |-> "no", recent |-> FALSE]

Slot == [op : {"idle", "send", "right", "wrong", "register", "cleanup", "code", "use",
               "login", "phone"} \cup Moderation,
         phone : Phones \cup {NoPhone}, user : Users \cup {NoUser}, code : Codes,
         channel : Channels]
Free == [op |-> "idle", phone |-> NoPhone, user |-> NoUser, code |-> 0, channel |-> "sms"]

TypeOK ==
  /\ accounts \subseteq usedIds /\ usedIds \subseteq Users
  /\ user \in [Users -> User]
  /\ otp \in [Phones -> Otp]
  /\ drawn \in Codes
  /\ expired \subseteq 1 .. drawn
  /\ sessions \subseteq usedIds
  /\ slot \in [Slots -> Slot]
  /\ proved \subseteq Phones \X (1 .. drawn)
  /\ tries \in [Phones -> Nat]
  /\ uses \in [Codes -> Nat] /\ shared \subseteq Codes
  /\ requests \in Nat

Init ==
  /\ accounts = Admins \cup Legacy /\ usedIds = accounts
  /\ user = [u \in Users |-> NewUser(IF u \in Legacy THEN LegacyPhone[u] ELSE NoPhone,
                                     u \notin Legacy)]
  /\ otp = [p \in Phones |-> NoOtp]
  /\ drawn = 0 /\ expired = {}
  /\ sessions = Admins
  /\ slot = [h \in Slots |-> Free]
  /\ proved = {} /\ tries = [p \in Phones |-> 0] /\ uses = [c \in Codes |-> 0]
  /\ shared = {}
  /\ requests = 0

Owner(p) == {u \in accounts : user[u].phone = p}
Busy(h) == slot[h].op # "idle"

\* A request arrives and its first read lets it pass.
Begin(h, c) ==
  /\ ~Busy(h)
  /\ requests < MaxRequests
  /\ c.phone \in Patient => \A g \in Slots : Busy(g) => slot[g].phone # c.phone
  /\ slot' = [slot EXCEPT ![h] = c]
  /\ requests' = requests + 1

Return(h) == slot' = [slot EXCEPT ![h] = Free]

SetUser(u, r) == user' = [user EXCEPT ![u] = r] /\ UNCHANGED <<accounts, usedIds, otp>>
SetOtp(p, r) == otp' = [otp EXCEPT ![p] = r] /\ UNCHANGED <<accounts, usedIds, user>>
-----------------------------------------------------------------------------
\* sendRegisterOtp: the number is free and no message was sent in the last minute.
ReadForSend(h, p) ==
  /\ Owner(p) = {}
  /\ ~otp[p].recent
  /\ Begin(h, [Free EXCEPT !.op = "send", !.phone = p])
  /\ UNCHANGED <<tables, codeVars, sessions, history>>

\* The upsert; then the message goes out.
CommitSend(h) ==
  LET p == slot[h].phone
  IN  /\ slot[h].op = "send"
      /\ drawn < MaxCodes
      /\ drawn' = drawn + 1
      /\ SetOtp(p, [code |-> drawn + 1, attempts |-> 0, verified |-> "no", recent |-> TRUE])
      /\ tries' = [tries EXCEPT ![p] = 0]
      /\ Return(h)
      /\ UNCHANGED <<expired, sessions, proved, uses, shared, requests>>

\* Mutant of ReadForVerify: the attempts are not checked.
ReadForVerifyUnlimited(h, p, c) ==
  /\ otp[p].code # 0
  /\ otp[p].code \notin expired
  /\ \/ /\ c = otp[p].code
        /\ proved' = proved \cup {<<p, c>>}
        /\ Begin(h, [Free EXCEPT !.op = "right", !.phone = p, !.code = c])
        /\ UNCHANGED tries
     \/ /\ c # otp[p].code
        /\ tries' = [tries EXCEPT ![p] = @ + 1]
        /\ Begin(h, [Free EXCEPT !.op = "wrong", !.phone = p, !.code = c])
        /\ UNCHANGED proved
  /\ UNCHANGED <<tables, codeVars, sessions, uses, shared>>

\* Mutant of ReadForVerify: a number without a row is not refused.
ReadForVerifyMissing(h, p, c) ==
  /\ otp[p].attempts < MaxAttempts
  /\ otp[p].code \notin expired
  /\ proved' = IF c = otp[p].code THEN proved \cup {<<p, c>>} ELSE proved
  /\ Begin(h, [Free EXCEPT !.op = "right", !.phone = p, !.code = c])
  /\ UNCHANGED <<tables, codeVars, sessions, tries, uses, shared>>

\* verifyRegisterOtp: all its checks are made on the row as read here.
ReadForVerify(h, p, c) ==
  /\ otp[p].code # 0
  /\ otp[p].attempts < MaxAttempts
  /\ otp[p].code \notin expired
  /\ \/ /\ c = otp[p].code
        /\ proved' = proved \cup {<<p, c>>}
        /\ Begin(h, [Free EXCEPT !.op = "right", !.phone = p, !.code = c])
        /\ UNCHANGED tries
     \/ /\ c # otp[p].code
        /\ tries' = [tries EXCEPT ![p] = @ + 1]
        /\ Begin(h, [Free EXCEPT !.op = "wrong", !.phone = p, !.code = c])
        /\ UNCHANGED proved
  /\ UNCHANGED <<tables, codeVars, sessions, uses, shared>>

\* Mutant of CommitVerify: a wrong entry is taken for a right one.
CommitVerifyAny(h) ==
  LET p == slot[h].phone
  IN  /\ slot[h].op \in {"wrong", "right"}
      /\ otp[p].code # 0
      /\ SetOtp(p, [otp[p] EXCEPT !.verified = "yes", !.attempts = 0])
      /\ Return(h)
      /\ UNCHANGED <<codeVars, sessions, history, requests>>

\* Its update, of whatever row the number has by now; it throws without one.
CommitVerify(h) ==
  LET p == slot[h].phone
  IN  /\ slot[h].op \in {"wrong", "right"}
      /\ \/ /\ otp[p].code # 0 /\ slot[h].op = "wrong"
            /\ SetOtp(p, [otp[p] EXCEPT !.attempts = @ + 1])
         \/ /\ otp[p].code # 0 /\ slot[h].op = "right"
            /\ SetOtp(p, [otp[p] EXCEPT !.verified = "yes", !.attempts = 0])
         \/ otp[p].code = 0 /\ UNCHANGED tables
      /\ Return(h)
      /\ UNCHANGED <<codeVars, sessions, history, requests>>

\* Mutant of ReadForRegister: the verification of the number is not asked for.
ReadForRegisterUnverified(h, p) ==
  /\ Owner(p) = {}
  /\ Begin(h, [Free EXCEPT !.op = "register", !.phone = p])
  /\ UNCHANGED <<tables, codeVars, sessions, history>>

\* register: a proof not older than half an hour, and a free number.
ReadForRegister(h, p) ==
  /\ otp[p].verified = "yes"
  /\ Owner(p) = {}
  /\ Begin(h, [Free EXCEPT !.op = "register", !.phone = p])
  /\ UNCHANGED <<tables, codeVars, sessions, history>>

\* Mutant of CommitRegister: the column is not unique.
CommitRegisterTwice(h) ==
  LET p == slot[h].phone
  IN  /\ slot[h].op = "register"
      /\ \E u \in Users \ usedIds :
           /\ accounts' = accounts \cup {u} /\ usedIds' = usedIds \cup {u}
           /\ user' = [user EXCEPT ![u] = [NewUser(p, TRUE) EXCEPT !.registered = p]]
           /\ slot' = [slot EXCEPT ![h].op = "cleanup", ![h].user = u]
      /\ UNCHANGED <<otp, codeVars, sessions, history, requests>>

\* user.create after the password is hashed: the unique index on the number
\* decides between two that got this far, and the one on the address may
\* refuse either.
CommitRegister(h) ==
  LET p == slot[h].phone
  IN  /\ slot[h].op = "register"
      /\ \/ /\ Owner(p) = {}
            /\ \E u \in Users \ usedIds :
                 /\ accounts' = accounts \cup {u} /\ usedIds' = usedIds \cup {u}
                 /\ user' = [user EXCEPT ![u] = [NewUser(p, TRUE) EXCEPT !.registered = p]]
                 /\ slot' = [slot EXCEPT ![h].op = "cleanup", ![h].user = u]
         \/ Return(h) /\ UNCHANGED <<accounts, usedIds, user>>
      /\ UNCHANGED <<otp, codeVars, sessions, history, requests>>

\* The PhoneOtp row is deleted, if it can be, and the tokens are issued.
Cleanup(h) ==
  /\ slot[h].op = "cleanup"
  /\ \E row \in {NoOtp, otp[slot[h].phone]} : SetOtp(slot[h].phone, row)
  /\ sessions' = sessions \cup {slot[h].user}
  /\ Return(h)
  /\ UNCHANGED <<codeVars, history, requests>>
-----------------------------------------------------------------------------
\* resendVerificationCode and requestPasswordReset: the account is looked up
\* (an unknown one is answered alike and nothing happens) ...
ReadForCode(h, u, ch) ==
  /\ u \in accounts
  /\ ch = "verify" => ~user[u].phoneVerified
  /\ ch \in {"verify", "sms"} => user[u].phone # NoPhone
  /\ Begin(h, [Free EXCEPT !.op = "code", !.user = u, !.channel = ch])
  /\ UNCHANGED <<tables, codeVars, sessions, history>>

\* ... and gets a new code, which replaces the one before.
CommitCode(h) ==
  LET u == slot[h].user
  IN  /\ slot[h].op = "code"
      /\ \/ /\ u \in accounts
            /\ drawn < MaxCodes
            /\ drawn' = drawn + 1
            /\ SetUser(u, [user[u] EXCEPT !.code[slot[h].channel] = drawn + 1])
         \/ u \notin accounts /\ UNCHANGED <<tables, drawn>>
      /\ Return(h)
      /\ UNCHANGED <<expired, sessions, history, requests>>

\* verifyEmail and resetPassword: the code is compared on the row as read here.
ReadForUse(h, u, ch) ==
  /\ u \in accounts
  /\ ch = "verify" => ~user[u].phoneVerified
  /\ user[u].code[ch] \notin expired \cup {0}
  /\ Begin(h, [Free EXCEPT !.op = "use", !.user = u, !.channel = ch,
                           !.code = user[u].code[ch]])
  /\ shared' = IF \E g \in Slots : slot[g].op = "use" /\ slot[g].code = user[u].code[ch]
               THEN shared \cup {user[u].code[ch]} ELSE shared
  /\ UNCHANGED <<tables, codeVars, sessions, proved, tries, uses>>

\* Mutant of CommitUse: the code is left in place.
CommitUseKeeping(h) ==
  LET u == slot[h].user
  IN  /\ slot[h].op = "use"
      /\ u \in accounts
      /\ SetUser(u, user[u])
      /\ uses' = [uses EXCEPT ![slot[h].code] = @ + 1]
      /\ sessions' = sessions \cup {u}
      /\ Return(h)
      /\ UNCHANGED <<codeVars, proved, tries, shared, requests>>

\* The update by id, which clears the code there is by now, and the tokens.
CommitUse(h) ==
  LET u == slot[h].user
      ch == slot[h].channel
  IN  /\ slot[h].op = "use"
      /\ \/ /\ u \in accounts
            /\ \/ /\ ch = "verify"
                  /\ SetUser(u, [user[u] EXCEPT !.phoneVerified = TRUE, !.code[ch] = 0])
               \/ /\ ch # "verify"
                  /\ \E new \in Passwords :
                       SetUser(u, [user[u] EXCEPT !.password = new, !.code[ch] = 0])
            /\ uses' = [uses EXCEPT ![slot[h].code] = @ + 1]
            /\ sessions' = sessions \cup {u}
         \/ u \notin accounts /\ UNCHANGED <<tables, uses, sessions>>
      /\ Return(h)
      /\ UNCHANGED <<codeVars, proved, tries, shared, requests>>

\* login: the password, isActive and phoneVerified of the row as read here.
ReadForLogin(h, u, password) ==
  /\ u \in accounts
  /\ user[u].password = password /\ user[u].active /\ user[u].phoneVerified
  /\ Begin(h, [Free EXCEPT !.op = "login", !.user = u])
  /\ UNCHANGED <<tables, codeVars, sessions, history>>

\* lastSeenAt is written, which throws without a row, and the tokens issued.
CommitLogin(h) ==
  /\ slot[h].op = "login"
  /\ sessions' = IF slot[h].user \in accounts THEN sessions \cup {slot[h].user}
                 ELSE sessions
  /\ Return(h)
  /\ UNCHANGED <<tables, codeVars, history, requests>>
-----------------------------------------------------------------------------
\* JwtStrategy.validate, on every request with a token, and refresh.
Authorized(u) == u \in sessions /\ u \in accounts /\ user[u].active

\* updateProfile, as far as the number is concerned; it stays verified.
ReadForPhone(h, u, p) ==
  /\ Authorized(u)
  /\ Begin(h, [Free EXCEPT !.op = "phone", !.user = u, !.phone = p])
  /\ UNCHANGED <<tables, codeVars, sessions, history>>

CommitPhone(h) ==
  LET u == slot[h].user
      p == slot[h].phone
  IN  /\ slot[h].op = "phone"
      /\ \/ /\ u \in accounts /\ Owner(p) \subseteq {u}
            /\ SetUser(u, [user[u] EXCEPT !.phone = p])
         \/ /\ u \notin accounts \/ ~(Owner(p) \subseteq {u})
            /\ UNCHANGED tables
      /\ Return(h)
      /\ UNCHANGED <<codeVars, sessions, history, requests>>

\* Mutant of ReadForAdmin: admins may act on themselves.
ReadForAdminSelf(h, a, u, op) ==
  /\ a \in Admins /\ Authorized(a)
  /\ u \in accounts
  /\ OneAdmin => \A g \in Slots : slot[g].op \notin Moderation
  /\ Begin(h, [Free EXCEPT !.op = op, !.user = u])
  /\ UNCHANGED <<tables, codeVars, sessions, history>>

\* setUserActive and removeUser: the guards, the refusal of oneself, findById.
ReadForAdmin(h, a, u, op) ==
  /\ a \in Admins /\ Authorized(a)
  /\ a # u
  /\ u \in accounts
  /\ OneAdmin => \A g \in Slots : slot[g].op \notin Moderation
  /\ Begin(h, [Free EXCEPT !.op = op, !.user = u])
  /\ UNCHANGED <<tables, codeVars, sessions, history>>

CommitActive(h) ==
  LET u == slot[h].user
  IN  /\ slot[h].op \in {"block", "unblock"}
      /\ \/ u \in accounts /\ SetUser(u, [user[u] EXCEPT !.active = (slot[h].op = "unblock")])
         \/ u \notin accounts /\ UNCHANGED tables
      /\ Return(h)
      /\ UNCHANGED <<codeVars, sessions, history, requests>>

\* user.delete; a user with orders is refused by the foreign key.
CommitRemove(h) ==
  LET u == slot[h].user
  IN  /\ slot[h].op = "remove"
      /\ accounts' = IF u \in WithOrders THEN accounts ELSE accounts \ {u}
      /\ Return(h)
      /\ UNCHANGED <<usedIds, user, otp, codeVars, sessions, history, requests>>
-----------------------------------------------------------------------------
\* Time passes: a code expires, a proof gets too old, a minute is over.
Expire(c) ==
  /\ c \in 1 .. drawn \ expired
  /\ expired' = expired \cup {c}
  /\ UNCHANGED <<tables, drawn, sessions, slot, history, requests>>

Wait(p) ==
  /\ \/ otp[p].verified = "yes" /\ SetOtp(p, [otp[p] EXCEPT !.verified = "late"])
     \/ otp[p].recent /\ SetOtp(p, [otp[p] EXCEPT !.recent = FALSE])
  /\ UNCHANGED <<codeVars, sessions, slot, history, requests>>

Read(h) ==
  \/ \E p \in Phones :
       \/ ReadForSend(h, p) \/ ReadForRegister(h, p)
       \/ \E c \in 0 .. drawn : ReadForVerify(h, p, c)
       \/ \E u \in Users : ReadForPhone(h, u, p)
  \/ \E u \in Users :
       \/ \E ch \in Channels : ReadForCode(h, u, ch) \/ ReadForUse(h, u, ch)
       \/ \E password \in Passwords : ReadForLogin(h, u, password)
       \/ \E a \in Admins, op \in Moderation : ReadForAdmin(h, a, u, op)

Commit(h) ==
  \/ CommitSend(h) \/ CommitVerify(h) \/ CommitRegister(h) \/ Cleanup(h)
  \/ CommitCode(h) \/ CommitUse(h) \/ CommitLogin(h) \/ CommitPhone(h)
  \/ CommitActive(h) \/ CommitRemove(h)

Next ==
  \/ \E h \in Slots : Read(h) \/ Commit(h)
  \/ (\E c \in Codes : Expire(c)) \/ (\E p \in Phones : Wait(p))

Spec == Init /\ [][Next]_vars
-----------------------------------------------------------------------------
(***************************************************************************)
(* A registration code that has not been entered right was tried at most   *)
(* MaxAttempts times, and one time more for every further request that can *)
(* be in flight: the limit is checked on a row read before the count goes  *)
(* up (verifyRegisterOtp). For a number whose owner waits for each answer  *)
(* the limit is exact.                                                     *)
(***************************************************************************)
TriesBounded ==
  \A p \in Phones : otp[p].code # 0 /\ otp[p].verified = "no" =>
    tries[p] <= IF p \in Patient THEN MaxAttempts ELSE MaxAttempts + Cardinality(Slots) - 1

(***************************************************************************)
(* For a number whose owner waits for each answer, "verified" means that   *)
(* the current code was entered; otherwise the update may hit a code that  *)
(* was sent after the one entered.                                         *)
(***************************************************************************)
VerifiedCurrent ==
  \A p \in Phones \cap Patient : otp[p].verified # "no" => <<p, otp[p].code>> \in proved

(***************************************************************************)
(* Two requests that race to register, or to change to, one number cannot  *)
(* both get it (comment above register).                                   *)
(***************************************************************************)
UniquePhones ==
  \A u, v \in accounts : u # v /\ user[u].phone # NoPhone => user[u].phone # user[v].phone

(***************************************************************************)
(* Nobody registers a number for which no code was ever entered right,     *)
(* although the proof, the checks and the creation are separate statements *)
(* and the number may change hands in between.                             *)
(***************************************************************************)
AccountsProven ==
  \A u \in accounts : user[u].registered # NoPhone =>
    \E c \in 1 .. drawn : <<user[u].registered, c>> \in proved

(***************************************************************************)
(* A reset code, link or verification code works once (auth.service.ts,    *)
(* comment above requestPasswordReset), also when a new one was asked for  *)
(* in between, unless two requests with it were in flight together: they   *)
(* check it on the row as each has read it, and both pass. Then it works   *)
(* at most once for each of them, and once used it is gone in any case.    *)
(***************************************************************************)
UsedOnce ==
  /\ \A c \in Codes : uses[c] <= IF c \in shared THEN Cardinality(Slots) ELSE 1
  /\ \A u \in accounts, ch \in Channels :
       user[u].code[ch] # 0 => uses[user[u].code[ch]] = 0

(***************************************************************************)
(* The admins cannot lock themselves out: an admin cannot block or remove  *)
(* himself (setUserActive, removeUser), and an admin who is blocked can    *)
(* act no more, so one active admin is always left, as long as there are   *)
(* not two requests of admins at a time.                                   *)
(***************************************************************************)
AdminRemains == OneAdmin => \E a \in Admins \cap accounts : user[a].active
=============================================================================
