--------------------------- MODULE MessagingProofs ---------------------------
(***************************************************************************)
(* That messages, reports and receipts are kept in order, for any number   *)
(* of senders, faults, orders and handlers: one login at the SMS provider  *)
(* at a time, one report of a fault per cooldown, and no buyer told the    *)
(* opposite of what his order says.                                        *)
(*                                                                         *)
(* The types are inductive with two facts more: a fault that was reported  *)
(* is still remembered (Remembered), and a handler that works on an order  *)
(* has one, with a chat if it is forwarding a photo (Working). What a      *)
(* handler is about to tell stays true because nobody else decides on the  *)
(* same order meanwhile (OneHand).                                         *)
(***************************************************************************)
EXTENDS Messaging, TLAPS

\* A fault reported within the cooldown is in recentErrorSends.
Remembered == \A f \in Faults : reports[f] = 0 \/ f \in recent

Working ==
  \A h \in Handlers :
    /\ hand[h].op # "idle" => hand[h].order \in Orders
    /\ hand[h].op = "idle" => hand[h] = NoHand
    /\ hand[h].op = "photo" => chat[hand[h].order] # NoChat
    /\ hand[h].stage = "tell" => hand[h].op \in Decisions

OneHand ==
  OneCall => \A g, h \in Handlers :
    hand[g].op # "idle" /\ hand[h].op # "idle" /\ hand[g].order = hand[h].order => g = h

Typed == TypeOK /\ Remembered /\ Working
-----------------------------------------------------------------------------
(***************************************************************************)
(* Sending keeps one login: whoever needs one while it is in flight joins  *)
(* it, and all who wait for it go on together.                             *)
(***************************************************************************)
LEMMA SmsTyped ==
  ASSUME SmsTypeOK,
         \/ LoginAnswered \/ Expired
         \/ \E s \in Messages : \/ Answered(s)
                                \/ \E via \in Providers \cup {"mail", "log"} : Send(s, via)
  PROVE  SmsTypeOK'
<1> USE DEF SmsTypeOK, Tokens, Message
<1>1. "eskiz" \in Providers
  BY DEF Providers
<1>2. ASSUME NEW s \in Messages, EskizLogin(s, TRUE) \/ EskizLogin(s, FALSE)
      PROVE  /\ message' \in [Messages -> Message] /\ logins' = 1
  <2> DEFINE x(again) == [state |-> "login", via |-> "eskiz", token |-> "none",
                          again |-> again]
  <2>1. x(TRUE) \in Message /\ x(FALSE) \in Message
    BY <1>1
  <2>2. /\ \/ message' = [message EXCEPT ![s] = x(TRUE)]
           \/ message' = [message EXCEPT ![s] = x(FALSE)]
        /\ logins' = 1
    BY <1>2 DEF EskizLogin
  <2> HIDE DEF x
  <2>3. QED
    BY <2>1, <2>2
<1>3. CASE LoginAnswered
  <2>1. logins' = 0 /\ token' \in Tokens /\ UNCHANGED <<provider, mailer>>
    BY <1>3 DEF LoginAnswered
  <2>2. message' = [s \in Messages |-> message'[s]]
    BY <1>3 DEF LoginAnswered
  <2>3. ASSUME NEW s \in Messages
        PROVE  message'[s] \in Message /\ message'[s].state # "login"
    <3>1. message[s] \in Message
      OBVIOUS
    <3>2. \/ message'[s] = [message[s] EXCEPT !.state = "asked", !.token = "good"]
          \/ message'[s] = [message[s] EXCEPT !.state = "logged"]
          \/ /\ message[s].state # "login"
             /\ \E older \in {"good", "stale"} :
                  message'[s] = [message[s] EXCEPT !.token = older]
          \/ message[s].state # "login" /\ message'[s] = message[s]
      BY <1>3 DEF LoginAnswered
    <3>3. QED
      BY <3>1, <3>2
  <2>4. QED
    BY <2>1, <2>2, <2>3
<1>4. CASE Expired
  BY <1>4 DEF Expired
<1>5. ASSUME NEW s \in Messages, NEW state \in {"sent", "logged"}, End(s, state)
      PROVE  /\ message' \in [Messages -> Message] /\ UNCHANGED <<token, logins>>
             /\ \A x \in Messages : message'[x].state = "login" => message[x].state = "login"
  <2> DEFINE x == [[[message[s] EXCEPT !.state = state] EXCEPT !.token = "none"]
                     EXCEPT !.again = FALSE]
  <2>1. message[s] \in Message
    OBVIOUS
  <2>2. x \in Message /\ x.state # "login"
    BY <2>1
  <2>3. message' = [message EXCEPT ![s] = x] /\ UNCHANGED <<token, logins>>
    BY <1>5, <2>1 DEF End
  <2> HIDE DEF x
  <2>4. QED
    BY <2>2, <2>3
<1>6. ASSUME NEW s \in Messages, EskizLogin(s, TRUE) \/ EskizLogin(s, FALSE),
             UNCHANGED <<provider, mailer>>, token' \in Tokens
      PROVE  SmsTypeOK'
  <2>1. message' \in [Messages -> Message] /\ logins' = 1
    BY <1>2, <1>6
  <2>2. logins' \in 0 .. 1
    BY <2>1
  <2>3. provider' \in Providers \cup {"log"} /\ mailer' \in BOOLEAN
    BY <1>6
  <2>4. QED
    BY <1>6, <2>1, <2>2, <2>3
<1>7. ASSUME NEW s \in Messages, Answered(s) PROVE SmsTypeOK'
  <2>1. UNCHANGED <<provider, mailer>>
    BY <1>7 DEF Answered
  <2>2. CASE End(s, "sent") \/ End(s, "logged")
    BY <1>5, <2>1, <2>2
  <2>3. CASE EskizLogin(s, TRUE) /\ token' = "none"
    BY <1>6, <2>1, <2>3
  <2>4. QED
    BY <1>7, <2>2, <2>3 DEF Answered
<1>8. ASSUME NEW s \in Messages, NEW via \in Providers \cup {"mail", "log"}, Send(s, via)
      PROVE  SmsTypeOK'
  <2>1. CASE EskizLogin(s, FALSE)
    <3>1. UNCHANGED <<provider, mailer, token>>
      BY <1>8 DEF Send
    <3>2. QED
      BY <1>6, <2>1, <3>1
  <2>2. PICK state \in {"logged", "asked"}, t \in Tokens :
          \/ EskizLogin(s, FALSE)
          \/ /\ message' = [message EXCEPT ![s] =
                            [state |-> state, via |-> via, token |-> t, again |-> FALSE]]
             /\ UNCHANGED logins
    BY <1>8 DEF Send
  <2>3. UNCHANGED <<provider, mailer, token>>
    BY <1>8 DEF Send
  <2> DEFINE x == [state |-> state, via |-> via, token |-> t, again |-> FALSE]
  <2>4. x \in Message /\ x.state # "login"
    OBVIOUS
  <2>5. EskizLogin(s, FALSE) \/ (message' = [message EXCEPT ![s] = x] /\ UNCHANGED logins)
    BY <2>2
  <2> HIDE DEF x
  <2>6. QED
    BY <2>1, <2>3, <2>4, <2>5
<1>9. QED
  BY <1>3, <1>4, <1>7, <1>8

(***************************************************************************)
(* The launcher does one thing at a time, and a fault is reported once     *)
(* until it is forgotten.                                                  *)
(***************************************************************************)
LEMMA BotTyped ==
  ASSUME BotTypeOK, Remembered, BotStep \/ \E f \in Faults : Throw(f)
  PROVE  BotTypeOK' /\ Remembered'
<1> USE DEF BotTypeOK, Remembered
<1>1. MinDelay \in Nat /\ MaxDelay \in Nat /\ MinDelay <= MaxDelay
  BY BotAssumption
<1>2. CASE Launched
  BY <1>2 DEF Launched, reportVars
<1>3. CASE LaunchFailed
  <2>1. delay' \in MinDelay .. MaxDelay
    BY <1>1, <1>3 DEF LaunchFailed, Retry
  <2>2. QED
    BY <1>3, <2>1 DEF LaunchFailed, Retry, reportVars
<1>4. CASE Attempt
  BY <1>4 DEF Attempt, reportVars
<1>5. CASE Stop
  <2>1. delay' \in MinDelay .. MaxDelay
    BY <1>1, <1>5 DEF Stop
  <2>2. QED
    BY <1>5, <2>1 DEF Stop, reportVars
<1>6. ASSUME NEW f \in Faults, ReportEnds(f) PROVE BotTypeOK' /\ Remembered'
  <2>1. sending' \in [Faults -> Nat]
    BY <1>6 DEF ReportEnds
  <2>2. QED
    BY <1>6, <2>1 DEF ReportEnds, launchVars
<1>7. ASSUME NEW f \in Faults, CooldownEnds(f) PROVE BotTypeOK' /\ Remembered'
  BY <1>7 DEF CooldownEnds, launchVars
<1>8. ASSUME NEW f \in Faults, Throw(f) PROVE BotTypeOK' /\ Remembered'
  <2>1. sending' \in [Faults -> Nat]
    BY <1>8 DEF Throw
  <2>2. reports[f] = 0
    BY <1>8 DEF Throw
  <2>3. reports' = [reports EXCEPT ![f] = 1]
    BY <1>8, <2>2 DEF Throw
  <2>4. QED
    BY <1>8, <2>1, <2>3 DEF Throw, launchVars
<1>9. CASE PollingFails
  <2>1. delay' \in MinDelay .. MaxDelay
    BY <1>1, <1>9 DEF PollingFails, Retry
  <2>2. QED
    BY <1>9, <2>1 DEF PollingFails, Retry, reportVars
<1>10. QED
  BY <1>2, <1>3, <1>4, <1>5, <1>6, <1>7, <1>8, <1>9 DEF BotStep
-----------------------------------------------------------------------------
\* What a step of a receipt does to the handlers: one of them begins, goes on
\* to tell, or is done.
Begins(h) ==
  \E c \in Hand : /\ Start(h, c) /\ c.op # "idle" /\ c.stage = "decide" /\ c.order \in Orders
                  /\ c.op = "photo" => chat[c.order] # NoChat
                  /\ UNCHANGED <<payment, chat, cards>>

(***************************************************************************)
(* What a handler starts with: an order, and the chat of a photo.          *)
(***************************************************************************)
LEMMA StartsSoundly ==
  ASSUME ReceiptsTypeOK, NEW h \in Handlers,
         \/ \E c \in Chats : Photo(h, c)
         \/ \E o \in Orders, op \in Decisions : Press(h, o, op) \/ OnPanel(h, o, op)
  PROVE  Begins(h)
<1>1. NoChat \notin Chats
  BY ReceiptsAssumption
<1>2. ASSUME NEW c \in Chats, Photo(h, c) PROVE Begins(h)
  <2>1. PICK o \in Orders : /\ chat[o] = c
                            /\ Start(h, [NoHand EXCEPT !.op = "photo", !.order = o, !.chat = c])
                            /\ UNCHANGED <<payment, chat, cards>>
    BY <1>2 DEF Photo
  <2> DEFINE x == [NoHand EXCEPT !.op = "photo", !.order = o, !.chat = c]
  <2>2. x \in Hand /\ x.op = "photo" /\ x.stage = "decide" /\ x.order = o
    BY DEF NoHand, Hand
  <2> HIDE DEF x
  <2>3. Start(h, x)
    BY <2>1 DEF x
  <2>4. QED
    BY <1>1, <2>1, <2>2, <2>3 DEF Begins
<1>3. ASSUME NEW o \in Orders, NEW op \in Decisions, Press(h, o, op) PROVE Begins(h)
  <2> DEFINE x == [NoHand EXCEPT !.op = op, !.order = o, !.chat = chat[o], !.bot = TRUE]
  <2>1. chat[o] \in Chats \cup {NoChat}
    BY DEF ReceiptsTypeOK
  <2>2. x \in Hand /\ x.op = op /\ x.stage = "decide" /\ x.order = o
    BY <2>1 DEF NoHand, Hand
  <2>3. Start(h, x) /\ UNCHANGED <<payment, chat, cards>>
    BY <1>3 DEF Press
  <2> HIDE DEF x
  <2>4. QED
    BY <2>2, <2>3 DEF Begins, Decisions
<1>4. ASSUME NEW o \in Orders, NEW op \in Decisions, OnPanel(h, o, op) PROVE Begins(h)
  <2> DEFINE x == [NoHand EXCEPT !.op = op, !.order = o]
  <2>1. x \in Hand /\ x.op = op /\ x.stage = "decide" /\ x.order = o
    BY DEF NoHand, Hand
  <2>2. Start(h, x) /\ UNCHANGED <<payment, chat, cards>>
    BY <1>4 DEF OnPanel
  <2> HIDE DEF x
  <2>3. QED
    BY <2>1, <2>2 DEF Begins, Decisions
<1>5. QED
  BY <1>2, <1>3, <1>4

(***************************************************************************)
(* The decision: the order gets the status that was decided on, and the    *)
(* handler goes on to tell it, or ends.                                    *)
(***************************************************************************)
LEMMA Decision ==
  ASSUME ReceiptsTypeOK, Working, NEW h \in Handlers, Decide(h)
  PROVE  /\ hand[h].op \in Decisions /\ hand[h].order \in Orders
         /\ payment' \in [Orders -> {"PENDING", "PAID", "FAILED"}]
         /\ \A o \in Orders \ {hand[h].order} : payment'[o] = payment[o]
         /\ hand' \in [Handlers -> Hand]
         /\ \A g \in Handlers \ {h} : hand'[g] = hand[g]
         /\ \/ hand'[h] = NoHand
            \/ /\ hand'[h].op = hand[h].op /\ hand'[h].order = hand[h].order
               /\ (hand[h].op = "approve") <=> (payment'[hand[h].order] = "PAID")
<1> USE DEF ReceiptsTypeOK
<1> DEFINE o == hand[h].order
           op == hand[h].op
<1>1. op \in Decisions /\ o \in Orders /\ op # "idle" /\ op # "photo" /\ hand[h] \in Hand
  BY DEF Decide, Working, Decisions
<1>2. NoHand \in Hand
  BY DEF NoHand, Hand
<1>3. \/ payment' = payment
      \/ payment' = [payment EXCEPT ![o] = Decided(o, op)] /\ ~Refused(o, op)
  BY DEF Decide
<1>4. Decided(o, op) \in {"PENDING", "PAID", "FAILED"}
  BY <1>1 DEF Decided, Decisions
<1>5. chat[o] \in Chats \cup {NoChat}
  BY <1>1
<1>6. \/ hand' = [hand EXCEPT ![h] = NoHand]
      \/ /\ \E c \in Chats \cup {NoChat} :
              hand' = [hand EXCEPT ![h] = [hand[h] EXCEPT !.stage = "tell", !.chat = c]]
         /\ payment' = [payment EXCEPT ![o] = Decided(o, op)] /\ ~Refused(o, op)
  <2>1. hand[h].chat \in Chats \cup {NoChat}
    BY <1>1 DEF Hand
  <2>2. QED
    BY <1>1, <1>5, <2>1 DEF Decide, Done
<1>7. payment' \in [Orders -> {"PENDING", "PAID", "FAILED"}]
      /\ \A q \in Orders \ {o} : payment'[q] = payment[q]
  BY <1>1, <1>3, <1>4
<1>8. CASE hand' = [hand EXCEPT ![h] = NoHand]
  BY <1>1, <1>2, <1>7, <1>8
<1>9. CASE /\ \E c \in Chats \cup {NoChat} :
                hand' = [hand EXCEPT ![h] = [hand[h] EXCEPT !.stage = "tell", !.chat = c]]
           /\ payment' = [payment EXCEPT ![o] = Decided(o, op)] /\ ~Refused(o, op)
  <2>1. PICK c \in Chats \cup {NoChat} :
          hand' = [hand EXCEPT ![h] = [hand[h] EXCEPT !.stage = "tell", !.chat = c]]
    BY <1>9
  <2> DEFINE x == [hand[h] EXCEPT !.stage = "tell", !.chat = c]
  <2>2. x \in Hand /\ x.op = op /\ x.order = o
    BY <1>1 DEF Hand
  <2>3. hand' = [hand EXCEPT ![h] = x]
    BY <2>1
  <2> HIDE DEF x
  <2>4. payment'[o] = Decided(o, op)
    BY <1>1, <1>9
  <2>5. (op = "approve") <=> (Decided(o, op) = "PAID")
    BY <1>1, <1>9 DEF Decided, Refused, Decisions
  <2>6. QED
    BY <1>1, <1>7, <2>2, <2>3, <2>4, <2>5
<1>10. QED
  BY <1>6, <1>8, <1>9

(***************************************************************************)
(* Receipts keep their types: buttons are under the photos of orders that  *)
(* have a chat, and a handler works on an order.                           *)
(***************************************************************************)
LEMMA ReceiptsTyped ==
  ASSUME ReceiptsTypeOK, Working,
         \/ \E o \in Orders, c \in Chats : PickLanguage(o, c)
         \/ \E h \in Handlers : Begins(h) \/ Forward(h) \/ Decide(h) \/ Tell(h)
  PROVE  ReceiptsTypeOK' /\ Working'
<1> USE DEF ReceiptsTypeOK, Working
<1>1. NoChat \notin Chats
  BY ReceiptsAssumption
<1>2. NoHand \in Hand /\ NoHand.op = "idle" /\ NoHand.stage = "decide"
  BY DEF NoHand, Hand
<1>3. ASSUME NEW o \in Orders, NEW c \in Chats, PickLanguage(o, c)
      PROVE  ReceiptsTypeOK' /\ Working'
  <2>1. /\ UNCHANGED <<payment, cards, hand>>
        /\ chat' \in [Orders -> Chats \cup {NoChat}]
        /\ \A q \in Orders : chat[q] # NoChat => chat'[q] # NoChat
    BY <1>1, <1>3 DEF PickLanguage
  <2>2. QED
    BY <2>1
<1>4. ASSUME NEW h \in Handlers, Begins(h) PROVE ReceiptsTypeOK' /\ Working'
  <2>1. PICK c \in Hand :
          /\ c.op # "idle" /\ c.stage = "decide" /\ c.order \in Orders
          /\ c.op = "photo" => chat[c.order] # NoChat
          /\ UNCHANGED <<payment, chat, cards>>
          /\ hand' = [hand EXCEPT ![h] = c]
    BY <1>4 DEF Begins, Start
  <2>2. QED
    BY <2>1
<1>5. ASSUME NEW h \in Handlers, Done(h), UNCHANGED <<payment, chat>>,
             cards' \subseteq {o \in Orders : chat[o] # NoChat}
      PROVE  ReceiptsTypeOK' /\ Working'
  BY <1>2, <1>5 DEF Done
<1>6. ASSUME NEW h \in Handlers, Forward(h) PROVE ReceiptsTypeOK' /\ Working'
  BY <1>5, <1>6 DEF Forward
<1>7. ASSUME NEW h \in Handlers, Tell(h) PROVE ReceiptsTypeOK' /\ Working'
  BY <1>5, <1>7 DEF Tell
<1>8. ASSUME NEW h \in Handlers, Decide(h) PROVE ReceiptsTypeOK' /\ Working'
  <2>1. UNCHANGED <<chat, cards>>
    BY <1>8 DEF Decide
  <2>2. hand[h].op \in Decisions /\ "photo" \notin Decisions /\ "idle" \notin Decisions
    BY <1>8, Decision DEF Decisions
  <2>3. QED
    BY <1>2, <1>8, <2>1, <2>2, Decision
<1>9. QED
  BY <1>3, <1>4, <1>6, <1>7, <1>8

(***************************************************************************)
(* At most one handler is about an order, and what it tells is true.       *)
(***************************************************************************)
LEMMA TruthKept ==
  ASSUME ReceiptsTypeOK, Working, OneHand, TellsTruth,
         \/ \E o \in Orders, c \in Chats : PickLanguage(o, c)
         \/ \E h \in Handlers : Begins(h) \/ Forward(h) \/ Decide(h) \/ Tell(h)
  PROVE  OneHand' /\ TellsTruth'
<1> SUFFICES ASSUME OneCall PROVE OneHand' /\ TellsTruth'
  BY DEF OneHand, TellsTruth
<1> USE DEF ReceiptsTypeOK, OneHand, TellsTruth
<1>1. NoHand.op = "idle" /\ NoHand.stage = "decide"
  BY DEF NoHand
<1>2. CASE \E o \in Orders, c \in Chats : PickLanguage(o, c)
  BY <1>2 DEF PickLanguage
<1>3. ASSUME NEW h \in Handlers, Begins(h) PROVE OneHand' /\ TellsTruth'
  <2>1. PICK c \in Hand :
          /\ c.op # "idle" /\ c.stage = "decide"
          /\ payment' = payment /\ hand' = [hand EXCEPT ![h] = c]
          /\ \A g \in Handlers : hand[g].order # c.order
    BY <1>3 DEF Begins, Start
  <2>2. QED
    BY <2>1
<1>4. ASSUME NEW h \in Handlers, Forward(h) \/ Tell(h) PROVE OneHand' /\ TellsTruth'
  <2>1. payment' = payment /\ hand' = [hand EXCEPT ![h] = NoHand]
    BY <1>4 DEF Forward, Tell, Done
  <2>2. QED
    BY <1>1, <2>1
<1>5. ASSUME NEW h \in Handlers, Decide(h) PROVE OneHand' /\ TellsTruth'
  <2>1. "idle" \notin Decisions
    BY DEF Decisions
  <2>2. /\ hand[h].op \in Decisions /\ hand[h].order \in Orders
        /\ \A o \in Orders \ {hand[h].order} : payment'[o] = payment[o]
        /\ \A g \in Handlers \ {h} : hand'[g] = hand[g]
        /\ \/ hand'[h] = NoHand
           \/ /\ hand'[h].op = hand[h].op /\ hand'[h].order = hand[h].order
              /\ (hand[h].op = "approve") <=> (payment'[hand[h].order] = "PAID")
    BY <1>5, Decision
  <2>3. OneHand'
    BY <1>1, <2>1, <2>2
  <2>4. ASSUME NEW g \in Handlers, g # h, hand[g].stage = "tell"
        PROVE  (hand[g].op = "approve") <=> (payment'[hand[g].order] = "PAID")
    <3>1. hand[g].op \in Decisions /\ hand[g].op # "idle" /\ hand[g].order \in Orders
      BY <2>1, <2>4 DEF Working
    <3>2. hand[g].order # hand[h].order
      BY <2>1, <2>2, <2>4, <3>1
    <3>3. QED
      BY <2>2, <2>4, <3>1, <3>2
  <2>5. TellsTruth'
    BY <1>1, <2>2, <2>4
  <2>6. QED
    BY <2>3, <2>5
<1>6. QED
  BY <1>2, <1>3, <1>4, <1>5
-----------------------------------------------------------------------------
(***************************************************************************)
(* A step of the whole is a step of one of the three services.             *)
(***************************************************************************)
LEMMA OneService ==
  ASSUME ReceiptsTypeOK, [Next]_vars
  PROVE  /\ \/ UNCHANGED smsVars
            \/ \/ LoginAnswered \/ Expired
               \/ \E s \in Messages :
                    \/ Answered(s)
                    \/ \E via \in Providers \cup {"mail", "log"} : Send(s, via)
         /\ UNCHANGED botVars \/ BotStep \/ \E f \in Faults : Throw(f)
         /\ \/ UNCHANGED receiptVars
            \/ \E o \in Orders, c \in Chats : PickLanguage(o, c)
            \/ \E h \in Handlers : Begins(h) \/ Forward(h) \/ Decide(h) \/ Tell(h)
<1>1. CASE SmsStep
  BY <1>1 DEF SmsStep
<1>2. CASE ReceiptStep
  <2>1. UNCHANGED botVars
    BY <1>2 DEF ReceiptStep, Forward, Decide, Tell
  <2>2. QED
    BY <1>2, <2>1 DEF ReceiptStep
<1>3. CASE Request
  <2>1. ASSUME NEW h \in Handlers,
               \/ \E c \in Chats : Photo(h, c)
               \/ \E o \in Orders, op \in Decisions : Press(h, o, op) \/ OnPanel(h, o, op)
        PROVE  Begins(h) /\ UNCHANGED botVars
    BY <2>1, StartsSoundly DEF Photo, Press, OnPanel
  <2>2. ASSUME NEW o \in Orders, NEW c \in Chats, PickLanguage(o, c) PROVE UNCHANGED botVars
    BY <2>2 DEF PickLanguage
  <2>3. QED
    BY <1>3, <2>1, <2>2 DEF Request
<1>4. CASE BotStep /\ UNCHANGED <<smsVars, receiptVars, requests>>
  BY <1>4
<1>5. CASE UNCHANGED vars
  BY <1>5 DEF vars
<1>6. QED
  BY <1>1, <1>2, <1>3, <1>4, <1>5 DEF Next

(***************************************************************************)
(* Every step keeps the types of the three services.                       *)
(***************************************************************************)
LEMMA NextTyped == Typed /\ [Next]_vars => Typed'
<1> SUFFICES ASSUME Typed, [Next]_vars PROVE Typed'
  OBVIOUS
<1> USE DEF Typed, TypeOK
<1>1. SmsTypeOK'
  <2>1. CASE UNCHANGED smsVars
    BY <2>1 DEF smsVars, SmsTypeOK
  <2>2. QED
    BY <2>1, OneService, SmsTyped
<1>2. BotTypeOK' /\ Remembered'
  <2>1. CASE UNCHANGED botVars
    BY <2>1 DEF botVars, launchVars, reportVars, BotTypeOK, Remembered
  <2>2. QED
    BY <2>1, OneService, BotTyped
<1>3. ReceiptsTypeOK' /\ Working'
  <2>1. CASE UNCHANGED receiptVars
    BY <2>1 DEF receiptVars, ReceiptsTypeOK, Working
  <2>2. QED
    BY <2>1, OneService, ReceiptsTyped
<1>4. requests' \in 0 .. MaxRequests
  <2>1. requests' = requests \/ (requests < MaxRequests /\ requests' = requests + 1)
    BY DEF Next, SmsStep, ReceiptStep, Request, vars
  <2>2. QED
    BY <2>1, MessagingAssumption
<1>5. QED
  BY <1>1, <1>2, <1>3, <1>4

(***************************************************************************)
(* At start-up nothing is on its way, whatever the tables hold.            *)
(***************************************************************************)
LEMMA InitTyped == Init => Typed /\ OneHand /\ TellsTruth
<1> SUFFICES ASSUME Init PROVE Typed /\ OneHand /\ TellsTruth
  OBVIOUS
<1>1. SmsTypeOK
  <2>1. PICK configured \in Configurations :
          provider = Chosen(configured) /\ mailer = ("mail" \in configured)
    BY DEF Init, InitSms
  <2>2. provider \in Providers \cup {"log"} /\ mailer \in BOOLEAN
    BY <2>1 DEF Chosen, Providers
  <2>3. QED
    BY <2>2 DEF Init, InitSms, SmsTypeOK, Tokens, Message
<1>2. BotTypeOK /\ Remembered
  <2>1. MinDelay \in MinDelay .. MaxDelay
    BY BotAssumption
  <2>2. /\ stopped \in BOOLEAN /\ launching \in BOOLEAN /\ online \in BOOLEAN
        /\ timer \in BOOLEAN /\ ~online /\ ~timer
    BY Zenon DEF Init, InitBot
  <2>3. /\ recent \subseteq Faults /\ delay \in MinDelay .. MaxDelay
        /\ sending \in [Faults -> Nat] /\ reports \in [Faults -> 0 .. 1]
        /\ \A f \in Faults : reports[f] = 0
    BY <2>1 DEF Init, InitBot
  <2>4. QED
    BY <2>2, <2>3 DEF BotTypeOK, Remembered
<1>3. ReceiptsTypeOK /\ Working /\ OneHand /\ TellsTruth
  <2>1. NoHand \in Hand /\ NoHand.op = "idle" /\ NoHand.stage = "decide"
    BY DEF NoHand, Hand
  <2>2. QED
    BY <2>1 DEF Init, InitReceipts, ReceiptsTypeOK, Working, OneHand, TellsTruth
<1>4. requests \in 0 .. MaxRequests
  BY MessagingAssumption DEF Init
<1>5. QED
  BY <1>1, <1>2, <1>3, <1>4 DEF Typed, TypeOK

(***************************************************************************)
(* One login at the SMS provider at a time, found in place by whoever      *)
(* waits for it; one report of a fault per cooldown; a launcher that does  *)
(* one thing at a time; buttons only under receipts of orders that have a  *)
(* chat. All of it is what TypeOK says.                                    *)
(***************************************************************************)
THEOREM MessagesTyped == Spec => []TypeOK
<1>1. Typed => TypeOK
  BY DEF Typed
<1>2. QED
  BY InitTyped, NextTyped, <1>1, PTL DEF Spec

(***************************************************************************)
(* A buyer is told "confirmed" just when his order is paid, provided at    *)
(* most one handler at a time is about an order.                           *)
(***************************************************************************)
THEOREM TruthTold == Spec => []TellsTruth
<1>1. Typed /\ OneHand /\ TellsTruth /\ [Next]_vars => OneHand' /\ TellsTruth'
  <2> SUFFICES ASSUME Typed, OneHand, TellsTruth, [Next]_vars PROVE OneHand' /\ TellsTruth'
    OBVIOUS
  <2>1. CASE UNCHANGED receiptVars
    BY <2>1 DEF receiptVars, OneHand, TellsTruth
  <2>2. QED
    BY <2>1, OneService, TruthKept DEF Typed, TypeOK
<1>2. QED
  BY InitTyped, NextTyped, <1>1, PTL DEF Spec

(***************************************************************************)
(* A bot that was stopped has no timer and makes no attempt any more, also *)
(* when an attempt made before, or polling that goes on, fails later: the  *)
(* half of BotObeys that is about every moment.                            *)
(***************************************************************************)
THEOREM StopsForGood ==
  Spec => [](stopped => ~timer) /\ [][stopped => (launching' => launching)]_vars
<1>1. Init => (stopped => ~timer)
  BY DEF Init, InitBot
<1>2. ASSUME stopped => ~timer, [Next]_vars
      PROVE  (stopped => ~timer)' /\ (stopped => (launching' => launching))
  <2>1. \/ UNCHANGED launchVars
        \/ Launched \/ LaunchFailed \/ PollingFails \/ Attempt \/ Stop
    BY <1>2 DEF Next, SmsStep, ReceiptStep, Request, BotStep, ReportEnds, CooldownEnds, Throw,
                Forward, Decide, Tell, PickLanguage, Photo, Press, OnPanel, botVars, vars
  <2>2. CASE UNCHANGED launchVars
    <3>1. stopped' = stopped /\ timer' = timer /\ launching' = launching
      BY <2>2 DEF launchVars
    <3>2. ASSUME stopped', timer' PROVE FALSE
      BY <1>2, <3>1, <3>2
    <3>3. ASSUME launching' PROVE launching
      BY <3>1, <3>3, Zenon
    <3>4. QED
      BY <3>2, <3>3
  <2>3. CASE Launched
    BY <1>2, <2>3, Zenon DEF Launched
  <2>4. CASE LaunchFailed \/ PollingFails
    <3>1. stopped' = stopped /\ (~stopped \/ timer' = timer)
      BY <2>4 DEF LaunchFailed, PollingFails
    <3>2. launching' = FALSE \/ launching' = launching
      BY <2>4 DEF LaunchFailed, PollingFails
    <3>3. ASSUME stopped', timer' PROVE FALSE
      BY <1>2, <3>1, <3>3
    <3>4. launching' => launching
      BY <3>2, Zenon
    <3>5. QED
      BY <3>3, <3>4
  <2>5. CASE Attempt
    BY <1>2, <2>5, Zenon DEF Attempt
  <2>6. CASE Stop
    BY <1>2, <2>6, Zenon DEF Stop
  <2>7. QED
    BY <2>1, <2>2, <2>3, <2>4, <2>5, <2>6
<1>3. (stopped => ~timer) /\ [Next]_vars => (stopped => ~timer)'
  BY <1>2
<1>4. (stopped => ~timer) /\ [Next]_vars => [stopped => (launching' => launching)]_vars
  BY <1>2
<1>5. QED
  BY <1>1, <1>3, <1>4, PTL DEF Spec
=============================================================================
