------------------------------- MODULE Receipts -------------------------------
(***************************************************************************)
(* Payment by receipt: the buyer binds an order to his Telegram chat and   *)
(* sends a photo, the administrator confirms or rejects it under the photo *)
(* or on the web panel, and the buyer is told (TelegramService,            *)
(* OrderResolver).                                                         *)
(*                                                                         *)
(* The calls into OrderService are one step each here: what happens inside *)
(* them, to stock above all, is OrderStock.  Orders are numbered in the    *)
(* order they were placed.                                                 *)
(***************************************************************************)
EXTENDS Bot

CONSTANTS
  Orders, Chats, NoChat,
  Handlers,      \* updates and mutations that can be in progress
  OneCall,       \* TRUE: at most one of them is about any order
  AdminChat      \* TRUE: TELEGRAM_ADMIN_CHAT_ID is set

ASSUME ReceiptsAssumption ==
  /\ Orders \subseteq Nat \ {0} /\ NoChat \notin Chats
  /\ OneCall \in BOOLEAN /\ AdminChat \in BOOLEAN

VARIABLES
  payment,  \* paymentStatus of each order
  chat,     \* telegramChatId of each order
  cards,    \* the orders with buttons in the admin's chat
  hand      \* what each handler is doing

receiptVars == <<payment, chat, cards, hand>>

Decisions == {"approve", "unpay", "reject"}
Hand == [op : {"idle", "photo"} \cup Decisions, stage : {"decide", "tell"},
         order : Orders \cup {0}, chat : Chats \cup {NoChat}, bot : BOOLEAN]
NoHand == [op |-> "idle", stage |-> "decide", order |-> 0, chat |-> NoChat, bot |-> FALSE]

ReceiptsTypeOK ==
  /\ payment \in [Orders -> {"PENDING", "PAID", "FAILED"}]
  /\ chat \in [Orders -> Chats \cup {NoChat}]
  /\ cards \subseteq {o \in Orders : chat[o] # NoChat}
  /\ hand \in [Handlers -> Hand]

\* The process starts with whatever the tables and the chats hold by then.
InitReceipts ==
  /\ payment \in [Orders -> {"PENDING", "PAID", "FAILED"}]
  /\ chat \in [Orders -> Chats \cup {NoChat}]
  /\ cards = {o \in Orders : chat[o] # NoChat}
  /\ hand = [h \in Handlers |-> NoHand]

Done(h) == hand' = [hand EXCEPT ![h] = NoHand]
Start(h, c) ==
  /\ hand[h].op = "idle"
  /\ OneCall => \A g \in Handlers : hand[g].order # c.order
  /\ hand' = [hand EXCEPT ![h] = c]

\* A language is picked under the greeting of /start, which carries the order.
PickLanguage(o, c) ==
  /\ online
  /\ chat' = [chat EXCEPT ![o] = c]
  /\ UNCHANGED <<botVars, payment, cards, hand>>

\* A photo: the latest order of the chat that is not paid, rejected ones too.
Photo(h, c) ==
  LET open == {o \in Orders : chat[o] = c /\ payment[o] \in {"PENDING", "FAILED"}}
  IN  /\ online
      /\ AdminChat
      /\ \E o \in open :
           /\ \A p \in open : p <= o
           /\ Start(h, [NoHand EXCEPT !.op = "photo", !.order = o, !.chat = c])
      /\ UNCHANGED <<botVars, payment, chat, cards>>

\* It is forwarded with the two buttons, if Telegram takes it.
Forward(h) ==
  /\ hand[h].op = "photo"
  /\ cards' \in {cards, cards \cup {hand[h].order}}
  /\ Done(h)
  /\ UNCHANGED <<botVars, payment, chat>>

\* The admin presses a button; buttons stay under the photo. findById.
Press(h, o, op) ==
  /\ online
  /\ o \in cards
  /\ op \in {"approve", "reject"}
  /\ Start(h, [NoHand EXCEPT !.op = op, !.order = o, !.chat = chat[o], !.bot = TRUE])
  /\ UNCHANGED <<botVars, payment, chat, cards>>

\* setOrderPaymentStatus and rejectOrderPayment of the web panel.
OnPanel(h, o, op) ==
  /\ op \in Decisions
  /\ Start(h, [NoHand EXCEPT !.op = op, !.order = o])
  /\ UNCHANGED <<botVars, payment, chat, cards>>

\* Mutant of Refused: a rejection of a paid order has no effect and no error.
RefusedNever(o, op) == FALSE

\* rejectPayment throws for a paid order, setPaymentStatus without stock.
Refused(o, op) == op = "reject" /\ payment[o] = "PAID"

Decided(o, op) ==
  CASE op = "approve" -> "PAID"
    [] op = "unpay"   -> IF payment[o] = "PAID" THEN "PENDING" ELSE payment[o]
    [] op = "reject"  -> IF payment[o] = "PAID" THEN "PAID" ELSE "FAILED"

\* The call into OrderService. The panel goes on with the order it returns,
\* the bot with the one it has read, after an answer and an edit of the
\* caption that may throw. Any error ends the handler before it tells.
Decide(h) ==
  LET o == hand[h].order
      op == hand[h].op
  IN  /\ op \in Decisions /\ hand[h].stage = "decide"
      /\ \/ /\ ~Refused(o, op)
            /\ payment' = [payment EXCEPT ![o] = Decided(o, op)]
            /\ \/ hand' = [hand EXCEPT ![h].stage = "tell",
                                       ![h].chat = IF hand[h].bot THEN @ ELSE chat[o]]
               \/ hand[h].bot /\ Done(h)
         \/ /\ op # "unpay"
            /\ Refused(o, op) \/ (op = "approve" /\ payment[o] # "PAID")
            /\ Done(h)
            /\ UNCHANGED payment
      /\ UNCHANGED <<botVars, chat, cards>>

\* notifyPaymentStatus: "confirmed" after an approval, else "rejected"; nothing
\* without a chat; a message that cannot be sent is logged.
Tell(h) ==
  /\ hand[h].stage = "tell"
  /\ Done(h)
  /\ UNCHANGED <<botVars, payment, chat, cards>>
-----------------------------------------------------------------------------
(***************************************************************************)
(* What a handler is about to tell the buyer is what the order says: he    *)
(* reads "confirmed" just when it is paid (notifyPaymentStatus), from      *)
(* whichever of the two places the decision came, after retries of a       *)
(* rejected receipt and with buttons pressed again later.  Only under      *)
(* OneCall, with one handler at a time about an order: of two that         *)
(* overlap, the first can tell what the second has already undone, and no  *)
(* code stands in the way of that.                                         *)
(***************************************************************************)
TellsTruth ==
  OneCall => \A h \in Handlers : hand[h].stage = "tell" =>
    ((hand[h].op = "approve") <=> (payment[hand[h].order] = "PAID"))
=============================================================================
