------------------------------ MODULE Messaging ------------------------------
(***************************************************************************)
(* The services that talk to the outside, composed: codes and links that   *)
(* are sent, receipts that are decided, errors that are reported, and the  *)
(* bot that comes and goes under all of them.                              *)
(***************************************************************************)
EXTENDS Receipts, Sms

CONSTANT MaxRequests  \* requests and updates, a bound of the model

ASSUME MessagingAssumption == MaxRequests \in Nat

VARIABLE requests

vars == <<smsVars, botVars, receiptVars, requests>>

TypeOK == SmsTypeOK /\ BotTypeOK /\ ReceiptsTypeOK /\ requests \in 0 .. MaxRequests

Init == InitSms /\ InitBot /\ InitReceipts /\ requests = 0

SmsStep ==
  /\ LoginAnswered \/ Expired \/ \E s \in Messages : Answered(s)
  /\ UNCHANGED <<botVars, receiptVars, requests>>

ReceiptStep ==
  /\ \E h \in Handlers : Forward(h) \/ Decide(h) \/ Tell(h)
  /\ UNCHANGED <<smsVars, requests>>

Request ==
  /\ requests < MaxRequests
  /\ requests' = requests + 1
  /\ \/ /\ \E s \in Messages, via \in Providers \cup {"mail", "log"} : Send(s, via)
        /\ UNCHANGED <<botVars, receiptVars>>
     \/ /\ \E f \in Faults : Throw(f)
        /\ UNCHANGED <<smsVars, receiptVars>>
     \/ /\ \/ \E o \in Orders, c \in Chats : PickLanguage(o, c)
           \/ \E h \in Handlers, c \in Chats : Photo(h, c)
           \/ \E h \in Handlers, o \in Orders, op \in Decisions :
                Press(h, o, op) \/ OnPanel(h, o, op)
        /\ UNCHANGED smsVars

Next ==
  \/ SmsStep \/ ReceiptStep \/ Request
  \/ BotStep /\ UNCHANGED <<smsVars, receiptVars, requests>>

Spec == Init /\ [][Next]_vars

\* Requests to providers settle (fetch and sendMail give up in the end) and
\* timers fire. Telegram is reachable now and then: some attempts succeed.
Fairness ==
  /\ WF_vars(LoginAnswered /\ SmsStep)
  /\ \A s \in Messages : WF_vars(Answered(s) /\ SmsStep)
  /\ WF_vars(Attempt /\ UNCHANGED <<smsVars, receiptVars, requests>>)
  /\ WF_vars(LaunchFailed /\ UNCHANGED <<smsVars, receiptVars, requests>>)
  /\ SF_vars(Launched /\ UNCHANGED <<smsVars, receiptVars, requests>>)

FairSpec == Spec /\ Fairness
-----------------------------------------------------------------------------
(***************************************************************************)
(* Every code and link ends up with the provider or in the server's log    *)
(* (sendViaEskiz, "Fall back to logging the code"), whichever senders      *)
(* share a login and whenever tokens expire under them.                    *)
(***************************************************************************)
SendsEnd == \A s \in Messages : InFlight(s) ~> ~InFlight(s)

(***************************************************************************)
(* The launcher brings the bot online, and online again whenever its       *)
(* polling breaks off, however many attempts fail, unless it is stopped;   *)
(* and once stopped it has no timer set, also when an attempt made before, *)
(* or polling that goes on, fails later (launch-bot-with-retry.ts).        *)
(***************************************************************************)
BotObeys == (TRUE ~> online \/ stopped) /\ [](stopped => ~timer)
=============================================================================
