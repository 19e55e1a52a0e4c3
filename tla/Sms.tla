--------------------------------- MODULE Sms ---------------------------------
(***************************************************************************)
(* SmsService and MailService: how a code or a link leaves the shop.       *)
(*                                                                         *)
(* The environment decides at start-up which provider is used.  Whatever   *)
(* goes wrong with it, the message is written to the server's log instead, *)
(* so that a send always ends and never throws.  Eskiz alone has state:    *)
(* a cached token, and one login that all senders without a token share.   *)
(* A token is "good" until the provider stops accepting it.                *)
(***************************************************************************)
EXTENDS Integers

CONSTANTS
  Messages,       \* sends that can be in flight
  Configurations  \* the sets of channels the environment may configure

VARIABLES
  provider,  \* where codes go; "log" without any provider
  mailer,    \* TRUE: SMTP is configured
  token,     \* eskizToken
  logins,    \* logins in flight; eskizLoginPromise is set while there is one
  message    \* each send

smsVars == <<provider, mailer, token, logins, message>>

Providers == {"devsms", "gateway", "eskiz", "twilio"}
ASSUME SmsAssumption == Configurations # {} /\ Configurations \subseteq SUBSET (Providers \cup {"mail"})

Tokens == {"none", "good", "stale"}
Message == [state : {"idle", "login", "asked", "sent", "logged"},
            via : Providers \cup {"mail", "log"}, token : Tokens, again : BOOLEAN]
InFlight(s) == message[s].state \in {"login", "asked"}

\* There is never more than one login in flight (comment above
\* eskizLoginPromise), and a sender that waits for one finds it there.
SmsTypeOK ==
  /\ provider \in Providers \cup {"log"} /\ mailer \in BOOLEAN
  /\ token \in Tokens
  /\ logins \in 0 .. 1
  /\ message \in [Messages -> Message]
  /\ \A s \in Messages : message[s].state = "login" => logins = 1

\* The first that is configured, in this order; the gateway and Twilio need
\* all of their settings.
Chosen(configured) ==
  IF "devsms" \in configured THEN "devsms"
  ELSE IF "gateway" \in configured THEN "gateway"
  ELSE IF "eskiz" \in configured THEN "eskiz"
  ELSE IF "twilio" \in configured THEN "twilio" ELSE "log"

InitSms ==
  /\ \E configured \in Configurations :
       provider = Chosen(configured) /\ mailer = ("mail" \in configured)
  /\ token = "none" /\ logins = 0
  /\ message = [s \in Messages |->
                  [state |-> "idle", via |-> "log", token |-> "none", again |-> FALSE]]

\* Mutant of EskizLogin: every sender starts a login of its own.
EskizLoginEach(s, again) ==
  /\ logins' = logins + 1
  /\ message' = [message EXCEPT ![s] =
                   [state |-> "login", via |-> "eskiz", token |-> "none", again |-> again]]

\* eskizLogin: joins the login in flight, or starts one.
EskizLogin(s, again) ==
  /\ logins' = 1
  /\ message' = [message EXCEPT ![s] =
                   [state |-> "login", via |-> "eskiz", token |-> "none", again |-> again]]

\* sendVerificationCode and sendPasswordResetLink, up to their first request.
Send(s, via) ==
  /\ ~InFlight(s)
  /\ via \in {provider, IF mailer THEN "mail" ELSE "log"}
  /\ \/ /\ via = "eskiz" /\ token = "none"
        /\ EskizLogin(s, FALSE)
     \/ /\ via # "eskiz" \/ token # "none"
        /\ message' = [message EXCEPT ![s] =
                         [state |-> IF via = "log" THEN "logged" ELSE "asked", via |-> via,
                          token |-> IF via = "eskiz" THEN token ELSE "none", again |-> FALSE]]
        /\ UNCHANGED logins
  /\ UNCHANGED <<provider, mailer, token>>

\* Mutant of LoginAnswered: only the sender that asked for it goes on.
LoginAnsweredToOne ==
  /\ logins > 0
  /\ logins' = 0
  /\ token' = "good"
  /\ \E s \in Messages :
       /\ message[s].state = "login"
       /\ message' = [message EXCEPT ![s].state = "asked", ![s].token = "good"]
  /\ UNCHANGED <<provider, mailer>>

\* The login is answered; all who wait go on in the same turn of the event
\* loop. The provider may stop accepting the tokens it gave before.
LoginAnswered ==
  /\ logins > 0
  /\ logins' = 0
  /\ \/ /\ token' = "good"
        /\ \E older \in {"good", "stale"} :
             message' = [s \in Messages |->
               IF message[s].state = "login"
               THEN [message[s] EXCEPT !.state = "asked", !.token = "good"]
               ELSE IF message[s].token = "good" THEN [message[s] EXCEPT !.token = older]
               ELSE message[s]]
     \/ /\ message' = [s \in Messages |->
              IF message[s].state = "login" THEN [message[s] EXCEPT !.state = "logged"]
              ELSE message[s]]
        /\ UNCHANGED token
  /\ UNCHANGED <<provider, mailer>>

End(s, state) ==
  /\ message' = [message EXCEPT ![s].state = state, ![s].token = "none", ![s].again = FALSE]
  /\ UNCHANGED <<token, logins>>

\* A request to a provider ends: accepted, or an error, a refusal for good or
\* no answer in time; a refused token is replaced once, by a new login.
Answered(s) ==
  /\ message[s].state = "asked"
  /\ \/ message[s].token # "stale" /\ End(s, "sent")
     \/ End(s, "logged")
     \/ /\ message[s].token = "stale" /\ ~message[s].again
        /\ token' = "none"
        /\ EskizLogin(s, TRUE)
  /\ UNCHANGED <<provider, mailer>>

\* The provider's tokens run out.
Expired ==
  /\ token = "good" \/ \E s \in Messages : message[s].token = "good"
  /\ token' = IF token = "good" THEN "stale" ELSE token
  /\ message' = [s \in Messages |->
       IF message[s].token = "good" THEN [message[s] EXCEPT !.token = "stale"] ELSE message[s]]
  /\ UNCHANGED <<provider, mailer, logins>>
=============================================================================
