--------------------------------- MODULE Bot ---------------------------------
(***************************************************************************)
(* The Telegram bots: launchBotWithRetry, which brings a bot online and    *)
(* keeps trying, and the reports of errors to the administrator.           *)
(***************************************************************************)
EXTENDS Integers

CONSTANTS
  MinDelay, MaxDelay,  \* of the launcher's back-off
  Faults,              \* what a handler can throw: place, status and text
  Status               \* the status of each

ASSUME BotAssumption ==
  /\ MinDelay \in Nat \ {0} /\ MaxDelay \in Nat /\ MinDelay <= MaxDelay
  /\ Status \in [Faults -> Nat]

VARIABLES
  stopped,    \* stop() was called
  launching,  \* bot.launch() has not settled
  online,
  timer,      \* the timer of the next attempt is set
  delay,
  recent,     \* recentErrorSends, as far as it is not older than the cooldown
  sending,    \* reports in flight
  reports     \* reports of each fault since it was last forgotten

launchVars == <<stopped, launching, online, timer, delay>>
reportVars == <<recent, sending, reports>>
botVars == <<launchVars, reportVars>>

\* A fault is reported at most once in the cooldown (comment above
\* recentErrorSends), and the launcher does one thing at a time.
BotTypeOK ==
  /\ stopped \in BOOLEAN /\ launching \in BOOLEAN /\ online \in BOOLEAN /\ timer \in BOOLEAN
  /\ delay \in MinDelay .. MaxDelay
  /\ recent \subseteq Faults
  /\ sending \in [Faults -> Nat] /\ reports \in [Faults -> 0 .. 1]
  /\ ~(launching /\ online) /\ ~(launching /\ timer) /\ ~(online /\ timer)

\* onModuleInit of TelegramService and StockBotService makes the first attempt.
InitBot ==
  /\ stopped = FALSE /\ launching = TRUE /\ online = FALSE /\ timer = FALSE
  /\ delay = MinDelay
  /\ recent = {} /\ sending = [f \in Faults |-> 0] /\ reports = [f \in Faults |-> 0]
-----------------------------------------------------------------------------
\* The bot polls from here on. launch() itself settles when the polling ends.
Launched ==
  /\ launching
  /\ launching' = FALSE /\ online' = TRUE
  /\ UNCHANGED <<stopped, timer, delay, reportVars>>

\* The timer of the next attempt, and twice the wait for the one after it.
Retry ==
  /\ timer' = TRUE
  /\ delay' = IF 2 * delay > MaxDelay THEN MaxDelay ELSE 2 * delay

\* Mutant of LaunchFailed: the failure of an attempt made before stop.
LaunchFailedAnyway ==
  /\ launching
  /\ launching' = FALSE
  /\ Retry
  /\ UNCHANGED <<stopped, online, reportVars>>

LaunchFailed ==
  /\ launching
  /\ launching' = FALSE
  /\ \/ ~stopped /\ Retry
     \/ stopped /\ UNCHANGED <<timer, delay>>
  /\ UNCHANGED <<stopped, online, reportVars>>

\* The polling breaks off (a refused token, a second poller, an error a
\* handler lets through): the same catch takes the bot for not launched.
PollingFails ==
  /\ online
  /\ online' = FALSE
  /\ \/ ~stopped /\ Retry
     \/ stopped /\ UNCHANGED <<timer, delay>>
  /\ UNCHANGED <<stopped, launching, reportVars>>

\* The timer calls attempt, which does nothing once stopped.
Attempt ==
  /\ timer
  /\ timer' = FALSE
  /\ launching' = ~stopped
  /\ UNCHANGED <<stopped, online, delay, reportVars>>

\* onModuleDestroy: stop of the handle, then of the bot, whose polling ends
\* without an error.
Stop ==
  /\ ~stopped
  /\ stopped' = TRUE /\ timer' = FALSE /\ online' = FALSE
  /\ delay' = IF online THEN MinDelay ELSE delay
  /\ UNCHANGED <<launching, reportVars>>
-----------------------------------------------------------------------------
\* IGNORED_STATUSES
Ignored == {400, 401, 403, 409, 429}

\* GqlErrorReporterFilter and notifyServerError: noted before it is sent, so
\* a report that cannot be sent keeps the next ones back as well. Entries
\* older than the cooldown count no more, whether or not they were pruned.
Throw(f) ==
  /\ Status[f] \notin Ignored
  /\ f \notin recent
  /\ recent' = recent \cup {f}
  /\ sending' = [sending EXCEPT ![f] = @ + 1]
  /\ reports' = [reports EXCEPT ![f] = @ + 1]
  /\ UNCHANGED launchVars

\* sendMessage settles; an error is only logged.
ReportEnds(f) ==
  /\ sending[f] > 0
  /\ sending' = [sending EXCEPT ![f] = @ - 1]
  /\ UNCHANGED <<recent, reports, launchVars>>

\* ERROR_COOLDOWN_MS have passed since the entry was written.
CooldownEnds(f) ==
  /\ f \in recent
  /\ recent' = recent \ {f}
  /\ reports' = [reports EXCEPT ![f] = 0]
  /\ UNCHANGED <<sending, launchVars>>

BotStep ==
  \/ Launched \/ LaunchFailed \/ PollingFails \/ Attempt \/ Stop
  \/ \E f \in Faults : ReportEnds(f) \/ CooldownEnds(f)
=============================================================================
