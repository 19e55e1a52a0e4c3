----------------------------- MODULE MCMessaging -----------------------------
(***************************************************************************)
(* Two senders, one error that is reported and one that is not, two orders *)
(* and one chat, two handlers.                                             *)
(***************************************************************************)
EXTENDS Messaging, TLC

CONSTANTS s1, s2, broken, unknown, c1, noChat, h1, h2

MCMessages == {s1, s2}
MCConfigurations == {{}, {"gateway", "mail"}, {"eskiz", "twilio"}}
MCFaults == {broken, unknown}
MCStatus == broken :> 500 @@ unknown :> 400
MCOrders == {1, 2}
MCChats == {c1}
MCHandlers == {h1, h2}
=============================================================================
