------------------------------- MODULE Subscribers -------------------------------
(***************************************************************************)
(* The bus with those who read it and pass on what they read: to the       *)
(* outside (WebSocket streams, webhooks and the bots' event streams) and   *)
(* to the users of the hub (watches, OPChat and the greeter).  The bus     *)
(* waits for none of them, so they meet only in what is published;         *)
(* `using' says which of them a behaviour has, and which events.           *)
(***************************************************************************)
EXTENDS WebSockets, Webhooks, BotStreams, Watches, OpChat, Greeter

CONSTANT Uses   \* services that are used together, and the events of interest to them

Services == {"sockets", "webhooks", "bots", "watches", "opchat", "greeter"}

ASSUME UsesAssumption == Uses \subseteq [services : SUBSET Services, kinds : SUBSET Kinds]

VARIABLE using

outside == <<wsVars, hookVars, botVars>>
inside == <<watchVars, opVars, greetVars>>
vars == <<log, outside, inside, using>>

\* Nobody but the greeter and those who set the topic cares which it is at the start.
Init ==
    /\ log = <<>>
    /\ WsInit /\ HookInit /\ BotInit
    /\ WatchInit /\ OpInit /\ GreetInit
    /\ using \in Uses
    /\ "greeter" \in using.services \/ hubTopic = NoTopicYet

PublishEvent ==
    /\ \E kind \in using.kinds : Publish(kind)
    /\ UNCHANGED <<outside, inside, using>>

UsesNow(service) == service \in using.services /\ UNCHANGED using

Next ==
    \/ PublishEvent
    \/ UsesNow("sockets") /\ WsNext /\ UNCHANGED <<hookVars, botVars, inside>>
    \/ UsesNow("webhooks") /\ HookNext /\ UNCHANGED <<wsVars, botVars, inside>>
    \/ UsesNow("bots") /\ BotNext /\ UNCHANGED <<wsVars, hookVars, inside>>
    \/ UsesNow("watches") /\ WatchNext /\ UNCHANGED <<outside, opVars, greetVars>>
    \/ UsesNow("opchat") /\ OpNext /\ UNCHANGED <<outside, watchVars, greetVars>>
    \/ UsesNow("greeter") /\ GreetNext /\ UNCHANGED <<outside, watchVars, opVars>>

Spec == Init /\ [][Next]_vars

FairSpec == Spec /\ WsFairness /\ HookFairness /\ BotFairness

--------------------------------------------------------------------------------
(* Properties: those of the services together.                              *)

\* The state is well formed.
TypeOK ==
    /\ log \in Seq(Kinds)
    /\ WsTypeOK /\ HookTypeOK /\ BotTypeOK
    /\ WatchTypeOK /\ OpTypeOK /\ GreetTypeOK

\* The limits on connections and webhooks hold but for requests that race, and the
\* connections' counter covers the streams (api/websocket.rs:75-100,
\* webhook/manager.rs:77-104).
LimitsHold == WsLimit /\ WsCounterCovers /\ HookLimit

\* WebSocket clients see all they asked for, or how much they missed.  A bot sees all of
\* its channel, or how much of it it missed; into its channel comes all it subscribed to
\* but what its forwarder lagged over, of which it learns nothing
\* (api/websocket.rs:159-184, api/bot.rs:764-788, 887-925).
StreamsComplete == WsComplete /\ ChannelComplete /\ BotComplete

\* Nothing is passed on twice on one way, nor out of order to a bot
\* (api/bot.rs:890-915, main.rs:312-329, webhook/delivery.rs:37-79).
NothingTwice == ChannelOrder /\ RepeatsNeedLostAnswers

\* Watchers are told of whom they watch, and whom the user map shows as operators of
\* OPChat's lines, and nobody whom it does not any more; and users who are owed the topic
\* are shown it (db/event_processor.rs:85-114, opchat.rs:46-73, greeter.rs:35-61).
NoticesTrue == WatchersTold /\ OpsHear /\ TopicOnShow

\* Whatever its client, bot or webhook has left behind ends (api/websocket.rs:191-214,
\* api/bot.rs:773-785, webhook/delivery.rs:37-86).
LeftoversEnd == WsEnds /\ BotStreamsEnd /\ GoneHooksFallSilent
================================================================================
