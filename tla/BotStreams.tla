------------------------------- MODULE BotStreams -------------------------------
(***************************************************************************)
(* What reaches a bot (src/src/api/bot.rs): each registration has a        *)
(* channel, a ring like the bus, that its forwarder fills with the events  *)
(* it subscribed to, and the command processor (src/src/main.rs) with      *)
(* private messages and with the commands the bot claims; bot_events       *)
(* streams the channel to the bot.  One nick with its registrations stands *)
(* for all.                                                                *)
(***************************************************************************)
EXTENDS EventBus

CONSTANTS
    Subscriptions, \* what bots subscribe to: sets of types, and of "command"
    Streams,      \* event streams requested at once
    BotCapacity,  \* events a channel keeps
    MaxTokens     \* bound on the registrations of a behaviour

ASSUME BotStreamsAssumption ==
    /\ Subscriptions \subseteq SUBSET (Tags \cup {"command"})
    /\ BotCapacity \in Nat \ {0}
    /\ MaxTokens \in Nat

VARIABLES
    bot,       \* the registration: token, 0 if none, and subscriptions
    given,     \* tokens given so far
    forwarder, \* per registration: its forwarder's place on the bus
    routed,    \* the command processor's place on the bus
    channel,   \* per registration: the events sent into its channel
    stream     \* the event streams

botVars == <<bot, given, forwarder, routed, channel, stream>>

NoBot == [token |-> 0, events |-> {}]
NoForwarder == [state |-> "none"]
NoStream == [state |-> "none"]

BotInit ==
    /\ bot = NoBot
    /\ given = 0
    /\ forwarder = [t \in 1 .. MaxTokens |-> NoForwarder]
    /\ routed = 0
    /\ channel = [t \in 1 .. MaxTokens |-> <<>>]
    /\ stream = [s \in Streams |-> NoStream]

--------------------------------------------------------------------------------
(* register_bot and unregister_bot, as far as the channel goes.             *)

\* The former registration's channel loses its sender.  A stream request whose token is
\* already validated is noted to have raced.
RegisterBot ==
    /\ given < MaxTokens
    /\ given' = given + 1
    /\ \E kinds \in Subscriptions :
        /\ bot' = [token |-> given + 1, events |-> kinds]
        /\ forwarder' = IF kinds = {} THEN forwarder
                        ELSE [forwarder EXCEPT ![given + 1] = [state |-> "spawned"]]
    /\ stream' = [s \in Streams |-> IF stream[s].state = "validated"
                                    THEN [stream[s] EXCEPT !.raced = TRUE] ELSE stream[s]]
    /\ UNCHANGED <<log, routed, channel>>

UnregisterBot ==
    /\ bot.token # 0
    /\ bot' = NoBot
    /\ UNCHANGED <<log, given, forwarder, routed, channel, stream>>

--------------------------------------------------------------------------------
(* hub_event_forwarder subscribes when its task first runs; what it lags    *)
(* over afterwards is logged and no more: `over' keeps it as history.       *)

ForwarderSubscribes(t) ==
    /\ forwarder[t].state = "spawned"
    /\ forwarder' = [forwarder EXCEPT ![t] = [state |-> "running", start |-> Len(log),
                                                read |-> Len(log), over |-> {}]]
    /\ UNCHANGED <<log, bot, given, routed, channel, stream>>

PassOverTo(t, place) ==
    /\ forwarder[t].state = "running"
    /\ Pending(forwarder[t].read, log) /\ Lags(forwarder[t].read, log, Capacity)
    /\ forwarder' = [forwarder EXCEPT ![t].read = place,
                                      ![t].over = @ \cup (forwarder[t].read + 1 .. place)]
    /\ UNCHANGED <<log, bot, given, routed, channel, stream>>

\* Mutant of ForwarderLags: it subscribes anew, and what the ring still kept is lost too.
ForwarderResubscribes(t) == PassOverTo(t, Len(log))

ForwarderLags(t) == PassOverTo(t, Oldest(log, Capacity))

Sent(via, k) == [via |-> via, event |-> k]

ForwardOrEnd(t, current) ==
    LET next == forwarder[t].read + 1
    IN  /\ forwarder[t].state = "running"
        /\ Pending(forwarder[t].read, log) /\ ~Lags(forwarder[t].read, log, Capacity)
        /\ IF current
           THEN /\ forwarder' = [forwarder EXCEPT ![t].read = next]
                /\ channel' = IF Tag(log[next]) \in bot.events
                              THEN [channel EXCEPT ![bot.token] =
                                       Append(@, Sent("forwarder", next))]
                              ELSE channel
           ELSE /\ forwarder' = [forwarder EXCEPT ![t] = NoForwarder]
                /\ UNCHANGED channel
        /\ UNCHANGED <<log, bot, given, routed, stream>>

\* Mutant of ForwardEvent: the forwarder asks whether the nick is registered, not by
\* which registration.
ForwardToNick(t) == ForwardOrEnd(t, bot.token # 0)

ForwardEvent(t) == ForwardOrEnd(t, bot.token = t)

--------------------------------------------------------------------------------
(* The command processor sends private messages, and commands, into the     *)
(* bot's channel itself, if it subscribed to "pm" or to "command".          *)

ProcessorLags ==
    /\ Pending(routed, log) /\ Lags(routed, log, Capacity)
    /\ routed' = Oldest(log, Capacity)
    /\ UNCHANGED <<log, bot, given, forwarder, channel, stream>>

\* A command is the bot's unless its claim was released (BotRegistry: Release).
Route ==
    LET kind == log[routed + 1]
    IN  /\ Pending(routed, log) /\ ~Lags(routed, log, Capacity)
        /\ routed' = routed + 1
        /\ \/ /\ kind \in {"pm", "command"} \cap bot.events
              /\ channel' = [channel EXCEPT ![bot.token] = Append(@, Sent("processor", routed + 1))]
           \/ /\ kind \notin {"pm"} \cap bot.events
              /\ UNCHANGED channel
        /\ UNCHANGED <<log, bot, given, forwarder, stream>>

--------------------------------------------------------------------------------
(* bot_events: the token is validated under one lock, and the channel taken *)
(* under another.                                                           *)

ValidateToken(s) ==
    /\ stream[s].state = "none"
    /\ bot.token # 0
    /\ stream' = [stream EXCEPT ![s] = [state |-> "validated", token |-> bot.token,
                                             raced |-> FALSE]]
    /\ UNCHANGED <<log, bot, given, forwarder, routed, channel>>

OpenStream(s) ==
    /\ stream[s].state = "validated"
    /\ stream' = [stream EXCEPT ![s] =
                     IF bot.token = 0 THEN NoStream
                     ELSE [state |-> "open", token |-> stream[s].token,
                           raced |-> stream[s].raced, of |-> bot.token,
                           start |-> Len(channel[bot.token]),
                           read |-> Len(channel[bot.token]), out |-> <<>>]]
    /\ UNCHANGED <<log, bot, given, forwarder, routed, channel>>

\* What the stream has yet to read of its channel.
Unread(s) == Pending(stream[s].read, channel[stream[s].of])

StreamLags(s) ==
    LET events == channel[stream[s].of]
    IN  /\ stream[s].state = "open" /\ Unread(s)
        /\ Lags(stream[s].read, events, BotCapacity)
        /\ stream' = [stream EXCEPT ![s].read = Oldest(events, BotCapacity),
                                    ![s].out = Append(@, Missed(stream[s].read + 1,
                                                               Oldest(events, BotCapacity)))]
        /\ UNCHANGED <<log, bot, given, forwarder, routed, channel>>

Yield(s) ==
    /\ stream[s].state = "open" /\ Unread(s)
    /\ ~Lags(stream[s].read, channel[stream[s].of], BotCapacity)
    /\ stream' = [stream EXCEPT ![s].read = @ + 1,
                                ![s].out = Append(@, Shown(stream[s].read + 1))]
    /\ UNCHANGED <<log, bot, given, forwarder, routed, channel>>

\* Mutant of EndStream: the stream waits for the nick to be registered no more.
EndStreamOfNick(s) ==
    /\ stream[s].state = "open" /\ ~Unread(s)
    /\ bot.token = 0
    /\ stream' = [stream EXCEPT ![s] = NoStream]
    /\ UNCHANGED <<log, bot, given, forwarder, routed, channel>>

\* The channel is closed and read to its end.
EndStream(s) ==
    /\ stream[s].state = "open" /\ ~Unread(s)
    /\ bot.token # stream[s].of
    /\ stream' = [stream EXCEPT ![s] = NoStream]
    /\ UNCHANGED <<log, bot, given, forwarder, routed, channel>>

BotDisconnects(s) ==
    /\ stream[s].state # "none"
    /\ stream' = [stream EXCEPT ![s] = NoStream]
    /\ UNCHANGED <<log, bot, given, forwarder, routed, channel>>

StreamStep(s) == StreamLags(s) \/ Yield(s) \/ EndStream(s)

BotNext ==
    \/ RegisterBot \/ UnregisterBot
    \/ \E t \in 1 .. MaxTokens : ForwarderSubscribes(t) \/ ForwarderLags(t) \/ ForwardEvent(t)
    \/ ProcessorLags \/ Route
    \/ \E s \in Streams : ValidateToken(s) \/ OpenStream(s) \/ StreamStep(s) \/ BotDisconnects(s)

\* The stream is polled as long as the bot is connected.
BotFairness == \A s \in Streams : WF_<<log, botVars>>(StreamStep(s))

--------------------------------------------------------------------------------
(* Properties.                                                              *)

Tokens == 1 .. MaxTokens

BotTypeOK ==
    /\ given \in 0 .. MaxTokens
    /\ bot \in {NoBot} \cup [token : 1 .. given, events : Subscriptions]
    /\ forwarder \in [Tokens -> {NoForwarder, [state |-> "spawned"]}
                          \cup [state : {"running"}, start : 0 .. Len(log),
                                read : 0 .. Len(log), over : SUBSET (1 .. Len(log))]]
    /\ routed \in 0 .. Len(log)
    /\ channel \in [Tokens -> Seq([via : {"forwarder", "processor"}, event : 1 .. Len(log)])]
    /\ stream \in [Streams -> {NoStream}
                       \cup [state : {"validated"}, token : Tokens, raced : BOOLEAN]
                       \cup [state : {"open"}, token : Tokens, raced : BOOLEAN, of : Tokens,
                             start : Nat, read : Nat, out : Seq(Items)]]

\* A channel carries every event at most once per way there is, in the order of the bus,
\* and nothing but private messages and commands twice: none of the bot's former
\* registrations feeds it too (api/bot.rs:890-915, main.rs:312-329, bot/mod.rs:135-150).
ChannelOrder ==
    \A t \in Tokens : \A i, j \in DOMAIN channel[t] :
        i < j => \/ /\ channel[t][i].via = channel[t][j].via
                    /\ channel[t][i].event < channel[t][j].event
                 \/ /\ channel[t][i].via # channel[t][j].via
                    /\ (channel[t][i].event = channel[t][j].event =>
                            log[channel[t][i].event] \in {"pm", "command"})

\* A bot's forwarder puts into its channel what the bot subscribed to, all of it and
\* nothing else, save what it lagged over; that is never more than the ring had lost,
\* but the bot is not told of it (api/bot.rs:887-925).
ChannelComplete ==
    \A t \in Tokens : forwarder[t].state = "running" =>
        /\ \A k \in forwarder[t].over : k + Capacity <= Len(log)
        /\ bot.token = t =>
              \A k \in forwarder[t].start + 1 .. forwarder[t].read :
                  (Tag(log[k]) \in bot.events /\ k \notin forwarder[t].over)
                      <=> \E i \in DOMAIN channel[t] : channel[t][i] = Sent("forwarder", k)

\* A bot's stream passes on all of its channel since it was opened, in order, or says
\* what it missed, and its channel is that of the token presented, unless a later
\* registration came in the middle of this very request: then it is the later one's
\* (api/bot.rs:764-788).
BotComplete ==
    \A s \in Streams : stream[s].state = "open" =>
        /\ Accounts(stream[s].out, stream[s].start, stream[s].read,
                    DOMAIN channel[stream[s].of])
        /\ \/ stream[s].of = stream[s].token
           \/ stream[s].raced /\ stream[s].token < stream[s].of

\* The streams of a registration that is over end (api/bot.rs:773-785).
BotStreamsEnd == \A s \in Streams : \A t \in Tokens :
    (stream[s].state = "open" /\ stream[s].of = t /\ bot.token # t)
        ~> ~(stream[s].state = "open" /\ stream[s].of = t)
================================================================================
