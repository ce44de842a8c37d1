------------------------------ MODULE BotRegistry ------------------------------
(***************************************************************************)
(* External bots: register_bot, unregister_bot and hub_event_forwarder of  *)
(* src/src/api/bot.rs, the claims CommandEngine keeps in                   *)
(* src/src/bot/mod.rs, and the command processor of src/src/main.rs that   *)
(* re-adds every bot when the hub connection comes back.  A handler is     *)
(* several steps, one for each of its waits, and any number of handlers    *)
(* interleave.                                                             *)
(*                                                                         *)
(* Between a handler and the hub lies the command channel, taken here as   *)
(* CommandPipe: in order, losing its oldest commands when the connection   *)
(* fails.  The hub (external) forgets the gateway's virtual users when its *)
(* connection ends.                                                        *)
(***************************************************************************)
EXTENDS Naturals, Sequences, FiniteSets

CONSTANTS
    Nicks,      \* the bots' nicks
    Commands,   \* chat commands a bot may claim
    Calls,      \* HTTP handlers that can be in flight at once
    Overlap,    \* whether calls about one nick may be in flight together
    MaxTokens,  \* bound on the registrations of a behaviour
    MaxPipe,    \* bound on the commands under way to the hub
    MaxDrops,   \* bound on the losses of the connection
    MayLag      \* whether the processor may fall behind the bus

ASSUME RegistryAssumption ==
    /\ Overlap \in BOOLEAN
    /\ MaxTokens \in Nat
    /\ MaxPipe \in Nat \ {0}
    /\ MaxDrops \in Nat
    /\ MayLag \in BOOLEAN

VARIABLES
    bots,       \* bot_registry.bots: nick -> registration; token 0 if none
    tokens,     \* registration tokens given so far
    disabled,   \* CommandEngine.disabled
    call,       \* per handler: what it is doing
    running,    \* the event forwarders, [nick, token]
    behind,     \* those with an event of the bus to read
    pipe,       \* add_virtual_user and remove_virtual_user under way
    up,         \* the hub connection
    drops,      \* how often it was lost
    restored,   \* a GatewayStatus{connected: true} the processor has not read
    missed,     \* the last one was lost to it: its receiver lagged
    readding,   \* bots the processor has yet to re-add, under bots.read()
    virtual     \* the virtual users the hub shows

registryVars == <<bots, tokens>>
forwarderVars == <<running, behind>>
linkVars == <<up, drops, restored, missed>>
vars == <<registryVars, disabled, call, forwarderVars, pipe, linkVars, readding, virtual>>

NoBot == [token |-> 0, commands |-> {}, forwards |-> FALSE]

Registrations ==
    [token : 1 .. MaxTokens, commands : SUBSET Commands, forwards : BOOLEAN]

Registered == {n \in Nicks : bots[n].token # 0}

Idle == [op |-> "idle"]

HubCommands == [op : {"add", "remove"}, nick : Nicks]

Put(cmd) ==
    /\ Len(pipe) < MaxPipe
    /\ pipe' = Append(pipe, cmd)

Busy(n) == \E h \in Calls : call[h] # Idle /\ call[h].nick = n

Init ==
    /\ bots = [n \in Nicks |-> NoBot]
    /\ tokens = 0
    /\ disabled = {}
    /\ call = [h \in Calls |-> Idle]
    /\ running = {}
    /\ behind = {}
    /\ pipe = <<>>
    /\ up = FALSE
    /\ drops = 0
    /\ restored = FALSE
    /\ missed = FALSE
    /\ readding = {}
    /\ virtual = {}

--------------------------------------------------------------------------------
(* register_bot.  The write lock waits for the re-adding processor's read   *)
(* lock; the forwarder is spawned with no wait after the insertion.         *)

Register(h, n) ==
    /\ call[h] = Idle
    /\ Overlap \/ ~Busy(n)
    /\ readding = {}
    /\ tokens < MaxTokens
    /\ tokens' = tokens + 1
    /\ \E cs \in SUBSET Commands, fw \in BOOLEAN :
        /\ bots' = [bots EXCEPT ![n] =
                        [token |-> tokens + 1, commands |-> cs, forwards |-> fw]]
        /\ running' = IF fw THEN running \cup {[nick |-> n, token |-> tokens + 1]}
                      ELSE running
        /\ call' = [call EXCEPT ![h] = [op |-> "add", nick |-> n, commands |-> cs]]
    /\ UNCHANGED <<disabled, behind, pipe, linkVars, readding, virtual>>

Announce(h) ==
    /\ call[h].op = "add"
    /\ Put([op |-> "add", nick |-> call[h].nick])
    /\ call' = [call EXCEPT ![h].op = "claim"]
    /\ UNCHANGED <<registryVars, disabled, forwarderVars, linkVars, readding, virtual>>

\* disable_commands
Claim(h) ==
    /\ call[h].op = "claim"
    /\ disabled' = disabled \cup call[h].commands
    /\ call' = [call EXCEPT ![h] = Idle]
    /\ UNCHANGED <<registryVars, forwarderVars, pipe, linkVars, readding, virtual>>

--------------------------------------------------------------------------------
(* unregister_bot.  The token is validated under a read lock of its own.    *)

CheckToken(h, n) ==
    /\ call[h] = Idle
    /\ Overlap \/ ~Busy(n)
    /\ bots[n].token # 0
    /\ call' = [call EXCEPT ![h] = [op |-> "remove", nick |-> n]]
    /\ UNCHANGED <<registryVars, disabled, forwarderVars, pipe, linkVars, readding, virtual>>

\* Mutant of Remove: the registry is changed without waiting for its readers.
RemoveUnlocked(h) ==
    /\ call[h].op = "remove"
    /\ bots' = [bots EXCEPT ![call[h].nick] = NoBot]
    /\ call' = [call EXCEPT ![h].op = "withdraw"]
    /\ UNCHANGED <<tokens, disabled, forwarderVars, pipe, linkVars, readding, virtual>>

\* Whatever registration the nick has by now is removed.
Remove(h) ==
    /\ call[h].op = "remove"
    /\ readding = {}
    /\ bots' = [bots EXCEPT ![call[h].nick] = NoBot]
    /\ call' = [call EXCEPT ![h].op = "withdraw"]
    /\ UNCHANGED <<tokens, disabled, forwarderVars, pipe, linkVars, readding, virtual>>

Withdraw(h) ==
    /\ call[h].op = "withdraw"
    /\ Put([op |-> "remove", nick |-> call[h].nick])
    /\ call' = [call EXCEPT ![h].op = "release"]
    /\ UNCHANGED <<registryVars, disabled, forwarderVars, linkVars, readding, virtual>>

\* enable_all
Release(h) ==
    /\ call[h].op = "release"
    /\ disabled' = {}
    /\ call' = [call EXCEPT ![h] = Idle]
    /\ UNCHANGED <<registryVars, forwarderVars, pipe, linkVars, readding, virtual>>

--------------------------------------------------------------------------------
(* The bus and the forwarders.  An event reaches every forwarder; one that  *)
(* falls behind is woken again by the next event.                           *)

Publish ==
    /\ behind # running
    /\ behind' = running
    /\ UNCHANGED <<registryVars, disabled, call, running, pipe, linkVars, readding, virtual>>

\* Mutants of Forward: one that ends but stays subscribed, one that compares with
\* the newest token of all, one that only asks whether the nick is registered.
ForwardHalfEnds(f) ==
    /\ f \in behind
    /\ behind' = IF bots[f.nick].token = f.token THEN behind \ {f} ELSE behind
    /\ running' = IF bots[f.nick].token = f.token THEN running ELSE running \ {f}
    /\ UNCHANGED <<registryVars, disabled, call, pipe, linkVars, readding, virtual>>

ForwardNewest(f) ==
    /\ f \in behind
    /\ behind' = behind \ {f}
    /\ running' = IF f.token = tokens THEN running ELSE running \ {f}
    /\ UNCHANGED <<registryVars, disabled, call, pipe, linkVars, readding, virtual>>

ForwardAnyToken(f) ==
    /\ f \in behind
    /\ behind' = behind \ {f}
    /\ running' = IF bots[f.nick].token # 0 THEN running ELSE running \ {f}
    /\ UNCHANGED <<registryVars, disabled, call, pipe, linkVars, readding, virtual>>

\* hub_event_forwarder reads an event: it forwards it while the nick still has
\* the registration it was started for, and ends otherwise.
Forward(f) ==
    /\ f \in behind
    /\ behind' = behind \ {f}
    /\ running' = IF bots[f.nick].token = f.token THEN running ELSE running \ {f}
    /\ UNCHANGED <<registryVars, disabled, call, pipe, linkVars, readding, virtual>>

--------------------------------------------------------------------------------
(* The command processor: on GatewayStatus{connected: true} it sends one    *)
(* add_virtual_user per registered bot, holding bots.read() throughout.     *)

StartReadd ==
    /\ restored
    /\ readding = {}
    /\ restored' = FALSE
    /\ missed' = FALSE
    /\ readding' = Registered
    /\ UNCHANGED <<registryVars, disabled, call, forwarderVars, pipe, up, drops, virtual>>

\* The processor falls so far behind that the ring no longer has the announcement: it
\* is told how many events it missed, and goes on.
ProcessorLags ==
    /\ restored
    /\ readding = {}
    /\ MayLag
    /\ restored' = FALSE
    /\ missed' = TRUE
    /\ UNCHANGED <<registryVars, disabled, call, forwarderVars, pipe, up, drops, readding,
                   virtual>>

Readd(n) ==
    /\ n \in readding
    /\ Put([op |-> "add", nick |-> n])
    /\ readding' = readding \ {n}
    /\ UNCHANGED <<registryVars, disabled, call, forwarderVars, linkVars, virtual>>

--------------------------------------------------------------------------------
(* The connection (CommandPipe) and the hub.                                *)

LosesOldest == \E k \in 0 .. Len(pipe) : pipe' = SubSeq(pipe, k + 1, Len(pipe))

LinkDown ==
    /\ up
    /\ drops < MaxDrops
    /\ drops' = drops + 1
    /\ up' = FALSE
    /\ LosesOldest
    /\ virtual' = {}
    /\ UNCHANGED <<registryVars, disabled, call, forwarderVars, restored, missed, readding>>

\* Mutant of LinkUp: the session is not announced.
LinkUpQuietly ==
    /\ ~up
    /\ up' = TRUE
    /\ LosesOldest
    /\ behind' = running
    /\ UNCHANGED <<registryVars, disabled, call, running, drops, restored, missed, readding, virtual>>

\* The session is announced on the bus; some of what was queued before it may have
\* been lost to the old connection.
LinkUp ==
    /\ ~up
    /\ up' = TRUE
    /\ LosesOldest
    /\ restored' = TRUE
    /\ behind' = running
    /\ UNCHANGED <<registryVars, disabled, call, running, drops, missed, readding, virtual>>

HubTakes ==
    /\ up
    /\ pipe # <<>>
    /\ pipe' = Tail(pipe)
    /\ virtual' = IF Head(pipe).op = "add" THEN virtual \cup {Head(pipe).nick}
                  ELSE virtual \ {Head(pipe).nick}
    /\ UNCHANGED <<registryVars, disabled, call, forwarderVars, linkVars, readding>>

--------------------------------------------------------------------------------

CallStep(h) == Announce(h) \/ Claim(h) \/ Remove(h) \/ Withdraw(h) \/ Release(h)

Next ==
    \/ \E h \in Calls, n \in Nicks : Register(h, n) \/ CheckToken(h, n)
    \/ \E h \in Calls : CallStep(h)
    \/ Publish
    \/ \E f \in running : Forward(f)
    \/ StartReadd \/ ProcessorLags \/ \E n \in Nicks : Readd(n)
    \/ LinkDown \/ LinkUp \/ HubTakes

Spec == Init /\ [][Next]_vars

\* The handlers, the processor and the forwarders are tokio tasks; the bus has an
\* event at least every maintenance interval; the socket task delivers what is
\* queued (HubLink: ChannelDrains) and reconnects.  Handlers wait for the lock and
\* for room in fair queues.
Fairness ==
    /\ \A h \in Calls : SF_vars(CallStep(h))
    /\ WF_vars(Publish)
    /\ \A n \in Nicks, t \in 1 .. MaxTokens : WF_vars(Forward([nick |-> n, token |-> t]))
    /\ WF_vars(StartReadd) /\ \A n \in Nicks : SF_vars(Readd(n))
    /\ WF_vars(HubTakes)

FairSpec == Spec /\ Fairness

--------------------------------------------------------------------------------
(* Properties.                                                              *)

TypeOK ==
    /\ bots \in [Nicks -> Registrations \cup {NoBot}]
    /\ tokens \in 0 .. MaxTokens
    /\ disabled \subseteq Commands
    /\ call \in [Calls -> {Idle}
                    \cup [op : {"add", "claim"}, nick : Nicks, commands : SUBSET Commands]
                    \cup [op : {"remove", "withdraw", "release"}, nick : Nicks]]
    /\ running \subseteq [nick : Nicks, token : 1 .. MaxTokens]
    /\ behind \subseteq running
    /\ pipe \in Seq(HubCommands)
    /\ up \in BOOLEAN
    /\ drops \in 0 .. MaxDrops
    /\ restored \in BOOLEAN
    /\ missed \in BOOLEAN
    /\ readding \subseteq Nicks
    /\ virtual \subseteq Nicks

\* Every registration that subscribed to events has its forwarder, whatever
\* registrations of the same nick came and went, and no two forwarders serve one
\* registration: a bot is not cut off and gets no event twice from its forwarders
\* (api/bot.rs:599-608, 893-911).
OneForwarderEach ==
    /\ \A n \in Registered :
        bots[n].forwards <=> [nick |-> n, token |-> bots[n].token] \in running
    /\ \A f, g \in running : f.token = g.token => f = g

\* Forwarders of past registrations do not pile up: each ends once the bus carries
\* another event (api/bot.rs:895-910).
StaleForwardersEnd ==
    \A n \in Nicks, t \in 1 .. MaxTokens :
        ([nick |-> n, token |-> t] \in running /\ bots[n].token # t)
            ~> [nick |-> n, token |-> t] \notin running

\* Nothing is under way between the registry and the hub.
Settled ==
    /\ up
    /\ pipe = <<>>
    /\ \A h \in Calls : call[h] = Idle
    /\ ~restored
    /\ readding = {}

\* Once things settle the hub shows exactly the registered bots: registrations and
\* removals made while the connection was down or failing, and commands lost with
\* it, are made good by the re-adding (main.rs:330-346, api/bot.rs:579-624,
\* 668-681).  It needs the calls about one nick not to overlap, and the processor
\* not to have missed the last announcement (main.rs:348).
HubShowsTheBots == Settled /\ ~missed => virtual = Registered

\* A bot that stays registered over a connection that stays up ends up on the hub
\* and stays there, unless the processor missed its announcement (main.rs:330-348).
BotsReturn ==
    \A n \in Nicks : <>[](up /\ ~missed /\ n \in Registered) => <>[](n \in virtual)

\* Who runs a chat command (try_handle): a bot that claims it or the built-in one.
Claimants(c) == {n \in Registered : c \in bots[n].commands}

\* "Disable built-in handling for commands claimed by an external bot"
\* (bot/mod.rs:98), until "this bot" leaves (api/bot.rs:683).  The code does not
\* keep this: enable_all also re-enables what the other bots claim.
ClaimsAreKept ==
    Settled => \A c \in Commands : Claimants(c) # {} => c \in disabled
================================================================================
