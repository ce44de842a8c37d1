# odch-gateway in TLA+

A model of odch-gateway, the Rust service that connects an NMDC hub to HTTP
clients, WebSocket streams, webhooks, chat bots and a PostgreSQL database.  The
modules are translated from the source under `src/src/`; every definition that
stands for code has its lines in `PROJECT.json` under "map".  TLC checks small
instances; TLAPS proves every safety property of them for every value of the
constants.

Contents: 1 the system, 2 the modules, 3 the runs, 4 fairness and other
assumptions, 5 the proofs, 6 where the code does not do what it says, 7 what is
not modelled, 8 the plan.

## 1. The system

One tokio process.  Its tasks share a few structures and two kinds of channel:

- the **command channel**, an mpsc of 256 strings (main.rs:127): everything that
  wants something of the hub sends here and waits while it is full; the hub
  socket task is its only receiver;
- the **event bus**, a broadcast ring of 1024 events (main.rs:125, bus.rs):
  publishing never waits, a receiver that falls behind loses the oldest events;
- **locks**: `hub_state.users` (who is online), `bot_registry.bots` (external
  bots), `engine.disabled` (claimed commands), the rate limiter's map.  tokio's RwLock is fair: readers queue behind a waiting writer;
- the **database**, written by handlers, chat commands and the event processor.

| Component | State | Operations | Talks to |
|---|---|---|---|
| Hub socket task (hub/socket.rs) | connection, backoff, frames read, `connected`, logins asked for | connect, authenticate, request state; in a loop: read and handle events, forward commands, user-list tick; end the session, sleep | the hub; receives commands and *sends* commands; writes the user map; reads the bots; publishes |
| Command channel (main.rs) | queue of at most 256 | send (waits), recv | all senders, socket task |
| Event bus (bus.rs) | ring, one cursor per receiver | publish, recv, lag | all tasks |
| Event processor (db/event_processor.rs) | the event at hand, sessions, tells | chat, join (ban check, session, tells, watches), quit, info, maintenance tick | bus, database, command channel |
| Command processor (main.rs:278) | the event at hand | chat commands, PMs to bots, re-adding of bots on reconnection | bus, command engine, registry, command channel |
| Command engine and built-in commands (bot/) | claimed commands | try_handle, send_response, the commands of register_all; ban, kick, tell, gag, watch, topic, massmessage change state | database, registry, user map, command channel |
| Bot registry and bot API (api/bot.rs) | bots by nick with token, claims, event stream | register, unregister, chat, PM, tells, bans, watches, key-values, event stream | registry, engine, database, command channel, bus |
| Moderation API (api/moderation.rs) | - | kick, ban, unban, gag, register, passwords, topic | user map, database, command channel |
| Chat and commands API | - | send a message, execute a command | database, bus, command channel |
| WebSocket streams (api/websocket.rs) | connection counter | upgrade, stream, close | bus |
| Rate limiter (api/rate_limit.rs) | bucket per API key | try_acquire | - |
| Webhooks (webhook/) | table of webhooks | create, update, delete, dispatch, retry | bus, HTTP |
| OPChat relay, greeter | - | register on start and reconnection, relay PMs to the operators, greet | bus, user map, command channel |
| Admin UI, auth, configuration, read endpoints | - | sessions by signed token, routing, formatting | - |

What is hard in it, and what correctness means there (PROJECT.json "hazards" has
each place with its line):

- *Hub socket task and command channel.*  It drains the channel and also sends
  into it, under a bound, and takes locks that other senders hold while they
  wait.  Correct: it never waits for itself or for those who wait for it; the
  channel's order and single delivery survive failing writes and reconnections;
  every end of a session is announced, since the bots' return depends on it.  The
  one end that is not is a panic: the log line of a frame that is no JSON is cut
  at byte 200 (socket.rs:205-213), and a character may lie across it.
- *Presence.*  The hub's truth reaches the user map, the sessions and the ban
  check through queues that a lost connection or a lag empties.  Correct: the
  copies agree with the hub when the queues are empty, heal after a fault, and a
  ban holds whatever it overtakes.
- *Bots.*  Handlers release their locks between the steps of a registration.
  Correct: one forwarder for a registration, the hub shows the registered bots,
  the claims of one bot survive the leaving of another.
- *Tells.*  Send, then mark, with two processors and the API on one table.
  Correct: no tell lost by the gateway, repeated only after a fault, in order,
  none left for ever.
- *Rate limiter.*  Late refill and eviction.  Correct: as if every key had a
  bucket that is always there.
- *Moderation.*  Checks and the actions they allow are statements apart, in
  handlers that interleave; lines wait before the gag check.  Correct: nobody is
  heard under a gag in force, lifted by mistake, outranked by a lower rank or let
  in unearned, and what is set survives a restart.
- *Subscribers of the bus.*  Each falls behind on its own, counts in separate
  steps, and outlives the client, bot or webhook it works for.  Correct: limits
  hold but for races, streams report their gaps, nothing comes twice on one way,
  the users are told what the gateway knows, and leftovers end.  Where a task of
  the gateway's own lags (a bot's forwarder, the greeter) nobody reports it:
  correct is that it never loses more than the ring had.

## 2. The modules

| Module | What it is |
|---|---|
| `CommandPipe` | abstract: a numbered pipe that keeps order, never duplicates, loses only a prefix and only when the connection is not up throughout |
| `HubLink` | the socket task, the channel, its senders with their locks; implements `CommandPipe` |
| `Presence` | users, sessions, bans and kicks: socket task, event processor, moderators, hub |
| `BotRegistry` | registration and removal handlers, forwarders, re-adding, claims |
| `TokenBucket` | abstract: one bucket per key, always there, filling with time |
| `RateLimiter` | `try_acquire` on a map with late creation and eviction; implements `TokenBucket` |
| `Tells` | the tells table with the command processor, the event processor and the bot API |
| `Moderation` | accounts and logins, gags and the gag check, chat and REST moderators, the topic over restarts |
| `EventBus` | the ring with a place per receiver and its lag; what a reader has to account for |
| `WebSockets` | admission, the connection counter, filters, streams |
| `Webhooks` | the table with its limit, the dispatcher, delivery tasks with retries |
| `BotStreams` | a bot's channel with the two that feed it, and its event streams |
| `Watches` | watches and the event processor's notices to the watchers |
| `OpChat` | the relay to the operators against the writers of the user map |
| `Greeter` | greeting newcomers with the topic, against those who set it |
| `Subscribers` | composes the last seven: one bus, any of its readers |
| `MC...` | constants and symmetry for TLC |
| `CommandPipeProofs`, `HubLinkProofs`, `PresenceProofs`, `BotRegistryProofs`, `RateLimiterProofs`, `TellsProofs`, `ModerationProofs`, `SubscribersProofs` | the proofs |

`HubLink` models the channel and the connection once, in detail.  The other
modules that send commands (`Presence`, `BotRegistry`, `Tells`) use in its place
what `CommandPipe` promises: a sequence that keeps its order and loses a prefix
when the connection fails.  That `HubLink` implements `CommandPipe` is what
justifies it.  The channel's losses are so a consequence of the code and not an
assumption of those modules.

How the state corresponds to the code:

- **HubLink.**  `phase` is the await the task is at: "select" its `select!`,
  "tick" the send of `get_user_list`, "writing" `send_json` of a command,
  "users"/"bots"/"send" the awaits of `handle_event`, "dead" the end by a panic,
  after which the receiver is gone and `connected` stays as it was.  `batch` is the rest of the
  frames of one read, which the code handles in a loop without going back to
  `select!`.  `pc` is each other task at its `hub_tx.send().await`; those in
  `UserReaders` (massmessage, the OPChat relay) and `BotReaders` (the re-adding
  loop) hold a read lock over their sends.  Events are classes of what
  `handle_event` does: publish only (or ignore), publish and send, check the
  registry and send, write the user map, an oversize frame, and one that does not
  parse and that the log line cannot cut ("unreadable").  The text of commands is
  abstracted to their position in the channel's order.
- **Presence.**  One action per step between two awaits of the event processor
  (`Receive`, `CheckBan`, `KickAtJoin`, `OpenSession`, `CloseSessions`,
  `Maintain`) and of a moderator (`Ban`, `LookUp`, `KickUser`, `Unban`,
  `DeleteBan`).  `unseen` remembers whose joins or quits were lost.
- **BotRegistry.**  A handler (`call`) is several steps, one per await.  A
  forwarder is a registration's nick and token; `behind` those that have an event
  to read.  `readding` is the set the command processor walks, under
  `bots.read()`.
  `missed` says that the processor lagged over the last announcement of a
  connection.
- **RateLimiter.**  One unit of time adds one unit to a bucket; a request costs
  `Cost` units, a bucket holds `Full`.  A request is atomic: the code holds the
  map's lock throughout.  The code's floats are taken as exact numbers.
- **Tells.**  Ids stand for `created_at`: they are given in the same order.
  `sent` counts how often a tell was sent, `by` the command that made it.
- **Moderation.**  `past` keeps every version of the users table, so that a
  property can say "at some time since"; a line or a login has the version it was
  sent under.  `task` is what the socket task has found out and not acted on,
  `call` the handlers in flight with their step: a step per statement.  A REST
  handler of one statement is one action.
- **EventBus.**  `log` is all that was published, a receiver the number of events
  it has passed; it lags when more than `Capacity` lie ahead.  `Accounts` states
  once what a stream owes its client.
- **WebSockets.**  `socket` has a step for each of ws_handler's (admitted,
  counted, upgraded), then the stream, then the decrement.  `connections` is the
  code's counter, `Counted` what it should count.
- **Webhooks.**  `creating` are requests between the count and the insert;
  `deliveries` the tasks of deliver_one with their attempts.
- **BotStreams.**  A registration has its own channel and forwarder, told apart by
  the token; `channel` remembers which way an event came.  A forwarder has, besides
  its place on the bus, where it started and, as history, the events it lagged
  over; a stream, whether a registration came in the middle of its request
  (`raced`).
- **Watches, OpChat.**  Each is one task's loop with its lock or its list read
  beforehand, and the writers it may miss; `since` marks how much of the bus there
  was when a watch or an operator changed.
- **Greeter.**  The greeter and those who set the topic, against one user who
  comes and goes.  `OnlineSince(k)` reads off the bus since which login the user is
  online; what is sent to it reaches it only then, and `shows` has the topic it was
  last told with the login it was told in, `None` if it was told none.  So neither
  the topic a start restored nor one announced before a login counts as told.
  `ungreeted` and `setAt` are history: the events the greeter lagged over, and how
  much of the bus there was when the topic was last set.
- **Subscribers.**  The readers share nothing but the bus, so a state of one does
  not bear on another; `using` picks which of them a behaviour has, and which
  events.  A run that picks one at a time loses nothing and keeps the product of
  their states away; `Uses` may be any sets of them.

## 3. The runs

| Run | Checks | Instance and why it is enough |
|---|---|---|
| `hublink` | `TypeOK` (with the backoff's bounds), `SessionAnnounced`, `PipeSpec`, `WedgeIsForever`; `StopsAreKnown`, `LossNoticed`, `NoSenderStarves`, `ChannelDrains` | all kinds of events, two competing senders, each with one of the locks, a channel of 1 that is empty and full, batches of 2 so that a frame is handled with another waiting, a socket buffer of 1, 3 commands, a delay that doubles once |
| `hublink_wedge` | `RunsForever` is violated | the task alone: no other sender is needed to stop it, only more frames in one read that answer than the channel has room for |
| `presence` | `TypeOK`, `UsersMirror`, `SessionsFollow`, `BansEnforced`, `GhostsLeave` | one user (no action relates two) with two logins beyond the users online at the start, so that a login overtakes the handling of the one before; a moderator who uses chat or REST, one ban, one fault |
| `presence_orphans` | `OrphansClosed` is violated | one lost connection |
| `bot_registry` | `TypeOK`, `OneForwarderEach`, `HubShowsTheBots`, `BotsReturn`, `StaleForwardersEnd` | two bots, two handlers at a time, two registrations, so that one bot can be registered anew, one lost connection, a processor that may lag |
| `bot_claims` | `ClaimsAreKept` is violated | two bots, one command |
| `rate_limiter` | `TypeOK`, `BurstBounded`, `MapBounded`, `BucketSpec` | three keys and eviction above one, so that a request evicts several or none; two requests fill a bucket, time runs past one eviction |
| `tells` | `TypeOK`, `MarkedMeansSent`, `SentAgainOnlyAfterFaults`, `InOrder`, `TellsArrive` | one recipient (tells to others do not interact), two tells, two unread events per processor, two faults of any kind |
| `tells_own` | `OwnTellWaits` is violated | no fault |
| `moderation` | `TypeOK`, `GagSilences`, `RankRespected`, `LoginEarned`, `ChatTopicSaved`, `LaterGagsStand`, `LoginsAnswered` | a user, an OP and a reserved nick; two passwords, so that one is wrong or replaced; permissions 0, 2 and 3; one REST handler in flight beside the command processor; three connections, lines or requests, the least with which a second actor interferes between two statements of a first; one fault |
| `moderation_topic` | `TopicSurvives` is violated | one request, one restart |
| `subscribers` | `TypeOK`, `LimitsHold`, `StreamsComplete`, `NothingTwice`, `NoticesTrue`, `LeftoversEnd` | a ring of 1 and two events, so that every reader can lag; two clients at a limit of one, two creators at a limit of one, one retry; a bot registered twice, so that a request or a forwarder is overtaken; two watchers, two operators; a user who comes, or leaves and comes back, two topics set beside one restored or none.  Each reader has the events it tells apart: chat lines, commands and private messages, or joins and quits |

Each property of a passing run has a mutant in PROJECT.json: a plausible bug in a
mapped definition under which TLC finds the property violated.  The mutants are
the definitions marked so beside the ones they change.

Deadlock is checked in `rate_limiter`, `tells` and `tells_own`.  The other cfgs
say `CHECK_DEADLOCK FALSE`: in `HubLink` the system really stops (that is what
`WedgeIsForever` says), and in the others a bounded behaviour may have used up
its logins, registrations, requests, events and faults.

Some properties hold under a condition that is part of the instance or of the
property.  Each condition is needed: without it TLC finds the property violated.

- `HubShowsTheBots` with `Overlap = FALSE`: calls about the same nick do not run
  at the same time.  unregister_bot checks the token under one lock and removes
  under the next (api/bot.rs:668-681).  It and `BotsReturn` except connections
  whose announcement the processor missed (main.rs:348).
- `BansEnforced` speaks of bans by chat: `!ban` kicks without looking the user up.
  ban_user looks into a user map that is behind the hub
  (api/moderation.rs:97-100) and may kick nobody.
- `WsLimit` and `HookLimit` except requests that race: the code counts in one step
  and admits or inserts in another (api/websocket.rs:75-95,
  webhook/manager.rs:80-104).
- `BotComplete` excepts, for one stream, a registration between the check of its
  token and its subscription (api/bot.rs:763-769): its channel is then that of a
  later registration, and of no other.
- `ChannelComplete` excepts what the bot's forwarder lagged over: the bot is not
  told (api/bot.rs:919-921).  It says that this is never more than the ring had
  lost, and that all else the bot subscribed to came, and nothing more.
- `TopicOnShow` compares the topics unless the last one was set just while another
  was about to be sent (greeter.rs:34-52); the next that is not heals it.  Told a
  topic since it came is every user whose join the greeter read, or who was online
  when one was set; the greeter misses a join only when the ring had lost it
  (greeter.rs:59-61).  A topic restored at start-up is told to newcomers only.
- `OpsHear` goes by the user map: a MyINFO clears `is_op` until the next list
  (socket.rs:317), so an operator who has just sent one hears nothing.
- `SessionAnnounced` excepts the panic, which leaves `connected` TRUE.
- `ChatTopicSaved` speaks of topics set by chat; for REST see section 6.
- `GagSilences` and `RankRespected` except failing statements: the checks fail
  open.

No document of the repository claims otherwise, so these are stated as
conditions and listed as hazards, not as findings.

## 4. Fairness and other assumptions

- *Tasks.*  tokio polls every ready task: weak fairness of each task's steps.
- *select!* chooses at random among ready branches (no `biased`): strong
  fairness of each branch of `HubLink`.  The mpsc channel's semaphore and the
  RwLocks are first come, first served: strong fairness of each waiting sender,
  reader and writer.
- *The hub.*  `HubLink` assumes nothing of it: it may stay silent, stop reading,
  close or send a frame that makes the task panic, and `StopsAreKnown` names those
  cases (`AwaitsHub`, `Dead`) beside the wedges.  The other modules describe the
  gateway while its socket task lives.  `Presence`, `BotRegistry` and `Tells`
  assume for their liveness that the hub takes commands, answers list requests and
  carries out kicks while the connection is up, and so that the socket task is
  neither wedged nor dead: that (`HubLink`) stops them all.
- *Environment.*  Nothing is assumed of users, moderators, bots, faults or the
  clock: `TellsArrive` says only what follows if the recipient goes on being
  active, `BotsReturn` if the connection and the registration stay.
- *Moderation*: the socket task's steps, and the hub's taking of verdicts.  A
  verdict is sent through the channel, which has room again as long as the task is
  not wedged (`ChannelDrains`).
- *Subscribers*: a stream's task runs, so that its heartbeat or its closed channel
  is noticed; a delivery task runs, and its requests have a timeout.  Nothing is
  assumed of the readers of the bus: lag is always possible.
- *Faults* are bounded in number, in every module, by a constant.  What liveness
  shows is recovery after the last fault.
- *Bounds on counters* (`MaxCommands`, `MaxTokens`, `MaxLogins`, `MaxTells`,
  `MaxTime`, `MaxRequests`, `MaxEvents` ...) are guards of the action that counts.  `MaxPipe`, `MaxInbox` and
  `MaxBacklog` bound what is under way.  Where the code's own queue would lose
  or wait, the loss is a fault (`Lag`, `LinkFails`) and the wait is the guard.
- *External parts* (marked in "map"): the hub, the HTTP client of a call, the
  WebSocket client, webhook endpoints, tokio's channels, the operating system that
  restarts the process.

## 5. The proofs

`tlapm` proves every theorem without assumptions other than the named ones on the
constants.  Most of those say only that a bound is a number, that a set is a part
of another or that the value for "nothing there" is none of the data (`NoTopic`,
`NoPassword`, `Outsider`, the greeter's `None`).  What they say of the code:
`Full <= StaleAfter` (rate limiter, below); that permissions are integers; that
reserved nicks and OPs are apart; that no sender holds both read locks.
`HubFollowsRegistry` also has `~Overlap`, in the theorem and not in the module.

All invariants and action properties of the passing runs are theorems, so that
what the runs add for them is a check of the statements themselves, of their
mutants, and of the inductive invariants, which were found with TLC.

- **CommandPipeProofs.**  `PipeOrder`: in `CommandPipe` what was read and what is
  in the pipe are increasing, and what is read is older than what is in the pipe.
- **HubLinkProofs.**  The inductive invariant is
  `TypeOK /\ SessionAnnounced /\ QueueBounded /\ LinkInv`; `LinkInv` ties the
  phase to the link, to the frame and to the command at hand (a lost link has an
  empty wire; a sleeping task has no live link; only a task at a frame waits in a
  handler).  From it:
  `TypeCorrect`, `Announced`, `Bounded`; `ImplementsPipe`, the refinement, where
  every step leaves `wire \o inHand \o queue` alone, adds at its end or takes
  from its front, and the panic breaks the pipe for good; `HubReadsInOrder`, which carries `PipeOrder` over to the code's
  model; and `WedgeStays`, that none of the wedges is ever left.
- **BotRegistryProofs.**  `TypeCorrect`, and `ForwarderPerRegistration` for any
  number of bots and also for overlapping calls.  The invariant needs that tokens
  are never given twice (`TokenInv`): a forwarder that wakes up compares tokens,
  and it is only their uniqueness that keeps it from serving a later
  registration.  `HubFollowsRegistry` is proved for calls that do not overlap
  on a nick, and for any number of them that do not.  `HubShowsTheBots` speaks
  of a system at rest; the invariant (`AgreeInv`) has to say what is true before.
  `Shown(n)` is what the hub will show once it has read the commands under way,
  of which the last one about `n` counts.  A registered bot that will not be
  shown is still to be added, by its registration, by the processor that walks
  the registry or by the announcement of the connection, unless that was missed
  (`BotsComing`); a nick without a bot that will be shown has the removal ahead
  in its call (`BotsGoing`).  `CallsAgree` says of each call under way whether its
  bot is in the registry.  Without `~Overlap` that fails: TLC shows it at once.
- **RateLimiterProofs.**  `TypeCorrect`; `MapIsBounded`; `BurstsBounded` from the
  invariant `Paid` (what the watched key has spent and could spend now is at most
  a bucket and the time watched); and `ImplementsBucket`.  The crucial assumption is
  `Full <= StaleAfter`: a bucket idle long enough to be evicted is full again, so
  that forgetting it changes nothing.  The code has 60 s against 300 s.
- **TellsProofs.**  `TypeCorrect`, `NoneSwallowed`, `RepeatsNeedFaults` and
  `TellsInOrder`.  The invariant `DeliveryInv` says that a tell that is pending,
  or was found pending and is still to be sent, has been sent no more often than
  there were faults, the one between its send and its mark excepted.  `OrderInv` is the one for the
  order: what may still be sent to a nick was left after everything that was
  ever sent to it (`UnsentLater`).  A pass takes the oldest tell first, and what is
  pending beside the pass has come since it looked (`PassIsOfOne`); a fault
  between send and mark breaks that, which is why the property excepts faults.
- **PresenceProofs.**  `TypeCorrect`; `MapFollowsHub`, `SessionsFollowHub` and
  `BannedAreOnTheirWayOut`.
  The user map and the sessions follow the hub through up to three stages: the
  socket task's inbox, the bus, the processor.  An event is a *verdict* on a
  user, "in", "out" or "none"; `After(s, was)` is what the verdicts `s` come to.
  Lemmas on it (`OneMore`, `FirstTaken`, `SilenceDropped`) say that a report
  changes only the end of it, that moving an event from one stage to the next
  changes nothing, and that losing events changes nothing for the users they
  are not about.  `MapInv` then says that the map will agree with the hub; a
  list is a verdict on everybody, which is how it heals after a connection is
  lost.  `SessionInv` is the same for the sessions, with two additions.  A
  session is counted, so a join must never find one open: `Fit` says that in each
  stage two joins of a user have a quit between them.  And the ban check turns a
  join into a kick without a session, so that a user online has a session coming
  or a kick (`KickComing`).
  `BanInv` is what `BansEnforced` rests on at any moment: a banned user who is
  online has a kick coming or owed, or the last join under way has its ban check
  ahead (`CheckLast`, once more a verdict that passes through the stages).  To
  be inductive it says of a connection that is down that only a kick will do: the
  user may log in unreported then.  Its theorem assumes no fault and, as
  `BansEnforced` does, no REST ban (`ChatBans`).
- **ModerationProofs.**  `TypeCorrect`, `GagsSilence`, `RankIsRespected`,
  `LoginsAreEarned`, `ChatTopicIsSaved` and the action property
  `LaterGagsAreKept`, all from one invariant.  `past` and the ids of gags only
  grow (`Grows`), so what was established of an earlier version of the table stays
  established: `CallOK` says for each handler what its checks have found so far,
  and `HubOK` says for each verdict on its way to the hub which version it was
  earned in.
- **SubscribersProofs.**  `TypeCorrect`, `LimitsAreKept`, `StreamsAreComplete`,
  `NothingIsTwice` and `NoticesAreTrue`, for any ring, clients, filters, bots,
  webhooks, watchers, operators and topics.  Each of the three services that face
  the outside has an invariant of its own (`WsInv`, `HookInv`, `BotInv`), kept by
  its own steps and by the publishing of an event; `Subscribers` has no other
  step that touches it.  `WsLimitInv` says
  that with no race one request at most is between the check and the count, and
  that there is room for it.  `FeedInv` says that a forwarder and the command
  processor are ahead of what each has sent, and that a registration not yet made
  has an empty channel and no forwarder: it is what `ChannelOrder` rests on.
  `ForwardedInv` is `ChannelComplete` with what makes it inductive, that a forwarder
  has lagged over nothing it is still to read; a registration made anew has no
  running forwarder, and no step but a forwarder's own adds to what forwarders
  sent.  `StreamGood` says of a request under way that its token is the bot's or,
  once it was overtaken, an earlier one: tokens only grow.
  `AccountsAdd`, `AccountsSkip` and `AccountsGrow` are the lemmas on what a reader
  owes; the WebSocket streams and the bots' streams both rest on them.

  The services inside have one each too (`WatchInv`, `OpInv`, `GreetInv`).  What
  makes them inductive: what a watcher was told is older than what the processor
  is at, and everything between the start of the watch and that has been told,
  missed or is in hand (`WatchTellsInv`); an operator the relay has not come to
  yet was in the list when it took the lock, and no writer changes the list
  meanwhile (`OpLineInv`).  The greeter takes two: unless the topic was set in a
  race, whoever is setting or greeting has the topic in force, and with nobody
  setting, the last one on its way to the user, or with none on its way the one on
  show, is that topic (`GreetTopicInv`); and who is owed a topic has been told one
  or has one coming (`OwedInv`), where a user who comes just now has not been told
  and is not owed anything yet.

Only model-checked is liveness (`StopsAreKnown`, `LossNoticed`,
`NoSenderStarves`, `ChannelDrains`, `BansEnforced`, `GhostsLeave`, `BotsReturn`,
`StaleForwardersEnd`, `TellsArrive`, `LoginsAnswered`, `LeftoversEnd`), which
this prover cannot do.  `QueueBounded` is only proved.

## 6. Where the code does not do what it says

| Run | What |
|---|---|
| `hublink_wedge` | "This function runs forever": `handle_event` sends into the channel its own task drains, and waits for ever when it is full.  `WedgeIsForever` proves that nothing frees it, not even the loss of the connection.  Two more wedges need a lock holder (`UsersWedge`, `BotsWedge`), and a frame that the log cannot cut ends the task by a panic (`HandleUnreadable`) |
| `bot_claims` | `unregister_bot` is to re-enable the commands "claimed by this bot" and re-enables those of every bot |
| `presence_orphans` | "Close orphaned sessions": the statement names a column that the table does not have, and its error is dropped |
| `moderation_topic` | The settings table is for state that "must survive restarts. Used for: hub topic": a topic set over REST is saved under a key that start-up does not read |
| `tells_own` | "avoid delivering a tell that was just created in the same event": the test knows `!tell` and not its alias `!msg` |

## 7. Not modelled

- Reading and formatting: REST read endpoints, chat commands that only answer,
  protocol frames as text, logging, OpenAPI and the admin UI's files.
- API authentication and admin sessions: stateless comparisons and signatures.
- Configuration and start-up: wiring, apart from the capacities.
- The database as such: a statement is one atomic step that succeeds or fails.
  A failure of a statement before the ones modelled (`insert_chat` before the
  tells, say) is the failure of the event it belongs to.
- Shutdown: the process ends wherever its tasks are; `Tells` has it as `Restart`.

- Commands of the bot API that repeat a statement of REST or chat (bans, gags and
  watches by a bot), its key-value entries, and the notices to operators; and
  user_connect and user_disconnect (api/bot.rs:192-220), by which a bot opens and
  closes sessions as it likes: `SessionsFollow` is about those the event processor
  keeps.
- Storing: chat lines, profiles, statistics and the command history.  Two things
  were noticed there: send_message stores its line and publishes it to the event
  processor, which stores it again (api/chat.rs:81); and upsert_user is called with
  an empty profile for each chat line and join.
- The id of a webhook is bound as text where the table has a UUID
  (webhook/manager.rs:90, migrations/002_webhooks.sql): whether the database takes
  it is not a question for a model, and `Webhooks` supposes that it does.
- `!alias`: a claim is looked up by the name as typed (bot/mod.rs:135) and the
  alias resolved afterwards, so the alias of a claimed command stays with the
  built-in handler.  Names are data here, but for `!msg` in `Tells`.
- OPChat's own registration, which follows the pattern of the bots' re-adding.
- `Greeter` takes the command channel without losses, `Watches` and `OpChat` end
  at the channel: what a lost connection does to commands is `CommandPipe`.

## 8. The plan

Done, in the order of importance: `CommandPipe` and `HubLink` (everything depends
on them), `BotRegistry`, `Presence`, `TokenBucket` and `RateLimiter`, `Tells`,
`Moderation`, and `EventBus` with its readers, composed in `Subscribers`; and the
proofs of all their safety properties.

Next, to prove more:

1. That the pipes of `Presence`, `BotRegistry` and `Tells` are `CommandPipe`s: they
   are used in its place, which so far is an argument and not a theorem.
2. The safety part of what liveness rests on.  Three invariants are there: whoever
   should leave or appear has what makes it happen under way (`BanInv` for
   `BansEnforced`, `MapInv` for `GhostsLeave`, `BotsComing` for `BotsReturn`).
   What is left is that a step the fairness speaks of is enabled when the
   argument needs it (a handler under way has a next step).
3. `HubShowsTheBots` for overlapping calls, under the weakest condition on them.

To model more there is little left that has a protocol: the bots' key-value
entries, and `execute_command`, whose effect depends on whether the hub sends the
gateway's own lines back to it.
