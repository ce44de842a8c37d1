-------------------------------- MODULE HubLink --------------------------------
(***************************************************************************)
(* The hub socket task of src/src/hub/socket.rs with the tasks that feed   *)
(* it.  The task owns the connection to the hub and is the only receiver   *)
(* of the bounded command channel made in src/src/main.rs; while it        *)
(* handles an event from the hub it is also one of the channel's senders,  *)
(* and takes locks that other senders hold while they wait for room.       *)
(*                                                                         *)
(* A command is its place in the order the channel accepts commands; an    *)
(* event from the hub is one of the kinds handle_event tells apart by what *)
(* it does to the channel and the locks:                                   *)
(*   "publish"   user_join, pm, kick, status: only published on the bus;   *)
(*               or ignored, as a validate_nick without a nick is          *)
(*   "chat"      chat, check_password: sends one command                   *)
(*   "validate"  validate_nick: reads the bot registry, sends one command  *)
(*   "roster"    user_quit, myinfo, user_list: writes the user map         *)
(*   "oversize"  a frame longer than 1 MiB: ends the session               *)
(*   "unreadable"  a frame that is no JSON and has a character across its  *)
(*               byte 200: the warning's slice panics and the task ends    *)
(* Any other frame that does not parse is a "publish" that is ignored.     *)
(***************************************************************************)
EXTENDS Naturals, Sequences, FiniteSets

CONSTANTS
    Cap,            \* room in the command channel
    Senders,        \* the gateway's other tasks that send commands
    UserReaders,    \* those that send while holding hub_state.users.read()
    BotReaders,     \* those that send while holding bot_registry.bots.read()
    Kinds,          \* the kinds of hub event considered
    MaxBatch,       \* events in one read of the socket
    WireCap,        \* commands the socket buffers hold before a write blocks
    InitialDelay,   \* DEFAULT_RECONNECT_DELAY
    MaxDelay,       \* MAX_RECONNECT_DELAY
    MaxCommands     \* bound on the commands of a behaviour

AllKinds == {"publish", "chat", "validate", "roster", "oversize", "unreadable"}

ASSUME LinkAssumption ==
    /\ Cap \in Nat \ {0}
    /\ MaxBatch \in Nat
    /\ WireCap \in Nat \ {0}
    /\ InitialDelay \in Nat \ {0}
    /\ MaxDelay \in Nat
    /\ InitialDelay <= MaxDelay
    /\ MaxCommands \in Nat
    /\ UserReaders \subseteq Senders
    /\ BotReaders \subseteq Senders
    /\ UserReaders \cap BotReaders = {}
    /\ Kinds \subseteq AllKinds

VARIABLES
    phase,      \* where the socket task is
    delay,      \* run's backoff, in seconds
    batch,      \* complete frames read from the socket, not handled yet
    inHand,     \* the command received from the channel, being written
    guard,      \* the socket task holds bots.read() while it sends
    connected,  \* hub_state.connected
    status,     \* the last GatewayStatus published on the bus, if any
    served,     \* a session has been opened, so there were events to react to
    queue,      \* the command channel
    sent,       \* commands the channel has accepted so far
    pc,         \* per sender: "idle", "holding" its read lock, or "sending"
    wantBots,   \* a writer (register_bot, unregister_bot) waits for the bots lock
    link,       \* the connection, as its two ends see it
    wire,       \* commands written to the socket, not read by the hub
    got         \* commands the hub has read

socketVars == <<phase, delay, batch, inHand, guard>>
statusVars == <<connected, status, served>>
channelVars == <<queue, sent>>
senderVars == <<pc, wantBots>>
hubVars == <<link, wire, got>>
vars == <<socketVars, statusVars, channelVars, senderVars, hubVars>>

Phases == {"connecting", "auth", "request", "select", "tick", "writing",
           "handling", "users", "bots", "send", "sleep", "dead"}

--------------------------------------------------------------------------------
(* Locks.  tokio's RwLock is fair: a reader that arrives while a writer     *)
(* waits queues behind the writer.                                          *)

UsersRead == {p \in UserReaders : pc[p] # "idle"}
BotsRead  == {p \in BotReaders : pc[p] # "idle"}

\* Whether a task that needs it can take its read lock now.
ReadLockFree(p) ==
    /\ p \in UserReaders => phase # "users"
    /\ p \in BotReaders => ~wantBots

\* Mutants of HasRoom: one command too many, one too few.
HasRoomLax == Len(queue) <= Cap
HasRoomStrict == Len(queue) + 1 < Cap

HasRoom == Len(queue) < Cap

Waiting == {p \in Senders : pc[p] = "sending"}

\* Commands accepted, on their way into the channel, or owed by the frames read.
Answered(b) == {i \in 1 .. Len(b) : b[i] \in {"chat", "validate"}}

Issued == sent + Cardinality(Waiting) + Cardinality(Answered(batch))

\* A sender's wait for room ends and its command is the channel's youngest.
Push ==
    /\ HasRoom
    /\ sent' = sent + 1
    /\ queue' = Append(queue, sent + 1)

--------------------------------------------------------------------------------

Init ==
    /\ phase = "connecting"
    /\ delay = InitialDelay
    /\ batch = <<>>
    /\ inHand = <<>>
    /\ guard = FALSE
    /\ connected = FALSE
    /\ status = "none"
    /\ served = FALSE
    /\ queue = <<>>
    /\ sent = 0
    /\ pc = [p \in Senders |-> "idle"]
    /\ wantBots = FALSE
    /\ link = "none"
    /\ wire = <<>>
    /\ got = <<>>

\* Mutant of EndSession: an error leaves the last announcement standing.
EndSessionQuietly(how) ==
    /\ phase' = "sleep"
    /\ delay' = IF how = "ok" THEN InitialDelay ELSE delay
    /\ batch' = <<>>
    /\ inHand' = <<>>
    /\ guard' = FALSE
    /\ connected' = FALSE
    /\ status' = IF how = "ok" THEN "down" ELSE status
    /\ link' = IF link = "none" THEN "none" ELSE "dropped"
    /\ UNCHANGED <<served, channelVars, senderVars, wire, got>>

(***************************************************************************)
(* run: what follows connect_and_run, whichever way it returned.  The      *)
(* stream is dropped; the hub may still read what was written before.      *)
(***************************************************************************)
EndSession(how) ==
    /\ phase' = "sleep"
    /\ delay' = IF how = "ok" THEN InitialDelay ELSE delay
    /\ batch' = <<>>
    /\ inHand' = <<>>
    /\ guard' = FALSE
    /\ connected' = FALSE
    /\ status' = "down"
    /\ link' = IF link = "none" THEN "none" ELSE "dropped"
    /\ UNCHANGED <<served, channelVars, senderVars, wire, got>>

\* Mutant of Wake: the doubling is not capped.
WakeUncapped ==
    /\ phase = "sleep"
    /\ phase' = "connecting"
    /\ delay' = 2 * delay
    /\ UNCHANGED <<batch, inHand, guard, statusVars, channelVars, senderVars, hubVars>>

Wake ==
    /\ phase = "sleep"
    /\ phase' = "connecting"
    /\ delay' = IF 2 * delay < MaxDelay THEN 2 * delay ELSE MaxDelay
    /\ UNCHANGED <<batch, inHand, guard, statusVars, channelVars,
                   senderVars, hubVars>>

\* UnixStream::connect succeeds and the secret is sent.  The hub serves one
\* gateway connection: whatever it had not read of the previous one is gone.
Connect ==
    /\ phase = "connecting"
    /\ phase' = "auth"
    /\ link' = "up"
    /\ wire' = <<>>
    /\ UNCHANGED <<delay, batch, inHand, guard, statusVars, channelVars,
                   senderVars, got>>

ConnectFails ==
    /\ phase = "connecting"
    /\ EndSession("err")

AuthOk ==
    /\ phase = "auth"
    /\ link = "up"
    /\ phase' = "request"
    /\ connected' = TRUE
    /\ status' = "up"
    /\ served' = TRUE
    /\ UNCHANGED <<delay, batch, inHand, guard, channelVars, senderVars,
                   hubVars>>

\* Any other answer, an unreadable one, or a connection that fails first.
AuthFails ==
    /\ phase = "auth"
    /\ EndSession("err")

RequestState ==
    /\ phase = "request"
    /\ link = "up"
    /\ phase' = "select"
    /\ UNCHANGED <<delay, batch, inHand, guard, statusVars, channelVars,
                   senderVars, hubVars>>

RequestFails ==
    /\ phase = "request"
    /\ link = "none"
    /\ EndSession("err")

--------------------------------------------------------------------------------
(* The select! loop: a tick, a read of the socket or a command from the     *)
(* channel.  The tick's two requests wait for room in the socket and their  *)
(* errors are ignored; they are no commands and are not kept on the wire.   *)

Tick ==
    /\ phase = "select"
    /\ phase' = "tick"
    /\ UNCHANGED <<delay, batch, inHand, guard, statusVars, channelVars,
                   senderVars, hubVars>>

TickReturns ==
    /\ phase = "tick"
    /\ link = "up" => Len(wire) < WireCap
    /\ phase' = "select"
    /\ UNCHANGED <<delay, batch, inHand, guard, statusVars, channelVars,
                   senderVars, hubVars>>

ReadEvents ==
    /\ phase = "select"
    /\ \E n \in 1 .. MaxBatch : \E b \in [1 .. n -> Kinds] :
        /\ Issued + Cardinality(Answered(b)) <= MaxCommands
        /\ batch' = b
    /\ phase' = "handling"
    /\ UNCHANGED <<delay, inHand, guard, statusVars, channelVars,
                   senderVars, hubVars>>

\* Mutant of ReadEnds: an empty read is taken for no data yet.
ReadEndIgnored ==
    /\ phase = "select"
    /\ link = "none"
    /\ UNCHANGED vars

\* A read returns no bytes, which is a clean end, or an error.
ReadEnds ==
    /\ phase = "select"
    /\ link = "none"
    /\ \E how \in {"ok", "err"} : EndSession(how)

\* Mutant of RecvCommand: the next command waits until the hub took the last one.
RecvCommandInStep ==
    /\ phase = "select"
    /\ queue # <<>>
    /\ wire = <<>>
    /\ phase' = "writing"
    /\ inHand' = <<Head(queue)>>
    /\ queue' = Tail(queue)
    /\ UNCHANGED <<delay, batch, guard, statusVars, sent, senderVars, hubVars>>

RecvCommand ==
    /\ phase = "select"
    /\ queue # <<>>
    /\ phase' = "writing"
    /\ inHand' = <<Head(queue)>>
    /\ queue' = Tail(queue)
    /\ UNCHANGED <<delay, batch, guard, statusVars, sent, senderVars,
                   hubVars>>

WriteCommand ==
    /\ phase = "writing"
    /\ link = "up"
    /\ Len(wire) < WireCap
    /\ wire' = wire \o inHand
    /\ inHand' = <<>>
    /\ phase' = "select"
    /\ UNCHANGED <<delay, batch, guard, statusVars, channelVars,
                   senderVars, link, got>>

\* Mutant of WriteFails: the command goes back to the channel for a retry.
WriteFailsRequeue ==
    /\ phase = "writing"
    /\ link = "none"
    /\ phase' = "sleep"
    /\ inHand' = <<>>
    /\ queue' = queue \o inHand
    /\ connected' = FALSE
    /\ status' = "down"
    /\ UNCHANGED <<delay, batch, guard, served, sent, senderVars, hubVars>>

\* The command taken from the channel is not put back.
WriteFails ==
    /\ phase = "writing"
    /\ link = "none"
    /\ EndSession("err")

--------------------------------------------------------------------------------
(* handle_event, for each complete frame of the buffer in turn.  The task   *)
(* does not return to select! before the buffer is exhausted.               *)

NextFrame ==
    /\ batch' = Tail(batch)
    /\ phase' = "handling"

BatchDone ==
    /\ phase = "handling"
    /\ batch = <<>>
    /\ phase' = "select"
    /\ UNCHANGED <<delay, batch, inHand, guard, statusVars, channelVars,
                   senderVars, hubVars>>

HandleOversize ==
    /\ phase = "handling"
    /\ batch # <<>>
    /\ Head(batch) = "oversize"
    /\ EndSession("err")

HandlePublish ==
    /\ phase = "handling"
    /\ batch # <<>>
    /\ Head(batch) = "publish"
    /\ NextFrame
    /\ UNCHANGED <<delay, inHand, guard, statusVars, channelVars,
                   senderVars, hubVars>>

\* The slice of the first 200 bytes panics.  Nobody awaits the spawned task, so
\* it is gone for good: its stream is dropped and, with the receiver, the channel
\* and the commands in it.  Nothing is announced and connected is left as it was.
HandleUnreadable ==
    /\ phase = "handling"
    /\ batch # <<>>
    /\ Head(batch) = "unreadable"
    /\ phase' = "dead"
    /\ batch' = <<>>
    /\ queue' = <<>>
    /\ link' = IF link = "none" THEN "none" ELSE "dropped"
    /\ UNCHANGED <<delay, inHand, guard, statusVars, sent, senderVars, wire, got>>

\* The first suspension point of a handler: hub_tx.send, users.write() or
\* bots.read().
WaitsFor == [chat |-> "send", roster |-> "users", validate |-> "bots"]

StartHandler ==
    /\ phase = "handling"
    /\ batch # <<>>
    /\ Head(batch) \in DOMAIN WaitsFor
    /\ phase' = WaitsFor[Head(batch)]
    /\ UNCHANGED <<delay, batch, inHand, guard, statusVars, channelVars,
                   senderVars, hubVars>>

\* The map is written and the event published with no further wait.
WriteUsers ==
    /\ phase = "users"
    /\ UsersRead = {}
    /\ NextFrame
    /\ UNCHANGED <<delay, inHand, guard, statusVars, channelVars,
                   senderVars, hubVars>>

\* validate_nick with a nick answers in every case; the refusal of a bot's nick is sent
\* with the read guard still held.
CheckBots ==
    /\ phase = "bots"
    /\ ~wantBots
    /\ guard' \in BOOLEAN
    /\ phase' = "send"
    /\ UNCHANGED <<delay, batch, inHand, statusVars, channelVars,
                   senderVars, hubVars>>

\* Mutant of SendOwn: try_send, which drops the command when there is no room.
SendOwnOrDrop ==
    /\ phase = "send"
    /\ Push \/ (~HasRoom /\ UNCHANGED channelVars)
    /\ NextFrame
    /\ guard' = FALSE
    /\ UNCHANGED <<delay, inHand, statusVars, senderVars, hubVars>>

\* hub_tx.send returns; a Chat is published and the handler ends.
SendOwn ==
    /\ phase = "send"
    /\ Push
    /\ NextFrame
    /\ guard' = FALSE
    /\ UNCHANGED <<delay, inHand, statusVars, senderVars, hubVars>>

--------------------------------------------------------------------------------
(* The other tasks.  opchat.rs and !massmessage hold users.read() over a    *)
(* loop of sends, the command processor holds bots.read() while it re-adds  *)
(* the bots, and everyone else sends with no lock.                          *)

Locking == UserReaders \cup BotReaders

TakeLock(p) ==
    /\ p \in Locking
    /\ served
    /\ pc[p] = "idle"
    /\ ReadLockFree(p)
    /\ pc' = [pc EXCEPT ![p] = "holding"]
    /\ UNCHANGED <<socketVars, statusVars, channelVars, wantBots, hubVars>>

StartSend(p) ==
    /\ pc[p] = IF p \in Locking THEN "holding" ELSE "idle"
    /\ Issued < MaxCommands
    /\ pc' = [pc EXCEPT ![p] = "sending"]
    /\ UNCHANGED <<socketVars, statusVars, channelVars, wantBots, hubVars>>

\* With room in the channel, or with an error, which every sender ignores, when
\* the receiver is gone.
SendReturns(p) ==
    /\ pc[p] = "sending"
    /\ IF phase = "dead" THEN UNCHANGED channelVars ELSE Push
    /\ pc' = [pc EXCEPT ![p] = IF p \in Locking THEN "holding" ELSE "idle"]
    /\ UNCHANGED <<socketVars, statusVars, wantBots, hubVars>>

\* Mutant of DropLock: the guard outlives the loop of sends.
KeepLock(p) ==
    /\ pc[p] = "holding"
    /\ UNCHANGED vars

DropLock(p) ==
    /\ pc[p] = "holding"
    /\ pc' = [pc EXCEPT ![p] = "idle"]
    /\ UNCHANGED <<socketVars, statusVars, channelVars, wantBots, hubVars>>

\* register_bot and unregister_bot: one insert or remove under bots.write().
AskBots ==
    /\ ~wantBots
    /\ wantBots' = TRUE
    /\ UNCHANGED <<socketVars, statusVars, channelVars, pc, hubVars>>

WriteBots ==
    /\ wantBots
    /\ BotsRead = {}
    /\ ~guard
    /\ wantBots' = FALSE
    /\ UNCHANGED <<socketVars, statusVars, channelVars, pc, hubVars>>

--------------------------------------------------------------------------------
(* The hub.  It reads frames in order; when it closes, stops or crashes,    *)
(* what it had not read is lost.                                            *)

HubReads ==
    /\ wire # <<>>
    /\ got' = Append(got, Head(wire))
    /\ wire' = Tail(wire)
    /\ UNCHANGED <<socketVars, statusVars, channelVars, senderVars, link>>

HubCloses ==
    /\ link \in {"up", "dropped"}
    /\ link' = "none"
    /\ wire' = <<>>
    /\ UNCHANGED <<socketVars, statusVars, channelVars, senderVars, got>>

--------------------------------------------------------------------------------

SocketStep ==
    \/ Wake \/ Connect \/ ConnectFails \/ AuthOk \/ AuthFails
    \/ RequestState \/ RequestFails
    \/ Tick \/ TickReturns
    \/ ReadEvents \/ ReadEnds
    \/ RecvCommand \/ WriteCommand \/ WriteFails
    \/ BatchDone \/ HandleOversize \/ HandlePublish \/ HandleUnreadable
    \/ StartHandler \/ WriteUsers \/ CheckBots \/ SendOwn

SenderStep(p) == TakeLock(p) \/ StartSend(p) \/ SendReturns(p) \/ DropLock(p)

Next ==
    \/ SocketStep
    \/ \E p \in Senders : SenderStep(p)
    \/ AskBots \/ WriteBots
    \/ HubReads \/ HubCloses

Spec == Init /\ [][Next]_vars

\* What the task does next of itself, one step in each of its phases, ...
OwnStep ==
    \/ Wake \/ Connect \/ ConnectFails \/ (AuthFails /\ link = "none")
    \/ RequestState \/ RequestFails
    \/ TickReturns \/ WriteCommand \/ WriteFails
    \/ BatchDone \/ HandleOversize \/ HandlePublish \/ HandleUnreadable
    \/ StartHandler

\* ... and what it does when its turn at a lock or at the channel comes.
TurnStep == WriteUsers \/ CheckBots \/ SendOwn

\* Fairness.  tokio polls a task whose wait is over, so the socket task's
\* own steps are weakly fair (a phase is left by its own step alone, so one
\* condition covers them all); select! picks among its ready branches at
\* random, and the semaphore and the lock queue their waiters first come
\* first served, so no branch and no waiter is passed over for ever.  Nothing
\* is assumed of the hub: it may never answer, read or close.
Fairness ==
    /\ WF_vars(OwnStep) /\ SF_vars(TurnStep)
    /\ SF_vars(RecvCommand) /\ SF_vars(ReadEnds)
    /\ \A p \in Senders : SF_vars(SendReturns(p)) /\ WF_vars(DropLock(p))
    /\ SF_vars(WriteBots)

FairSpec == Spec /\ Fairness

--------------------------------------------------------------------------------
(* Properties.                                                              *)

TypeOK ==
    /\ phase \in Phases
    /\ delay \in InitialDelay .. MaxDelay
    /\ batch \in Seq(Kinds)
    /\ inHand \in Seq(Nat)
    /\ guard \in BOOLEAN
    /\ connected \in BOOLEAN
    /\ status \in {"none", "up", "down"}
    /\ served \in BOOLEAN
    /\ queue \in Seq(Nat)
    /\ sent \in Nat
    /\ pc \in [Senders -> {"idle", "holding", "sending"}]
    /\ wantBots \in BOOLEAN
    /\ link \in {"none", "up", "dropped"}
    /\ wire \in Seq(Nat)
    /\ got \in Seq(Nat)

\* What the bus last said about the connection, and what the REST API reads of
\* it, is what the socket task is doing: a session is announced before its first
\* event and its end is announced whichever of the exits of connect_and_run
\* ended it (hub/socket.rs:47-61, 94-100).  A panic is no such exit: it leaves
\* connected TRUE (hub/socket.rs:205-213), and all that holds then is that the two
\* announcements still agree.
SessionAnnounced ==
    /\ phase # "dead" =>
          (connected <=> phase \in {"request", "select", "tick", "writing",
                                    "handling", "users", "bots", "send"})
    /\ connected <=> status = "up"

\* The channel never holds more than its capacity (main.rs:127) and the socket
\* task has at most one command out of it (hub/socket.rs:159).
QueueBounded ==
    /\ Len(queue) <= Cap
    /\ Len(inHand) <= 1
    /\ inHand # <<>> => phase = "writing"

\* A lock the socket task needs is held by a task that waits for the socket task.
Full == Len(queue) = Cap
SendWedge == phase = "send" /\ Full
UsersWedge == phase = "users" /\ Full /\ \E p \in UserReaders : pc[p] = "sending"
BotsWedge == phase = "bots" /\ wantBots /\ Full /\ \E p \in BotReaders : pc[p] = "sending"
Wedged == SendWedge \/ UsersWedge \/ BotsWedge

\* Once wedged, the gateway never reads the hub nor drains the channel again, and
\* not even the loss of the connection ends it: only a restart of the process
\* does (hub/socket.rs:113-165: both are branches of one loop).
WedgeIsForever == [][Wedged => Wedged']_vars

\* The hub owes the next step: an answer to the secret, or room in the socket.
AwaitsHub ==
    /\ link = "up"
    /\ phase = "auth" \/ (phase \in {"tick", "writing"} /\ Len(wire) = WireCap)

AtRest == phase \in {"select", "sleep"}

\* The task has panicked.
Dead == phase = "dead"

\* All the ways the task can stop: one of the three wedges, a hub that stalls, and
\* the panic on a frame it cannot show (hub/socket.rs:205-213).  No interleaving of
\* its handlers, the lock holders, the registry's writers and a full channel stops
\* it otherwise (hub/socket.rs:113-165).
StopsAreKnown == []<>AtRest \/ <>[](Wedged \/ AwaitsHub \/ Dead)

\* The hub's disappearance is eventually reported, unless the task is wedged or
\* dead (hub/socket.rs:124-127, 56-61).
LossNoticed == (connected /\ link = "none") ~> (~connected \/ Wedged \/ Dead)

\* While the task keeps returning to select!, or once it is dead, every task that
\* waits for room stops waiting, and every accepted command leaves the channel,
\* whatever the hub sends and the other senders do meanwhile
\* (hub/socket.rs:114-165; a dead receiver closes the channel).
NoSenderStarves ==
    []<>(phase = "select" \/ Dead) =>
        \A p \in Senders : (pc[p] = "sending") ~> (pc[p] # "sending")

ChannelDrains ==
    []<>(phase = "select" \/ Dead) =>
        \A c \in 1 .. MaxCommands :
            (\E i \in 1 .. Len(queue) : queue[i] = c) ~>
            (\A i \in 1 .. Len(queue) : queue[i] # c)

\* "This function runs forever (reconnecting on failure)" (hub/socket.rs:27): the
\* task always gets back to serving the connection or to retrying, a stalled hub
\* apart.  The code does not keep this: see Wedged and Dead.
RunsForever == []<>(AtRest \/ AwaitsHub)

\* The gateway's commands reach the hub in the order the channel took them, none
\* twice, and none is lost while the connection is up and the task lives (CommandPipe).
Pipe == INSTANCE CommandPipe
    WITH pipe <- wire \o inHand \o queue, up <- (link = "up"), broken <- Dead

PipeSpec == Pipe!Spec
================================================================================
