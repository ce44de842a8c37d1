---------------------------------- MODULE Tells ----------------------------------
(***************************************************************************)
(* Tells, the messages left for a nick until it is next seen: tell of      *)
(* src/src/bot/commands/mod.rs, run by the command processor of            *)
(* src/src/main.rs; deliver_tells of src/src/db/event_processor.rs, run by *)
(* the event processor; and the bot API's tells of src/src/api/bot.rs.     *)
(*                                                                         *)
(* Both processors receive every event of the bus, each at its own pace.   *)
(* The command channel and the hub are CommandPipe, of which only the      *)
(* tells' messages are shown.  A restart of the gateway empties everything *)
(* but the database.                                                       *)
(*                                                                         *)
(* The answers to the sender, the chat history and the rest of             *)
(* process_event (module Presence) are left out.                           *)
(***************************************************************************)
EXTENDS Naturals, Sequences, FiniteSets

CONSTANTS
    Nicks,
    MaxTells,    \* bound on the tells of a behaviour
    MaxBacklog,  \* bound on the events a processor has to read
    MaxPipe,     \* bound on the tells under way to the hub
    MaxFaults    \* bound on the faults of a behaviour

ASSUME TellsAssumption ==
    /\ MaxTells \in Nat
    /\ MaxBacklog \in Nat \ {0}
    /\ MaxPipe \in Nat \ {0}
    /\ MaxFaults \in Nat

VARIABLES
    tells,      \* the table, by id: recipient and whether delivered_at is set; besides,
                \* the number of the chat command that made the tell, or 0, and how
                \* often the tell was sent
    issued,     \* tells asked for so far
    evTodo,     \* events the event processor has not read
    cmdTodo,    \* events the command processor has not read
    proc,       \* the event the event processor is at
    step,       \* what it does for it: "idle", "find", "send" or "mark"
    left,       \* the tells it has yet to deliver for it
    cmd,        \* the command the command processor is at
    pipe,       \* messages sent, not read by the hub or lost
    got,        \* messages the hub has read
    byBot,      \* the tells marked through the bot API
    faults      \* faults so far: losses of the connection or of events, failing
                \* statements, restarts

dbVars == <<tells, byBot>>
busVars == <<evTodo, cmdTodo, issued>>
procVars == <<proc, step, left>>
pipeVars == <<pipe, got>>
vars == <<dbVars, busVars, procVars, cmd, pipeVars, faults>>

Ids == 1 .. Len(tells)

\* An event says that a nick is there; a tell command also has a recipient and a
\* number.  num = 0: a join, or chat that is no tell command.
\* spelt: the message begins with "!tell".
TellCommands == [nick : Nicks, to : Nicks, num : 1 .. MaxTells, spelt : BOOLEAN]
Events == TellCommands \cup [nick : Nicks, num : {0}, spelt : {FALSE}]

None == [num |-> 0]

Fault ==
    /\ faults < MaxFaults
    /\ faults' = faults + 1

Init ==
    /\ tells = <<>>
    /\ issued = 0
    /\ evTodo = <<>> /\ cmdTodo = <<>>
    /\ proc = None /\ step = "idle" /\ left = {}
    /\ cmd = None
    /\ pipe = <<>> /\ got = <<>>
    /\ byBot = {}
    /\ faults = 0

--------------------------------------------------------------------------------
(* The bus.                                                                 *)

Publish(e) ==
    /\ Len(evTodo) < MaxBacklog /\ Len(cmdTodo) < MaxBacklog
    /\ evTodo' = Append(evTodo, e)
    /\ cmdTodo' = Append(cmdTodo, e)

\* A nick joins, or writes anything but a tell command.
Seen(n) ==
    /\ Publish([nick |-> n, num |-> 0, spelt |-> FALSE])
    /\ UNCHANGED <<dbVars, issued, procVars, cmd, pipeVars, faults>>

\* "!tell <nick> <message>", or its alias "!msg".
TypeTell(n, to) ==
    /\ issued < MaxTells
    /\ issued' = issued + 1
    /\ \E s \in BOOLEAN :
        Publish([nick |-> n, to |-> to, num |-> issued + 1, spelt |-> s])
    /\ UNCHANGED <<dbVars, procVars, cmd, pipeVars, faults>>

\* A receiver that lags loses its oldest events.
Lag ==
    /\ Fault
    /\ \/ evTodo # <<>> /\ evTodo' = Tail(evTodo) /\ UNCHANGED cmdTodo
       \/ cmdTodo # <<>> /\ cmdTodo' = Tail(cmdTodo) /\ UNCHANGED evTodo
    /\ UNCHANGED <<dbVars, issued, procVars, cmd, pipeVars>>

--------------------------------------------------------------------------------
(* The command processor: tell.                                             *)

\* Anything but a tell command is passed over; so is the command while a bot claims it
\* (BotRegistry).
ReadCommand ==
    /\ cmd = None
    /\ cmdTodo # <<>>
    /\ cmd' \in {None} \cup (IF Head(cmdTodo).num = 0 THEN {} ELSE {Head(cmdTodo)})
    /\ cmdTodo' = Tail(cmdTodo)
    /\ UNCHANGED <<dbVars, evTodo, issued, procVars, pipeVars, faults>>

Insert(to, num) == tells' = Append(tells, [to |-> to, done |-> FALSE, by |-> num, sent |-> 0])

SaveTell ==
    /\ cmd # None
    /\ cmd' = None
    /\ \/ Insert(cmd.to, cmd.num) /\ UNCHANGED faults
       \/ Fault /\ UNCHANGED tells
    /\ UNCHANGED <<byBot, busVars, procVars, pipeVars>>

--------------------------------------------------------------------------------
(* The bot API.                                                             *)

ApiCreate(to) ==
    /\ issued < MaxTells
    /\ issued' = issued + 1
    /\ Insert(to, 0)
    /\ UNCHANGED <<byBot, evTodo, cmdTodo, procVars, cmd, pipeVars, faults>>

\* A bot that has delivered a tell itself marks it, whether or not it is pending.
ApiMark(t) ==
    /\ tells' = [tells EXCEPT ![t].done = TRUE]
    /\ byBot' = byBot \cup {t}
    /\ UNCHANGED <<busVars, procVars, cmd, pipeVars, faults>>

--------------------------------------------------------------------------------
(* The event processor.  deliver_tells reads the pending tells once, then   *)
(* sends and marks them one by one.                                         *)

ReadEvent ==
    /\ step = "idle"
    /\ evTodo # <<>>
    /\ evTodo' = Tail(evTodo)
    /\ IF Head(evTodo).spelt THEN UNCHANGED <<proc, step>>
       ELSE proc' = Head(evTodo) /\ step' = "find"
    /\ UNCHANGED <<dbVars, cmdTodo, issued, left, cmd, pipeVars, faults>>

Done ==
    /\ proc' = None
    /\ step' = "idle"

Pending(n) == {t \in Ids : tells[t].to = n /\ ~tells[t].done}

\* Mutants of Found: the delivered ones are found again; what was sent before is not.
FoundAll(n) == {t \in Ids : tells[t].to = n}
FoundUnsent(n) == {t \in Pending(n) : tells[t].sent = 0}

\* get_pending_tells
Found(n) == Pending(n)

\* Mutant of Oldest: the newest comes first.
Newest == CHOOSE t \in left : \A u \in left : u <= t

\* The tells found are gone through in the order they were left.
Oldest == CHOOSE t \in left : \A u \in left : t <= u

\* Mutant of FindTells: one statement finds the tells and marks them.
FindTellsMarking ==
    /\ step = "find"
    /\ left' = Found(proc.nick)
    /\ IF left' = {} THEN Done ELSE step' = "send" /\ UNCHANGED proc
    /\ tells' = [t \in Ids |-> IF t \in Pending(proc.nick) THEN [tells[t] EXCEPT !.done = TRUE]
                               ELSE tells[t]]
    /\ UNCHANGED <<byBot, busVars, cmd, pipeVars, faults>>

\* A failing query, of this or of an earlier statement, ends the event.  (So does a ban
\* at a join: the nicks here are not banned.)
FindTells ==
    /\ step = "find"
    /\ \/ /\ left' = Found(proc.nick)
          /\ IF left' = {} THEN Done ELSE step' = "send" /\ UNCHANGED proc
          /\ UNCHANGED faults
       \/ Fault /\ Done /\ UNCHANGED left
    /\ UNCHANGED <<dbVars, busVars, cmd, pipeVars>>

SendTell ==
    /\ step = "send"
    /\ Len(pipe) < MaxPipe
    /\ pipe' = Append(pipe, Oldest)
    /\ tells' = [tells EXCEPT ![Oldest].sent = @ + 1]
    /\ step' = "mark"
    /\ UNCHANGED <<byBot, busVars, proc, left, cmd, got, faults>>

\* Mutant of NextTell: the end is looked for before the tell is taken off.
NextTellLate ==
    /\ left' = left \ {Oldest}
    /\ IF left = {} THEN Done ELSE step' = "send" /\ UNCHANGED proc

\* On to the next tell, if there is one.
NextTell ==
    /\ left' = left \ {Oldest}
    /\ IF left' = {} THEN Done ELSE step' = "send" /\ UNCHANGED proc

\* An error of mark_tell_delivered is ignored.
MarkTell ==
    /\ step = "mark"
    /\ \/ tells' = [tells EXCEPT ![Oldest].done = TRUE] /\ UNCHANGED faults
       \/ Fault /\ UNCHANGED tells
    /\ NextTell
    /\ UNCHANGED <<byBot, busVars, cmd, pipeVars>>

--------------------------------------------------------------------------------
(* The channel, the hub and the process itself.                             *)

HubTakes ==
    /\ pipe # <<>>
    /\ got' = Append(got, Head(pipe))
    /\ pipe' = Tail(pipe)
    /\ UNCHANGED <<dbVars, busVars, procVars, cmd, faults>>

LinkFails ==
    /\ pipe # <<>>
    /\ Fault
    /\ \E k \in 1 .. Len(pipe) : pipe' = SubSeq(pipe, k + 1, Len(pipe))
    /\ UNCHANGED <<dbVars, busVars, procVars, cmd, got>>

Restart ==
    /\ Fault
    /\ evTodo' = <<>> /\ cmdTodo' = <<>>
    /\ proc' = None /\ step' = "idle" /\ left' = {}
    /\ cmd' = None
    /\ pipe' = <<>>
    /\ UNCHANGED <<dbVars, issued, got>>

--------------------------------------------------------------------------------

ProcStep == ReadEvent \/ FindTells \/ SendTell \/ MarkTell

CmdStep == ReadCommand \/ SaveTell

Next ==
    \/ \E n \in Nicks : Seen(n) \/ ApiCreate(n) \/ \E to \in Nicks : TypeTell(n, to)
    \/ \E t \in Ids : ApiMark(t)
    \/ ProcStep \/ CmdStep
    \/ Lag \/ HubTakes \/ LinkFails \/ Restart

Spec == Init /\ [][Next]_vars

\* Both processors are tokio tasks; the socket task and the hub take what is sent
\* (HubLink: ChannelDrains).
Fairness == WF_vars(ProcStep) /\ WF_vars(CmdStep) /\ WF_vars(HubTakes)

FairSpec == Spec /\ Fairness

--------------------------------------------------------------------------------
(* Properties.                                                              *)

TellRecords == [to : Nicks, done : BOOLEAN, by : 0 .. MaxTells, sent : Nat]

TypeOK ==
    /\ tells \in Seq(TellRecords)
    /\ issued \in 0 .. MaxTells
    /\ evTodo \in Seq(Events) /\ cmdTodo \in Seq(Events)
    /\ proc \in Events \cup {None}
    /\ step \in {"idle", "find", "send", "mark"}
    /\ left \subseteq Ids
    /\ step \in {"send", "mark"} <=> left # {}
    /\ cmd \in TellCommands \cup {None}
    /\ pipe \in Seq(Nat) /\ got \in Seq(Nat)
    /\ byBot \subseteq Ids
    /\ faults \in 0 .. MaxFaults

\* No tell is taken for delivered that was never sent: a restart or a failing
\* statement at any point may repeat a tell, never swallow it
\* (db/event_processor.rs:190-191).
MarkedMeansSent == \A t \in Ids \ byBot : tells[t].done => tells[t].sent > 0

\* A tell is sent again only when a fault came in between, however many events of the
\* recipient are queued behind the one that delivers it and whoever else marks it
\* (db/event_processor.rs:169-195, db/queries.rs:297-306).
SentAgainOnlyAfterFaults == \A t \in Ids : tells[t].sent <= 1 + faults

\* Without faults the hub gets a nick's tells in the order they were left, however the
\* passes over them are cut by new tells (db/queries.rs:300).
InOrder ==
    faults = 0 =>
        LET sent == got \o pipe IN
        \A i, j \in DOMAIN sent :
            (i < j /\ tells[sent[i]].to = tells[sent[j]].to) => sent[i] < sent[j]

\* The nick's presence is under way to the event processor.
Active(n) == \E i \in DOMAIN evTodo : evTodo[i].nick = n /\ ~evTodo[i].spelt

\* A tell does not stay pending while its recipient goes on joining or writing: no
\* restart, lag or failing statement makes it stick (db/event_processor.rs:62-67, 83-84).
TellsArrive ==
    \A n \in Nicks : []<>Active(n) =>
        \A t \in 1 .. MaxTells : (t \in Ids /\ t \in Pending(n)) ~> (t \notin Pending(n))

\* "avoid delivering a tell that was just created in the same event"
\* (db/event_processor.rs:64-65), for a tell to oneself.  The code avoids it for the
\* spelling "!tell" only, and not for the alias "!msg" (bot/commands/mod.rs:125).
OwnTellWaits == \A t \in left : proc.num = 0 \/ tells[t].by # proc.num
================================================================================
