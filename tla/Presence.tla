-------------------------------- MODULE Presence --------------------------------
(***************************************************************************)
(* Who is online, as four parts of the gateway see it: the user map that   *)
(* handle_event keeps (src/src/hub/socket.rs), the sessions that the event *)
(* processor keeps in the database (src/src/db/event_processor.rs), the    *)
(* ban check at a join, and the moderators' bans and kicks                 *)
(* (src/src/api/moderation.rs, src/src/bot/commands/mod.rs).  Each follows *)
(* the hub (external) through queues that lose their content when the      *)
(* connection fails or a receiver of the bus lags.                         *)
(*                                                                         *)
(* The hub reports a user's join, then its info, then its quit; a kicked   *)
(* user quits.                                                             *)
(***************************************************************************)
EXTENDS Naturals, Sequences, FiniteSets

CONSTANTS
    Nicks,      \* users
    ChatMods,   \* moderators with a chat command in flight (!ban, !unban, !kick)
    RestMods,   \* those with a REST request, who may be the same
    MaxInbox,   \* bound on the hub's events under way
    MaxKicks,   \* bound on the kicks under way
    MaxLogins,  \* bound on the logins of a behaviour
    MaxBans,    \* bound on the bans of a behaviour
    MaxFaults   \* bound on connection losses, lags and database errors

ASSUME PresenceAssumption ==
    /\ MaxInbox \in Nat \ {0}
    /\ MaxKicks \in Nat \ {0}
    /\ MaxLogins \in Nat
    /\ MaxBans \in Nat
    /\ MaxFaults \in Nat

VARIABLES
    up,         \* the hub connection
    online,     \* users logged in at the hub
    informed,   \* those whose info the hub has
    logins,     \* logins so far
    inbox,      \* hub events the socket task has not handled
    asked,      \* a get_user_list the hub has not answered
    users,      \* hub_state.users
    todo,       \* events of the bus the processor has not received
    proc,       \* the event the processor handles, and its step
    sessions,   \* user_sessions: open sessions per user
    bans,       \* the bans table: active bans by nick and id
    banId,      \* the last ban's id
    mod,        \* the moderators' commands and their step
    kicks,      \* kick commands under way to the hub
    faults,     \* faults so far
    unseen      \* users whose joins and quits were not all processed

hubVars == <<up, online, informed, logins>>
socketVars == <<inbox, asked, users>>
procVars == <<todo, proc, sessions>>
banVars == <<bans, banId, mod>>
faultVars == <<faults, unseen>>
vars == <<hubVars, socketVars, procVars, banVars, kicks, faultVars>>

Mods == ChatMods \cup RestMods

Idle == [step |-> "idle"]
NoEvent == [type |-> "none"]
Tick == [type |-> "maintenance_tick"]

Banned(n) == \E b \in bans : b.nick = n

\* The ban check_ban returns: the latest one.
ActiveBan(n) == CHOOSE b \in bans :
    b.nick = n /\ \A c \in bans : c.nick = n => c.id <= b.id

Fault ==
    /\ faults < MaxFaults
    /\ faults' = faults + 1

SendKick(n) ==
    /\ Len(kicks) < MaxKicks
    /\ kicks' = Append(kicks, n)

\* What the gateway learns of an event at the hub while the connection is up, and
\* does not learn while it is down.
Report(event) ==
    IF up
    THEN /\ Len(inbox) < MaxInbox
         /\ inbox' = Append(inbox, event)
         /\ UNCHANGED unseen
    ELSE /\ UNCHANGED inbox
         /\ unseen' = IF event.type \in {"user_join", "user_quit"}
                      THEN unseen \cup {event.nick} ELSE unseen

Init ==
    /\ up = FALSE
    /\ online \in SUBSET Nicks
    /\ informed = online
    /\ logins = 0
    /\ inbox = <<>>
    /\ asked = FALSE
    /\ users = {}
    /\ todo = <<>>
    /\ proc = NoEvent
    /\ sessions = [n \in Nicks |-> 0]
    /\ bans = {}
    /\ banId = 0
    /\ mod = [m \in Mods |-> Idle]
    /\ kicks = <<>>
    /\ faults = 0
    /\ unseen = online

--------------------------------------------------------------------------------
(* The hub and the connection.                                              *)

HubLogin(n) ==
    /\ n \notin online
    /\ logins < MaxLogins
    /\ logins' = logins + 1
    /\ online' = online \cup {n}
    /\ Report([type |-> "user_join", nick |-> n])
    /\ UNCHANGED <<up, informed, asked, users, procVars, banVars, kicks, faults>>

HubInfo(n) ==
    /\ n \in online \ informed
    /\ informed' = informed \cup {n}
    /\ Report([type |-> "myinfo", nick |-> n])
    /\ UNCHANGED <<up, online, logins, asked, users, procVars, banVars, kicks, faults>>

Leaves(n) ==
    /\ online' = online \ {n}
    /\ informed' = informed \ {n}
    /\ Report([type |-> "user_quit", nick |-> n])

HubQuit(n) ==
    /\ n \in online
    /\ Leaves(n)
    /\ UNCHANGED <<up, logins, asked, users, procVars, banVars, kicks, faults>>

HubLists ==
    /\ up
    /\ asked
    /\ Len(inbox) < MaxInbox
    /\ inbox' = Append(inbox, [type |-> "user_list", users |-> online])
    /\ asked' = FALSE
    /\ UNCHANGED <<hubVars, users, procVars, banVars, kicks, faultVars>>

HubKicks ==
    /\ up
    /\ kicks # <<>>
    /\ kicks' = Tail(kicks)
    /\ IF Head(kicks) \in online THEN Leaves(Head(kicks))
       ELSE UNCHANGED <<online, informed, inbox, unseen>>
    /\ UNCHANGED <<up, logins, asked, users, procVars, banVars, faults>>

\* The users an event sequence says something new of.
Told(events) ==
    {events[i].nick : i \in {j \in DOMAIN events :
                                events[j].type \in {"user_join", "user_quit"}}}

\* What the socket task had not read is lost, and the oldest kicks with it
\* (CommandPipe).
LinkDown ==
    /\ up
    /\ Fault
    /\ up' = FALSE
    /\ asked' = FALSE
    /\ inbox' = <<>>
    /\ \E k \in 0 .. Len(kicks) :
        /\ kicks' = SubSeq(kicks, k + 1, Len(kicks))
        /\ unseen' = unseen \cup Told(inbox) \cup {kicks[i] : i \in 1 .. k}
    /\ UNCHANGED <<online, informed, logins, users, procVars, banVars>>

LinkUp ==
    /\ ~up
    /\ up' = TRUE
    /\ asked' = TRUE
    /\ UNCHANGED <<online, informed, logins, inbox, users, procVars, banVars, kicks,
                   faultVars>>

\* The 30 s tick of the socket task.
AskList ==
    /\ up
    /\ asked' = TRUE
    /\ UNCHANGED <<hubVars, inbox, users, procVars, banVars, kicks, faultVars>>

--------------------------------------------------------------------------------
(* handle_event: one event is handled, and published, before the next.      *)

NextEvent(type) ==
    /\ inbox # <<>>
    /\ Head(inbox).type = type
    /\ inbox' = Tail(inbox)

HandleJoin ==
    /\ NextEvent("user_join")
    /\ todo' = Append(todo, Head(inbox))
    /\ UNCHANGED <<hubVars, asked, users, proc, sessions, banVars, kicks, faultVars>>

HandleInfo ==
    /\ NextEvent("myinfo")
    /\ users' = users \cup {Head(inbox).nick}
    /\ UNCHANGED <<hubVars, asked, procVars, banVars, kicks, faultVars>>

HandleQuit ==
    /\ NextEvent("user_quit")
    /\ users' = users \ {Head(inbox).nick}
    /\ todo' = Append(todo, Head(inbox))
    /\ UNCHANGED <<hubVars, asked, proc, sessions, banVars, kicks, faultVars>>

\* Mutant of HandleList: the map is not cleared first.
HandleListMerged ==
    /\ NextEvent("user_list")
    /\ users' = users \cup Head(inbox).users
    /\ UNCHANGED <<hubVars, asked, procVars, banVars, kicks, faultVars>>

HandleList ==
    /\ NextEvent("user_list")
    /\ users' = Head(inbox).users
    /\ UNCHANGED <<hubVars, asked, procVars, banVars, kicks, faultVars>>

PublishTick ==
    /\ \A i \in DOMAIN todo : todo[i] # Tick
    /\ todo' = Append(todo, Tick)
    /\ UNCHANGED <<hubVars, socketVars, proc, sessions, banVars, kicks, faultVars>>

\* The bus keeps a bounded number of events of all kinds; a receiver that lags
\* loses the oldest ones and goes on.
Lag ==
    /\ todo # <<>>
    /\ Fault
    /\ \E k \in 1 .. Len(todo) :
        /\ todo' = SubSeq(todo, k + 1, Len(todo))
        /\ unseen' = unseen \cup Told(SubSeq(todo, 1, k))
    /\ UNCHANGED <<hubVars, socketVars, proc, sessions, banVars, kicks>>

--------------------------------------------------------------------------------
(* The event processor: one event at a time, a step for each wait.          *)

Receive ==
    /\ proc = NoEvent
    /\ todo # <<>>
    /\ todo' = Tail(todo)
    /\ proc' = Head(todo)
    /\ UNCHANGED <<hubVars, socketVars, sessions, banVars, kicks, faultVars>>

\* A failing query counts as no ban.
CheckBan ==
    /\ proc.type = "user_join"
    /\ \/ /\ proc' = [proc EXCEPT !.type = IF Banned(proc.nick) THEN "kick" ELSE "open"]
          /\ UNCHANGED faults
       \/ /\ Fault
          /\ proc' = [proc EXCEPT !.type = "open"]
    /\ UNCHANGED <<hubVars, socketVars, todo, sessions, banVars, kicks, unseen>>

KickAtJoin ==
    /\ proc.type = "kick"
    /\ SendKick(proc.nick)
    /\ proc' = NoEvent
    /\ UNCHANGED <<hubVars, socketVars, todo, sessions, banVars, faultVars>>

OpenSession ==
    /\ proc.type = "open"
    /\ proc' = NoEvent
    /\ \/ /\ sessions' = [sessions EXCEPT ![proc.nick] = @ + 1]
          /\ UNCHANGED faultVars
       \/ /\ Fault
          /\ unseen' = unseen \cup {proc.nick}
          /\ UNCHANGED sessions
    /\ UNCHANGED <<hubVars, socketVars, todo, banVars, kicks>>

\* Mutants of CloseSessions: one that counts logins instead of closing all of them,
\* one that spares a user who is back already.
CloseOneSession ==
    /\ proc.type = "user_quit"
    /\ proc' = NoEvent
    /\ sessions' = [sessions EXCEPT ![proc.nick] = @ - 1]
    /\ UNCHANGED <<hubVars, socketVars, todo, banVars, kicks, faultVars>>

CloseSessionsIfGone ==
    /\ proc.type = "user_quit"
    /\ proc' = NoEvent
    /\ sessions' = IF proc.nick \in users THEN sessions
                   ELSE [sessions EXCEPT ![proc.nick] = 0]
    /\ UNCHANGED <<hubVars, socketVars, todo, banVars, kicks, faultVars>>

CloseSessions ==
    /\ proc.type = "user_quit"
    /\ proc' = NoEvent
    /\ \/ /\ sessions' = [sessions EXCEPT ![proc.nick] = 0]
          /\ UNCHANGED faultVars
       \/ /\ Fault
          /\ unseen' = unseen \cup {proc.nick}
          /\ UNCHANGED sessions
    /\ UNCHANGED <<hubVars, socketVars, todo, banVars, kicks>>

\* MaintenanceTick.  What it purges is expired already; the statement of
\* close_orphaned_sessions names a column that user_sessions does not have, and
\* its failure is ignored.
Maintain ==
    /\ proc = Tick
    /\ proc' = NoEvent
    /\ UNCHANGED <<hubVars, socketVars, todo, sessions, banVars, kicks, faultVars>>

\* A ban's time is over.
BanExpires ==
    /\ \E b \in bans : bans' = bans \ {b}
    /\ UNCHANGED <<hubVars, socketVars, procVars, banId, mod, kicks, faultVars>>

--------------------------------------------------------------------------------
(* Moderators.  A chat command's target need not be in the user map; a REST *)
(* request looks it up there first.                                         *)

CreateBan(n) ==
    /\ banId < MaxBans
    /\ banId' = banId + 1
    /\ bans' = bans \cup {[nick |-> n, id |-> banId + 1]}

\* Mutant of Ban: a chat command kicks only a user it finds in the user map.
BanSeen(m, n) ==
    /\ mod[m] = Idle
    /\ CreateBan(n)
    /\ \/ m \in RestMods /\ mod' = [mod EXCEPT ![m] = [step |-> "look", nick |-> n]]
       \/ m \in ChatMods /\ mod' = [mod EXCEPT ![m] = IF n \in users
                                     THEN [step |-> "kick", nick |-> n] ELSE Idle]
    /\ UNCHANGED <<hubVars, socketVars, procVars, kicks, faultVars>>

Ban(m, n) ==
    /\ mod[m] = Idle
    /\ CreateBan(n)
    /\ \/ m \in RestMods /\ mod' = [mod EXCEPT ![m] = [step |-> "look", nick |-> n]]
       \/ m \in ChatMods /\ mod' = [mod EXCEPT ![m] = [step |-> "kick", nick |-> n]]
    /\ UNCHANGED <<hubVars, socketVars, procVars, kicks, faultVars>>

LookUp(m) ==
    /\ mod[m].step = "look"
    /\ mod' = [mod EXCEPT ![m] = IF mod[m].nick \in users THEN [@ EXCEPT !.step = "kick"]
                                 ELSE Idle]
    /\ UNCHANGED <<hubVars, socketVars, procVars, bans, banId, kicks, faultVars>>

KickUser(m, n) ==
    /\ mod[m] = Idle
    /\ m \in ChatMods \/ n \in users
    /\ mod' = [mod EXCEPT ![m] = [step |-> "kick", nick |-> n]]
    /\ UNCHANGED <<hubVars, socketVars, procVars, bans, banId, kicks, faultVars>>

Kick(m) ==
    /\ mod[m].step = "kick"
    /\ SendKick(mod[m].nick)
    /\ mod' = [mod EXCEPT ![m] = Idle]
    /\ UNCHANGED <<hubVars, socketVars, procVars, bans, banId, faultVars>>

\* check_ban, then delete_ban by id.
Unban(m, n) ==
    /\ mod[m] = Idle
    /\ Banned(n)
    /\ mod' = [mod EXCEPT ![m] = [step |-> "delete", nick |-> n, ban |-> ActiveBan(n)]]
    /\ UNCHANGED <<hubVars, socketVars, procVars, bans, banId, kicks, faultVars>>

DeleteBan(m) ==
    /\ mod[m].step = "delete"
    /\ \/ bans' = bans \ {mod[m].ban} /\ UNCHANGED faults
       \/ Fault /\ UNCHANGED bans
    /\ mod' = [mod EXCEPT ![m] = Idle]
    /\ UNCHANGED <<hubVars, socketVars, procVars, banId, kicks, unseen>>

--------------------------------------------------------------------------------

HubStep ==
    \/ \E n \in Nicks : HubLogin(n) \/ HubInfo(n) \/ HubQuit(n)
    \/ HubLists \/ HubKicks \/ LinkDown \/ LinkUp

SocketStep == HandleJoin \/ HandleInfo \/ HandleQuit \/ HandleList

ProcStep == Receive \/ CheckBan \/ KickAtJoin \/ OpenSession \/ CloseSessions \/ Maintain

ModStep(m) == LookUp(m) \/ Kick(m) \/ DeleteBan(m)

Next ==
    \/ HubStep
    \/ AskList \/ SocketStep
    \/ PublishTick \/ Lag \/ ProcStep
    \/ BanExpires
    \/ \E m \in Mods, n \in Nicks : Ban(m, n) \/ KickUser(m, n) \/ Unban(m, n)
    \/ \E m \in Mods : ModStep(m)

Spec == Init /\ [][Next]_vars

\* The socket task, the processor and the moderators' handlers are tokio tasks, and
\* the channel gives everyone room in turn (HubLink: NoSenderStarves); the socket task
\* reconnects for ever and asks for the list; the tick's timer runs.  Of the hub: it
\* answers the request for the list and carries out kicks.
Fairness ==
    /\ WF_vars(SocketStep)
    /\ WF_vars(PublishTick) /\ SF_vars(ProcStep)
    /\ \A m \in Mods : SF_vars(ModStep(m))
    /\ WF_vars(LinkUp) /\ SF_vars(HubLists) /\ SF_vars(HubKicks)

FairSpec == Spec /\ Fairness

--------------------------------------------------------------------------------
(* Properties.                                                              *)

Events == [type : {"user_join", "myinfo", "user_quit"}, nick : Nicks]
            \cup [type : {"user_list"}, users : SUBSET Nicks]

BanRecords == [nick : Nicks, id : 1 .. MaxBans]

TypeOK ==
    /\ up \in BOOLEAN
    /\ online \subseteq Nicks
    /\ informed \subseteq online
    /\ logins \in 0 .. MaxLogins
    /\ inbox \in Seq(Events)
    /\ asked \in BOOLEAN
    /\ users \subseteq Nicks
    /\ todo \in Seq([type : {"user_join", "user_quit"}, nick : Nicks] \cup {Tick})
    /\ proc \in [type : {"user_join", "open", "kick", "user_quit"}, nick : Nicks]
                \cup {NoEvent, Tick}
    /\ sessions \in [Nicks -> Nat]
    /\ bans \subseteq BanRecords
    /\ banId \in 0 .. MaxBans
    /\ mod \in [Mods -> {Idle} \cup [step : {"look", "kick"}, nick : Nicks]
                    \cup [step : {"delete"}, nick : Nicks, ban : BanRecords]]
    /\ kicks \in Seq(Nicks)
    /\ faults \in 0 .. MaxFaults
    /\ unseen \subseteq Nicks

\* The socket task has handled all the hub told it since the last list.
CaughtUp == up /\ ~asked /\ inbox = <<>>

\* The user map follows the hub, over reconnections too: what moderation requests and
\* the REST API read is stale only while the hub's events are under way
\* (hub/socket.rs:103-104, 277, 309, 504-549).
UsersMirror == CaughtUp => informed \subseteq users /\ users \subseteq online

\* Joins, quits and kicks have all been dealt with.
Quiet ==
    /\ inbox = <<>> /\ kicks = <<>>
    /\ proc \in {NoEvent, Tick}
    /\ \A i \in DOMAIN todo : todo[i] = Tick

\* Every user online has one open session and every other user none, whatever bans,
\* kicks, quits and new logins overtook the processing of a join, as long as no event
\* of that user was lost (db/event_processor.rs:70-101).
SessionsFollow ==
    Quiet => \A n \in Nicks \ unseen : sessions[n] = IF n \in online THEN 1 ELSE 0

\* A user banned by chat command does not stay online, whether the ban comes before,
\* during or after the login, if nothing fails (db/event_processor.rs:71-77,
\* bot/commands/mod.rs:515-519).  A REST ban does not promise it, the user may be online
\* and not in the user map yet: behaviours with one are left out.
BansEnforced ==
    [](faults = 0 /\ \A m \in Mods : mod[m].step # "look") =>
        \A n \in Nicks : (Banned(n) /\ n \in online) ~> (~Banned(n) \/ n \notin online)

\* Users who left while the connection was down leave the user map when it is back
\* (hub/socket.rs:103-104, 502-506).
GhostsLeave ==
    \A n \in Nicks : <>[](up /\ n \notin online) => <>[](n \notin users)

\* "Close orphaned sessions (users no longer online but session still open)"
\* (db/event_processor.rs:145).  The code does not do this: see Maintain.
OrphansClosed ==
    \A n \in Nicks : <>[](up /\ n \notin online) => []<>(sessions[n] = 0)
================================================================================
