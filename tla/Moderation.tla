------------------------------- MODULE Moderation -------------------------------
(***************************************************************************)
(* Who may say and do what: the users table with passwords and permissions *)
(* (src/src/api/moderation.rs), the login conversation and the gag check   *)
(* of every chat line (handle_event of src/src/hub/socket.rs), gags        *)
(* (src/src/db/queries.rs), the moderators' commands !gag, !ungag and      *)
(* !topic as the command processor runs them (src/src/bot), their REST     *)
(* counterparts, and the topic with its restoration at start-up            *)
(* (src/src/main.rs).                                                      *)
(*                                                                         *)
(* A handler is a step for each of its statements; the socket task and the *)
(* command processor handle one event at a time, and REST handlers         *)
(* interleave with both.  What only tells people something (echoes,        *)
(* notices, answers, the events for subscribers) is left out.  The hub     *)
(* (external) asks for every nick that connects, and again with the        *)
(* password when told to; it reports in order.                             *)
(***************************************************************************)
EXTENDS Integers, Sequences, FiniteSets

CONSTANTS
    Nicks,        \* nicks that connect to the hub
    Reserved,     \* those of bots, of the gateway and of OPChat
    Ops,          \* users with an OP's account at the start
    Passwords,
    NoPassword,   \* none set, or an empty answer
    RegTypes,     \* levels given at registration
    Permissions,  \* permissions given with a password: any 16-bit number
    Topics,
    NoTopic,      \* the empty topic
    RestCalls,    \* REST handlers that can be in flight at once
    processor,    \* the command processor
    MaxRequests,  \* bound on connections, lines and REST requests
    MaxFaults     \* bound on failing statements and restarts

ASSUME ModerationAssumption ==
    /\ Reserved \subseteq Nicks
    /\ Ops \subseteq Nicks \ Reserved
    /\ Passwords # {} /\ NoPassword \notin Passwords
    /\ RegTypes \subseteq 0 .. 3
    /\ Permissions \subseteq Int
    /\ NoTopic \notin Topics
    /\ processor \notin RestCalls
    /\ MaxRequests \in Nat
    /\ MaxFaults \in Nat

VARIABLES
    past,       \* the versions of the users table, the last one being the table
    gags,       \* the gags table: active gags
    gagId,      \* the last gag's id
    settings,   \* the settings table, by key
    topic,      \* hub_state.topic
    setter,     \* who set it: "chat", "rest", "start", or "failed" to save it
    session,    \* at the hub: how far each nick's login is
    inbox,      \* the hub's events the socket task has not handled
    task,       \* what the socket task has found out and not acted on
    toHub,      \* its verdicts under way to the hub
    commands,   \* commands on the bus the processor has not received
    call,       \* the handlers in flight and their step
    requests,   \* requests so far
    faults      \* faults so far

gagVars == <<gags, gagId>>
topicVars == <<settings, topic, setter>>
hubVars == <<session, inbox, task, toHub>>
boundVars == <<requests, faults>>
vars == <<past, gagVars, topicVars, hubVars, commands, call, boundVars>>

Users == Nicks \ Reserved

Account(n) == past[Len(past)][n]

\* "user.password_hash.is_some() && user.permission > 0"
Registered(a) == a.password # NoPassword /\ a.permission > 0

\* check_gag finds the latest one.
GagsOf(n) == {g \in gags : g.nick = n}
ActiveGag(n) == CHOOSE g \in GagsOf(n) : \A f \in GagsOf(n) : f.id <= g.id

Idle == [op |-> "idle"]
NoTask == [type |-> "none"]

Request ==
    /\ requests < MaxRequests
    /\ requests' = requests + 1

Fault ==
    /\ faults < MaxFaults
    /\ faults' = faults + 1

Accounts == [password : Passwords \cup {NoPassword}, permission : Int]

\* The password of the OPs at the start, whichever it is.
OpPassword == CHOOSE p \in Passwords : TRUE

Init ==
    /\ past = << [n \in Users |-> IF n \in Ops
                                THEN [password |-> OpPassword, permission |-> 2]
                                ELSE [password |-> NoPassword, permission |-> 0]] >>
    /\ gags = {}
    /\ gagId = 0
    /\ settings = [key \in {"hub_topic", "topic"} |-> NoTopic]
    /\ topic = NoTopic
    /\ setter = "start"
    /\ session \in [Nicks -> {"out", "in"}]
    /\ \A n \in Reserved : session[n] = "out"
    /\ inbox = <<>>
    /\ task = NoTask
    /\ toHub = <<>>
    /\ commands = <<>>
    /\ call = [c \in RestCalls \cup {processor} |-> Idle]
    /\ requests = 0
    /\ faults = 0

--------------------------------------------------------------------------------
(* register_user, unregister_user and set_password: one statement each.     *)

SetAccount(n, password, permission) ==
    /\ Request
    /\ past' = Append(past, [past[Len(past)] EXCEPT ![n] =
                                [password |-> password, permission |-> permission]])
    /\ UNCHANGED <<gagVars, topicVars, hubVars, commands, call, faults>>

RegisterUser(n) ==
    \E p \in Passwords, level \in RegTypes : SetAccount(n, p, level)

UnregisterUser(n) == SetAccount(n, NoPassword, 0)

\* A permission that is not positive leaves a user's as it is; a row that is new
\* takes what it is given.  A user without a row is one without a password.
SetPassword(n) ==
    \E p \in Passwords, level \in Permissions :
        SetAccount(n, p, IF level > 0 THEN level ELSE Account(n).permission)

--------------------------------------------------------------------------------
(* The hub: users connect, answer for their password, and talk.  An event   *)
(* has the version of the users table at the time it was sent.              *)

Command == [op : {"gag", "ungag"}, target : Users]
            \cup [op : {"topic"}, topic : Topics]

Line == Command \cup [op : {"talk"}]

HubConnects(n) ==
    /\ session[n] = "out"
    /\ Request
    /\ session' = [session EXCEPT ![n] = "waiting"]
    /\ inbox' = Append(inbox, [type |-> "validate_nick", nick |-> n, at |-> Len(past)])
    /\ UNCHANGED <<past, gagVars, topicVars, task, toHub, commands, call, faults>>

HubAnswers(n) ==
    /\ session[n] = "asked"
    /\ session' = [session EXCEPT ![n] = "waiting"]
    /\ \E p \in Passwords \cup {NoPassword} :
        inbox' = Append(inbox, [type |-> "check_password", nick |-> n, password |-> p,
                                at |-> Len(past)])
    /\ UNCHANGED <<past, gagVars, topicVars, task, toHub, commands, call, boundVars>>

\* The gags its speaker is under when it is said go with a line.
HubChat(n) ==
    /\ session[n] = "in"
    /\ Request
    /\ \E line \in Line :
        inbox' = Append(inbox, [type |-> "chat", nick |-> n, line |-> line,
                                at |-> Len(past), under |-> GagsOf(n)])
    /\ UNCHANGED <<past, gagVars, topicVars, session, task, toHub, commands, call, faults>>

HubTakes ==
    /\ toHub # <<>>
    /\ toHub' = Tail(toHub)
    /\ session' = [session EXCEPT ![Head(toHub).nick] =
                      CASE Head(toHub).type = "send_getpass" -> "asked"
                        [] Head(toHub).type = "login_user" -> "in"
                        [] OTHER -> "out"]
    /\ UNCHANGED <<past, gagVars, topicVars, inbox, task, commands, call, boundVars>>

--------------------------------------------------------------------------------
(* handle_event.                                                            *)

Handles(type) ==
    /\ task = NoTask
    /\ inbox # <<>>
    /\ Head(inbox).type = type
    /\ inbox' = Tail(inbox)

Verdict(event, type, password, permission) ==
    [type |-> type, nick |-> event.nick, password |-> password,
     permission |-> permission, at |-> event.at]

\* A failing query counts as not registered.
ValidateNick ==
    /\ Handles("validate_nick")
    /\ LET event == Head(inbox)
           admit == Verdict(event, "login_user", NoPassword, 0)
       IN  \/ /\ event.nick \in Reserved
              /\ task' = Verdict(event, "reject_user", NoPassword, 0)
              /\ UNCHANGED faults
           \/ /\ event.nick \in Users
              /\ task' = IF Registered(Account(event.nick))
                         THEN Verdict(event, "send_getpass", NoPassword, 0) ELSE admit
              /\ UNCHANGED faults
           \/ /\ event.nick \in Users
              /\ Fault
              /\ task' = admit
    /\ UNCHANGED <<past, gagVars, topicVars, session, toHub, commands, call, requests>>

\* Mutant of CheckPassword: the permission is that of the time the nick was validated.
CheckPasswordStale ==
    /\ Handles("check_password")
    /\ LET event == Head(inbox)
           user  == Account(event.nick)
       IN  task' = IF event.password # NoPassword /\ event.password = user.password
                   THEN Verdict(event, "login_user", event.password,
                                past[1][event.nick].permission)
                   ELSE Verdict(event, "reject_user", event.password, 0)
    /\ UNCHANGED <<past, gagVars, topicVars, session, toHub, commands, call, boundVars>>

\* An empty answer is refused; a failing query counts as a wrong password.  Whoever has
\* a password set is looked up, registered or not.
CheckPassword ==
    /\ Handles("check_password")
    /\ LET event == Head(inbox)
           user  == Account(event.nick)
       IN  \/ /\ task' = IF event.password # NoPassword /\ event.password = user.password
                         THEN Verdict(event, "login_user", event.password, user.permission)
                         ELSE Verdict(event, "reject_user", event.password, 0)
              /\ UNCHANGED faults
           \/ /\ event.password # NoPassword
              /\ Fault
              /\ task' = Verdict(event, "reject_user", event.password, 0)
    /\ UNCHANGED <<past, gagVars, topicVars, session, toHub, commands, call, requests>>

\* Mutant of SendVerdict: a verdict of refusal is not sent.
SendVerdictIfGood ==
    /\ task.type \in {"send_getpass", "login_user", "reject_user"}
    /\ toHub' = IF task.type = "reject_user" THEN toHub ELSE Append(toHub, task)
    /\ task' = NoTask
    /\ UNCHANGED <<past, gagVars, topicVars, session, inbox, commands, call, boundVars>>

SendVerdict ==
    /\ task.type \in {"send_getpass", "login_user", "reject_user"}
    /\ toHub' = Append(toHub, task)
    /\ task' = NoTask
    /\ UNCHANGED <<past, gagVars, topicVars, session, inbox, commands, call, boundVars>>

Checked(event, gagged) ==
    [type |-> "chat", nick |-> event.nick, line |-> event.line, at |-> event.at,
     under |-> event.under, gagged |-> gagged]

\* Mutant of CheckGag: OPs are heard, gagged or not.
CheckGagSparesOps ==
    /\ Handles("chat")
    /\ LET event == Head(inbox)
       IN  task' = Checked(event, GagsOf(event.nick) # {}
                                    /\ Account(event.nick).permission < 2)
    /\ UNCHANGED <<past, gagVars, topicVars, session, toHub, commands, call, boundVars>>

\* A failing query counts as no gag.
CheckGag ==
    /\ Handles("chat")
    /\ LET event == Head(inbox)
       IN  \/ /\ task' = Checked(event, GagsOf(event.nick) # {})
              /\ UNCHANGED faults
           \/ /\ Fault
              /\ task' = Checked(event, FALSE)
    /\ UNCHANGED <<past, gagVars, topicVars, session, toHub, commands, call, requests>>

\* Mutant of FinishLine: a line that is no command is taken for one.
FinishAnyLine ==
    /\ task.type = "chat"
    /\ task' = NoTask
    /\ commands' = IF task.gagged THEN commands
                   ELSE Append(commands, [line |-> task.line, by |-> task.nick,
                                          at |-> task.at])
    /\ UNCHANGED <<past, gagVars, topicVars, session, inbox, toHub, call, boundVars>>

\* A gagged user's line goes nowhere; any other is echoed and published, where the
\* command processor looks for commands.
FinishLine ==
    /\ task.type = "chat"
    /\ task' = NoTask
    /\ commands' = IF task.gagged \/ task.line.op = "talk" THEN commands
                   ELSE Append(commands, [line |-> task.line, by |-> task.nick,
                                          at |-> task.at])
    /\ UNCHANGED <<past, gagVars, topicVars, session, inbox, toHub, call, boundVars>>

\* send_message and bot_chat: a line over REST is published as it is, gagged or not.
SendMessage(n) ==
    /\ Request
    /\ \E line \in Command :
        commands' = Append(commands, [line |-> line, by |-> n, at |-> Len(past)])
    /\ UNCHANGED <<past, gagVars, topicVars, hubVars, call, faults>>

--------------------------------------------------------------------------------
(* The command processor: try_handle looks the caller's permission up and   *)
(* runs the command with it, however it changes meanwhile.                  *)

End(c) == call' = [call EXCEPT ![c] = Idle]

\* A failing query counts as no permission.
Dispatch ==
    /\ call[processor] = Idle
    /\ commands # <<>>
    /\ commands' = Tail(commands)
    /\ LET command == Head(commands)
           running == [op |-> command.line.op, line |-> command.line, by |-> command.by,
                       at |-> command.at, permission |-> Account(command.by).permission,
                       step |-> IF command.line.op = "topic" THEN "set" ELSE "outranks"]
       IN  \/ /\ running.permission >= 2
              /\ call' = [call EXCEPT ![processor] = running]
              /\ UNCHANGED faults
           \/ /\ running.permission < 2 \/ faults < MaxFaults
              /\ faults' = IF running.permission < 2 THEN faults ELSE faults + 1
              /\ UNCHANGED call
    /\ UNCHANGED <<past, gagVars, topicVars, hubVars, requests>>

\* Mutant of Outranks: equals may be targeted.
OutranksOrEquals ==
    LET running == call[processor]
    IN  /\ running.op \in {"gag", "ungag"}
        /\ running.step = "outranks"
        /\ IF Account(running.line.target).permission <= running.permission
           THEN call' = [call EXCEPT ![processor].step = running.op]
           ELSE End(processor)
        /\ UNCHANGED <<past, gagVars, topicVars, hubVars, commands, boundVars>>

\* require_outranks.  A failing query counts as a target of no permission.
Outranks ==
    LET running == call[processor]
    IN  /\ running.op \in {"gag", "ungag"}
        /\ running.step = "outranks"
        /\ \/ /\ Account(running.line.target).permission < running.permission
              /\ call' = [call EXCEPT ![processor].step = running.op]
              /\ UNCHANGED faults
           \/ /\ Account(running.line.target).permission >= running.permission
              /\ End(processor)
              /\ UNCHANGED faults
           \/ /\ Fault
              /\ call' = [call EXCEPT ![processor].step = running.op]
        /\ UNCHANGED <<past, gagVars, topicVars, hubVars, commands, requests>>

--------------------------------------------------------------------------------
(* Gags.  REST handlers ask for no permission.                              *)

CreateGag(n) ==
    /\ gagId' = gagId + 1
    /\ \E temporary \in BOOLEAN :
        gags' = gags \cup {[nick |-> n, id |-> gagId + 1, temporary |-> temporary]}

GagByChat ==
    LET running == call[processor]
    IN  /\ running.op = "gag"
        /\ running.step = "gag"
        /\ End(processor)
        /\ \/ CreateGag(running.line.target) /\ UNCHANGED faults
           \/ Fault /\ UNCHANGED gagVars
        /\ UNCHANGED <<past, topicVars, hubVars, commands, requests>>

GagUser(n) ==
    /\ Request
    /\ CreateGag(n)
    /\ UNCHANGED <<past, topicVars, hubVars, commands, call, faults>>

\* check_gag, then delete_gag by id.
UngagByChat ==
    LET running == call[processor]
    IN  /\ running.op = "ungag"
        /\ running.step = "ungag"
        /\ \/ /\ GagsOf(running.line.target) = {}
              /\ End(processor)
           \/ /\ GagsOf(running.line.target) # {}
              /\ call' = [call EXCEPT ![processor] =
                             [op |-> "delete", gag |-> ActiveGag(running.line.target),
                              last |-> gagId]]
        /\ UNCHANGED <<past, gagVars, topicVars, hubVars, commands, boundVars>>

UngagUser(c, n) ==
    /\ c \in RestCalls
    /\ call[c] = Idle
    /\ Request
    /\ GagsOf(n) # {}
    /\ call' = [call EXCEPT ![c] = [op |-> "delete", gag |-> ActiveGag(n), last |-> gagId]]
    /\ UNCHANGED <<past, gagVars, topicVars, hubVars, commands, faults>>

\* Mutant of DeleteGag: every gag of the nick is deleted.
DeleteGagsOfNick(c) ==
    /\ call[c].op = "delete"
    /\ gags' = gags \ GagsOf(call[c].gag.nick)
    /\ End(c)
    /\ UNCHANGED <<past, gagId, topicVars, hubVars, commands, boundVars>>

\* Older gags of the nick stay.
DeleteGag(c) ==
    /\ call[c].op = "delete"
    /\ \/ gags' = gags \ {call[c].gag} /\ UNCHANGED faults
       \/ Fault /\ UNCHANGED gags
    /\ End(c)
    /\ UNCHANGED <<past, gagId, topicVars, hubVars, commands, requests>>

\* A gag's time is over; purge_expired_gags deletes what check_gag no longer finds.
GagExpires ==
    /\ \E g \in gags : g.temporary /\ gags' = gags \ {g}
    /\ UNCHANGED <<past, gagId, topicVars, hubVars, commands, call, boundVars>>

--------------------------------------------------------------------------------
(* The topic: first the gateway's copy, then the settings table.  The chat  *)
(* command and the REST handler save it under different keys.               *)

TopicByChat ==
    LET running == call[processor]
    IN  /\ running.op = "topic"
        /\ running.step = "set"
        /\ topic' = running.line.topic
        /\ setter' = "chat"
        /\ call' = [call EXCEPT ![processor].step = "save"]
        /\ UNCHANGED <<past, gagVars, settings, hubVars, commands, boundVars>>

SetTopic(c, t) ==
    /\ c \in RestCalls
    /\ call[c] = Idle
    /\ Request
    /\ topic' = t
    /\ setter' = "rest"
    /\ call' = [call EXCEPT ![c] = [op |-> "topic", step |-> "save", line |-> [topic |-> t]]]
    /\ UNCHANGED <<past, gagVars, settings, hubVars, commands, faults>>

TopicKey(c) == IF c = processor THEN "hub_topic" ELSE "topic"

\* Mutant of SaveTopic: both save under the key that start-up reads.
SaveTopicOneKey(c) ==
    /\ call[c].op = "topic"
    /\ call[c].step = "save"
    /\ End(c)
    /\ settings' = [settings EXCEPT !["hub_topic"] = call[c].line.topic]
    /\ UNCHANGED <<past, gagVars, topic, setter, hubVars, commands, boundVars>>

SaveTopic(c) ==
    /\ call[c].op = "topic"
    /\ call[c].step = "save"
    /\ End(c)
    /\ \/ /\ settings' = [settings EXCEPT ![TopicKey(c)] = call[c].line.topic]
          /\ UNCHANGED <<setter, faults>>
       \/ /\ Fault
          /\ setter' = IF c = processor THEN "failed" ELSE setter
          /\ UNCHANGED settings
    /\ UNCHANGED <<past, gagVars, topic, hubVars, commands, requests>>

--------------------------------------------------------------------------------
(* The gateway stops and is started again: the tables are all it keeps.     *)
(* The hub turns away whoever waits for it.                                 *)

Restart ==
    /\ Fault
    /\ topic' = settings["hub_topic"]
    /\ setter' = "start"
    /\ session' = [n \in Nicks |-> IF session[n] \in {"waiting", "asked"} THEN "out"
                                   ELSE session[n]]
    /\ inbox' = <<>>
    /\ task' = NoTask
    /\ toHub' = <<>>
    /\ commands' = <<>>
    /\ call' = [c \in DOMAIN call |-> Idle]
    /\ UNCHANGED <<past, gagVars, settings, requests>>

--------------------------------------------------------------------------------

HubStep ==
    \/ \E n \in Nicks : HubConnects(n) \/ HubAnswers(n) \/ HubChat(n)
    \/ HubTakes

SocketStep == ValidateNick \/ CheckPassword \/ SendVerdict \/ CheckGag \/ FinishLine

ProcessorStep ==
    \/ Dispatch \/ Outranks
    \/ GagByChat \/ UngagByChat \/ TopicByChat

RestRequest ==
    \/ \E n \in Users : RegisterUser(n) \/ UnregisterUser(n) \/ SetPassword(n)
    \/ \E n \in Users : GagUser(n) \/ SendMessage(n)
    \/ \E c \in RestCalls, n \in Users : UngagUser(c, n)
    \/ \E c \in RestCalls, t \in Topics \cup {NoTopic} : SetTopic(c, t)

Next ==
    \/ HubStep
    \/ SocketStep
    \/ ProcessorStep
    \/ RestRequest
    \/ \E c \in RestCalls \cup {processor} : DeleteGag(c) \/ SaveTopic(c)
    \/ GagExpires
    \/ Restart

Spec == Init /\ [][Next]_vars

\* The socket task is a tokio task with room for its verdicts (HubLink: ChannelDrains);
\* the hub takes them.
Fairness == WF_vars(SocketStep) /\ WF_vars(HubTakes)

FairSpec == Spec /\ Fairness

--------------------------------------------------------------------------------
(* Properties.                                                              *)

Gags == [nick : Users, id : 1 .. gagId, temporary : BOOLEAN]

Stamps == 1 .. Len(past)

Verdicts == [type : {"send_getpass", "login_user", "reject_user"}, nick : Nicks,
             password : Passwords \cup {NoPassword}, permission : Int, at : Stamps]

Events == [type : {"validate_nick"}, nick : Nicks, at : Stamps]
    \cup [type : {"check_password"}, nick : Users, at : Stamps,
          password : Passwords \cup {NoPassword}]
    \cup [type : {"chat"}, nick : Users, at : Stamps, line : Line, under : SUBSET Gags]

TypeOK ==
    /\ past \in Seq([Users -> Accounts]) /\ past # <<>>
    /\ gagId \in Nat
    /\ gags \subseteq Gags
    /\ settings \in [{"hub_topic", "topic"} -> Topics \cup {NoTopic}]
    /\ topic \in Topics \cup {NoTopic}
    /\ setter \in {"chat", "rest", "start", "failed"}
    /\ session \in [Nicks -> {"out", "waiting", "asked", "in"}]
    /\ inbox \in Seq(Events)
    /\ task \in {NoTask} \cup Verdicts
                \cup [type : {"chat"}, nick : Users, at : Stamps, line : Line,
                      under : SUBSET Gags, gagged : BOOLEAN]
    /\ toHub \in Seq(Verdicts)
    /\ commands \in Seq([line : Command, by : Users, at : Stamps])
    /\ requests \in 0 .. MaxRequests
    /\ faults \in 0 .. MaxFaults

\* A line said under a gag that is still in force is neither echoed nor taken for a
\* command, however long it waited and whatever else was gagged, lifted or expired
\* meanwhile, unless the check failed (hub/socket.rs:228-246).
GagSilences ==
    task.type = "chat" /\ ~task.gagged /\ faults = 0 => task.under \cap gags = {}

\* Lifting a gag never lifts one that was set after the gag to lift was looked up: of
\* two moderators at work on one user, the later gag stands (api/moderation.rs:191-196,
\* bot/commands/mod.rs:683-685).
LaterGagsStand ==
    [][\A g \in gags \ gags' :
          g.temporary \/ \E c \in DOMAIN call : call[c].op = "delete" /\ g.id <= call[c].last]_vars

\* Whoever gags or lifts a gag by chat has been an OP at some time since saying so, and
\* has had a higher permission than the target had at some time since, unless a query
\* failed: the two are looked up at different times, and accounts change in between
\* (bot/mod.rs:162-167, bot/commands/mod.rs:47-62).
RankRespected ==
    LET running == call[processor]
    IN  (running.op \in {"gag", "ungag"} /\ running.step = running.op /\ faults = 0) =>
            \E i, j \in running.at .. Len(past) :
                /\ past[i][running.by].permission >= 2
                /\ past[j][running.line.target].permission < past[i][running.by].permission

\* Nobody is let in unearned: with a permission only if the password given and the
\* permission stood together in the users table at some time since it was given, and
\* without a password only if the nick was not registered at some time since it
\* connected or the query failed (hub/socket.rs:391-419, 436-470).
LoginEarned ==
    \A i \in DOMAIN toHub :
        LET v == toHub[i]
        IN  v.type = "login_user" =>
                \/ \E k \in v.at .. Len(past) :
                    /\ v.password # NoPassword
                    /\ past[k][v.nick] = [password |-> v.password, permission |-> v.permission]
                \/ /\ v.password = NoPassword
                   /\ v.permission = 0
                   /\ \/ faults > 0
                      \/ \E k \in v.at .. Len(past) : ~Registered(past[k][v.nick])

\* Every attempt to log in is answered (hub/socket.rs:363-473).
LoginsAnswered == \A n \in Nicks : session[n] = "waiting" ~> session[n] # "waiting"

\* The topic set by chat is the one a restart restores, once it has been saved, whatever
\* REST requests set the topic meanwhile (bot/commands/mod.rs:711-714, main.rs:156-162).
ChatTopicSaved ==
    (setter \in {"chat", "start"} /\ ~(call[processor].op = "topic" /\ call[processor].step = "save"))
        => settings["hub_topic"] = topic

\* "gateway-owned state that must survive restarts. Used for: hub topic"
\* (migrations/003_settings.sql:1-2).  The code does not keep this for a topic set
\* over REST, with no request in flight and no statement failed: it is saved under a
\* key that nothing reads.
TopicSurvives ==
    [][(Restart /\ faults = 0 /\ \A c \in DOMAIN call : call[c] = Idle) => topic' = topic]_vars
================================================================================
