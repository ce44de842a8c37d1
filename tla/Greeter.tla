--------------------------------- MODULE Greeter ---------------------------------
(***************************************************************************)
(* The greeter (src/src/greeter.rs) shows newcomers the topic, and whoever *)
(* sets the topic, by chat (src/src/bot/commands/mod.rs) or over REST      *)
(* (src/src/api/moderation.rs), announces it to all.  Each reads or writes *)
(* the gateway's copy first and sends afterwards, into the one command     *)
(* channel.  One user, who comes and goes while all this happens, stands   *)
(* for all; no command is lost (module CommandPipe).                       *)
(***************************************************************************)
EXTENDS EventBus

CONSTANTS
    NewTopics,     \* topics set
    Setters,       \* commands and requests in flight that set the topic
    NoTopicYet,    \* the topic of a gateway that was never given one
    MaxTopicSets   \* bound on the topics set

None == "none"    \* no topic to announce, to greet with, or told

ASSUME GreeterAssumption ==
    /\ NoTopicYet \notin NewTopics
    /\ None \notin NewTopics \cup {NoTopicYet}
    /\ MaxTopicSets \in Nat

VARIABLES
    hubTopic,      \* hub_state.topic
    announcing,    \* per setter: the topic it has yet to announce
    greetAt,       \* the greeter's place on the bus
    greeting,      \* the topic it has read and not sent
    topicPipe,     \* topics under way to the user
    shows,         \* the topic the user was last shown, and in which session
    topicRaced,    \* the topic was last set while another was about to be sent
    topicSets,     \* how often the topic was set
    setAt,         \* history: the events there were when it was last set
    ungreeted      \* history: the events the greeter lagged over

greetVars == <<hubTopic, announcing, greetAt, greeting, topicPipe, shows, topicRaced,
               topicSets, setAt, ungreeted>>

Titles == NewTopics \cup {NoTopicYet}

\* The start may have restored a topic set by an earlier run; nobody has been told it.
GreetInit ==
    /\ hubTopic \in Titles
    /\ announcing = [s \in Setters |-> None]
    /\ greetAt = 0
    /\ greeting = None
    /\ topicPipe = <<>>
    /\ shows = [at |-> 0, topic |-> None]
    /\ topicRaced = FALSE
    /\ topicSets = 0
    /\ setAt = 0
    /\ ungreeted = {}

\* The user is online, and has been since event k; 0 if since before the first.  Its
\* login and the report of it on the bus are taken as one.
OnlineSince(k) ==
    /\ k > 0 => log[k] = "user_join"
    /\ \A m \in k + 1 .. Len(log) : log[m] \notin {"user_join", "user_quit"}

--------------------------------------------------------------------------------

WriteTopic(s) ==
    /\ announcing[s] = None
    /\ topicSets < MaxTopicSets
    /\ topicSets' = topicSets + 1
    /\ \E t \in NewTopics :
        /\ hubTopic' = t
        /\ announcing' = [announcing EXCEPT ![s] = t]
    /\ topicRaced' = (greeting # None \/ \E r \in Setters : announcing[r] # None)
    /\ setAt' = Len(log)
    /\ UNCHANGED <<log, greetAt, greeting, topicPipe, shows, ungreeted>>

Announce(s) ==
    /\ announcing[s] # None
    /\ topicPipe' = Append(topicPipe, announcing[s])
    /\ announcing' = [announcing EXCEPT ![s] = None]
    /\ UNCHANGED <<log, hubTopic, greetAt, greeting, shows, topicRaced, topicSets, setAt,
                   ungreeted>>

--------------------------------------------------------------------------------

GreeterLags ==
    /\ greeting = None
    /\ Pending(greetAt, log) /\ Lags(greetAt, log, Capacity)
    /\ greetAt' = Oldest(log, Capacity)
    /\ ungreeted' = ungreeted \cup (greetAt + 1 .. greetAt')
    /\ UNCHANGED <<log, hubTopic, announcing, greeting, topicPipe, shows, topicRaced, topicSets,
                   setAt>>

\* Mutant of ReadTopic: nobody is greeted before a topic is set.
ReadTopicOnceSet ==
    /\ greeting = None
    /\ Pending(greetAt, log) /\ ~Lags(greetAt, log, Capacity)
    /\ greetAt' = greetAt + 1
    /\ greeting' = IF log[greetAt'] = "user_join" /\ topicSets > 0 THEN hubTopic ELSE None
    /\ UNCHANGED <<log, hubTopic, announcing, topicPipe, shows, topicRaced, topicSets, setAt,
                   ungreeted>>

\* Mutant of ReadTopic: the topic is the one the user was last shown.
ReadTopicShown ==
    /\ greeting = None
    /\ Pending(greetAt, log) /\ ~Lags(greetAt, log, Capacity)
    /\ greetAt' = greetAt + 1
    /\ greeting' = IF log[greetAt'] = "user_join" THEN shows.topic ELSE None
    /\ UNCHANGED <<log, hubTopic, announcing, topicPipe, shows, topicRaced, topicSets, setAt,
                   ungreeted>>

ReadTopic ==
    /\ greeting = None
    /\ Pending(greetAt, log) /\ ~Lags(greetAt, log, Capacity)
    /\ greetAt' = greetAt + 1
    /\ greeting' = IF log[greetAt'] = "user_join" THEN hubTopic ELSE None
    /\ UNCHANGED <<log, hubTopic, announcing, topicPipe, shows, topicRaced, topicSets, setAt,
                   ungreeted>>

Greet ==
    /\ greeting # None
    /\ topicPipe' = Append(topicPipe, greeting)
    /\ greeting' = None
    /\ UNCHANGED <<log, hubTopic, announcing, greetAt, shows, topicRaced, topicSets, setAt,
                   ungreeted>>

\* What is sent to all, or to a nick, reaches the user only while it is online.
HubShows ==
    /\ topicPipe # <<>>
    /\ topicPipe' = Tail(topicPipe)
    /\ \/ \E k \in 0 .. Len(log) :
             /\ OnlineSince(k)
             /\ shows' = [at |-> k, topic |-> Head(topicPipe)]
       \/ /\ \A k \in 0 .. Len(log) : ~OnlineSince(k)
          /\ UNCHANGED shows
    /\ UNCHANGED <<log, hubTopic, announcing, greetAt, greeting, topicRaced, topicSets, setAt,
                   ungreeted>>

GreetNext ==
    \/ \E s \in Setters : WriteTopic(s) \/ Announce(s)
    \/ GreeterLags \/ ReadTopic \/ Greet \/ HubShows

--------------------------------------------------------------------------------
(* Properties.                                                              *)

GreetTypeOK ==
    /\ hubTopic \in Titles
    /\ shows \in [at : 0 .. Len(log), topic : Titles \cup {None}]
    /\ announcing \in [Setters -> NewTopics \cup {None}]
    /\ greeting \in Titles \cup {None}
    /\ greetAt \in 0 .. Len(log)
    /\ topicPipe \in Seq(Titles)
    /\ topicRaced \in BOOLEAN
    /\ topicSets \in 0 .. MaxTopicSets
    /\ setAt \in 0 .. Len(log)
    /\ ungreeted \in SUBSET (1 .. greetAt)

\* No topic is about to be sent, or under way.
TopicSettled == greeting = None /\ topicPipe = <<>> /\ \A s \in Setters : announcing[s] = None

\* The user who came with event k is owed the topic: the greeter has seen it come, or
\* the topic was set while it was online.
Owed(k) ==
    \/ k \in 1 .. greetAt /\ k \notin ungreeted
    \/ topicSets > 0 /\ k <= setAt

Told(k) == shows.at = k /\ shows.topic # None

\* Once all has been sent, a user who is online has been shown a topic since it came if
\* the greeter saw it come or the topic was set since, and the topic on show is the
\* gateway's, unless that was last set just while another was being announced or
\* greeted with.  The greeter overlooks a newcomer only when the bus has moved on by a
\* whole ring; until the topic is next set such a user, like one who was online before
\* the gateway started, is told none, even if the start restored one (main.rs:156-162,
\* greeter.rs:35-61, bot/commands/mod.rs:711-727, api/moderation.rs:359-372).
TopicOnShow ==
    /\ \A k \in ungreeted : k + Capacity <= Len(log)
    /\ TopicSettled =>
          \A k \in 0 .. Len(log) : OnlineSince(k) =>
              /\ Owed(k) => Told(k)
              /\ Told(k) /\ ~topicRaced => shows.topic = hubTopic
================================================================================
