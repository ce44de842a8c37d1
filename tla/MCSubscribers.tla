------------------------------ MODULE MCSubscribers ------------------------------
(* Constants for model checking Subscribers.                                *)
EXTENDS Subscribers

CONSTANTS c1, c2, r1, r2, s1, ann, bob, chat, rest

Traffic == {"command", "pm"}
Presences == {"user_join", "user_quit", "pm"}

\* Each service with the events it tells apart.
EachAlone ==
    [services : {{"sockets"}, {"webhooks"}, {"bots"}}, kinds : {Traffic}]
        \cup [services : {{"watches"}, {"greeter"}}, kinds : {Presences}]
        \cup [services : {{"opchat"}}, kinds : {Traffic}]

AllKinds == Traffic \cup Presences

\* No filter, and one.
TwoFilters == {{}, {"chat"}}

\* Every way a bot can get what it gets: by its forwarder, routed to it, or both.
WaysToBots == {{}, {"pm"}, {"chat", "command"}}
================================================================================
