------------------------------- MODULE WebSockets -------------------------------
(***************************************************************************)
(* The WebSocket streams of src/src/api/websocket.rs: ws_handler admits a  *)
(* request when the counter of connections is below the limit and counts   *)
(* it afterwards, and handle_socket passes the events of the bus on that   *)
(* the client asked for, with a notice for those it missed.                *)
(***************************************************************************)
EXTENDS EventBus

CONSTANTS
    Clients,         \* requests and streams at once
    Filters,         \* what they ask for: sets of types
    MaxConnections

ASSUME WebSocketsAssumption ==
    /\ IsFiniteSet(Clients)
    /\ Filters \subseteq SUBSET Tags
    /\ MaxConnections \in Nat

VARIABLES
    connections,  \* state.ws_connections
    socket,       \* per client: how far its request is, and its stream
    wsRaced       \* a request was admitted before one admitted earlier was counted

wsVars == <<connections, socket, wsRaced>>

NoSocket == [state |-> "none"]

\* Clients that the counter is to count.
Counted == {c \in Clients : socket[c].state \in {"upgrading", "open", "closing"}}

WsInit ==
    /\ connections = 0
    /\ socket = [c \in Clients |-> NoSocket]
    /\ wsRaced = FALSE

--------------------------------------------------------------------------------
(* ws_handler: the counter is read, and increased, in two steps.            *)

AdmitNow(c) ==
    /\ socket' = [socket EXCEPT ![c] = [state |-> "admitted"]]
    /\ wsRaced' = (wsRaced \/ \E d \in Clients : socket[d].state = "admitted")
    /\ UNCHANGED <<log, connections>>

\* Mutant of Admit: one more than the limit.
AdmitOneMore(c) ==
    /\ socket[c].state = "none"
    /\ connections <= MaxConnections
    /\ AdmitNow(c)

\* A request without a valid key, session or token is turned away, and changes nothing.
Admit(c) ==
    /\ socket[c].state = "none"
    /\ connections < MaxConnections
    /\ AdmitNow(c)

\* The subscription is made here: what is published before the upgrade waits in the ring.
Count(c) ==
    /\ socket[c].state = "admitted"
    /\ connections' = connections + 1
    /\ \E filter \in Filters :
        socket' = [socket EXCEPT ![c] = [state |-> "upgrading", filter |-> filter,
                                         start |-> Len(log), read |-> Len(log),
                                         out |-> <<>>, alive |-> TRUE]]
    /\ UNCHANGED <<log, wsRaced>>

Upgrade(c) ==
    /\ socket[c].state = "upgrading"
    /\ socket' = [socket EXCEPT ![c].state = "open"]
    /\ UNCHANGED <<log, connections, wsRaced>>

\* The callback that lowers the counter is never run.
UpgradeFails(c) ==
    /\ socket[c].state = "upgrading"
    /\ socket' = [socket EXCEPT ![c] = NoSocket]
    /\ UNCHANGED <<log, connections, wsRaced>>

--------------------------------------------------------------------------------
(* handle_socket.                                                           *)

ClientGoes(c) ==
    /\ socket[c].state = "open" /\ socket[c].alive
    /\ socket' = [socket EXCEPT ![c].alive = FALSE]
    /\ UNCHANGED <<log, connections, wsRaced>>

\* An empty filter lets everything pass.
Wanted(filter, kind) == filter = {} \/ Tag(kind) \in filter

Reads(c) == socket[c].state = "open" /\ Pending(socket[c].read, log)

\* Mutant of Lag: the client is not told.
LagSilently(c) ==
    /\ Reads(c) /\ Lags(socket[c].read, log, Capacity)
    /\ socket' = [socket EXCEPT ![c].read = Oldest(log, Capacity)]
    /\ UNCHANGED <<log, connections, wsRaced>>

\* Whether the notice can be sent does not matter.
Lag(c) ==
    /\ Reads(c) /\ Lags(socket[c].read, log, Capacity)
    /\ socket' = [socket EXCEPT ![c].read = Oldest(log, Capacity),
                                ![c].out = IF socket[c].alive
                                           THEN Append(@, Missed(socket[c].read + 1,
                                                                 Oldest(log, Capacity)))
                                           ELSE @]
    /\ UNCHANGED <<log, connections, wsRaced>>

\* A send to a client that is gone may succeed once more or fail.
PassOn(c) ==
    LET next == socket[c].read + 1
    IN  /\ Reads(c) /\ ~Lags(socket[c].read, log, Capacity)
        /\ \/ /\ ~Wanted(socket[c].filter, log[next])
              /\ socket' = [socket EXCEPT ![c].read = next]
           \/ /\ Wanted(socket[c].filter, log[next])
              /\ socket' = [socket EXCEPT ![c].read = next,
                                          ![c].out = IF socket[c].alive
                                                     THEN Append(@, Shown(next)) ELSE @]
           \/ /\ Wanted(socket[c].filter, log[next])
              /\ ~socket[c].alive
              /\ socket' = [socket EXCEPT ![c].state = "closing"]
        /\ UNCHANGED <<log, connections, wsRaced>>

\* Mutant of SeeItGone: the counter is lowered here, and by the callback again.
SeeItGoneAndUncount(c) ==
    /\ socket[c].state = "open" /\ ~socket[c].alive
    /\ socket' = [socket EXCEPT ![c].state = "closing"]
    /\ connections' = connections - 1
    /\ UNCHANGED <<log, wsRaced>>

\* The client's close or error is received, or a ping fails.
SeeItGone(c) ==
    /\ socket[c].state = "open" /\ ~socket[c].alive
    /\ socket' = [socket EXCEPT ![c].state = "closing"]
    /\ UNCHANGED <<log, connections, wsRaced>>

Uncount(c) ==
    /\ socket[c].state = "closing"
    /\ connections' = connections - 1
    /\ socket' = [socket EXCEPT ![c] = NoSocket]
    /\ UNCHANGED <<log, wsRaced>>

WsRequest(c) == Admit(c) \/ Count(c) \/ Upgrade(c) \/ UpgradeFails(c) \/ ClientGoes(c)

WsStep(c) == Lag(c) \/ PassOn(c) \/ SeeItGone(c) \/ Uncount(c)

WsNext == \E c \in Clients : WsRequest(c) \/ WsStep(c)

\* The stream's task runs; its heartbeat finds out that a client is gone.
WsFairness == \A c \in Clients : WF_<<log, wsVars>>(SeeItGone(c)) /\ WF_<<log, wsVars>>(Uncount(c))

--------------------------------------------------------------------------------
(* Properties.                                                              *)

Streaming == [state : {"upgrading", "open", "closing"}, filter : Filters,
              start : Nat, read : Nat, out : Seq(Items), alive : BOOLEAN]

WsTypeOK ==
    /\ connections \in Nat
    /\ socket \in [Clients -> {NoSocket, [state |-> "admitted"]} \cup Streaming]
    /\ wsRaced \in BOOLEAN

\* The counter never falls below the streams there are, so that it never wraps round
\* when one ends (api/websocket.rs:95-100).
WsCounterCovers == Cardinality(Counted) <= connections

\* The limit is exceeded only by requests that are admitted at the same time
\* (api/websocket.rs:75-95).
WsLimit == ~wsRaced => connections <= MaxConnections

\* A client sees every event it asked for since it connected, in order and once, or is
\* told what it missed (api/websocket.rs:159-184).
WsComplete ==
    \A c \in Clients :
        (socket[c].state = "open" /\ socket[c].alive) =>
            Accounts(socket[c].out, socket[c].start, socket[c].read,
                     {k \in DOMAIN log : Wanted(socket[c].filter, log[k])})

\* A stream whose client is gone ends and is no longer counted
\* (api/websocket.rs:191-214).
WsEnds == \A c \in Clients :
    (socket[c].state = "open" /\ ~socket[c].alive) ~> socket[c].state = "none"
================================================================================
