--------------------------- MODULE SubscribersProofs ---------------------------
(***************************************************************************)
(* The limits of the services that face the outside, what their streams    *)
(* account for and that nothing is passed on twice; and what the services  *)
(* that face the hub tell its users: for any ring, clients, filters, bots, *)
(* webhooks, watchers and operators.  Each service has an invariant of its *)
(* own, kept by its own steps and by the publishing of an event;           *)
(* Subscribers has no other step that touches it.                          *)
(***************************************************************************)
EXTENDS Subscribers, TLAPS, FiniteSetTheorems, SequenceTheorems

--------------------------------------------------------------------------------
(* What a reader accounts for.                                              *)

\* A reader that has just started owes nothing.
LEMMA AccountsStart ==
  ASSUME NEW start \in Nat, NEW wanted, \A k \in wanted : k \in Nat
  PROVE  Accounts(<<>>, start, start, wanted)
  BY DEF Accounts

\* Passing over an event that is not wanted.
LEMMA AccountsSkip ==
  ASSUME NEW out \in Seq(Items), NEW start \in Nat, NEW read \in Nat, NEW wanted,
         \A k \in wanted : k \in Nat,
         Accounts(out, start, read, wanted), read + 1 \notin wanted
  PROVE  Accounts(out, start, read + 1, wanted)
  <1>1. \A i \in DOMAIN out : out[i] \in Items
    OBVIOUS
  <1> QED BY <1>1 DEF Accounts, Items

\* Passing on the next event, or a notice of those up to any later one.
LEMMA AccountsAdd ==
  ASSUME NEW out \in Seq(Items), NEW start \in Nat, NEW read \in Nat, NEW wanted,
         \A k \in wanted : k \in Nat,
         Accounts(out, start, read, wanted), start <= read,
         NEW item \in Items, item.from = read + 1, item.from <= item.to,
         item.missed \/ item.from \in wanted
  PROVE  Accounts(Append(out, item), start, item.to, wanted)
  <1> DEFINE new == Append(out, item)
  <1>1. /\ DOMAIN out = 1 .. Len(out) /\ DOMAIN new = 1 .. Len(out) + 1
        /\ \A i \in 1 .. Len(out) : new[i] = out[i] /\ out[i] \in Items
        /\ new[Len(out) + 1] = item
        /\ Len(out) \in Nat
    OBVIOUS
  <1>2. item.to \in Nat /\ read < item.to
    BY DEF Items
  <1>3. ASSUME NEW i \in DOMAIN new
        PROVE  /\ start < new[i].from /\ new[i].from <= new[i].to /\ new[i].to <= item.to
               /\ new[i].missed \/ new[i].from \in wanted
               /\ i > 1 => new[i - 1].to < new[i].from
    <2>1. CASE i \in 1 .. Len(out)
      <3>1. i > 1 => i - 1 \in 1 .. Len(out) /\ new[i - 1] = out[i - 1]
        BY <1>1, <2>1
      <3>2. new[i] = out[i] /\ i \in DOMAIN out /\ out[i].to \in Nat
        BY <1>1, <2>1 DEF Items
      <3>3. /\ start < out[i].from /\ out[i].from <= out[i].to /\ out[i].to <= read
            /\ out[i].missed \/ out[i].from \in wanted
            /\ i > 1 => out[i - 1].to < out[i].from
        BY <3>2 DEF Accounts
      <3> HIDE DEF new
      <3> QED BY <1>2, <3>1, <3>2, <3>3
    <2>2. CASE i = Len(out) + 1
      <3>1. new[i] = item /\ i - 1 = Len(out)
        BY <1>1, <2>2
      <3>2. start < item.from
        BY DEF Items
      <3>3. i > 1 => Len(out) \in 1 .. Len(out)
        BY <1>1, <3>1
      <3>4. i > 1 => /\ new[i - 1] = out[Len(out)]
                     /\ out[Len(out)].to <= read /\ out[Len(out)].to \in Nat
        BY <1>1, <3>1, <3>3 DEF Accounts, Items
      <3>5. i > 1 => new[i - 1].to < item.from
        BY <3>4
      <3> HIDE DEF new
      <3> QED BY <1>2, <3>1, <3>2, <3>5
    <2> QED BY <1>1, <2>1, <2>2
  <1>4. ASSUME NEW k \in wanted, start < k, k <= item.to
        PROVE  \E i \in DOMAIN new : new[i].from <= k /\ k <= new[i].to
    <2>1. CASE k <= read
      <3>1. PICK i \in DOMAIN out : out[i].from <= k /\ k <= out[i].to
        BY <1>4, <2>1 DEF Accounts
      <3> QED BY <1>1, <3>1
    <2>2. CASE k > read
      <3>1. new[Len(out) + 1].from <= k /\ k <= new[Len(out) + 1].to
        BY <1>1, <1>4, <2>2
      <3> QED BY <1>1, <3>1
    <2> QED BY <2>1, <2>2
  <1> QED BY <1>3, <1>4 DEF Accounts

\* What is published later is owed later.
LEMMA AccountsGrow ==
  ASSUME NEW out \in Seq(Items), NEW start, NEW read \in Nat, NEW wanted, NEW more,
         Accounts(out, start, read, wanted), wanted \subseteq more,
         \A k \in more \ wanted : k \in Nat /\ k > read
  PROVE  Accounts(out, start, read, more)
  BY DEF Accounts

\* A later number at the end of an increasing sequence.
LEMMA AppendLater ==
  ASSUME NEW max \in Nat, NEW s \in Seq(1 .. max), NEW n \in 1 .. max,
         \A i, j \in DOMAIN s : i < j => s[i] < s[j],
         \A i \in DOMAIN s : s[i] < n
  PROVE  /\ Append(s, n) \in Seq(1 .. max)
         /\ \A i, j \in DOMAIN Append(s, n) : i < j => Append(s, n)[i] < Append(s, n)[j]
         /\ \A i \in DOMAIN Append(s, n) : Append(s, n)[i] <= n
         /\ \E i \in DOMAIN Append(s, n) : Append(s, n)[i] = n
         /\ \A i \in DOMAIN s : i \in DOMAIN Append(s, n) /\ Append(s, n)[i] = s[i]
  <1> DEFINE new == Append(s, n)
  <1>1. /\ new \in Seq(1 .. max) /\ DOMAIN new = 1 .. Len(s) + 1 /\ DOMAIN s = 1 .. Len(s)
        /\ Len(s) \in Nat /\ new[Len(s) + 1] = n
        /\ \A i \in 1 .. Len(s) : new[i] = s[i] /\ s[i] \in 1 .. max
    OBVIOUS
  <1> HIDE DEF new
  <1>2. \A i \in DOMAIN new : i \in 1 .. Len(s) \/ i = Len(s) + 1
    BY <1>1
  <1>3. ASSUME NEW i \in DOMAIN new, NEW j \in DOMAIN new, i < j PROVE new[i] < new[j]
    <2>1. i \in 1 .. Len(s)
      BY <1>1, <1>3
    <2> QED BY <1>1, <1>2, <1>3, <2>1
  <1>4. ASSUME NEW i \in DOMAIN new PROVE new[i] <= n
    BY <1>1, <1>2
  <1>5. \A i \in DOMAIN s : i \in DOMAIN new
    BY <1>1
  <1>6. Len(s) + 1 \in DOMAIN new
    BY <1>1
  <1> QED BY <1>1, <1>3, <1>4, <1>5, <1>6 DEF new

\* Cardinalities as they are used below.
LEMMA CardinalityUpTo ==
  ASSUME NEW S, IsFiniteSet(S), NEW x
  PROVE  /\ IsFiniteSet(S \cup {x}) /\ IsFiniteSet(S \ {x})
         /\ Cardinality(S) \in Nat
         /\ Cardinality(S \cup {x}) \in Nat /\ Cardinality(S \cup {x}) <= Cardinality(S) + 1
         /\ Cardinality(S \ {x}) \in Nat /\ Cardinality(S \ {x}) <= Cardinality(S)
         /\ x \in S => Cardinality(S \ {x}) = Cardinality(S) - 1 /\ Cardinality(S) > 0
  <1>1. /\ IsFiniteSet(S \cup {x})
        /\ Cardinality(S \cup {x}) = Cardinality(S) \/ Cardinality(S \cup {x}) = Cardinality(S) + 1
    BY FS_AddElement
  <1>2. /\ IsFiniteSet(S \ {x})
        /\ Cardinality(S \ {x}) = IF x \in S THEN Cardinality(S) - 1 ELSE Cardinality(S)
    BY FS_RemoveElement
  <1>3. Cardinality(S) \in Nat /\ Cardinality(S \ {x}) \in Nat
    BY <1>2, FS_CardinalityType
  <1> QED BY <1>1, <1>2, <1>3

--------------------------------------------------------------------------------
(* WebSockets.                                                              *)

SocketStates == {NoSocket, [state |-> "admitted"]} \cup Streaming

CountedStates == {"upgrading", "open", "closing"}

WantedBy(filter) == {k \in DOMAIN log : Wanted(filter, log[k])}

\* The counter's limit: with one request admitted at a time there is room for it.
WsLimitInv ==
    ~wsRaced =>
        /\ connections <= MaxConnections
        /\ \A c, d \in Clients :
              (socket[c].state = "admitted" /\ socket[d].state = "admitted") => c = d
        /\ \A c \in Clients : socket[c].state = "admitted" => connections < MaxConnections

WsStreamInv ==
    \A c \in Clients : socket[c].state \in CountedStates =>
        /\ socket[c].start <= socket[c].read /\ socket[c].read <= Len(log)
        /\ (socket[c].state # "closing" /\ socket[c].alive) =>
              Accounts(socket[c].out, socket[c].start, socket[c].read,
                       WantedBy(socket[c].filter))

WsInv ==
    /\ log \in Seq(Kinds)
    /\ WsTypeOK
    /\ WsCounterCovers
    /\ WsLimitInv
    /\ WsStreamInv

\* A socket state tells which kind of record it is.
LEMMA SocketTypes ==
  ASSUME NEW v \in SocketStates
  PROVE  /\ v.state \in {"none", "admitted"} \cup CountedStates
         /\ v.state \in CountedStates <=> v \in Streaming
         /\ v.state = "none" => v = NoSocket
         /\ v.state = "admitted" => v = [state |-> "admitted"]
  BY DEF SocketStates, Streaming, NoSocket, CountedStates

\* A step of one client's socket.
LEMMA SocketStep ==
  ASSUME WsInv, NEW c \in Clients, NEW v \in SocketStates,
         socket' = [socket EXCEPT ![c] = v]
  PROVE  /\ socket' \in [Clients -> SocketStates]
         /\ socket'[c] = v
         /\ \A d \in Clients \ {c} : socket'[d] = socket[d]
         /\ IsFiniteSet(Counted)
         /\ Counted' = IF v.state \in CountedStates THEN Counted \cup {c} ELSE Counted \ {c}
  <1>1. socket \in [Clients -> SocketStates]
    BY DEF WsInv, WsTypeOK, SocketStates
  <1>2. /\ socket' \in [Clients -> SocketStates]
        /\ socket'[c] = v
        /\ \A d \in Clients \ {c} : socket'[d] = socket[d]
    BY <1>1
  <1>3. IsFiniteSet(Counted)
    BY FS_Subset, WebSocketsAssumption DEF Counted
  <1>4. Counted' = IF v.state \in CountedStates THEN Counted \cup {c} ELSE Counted \ {c}
    BY <1>2 DEF Counted, CountedStates
  <1> QED BY <1>2, <1>3, <1>4

\* What a step does to the counter and to who is admitted and counted.
SocketMove(c, v) ==
    \/ /\ socket[c].state = "none" /\ v.state = "admitted"
       /\ connections < MaxConnections
       /\ connections' = connections
       /\ wsRaced' = (wsRaced \/ \E d \in Clients : socket[d].state = "admitted")
    \/ /\ socket[c].state = "admitted" /\ v.state \in CountedStates
       /\ connections' = connections + 1
       /\ wsRaced' = wsRaced
    \/ /\ socket[c].state \in CountedStates /\ v.state \in CountedStates \cup {"none"}
       /\ connections' = connections
       /\ wsRaced' = wsRaced
    \/ /\ socket[c].state \in CountedStates /\ v.state = "none"
       /\ connections' = connections - 1
       /\ wsRaced' = wsRaced

StreamOf(v) ==
    v.state \in CountedStates =>
        /\ v.start <= v.read /\ v.read <= Len(log)
        /\ (v.state # "closing" /\ v.alive) =>
              Accounts(v.out, v.start, v.read, WantedBy(v.filter))

\* One socket moves: the invariant holds if the counter and the new state fit.
LEMMA SocketMoveKeeps ==
  ASSUME WsInv, NEW c \in Clients, NEW v \in SocketStates,
         socket' = [socket EXCEPT ![c] = v], log' = log, SocketMove(c, v), StreamOf(v)
  PROVE  WsInv'
  <1>1. /\ socket' \in [Clients -> SocketStates]
        /\ socket'[c] = v
        /\ \A d \in Clients \ {c} : socket'[d] = socket[d]
        /\ IsFiniteSet(Counted)
        /\ Counted' = IF v.state \in CountedStates THEN Counted \cup {c} ELSE Counted \ {c}
    BY SocketStep
  <1>2. connections \in Nat /\ wsRaced \in BOOLEAN
    BY DEF WsInv, WsTypeOK
  <1>3. /\ c \in Counted <=> socket[c].state \in CountedStates
        /\ Cardinality(Counted) <= connections
    BY DEF WsInv, WsCounterCovers, Counted, CountedStates
  <1>4. /\ Cardinality(Counted) \in Nat
        /\ Cardinality(Counted \cup {c}) \in Nat
        /\ Cardinality(Counted \cup {c}) <= Cardinality(Counted) + 1
        /\ Cardinality(Counted \ {c}) \in Nat
        /\ Cardinality(Counted \ {c}) <= Cardinality(Counted)
        /\ c \in Counted => /\ Cardinality(Counted \ {c}) = Cardinality(Counted) - 1
                            /\ Cardinality(Counted) > 0
    BY <1>1, CardinalityUpTo
  <1>5. /\ connections' \in Nat /\ wsRaced' \in BOOLEAN
        /\ Cardinality(Counted)' <= connections'
    <2>1. Cardinality(Counted)' = Cardinality(Counted')
      OBVIOUS
    <2>2. c \in Counted => Counted \cup {c} = Counted
      OBVIOUS
    <2>3. c \notin Counted => Counted \ {c} = Counted
      OBVIOUS
    <2>4. CASE v.state \in CountedStates /\ c \in Counted
      <3>1. connections' = connections /\ wsRaced' = wsRaced
        BY <1>3, <2>4 DEF SocketMove, CountedStates
      <3> QED BY <1>1, <1>2, <1>3, <2>1, <2>2, <2>4, <3>1
    <2>5. CASE v.state \in CountedStates /\ c \notin Counted
      <3>1. connections' = connections + 1 /\ wsRaced' = wsRaced
        BY <1>3, <2>5 DEF SocketMove, CountedStates
      <3>2. Cardinality(Counted') = Cardinality(Counted \cup {c})
        BY <1>1, <2>5
      <3> QED BY <1>2, <1>3, <1>4, <2>1, <3>1, <3>2
    <2>6. CASE v.state \notin CountedStates
      <3>1. Cardinality(Counted') = Cardinality(Counted \ {c})
        BY <1>1, <2>6
      <3>2. CASE c \in Counted
        <4>1. connections' \in {connections, connections - 1} /\ wsRaced' = wsRaced
          BY <1>3, <2>6, <3>2 DEF SocketMove, CountedStates
        <4> QED BY <1>2, <1>3, <1>4, <2>1, <3>1, <3>2, <4>1
      <3>3. CASE c \notin Counted
        <4>1. connections' = connections /\ wsRaced' \in BOOLEAN
          BY <1>2, <1>3, <2>6, <3>3 DEF SocketMove, CountedStates
        <4> QED BY <1>2, <1>3, <1>4, <2>1, <3>1, <4>1
      <3> QED BY <3>2, <3>3
    <2> QED BY <2>4, <2>5, <2>6
  <1>6. WsTypeOK'
    BY <1>1, <1>5 DEF WsTypeOK, SocketStates
  <1>7. WsLimitInv'
    <2>1. ASSUME NEW d \in Clients, socket'[d].state = "admitted"
          PROVE  \/ d = c /\ v.state = "admitted"
                 \/ d # c /\ socket[d].state = "admitted"
      BY <1>1, <2>1
    <2> SUFFICES ASSUME ~wsRaced'
                 PROVE  /\ connections' <= MaxConnections
                        /\ \A d, e \in Clients :
                              (socket'[d].state = "admitted" /\ socket'[e].state = "admitted")
                                  => d = e
                        /\ \A d \in Clients :
                              socket'[d].state = "admitted" => connections' < MaxConnections
      BY DEF WsLimitInv
    <2>2. /\ ~wsRaced
          /\ connections <= MaxConnections
          /\ \A d, e \in Clients :
                (socket[d].state = "admitted" /\ socket[e].state = "admitted") => d = e
          /\ \A d \in Clients : socket[d].state = "admitted" => connections < MaxConnections
      BY <1>2 DEF SocketMove, WsInv, WsLimitInv
    <2>3. CASE v.state = "admitted"
      <3>1. /\ connections < MaxConnections /\ connections' = connections
            /\ \A d \in Clients : socket[d].state # "admitted"
        BY <2>3 DEF SocketMove, CountedStates
      <3> QED BY <1>2, <2>1, <3>1, WebSocketsAssumption
    <2>4. CASE v.state # "admitted" /\ socket[c].state = "admitted"
      <3>1. connections' = connections + 1
        BY <2>4 DEF SocketMove, CountedStates
      <3> QED BY <1>2, <2>1, <2>2, <2>4, <3>1, WebSocketsAssumption
    <2>5. CASE v.state # "admitted" /\ socket[c].state # "admitted"
      <3>1. connections' \in {connections, connections - 1}
        BY <2>5 DEF SocketMove, CountedStates
      <3> QED BY <1>2, <2>1, <2>2, <2>5, <3>1, WebSocketsAssumption
    <2> QED BY <2>3, <2>4, <2>5
  <1>8. WsStreamInv'
    <2>1. ASSUME NEW d \in Clients, socket'[d].state \in CountedStates
          PROVE  /\ socket'[d].start <= socket'[d].read /\ socket'[d].read <= Len(log')
                 /\ (socket'[d].state # "closing" /\ socket'[d].alive) =>
                       Accounts(socket'[d].out, socket'[d].start, socket'[d].read,
                                {k \in DOMAIN log' : Wanted(socket'[d].filter, log'[k])})
      <3>1. CASE d = c
        BY <1>1, <2>1, <3>1 DEF StreamOf, WantedBy
      <3>2. CASE d # c
        BY <1>1, <2>1, <3>2 DEF WsInv, WsStreamInv, WantedBy
      <3> QED BY <3>1, <3>2
    <2> QED BY <2>1 DEF WsStreamInv, WantedBy, Accounts, Wanted, Tag
  <1> QED BY <1>5, <1>6, <1>7, <1>8 DEF WsInv, WsCounterCovers

\* At the start no socket is open and none is counted.
LEMMA WsInitInv == Init => WsInv
  <1> SUFFICES ASSUME Init PROVE WsInv
    OBVIOUS
  <1>1. /\ log = <<>> /\ connections = 0 /\ wsRaced = FALSE
        /\ socket = [c \in Clients |-> NoSocket]
    BY DEF Init, WsInit
  <1>2. \A c \in Clients : socket[c].state = "none"
    BY <1>1 DEF NoSocket
  <1>3. Counted = {}
    BY <1>2 DEF Counted
  <1>4. WsTypeOK
    BY <1>1 DEF WsTypeOK
  <1>5. WsCounterCovers
    BY <1>1, <1>3, FS_EmptySet DEF WsCounterCovers
  <1>6. WsLimitInv /\ WsStreamInv
    BY <1>1, <1>2, WebSocketsAssumption DEF WsLimitInv, WsStreamInv, CountedStates
  <1> QED BY <1>1, <1>4, <1>5, <1>6 DEF WsInv

\* What a socket with a stream is.
LEMMA StreamTypes ==
  ASSUME WsInv, NEW c \in Clients, socket[c].state \in CountedStates
  PROVE  /\ socket[c] \in Streaming
         /\ socket[c].filter \in Filters
         /\ socket[c].start \in Nat /\ socket[c].read \in Nat
         /\ socket[c].out \in Seq(Items) /\ socket[c].alive \in BOOLEAN
         /\ socket[c].start <= socket[c].read /\ socket[c].read <= Len(log)
         /\ Len(log) \in Nat
         /\ \A k \in WantedBy(socket[c].filter) : k \in Nat
  <1>1. socket[c] \in SocketStates
    BY DEF WsInv, WsTypeOK, SocketStates
  <1>2. socket[c] \in Streaming
    BY <1>1, SocketTypes
  <1>3. log \in Seq(Kinds) /\ Len(log) \in Nat
    BY DEF WsInv
  <1>4. \A k \in WantedBy(socket[c].filter) : k \in Nat
    BY <1>3 DEF WantedBy
  <1> QED BY <1>2, <1>3, <1>4 DEF Streaming, WsInv, WsStreamInv

\* A request being admitted, counted and upgraded, or its client leaving.
LEMMA WsRequestInv ==
  ASSUME WsInv, NEW c \in Clients, WsRequest(c)
  PROVE  WsInv'
  <1>1. CASE Admit(c)
    <2> DEFINE v == [state |-> "admitted"]
    <2>1. v \in SocketStates /\ SocketMove(c, v) /\ StreamOf(v)
      BY <1>1 DEF Admit, AdmitNow, SocketStates, SocketMove, StreamOf, CountedStates
    <2>2. socket' = [socket EXCEPT ![c] = v] /\ log' = log
      BY <1>1 DEF Admit, AdmitNow
    <2> QED BY <2>1, <2>2, SocketMoveKeeps
  <1>2. CASE Count(c)
    <2>1. PICK filter \in Filters :
            socket' = [socket EXCEPT ![c] = [state |-> "upgrading", filter |-> filter,
                                             start |-> Len(log), read |-> Len(log),
                                             out |-> <<>>, alive |-> TRUE]]
      BY <1>2 DEF Count
    <2> DEFINE v == [state |-> "upgrading", filter |-> filter, start |-> Len(log),
                     read |-> Len(log), out |-> <<>>, alive |-> TRUE]
    <2>2. log \in Seq(Kinds) /\ Len(log) \in Nat
      BY DEF WsInv
    <2>3. v \in SocketStates
      BY <2>2 DEF SocketStates, Streaming
    <2>4. SocketMove(c, v)
      BY <1>2 DEF Count, SocketMove, CountedStates
    <2>5. \A k \in WantedBy(filter) : k \in Nat
      BY <2>2 DEF WantedBy
    <2>6. Accounts(<<>>, Len(log), Len(log), WantedBy(filter))
      BY <2>2, <2>5, AccountsStart
    <2>7. StreamOf(v)
      BY <2>2, <2>6 DEF StreamOf
    <2>8. log' = log
      BY <1>2 DEF Count
    <2> QED BY <2>1, <2>3, <2>4, <2>7, <2>8, SocketMoveKeeps
  <1>3. CASE Upgrade(c)
    <2> DEFINE v == [socket[c] EXCEPT !.state = "open"]
    <2>1. socket[c].state = "upgrading" /\ socket[c].state \in CountedStates
      BY <1>3 DEF Upgrade, CountedStates
    <2>2. v \in SocketStates /\ v.state = "open"
      BY <2>1, StreamTypes DEF SocketStates, Streaming
    <2>3. SocketMove(c, v)
      BY <1>3, <2>1, <2>2 DEF Upgrade, SocketMove, CountedStates
    <2>4. StreamOf(v)
      BY <2>1, StreamTypes DEF StreamOf, WsInv, WsStreamInv, Streaming
    <2>5. socket' = [socket EXCEPT ![c] = v] /\ log' = log
      BY <1>3 DEF Upgrade
    <2> QED BY <2>2, <2>3, <2>4, <2>5, SocketMoveKeeps
  <1>4. CASE UpgradeFails(c)
    <2>1. NoSocket \in SocketStates /\ SocketMove(c, NoSocket) /\ StreamOf(NoSocket)
      BY <1>4 DEF UpgradeFails, SocketStates, SocketMove, StreamOf, CountedStates, NoSocket
    <2>2. socket' = [socket EXCEPT ![c] = NoSocket] /\ log' = log
      BY <1>4 DEF UpgradeFails
    <2> QED BY <2>1, <2>2, SocketMoveKeeps
  <1>5. CASE ClientGoes(c)
    <2> DEFINE v == [socket[c] EXCEPT !.alive = FALSE]
    <2>1. socket[c].state = "open" /\ socket[c].state \in CountedStates
      BY <1>5 DEF ClientGoes, CountedStates
    <2>2. v \in SocketStates /\ v.state = "open"
      BY <2>1, StreamTypes DEF SocketStates, Streaming
    <2>3. SocketMove(c, v)
      BY <1>5, <2>1, <2>2 DEF ClientGoes, SocketMove, CountedStates
    <2>4. StreamOf(v)
      BY <2>1, StreamTypes DEF StreamOf, Streaming
    <2>5. socket' = [socket EXCEPT ![c] = v] /\ log' = log
      BY <1>5 DEF ClientGoes
    <2> QED BY <2>2, <2>3, <2>4, <2>5, SocketMoveKeeps
  <1> QED BY <1>1, <1>2, <1>3, <1>4, <1>5 DEF WsRequest

\* A stream whose place or items have changed.
LEMMA StreamMoves ==
  ASSUME WsInv, NEW c \in Clients, socket[c].state = "open", log' = log,
         UNCHANGED <<connections, wsRaced>>,
         NEW read \in Nat, NEW out \in Seq(Items),
         socket[c].read <= read, read <= Len(log),
         socket' = [socket EXCEPT ![c].read = read, ![c].out = out],
         socket[c].alive => Accounts(out, socket[c].start, read, WantedBy(socket[c].filter))
  PROVE  WsInv'
  <1> DEFINE v == [socket[c] EXCEPT !.read = read, !.out = out]
  <1>1. socket[c].state \in CountedStates
    BY DEF CountedStates
  <1>2. v \in Streaming /\ v.state = "open" /\ v.start = socket[c].start
        /\ v.read = read /\ v.out = out /\ v.filter = socket[c].filter
        /\ v.alive = socket[c].alive
    BY <1>1, StreamTypes DEF Streaming
  <1>3. SocketMove(c, v)
    BY <1>1, <1>2 DEF SocketMove, CountedStates
  <1>4. StreamOf(v)
    BY <1>1, <1>2, StreamTypes DEF StreamOf
  <1>5. socket' = [socket EXCEPT ![c] = v]
    OBVIOUS
  <1> QED BY <1>2, <1>3, <1>4, <1>5, SocketMoveKeeps DEF SocketStates

\* The task of a stream: lag, an event passed on or over, and its end.
LEMMA WsStepInv ==
  ASSUME WsInv, NEW c \in Clients, WsStep(c)
  PROVE  WsInv'
  <1> DEFINE old == socket[c]
  <1>1. CASE Lag(c)
    <2> DEFINE to   == Oldest(log, Capacity)
               item == Missed(old.read + 1, to)
               out  == IF old.alive THEN Append(old.out, item) ELSE old.out
    <2>1. /\ old.state = "open" /\ old.state \in CountedStates
          /\ UNCHANGED <<log, connections, wsRaced>>
          /\ socket' = [socket EXCEPT ![c].read = to, ![c].out = out]
      BY <1>1 DEF Lag, Reads, CountedStates
    <2>2. Len(log) - old.read > Capacity
      BY <1>1 DEF Lag, Lags
    <2>3. /\ old.start \in Nat /\ old.read \in Nat /\ old.out \in Seq(Items)
          /\ old.start <= old.read /\ Len(log) \in Nat
          /\ \A k \in WantedBy(old.filter) : k \in Nat
      BY <2>1, StreamTypes
    <2>4. to \in Nat /\ to >= old.read + 1 /\ to <= Len(log)
      BY <2>2, <2>3, BusAssumption DEF Oldest
    <2>5. /\ item \in Items /\ item.from = old.read + 1 /\ item.to = to
          /\ item.from <= item.to /\ item.missed
      BY <2>3, <2>4 DEF Missed, Items
    <2>6. out \in Seq(Items)
      BY <2>3, <2>5
    <2>7. old.alive => Accounts(old.out, old.start, old.read, WantedBy(old.filter))
      BY <2>1 DEF WsInv, WsStreamInv
    <2>8. old.alive => Accounts(out, old.start, to, WantedBy(old.filter))
      <3> SUFFICES ASSUME old.alive
                   PROVE  Accounts(Append(old.out, item), old.start, to, WantedBy(old.filter))
        OBVIOUS
      <3> HIDE DEF old, to, item
      <3> QED BY <2>3, <2>5, <2>7, AccountsAdd
    <2>9. old.read <= to
      BY <2>3, <2>4
    <2> HIDE DEF to, out, item
    <2> QED BY <2>1, <2>4, <2>6, <2>8, <2>9, StreamMoves
  <1>2. CASE PassOn(c)
    <2> DEFINE next == old.read + 1
    <2>1. /\ old.state = "open" /\ old.state \in CountedStates
          /\ UNCHANGED <<log, connections, wsRaced>>
          /\ old.read < Len(log)
      BY <1>2 DEF PassOn, Reads, Pending, CountedStates
    <2>2. /\ old.start \in Nat /\ old.read \in Nat /\ old.out \in Seq(Items)
          /\ old.start <= old.read /\ Len(log) \in Nat /\ log \in Seq(Kinds)
          /\ \A k \in WantedBy(old.filter) : k \in Nat
          /\ old \in Streaming
      BY <2>1, StreamTypes DEF WsInv
    <2>3. next \in Nat /\ old.read <= next /\ next <= Len(log) /\ next \in DOMAIN log
      BY <2>1, <2>2
    <2>4. old.alive => Accounts(old.out, old.start, old.read, WantedBy(old.filter))
      BY <2>1 DEF WsInv, WsStreamInv
    <2>5. CASE /\ ~Wanted(old.filter, log[next])
               /\ socket' = [socket EXCEPT ![c].read = next]
      <3>1. next \notin WantedBy(old.filter)
        BY <2>5 DEF WantedBy
      <3>2. old.alive => Accounts(old.out, old.start, next, WantedBy(old.filter))
        BY <2>2, <2>4, <3>1, AccountsSkip
      <3>3. socket' = [socket EXCEPT ![c].read = next, ![c].out = old.out]
        <4>1. [old EXCEPT !.read = next] = [old EXCEPT !.read = next, !.out = old.out]
          BY <2>2 DEF Streaming
        <4> QED BY <2>5, <4>1
      <3> HIDE DEF next
      <3> QED BY <2>1, <2>2, <2>3, <3>2, <3>3, StreamMoves
    <2>6. CASE /\ Wanted(old.filter, log[next])
               /\ socket' = [socket EXCEPT ![c].read = next,
                                           ![c].out = IF old.alive
                                                      THEN Append(@, Shown(next)) ELSE @]
      <3> DEFINE out == IF old.alive THEN Append(old.out, Shown(next)) ELSE old.out
      <3>1. next \in WantedBy(old.filter)
        BY <2>3, <2>6 DEF WantedBy
      <3>2. /\ Shown(next) \in Items /\ Shown(next).from = next /\ Shown(next).to = next
        BY <2>2, <2>3 DEF Shown, Items
      <3>3. out \in Seq(Items)
        BY <2>2, <3>2
      <3>4. old.alive => Accounts(out, old.start, next, WantedBy(old.filter))
        <4> DEFINE item == Shown(next)
        <4> SUFFICES ASSUME old.alive
                     PROVE  Accounts(Append(old.out, item), old.start, item.to,
                                     WantedBy(old.filter))
          BY <3>2
        <4>1. /\ item \in Items /\ item.from = old.read + 1 /\ item.from <= item.to
              /\ item.from \in WantedBy(old.filter)
          BY <2>3, <3>1, <3>2
        <4> HIDE DEF item, old
        <4> QED BY <2>2, <2>4, <4>1, AccountsAdd
      <3>5. socket' = [socket EXCEPT ![c].read = next, ![c].out = out]
        BY <2>6
      <3> HIDE DEF next, out
      <3> QED BY <2>1, <2>2, <2>3, <3>3, <3>4, <3>5, StreamMoves
    <2>7. CASE /\ ~old.alive
               /\ socket' = [socket EXCEPT ![c].state = "closing"]
      <3> DEFINE v == [old EXCEPT !.state = "closing"]
      <3>1. v \in Streaming /\ v.state = "closing" /\ v.start = old.start /\ v.read = old.read
        BY <2>2 DEF Streaming
      <3>2. SocketMove(c, v) /\ StreamOf(v)
        BY <2>1, <2>2, <3>1 DEF SocketMove, StreamOf, CountedStates
      <3>3. v \in SocketStates
        BY <3>1 DEF SocketStates
      <3> QED BY <2>1, <2>7, <3>2, <3>3, SocketMoveKeeps
    <2> QED BY <1>2, <2>5, <2>6, <2>7 DEF PassOn
  <1>3. CASE SeeItGone(c)
    <2> DEFINE v == [old EXCEPT !.state = "closing"]
    <2>1. /\ old.state \in CountedStates
          /\ UNCHANGED <<log, connections, wsRaced>>
          /\ socket' = [socket EXCEPT ![c] = v]
      BY <1>3 DEF SeeItGone, CountedStates
    <2>2. /\ v \in Streaming /\ v.state = "closing" /\ v.start = old.start
          /\ v.read = old.read
      BY <2>1, StreamTypes DEF Streaming
    <2>3. SocketMove(c, v) /\ StreamOf(v)
      BY <2>1, <2>2, StreamTypes DEF SocketMove, StreamOf, CountedStates
    <2>4. v \in SocketStates
      BY <2>2 DEF SocketStates
    <2> QED BY <2>1, <2>3, <2>4, SocketMoveKeeps
  <1>4. CASE Uncount(c)
    <2>1. NoSocket \in SocketStates /\ SocketMove(c, NoSocket) /\ StreamOf(NoSocket)
      BY <1>4 DEF Uncount, SocketStates, SocketMove, StreamOf, CountedStates, NoSocket
    <2>2. socket' = [socket EXCEPT ![c] = NoSocket] /\ log' = log
      BY <1>4 DEF Uncount
    <2> QED BY <2>1, <2>2, SocketMoveKeeps
  <1> QED BY <1>1, <1>2, <1>3, <1>4 DEF WsStep

\* Publishing owes a stream nothing it has passed.
LEMMA WsPublishInv ==
  ASSUME WsInv, NEW kind \in Kinds, log' = Append(log, kind), UNCHANGED wsVars
  PROVE  WsInv'
  <1>1. log \in Seq(Kinds) /\ Len(log) \in Nat
    BY DEF WsInv
  <1>2. /\ log' \in Seq(Kinds) /\ Len(log') = Len(log) + 1
        /\ DOMAIN log = 1 .. Len(log) /\ DOMAIN log' = 1 .. Len(log) + 1
        /\ \A k \in 1 .. Len(log) : log'[k] = log[k]
    BY <1>1
  <1>3. WsTypeOK' /\ WsLimitInv' /\ WsCounterCovers'
    BY DEF wsVars, WsInv, WsTypeOK, WsLimitInv, WsCounterCovers, Counted
  <1> DEFINE More(filter) == {k \in DOMAIN log' : Wanted(filter, log'[k])}
  <1>4. ASSUME NEW c \in Clients, socket[c].state \in CountedStates
        PROVE  /\ socket[c].start <= socket[c].read /\ socket[c].read <= Len(log')
               /\ (socket[c].state # "closing" /\ socket[c].alive) =>
                     Accounts(socket[c].out, socket[c].start, socket[c].read,
                              More(socket[c].filter))
    <2> DEFINE s == socket[c]
    <2>1. /\ s.start <= s.read /\ s.read <= Len(log)
          /\ s.read \in Nat /\ s.start \in Nat /\ s.out \in Seq(Items)
      BY <1>4, StreamTypes
    <2>2. WantedBy(s.filter) \subseteq More(s.filter)
      BY <1>2 DEF WantedBy
    <2>3. ASSUME NEW k \in More(s.filter), k \notin WantedBy(s.filter)
          PROVE  k \in Nat /\ k > s.read
      <3>1. k \in 1 .. Len(log) + 1 /\ k \notin 1 .. Len(log)
        BY <1>2, <2>3 DEF WantedBy
      <3> QED BY <1>1, <2>1, <3>1
    <2>4. (s.state # "closing" /\ s.alive) =>
              Accounts(s.out, s.start, s.read, WantedBy(s.filter))
      BY <1>4 DEF WsInv, WsStreamInv
    <2> HIDE DEF More
    <2>5. (s.state # "closing" /\ s.alive) =>
              Accounts(s.out, s.start, s.read, More(s.filter))
      <3> HIDE DEF s
      <3> QED BY <2>1, <2>2, <2>3, <2>4, AccountsGrow
    <2>6. s.read <= Len(log')
      BY <1>1, <1>2, <2>1
    <2> QED BY <2>1, <2>5, <2>6
  <1>5. WsStreamInv'
    BY <1>4 DEF wsVars, WsStreamInv, WantedBy, Wanted, Tag
  <1> QED BY <1>2, <1>3, <1>5 DEF WsInv

\* Nothing else touches the sockets.
LEMMA WsRestInv ==
  ASSUME WsInv, UNCHANGED <<log, wsVars>>
  PROVE  WsInv'
  BY DEF wsVars, WsInv, WsTypeOK, WsLimitInv, WsCounterCovers, Counted, WsStreamInv,
         WantedBy, Wanted, Tag, Accounts

--------------------------------------------------------------------------------
(* Webhooks.                                                                *)

HookLimitInv ==
    ~hookRaced =>
        /\ Cardinality(hooks) <= MaxWebhooks
        /\ \A q, r \in creating : q = r
        /\ creating # {} => Cardinality(hooks) < MaxWebhooks

\* The dispatcher is ahead of all it has handed out.
HandedOut ==
    /\ \A d \in deliveries : d.event <= dispatched
    /\ \A x \in confirmed : x.event <= dispatched

HookInv ==
    /\ log \in Seq(Kinds) /\ Len(log) <= MaxEvents
    /\ HookTypeOK
    /\ IsFiniteSet(hooks)
    /\ HookLimitInv
    /\ HandedOut
    /\ RepeatsNeedLostAnswers

\* At the start there is no webhook and nothing was dispatched.
LEMMA HookInitInv == Init => HookInv
  <1> SUFFICES ASSUME Init PROVE HookInv
    OBVIOUS
  <1>1. /\ log = <<>> /\ hooks = {} /\ lastId = 0 /\ creating = {} /\ hookRaced = FALSE
        /\ dispatched = 0 /\ deliveries = {} /\ confirmed = {} /\ hookFaults = 0
    BY DEF Init, HookInit
  <1>2. HookTypeOK
    <2>1. Len(log) = 0
      BY <1>1
    <2>2. /\ dispatched \in 0 .. Len(log) /\ lastId \in 0 .. MaxIds
          /\ hookFaults \in 0 .. MaxHookFaults
      BY <1>1, <2>1, WebhooksAssumption
    <2> QED BY <1>1, <2>2 DEF HookTypeOK
  <1> QED BY <1>1, <1>2, FS_EmptySet, BusAssumption, WebhooksAssumption
          DEF HookInv, HookLimitInv, HandedOut, RepeatsNeedLostAnswers

\* Lengths and places are numbers.
LEMMA HookTypes ==
  ASSUME HookInv
  PROVE  /\ Len(log) \in Nat /\ lastId \in Nat /\ dispatched \in Nat /\ dispatched <= Len(log)
         /\ Cardinality(hooks) \in Nat
         /\ MaxEvents \in Nat /\ MaxIds \in Nat /\ MaxRetries \in Nat /\ MaxWebhooks \in Nat
         /\ \A d \in deliveries : d \in Tasks
         /\ \A w \in hooks : w.id \in 1 .. lastId /\ w.row \in HookSettings
  BY FS_CardinalityType, BusAssumption, WebhooksAssumption DEF HookInv, HookTypeOK

\* Creating, changing and deleting webhooks; the limit counts requests that race.
LEMMA TableInv ==
  ASSUME HookInv,
         \/ \E r \in Creators : CountHooks(r) \/ InsertHook(r)
         \/ \E w \in hooks : UpdateHook(w) \/ DeleteHook(w)
  PROVE  HookInv'
  <1> USE HookTypes
  <1>0. UNCHANGED <<log, dispatched, deliveries, confirmed>>
    BY DEF CountHooks, HasRoom, InsertHook, UpdateHook, DeleteHook
  <1>1. /\ IsFiniteSet(hooks) /\ hooks \subseteq [id : 1 .. lastId, row : HookSettings]
        /\ lastId \in 0 .. MaxIds /\ creating \subseteq Creators
        /\ hookRaced \in BOOLEAN /\ hookFaults \in 0 .. MaxHookFaults
    BY DEF HookInv, HookTypeOK
  <1>2. ASSUME /\ IsFiniteSet(hooks')
               /\ hooks' \subseteq [id : 1 .. lastId', row : HookSettings]
               /\ lastId' \in 0 .. MaxIds /\ creating' \subseteq Creators
               /\ hookRaced' \in BOOLEAN /\ hookFaults' \in 0 .. MaxHookFaults,
               HookLimitInv'
        PROVE  HookInv'
    <2>1. HookTypeOK'
      BY <1>0, <1>2 DEF HookInv, HookTypeOK
    <2>2. HandedOut' /\ RepeatsNeedLostAnswers'
      BY <1>0 DEF HookInv, HandedOut, RepeatsNeedLostAnswers
    <2> QED BY <1>0, <1>2, <2>1, <2>2 DEF HookInv
  <1>3. ASSUME NEW r \in Creators, CountHooks(r)
        PROVE  HookInv'
    <2>1. /\ creating' = creating \cup {r}
          /\ hookRaced' = (hookRaced \/ creating # {})
          /\ UNCHANGED <<hooks, lastId, hookFaults>>
          /\ Cardinality(hooks) < MaxWebhooks
      BY <1>3 DEF CountHooks, HasRoom
    <2>2. HookLimitInv'
      <3> SUFFICES ASSUME ~hookRaced'
                   PROVE  /\ Cardinality(hooks') <= MaxWebhooks
                          /\ \A p, q \in creating' : p = q
                          /\ creating' # {} => Cardinality(hooks') < MaxWebhooks
        BY DEF HookLimitInv
      <3>1. creating = {}
        BY <1>1, <2>1
      <3>2. hooks' = hooks /\ creating' = {r}
        BY <2>1, <3>1
      <3> QED BY <2>1, <3>2
    <2> QED BY <1>1, <1>2, <2>1, <2>2
  <1>4. ASSUME NEW r \in Creators, InsertHook(r)
        PROVE  HookInv'
    <2>1. r \in creating /\ creating' = creating \ {r} /\ hookRaced' = hookRaced
      BY <1>4 DEF InsertHook
    <2>2. ~hookRaced => creating' = {} /\ Cardinality(hooks) < MaxWebhooks
      BY <2>1 DEF HookInv, HookLimitInv
    <2>3. CASE /\ lastId < MaxIds /\ lastId' = lastId + 1
               /\ \E s \in HookSettings : hooks' = hooks \cup {[id |-> lastId + 1, row |-> s]}
               /\ hookFaults' = hookFaults
      <3>1. PICK s \in HookSettings : hooks' = hooks \cup {[id |-> lastId + 1, row |-> s]}
        BY <2>3
      <3>2. /\ IsFiniteSet(hooks') /\ Cardinality(hooks') \in Nat
            /\ Cardinality(hooks') <= Cardinality(hooks) + 1
        BY <1>1, <3>1, CardinalityUpTo
      <3>3. hooks' \subseteq [id : 1 .. lastId', row : HookSettings]
        BY <1>1, <2>3, <3>1
      <3>4. HookLimitInv'
        BY <2>1, <2>2, <3>2 DEF HookLimitInv
      <3> QED BY <1>1, <1>2, <2>1, <2>3, <3>2, <3>3, <3>4
    <2>4. CASE HookFault /\ UNCHANGED <<hooks, lastId>>
      <3>1. HookLimitInv'
        BY <2>1, <2>2, <2>4 DEF HookLimitInv
      <3> QED BY <1>1, <1>2, <2>1, <2>4, <3>1, WebhooksAssumption DEF HookFault
    <2> QED BY <1>4, <2>3, <2>4 DEF InsertHook
  <1>5. ASSUME NEW w \in hooks, UpdateHook(w)
        PROVE  HookInv'
    <2>1. UNCHANGED <<lastId, creating, hookRaced, hookFaults>>
      BY <1>5 DEF UpdateHook
    <2>2. PICK s \in HookSettings : hooks' = (hooks \ {w}) \cup {[w EXCEPT !.row = s]}
      BY <1>5 DEF UpdateHook
    <2>3. [w EXCEPT !.row = s] \in [id : 1 .. lastId, row : HookSettings]
      BY <1>1
    <2>4. IsFiniteSet(hooks \ {w}) /\ Cardinality(hooks \ {w}) \in Nat
          /\ Cardinality(hooks \ {w}) = Cardinality(hooks) - 1
      BY <1>1, CardinalityUpTo
    <2>5. /\ IsFiniteSet(hooks') /\ Cardinality(hooks') \in Nat
          /\ Cardinality(hooks') <= Cardinality(hooks \ {w}) + 1
      BY <2>2, <2>4, CardinalityUpTo
    <2>6. Cardinality(hooks') <= Cardinality(hooks)
      BY <2>4, <2>5
    <2>7. HookLimitInv'
      BY <2>1, <2>5, <2>6 DEF HookInv, HookLimitInv
    <2> QED BY <1>1, <1>2, <2>1, <2>2, <2>3, <2>5, <2>7
  <1>6. ASSUME NEW w \in hooks, DeleteHook(w)
        PROVE  HookInv'
    <2>1. hooks' = hooks \ {w} /\ UNCHANGED <<lastId, creating, hookRaced, hookFaults>>
      BY <1>6 DEF DeleteHook
    <2>2. /\ IsFiniteSet(hooks') /\ Cardinality(hooks') \in Nat
          /\ Cardinality(hooks') <= Cardinality(hooks)
      BY <1>1, <2>1, CardinalityUpTo
    <2>3. HookLimitInv'
      BY <2>1, <2>2 DEF HookInv, HookLimitInv
    <2> QED BY <1>1, <1>2, <2>1, <2>2, <2>3
  <1> QED BY <1>3, <1>4, <1>5, <1>6

\* The dispatcher hands out each event once, for it is ahead of all it handed out.
LEMMA DispatcherInv ==
  ASSUME HookInv, DispatcherLags \/ DispatchEvent
  PROVE  HookInv'
  <1>0. UNCHANGED <<log, hooks, lastId, creating, hookRaced, confirmed>>
    BY DEF DispatcherLags, DispatchEvent
  <1>1. HookLimitInv' /\ IsFiniteSet(hooks')
    BY <1>0 DEF HookInv, HookLimitInv
  <1>2. CASE DispatcherLags
    <2>1. dispatched' = Len(log) - Capacity /\ Len(log) - dispatched > Capacity
          /\ UNCHANGED <<deliveries, hookFaults>>
      BY <1>2 DEF DispatcherLags, Lags, Oldest
    <2>2. dispatched' \in 0 .. Len(log) /\ dispatched <= dispatched'
      BY <2>1, HookTypes, BusAssumption
    <2>3. HookTypeOK'
      BY <1>0, <2>1, <2>2 DEF HookInv, HookTypeOK
    <2>4. HandedOut'
      <3>1. \A d \in deliveries : d.event \in Nat
        BY HookTypes DEF Tasks
      <3>2. \A x \in confirmed : x.event \in Nat
        BY DEF HookInv, HookTypeOK
      <3> QED BY <1>0, <2>1, <2>2, <3>1, <3>2, HookTypes DEF HookInv, HandedOut
    <2> QED BY <1>0, <1>1, <2>1, <2>3, <2>4 DEF HookInv, RepeatsNeedLostAnswers
  <1>3. CASE DispatchEvent
    <2> DEFINE next == dispatched + 1
               new  == {[id |-> w.id, event |-> next, attempt |-> 1] :
                           w \in Matching(log[next])}
    <2>1. /\ dispatched' = next /\ dispatched < Len(log)
          /\ \/ deliveries' = deliveries \cup new /\ hookFaults' = hookFaults
             \/ HookFault /\ deliveries' = deliveries
      BY <1>3 DEF DispatchEvent, Pending
    <2>2. next \in 1 .. MaxEvents /\ next \in 0 .. Len(log) /\ next > dispatched
      BY <2>1, HookTypes DEF HookInv
    <2>3. \A d \in new : d \in Tasks /\ d.event = next
      <3>1. \A w \in Matching(log[next]) : w.id \in 1 .. MaxIds
        BY HookTypes DEF HookInv, HookTypeOK, Matching
      <3>2. 1 \in 1 .. MaxRetries + 1
        BY HookTypes
      <3> QED BY <2>2, <3>1, <3>2 DEF Tasks
    <2>4. deliveries' \subseteq deliveries \cup new
      BY <2>1
    <2>5. hookFaults' \in 0 .. MaxHookFaults
      BY <2>1, WebhooksAssumption DEF HookFault, HookInv, HookTypeOK
    <2>6. HookTypeOK'
      BY <1>0, <2>1, <2>2, <2>3, <2>4, <2>5 DEF HookInv, HookTypeOK
    <2>7. \A d, e \in new : (d.id = e.id) => d = e
      OBVIOUS
    <2>8. \A d \in deliveries : d.event \in Nat /\ d.event < next
      BY <2>2, HookTypes DEF Tasks, HookInv, HandedOut
    <2>9. \A x \in confirmed : x.event \in Nat /\ x.event < next
      BY <2>2, HookTypes DEF HookInv, HookTypeOK, HandedOut
    <2>10. HandedOut'
      BY <1>0, <2>1, <2>2, <2>3, <2>4, <2>8, <2>9 DEF HandedOut
    <2>11. \A d \in new : [id |-> d.id, event |-> d.event] \notin confirmed
      <3> SUFFICES ASSUME NEW d \in new, [id |-> d.id, event |-> d.event] \in confirmed
                   PROVE  FALSE
        OBVIOUS
      <3>1. d.event = next
        BY <2>3
      <3>2. [id |-> d.id, event |-> d.event].event < next
        BY <2>9
      <3> QED BY <2>2, <3>1, <3>2
    <2> HIDE DEF new, next
    <2>12. RepeatsNeedLostAnswers'
      <3> SUFFICES ASSUME NEW d \in deliveries \cup new
                   PROVE  /\ \A e \in deliveries \cup new :
                                (d.id = e.id /\ d.event = e.event) => d = e
                          /\ [id |-> d.id, event |-> d.event] \notin confirmed
        BY <1>0, <2>4 DEF RepeatsNeedLostAnswers
      <3>1. CASE d \in deliveries
        <4>1. \A e \in new : e.event # d.event
          BY <2>3, <2>8, <3>1
        <4> QED BY <3>1, <4>1 DEF HookInv, RepeatsNeedLostAnswers
      <3>2. CASE d \in new
        <4>1. \A e \in deliveries : e.event # d.event
          BY <2>3, <2>8, <3>2
        <4> QED BY <2>7, <2>11, <3>2, <4>1
      <3> QED BY <3>1, <3>2
    <2> QED BY <1>0, <1>1, <2>6, <2>10, <2>12 DEF HookInv
  <1> QED BY <1>2, <1>3

\* A delivery that succeeds or fails, and the attempt after it.
LEMMA DeliveryInv ==
  ASSUME HookInv, NEW d \in deliveries, Succeed(d) \/ Fail(d)
  PROVE  HookInv'
  <1> DEFINE done  == [id |-> d.id, event |-> d.event]
             again == [d EXCEPT !.attempt = @ + 1]
  <1>0. UNCHANGED <<log, hooks, lastId, creating, hookRaced, dispatched, hookFaults>>
    BY DEF Succeed, Fail
  <1>1. d \in Tasks /\ d.id \in 1 .. MaxIds /\ d.event \in 1 .. MaxEvents
    BY HookTypes DEF Tasks
  <1>2. HookLimitInv' /\ IsFiniteSet(hooks')
    BY <1>0 DEF HookInv, HookLimitInv
  <1>3. d.event <= dispatched
        /\ \A e \in deliveries : (d.id = e.id /\ d.event = e.event) => d = e
    BY DEF HookInv, HandedOut, RepeatsNeedLostAnswers
  <1>4. CASE Succeed(d)
    <2>1. deliveries' = deliveries \ {d} /\ confirmed' = confirmed \cup {done}
      BY <1>4 DEF Succeed
    <2>2. HookTypeOK'
      BY <1>0, <1>1, <2>1 DEF HookInv, HookTypeOK
    <2>3. HandedOut'
      BY <1>0, <1>3, <2>1 DEF HookInv, HandedOut
    <2>4. ASSUME NEW e \in deliveries \ {d}
          PROVE  [id |-> e.id, event |-> e.event] \notin confirmed \cup {done}
      <3>1. ~(d.id = e.id /\ d.event = e.event)
        BY <1>3
      <3>2. [id |-> e.id, event |-> e.event] # done
        BY <3>1
      <3>3. [id |-> e.id, event |-> e.event] \notin confirmed
        BY DEF HookInv, RepeatsNeedLostAnswers
      <3> QED BY <3>2, <3>3
    <2>5. RepeatsNeedLostAnswers'
      BY <2>1, <2>4 DEF HookInv, RepeatsNeedLostAnswers
    <2> QED BY <1>0, <1>2, <2>2, <2>3, <2>5 DEF HookInv
  <1>5. CASE Fail(d)
    <2>1. /\ deliveries' = (deliveries \ {d}) \cup IF d.attempt <= MaxRetries THEN {again} ELSE {}
          /\ confirmed' = confirmed
      BY <1>5 DEF Fail
    <2>2. again.id = d.id /\ again.event = d.event
      BY <1>1 DEF Tasks
    <2>3. d.attempt <= MaxRetries => again \in Tasks
      BY <1>1, HookTypes DEF Tasks
    <2>4. HookTypeOK'
      BY <1>0, <2>1, <2>3 DEF HookInv, HookTypeOK
    <2> HIDE DEF again
    <2>5. HandedOut'
      BY <1>0, <1>3, <2>1, <2>2 DEF HookInv, HandedOut
    <2>6. RepeatsNeedLostAnswers'
      <3>1. \A e \in deliveries' : e = again \/ (e \in deliveries /\ e # d)
        BY <2>1
      <3>2. RepeatsNeedLostAnswers /\ done \notin confirmed
        BY DEF HookInv, RepeatsNeedLostAnswers
      <3>3. [id |-> again.id, event |-> again.event] \notin confirmed'
        BY <2>1, <2>2, <3>2
      <3>4. \A e \in deliveries \ {d} : ~(again.id = e.id /\ again.event = e.event)
        BY <1>3, <2>2
      <3> QED BY <2>1, <3>1, <3>2, <3>3, <3>4 DEF RepeatsNeedLostAnswers
    <2> QED BY <1>0, <1>2, <2>4, <2>5, <2>6 DEF HookInv
  <1> QED BY <1>4, <1>5

\* Any step of the webhooks.
LEMMA HookStepInv ==
  ASSUME HookInv, HookNext
  PROVE  HookInv'
  BY TableInv, DispatcherInv, DeliveryInv DEF HookNext

\* Publishing leaves the dispatcher where it is.
LEMMA HookPublishInv ==
  ASSUME HookInv, NEW kind \in Kinds, Publish(kind), UNCHANGED hookVars
  PROVE  HookInv'
  <1>1. log \in Seq(Kinds) /\ Len(log) \in Nat
    BY DEF HookInv
  <1>2. /\ log' \in Seq(Kinds) /\ Len(log') = Len(log) + 1 /\ Len(log) < MaxEvents
    BY <1>1 DEF Publish
  <1>3. HookTypeOK'
    BY <1>1, <1>2 DEF HookInv, HookTypeOK, hookVars
  <1> QED BY <1>1, <1>2, <1>3, BusAssumption
          DEF HookInv, hookVars, HookLimitInv, HandedOut, RepeatsNeedLostAnswers

\* Nothing else touches the webhooks.
LEMMA HookRestInv ==
  ASSUME HookInv, UNCHANGED <<log, hookVars>>
  PROVE  HookInv'
  BY DEF HookInv, hookVars, HookTypeOK, HookLimitInv, HandedOut, RepeatsNeedLostAnswers

--------------------------------------------------------------------------------
(* The bots' channels and streams.                                          *)

Messages == [via : {"forwarder", "processor"}, event : 1 .. Len(log)]

Running == [state : {"running"}, start : 0 .. Len(log), read : 0 .. Len(log),
            over : SUBSET (1 .. Len(log))]

OpenStreams == [state : {"open"}, token : Tokens, raced : BOOLEAN, of : Tokens,
                start : Nat, read : Nat, out : Seq(Items)]

IsStream(v) ==
    v \in {NoStream} \cup [state : {"validated"}, token : Tokens, raced : BOOLEAN]
          \cup OpenStreams

\* A registration that is not made has no forwarder and an empty channel; a forwarder
\* and the processor are ahead of what they have sent.
FeedInv ==
    /\ \A t \in Tokens : t > given => forwarder[t] = NoForwarder /\ channel[t] = <<>>
    /\ \A t \in Tokens : \A i \in DOMAIN channel[t] :
        /\ channel[t][i].via = "forwarder" =>
              /\ forwarder[t].state # "spawned"
              /\ forwarder[t].state = "running" => channel[t][i].event <= forwarder[t].read
        /\ channel[t][i].via = "processor" =>
              channel[t][i].event <= routed /\ log[channel[t][i].event] \in {"pm", "command"}

\* What is due to a stream: its place in its channel, and whose channel it is or will be.
StreamGood(v) ==
    /\ v.state = "open" =>
          /\ v.start <= v.read
          /\ v.read <= Len(channel[v.of])
          /\ Accounts(v.out, v.start, v.read, DOMAIN channel[v.of])
          /\ v.of = v.token \/ (v.raced /\ v.token < v.of)
    /\ v.state = "validated" =>
          /\ v.token <= given
          /\ bot.token \in {0, v.token} \/ (v.raced /\ v.token < bot.token)

BotStreamInv == \A s \in Streams : StreamGood(stream[s])

BotInv ==
    /\ log \in Seq(Kinds)
    /\ BotTypeOK
    /\ FeedInv
    /\ ChannelOrder
    /\ BotStreamInv

\* At the start no bot is registered and every channel is empty.
LEMMA BotInitInv == Init => BotInv
  <1> SUFFICES ASSUME Init PROVE BotInv
    OBVIOUS
  <1>1. /\ log = <<>> /\ bot = NoBot /\ given = 0 /\ routed = 0
        /\ forwarder = [t \in Tokens |-> NoForwarder]
        /\ channel = [t \in Tokens |-> <<>>]
        /\ stream = [s \in Streams |-> NoStream]
    BY DEF Init, BotInit, Tokens
  <1>2. Len(log) = 0 /\ \A t \in Tokens : DOMAIN channel[t] = {}
    BY <1>1
  <1>3. routed \in 0 .. Len(log) /\ given \in 0 .. MaxTokens
    BY <1>1, <1>2, BotStreamsAssumption
  <1>4. BotTypeOK
    <2>1. <<>> \in Seq([via : {"forwarder", "processor"}, event : 1 .. Len(log)])
      OBVIOUS
    <2>2. channel \in [Tokens -> Seq([via : {"forwarder", "processor"}, event : 1 .. Len(log)])]
      BY <1>1, <2>1
    <2> QED BY <1>1, <1>3, <2>2 DEF BotTypeOK
  <1>5. FeedInv /\ ChannelOrder
    BY <1>1, <1>2 DEF FeedInv, ChannelOrder
  <1>6. BotStreamInv
    BY <1>1 DEF BotStreamInv, StreamGood, NoStream
  <1> QED BY <1>1, <1>4, <1>5, <1>6 DEF BotInv

\* What the types say of one registration.
LEMMA BotTypes ==
  ASSUME BotInv
  PROVE  /\ Len(log) \in Nat /\ MaxTokens \in Nat
         /\ given \in 0 .. MaxTokens /\ routed \in 0 .. Len(log)
         /\ bot.token \in 0 .. given
         /\ bot.token # 0 => bot.token \in Tokens
         /\ \A t \in Tokens :
              /\ channel[t] \in Seq(Messages) /\ Len(channel[t]) \in Nat
              /\ DOMAIN channel[t] = 1 .. Len(channel[t])
              /\ \A i \in DOMAIN channel[t] : channel[t][i] \in Messages
              /\ forwarder[t].state = "running" =>
                    forwarder[t] \in Running /\ forwarder[t].read \in 0 .. Len(log)
  <1>1. /\ Len(log) \in Nat /\ MaxTokens \in Nat
        /\ given \in 0 .. MaxTokens /\ routed \in 0 .. Len(log)
    BY BotStreamsAssumption DEF BotInv, BotTypeOK
  <1>2. bot \in {NoBot} \cup [token : 1 .. given, events : Subscriptions]
    BY DEF BotInv, BotTypeOK
  <1>3. bot.token \in 0 .. given /\ (bot.token # 0 => bot.token \in Tokens)
    BY <1>1, <1>2 DEF NoBot, Tokens
  <1>4. ASSUME NEW t \in Tokens
        PROVE  /\ channel[t] \in Seq(Messages) /\ Len(channel[t]) \in Nat
               /\ DOMAIN channel[t] = 1 .. Len(channel[t])
               /\ \A i \in DOMAIN channel[t] : channel[t][i] \in Messages
               /\ forwarder[t].state = "running" =>
                     forwarder[t] \in Running /\ forwarder[t].read \in 0 .. Len(log)
    <2>1. channel[t] \in Seq(Messages)
      BY DEF BotInv, BotTypeOK, Messages
    <2>2. forwarder[t] \in {NoForwarder, [state |-> "spawned"]} \cup Running
      BY DEF BotInv, BotTypeOK, Running
    <2> QED BY <2>1, <2>2 DEF NoForwarder, Running
  <1> QED BY <1>1, <1>3, <1>4

\* An open stream has a channel and a place in it.
LEMMA OpenTypes ==
  ASSUME BotInv, NEW s \in Streams, stream[s].state = "open"
  PROVE  /\ stream[s] \in OpenStreams
         /\ stream[s].of \in Tokens /\ stream[s].start \in Nat /\ stream[s].read \in Nat
         /\ stream[s].out \in Seq(Items)
  BY DEF BotInv, BotTypeOK, NoStream, OpenStreams

\* An event is sent into a channel by one of the two that feed it.
LEMMA Feed ==
  ASSUME BotInv, NEW t \in Tokens, NEW m \in Messages, log' = log,
         channel' = [channel EXCEPT ![t] = Append(@, m)],
         UNCHANGED <<stream, bot, given>>,
         \A i \in DOMAIN channel[t] :
            \/ /\ channel[t][i].via = m.via
               /\ channel[t][i].event < m.event
            \/ /\ channel[t][i].via # m.via
               /\ channel[t][i].event = m.event => log[m.event] \in {"pm", "command"}
  PROVE  /\ channel' \in [Tokens -> Seq(Messages)]
         /\ ChannelOrder'
         /\ BotStreamInv'
         /\ \A u \in Tokens \ {t} : channel'[u] = channel[u]
         /\ channel'[t] = Append(channel[t], m)
  <1>1. /\ channel \in [Tokens -> Seq(Messages)]
        /\ channel' \in [Tokens -> Seq(Messages)]
        /\ \A u \in Tokens \ {t} : channel'[u] = channel[u]
        /\ channel'[t] = Append(channel[t], m)
    <2>1. channel \in [Tokens -> Seq(Messages)]
      BY DEF BotInv, BotTypeOK, Messages
    <2>2. Append(channel[t], m) \in Seq(Messages)
      BY <2>1
    <2> QED BY <2>1, <2>2
  <1>2. /\ Len(channel[t]) \in Nat
        /\ DOMAIN channel[t] = 1 .. Len(channel[t])
        /\ DOMAIN channel'[t] = 1 .. Len(channel[t]) + 1 /\ Len(channel'[t]) = Len(channel[t]) + 1
        /\ \A i \in 1 .. Len(channel[t]) : channel'[t][i] = channel[t][i]
        /\ channel'[t][Len(channel[t]) + 1] = m
    BY <1>1
  <1>3. ChannelOrder'
    <2>0. ChannelOrder
      BY DEF BotInv
    <2>1. ASSUME NEW u \in Tokens, NEW i \in DOMAIN channel'[u], NEW j \in DOMAIN channel'[u], i < j
          PROVE  \/ /\ channel'[u][i].via = channel'[u][j].via
                    /\ channel'[u][i].event < channel'[u][j].event
                 \/ /\ channel'[u][i].via # channel'[u][j].via
                    /\ (channel'[u][i].event = channel'[u][j].event =>
                            log'[channel'[u][i].event] \in {"pm", "command"})
      <3>1. CASE u # t
        <4>1. channel'[u] = channel[u]
          BY <1>1, <3>1
        <4> QED BY <2>0, <2>1, <4>1 DEF ChannelOrder
      <3>2. CASE u = t /\ j \in 1 .. Len(channel[t])
        <4>1. i \in DOMAIN channel[t] /\ j \in DOMAIN channel[t]
          BY <1>2, <2>1, <3>2
        <4>2. channel'[u][i] = channel[t][i] /\ channel'[u][j] = channel[t][j]
          BY <1>2, <3>2, <4>1
        <4> QED BY <2>0, <2>1, <4>1, <4>2, <3>2 DEF ChannelOrder
      <3>3. CASE u = t /\ j \notin 1 .. Len(channel[t])
        <4>1. j = Len(channel[t]) + 1 /\ i \in DOMAIN channel[t]
          BY <1>2, <2>1, <3>3
        <4>2. channel'[u][i] = channel[t][i] /\ channel'[u][j] = m
          BY <1>2, <3>3, <4>1
        <4> QED BY <4>1, <4>2
      <3> QED BY <3>1, <3>2, <3>3
    <2> QED BY <2>1 DEF ChannelOrder
  <1>4. BotStreamInv'
    <2>1. ASSUME NEW s \in Streams, stream[s].state = "open"
          PROVE  /\ stream[s].read <= Len(channel'[stream[s].of])
                 /\ Accounts(stream[s].out, stream[s].start, stream[s].read,
                             DOMAIN channel'[stream[s].of])
      <3> DEFINE u == stream[s].of
      <3>1. /\ u \in Tokens /\ stream[s].read \in Nat /\ stream[s].out \in Seq(Items)
            /\ stream[s].read <= Len(channel[u])
            /\ Accounts(stream[s].out, stream[s].start, stream[s].read, DOMAIN channel[u])
        BY <2>1, OpenTypes DEF BotInv, BotStreamInv, StreamGood
      <3>2. CASE u # t
        BY <1>1, <3>1, <3>2
      <3>3. CASE u = t
        <4>1. /\ DOMAIN channel[u] \subseteq DOMAIN channel'[u]
              /\ \A k \in DOMAIN channel'[u] \ DOMAIN channel[u] :
                    k \in Nat /\ k > stream[s].read
              /\ stream[s].read <= Len(channel'[u])
          BY <1>2, <3>1, <3>3
        <4> QED BY <3>1, <4>1, AccountsGrow
      <3> QED BY <3>2, <3>3
    <2> QED BY <2>1 DEF BotInv, BotStreamInv, StreamGood
  <1> QED BY <1>1, <1>3, <1>4

\* A registration takes a channel nothing was sent into, and races what is validated.
LEMMA RegistrationInv ==
  ASSUME BotInv, RegisterBot \/ UnregisterBot
  PROVE  BotInv'
  <1>0. UNCHANGED <<log, routed, channel>>
    BY DEF RegisterBot, UnregisterBot
  <1>1. ChannelOrder'
    BY <1>0 DEF BotInv, ChannelOrder
  <1>2. CASE RegisterBot
    <2>1. PICK kinds \in Subscriptions :
            /\ bot' = [token |-> given + 1, events |-> kinds]
            /\ forwarder' = IF kinds = {} THEN forwarder
                            ELSE [forwarder EXCEPT ![given + 1] = [state |-> "spawned"]]
      BY <1>2 DEF RegisterBot
    <2>2. /\ given < MaxTokens /\ given' = given + 1
          /\ stream' = [s \in Streams |-> IF stream[s].state = "validated"
                                          THEN [stream[s] EXCEPT !.raced = TRUE]
                                          ELSE stream[s]]
      BY <1>2 DEF RegisterBot
    <2>3. /\ given' \in 0 .. MaxTokens /\ given' \in Tokens /\ given' > given
          /\ given \in Nat /\ given' = given + 1
      BY <2>2, BotTypes DEF Tokens
    <2>4. /\ \A t \in Tokens \ {given'} : forwarder'[t] = forwarder[t]
          /\ forwarder' \in [Tokens -> {NoForwarder, [state |-> "spawned"]} \cup Running]
      BY <2>1, <2>3 DEF BotInv, BotTypeOK, Running
    <2>5. bot' \in [token : 1 .. given', events : Subscriptions]
      BY <2>1, <2>2, <2>3, BotTypes
    <2>11. ASSUME NEW s \in Streams
           PROVE  IsStream(stream[s])' /\ StreamGood(stream[s])'
      <3>1. IsStream(stream[s]) /\ StreamGood(stream[s])
        BY DEF BotInv, BotTypeOK, BotStreamInv, IsStream, OpenStreams
      <3>2. CASE stream[s].state = "validated"
        <4>1. stream[s] \in [state : {"validated"}, token : Tokens, raced : BOOLEAN]
          BY <3>1, <3>2 DEF IsStream, NoStream, OpenStreams
        <4>2. stream'[s] = [stream[s] EXCEPT !.raced = TRUE]
          BY <2>2, <3>2
        <4>3. /\ stream'[s] \in [state : {"validated"}, token : Tokens, raced : BOOLEAN]
              /\ stream'[s].state = "validated" /\ stream'[s].raced = TRUE
              /\ stream'[s].token = stream[s].token /\ stream[s].token \in Tokens
          BY <4>1, <4>2
        <4>4. stream[s].token <= given
          BY <3>1, <3>2 DEF StreamGood
        <4>5. bot'.token = given' /\ stream'[s].token < bot'.token
              /\ stream'[s].token <= given'
          BY <2>1, <2>3, <4>3, <4>4 DEF Tokens
        <4> QED BY <4>3, <4>5 DEF IsStream, StreamGood
      <3>3. CASE stream[s].state # "validated"
        <4>1. stream'[s] = stream[s]
          BY <2>2, <3>3
        <4>2. IsStream(stream[s])'
          BY <3>1, <4>1 DEF IsStream, OpenStreams
        <4>3. StreamGood(stream[s])'
          BY <1>0, <3>1, <3>3, <4>1 DEF StreamGood
        <4> QED BY <4>2, <4>3
      <3> QED BY <3>2, <3>3
    <2>6. BotTypeOK'
      <3>1. \A s \in Streams : stream'[s] \in
               {NoStream} \cup [state : {"validated"}, token : Tokens, raced : BOOLEAN]
                  \cup OpenStreams
        BY <2>11 DEF IsStream, OpenStreams
      <3>2. stream' \in [Streams ->
               {NoStream} \cup [state : {"validated"}, token : Tokens, raced : BOOLEAN]
                  \cup OpenStreams]
        BY <2>2, <3>1
      <3> QED BY <1>0, <2>3, <2>4, <2>5, <3>2 DEF BotInv, BotTypeOK, Running, OpenStreams
    <2>7. channel[given'] = <<>> /\ DOMAIN channel[given'] = {}
      BY <2>3 DEF BotInv, FeedInv
    <2>8. \A t \in Tokens : t > given' => t # given' /\ t > given
      BY <2>3 DEF Tokens
    <2>9. FeedInv'
      <3>1. \A t \in Tokens : t > given' => forwarder'[t] = NoForwarder /\ channel[t] = <<>>
        BY <2>4, <2>8 DEF BotInv, FeedInv
      <3>2. ASSUME NEW t \in Tokens, NEW i \in DOMAIN channel[t]
            PROVE  /\ channel[t][i].via = "forwarder" =>
                        /\ forwarder'[t].state # "spawned"
                        /\ forwarder'[t].state = "running" =>
                              channel[t][i].event <= forwarder'[t].read
                   /\ channel[t][i].via = "processor" =>
                        /\ channel[t][i].event <= routed
                        /\ log[channel[t][i].event] \in {"pm", "command"}
        <4>1. forwarder'[t] = forwarder[t]
          BY <2>4, <2>7, <3>2
        <4> QED BY <4>1 DEF BotInv, FeedInv
      <3> QED BY <1>0, <3>1, <3>2 DEF FeedInv
    <2>10. BotStreamInv'
      BY <2>11 DEF BotStreamInv
    <2> QED BY <1>0, <1>1, <2>6, <2>9, <2>10 DEF BotInv
  <1>3. CASE UnregisterBot
    <2>1. bot' = NoBot /\ UNCHANGED <<given, forwarder, stream>>
      BY <1>3 DEF UnregisterBot
    <2>2. BotTypeOK' /\ FeedInv'
      BY <1>0, <2>1 DEF BotInv, BotTypeOK, FeedInv
    <2>3. BotStreamInv'
      <3>1. bot'.token = 0
        BY <2>1 DEF NoBot
      <3>2. ASSUME NEW s \in Streams PROVE StreamGood(stream[s])'
        <4>1. StreamGood(stream[s])
          BY DEF BotInv, BotStreamInv
        <4> QED BY <1>0, <2>1, <3>1, <4>1 DEF StreamGood
      <3> QED BY <3>2 DEF BotStreamInv
    <2> QED BY <1>0, <1>1, <2>2, <2>3 DEF BotInv
  <1> QED BY <1>2, <1>3

\* A forwarder's step: only the forwarder of the bot's registration sends.
LEMMA ForwarderInv ==
  ASSUME BotInv, NEW t \in Tokens,
         ForwarderSubscribes(t) \/ ForwarderLags(t) \/ ForwardEvent(t)
  PROVE  BotInv'
  <1>0. UNCHANGED <<log, bot, given, routed, stream>>
    BY DEF ForwarderSubscribes, ForwarderLags, PassOverTo, ForwardEvent, ForwardOrEnd
  <1>1. /\ Len(log) \in Nat /\ given \in Nat
        /\ \A i \in DOMAIN channel[t] :
              channel[t][i] \in Messages /\ channel[t][i].event \in 1 .. Len(log)
        /\ \A u \in Tokens \ {t} : forwarder'[u] = forwarder[u]
        /\ forwarder[t] # NoForwarder
    <2>1. Len(log) \in Nat /\ given \in Nat
      BY BotTypes
    <2>2. \A i \in DOMAIN channel[t] : channel[t][i] \in Messages
      BY BotTypes
    <2>3. \A i \in DOMAIN channel[t] : channel[t][i].event \in 1 .. Len(log)
      BY <2>2 DEF Messages
    <2>4. forwarder[t].state # "none" /\ forwarder[t] # NoForwarder
      BY DEF ForwarderSubscribes, ForwarderLags, PassOverTo, ForwardEvent, ForwardOrEnd,
             NoForwarder
    <2>5. \E f : forwarder' = [forwarder EXCEPT ![t] = f]
      BY DEF ForwarderSubscribes, ForwarderLags, PassOverTo, ForwardEvent, ForwardOrEnd
    <2>6. \A u \in Tokens \ {t} : forwarder'[u] = forwarder[u]
      BY <2>5 DEF BotInv, BotTypeOK
    <2> QED BY <2>1, <2>2, <2>3, <2>4, <2>6
  <1>2. t <= given
    BY <1>1 DEF BotInv, FeedInv, Tokens
  \* The forwarder moves on, or ends, and sends nothing.
  <1>3. ASSUME channel' = channel, NEW f, forwarder' = [forwarder EXCEPT ![t] = f],
               f = NoForwarder \/ f \in Running,
               forwarder[t].state = "running" /\ f # NoForwarder =>
                   forwarder[t].read <= f.read
        PROVE  BotInv'
    <2>1. BotTypeOK'
      BY <1>0, <1>3 DEF BotInv, BotTypeOK, Running
    <2>2. ChannelOrder' /\ BotStreamInv'
      BY <1>0, <1>3 DEF BotInv, ChannelOrder, BotStreamInv, StreamGood
    <2>3. forwarder'[t] = f /\ f.state # "spawned"
      BY <1>3 DEF BotInv, BotTypeOK, NoForwarder, Running
    <2>4. ASSUME NEW u \in Tokens, NEW i \in DOMAIN channel[u]
          PROVE  /\ channel[u][i].via = "forwarder" =>
                      /\ forwarder'[u].state # "spawned"
                      /\ forwarder'[u].state = "running" =>
                            channel[u][i].event <= forwarder'[u].read
                 /\ channel[u][i].via = "processor" =>
                      /\ channel[u][i].event <= routed
                      /\ log[channel[u][i].event] \in {"pm", "command"}
      <3>1. CASE u # t
        BY <1>1, <3>1 DEF BotInv, FeedInv
      <3>2. CASE u = t
        <4>1. CASE f = NoForwarder
          BY <2>3, <3>2, <4>1 DEF BotInv, FeedInv, NoForwarder
        <4>2. CASE f # NoForwarder /\ channel[t][i].via = "forwarder"
          <5>1. f.read \in Nat
            BY <1>3, <4>2 DEF Running
          <5>2. forwarder[t].state = "running" /\ channel[t][i].event <= forwarder[t].read
            BY <1>1, <3>2, <4>2 DEF BotInv, FeedInv, BotTypeOK
          <5>3. forwarder[t].read \in Nat /\ channel[t][i].event \in Nat
            BY <1>1, <3>2, <5>2, BotTypes
          <5> QED BY <1>3, <2>3, <3>2, <4>2, <5>1, <5>2, <5>3
        <4>3. CASE channel[t][i].via # "forwarder"
          BY <3>2, <4>3 DEF BotInv, FeedInv
        <4> QED BY <4>1, <4>2, <4>3
      <3> QED BY <3>1, <3>2
    <2>5. \A u \in Tokens : u > given => u # t
      BY <1>1, <1>2 DEF Tokens
    <2>6. FeedInv'
      BY <1>0, <1>1, <1>3, <2>4, <2>5 DEF BotInv, FeedInv
    <2> QED BY <1>0, <2>1, <2>2, <2>6 DEF BotInv
  <1>4. CASE ForwarderSubscribes(t)
    <2> DEFINE f == [state |-> "running", start |-> Len(log), read |-> Len(log),
                     over |-> {}]
    <2>1. forwarder[t].state = "spawned" /\ channel' = channel
          /\ forwarder' = [forwarder EXCEPT ![t] = f]
      BY <1>4 DEF ForwarderSubscribes
    <2>2. f \in Running
      BY <1>1 DEF Running
    <2> QED BY <1>3, <2>1, <2>2
  <1>5. CASE ForwarderLags(t)
    <2> DEFINE place == Oldest(log, Capacity)
               f == [forwarder[t] EXCEPT !.read = place,
                                         !.over = @ \cup (forwarder[t].read + 1 .. place)]
    <2>1. forwarder[t].state = "running" /\ channel' = channel
          /\ Len(log) - forwarder[t].read > Capacity
      BY <1>5 DEF ForwarderLags, PassOverTo, Lags
    <2>2. forwarder[t] \in Running /\ forwarder[t].read \in 0 .. Len(log)
      BY <2>1, BotTypes
    <2>5. forwarder' = [forwarder EXCEPT ![t] = f]
      <3>1. forwarder' = [forwarder EXCEPT
                             ![t].read = place,
                             ![t].over = @ \cup (forwarder[t].read + 1 .. place)]
        BY <1>5 DEF ForwarderLags, PassOverTo
      <3> QED BY <2>2, <3>1 DEF Running, BotInv, BotTypeOK
    <2>3. place \in 0 .. Len(log) /\ forwarder[t].read <= place
      BY <1>1, <2>1, <2>2, BusAssumption DEF Oldest
    <2>4. f \in Running /\ f.read = place
      <3>1. forwarder[t].read + 1 .. place \subseteq 1 .. Len(log)
        BY <1>1, <2>2, <2>3
      <3> QED BY <2>2, <2>3, <3>1 DEF Running
    <2> HIDE DEF f
    <2> QED BY <1>3, <2>1, <2>3, <2>4, <2>5
  <1>6. CASE ForwardEvent(t)
    <2> DEFINE next == forwarder[t].read + 1
               f    == [forwarder[t] EXCEPT !.read = next]
               m    == Sent("forwarder", next)
    <2>1. /\ forwarder[t].state = "running" /\ forwarder[t].read < Len(log)
          /\ \/ /\ bot.token = t
                /\ forwarder' = [forwarder EXCEPT ![t] = f]
                /\ channel' = IF Tag(log[next]) \in bot.events
                              THEN [channel EXCEPT ![t] = Append(@, m)] ELSE channel
             \/ /\ forwarder' = [forwarder EXCEPT ![t] = NoForwarder]
                /\ channel' = channel
      BY <1>6 DEF ForwardEvent, ForwardOrEnd, Pending
    <2>2. forwarder[t] \in Running /\ forwarder[t].read \in 0 .. Len(log)
      BY <2>1, BotTypes
    <2>3. next \in 1 .. Len(log) /\ forwarder[t].read \in Nat /\ forwarder[t].read < next
      BY <1>1, <2>1, <2>2
    <2>4. f \in Running /\ f.read = next
      BY <2>2, <2>3 DEF Running
    <2>5. m \in Messages /\ m.via = "forwarder" /\ m.event = next
      BY <2>3 DEF Sent, Messages
    <2>6. CASE /\ forwarder' = [forwarder EXCEPT ![t] = f]
               /\ channel' = [channel EXCEPT ![t] = Append(@, m)]
      <3>1. ASSUME NEW i \in DOMAIN channel[t]
            PROVE  \/ /\ channel[t][i].via = m.via
                      /\ channel[t][i].event < m.event
                   \/ /\ channel[t][i].via # m.via
                      /\ channel[t][i].event = m.event => log[m.event] \in {"pm", "command"}
        <4>1. channel[t][i].via \in {"forwarder", "processor"} /\ channel[t][i].event \in Nat
          BY <1>1 DEF Messages
        <4>2. CASE channel[t][i].via = "forwarder"
          <5>1. channel[t][i].event <= forwarder[t].read
            BY <2>1, <4>2 DEF BotInv, FeedInv
          <5> QED BY <2>3, <2>5, <4>1, <4>2, <5>1
        <4>3. CASE channel[t][i].via = "processor"
          BY <2>5, <4>3 DEF BotInv, FeedInv
        <4> QED BY <4>1, <4>2, <4>3
      <3> HIDE DEF m, f, next
      <3>2. /\ channel' \in [Tokens -> Seq(Messages)]
            /\ ChannelOrder'
            /\ BotStreamInv'
            /\ \A u \in Tokens \ {t} : channel'[u] = channel[u]
            /\ channel'[t] = Append(channel[t], m)
        BY <1>0, <2>5, <2>6, <3>1, Feed
      <3>3. BotTypeOK'
        BY <1>0, <2>4, <2>6, <3>2 DEF BotInv, BotTypeOK, Messages, Running
      <3>4. /\ channel[t] \in Seq(Messages) /\ Len(channel[t]) \in Nat
            /\ DOMAIN channel[t] = 1 .. Len(channel[t])
        BY BotTypes
      <3>5. /\ DOMAIN channel'[t] = 1 .. Len(channel[t]) + 1
            /\ \A i \in 1 .. Len(channel[t]) : channel'[t][i] = channel[t][i]
            /\ channel'[t][Len(channel[t]) + 1] = m
        BY <2>5, <3>2, <3>4
      <3>6. forwarder'[t] = f /\ f.state = "running"
        BY <2>4, <2>6 DEF BotInv, BotTypeOK, Running
      <3>7. ASSUME NEW u \in Tokens, NEW i \in DOMAIN channel'[u]
            PROVE  /\ channel'[u][i].via = "forwarder" =>
                        /\ forwarder'[u].state # "spawned"
                        /\ forwarder'[u].state = "running" =>
                              channel'[u][i].event <= forwarder'[u].read
                   /\ channel'[u][i].via = "processor" =>
                        /\ channel'[u][i].event <= routed
                        /\ log[channel'[u][i].event] \in {"pm", "command"}
        <4>1. CASE u # t
          <5>1. channel'[u] = channel[u] /\ forwarder'[u] = forwarder[u]
            BY <1>1, <3>2, <4>1
          <5> QED BY <3>7, <5>1 DEF BotInv, FeedInv
        <4>2. CASE u = t /\ i \in 1 .. Len(channel[t])
          <5>1. channel'[u][i] = channel[t][i] /\ i \in DOMAIN channel[t]
            BY <3>4, <3>5, <4>2
          <5>2. channel[t][i].event \in Nat
            BY <1>1, <5>1
          <5>3. channel[t][i].via = "forwarder" => channel[t][i].event <= forwarder[t].read
            BY <2>1, <5>1 DEF BotInv, FeedInv
          <5>4. channel[t][i].via = "forwarder" => channel[t][i].event <= f.read
            BY <2>3, <2>4, <5>2, <5>3
          <5>5. channel[t][i].via = "processor" =>
                   /\ channel[t][i].event <= routed
                   /\ log[channel[t][i].event] \in {"pm", "command"}
            BY <5>1 DEF BotInv, FeedInv
          <5> QED BY <3>6, <4>2, <5>1, <5>4, <5>5
        <4>3. CASE u = t /\ i \notin 1 .. Len(channel[t])
          <5>1. channel'[u][i] = m
            BY <3>5, <3>7, <4>3
          <5>2. m.via = "forwarder" /\ m.event = next /\ f.read = next /\ next \in Nat
            BY <2>3, <2>4, <2>5
          <5> QED BY <3>6, <4>3, <5>1, <5>2
        <4> QED BY <4>1, <4>2, <4>3
      <3>8. \A u \in Tokens : u > given => u # t
        BY <1>1, <1>2 DEF Tokens
      <3>9. FeedInv'
        BY <1>0, <1>1, <3>2, <3>7, <3>8 DEF BotInv, FeedInv
      <3> QED BY <1>0, <3>2, <3>3, <3>9 DEF BotInv
    <2>7. CASE forwarder' = [forwarder EXCEPT ![t] = f] /\ channel' = channel
      <3>1. f \in Running /\ forwarder[t].read <= f.read
        BY <2>3, <2>4
      <3> HIDE DEF f, next
      <3>2. forwarder' = [forwarder EXCEPT ![t] = f] /\ channel' = channel
        BY <2>7
      <3> QED BY <1>3, <3>1, <3>2
    <2>8. CASE forwarder' = [forwarder EXCEPT ![t] = NoForwarder] /\ channel' = channel
      BY <1>3, <2>8
    <2> QED BY <2>1, <2>6, <2>7, <2>8
  <1> QED BY <1>4, <1>5, <1>6

\* The command processor lags, or routes an event to the bot or past it.
LEMMA ProcessorInv ==
  ASSUME BotInv, ProcessorLags \/ Route
  PROVE  BotInv'
  <1>0. UNCHANGED <<log, bot, given, forwarder, stream>>
    BY DEF ProcessorLags, Route
  <1>1. Len(log) \in Nat /\ routed \in Nat
    BY BotTypes
  \* The processor moves on and sends nothing.
  <1>2. ASSUME channel' = channel, routed' \in 0 .. Len(log), routed <= routed'
        PROVE  BotInv'
    <2>1. BotTypeOK' /\ ChannelOrder' /\ BotStreamInv'
      <3>1. BotTypeOK'
        BY <1>0, <1>2 DEF BotInv, BotTypeOK
      <3>2. ChannelOrder'
        BY <1>0, <1>2 DEF BotInv, ChannelOrder
      <3>3. BotStreamInv'
        BY <1>0, <1>2 DEF BotInv, BotStreamInv, StreamGood
      <3> QED BY <3>1, <3>2, <3>3
    <2>2. ASSUME NEW t \in Tokens, NEW i \in DOMAIN channel[t], channel[t][i].via = "processor"
          PROVE  channel[t][i].event <= routed' /\ log[channel[t][i].event] \in {"pm", "command"}
      <3>1. /\ channel[t][i].event <= routed
            /\ log[channel[t][i].event] \in {"pm", "command"}
        BY <2>2 DEF BotInv, FeedInv
      <3>2. channel[t][i].event \in Nat
        BY BotTypes DEF Messages
      <3> QED BY <1>1, <1>2, <3>1, <3>2
    <2>3. FeedInv'
      BY <1>0, <1>2, <2>2 DEF BotInv, FeedInv
    <2> QED BY <1>0, <2>1, <2>3 DEF BotInv
  <1>3. CASE ProcessorLags
    <2>1. channel' = channel /\ routed' = Len(log) - Capacity /\ Len(log) - routed > Capacity
      BY <1>3 DEF ProcessorLags, Lags, Oldest
    <2> QED BY <1>1, <1>2, <2>1, BusAssumption
  <1>4. CASE Route
    <2> DEFINE next == routed + 1
               t    == bot.token
               m    == Sent("processor", next)
    <2>1. /\ routed < Len(log) /\ routed' = next
          /\ \/ /\ log[next] \in {"pm", "command"} \cap bot.events
                /\ channel' = [channel EXCEPT ![t] = Append(@, m)]
             \/ channel' = channel
      BY <1>4 DEF Route, Pending
    <2>2. next \in 1 .. Len(log) /\ routed' \in 0 .. Len(log) /\ routed <= routed'
      BY <1>1, <2>1
    <2>3. CASE channel' = channel
      BY <1>2, <2>2, <2>3
    <2>4. CASE /\ log[next] \in {"pm", "command"} \cap bot.events
               /\ channel' = [channel EXCEPT ![t] = Append(@, m)]
      <3>1. t \in Tokens
        <4>1. bot # NoBot
          BY <2>4 DEF NoBot
        <4>2. bot \in [token : 1 .. given, events : Subscriptions]
          BY <4>1 DEF BotInv, BotTypeOK
        <4> QED BY <4>2, BotTypes
      <3>2. m \in Messages /\ m.via = "processor" /\ m.event = next
        BY <2>2 DEF Sent, Messages
      <3>3. \A i \in DOMAIN channel[t] :
               channel[t][i].event \in Nat /\ channel[t][i].via \in {"forwarder", "processor"}
        BY <3>1, BotTypes DEF Messages
      <3>4. ASSUME NEW i \in DOMAIN channel[t]
            PROVE  \/ /\ channel[t][i].via = m.via
                      /\ channel[t][i].event < m.event
                   \/ /\ channel[t][i].via # m.via
                      /\ channel[t][i].event = m.event => log[m.event] \in {"pm", "command"}
        <4>1. CASE channel[t][i].via = "processor"
          <5>1. channel[t][i].event <= routed
            BY <3>1, <4>1 DEF BotInv, FeedInv
          <5> QED BY <1>1, <3>2, <3>3, <4>1, <5>1
        <4>2. CASE channel[t][i].via # "processor"
          BY <2>4, <3>2, <4>2
        <4> QED BY <4>1, <4>2
      <3>5. channel' = [channel EXCEPT ![t] = Append(@, m)]
        BY <2>4
      <3>6. log[next] \in {"pm", "command"}
        BY <2>4
      <3> HIDE DEF m, t, next
      <3>7. /\ channel' \in [Tokens -> Seq(Messages)]
            /\ ChannelOrder'
            /\ BotStreamInv'
            /\ \A u \in Tokens \ {t} : channel'[u] = channel[u]
            /\ channel'[t] = Append(channel[t], m)
        BY <1>0, <3>1, <3>2, <3>4, <3>5, Feed
      <3>8. BotTypeOK'
        BY <1>0, <2>2, <3>7 DEF BotInv, BotTypeOK, Messages
      <3>9. /\ channel[t] \in Seq(Messages) /\ Len(channel[t]) \in Nat
            /\ DOMAIN channel[t] = 1 .. Len(channel[t])
        BY <3>1, BotTypes
      <3>10. /\ DOMAIN channel'[t] = 1 .. Len(channel[t]) + 1
             /\ \A i \in 1 .. Len(channel[t]) : channel'[t][i] = channel[t][i]
             /\ channel'[t][Len(channel[t]) + 1] = m
        BY <3>2, <3>7, <3>9
      <3>11. ASSUME NEW u \in Tokens, NEW i \in DOMAIN channel[u]
             PROVE  /\ channel[u][i].via = "forwarder" =>
                         /\ forwarder[u].state # "spawned"
                         /\ forwarder[u].state = "running" =>
                               channel[u][i].event <= forwarder[u].read
                    /\ channel[u][i].via = "processor" =>
                         /\ channel[u][i].event <= routed'
                         /\ log[channel[u][i].event] \in {"pm", "command"}
        <4>1. channel[u][i].event \in Nat
          BY BotTypes DEF Messages
        <4>2. channel[u][i].via = "processor" => channel[u][i].event <= routed
          BY DEF BotInv, FeedInv
        <4>3. channel[u][i].via = "processor" => channel[u][i].event <= routed'
          BY <1>1, <2>2, <4>1, <4>2
        <4> QED BY <4>3 DEF BotInv, FeedInv
      <3>12. ASSUME NEW u \in Tokens, NEW i \in DOMAIN channel'[u]
             PROVE  /\ channel'[u][i].via = "forwarder" =>
                         /\ forwarder[u].state # "spawned"
                         /\ forwarder[u].state = "running" =>
                               channel'[u][i].event <= forwarder[u].read
                    /\ channel'[u][i].via = "processor" =>
                         /\ channel'[u][i].event <= routed'
                         /\ log[channel'[u][i].event] \in {"pm", "command"}
        <4>1. CASE u # t
          <5>1. channel'[u] = channel[u]
            BY <3>7, <4>1
          <5> QED BY <3>11, <3>12, <5>1
        <4>2. CASE u = t /\ i \in 1 .. Len(channel[t])
          <5>1. channel'[u][i] = channel[u][i] /\ i \in DOMAIN channel[u]
            BY <3>9, <3>10, <4>2
          <5> QED BY <3>11, <5>1
        <4>3. CASE u = t /\ i \notin 1 .. Len(channel[t])
          <5>1. channel'[u][i] = m
            BY <3>10, <3>12, <4>3
          <5>2. m.via # "forwarder" /\ m.event = next /\ next \in Nat /\ routed' = next
            BY <2>1, <2>2, <3>2
          <5> QED BY <3>6, <5>1, <5>2
        <4> QED BY <4>1, <4>2, <4>3
      <3>13. t <= given
        BY BotTypes DEF t
      <3>14. \A u \in Tokens : u > given => u # t
        BY <3>13, BotTypes DEF Tokens
      <3>15. FeedInv'
        BY <1>0, <3>7, <3>12, <3>14 DEF BotInv, FeedInv
      <3> QED BY <1>0, <3>7, <3>8, <3>15 DEF BotInv
    <2> QED BY <2>1, <2>3, <2>4
  <1> QED BY <1>3, <1>4

\* One stream moves: the invariant holds if the new state fits.
LEMMA StreamMoveInv ==
  ASSUME BotInv, NEW s \in Streams, NEW v, IsStream(v), StreamGood(v),
         stream' = [stream EXCEPT ![s] = v],
         UNCHANGED <<log, bot, given, forwarder, routed, channel>>
  PROVE  BotInv'
  <1>1. stream' \in [Streams -> {NoStream}
                      \cup [state : {"validated"}, token : Tokens, raced : BOOLEAN]
                      \cup [state : {"open"}, token : Tokens, raced : BOOLEAN, of : Tokens,
                            start : Nat, read : Nat, out : Seq(Items)]]
    BY DEF BotInv, BotTypeOK, IsStream, OpenStreams
  <1>2. BotTypeOK'
    BY <1>1 DEF BotInv, BotTypeOK
  <1>3. FeedInv' /\ ChannelOrder'
    BY DEF BotInv, FeedInv, ChannelOrder
  <1>4. ASSUME NEW r \in Streams
        PROVE  StreamGood(stream'[r])
    <2>1. CASE r = s
      <3>1. stream'[r] = v
        BY <2>1 DEF BotInv, BotTypeOK
      <3> QED BY <3>1
    <2>2. CASE r # s
      <3>1. stream'[r] = stream[r]
        BY <2>2 DEF BotInv, BotTypeOK
      <3>2. StreamGood(stream[r])
        BY DEF BotInv, BotStreamInv
      <3> QED BY <3>1, <3>2
    <2> QED BY <2>1, <2>2
  <1>5. BotStreamInv'
    BY <1>4 DEF BotStreamInv, StreamGood
  <1> QED BY <1>2, <1>3, <1>5 DEF BotInv

\* A stream being opened, its events and its notices, and its end.
LEMMA StreamInv ==
  ASSUME BotInv, NEW s \in Streams,
         ValidateToken(s) \/ OpenStream(s) \/ StreamStep(s) \/ BotDisconnects(s)
  PROVE  BotInv'
  <1>0. UNCHANGED <<log, bot, given, forwarder, routed, channel>>
    BY DEF ValidateToken, OpenStream, StreamStep, StreamLags, Yield, EndStream, BotDisconnects
  <1>1. IsStream(NoStream) /\ StreamGood(NoStream)
    BY DEF IsStream, StreamGood, NoStream
  <1>2. CASE stream' = [stream EXCEPT ![s] = NoStream]
    BY <1>0, <1>1, <1>2, StreamMoveInv
  <1>3. CASE ValidateToken(s)
    <2> DEFINE v == [state |-> "validated", token |-> bot.token, raced |-> FALSE]
    <2>1. stream' = [stream EXCEPT ![s] = v] /\ bot.token \in Tokens /\ bot.token <= given
      BY <1>3, BotTypes DEF ValidateToken
    <2>2. IsStream(v)
      BY <2>1 DEF IsStream
    <2>3. v.state = "validated" /\ v.token = bot.token /\ v.token <= given
      BY <2>1
    <2> HIDE DEF v
    <2>4. StreamGood(v)
      BY <2>3 DEF StreamGood
    <2> QED BY <1>0, <2>1, <2>2, <2>4, StreamMoveInv
  <1>4. CASE OpenStream(s) /\ bot.token # 0
    <2> DEFINE events == channel[bot.token]
               v == [state |-> "open", token |-> stream[s].token,
                     raced |-> stream[s].raced, of |-> bot.token,
                     start |-> Len(events), read |-> Len(events), out |-> <<>>]
    <2>1. stream[s].state = "validated" /\ stream' = [stream EXCEPT ![s] = v]
      BY <1>4 DEF OpenStream
    <2>2. stream[s] \in [state : {"validated"}, token : Tokens, raced : BOOLEAN]
      BY <2>1 DEF BotInv, BotTypeOK, NoStream
    <2>3. /\ bot.token \in Tokens /\ Len(events) \in Nat
          /\ \A k \in DOMAIN events : k \in Nat
      BY <1>4, BotTypes
    <2>4. bot.token = stream[s].token \/ (stream[s].raced /\ stream[s].token < bot.token)
      BY <1>4, <2>1 DEF BotInv, BotStreamInv, StreamGood
    <2>5. Accounts(<<>>, Len(events), Len(events), DOMAIN events)
      BY <2>3, AccountsStart
    <2>6. /\ v.state = "open" /\ v.token = stream[s].token /\ v.of = bot.token
          /\ v.raced = stream[s].raced
          /\ v.start = Len(events) /\ v.read = Len(events) /\ v.out = <<>>
      OBVIOUS
    <2>7. <<>> \in Seq(Items)
      OBVIOUS
    <2>8. IsStream(v)
      BY <2>2, <2>3, <2>7 DEF IsStream, OpenStreams
    <2> HIDE DEF v
    <2>9. StreamGood(v)
      BY <2>3, <2>4, <2>5, <2>6 DEF StreamGood
    <2> QED BY <1>0, <2>1, <2>8, <2>9, StreamMoveInv
  \* The stream reads one event, or passes over those that it missed.
  <1>5. ASSUME stream[s].state = "open", NEW item \in Items,
               item.from = stream[s].read + 1, item.from <= item.to,
               item.to <= Len(channel[stream[s].of]),
               item.missed \/ item.from = item.to,
               stream' = [stream EXCEPT ![s].read = item.to, ![s].out = Append(@, item)]
        PROVE  BotInv'
    <2> DEFINE old    == stream[s]
               events == channel[old.of]
               v      == [old EXCEPT !.read = item.to, !.out = Append(@, item)]
    <2>1. /\ old \in OpenStreams
          /\ old.of \in Tokens /\ old.start \in Nat /\ old.read \in Nat /\ old.out \in Seq(Items)
      BY <1>5, OpenTypes
    <2>2. /\ old.start <= old.read /\ old.read <= Len(events)
          /\ Accounts(old.out, old.start, old.read, DOMAIN events)
          /\ old.of = old.token \/ (old.raced /\ old.token < old.of)
      BY <1>5 DEF BotInv, BotStreamInv, StreamGood
    <2>3. /\ DOMAIN events = 1 .. Len(events) /\ Len(events) \in Nat
          /\ \A k \in DOMAIN events : k \in Nat
      BY <2>1, BotTypes
    <2>4. item.to \in Nat /\ item.from \in Nat /\ item.from \in DOMAIN events
      BY <1>5, <2>1, <2>3 DEF Items
    <2>5. Accounts(Append(old.out, item), old.start, item.to, DOMAIN events)
      <3> HIDE DEF old, events
      <3>1. item.from = old.read + 1
        BY <1>5 DEF old
      <3> QED BY <1>5, <2>1, <2>2, <2>3, <2>4, <3>1, AccountsAdd
    <2>6. stream' = [stream EXCEPT ![s] = v]
      <3>1. stream = [r \in Streams |-> stream[r]]
        BY DEF BotInv, BotTypeOK
      <3> QED BY <1>5, <2>1, <3>1 DEF OpenStreams
    <2>7. /\ v \in OpenStreams
          /\ v.state = "open" /\ v.token = old.token /\ v.of = old.of /\ v.raced = old.raced
          /\ v.start = old.start /\ v.read = item.to /\ v.out = Append(old.out, item)
      <3>1. Append(old.out, item) \in Seq(Items)
        BY <2>1
      <3> QED BY <2>1, <2>4, <3>1 DEF OpenStreams
    <2>8. old.start <= item.to
      BY <1>5, <2>1, <2>2, <2>4
    <2> HIDE DEF v
    <2>9. IsStream(v)
      BY <2>7 DEF IsStream
    <2>10. StreamGood(v)
      BY <1>5, <2>2, <2>5, <2>7, <2>8 DEF StreamGood
    <2> QED BY <1>0, <2>6, <2>9, <2>10, StreamMoveInv
  <1>6. CASE Yield(s)
    <2> DEFINE item == Shown(stream[s].read + 1)
    <2>1. /\ stream[s].state = "open" /\ stream[s].read < Len(channel[stream[s].of])
          /\ stream' = [stream EXCEPT ![s].read = @ + 1, ![s].out = Append(@, item)]
      BY <1>6 DEF Yield, Unread, Pending
    <2>2. stream[s].read \in Nat /\ Len(channel[stream[s].of]) \in Nat
      BY <2>1, OpenTypes, BotTypes
    <2>3. /\ item \in Items /\ item.from = stream[s].read + 1
          /\ item.to = stream[s].read + 1 /\ item.from = item.to
      BY <2>2 DEF Shown, Items
    <2>4. item.from <= item.to /\ item.to <= Len(channel[stream[s].of])
      BY <2>1, <2>2, <2>3
    <2>5. stream' = [stream EXCEPT ![s].read = item.to, ![s].out = Append(@, item)]
      BY <2>1, <2>3
    <2> HIDE DEF item
    <2> QED BY <1>5, <2>1, <2>3, <2>4, <2>5
  <1>7. CASE StreamLags(s)
    <2> DEFINE to   == Oldest(channel[stream[s].of], BotCapacity)
               item == Missed(stream[s].read + 1, to)
    <2>1. /\ stream[s].state = "open"
          /\ Len(channel[stream[s].of]) - stream[s].read > BotCapacity
          /\ stream' = [stream EXCEPT ![s].read = to, ![s].out = Append(@, item)]
      BY <1>7 DEF StreamLags, Lags
    <2>2. stream[s].read \in Nat /\ Len(channel[stream[s].of]) \in Nat
      BY <2>1, OpenTypes, BotTypes
    <2>3. to \in Nat \ {0} /\ to <= Len(channel[stream[s].of]) /\ stream[s].read + 1 <= to
      <3>1. BotCapacity \in Nat \ {0} /\ to = Len(channel[stream[s].of]) - BotCapacity
        BY BotStreamsAssumption DEF Oldest
      <3> DEFINE n == Len(channel[stream[s].of])
                 r == stream[s].read
      <3>2. n \in Nat /\ r \in Nat /\ n - r > BotCapacity /\ to = n - BotCapacity
        BY <2>1, <2>2, <3>1
      <3>3. to \in Nat \ {0} /\ to <= n /\ r + 1 <= to
        <4> HIDE DEF to, n, r
        <4> QED BY <3>1, <3>2
      <3> QED BY <3>3
    <2>4. /\ item \in Items /\ item.from = stream[s].read + 1
          /\ item.to = to /\ item.missed
      BY <2>2, <2>3 DEF Missed, Items
    <2> HIDE DEF item, to
    <2> QED BY <1>5, <2>1, <2>3, <2>4
  <1>8. OpenStream(s) /\ bot.token = 0 => stream' = [stream EXCEPT ![s] = NoStream]
    BY DEF OpenStream
  <1>9. EndStream(s) \/ BotDisconnects(s) => stream' = [stream EXCEPT ![s] = NoStream]
    BY DEF EndStream, BotDisconnects
  <1> QED BY <1>2, <1>3, <1>4, <1>6, <1>7, <1>8, <1>9 DEF StreamStep

\* Any step of the bots' channels and streams.
LEMMA BotStepInv ==
  ASSUME BotInv, BotNext
  PROVE  BotInv'
  BY RegistrationInv, ForwarderInv, ProcessorInv, StreamInv DEF BotNext, Tokens

\* Publishing changes no event that was sent into a channel.
LEMMA BotPublishInv ==
  ASSUME BotInv, NEW kind \in Kinds, Publish(kind), UNCHANGED botVars
  PROVE  BotInv'
  <1>0. UNCHANGED <<bot, given, forwarder, routed, channel, stream>>
    BY DEF botVars
  <1>1. log \in Seq(Kinds) /\ Len(log) \in Nat /\ routed \in 0 .. Len(log)
    BY BotTypes DEF BotInv
  <1>2. /\ log' \in Seq(Kinds) /\ Len(log') = Len(log) + 1
        /\ \A k \in 1 .. Len(log) : log'[k] = log[k]
    BY <1>1 DEF Publish
  <1>3. BotTypeOK'
    <2>1. ASSUME NEW t \in Tokens
          PROVE  forwarder'[t] \in {NoForwarder, [state |-> "spawned"]} \cup Running'
      <3>1. forwarder[t] \in {NoForwarder, [state |-> "spawned"]} \cup Running
        BY DEF BotInv, BotTypeOK, Running
      <3>2. 0 .. Len(log) \subseteq 0 .. Len(log') /\ 1 .. Len(log) \subseteq 1 .. Len(log')
        BY <1>1, <1>2
      <3> QED BY <1>0, <3>1, <3>2 DEF Running
    <2>2. ASSUME NEW t \in Tokens
          PROVE  channel'[t] \in Seq([via : {"forwarder", "processor"}, event : 1 .. Len(log')])
      <3>1. channel[t] \in Seq([via : {"forwarder", "processor"}, event : 1 .. Len(log)])
        BY DEF BotInv, BotTypeOK
      <3>2. 1 .. Len(log) \subseteq 1 .. Len(log')
        BY <1>1, <1>2
      <3>3. [via : {"forwarder", "processor"}, event : 1 .. Len(log)]
              \subseteq [via : {"forwarder", "processor"}, event : 1 .. Len(log')]
        BY <3>2
      <3> QED BY <1>0, <3>1, <3>3, SeqMonotonic
    <2>3. forwarder' \in [Tokens -> {NoForwarder, [state |-> "spawned"]} \cup Running']
      BY <1>0, <2>1 DEF BotInv, BotTypeOK
    <2>4. channel' \in [Tokens -> Seq([via : {"forwarder", "processor"}, event : 1 .. Len(log')])]
      BY <1>0, <2>2 DEF BotInv, BotTypeOK
    <2>5. routed' \in 0 .. Len(log')
      BY <1>0, <1>1, <1>2
    <2> QED BY <1>0, <2>3, <2>4, <2>5 DEF BotInv, BotTypeOK, Running
  <1>4. ASSUME NEW t \in Tokens, NEW i \in DOMAIN channel[t]
        PROVE  log'[channel[t][i].event] = log[channel[t][i].event]
    BY <1>2, BotTypes DEF Messages
  <1>5. FeedInv' /\ ChannelOrder'
    BY <1>0, <1>4 DEF BotInv, FeedInv, ChannelOrder
  <1>6. BotStreamInv'
    BY <1>0 DEF BotInv, BotStreamInv, StreamGood
  <1> QED BY <1>2, <1>3, <1>5, <1>6 DEF BotInv

\* Nothing else touches the channels and streams.
LEMMA BotRestInv ==
  ASSUME BotInv, UNCHANGED <<log, botVars>>
  PROVE  BotInv'
  <1>1. UNCHANGED <<log, bot, given, forwarder, routed, channel, stream>>
    BY DEF botVars
  <1>2. BotTypeOK'
    BY <1>1 DEF BotInv, BotTypeOK
  <1>4. FeedInv'
    BY <1>1 DEF BotInv, FeedInv
  <1>5. ChannelOrder'
    BY <1>1 DEF BotInv, ChannelOrder
  <1>3. BotStreamInv'
    BY <1>1 DEF BotInv, BotStreamInv, StreamGood
  <1> QED BY <1>1, <1>2, <1>3, <1>4, <1>5 DEF BotInv

\* An event is in the registration's channel, put there by its forwarder.
SentTo(t, k) == \E i \in DOMAIN channel[t] : channel[t][i] = Sent("forwarder", k)

\* A running forwarder has sent what was wanted of what it read, and what it lagged over
\* the ring had lost.
Forwarded(t) ==
    /\ \A k \in forwarder[t].over : k <= forwarder[t].read /\ k + Capacity <= Len(log)
    /\ bot.token = t =>
          \A k \in forwarder[t].start + 1 .. forwarder[t].read :
              (Tag(log[k]) \in bot.events /\ k \notin forwarder[t].over) <=> SentTo(t, k)

ForwardedInv == \A t \in Tokens : forwarder[t].state = "running" => Forwarded(t)

\* At the start no forwarder runs.
LEMMA ForwardedInitInv == Init => ForwardedInv
  BY DEF Init, BotInit, ForwardedInv, NoForwarder, Tokens

\* A running forwarder's place and history, and its channel so far.
LEMMA ForwardedTypes ==
  ASSUME BotInv, ForwardedInv, NEW t \in Tokens, forwarder[t].state = "running"
  PROVE  /\ Len(log) \in Nat /\ Capacity \in Nat \ {0}
         /\ forwarder[t].start \in 0 .. Len(log) /\ forwarder[t].read \in 0 .. Len(log)
         /\ forwarder[t].over \subseteq 1 .. Len(log)
         /\ Forwarded(t)
         /\ t <= given
         /\ \A k \in Nat : SentTo(t, k) => k <= forwarder[t].read
  <1>1. forwarder[t] \in Running /\ Len(log) \in Nat /\ given \in Nat
    BY BotTypes
  <1>2. t <= given
    BY <1>1 DEF BotInv, FeedInv, NoForwarder, Tokens
  <1>3. ASSUME NEW k \in Nat, SentTo(t, k) PROVE k <= forwarder[t].read
    <2>1. PICK i \in DOMAIN channel[t] : channel[t][i] = Sent("forwarder", k)
      BY <1>3 DEF SentTo
    <2>2. channel[t][i].via = "forwarder" /\ channel[t][i].event = k
      BY <2>1 DEF Sent
    <2> QED BY <2>2 DEF BotInv, FeedInv
  <1> QED BY <1>1, <1>2, <1>3, BusAssumption DEF ForwardedInv, Running

\* A message more in a channel.
LEMMA SentMore ==
  ASSUME BotInv, NEW t \in Tokens, NEW m, channel'[t] = Append(channel[t], m), NEW k
  PROVE  SentTo(t, k)' <=> SentTo(t, k) \/ m = Sent("forwarder", k)
  <1>1. channel[t] \in Seq(Messages) /\ DOMAIN channel[t] = 1 .. Len(channel[t])
        /\ Len(channel[t]) \in Nat
    BY BotTypes
  <1>2. /\ DOMAIN channel'[t] = 1 .. Len(channel[t]) + 1
        /\ \A i \in 1 .. Len(channel[t]) : channel'[t][i] = channel[t][i]
        /\ channel'[t][Len(channel[t]) + 1] = m
    BY <1>1
  <1>3. SentTo(t, k) => SentTo(t, k)'
    BY <1>1, <1>2 DEF SentTo
  <1>4. m = Sent("forwarder", k) => SentTo(t, k)'
    BY <1>1, <1>2 DEF SentTo
  <1>5. ASSUME SentTo(t, k)', m # Sent("forwarder", k) PROVE SentTo(t, k)
    <2>1. PICK i \in DOMAIN channel'[t] : channel'[t][i] = Sent("forwarder", k)
      BY <1>5 DEF SentTo
    <2>2. i \in 1 .. Len(channel[t])
      BY <1>1, <1>2, <1>5, <2>1
    <2> QED BY <1>1, <1>2, <2>1, <2>2 DEF SentTo
  <1> QED BY <1>3, <1>4, <1>5

\* A forwarder that does not move has still sent what it should have, unless its channel
\* was touched by another forwarder.
LEMMA ForwardedKeeps ==
  ASSUME BotInv, ForwardedInv, NEW t \in Tokens, forwarder[t].state = "running",
         forwarder'[t] = forwarder[t], bot' = bot \/ bot'.token # t,
         Len(log') \in Nat, Len(log) <= Len(log'),
         \A k \in 1 .. Len(log) : log'[k] = log[k],
         \A k \in 1 .. Len(log) : SentTo(t, k)' <=> SentTo(t, k)
  PROVE  Forwarded(t)'
  <1>1. /\ Len(log) \in Nat /\ Capacity \in Nat \ {0}
        /\ forwarder[t].start \in 0 .. Len(log) /\ forwarder[t].read \in 0 .. Len(log)
        /\ forwarder[t].over \subseteq 1 .. Len(log) /\ Forwarded(t)
    BY ForwardedTypes
  <1>2. \A k \in forwarder[t].over : k <= forwarder[t].read /\ k + Capacity <= Len(log')
    BY <1>1 DEF Forwarded
  <1>3. ASSUME bot'.token = t, NEW k \in forwarder[t].start + 1 .. forwarder[t].read
        PROVE  (Tag(log'[k]) \in bot'.events /\ k \notin forwarder[t].over) <=> SentTo(t, k)'
    <2>1. k \in 1 .. Len(log) /\ bot' = bot
      BY <1>1, <1>3
    <2>2. log'[k] = log[k] /\ (SentTo(t, k)' <=> SentTo(t, k))
      BY <2>1
    <2>3. (Tag(log[k]) \in bot.events /\ k \notin forwarder[t].over) <=> SentTo(t, k)
      BY <1>1, <1>3, <2>1 DEF Forwarded
    <2> QED BY <2>1, <2>2, <2>3 DEF Tag
  <1> QED BY <1>2, <1>3 DEF Forwarded

\* A forwarder starts, lags, or takes the next event.
LEMMA ForwardingInv ==
  ASSUME BotInv, ForwardedInv, NEW t \in Tokens,
         ForwarderSubscribes(t) \/ ForwarderLags(t) \/ ForwardEvent(t)
  PROVE  ForwardedInv'
  <1>0. UNCHANGED <<log, bot>> /\ Len(log) \in Nat
    BY BotTypes DEF ForwarderSubscribes, ForwarderLags, PassOverTo, ForwardEvent, ForwardOrEnd
  <1>1. /\ \A u \in Tokens \ {t} : forwarder'[u] = forwarder[u] /\ channel'[u] = channel[u]
    <2>1. \E f : forwarder' = [forwarder EXCEPT ![t] = f]
      BY DEF ForwarderSubscribes, ForwarderLags, PassOverTo, ForwardEvent, ForwardOrEnd
    <2>2. channel' = channel \/ \E e : channel' = [channel EXCEPT ![t] = e]
      BY DEF ForwarderSubscribes, ForwarderLags, PassOverTo, ForwardEvent, ForwardOrEnd
    <2> QED BY <2>1, <2>2 DEF BotInv, BotTypeOK
  <1>2. ASSUME NEW u \in Tokens \ {t}, forwarder'[u].state = "running"
        PROVE  Forwarded(u)'
    <2>1. \A k : SentTo(u, k)' <=> SentTo(u, k)
      BY <1>1 DEF SentTo
    <2> QED BY <1>0, <1>1, <1>2, <2>1, ForwardedKeeps
  <1>3. ASSUME forwarder'[t].state = "running" PROVE Forwarded(t)'
    <2>1. CASE ForwarderSubscribes(t)
      <3>1. forwarder'[t] = [state |-> "running", start |-> Len(log), read |-> Len(log),
                             over |-> {}]
        BY <2>1 DEF ForwarderSubscribes, BotInv, BotTypeOK
      <3>2. /\ forwarder'[t].start = Len(log) /\ forwarder'[t].read = Len(log)
            /\ forwarder'[t].over = {}
        BY <3>1
      <3>3. Len(log) + 1 .. Len(log) = {}
        BY <1>0
      <3> QED BY <3>2, <3>3 DEF Forwarded
    <2>2. CASE ForwarderLags(t)
      <3> DEFINE place == Oldest(log, Capacity)
      <3>1. /\ forwarder[t].state = "running" /\ channel' = channel
            /\ Len(log) - forwarder[t].read > Capacity
            /\ forwarder' = [forwarder EXCEPT
                               ![t].read = place,
                               ![t].over = @ \cup (forwarder[t].read + 1 .. place)]
        BY <2>2 DEF ForwarderLags, PassOverTo, Lags
      <3>2. /\ Capacity \in Nat \ {0} /\ forwarder[t] \in Running
            /\ forwarder[t].start \in 0 .. Len(log) /\ forwarder[t].read \in 0 .. Len(log)
            /\ forwarder[t].over \subseteq 1 .. Len(log) /\ Forwarded(t)
            /\ \A k \in Nat : SentTo(t, k) => k <= forwarder[t].read
        BY <3>1, ForwardedTypes, BotTypes
      <3>3. /\ place \in Nat /\ place + Capacity = Len(log) /\ forwarder[t].read < place
        BY <1>0, <3>1, <3>2 DEF Oldest
      <3>4. /\ forwarder'[t].start = forwarder[t].start /\ forwarder'[t].read = place
            /\ forwarder'[t].over = forwarder[t].over \cup (forwarder[t].read + 1 .. place)
        BY <3>1, <3>2 DEF Running, BotInv, BotTypeOK
      <3> HIDE DEF place
      <3>5. ASSUME NEW k \in forwarder'[t].over
            PROVE  k <= forwarder'[t].read /\ k + Capacity <= Len(log)
        BY <1>0, <3>2, <3>3, <3>4, <3>5 DEF Forwarded
      <3>6. ASSUME bot.token = t, NEW k \in forwarder'[t].start + 1 .. forwarder'[t].read
            PROVE  (Tag(log[k]) \in bot.events /\ k \notin forwarder'[t].over) <=> SentTo(t, k)
        <4>1. k \in Nat
          BY <3>2, <3>4
        <4>2. CASE k <= forwarder[t].read
          <5>1. k \in forwarder[t].start + 1 .. forwarder[t].read
            BY <3>2, <3>3, <3>4, <4>1, <4>2
          <5>2. k \in forwarder'[t].over <=> k \in forwarder[t].over
            BY <3>2, <3>4, <4>1, <4>2
          <5> QED BY <3>2, <3>6, <5>1, <5>2 DEF Forwarded
        <4>3. CASE ~(k <= forwarder[t].read)
          <5>1. k \in forwarder'[t].over
            BY <3>2, <3>3, <3>4, <4>1, <4>3
          <5>2. ~SentTo(t, k)
            BY <3>2, <4>1, <4>3
          <5> QED BY <5>1, <5>2
        <4> QED BY <4>2, <4>3
      <3>7. \A k : SentTo(t, k)' <=> SentTo(t, k)
        BY <3>1 DEF SentTo
      <3> QED BY <1>0, <3>5, <3>6, <3>7 DEF Forwarded
    <2>3. CASE ForwardEvent(t)
      <3> DEFINE next == forwarder[t].read + 1
                 m    == Sent("forwarder", next)
      <3>1. forwarder[t].state = "running" /\ forwarder[t].read < Len(log)
        BY <2>3 DEF ForwardEvent, ForwardOrEnd, Pending
      <3>2. /\ forwarder[t] \in Running
            /\ forwarder[t].start \in 0 .. Len(log) /\ forwarder[t].read \in 0 .. Len(log)
            /\ forwarder[t].over \subseteq 1 .. Len(log) /\ Forwarded(t)
            /\ \A k \in Nat : SentTo(t, k) => k <= forwarder[t].read
        BY <3>1, ForwardedTypes, BotTypes
      <3>3. /\ bot.token = t
            /\ forwarder' = [forwarder EXCEPT ![t].read = next]
            /\ channel' = IF Tag(log[next]) \in bot.events
                          THEN [channel EXCEPT ![t] = Append(@, m)] ELSE channel
        <4>1. bot.token = t
          <5>1. ASSUME bot.token # t PROVE FALSE
            <6>1. forwarder'[t] = NoForwarder
              BY <2>3, <5>1 DEF ForwardEvent, ForwardOrEnd, BotInv, BotTypeOK
            <6> QED BY <1>3, <6>1 DEF NoForwarder
          <5> QED BY <5>1
        <4> QED BY <2>3, <4>1 DEF ForwardEvent, ForwardOrEnd
      <3>4. /\ forwarder'[t].start = forwarder[t].start /\ forwarder'[t].read = next
            /\ forwarder'[t].over = forwarder[t].over
        BY <3>2, <3>3 DEF Running, BotInv, BotTypeOK
      <3>5. next \in Nat /\ forwarder[t].read < next
        BY <3>2
      <3>6. \A k \in Nat : SentTo(t, k)' <=>
               SentTo(t, k) \/ (k = next /\ Tag(log[next]) \in bot.events)
        <4>1. CASE Tag(log[next]) \in bot.events
          <5>1. channel'[t] = Append(channel[t], m)
            BY <3>3, <4>1 DEF BotInv, BotTypeOK
          <5>2. \A k : m = Sent("forwarder", k) <=> k = next
            BY DEF Sent
          <5> HIDE DEF m, next
          <5>3. \A k : SentTo(t, k)' <=> SentTo(t, k) \/ m = Sent("forwarder", k)
            BY <5>1, SentMore
          <5> QED BY <4>1, <5>2, <5>3
        <4>2. CASE Tag(log[next]) \notin bot.events
          <5>1. channel'[t] = channel[t]
            BY <3>3, <4>2
          <5> QED BY <4>2, <5>1 DEF SentTo
        <4> QED BY <4>1, <4>2
      <3> HIDE DEF next, m
      <3>7. ASSUME NEW k \in forwarder[t].over
            PROVE  k <= next /\ k + Capacity <= Len(log)
        <4>1. k <= forwarder[t].read /\ k + Capacity <= Len(log) /\ k \in Nat
          BY <3>2, <3>7 DEF Forwarded
        <4> QED BY <3>2, <3>5, <4>1
      <3>8. ASSUME NEW k \in forwarder[t].start + 1 .. next
            PROVE  (Tag(log[k]) \in bot.events /\ k \notin forwarder[t].over) <=> SentTo(t, k)'
        <4>1. k \in Nat
          BY <3>2, <3>5
        <4>2. CASE k <= forwarder[t].read
          <5>1. k \in forwarder[t].start + 1 .. forwarder[t].read /\ k # next
            BY <3>2, <3>5, <4>1, <4>2
          <5>2. (Tag(log[k]) \in bot.events /\ k \notin forwarder[t].over) <=> SentTo(t, k)
            BY <3>2, <3>3, <5>1 DEF Forwarded
          <5> QED BY <3>6, <4>1, <5>1, <5>2
        <4>3. CASE ~(k <= forwarder[t].read)
          <5>1. k = next
            BY <3>2, <3>5, <4>1, <4>3 DEF next
          <5>2. ~SentTo(t, k) /\ k \notin forwarder[t].over
            BY <3>2, <4>1, <4>3 DEF Forwarded
          <5> QED BY <3>6, <4>1, <5>1, <5>2
        <4> QED BY <4>2, <4>3
      <3> QED BY <1>0, <3>4, <3>7, <3>8 DEF Forwarded
    <2> QED BY <2>1, <2>2, <2>3
  <1> QED BY <1>2, <1>3 DEF ForwardedInv

\* The steps of bots, streams and the processor leave to the forwarders what is theirs.
LEMMA ForwardedStepInv ==
  ASSUME BotInv, ForwardedInv, BotNext
  PROVE  ForwardedInv'
  <1>1. Len(log) \in Nat
    BY BotTypes
  <1>2. CASE RegisterBot
    <2>1. PICK kinds \in Subscriptions :
            /\ bot' = [token |-> given + 1, events |-> kinds]
            /\ forwarder' = IF kinds = {} THEN forwarder
                            ELSE [forwarder EXCEPT ![given + 1] = [state |-> "spawned"]]
      BY <1>2 DEF RegisterBot
    <2>2. UNCHANGED <<log, channel>> /\ given \in Nat
      BY <1>2, BotTypes DEF RegisterBot
    <2>3. ASSUME NEW t \in Tokens, forwarder'[t].state = "running"
          PROVE  Forwarded(t)'
      <3>1. t # given + 1
        <4>1. ASSUME t = given + 1 PROVE FALSE
          <5>1. forwarder[t] = NoForwarder
            BY <2>2, <4>1 DEF BotInv, FeedInv
          <5>2. forwarder'[t] \in {NoForwarder, [state |-> "spawned"]}
            BY <2>1, <4>1, <5>1 DEF BotInv, BotTypeOK
          <5> QED BY <2>3, <5>2 DEF NoForwarder
        <4> QED BY <4>1
      <3>2. forwarder'[t] = forwarder[t] /\ bot'.token # t
        BY <2>1, <3>1 DEF BotInv, BotTypeOK
      <3>3. \A k : SentTo(t, k)' <=> SentTo(t, k)
        BY <2>2 DEF SentTo
      <3> QED BY <1>1, <2>2, <2>3, <3>2, <3>3, ForwardedKeeps
    <2> QED BY <2>3 DEF ForwardedInv
  <1>3. ASSUME UNCHANGED <<log, forwarder>>, bot' = bot \/ bot'.token = 0,
               channel' = channel \/ \E k : channel' =
                   [channel EXCEPT ![bot.token] = Append(@, Sent("processor", k))]
        PROVE  ForwardedInv'
    <2>1. ASSUME NEW t \in Tokens, forwarder[t].state = "running"
          PROVE  Forwarded(t)'
      <3>1. \A k : SentTo(t, k)' <=> SentTo(t, k)
        <4>1. CASE channel'[t] = channel[t]
          BY <4>1 DEF SentTo
        <4>2. CASE channel'[t] # channel[t]
          <5>1. PICK n : channel' = [channel EXCEPT ![bot.token] =
                                        Append(@, Sent("processor", n))]
            BY <1>3, <4>2
          <5> DEFINE m == Sent("processor", n)
          <5>2. channel'[t] = Append(channel[t], m)
            BY <4>2, <5>1 DEF BotInv, BotTypeOK
          <5>3. \A k : m # Sent("forwarder", k)
            BY DEF Sent
          <5> HIDE DEF m
          <5> QED BY <5>2, <5>3, SentMore
        <4> QED BY <4>1, <4>2
      <3>2. bot' = bot \/ bot'.token # t
        BY <1>3 DEF Tokens
      <3> QED BY <1>1, <1>3, <2>1, <3>1, <3>2, ForwardedKeeps
    <2> QED BY <1>3, <2>1 DEF ForwardedInv
  <1>4. CASE UnregisterBot
    <2>1. UNCHANGED <<log, forwarder, channel>> /\ bot'.token = 0
      BY <1>4 DEF UnregisterBot, NoBot
    <2> QED BY <1>3, <2>1
  <1>5. CASE ProcessorLags \/ Route
    <2>1. /\ UNCHANGED <<log, forwarder, bot>>
          /\ channel' = channel \/ \E k : channel' =
                 [channel EXCEPT ![bot.token] = Append(@, Sent("processor", k))]
      BY <1>5 DEF ProcessorLags, Route
    <2> QED BY <1>3, <2>1
  <1>6. ASSUME NEW s \in Streams,
               ValidateToken(s) \/ OpenStream(s) \/ StreamStep(s) \/ BotDisconnects(s)
        PROVE  ForwardedInv'
    <2>1. UNCHANGED <<log, bot, forwarder, channel>>
      BY <1>6 DEF ValidateToken, OpenStream, StreamStep, StreamLags, Yield, EndStream,
                  BotDisconnects
    <2> QED BY <1>3, <2>1
  <1> QED BY <1>2, <1>4, <1>5, <1>6, ForwardingInv DEF BotNext, Tokens

\* An event more on the bus, or a step of others.
LEMMA ForwardedRestInv ==
  ASSUME BotInv, ForwardedInv, UNCHANGED botVars,
         UNCHANGED log \/ \E kind \in Kinds : Publish(kind)
  PROVE  ForwardedInv'
  <1>1. UNCHANGED <<bot, forwarder, channel>>
    BY DEF botVars
  <1>2. log \in Seq(Kinds) /\ Len(log) \in Nat
    BY DEF BotInv
  <1>3. /\ Len(log') \in Nat /\ Len(log) <= Len(log')
        /\ \A k \in 1 .. Len(log) : log'[k] = log[k]
    BY <1>2 DEF Publish
  <1>4. ASSUME NEW t \in Tokens, forwarder[t].state = "running"
        PROVE  Forwarded(t)'
    <2>1. \A k : SentTo(t, k)' <=> SentTo(t, k)
      BY <1>1 DEF SentTo
    <2> QED BY <1>1, <1>3, <1>4, <2>1, ForwardedKeeps
  <1> QED BY <1>1, <1>4 DEF ForwardedInv

--------------------------------------------------------------------------------
(* Watches.                                                                 *)

\* The event the processor is about: watcher w may have yet to be told of it.
YetToTell(w) == finding \/ w \in telling

WatchOrderInv ==
    /\ ~(finding /\ telling # {})
    /\ finding \/ telling # {} => heard > 0
    /\ \A w \in Watchers :
        /\ \A i, j \in DOMAIN told[w] : i < j => told[w][i] < told[w][j]
        /\ \A i \in DOMAIN told[w] :
              /\ told[w][i] <= heard
              /\ YetToTell(w) => told[w][i] < heard

\* Whoever is to be told and does not watch any more ended the watch meanwhile.
WatchEndInv ==
    \A w \in Watchers : ~watch[w].on =>
        /\ \A i \in DOMAIN told[w] : told[w][i] <= watch[w].since
        /\ w \in telling => heard <= watch[w].since

WatchOwed(w, k) ==
    k \notin untold /\ k > watch[w].since /\ log[k] \in {"user_join", "user_quit"}

WatchTellsInv ==
    \A w \in Watchers : watch[w].on =>
        \A k \in 1 .. heard : WatchOwed(w, k) =>
            \/ \E i \in DOMAIN told[w] : told[w][i] = k
            \/ k = heard /\ YetToTell(w)

WatchInv ==
    /\ log \in Seq(Kinds)
    /\ WatchTypeOK
    /\ WatchOrderInv /\ WatchEndInv /\ WatchTellsInv

\* Sizes and places on the bus.
LEMMA WatchTypes ==
  ASSUME WatchInv
  PROVE  /\ Len(log) \in Nat /\ heard \in Nat /\ heard <= Len(log)
         /\ Capacity \in Nat \ {0}
         /\ \A k \in 1 .. heard : k \in 1 .. Len(log) /\ k \in Nat
         /\ \A w \in Watchers : /\ watch[w].on \in BOOLEAN /\ watch[w].since \in Nat
                                /\ watch[w].since <= Len(log)
         /\ \A w \in Watchers : \A i \in DOMAIN told[w] : told[w][i] \in 1 .. Len(log)
         /\ untold \subseteq 1 .. Len(log)
  <1>1. log \in Seq(Kinds) /\ WatchTypeOK
    BY DEF WatchInv
  <1>2. Len(log) \in Nat /\ heard \in Nat /\ heard <= Len(log)
    BY <1>1 DEF WatchTypeOK
  <1>3. Capacity \in Nat \ {0}
    BY BusAssumption
  <1>4. \A w \in Watchers : told[w] \in Seq(1 .. Len(log))
    BY <1>1 DEF WatchTypeOK
  <1>5. \A w \in Watchers : \A i \in DOMAIN told[w] : told[w][i] \in 1 .. Len(log)
    BY <1>4
  <1>6. \A w \in Watchers : /\ watch[w].on \in BOOLEAN /\ watch[w].since \in 0 .. Len(log)
    BY <1>1 DEF WatchTypeOK
  <1> QED BY <1>1, <1>2, <1>3, <1>5, <1>6 DEF WatchTypeOK

\* At the start nobody watches and nothing was heard.
LEMMA WatchInitInv == Init => WatchInv
  <1> SUFFICES ASSUME Init PROVE WatchInv
    OBVIOUS
  <1>1. /\ log = <<>> /\ watch = [w \in Watchers |-> [on |-> FALSE, since |-> 0]]
        /\ banned = FALSE /\ heard = 0 /\ finding = FALSE /\ telling = {}
        /\ told = [w \in Watchers |-> <<>>] /\ untold = {} /\ changes = 0 /\ watchFaults = 0
    BY DEF Init, WatchInit
  <1>2. \A w \in Watchers : told[w] = <<>> /\ ~watch[w].on
    BY <1>1
  <1>3. told \in [Watchers -> Seq(1 .. Len(log))]
    BY <1>1
  <1>4. WatchTypeOK
    <2>1. Len(log) = 0 /\ 0 \in 0 .. MaxChanges /\ 0 \in 0 .. MaxWatchFaults
      BY <1>1, WatchesAssumption
    <2>2. watch \in [Watchers -> [on : BOOLEAN, since : 0 .. Len(log)]]
      BY <1>1, <2>1
    <2>3. heard \in 0 .. Len(log) /\ changes \in 0 .. MaxChanges
          /\ watchFaults \in 0 .. MaxWatchFaults
      BY <1>1, <2>1
    <2>4. banned \in BOOLEAN /\ finding \in BOOLEAN
      BY <1>1
    <2>5. telling \subseteq Watchers /\ untold \subseteq 1 .. Len(log)
      BY <1>1
    <2> QED BY <1>3, <2>2, <2>3, <2>4, <2>5 DEF WatchTypeOK
  <1>5. WatchOrderInv /\ WatchEndInv /\ WatchTellsInv
    BY <1>1, <1>2 DEF WatchOrderInv, WatchEndInv, WatchTellsInv
  <1> QED BY <1>1, <1>4, <1>5 DEF WatchInv

\* A watch begins or ends, as of the events published so far.
LEMMA WatchChangeInv ==
  ASSUME WatchInv, NEW w \in Watchers, NEW on \in BOOLEAN, Change(w, on)
  PROVE  WatchInv'
  <1> DEFINE new == [on |-> on, since |-> Len(log)]
  <1>1. /\ UNCHANGED <<log, banned, heard, finding, telling, untold, watchFaults, told>>
        /\ watch' = [watch EXCEPT ![w] = new]
        /\ changes < MaxChanges /\ changes' = changes + 1
    BY DEF Change, processorVars
  <1>2. watch \in [Watchers -> [on : BOOLEAN, since : 0 .. Len(log)]] /\ WatchTypeOK
    BY DEF WatchInv, WatchTypeOK
  <1>3. new \in [on : BOOLEAN, since : 0 .. Len(log)]
    BY WatchTypes
  <1>4. new.on = on /\ new.since = Len(log)
    OBVIOUS
  <1> HIDE DEF new
  <1>5. /\ watch' \in [Watchers -> [on : BOOLEAN, since : 0 .. Len(log)]]
        /\ watch'[w] = new
        /\ \A v \in Watchers \ {w} : watch'[v] = watch[v]
    BY <1>1, <1>2, <1>3
  <1>6. changes' \in 0 .. MaxChanges
    BY <1>1, <1>2, WatchesAssumption DEF WatchTypeOK
  <1>7. WatchTypeOK'
    BY <1>1, <1>2, <1>5, <1>6 DEF WatchTypeOK
  <1>8. WatchOrderInv'
    BY <1>1 DEF WatchInv, WatchOrderInv, YetToTell
  <1>9. WatchEndInv'
    BY <1>1, <1>4, <1>5, WatchTypes DEF WatchInv, WatchEndInv
  <1>10. WatchTellsInv'
    <2> SUFFICES ASSUME NEW v \in Watchers, watch'[v].on, NEW k \in 1 .. heard, WatchOwed(v, k)'
                 PROVE  \/ \E i \in DOMAIN told[v] : told[v][i] = k
                        \/ k = heard /\ YetToTell(v)
      BY <1>1 DEF WatchTellsInv, YetToTell
    <2>1. v # w
      <3>1. ~(k > Len(log))
        BY WatchTypes
      <3> QED BY <1>4, <1>5, <3>1 DEF WatchOwed
    <2> QED BY <1>1, <1>5, <2>1 DEF WatchOwed, WatchInv, WatchTellsInv
  <1> QED BY <1>1, <1>7, <1>8, <1>9, <1>10 DEF WatchInv

\* The processor passes over the events it has missed, or reads one.
LEMMA WatchReadInv ==
  ASSUME WatchInv, EventsLost \/ ReadEvent
  PROVE  WatchInv'
  <1>1. /\ UNCHANGED <<log, watch, banned, telling, told, changes>>
        /\ ~finding /\ telling = {} /\ heard < Len(log)
    BY DEF EventsLost, ReadEvent, Ready, Pending
  <1>2. /\ heard' \in Nat /\ heard < heard' /\ heard' <= Len(log)
        /\ finding' \in BOOLEAN
        /\ watchFaults' \in 0 .. MaxWatchFaults
        /\ untold \subseteq untold' /\ untold' \subseteq 1 .. Len(log)
        /\ \A k \in heard + 1 .. heard' :
              log[k] \in {"user_join", "user_quit"} => k \in untold' \/ (k = heard' /\ finding')
    <2>1. CASE EventsLost
      <3>1. /\ Len(log) - heard > Capacity /\ heard' = Len(log) - Capacity
            /\ untold' = untold \cup heard + 1 .. heard' /\ UNCHANGED <<finding, watchFaults>>
        BY <2>1 DEF EventsLost, Lags, Oldest
      <3>2. heard' \in Nat /\ heard < heard' /\ heard' <= Len(log)
        BY <3>1, WatchTypes
      <3>3. heard + 1 .. heard' \subseteq 1 .. Len(log)
        BY <3>2, WatchTypes
      <3> QED BY <1>1, <3>1, <3>2, <3>3, WatchTypes DEF WatchInv, WatchTypeOK
    <2>2. CASE ReadEvent
      <3>1. heard' = heard + 1 /\ heard' \in 1 .. Len(log)
        BY <1>1, <2>2, WatchTypes DEF ReadEvent
      <3>2. \A k \in heard + 1 .. heard' : k = heard'
        BY <3>1, WatchTypes
      <3>3. \/ /\ log[heard'] \in {"user_join", "user_quit"}
               /\ finding' \in BOOLEAN
               /\ untold' = IF finding' THEN untold ELSE untold \cup {heard'}
               /\ UNCHANGED watchFaults \/ WatchFault
            \/ /\ log[heard'] \notin {"user_join", "user_quit"}
               /\ UNCHANGED <<finding, untold, watchFaults>>
        BY <2>2, <3>1 DEF ReadEvent
      <3>4. watchFaults' \in 0 .. MaxWatchFaults
        <4>1. watchFaults \in 0 .. MaxWatchFaults /\ MaxWatchFaults \in Nat
          BY WatchesAssumption DEF WatchInv, WatchTypeOK
        <4>2. \/ watchFaults' = watchFaults
              \/ watchFaults < MaxWatchFaults /\ watchFaults' = watchFaults + 1
          BY <3>3 DEF WatchFault
        <4> QED BY <4>1, <4>2
      <3>5. finding' \in BOOLEAN
        BY <3>3 DEF WatchInv, WatchTypeOK
      <3>6. untold \subseteq untold' /\ untold' \subseteq 1 .. Len(log)
        BY <3>1, <3>3, WatchTypes
      <3>7. log[heard'] \in {"user_join", "user_quit"} => heard' \in untold' \/ finding'
        BY <3>3
      <3>8. heard < heard' /\ heard' <= Len(log) /\ heard' \in Nat
        BY <3>1, WatchTypes
      <3> QED BY <3>2, <3>4, <3>5, <3>6, <3>7, <3>8
    <2> QED BY <2>1, <2>2
  <1>3. WatchTypeOK'
    BY <1>1, <1>2, WatchTypes DEF WatchInv, WatchTypeOK
  <1>4. WatchOrderInv'
    <2> SUFFICES ASSUME NEW w \in Watchers
                 PROVE  /\ \A i, j \in DOMAIN told[w] : i < j => told[w][i] < told[w][j]
                        /\ \A i \in DOMAIN told[w] :
                              told[w][i] <= heard' /\ told[w][i] < heard'
      BY <1>1, <1>2, WatchTypes DEF WatchOrderInv
    <2>1. \A i \in DOMAIN told[w] : told[w][i] <= heard /\ told[w][i] \in 1 .. Len(log)
      BY WatchTypes DEF WatchInv, WatchOrderInv
    <2> QED BY <1>2, <2>1, WatchTypes DEF WatchInv, WatchOrderInv
  <1>5. WatchEndInv'
    BY <1>1 DEF WatchInv, WatchEndInv
  <1>6. WatchTellsInv'
    <2> SUFFICES ASSUME NEW w \in Watchers, watch[w].on, NEW k \in 1 .. heard',
                        WatchOwed(w, k)'
                 PROVE  \/ \E i \in DOMAIN told[w] : told[w][i] = k
                        \/ k = heard' /\ finding'
      BY <1>1 DEF WatchTellsInv, YetToTell
    <2>1. WatchOwed(w, k) /\ log[k] \in {"user_join", "user_quit"} /\ k \notin untold'
      BY <1>1, <1>2 DEF WatchOwed
    <2>2. CASE k \in 1 .. heard
      BY <1>1, <2>1, <2>2 DEF WatchInv, WatchTellsInv, YetToTell
    <2>3. CASE k \notin 1 .. heard
      <3>1. k \in heard + 1 .. heard'
        BY <1>2, <2>3, WatchTypes
      <3> QED BY <1>2, <2>1, <3>1
    <2> QED BY <2>2, <2>3
  <1> QED BY <1>1, <1>3, <1>4, <1>5, <1>6 DEF WatchInv

\* Whoever watches at the time of the lookup is to be told.
LEMMA FindWatchersInv ==
  ASSUME WatchInv, FindWatchers
  PROVE  WatchInv'
  <1>1. /\ UNCHANGED <<log, watch, banned, heard, told, changes>>
        /\ finding /\ ~finding' /\ telling = {} /\ heard > 0
    BY DEF FindWatchers, WatchInv, WatchOrderInv, WatchTypeOK
  <1>2. \/ /\ telling' = {w \in Watchers : watch[w].on}
           /\ UNCHANGED <<untold, watchFaults>>
        \/ /\ WatchFault /\ untold' = untold \cup {heard} /\ telling' = {}
    BY <1>1 DEF FindWatchers
  <1>3. heard \in 1 .. Len(log)
    BY <1>1, WatchTypes
  <1>4. WatchTypeOK'
    <2>1. watchFaults' \in 0 .. MaxWatchFaults
      BY <1>2, WatchesAssumption DEF WatchFault, WatchInv, WatchTypeOK
    <2>2. untold' \subseteq 1 .. Len(log) /\ telling' \subseteq Watchers
      BY <1>2, <1>3, WatchTypes
    <2>3. finding' \in BOOLEAN
      BY DEF FindWatchers
    <2> QED BY <1>1, <2>1, <2>2, <2>3 DEF WatchInv, WatchTypeOK
  <1>5. WatchOrderInv'
    BY <1>1 DEF WatchInv, WatchOrderInv, YetToTell
  <1>6. WatchEndInv'
    BY <1>1, <1>2 DEF WatchInv, WatchEndInv
  <1>7. WatchTellsInv'
    <2> SUFFICES ASSUME NEW w \in Watchers, watch[w].on, NEW k \in 1 .. heard,
                        WatchOwed(w, k)'
                 PROVE  \/ \E i \in DOMAIN told[w] : told[w][i] = k
                        \/ k = heard /\ w \in telling'
      BY <1>1 DEF WatchTellsInv, YetToTell
    <2>1. WatchOwed(w, k) /\ k \notin untold'
      BY <1>1, <1>2 DEF WatchOwed
    <2>2. \/ \E i \in DOMAIN told[w] : told[w][i] = k
          \/ k = heard
      BY <2>1 DEF WatchInv, WatchTellsInv
    <2> QED BY <1>2, <2>1, <2>2
  <1> QED BY <1>1, <1>4, <1>5, <1>6, <1>7 DEF WatchInv

\* One of them is told.
LEMMA TellWatcherInv ==
  ASSUME WatchInv, NEW w \in Watchers, TellWatcher(w)
  PROVE  WatchInv'
  <1> DEFINE new == Append(told[w], heard)
  <1>1. /\ UNCHANGED <<log, watch, banned, heard, finding, untold, changes, watchFaults>>
        /\ w \in telling /\ telling' = telling \ {w}
        /\ told' = [told EXCEPT ![w] = new]
    BY DEF TellWatcher
  <1>2. ~finding /\ heard \in 1 .. Len(log)
    BY <1>1, WatchTypes DEF WatchInv, WatchOrderInv
  <1>3. /\ told \in [Watchers -> Seq(1 .. Len(log))] /\ Len(log) \in Nat
        /\ \A i, j \in DOMAIN told[w] : i < j => told[w][i] < told[w][j]
        /\ \A i \in DOMAIN told[w] : told[w][i] < heard
    BY <1>1, WatchTypes DEF WatchInv, WatchTypeOK, WatchOrderInv, YetToTell
  <1>4. /\ new \in Seq(1 .. Len(log))
        /\ \A i, j \in DOMAIN new : i < j => new[i] < new[j]
        /\ \A i \in DOMAIN new : new[i] <= heard
        /\ \E i \in DOMAIN new : new[i] = heard
        /\ \A i \in DOMAIN told[w] : i \in DOMAIN new /\ new[i] = told[w][i]
    <2>1. told[w] \in Seq(1 .. Len(log))
      BY <1>3
    <2> QED BY <1>2, <1>3, <2>1, AppendLater
  <1> HIDE DEF new
  <1>5. /\ told' \in [Watchers -> Seq(1 .. Len(log))]
        /\ told'[w] = new /\ \A v \in Watchers \ {w} : told'[v] = told[v]
    BY <1>1, <1>3, <1>4
  <1>6. WatchTypeOK'
    BY <1>1, <1>5 DEF WatchInv, WatchTypeOK
  <1>7. WatchOrderInv'
    <2>1. ~(finding' /\ telling' # {}) /\ (finding' \/ telling' # {} => heard' > 0)
      BY <1>1, <1>2
    <2>2. ASSUME NEW v \in Watchers
          PROVE  /\ \A i, j \in DOMAIN told'[v] : i < j => told'[v][i] < told'[v][j]
                 /\ \A i \in DOMAIN told'[v] :
                       /\ told'[v][i] <= heard'
                       /\ finding' \/ v \in telling' => told'[v][i] < heard'
      <3>1. CASE v = w
        BY <1>1, <1>2, <1>4, <1>5, <3>1
      <3>2. CASE v # w
        BY <1>1, <1>5, <3>2 DEF WatchInv, WatchOrderInv, YetToTell
      <3> QED BY <3>1, <3>2
    <2> QED BY <2>1, <2>2 DEF WatchOrderInv, YetToTell
  <1>8. WatchEndInv'
    <2> SUFFICES ASSUME NEW v \in Watchers, ~watch[v].on
                 PROVE  /\ \A i \in DOMAIN told'[v] : told'[v][i] <= watch[v].since
                        /\ v \in telling' => heard <= watch[v].since
      BY <1>1 DEF WatchEndInv
    <2>1. CASE v = w
      <3>1. heard <= watch[w].since
        BY <1>1, <2>1 DEF WatchInv, WatchEndInv
      <3>2. \A i \in DOMAIN new : new[i] \in 1 .. Len(log)
        BY <1>4
      <3> QED BY <1>1, <1>4, <1>5, <2>1, <3>1, <3>2, WatchTypes
    <2>2. CASE v # w
      BY <1>1, <1>5, <2>2 DEF WatchInv, WatchEndInv
    <2> QED BY <2>1, <2>2
  <1>9. WatchTellsInv'
    <2> SUFFICES ASSUME NEW v \in Watchers, watch[v].on, NEW k \in 1 .. heard,
                        WatchOwed(v, k)'
                 PROVE  \/ \E i \in DOMAIN told'[v] : told'[v][i] = k
                        \/ k = heard /\ (finding' \/ v \in telling')
      BY <1>1 DEF WatchTellsInv, YetToTell
    <2>1. \/ \E i \in DOMAIN told[v] : told[v][i] = k
          \/ k = heard /\ v \in telling
      BY <1>1, <1>2 DEF WatchInv, WatchTellsInv, WatchOwed, YetToTell
    <2>2. CASE v = w
      BY <1>4, <1>5, <2>1, <2>2
    <2>3. CASE v # w
      BY <1>1, <1>5, <2>1, <2>3
    <2> QED BY <2>2, <2>3
  <1> QED BY <1>1, <1>6, <1>7, <1>8, <1>9 DEF WatchInv

\* Watches and bans of the nick change, events are read, watchers are told.
LEMMA WatchStepInv ==
  ASSUME WatchInv, WatchNext
  PROVE  WatchInv'
  <1>1. ASSUME BanChanges PROVE WatchInv'
    <2>1. /\ UNCHANGED <<log, watch, heard, finding, telling, untold, watchFaults, told>>
          /\ UNCHANGED changes /\ banned' = ~banned
      BY <1>1 DEF BanChanges, processorVars
    <2>2. banned' \in BOOLEAN
      BY <2>1
    <2>3. WatchTypeOK'
      BY <2>1, <2>2 DEF WatchInv, WatchTypeOK
    <2>4. WatchOrderInv'
      BY <2>1 DEF WatchInv, WatchOrderInv, YetToTell
    <2>5. WatchEndInv' /\ WatchTellsInv'
      BY <2>1 DEF WatchInv, WatchEndInv, WatchTellsInv, WatchOwed, YetToTell
    <2> QED BY <2>1, <2>3, <2>4, <2>5 DEF WatchInv
  <1>2. ASSUME NEW w \in Watchers, CreateWatch(w) \/ DeleteWatch(w) PROVE WatchInv'
    BY <1>2, WatchChangeInv DEF CreateWatch, DeleteWatch
  <1> QED BY <1>1, <1>2, WatchReadInv, FindWatchersInv, TellWatcherInv DEF WatchNext

\* An event more is none of those heard.
LEMMA WatchPublishInv ==
  ASSUME WatchInv, NEW kind \in Kinds, Publish(kind), UNCHANGED watchVars
  PROVE  WatchInv'
  <1>1. /\ UNCHANGED <<watch, banned, heard, finding, telling, untold, watchFaults, told>>
        /\ UNCHANGED changes
        /\ log' = Append(log, kind) /\ log \in Seq(Kinds)
    BY DEF watchVars, processorVars, Publish, WatchInv
  <1>2. /\ log' \in Seq(Kinds) /\ Len(log') = Len(log) + 1
        /\ \A k \in 1 .. Len(log) : log'[k] = log[k]
    BY <1>1, AppendProperties
  <1>3. 0 .. Len(log) \subseteq 0 .. Len(log') /\ 1 .. Len(log) \subseteq 1 .. Len(log')
    BY <1>2, WatchTypes
  <1>4. told \in [Watchers -> Seq(1 .. Len(log'))]
    <2>1. Seq(1 .. Len(log)) \subseteq Seq(1 .. Len(log'))
      BY <1>3, SeqMonotonic
    <2> QED BY <2>1 DEF WatchInv, WatchTypeOK
  <1>5. watch \in [Watchers -> [on : BOOLEAN, since : 0 .. Len(log')]]
    BY <1>3 DEF WatchInv, WatchTypeOK
  <1>6. WatchTypeOK'
    BY <1>1, <1>3, <1>4, <1>5 DEF WatchInv, WatchTypeOK
  <1>7. WatchOrderInv'
    BY <1>1 DEF WatchInv, WatchOrderInv, YetToTell
  <1>8. WatchEndInv'
    BY <1>1 DEF WatchInv, WatchEndInv
  <1>9. WatchTellsInv'
    <2>1. \A k \in 1 .. heard : log'[k] = log[k]
      BY <1>2, WatchTypes
    <2> QED BY <1>1, <2>1 DEF WatchInv, WatchTellsInv, WatchOwed, YetToTell
  <1> QED BY <1>2, <1>6, <1>7, <1>8, <1>9 DEF WatchInv

\* Nobody else touches the watches.
LEMMA WatchRestInv ==
  ASSUME WatchInv, UNCHANGED <<log, watchVars>>
  PROVE  WatchInv'
  <1>1. /\ UNCHANGED <<log, watch, banned, heard, finding, telling, untold, watchFaults, told>>
        /\ UNCHANGED changes
    BY DEF watchVars, processorVars
  <1>2. WatchTypeOK'
    BY <1>1 DEF WatchInv, WatchTypeOK
  <1>3. WatchOrderInv'
    BY <1>1 DEF WatchInv, WatchOrderInv, YetToTell
  <1>4. WatchEndInv' /\ WatchTellsInv'
    BY <1>1 DEF WatchInv, WatchEndInv, WatchTellsInv, WatchOwed, YetToTell
  <1> QED BY <1>1, <1>2, <1>3, <1>4 DEF WatchInv

\* The invariant accounts for what watchers are told.
LEMMA WatchInvTold == WatchInv => WatchersTold
  <1> SUFFICES ASSUME WatchInv, NEW w \in Watchers
               PROVE  /\ \A i, j \in DOMAIN told[w] : i < j => told[w][i] < told[w][j]
                      /\ watch[w].on =>
                            \A k \in Done \ untold :
                              (k > watch[w].since /\ log[k] \in {"user_join", "user_quit"}) =>
                                 \E i \in DOMAIN told[w] : told[w][i] = k
                      /\ ~watch[w].on => \A i \in DOMAIN told[w] : told[w][i] <= watch[w].since
    BY DEF WatchersTold
  <1>1. ASSUME watch[w].on, NEW k \in Done \ untold,
               k > watch[w].since, log[k] \in {"user_join", "user_quit"}
        PROVE  \E i \in DOMAIN told[w] : told[w][i] = k
    <2>1. k \in 1 .. heard /\ ~(k = heard /\ YetToTell(w))
      BY <1>1, WatchTypes DEF Done, YetToTell
    <2> QED BY <1>1, <2>1 DEF WatchInv, WatchTellsInv, WatchOwed
  <1> QED BY <1>1 DEF WatchInv, WatchOrderInv, WatchEndInv

--------------------------------------------------------------------------------
(* OPChat.                                                                  *)

\* Person p may have yet to get the line that is being relayed.
YetToHear(p) == line.step = "lock" \/ p \in line.left

OpLineInv ==
    /\ line.step = "none" => line = NoLine
    /\ line.step # "relay" => line.left = {}
    /\ line.left \subseteq ListedOps
    /\ line.step # "none" => opAt > 0
    /\ \A i \in DOMAIN lines :
        /\ lines[i].event <= opAt
        /\ line.step # "none" /\ lines[i].event = opAt => lines[i].from = line.from

OpOrderInv ==
    \A p \in People :
        /\ \A i, j \in DOMAIN hears[p] : i < j => hears[p][i] < hears[p][j]
        /\ \A i \in DOMAIN hears[p] :
              /\ hears[p][i] <= opAt
              /\ YetToHear(p) => hears[p][i] < opAt

OpHearsInv ==
    \A p \in People : op[p].on =>
        \A i \in DOMAIN lines : lines[i].event > op[p].since /\ lines[i].from # p =>
            \/ \E j \in DOMAIN hears[p] : hears[p][j] = lines[i].event
            \/ lines[i].event = opAt /\ YetToHear(p)

OpInv ==
    /\ log \in Seq(Kinds)
    /\ OpTypeOK
    /\ OpLineInv /\ OpOrderInv /\ OpHearsInv

\* Places and types of the relay.
LEMMA OpTypes ==
  ASSUME OpInv
  PROVE  /\ Len(log) \in Nat /\ opAt \in Nat /\ opAt <= Len(log) /\ Capacity \in Nat \ {0}
         /\ \A p \in People : /\ op[p].on \in BOOLEAN /\ op[p].since \in Nat
                              /\ op[p].since <= Len(log)
         /\ \A i \in DOMAIN lines : lines[i].event \in 1 .. Len(log)
         /\ \A p \in People : hears[p] \in Seq(1 .. Len(log))
         /\ \A p \in People : \A i \in DOMAIN hears[p] : hears[p][i] \in 1 .. Len(log)
         /\ line.step \in {"none", "lock", "relay"} /\ line.left \subseteq People
         /\ line.from \in People \cup {Outsider}
         /\ NoLine.step = "none" /\ NoLine.left = {}
  <1>1. log \in Seq(Kinds) /\ OpTypeOK
    BY DEF OpInv
  <1>2. Len(log) \in Nat /\ opAt \in Nat /\ opAt <= Len(log) /\ Capacity \in Nat \ {0}
    BY <1>1, BusAssumption DEF OpTypeOK
  <1>3. \A p \in People : op[p].on \in BOOLEAN /\ op[p].since \in 0 .. Len(log)
    BY <1>1 DEF OpTypeOK
  <1> DEFINE Received == [event : 1 .. Len(log), from : People \cup {Outsider}]
  <1>4. \A i \in DOMAIN lines : lines[i].event \in 1 .. Len(log)
    <2>1. lines \in Seq(Received) /\ \A l \in Received : l.event \in 1 .. Len(log)
      BY <1>1 DEF OpTypeOK
    <2> HIDE DEF Received
    <2>2. \A i \in DOMAIN lines : lines[i] \in Received
      BY <2>1
    <2> QED BY <2>1, <2>2
  <1>5. \A p \in People : hears[p] \in Seq(1 .. Len(log))
    BY <1>1 DEF OpTypeOK
  <1>6. \A p \in People : \A i \in DOMAIN hears[p] : hears[p][i] \in 1 .. Len(log)
    BY <1>5
  <1>7. /\ line.step \in {"none", "lock", "relay"} /\ line.left \subseteq People
        /\ line.from \in People \cup {Outsider}
    BY <1>1 DEF OpTypeOK
  <1>8. NoLine.step = "none" /\ NoLine.left = {}
    BY DEF NoLine
  <1> QED BY <1>2, <1>3, <1>4, <1>5, <1>6, <1>7, <1>8

\* At the start there is no operator and no line.
LEMMA OpInitInv == Init => OpInv
  <1> SUFFICES ASSUME Init PROVE OpInv
    OBVIOUS
  <1>1. /\ log = <<>> /\ op = [p \in People |-> [on |-> FALSE, since |-> 0]]
        /\ opAt = 0 /\ line = NoLine /\ lines = <<>> /\ hears = [p \in People |-> <<>>]
        /\ opTurns = 0
    BY DEF Init, OpInit
  <1>2. Len(log) = 0 /\ log \in Seq(Kinds)
    BY <1>1
  <1>3. op \in [People -> [on : BOOLEAN, since : 0 .. Len(log)]]
    BY <1>1, <1>2
  <1>4. opAt \in 0 .. Len(log) /\ opTurns \in 0 .. MaxOpTurns
    BY <1>1, <1>2, OpChatAssumption
  <1>5. line \in [step : {"none", "lock", "relay"}, from : People \cup {Outsider},
                  left : SUBSET People]
    BY <1>1 DEF NoLine
  <1>6. /\ lines \in Seq([event : 1 .. Len(log), from : People \cup {Outsider}])
        /\ hears \in [People -> Seq(1 .. Len(log))]
    BY <1>1
  <1>7. OpTypeOK
    BY <1>3, <1>4, <1>5, <1>6 DEF OpTypeOK
  <1>8. line.step = "none" /\ line.left = {} /\ DOMAIN lines = {}
    BY <1>1 DEF NoLine
  <1>9. \A p \in People : DOMAIN hears[p] = {} /\ ~op[p].on
    BY <1>1
  <1>10. OpLineInv
    BY <1>1, <1>8 DEF OpLineInv
  <1>11. OpOrderInv /\ OpHearsInv
    BY <1>9 DEF OpOrderInv, OpHearsInv
  <1> QED BY <1>2, <1>7, <1>10, <1>11 DEF OpInv

\* The user map is written while no line is relayed.
LEMMA MapInv ==
  ASSUME OpInv, line.step # "relay", NEW ops \in SUBSET People, MapShows(ops)
  PROVE  OpInv'
  <1>1. /\ UNCHANGED <<log, opAt, line, lines, hears>>
        /\ opTurns < MaxOpTurns /\ opTurns' = opTurns + 1
        /\ op' = [p \in People |-> IF op[p].on = (p \in ops) THEN op[p]
                                   ELSE [on |-> p \in ops, since |-> Len(log)]]
    BY DEF MapShows
  <1>2. OpTypeOK /\ OpLineInv /\ OpOrderInv /\ OpHearsInv /\ log \in Seq(Kinds)
    BY DEF OpInv
  <1>3. \A p \in People : op'[p] = op[p] \/ op'[p] = [on |-> p \in ops, since |-> Len(log)]
    BY <1>1
  <1>4. op' \in [People -> [on : BOOLEAN, since : 0 .. Len(log)]]
    <2>1. ASSUME NEW p \in People PROVE op'[p] \in [on : BOOLEAN, since : 0 .. Len(log)]
      <3>1. op[p] \in [on : BOOLEAN, since : 0 .. Len(log)]
        BY <1>2 DEF OpTypeOK
      <3>2. Len(log) \in 0 .. Len(log)
        BY OpTypes
      <3>3. \A on \in BOOLEAN :
               [on |-> on, since |-> Len(log)] \in [on : BOOLEAN, since : 0 .. Len(log)]
        BY <3>2
      <3>4. (p \in ops) \in BOOLEAN
        OBVIOUS
      <3>5. [on |-> p \in ops, since |-> Len(log)] \in [on : BOOLEAN, since : 0 .. Len(log)]
        BY <3>3, <3>4
      <3> QED BY <1>3, <3>1, <3>5
    <2>2. op' = [p \in People |-> op'[p]]
      BY <1>1
    <2> QED BY <2>1, <2>2
  <1>5. opTurns' \in 0 .. MaxOpTurns
    <2>1. opTurns \in 0 .. MaxOpTurns /\ MaxOpTurns \in Nat
      BY <1>2, OpChatAssumption DEF OpTypeOK
    <2> QED BY <1>1, <2>1
  <1>6. OpTypeOK'
    BY <1>1, <1>2, <1>4, <1>5 DEF OpTypeOK
  <1>7. OpLineInv'
    BY <1>1, <1>2 DEF OpLineInv, ListedOps
  <1>8. OpOrderInv'
    BY <1>1, <1>2 DEF OpOrderInv, YetToHear
  <1>9. OpHearsInv'
    <2> SUFFICES ASSUME NEW p \in People, op'[p].on,
                        NEW i \in DOMAIN lines, lines[i].event > op'[p].since, lines[i].from # p
                 PROVE  \/ \E j \in DOMAIN hears[p] : hears[p][j] = lines[i].event
                        \/ lines[i].event = opAt /\ YetToHear(p)
      BY <1>1 DEF OpHearsInv, YetToHear
    <2>1. CASE op'[p] = op[p]
      BY <1>2, <2>1 DEF OpHearsInv
    <2>2. CASE op'[p] = [on |-> p \in ops, since |-> Len(log)]
      <3>1. op'[p].since = Len(log)
        BY <2>2
      <3>2. lines[i].event \in Nat /\ lines[i].event <= Len(log)
        BY OpTypes
      <3> QED BY <3>1, <3>2, OpTypes
    <2> QED BY <1>3, <2>1, <2>2
  <1> QED BY <1>1, <1>2, <1>6, <1>7, <1>8, <1>9 DEF OpInv

\* The relay passes over what it missed, or reads an event, which may be a line.
LEMMA OpReadInv ==
  ASSUME OpInv, RelayLags \/ ReceiveLine
  PROVE  OpInv'
  <1>1. UNCHANGED <<log, op, hears, opTurns>> /\ line = NoLine /\ opAt < Len(log)
    BY DEF RelayLags, ReceiveLine, Pending
  <1>2. OpTypeOK /\ OpLineInv /\ OpOrderInv /\ OpHearsInv /\ log \in Seq(Kinds)
    BY DEF OpInv
  <1>3. line.step = "none" /\ line.left = {}
    BY <1>1, OpTypes
  <1>4. opAt' \in 1 .. Len(log) /\ opAt < opAt'
    <2>1. CASE RelayLags
      BY <1>1, <2>1, OpTypes DEF RelayLags, Lags, Oldest
    <2>2. CASE ReceiveLine
      BY <1>1, <2>2, OpTypes DEF ReceiveLine
    <2> QED BY <2>1, <2>2
  <1>5. \/ UNCHANGED <<line, lines>>
        \/ \E from \in People \cup {Outsider} :
              /\ line' = [step |-> "lock", from |-> from, left |-> {}]
              /\ lines' = Append(lines, [event |-> opAt', from |-> from])
    BY DEF RelayLags, ReceiveLine
  <1>6. \A i \in DOMAIN lines : lines[i].event \in Nat /\ lines[i].event <= opAt
    BY <1>2, OpTypes DEF OpLineInv
  <1>7. \A p \in People : \A i \in DOMAIN hears[p] : hears[p][i] <= opAt' /\ hears[p][i] < opAt'
    BY <1>2, <1>4, OpTypes DEF OpOrderInv
  <1>8. OpOrderInv'
    BY <1>1, <1>2, <1>7 DEF OpOrderInv
  <1>9. \A p \in People : op[p].on =>
          \A i \in DOMAIN lines : lines[i].event > op[p].since /\ lines[i].from # p =>
            \E j \in DOMAIN hears[p] : hears[p][j] = lines[i].event
    BY <1>2, <1>3 DEF OpHearsInv, YetToHear
  <1>10. CASE UNCHANGED <<line, lines>>
    <2>1. OpTypeOK'
      BY <1>1, <1>2, <1>4, <1>10 DEF OpTypeOK
    <2>2. OpLineInv'
      <3>1. \A i \in DOMAIN lines : lines[i].event <= opAt'
        BY <1>4, <1>6, OpTypes
      <3> QED BY <1>1, <1>2, <1>3, <1>10, <3>1 DEF OpLineInv
    <2>3. OpHearsInv'
      BY <1>1, <1>9, <1>10 DEF OpHearsInv
    <2> QED BY <1>1, <1>2, <1>8, <2>1, <2>2, <2>3 DEF OpInv
  <1>11. ASSUME NEW from \in People \cup {Outsider},
                line' = [step |-> "lock", from |-> from, left |-> {}],
                lines' = Append(lines, [event |-> opAt', from |-> from])
         PROVE  OpInv'
    <2> DEFINE Line1 == [event : 1 .. Len(log), from : People \cup {Outsider}]
               new == [event |-> opAt', from |-> from]
    <2>1. new \in Line1 /\ lines \in Seq(Line1) /\ lines' = Append(lines, new)
      BY <1>2, <1>4, <1>11 DEF OpTypeOK
    <2>2. new.event = opAt' /\ new.from = from
      OBVIOUS
    <2>3. line'.step = "lock" /\ line'.left = {} /\ line'.from = from
      BY <1>11
    <2>4. line' \in [step : {"none", "lock", "relay"}, from : People \cup {Outsider},
                     left : SUBSET People]
      BY <1>11
    <2> HIDE DEF new, Line1
    <2>5. /\ lines' \in Seq(Line1) /\ DOMAIN lines' = 1 .. Len(lines) + 1
          /\ DOMAIN lines = 1 .. Len(lines) /\ Len(lines) \in Nat
          /\ lines'[Len(lines) + 1] = new
          /\ \A i \in 1 .. Len(lines) : lines'[i] = lines[i]
      BY <2>1, AppendProperties
    <2>6. \A i \in DOMAIN lines' : \/ i \in DOMAIN lines /\ lines'[i] = lines[i]
                                   \/ lines'[i] = new
      BY <2>5
    <2>7. OpTypeOK'
      <3>1. lines' \in Seq([event : 1 .. Len(log), from : People \cup {Outsider}])
        BY <2>5 DEF Line1
      <3> QED BY <1>1, <1>2, <1>4, <2>4, <3>1 DEF OpTypeOK
    <2>8. OpLineInv'
      <3>1. ASSUME NEW i \in DOMAIN lines'
            PROVE  lines'[i].event <= opAt' /\ (lines'[i].event = opAt' => lines'[i].from = from)
        <4>1. CASE i \in DOMAIN lines /\ lines'[i] = lines[i]
          BY <1>4, <1>6, <4>1, OpTypes
        <4>2. CASE lines'[i] = new
          BY <1>4, <2>2, <4>2
        <4> QED BY <2>6, <4>1, <4>2
      <3> QED BY <1>1, <1>4, <2>3, <3>1 DEF OpLineInv
    <2>9. OpHearsInv'
      <3> SUFFICES ASSUME NEW p \in People, op[p].on, NEW i \in DOMAIN lines',
                          lines'[i].event > op[p].since, lines'[i].from # p
                   PROVE  \/ \E j \in DOMAIN hears[p] : hears[p][j] = lines'[i].event
                          \/ lines'[i].event = opAt' /\ YetToHear(p)'
        BY <1>1 DEF OpHearsInv
      <3> QED BY <1>9, <2>2, <2>3, <2>6 DEF YetToHear
    <2> QED BY <1>1, <1>2, <1>8, <2>7, <2>8, <2>9 DEF OpInv
  <1> QED BY <1>5, <1>10, <1>11

\* The relay finds out who is an operator.
LEMMA OpLockInv ==
  ASSUME OpInv, LockUsers
  PROVE  OpInv'
  <1>1. /\ UNCHANGED <<log, op, opAt, lines, hears, opTurns>> /\ line.step = "lock"
        /\ line' = [line EXCEPT !.step = "relay", !.left = ListedOps \ {line.from}]
    BY DEF LockUsers
  <1>2. OpTypeOK /\ OpLineInv /\ OpOrderInv /\ OpHearsInv /\ log \in Seq(Kinds)
    BY DEF OpInv
  <1>3. /\ line'.step = "relay" /\ line'.from = line.from
        /\ line'.left = ListedOps \ {line.from} /\ ListedOps \subseteq People
        /\ line' \in [step : {"none", "lock", "relay"}, from : People \cup {Outsider},
                      left : SUBSET People]
    BY <1>1, <1>2 DEF OpTypeOK, ListedOps
  <1>4. OpTypeOK'
    BY <1>1, <1>2, <1>3 DEF OpTypeOK
  <1>5. OpLineInv'
    BY <1>1, <1>2, <1>3 DEF OpLineInv, ListedOps
  <1>6. \A p \in People : YetToHear(p)
    BY <1>1 DEF YetToHear
  <1>7. OpOrderInv'
    BY <1>1, <1>2, <1>6 DEF OpOrderInv
  <1>8. OpHearsInv'
    <2> SUFFICES ASSUME NEW p \in People, op[p].on, NEW i \in DOMAIN lines,
                        lines[i].event > op[p].since, lines[i].from # p
                 PROVE  \/ \E j \in DOMAIN hears[p] : hears[p][j] = lines[i].event
                        \/ lines[i].event = opAt /\ p \in line'.left
      BY <1>1 DEF OpHearsInv, YetToHear
    <2>1. lines[i].event = opAt => lines[i].from = line.from
      BY <1>1, <1>2 DEF OpLineInv
    <2> QED BY <1>2, <1>3, <2>1 DEF OpHearsInv, ListedOps
  <1> QED BY <1>1, <1>2, <1>4, <1>5, <1>7, <1>8 DEF OpInv

\* One operator gets the line.
LEMMA OpRelayInv ==
  ASSUME OpInv, NEW p \in People, RelayTo(p)
  PROVE  OpInv'
  <1> DEFINE new == Append(hears[p], opAt)
  <1>1. /\ UNCHANGED <<log, op, opAt, lines, opTurns>> /\ p \in line.left
        /\ line' = [line EXCEPT !.left = @ \ {p}]
        /\ hears' = [hears EXCEPT ![p] = new]
    BY DEF RelayTo
  <1>2. OpTypeOK /\ OpLineInv /\ OpOrderInv /\ OpHearsInv /\ log \in Seq(Kinds)
    BY DEF OpInv
  <1>3. /\ line'.step = line.step /\ line'.from = line.from /\ line'.left = line.left \ {p}
        /\ line' \in [step : {"none", "lock", "relay"}, from : People \cup {Outsider},
                      left : SUBSET People]
    BY <1>1, <1>2 DEF OpTypeOK
  <1>4. line.step = "relay" /\ opAt \in 1 .. Len(log)
    BY <1>1, <1>2, OpTypes DEF OpLineInv
  <1>5. /\ new \in Seq(1 .. Len(log))
        /\ \A i, j \in DOMAIN new : i < j => new[i] < new[j]
        /\ \A i \in DOMAIN new : new[i] <= opAt
        /\ \E i \in DOMAIN new : new[i] = opAt
        /\ \A i \in DOMAIN hears[p] : i \in DOMAIN new /\ new[i] = hears[p][i]
    <2>1. /\ \A i, j \in DOMAIN hears[p] : i < j => hears[p][i] < hears[p][j]
          /\ \A i \in DOMAIN hears[p] : hears[p][i] < opAt
      BY <1>1, <1>2 DEF OpOrderInv, YetToHear
    <2>2. hears[p] \in Seq(1 .. Len(log)) /\ Len(log) \in Nat
      BY OpTypes
    <2> QED BY <1>4, <2>1, <2>2, AppendLater
  <1> HIDE DEF new
  <1>6. /\ hears' \in [People -> Seq(1 .. Len(log))]
        /\ hears'[p] = new /\ \A q \in People \ {p} : hears'[q] = hears[q]
    BY <1>1, <1>2, <1>5 DEF OpTypeOK
  <1>7. OpTypeOK'
    BY <1>1, <1>2, <1>3, <1>6 DEF OpTypeOK
  <1>8. OpLineInv'
    BY <1>1, <1>2, <1>3, <1>4 DEF OpLineInv, ListedOps
  <1>9. OpOrderInv'
    <2> SUFFICES ASSUME NEW q \in People
                 PROVE  /\ \A i, j \in DOMAIN hears'[q] : i < j => hears'[q][i] < hears'[q][j]
                        /\ \A i \in DOMAIN hears'[q] :
                              /\ hears'[q][i] <= opAt
                              /\ q \in line'.left => hears'[q][i] < opAt
      BY <1>1, <1>3, <1>4 DEF OpOrderInv, YetToHear
    <2>1. CASE q = p
      BY <1>3, <1>5, <1>6, <2>1
    <2>2. CASE q # p
      BY <1>2, <1>3, <1>6, <2>2 DEF OpOrderInv, YetToHear
    <2> QED BY <2>1, <2>2
  <1>10. OpHearsInv'
    <2> SUFFICES ASSUME NEW q \in People, op[q].on, NEW i \in DOMAIN lines,
                        lines[i].event > op[q].since, lines[i].from # q
                 PROVE  \/ \E j \in DOMAIN hears'[q] : hears'[q][j] = lines[i].event
                        \/ lines[i].event = opAt /\ q \in line'.left
      BY <1>1 DEF OpHearsInv, YetToHear
    <2>1. \/ \E j \in DOMAIN hears[q] : hears[q][j] = lines[i].event
          \/ lines[i].event = opAt /\ q \in line.left
      BY <1>2, <1>4 DEF OpHearsInv, YetToHear
    <2>2. CASE q = p
      BY <1>5, <1>6, <2>1, <2>2
    <2>3. CASE q # p
      BY <1>3, <1>6, <2>1, <2>3
    <2> QED BY <2>2, <2>3
  <1> QED BY <1>1, <1>2, <1>7, <1>8, <1>9, <1>10 DEF OpInv

\* The relay lets the map go.
LEMMA OpEndInv ==
  ASSUME OpInv, EndRelay
  PROVE  OpInv'
  <1>1. /\ UNCHANGED <<log, op, opAt, lines, hears, opTurns>>
        /\ line.step = "relay" /\ line.left = {} /\ line' = NoLine
    BY DEF EndRelay
  <1>2. OpTypeOK /\ OpLineInv /\ OpOrderInv /\ OpHearsInv /\ log \in Seq(Kinds)
    BY DEF OpInv
  <1>3. line'.step = "none" /\ line'.left = {}
    BY <1>1, OpTypes
  <1>4. line' \in [step : {"none", "lock", "relay"}, from : People \cup {Outsider},
                   left : SUBSET People]
    BY <1>1 DEF NoLine
  <1>5. OpTypeOK'
    BY <1>1, <1>2, <1>4 DEF OpTypeOK
  <1>6. OpLineInv'
    BY <1>1, <1>2, <1>3 DEF OpLineInv
  <1>7. \A p \in People : ~YetToHear(p) /\ ~YetToHear(p)'
    BY <1>1, <1>3 DEF YetToHear
  <1>8. OpOrderInv'
    BY <1>1, <1>2, <1>7 DEF OpOrderInv
  <1>9. OpHearsInv'
    BY <1>1, <1>2, <1>7 DEF OpHearsInv
  <1> QED BY <1>1, <1>2, <1>5, <1>6, <1>8, <1>9 DEF OpInv

\* The socket task writes the map, and the relay goes through its steps.
LEMMA OpStepInv ==
  ASSUME OpInv, OpNext
  PROVE  OpInv'
  <1>1. ASSUME HandleList PROVE OpInv'
    BY <1>1, MapInv DEF HandleList
  <1>2. ASSUME NEW p \in People, HandleInfoOrQuit(p) PROVE OpInv'
    <2>1. ListedOps \ {p} \in SUBSET People
      BY DEF ListedOps
    <2> QED BY <1>2, <2>1, MapInv DEF HandleInfoOrQuit
  <1> QED BY <1>1, <1>2, OpRelayInv, OpReadInv, OpLockInv, OpEndInv DEF OpNext

\* An event more, or a step of others.
LEMMA OpRestInv ==
  ASSUME OpInv, UNCHANGED opVars, UNCHANGED log \/ \E kind \in Kinds : Publish(kind)
  PROVE  OpInv'
  <1>1. UNCHANGED <<op, opAt, line, lines, hears, opTurns>>
    BY DEF opVars
  <1>2. OpTypeOK /\ OpLineInv /\ OpOrderInv /\ OpHearsInv /\ log \in Seq(Kinds)
    BY DEF OpInv
  <1>3. log' \in Seq(Kinds) /\ Len(log) <= Len(log') /\ Len(log') \in Nat /\ Len(log) \in Nat
    BY <1>2, AppendProperties DEF Publish
  <1>4. 0 .. Len(log) \subseteq 0 .. Len(log') /\ 1 .. Len(log) \subseteq 1 .. Len(log')
    BY <1>3
  <1>5. /\ Seq(1 .. Len(log)) \subseteq Seq(1 .. Len(log'))
        /\ Seq([event : 1 .. Len(log), from : People \cup {Outsider}])
             \subseteq Seq([event : 1 .. Len(log'), from : People \cup {Outsider}])
    <2>1. [event : 1 .. Len(log), from : People \cup {Outsider}]
            \subseteq [event : 1 .. Len(log'), from : People \cup {Outsider}]
      BY <1>4
    <2> QED BY <1>4, <2>1, SeqMonotonic
  <1>6. OpTypeOK'
    BY <1>1, <1>2, <1>4, <1>5 DEF OpTypeOK
  <1>7. OpLineInv'
    BY <1>1, <1>2 DEF OpLineInv, ListedOps
  <1>8. OpOrderInv' /\ OpHearsInv'
    BY <1>1, <1>2 DEF OpOrderInv, OpHearsInv, YetToHear
  <1> QED BY <1>3, <1>6, <1>7, <1>8 DEF OpInv

\* The invariant accounts for what operators hear.
LEMMA OpInvHear == OpInv => OpsHear
  <1> SUFFICES ASSUME OpInv PROVE OpsHear
    OBVIOUS
  <1>1. OpTypeOK /\ OpLineInv /\ OpOrderInv /\ OpHearsInv /\ log \in Seq(Kinds)
    BY DEF OpInv
  <1>2. ASSUME NEW p \in People, op[p].on, NEW i \in DOMAIN lines,
               lines[i].event > op[p].since, lines[i].from # p,
               lines[i].event < opAt \/ line = NoLine
        PROVE  \E j \in DOMAIN hears[p] : hears[p][j] = lines[i].event
    <2>1. ~(lines[i].event = opAt /\ YetToHear(p))
      BY <1>2, OpTypes DEF YetToHear
    <2> QED BY <1>1, <1>2, <2>1 DEF OpHearsInv
  <1> QED BY <1>1, <1>2 DEF OpsHear, OpLineInv, OpOrderInv

--------------------------------------------------------------------------------
(* The greeter.                                                             *)

\* Something is about to be sent to the user, or under way to it.
OnItsWay == topicPipe # <<>> \/ greeting # None \/ \E s \in Setters : announcing[s] # None

\* Unless it was set in a race, what is sent, or last on its way, or on show with nothing
\* on its way, is the gateway's topic.
GreetTopicInv ==
    ~topicRaced =>
        /\ \A r, s \in Setters : announcing[r] # None /\ announcing[s] # None => r = s
        /\ \A s \in Setters : announcing[s] # None => announcing[s] = hubTopic
        /\ greeting # None => greeting = hubTopic
        /\ (\A s \in Setters : announcing[s] = None) =>
              /\ topicPipe # <<>> => topicPipe[Len(topicPipe)] = hubTopic
              /\ topicPipe = <<>> =>
                    \A k \in 0 .. Len(log) :
                        OnlineSince(k) /\ Told(k) => shows.topic = hubTopic

\* Who is owed the topic has been told one, or one is on its way.
OwedInv == \A k \in 0 .. Len(log) : OnlineSince(k) /\ Owed(k) => Told(k) \/ OnItsWay

UngreetedInv == \A k \in ungreeted : k + Capacity <= Len(log)

GreetInv ==
    /\ log \in Seq(Kinds)
    /\ GreetTypeOK
    /\ GreetTopicInv
    /\ OwedInv
    /\ UngreetedInv

\* At the start nobody has been told a topic, and nobody is owed one.
LEMMA GreetInitInv == Init => GreetInv
  <1> SUFFICES ASSUME Init PROVE GreetInv
    OBVIOUS
  <1>1. /\ log = <<>> /\ hubTopic \in Titles /\ announcing = [s \in Setters |-> None]
        /\ greetAt = 0 /\ greeting = None /\ topicPipe = <<>>
        /\ shows = [at |-> 0, topic |-> None]
        /\ topicRaced = FALSE /\ topicSets = 0 /\ setAt = 0 /\ ungreeted = {}
    BY DEF Init, GreetInit
  <1>2. Len(log) = 0 /\ log \in Seq(Kinds) /\ 0 \in 0 .. MaxTopicSets
    BY <1>1, GreeterAssumption
  <1>3. GreetTypeOK
    <2>1. /\ announcing \in [Setters -> NewTopics \cup {None}] /\ topicPipe \in Seq(Titles)
          /\ greeting \in Titles \cup {None}
      BY <1>1
    <2>4. topicRaced \in BOOLEAN /\ ungreeted \in SUBSET (1 .. greetAt)
      BY <1>1
    <2>2. /\ greetAt \in 0 .. Len(log) /\ topicSets \in 0 .. MaxTopicSets
          /\ setAt \in 0 .. Len(log)
      BY <1>1, <1>2
    <2>3. shows \in [at : 0 .. Len(log), topic : Titles \cup {None}]
      BY <1>1, <1>2
    <2> QED BY <1>1, <2>1, <2>2, <2>3, <2>4 DEF GreetTypeOK
  <1>4. shows.topic = None
    BY <1>1
  <1>5. GreetTopicInv
    BY <1>1, <1>4 DEF GreetTopicInv, Told
  <1>6. \A k : ~Owed(k)
    BY <1>1 DEF Owed
  <1> QED BY <1>1, <1>2, <1>3, <1>5, <1>6 DEF GreetInv, OwedInv, UngreetedInv

\* The types, and that no topic is called what having none is called.
LEMMA GreetTypes ==
  ASSUME GreetInv
  PROVE  /\ Len(log) \in Nat /\ Capacity \in Nat \ {0} /\ MaxTopicSets \in Nat
         /\ greetAt \in 0 .. Len(log) /\ setAt \in 0 .. Len(log) /\ topicSets \in 0 .. MaxTopicSets
         /\ announcing \in [Setters -> NewTopics \cup {None}] /\ topicPipe \in Seq(Titles)
         /\ hubTopic \in Titles /\ greeting \in Titles \cup {None}
         /\ shows.at \in 0 .. Len(log)
         /\ ungreeted \subseteq 1 .. greetAt
         /\ None \notin Titles /\ NewTopics \subseteq Titles
  BY GreeterAssumption, BusAssumption DEF GreetInv, GreetTypeOK, Titles

\* The user is online since one event at most.
LEMMA OneSession ==
  ASSUME GreetInv, NEW j \in 0 .. Len(log), NEW k \in 0 .. Len(log),
         OnlineSince(j), OnlineSince(k)
  PROVE  j = k
  <1>1. Len(log) \in Nat
    BY GreetTypes
  <1>2. ASSUME NEW a \in 0 .. Len(log), NEW b \in 0 .. Len(log), OnlineSince(a),
               OnlineSince(b), a < b
        PROVE  FALSE
    <2>1. b \in a + 1 .. Len(log) /\ b > 0
      BY <1>1, <1>2
    <2>2. log[b] = "user_join" /\ log[b] \notin {"user_join", "user_quit"}
      BY <1>2, <2>1 DEF OnlineSince
    <2> QED BY <2>2
  <1>3. j < k \/ k < j \/ j = k
    BY <1>1
  <1> QED BY <1>2, <1>3

\* A topic is set.
LEMMA WriteTopicInv ==
  ASSUME GreetInv, NEW s \in Setters, WriteTopic(s)
  PROVE  GreetInv'
  <1>1. PICK t \in NewTopics : hubTopic' = t /\ announcing' = [announcing EXCEPT ![s] = t]
    BY DEF WriteTopic
  <1>2. /\ UNCHANGED <<log, greetAt, greeting, topicPipe, shows, ungreeted>>
        /\ topicSets < MaxTopicSets /\ topicSets' = topicSets + 1 /\ setAt' = Len(log)
        /\ topicRaced' = (greeting # None \/ \E r \in Setters : announcing[r] # None)
    BY DEF WriteTopic
  <1>3. /\ announcing' \in [Setters -> NewTopics \cup {None}] /\ announcing'[s] = t
        /\ \A r \in Setters \ {s} : announcing'[r] = announcing[r]
        /\ t # None /\ t \in Titles
    BY <1>1, GreetTypes
  <1>4. GreetTypeOK'
    <2>1. topicRaced' \in BOOLEAN
      BY <1>2
    <2>2. topicSets' \in 0 .. MaxTopicSets /\ setAt' \in 0 .. Len(log)
      BY <1>2, GreetTypes
    <2> QED BY <1>1, <1>2, <1>3, <2>1, <2>2 DEF GreetInv, GreetTypeOK, Titles
  <1>5. GreetTopicInv'
    <2> SUFFICES ASSUME ~topicRaced' PROVE GreetTopicInv'
      BY DEF GreetTopicInv
    <2>1. greeting' = None /\ \A r \in Setters : announcing[r] = None
      BY <1>2
    <2>2. \A r \in Setters : announcing'[r] # None => r = s
      BY <1>3, <2>1
    <2> QED BY <1>1, <1>3, <2>1, <2>2 DEF GreetTopicInv
  <1>6. OwedInv'
    BY <1>3 DEF OwedInv, OnItsWay
  <1> QED BY <1>2, <1>4, <1>5, <1>6 DEF GreetInv, UngreetedInv

\* A topic is sent: by who set it, or by the greeter.
LEMMA SendTopicInv ==
  ASSUME GreetInv, NEW t \in Titles, topicPipe' = Append(topicPipe, t),
         UNCHANGED <<log, hubTopic, greetAt, shows, topicRaced, topicSets, setAt, ungreeted>>,
         ~topicRaced => t = hubTopic,
         \/ /\ UNCHANGED announcing
            /\ greeting' = None
         \/ /\ UNCHANGED greeting
            /\ \E s \in Setters : announcing' = [announcing EXCEPT ![s] = None]
  PROVE  GreetInv'
  <1>1. /\ announcing' \in [Setters -> NewTopics \cup {None}]
        /\ \A s \in Setters : announcing'[s] # None => announcing'[s] = announcing[s]
        /\ greeting' \in {greeting, None}
    BY GreetTypes
  <1>2. /\ topicPipe' \in Seq(Titles) /\ topicPipe' # <<>>
        /\ topicPipe'[Len(topicPipe')] = t
    BY GreetTypes, AppendProperties
  <1>3. GreetTypeOK'
    BY <1>1, <1>2 DEF GreetInv, GreetTypeOK, Titles
  <1>4. GreetTopicInv'
    <2> SUFFICES ASSUME ~topicRaced PROVE GreetTopicInv'
      BY DEF GreetTopicInv
    <2>1. /\ \A r, s \in Setters : announcing[r] # None /\ announcing[s] # None => r = s
          /\ \A s \in Setters : announcing[s] # None => announcing[s] = hubTopic
          /\ greeting # None => greeting = hubTopic
      BY DEF GreetInv, GreetTopicInv
    <2> QED BY <1>1, <1>2, <2>1 DEF GreetTopicInv
  <1>5. OwedInv'
    BY <1>2 DEF OwedInv, OnItsWay
  <1> QED BY <1>3, <1>4, <1>5 DEF GreetInv, UngreetedInv

\* The greeter takes an event, or passes over some.
LEMMA GreeterReadsInv ==
  ASSUME GreetInv, GreeterLags \/ ReadTopic
  PROVE  GreetInv'
  <1>0. /\ UNCHANGED <<log, hubTopic, announcing, topicPipe, shows, topicRaced, topicSets>>
        /\ UNCHANGED setAt /\ greeting = None
    BY DEF GreeterLags, ReadTopic
  <1>1. \A k \in 0 .. Len(log) :
           (OnlineSince(k)' <=> OnlineSince(k)) /\ (Told(k)' <=> Told(k))
    BY <1>0 DEF OnlineSince, Told
  <1>2. CASE GreeterLags
    <2>1. /\ greeting' = None /\ Len(log) - greetAt > Capacity /\ greetAt' = Len(log) - Capacity
          /\ ungreeted' = ungreeted \cup (greetAt + 1 .. greetAt')
      BY <1>0, <1>2 DEF GreeterLags, Lags, Oldest
    <2>7. /\ Len(log) \in Nat /\ Capacity \in Nat \ {0} /\ greetAt \in 0 .. Len(log)
          /\ ungreeted \subseteq 1 .. greetAt
      BY GreetTypes
    <2>8. greetAt' \in 0 .. Len(log) /\ greetAt < greetAt' /\ greetAt' + Capacity = Len(log)
      BY <2>1, <2>7
    <2>9. 1 .. greetAt \subseteq 1 .. greetAt' /\ greetAt + 1 .. greetAt' \subseteq 1 .. greetAt'
      BY <2>7, <2>8
    <2>2. /\ greetAt' \in 0 .. Len(log) /\ greetAt < greetAt' /\ greetAt' + Capacity = Len(log)
          /\ ungreeted' \subseteq 1 .. greetAt'
      BY <2>1, <2>7, <2>8, <2>9
    <2>3. GreetTypeOK'
      BY <1>0, <2>1, <2>2 DEF GreetInv, GreetTypeOK, Titles
    <2>4. GreetTopicInv'
      BY <1>0, <1>1, <2>1 DEF GreetInv, GreetTopicInv
    <2>5. OwedInv'
      <3>1. ASSUME NEW k \in 0 .. Len(log), Owed(k)' PROVE Owed(k)
        <4>1. CASE k \in 1 .. greetAt' /\ k \notin ungreeted'
          <5>1. k \in 1 .. greetAt /\ k \notin ungreeted
            BY <2>1, <2>2, <4>1, GreetTypes
          <5> QED BY <5>1 DEF Owed
        <4>2. CASE ~(k \in 1 .. greetAt' /\ k \notin ungreeted')
          BY <1>0, <3>1, <4>2 DEF Owed
        <4> QED BY <4>1, <4>2
      <3> QED BY <1>0, <1>1, <2>1, <3>1 DEF GreetInv, OwedInv, OnItsWay
    <2>6. UngreetedInv'
      <3>1. ASSUME NEW k \in ungreeted' PROVE k + Capacity <= Len(log)
        <4>1. CASE k \in ungreeted
          BY <4>1 DEF GreetInv, UngreetedInv
        <4>2. CASE k \in greetAt + 1 .. greetAt'
          BY <2>2, <4>2, GreetTypes
        <4> QED BY <2>1, <3>1, <4>1, <4>2
      <3> QED BY <1>0, <3>1 DEF UngreetedInv
    <2> QED BY <1>0, <2>3, <2>4, <2>5, <2>6 DEF GreetInv
  <1>3. CASE ReadTopic
    <2>1. /\ greetAt < Len(log) /\ greetAt' = greetAt + 1 /\ ungreeted' = ungreeted
          /\ greeting' = IF log[greetAt'] = "user_join" THEN hubTopic ELSE None
      BY <1>3 DEF ReadTopic, Pending
    <2>2. greetAt' \in 0 .. Len(log) /\ ungreeted' \subseteq 1 .. greetAt'
      BY <2>1, GreetTypes
    <2>3. greeting' \in Titles \cup {None} /\ (greeting' # None => greeting' = hubTopic)
      BY <2>1, GreetTypes
    <2>4. GreetTypeOK'
      BY <1>0, <2>2, <2>3 DEF GreetInv, GreetTypeOK, Titles
    <2>5. GreetTopicInv'
      BY <1>0, <1>1, <2>3 DEF GreetInv, GreetTopicInv
    <2>6. OwedInv'
      <3>1. ASSUME NEW k \in 0 .. Len(log), OnlineSince(k), Owed(k)', ~Owed(k)
            PROVE  greeting' # None
        <4>1. k = greetAt' /\ k > 0
          BY <1>0, <2>1, <3>1, GreetTypes DEF Owed
        <4>2. log[greetAt'] = "user_join"
          BY <3>1, <4>1 DEF OnlineSince
        <4> QED BY <2>1, <4>2, GreetTypes
      <3> QED BY <1>0, <1>1, <3>1 DEF GreetInv, OwedInv, OnItsWay
    <2> QED BY <1>0, <2>1, <2>4, <2>5, <2>6 DEF GreetInv, UngreetedInv
  <1> QED BY <1>2, <1>3

\* The hub shows a topic to the user, if it is online.
LEMMA HubShowsInv ==
  ASSUME GreetInv, HubShows
  PROVE  GreetInv'
  <1>1. /\ UNCHANGED <<log, hubTopic, announcing, greetAt, greeting, topicRaced, topicSets>>
        /\ UNCHANGED <<setAt, ungreeted>>
        /\ topicPipe # <<>> /\ topicPipe' = Tail(topicPipe)
        /\ \/ \E k \in 0 .. Len(log) :
                 OnlineSince(k) /\ shows' = [at |-> k, topic |-> Head(topicPipe)]
           \/ shows' = shows /\ \A k \in 0 .. Len(log) : ~OnlineSince(k)
    BY DEF HubShows
  <1>2. /\ Len(topicPipe) \in Nat \ {0} /\ topicPipe' \in Seq(Titles)
        /\ Head(topicPipe) = topicPipe[1] /\ Head(topicPipe) \in Titles
        /\ Len(topicPipe') = Len(topicPipe) - 1
        /\ \A i \in 1 .. Len(topicPipe') : topicPipe'[i] = topicPipe[i + 1]
        /\ topicPipe' = <<>> <=> Len(topicPipe') = 0
    <2>1. topicPipe \in Seq(Titles) /\ topicPipe # <<>> /\ topicPipe' = Tail(topicPipe)
      BY <1>1, GreetTypes
    <2>2. /\ Head(topicPipe) \in Titles /\ Tail(topicPipe) \in Seq(Titles)
          /\ Len(Tail(topicPipe)) = Len(topicPipe) - 1
          /\ \A i \in 1 .. Len(Tail(topicPipe)) : Tail(topicPipe)[i] = topicPipe[i + 1]
      BY <2>1, HeadTailProperties
    <2>3. Len(topicPipe) \in Nat \ {0} /\ Head(topicPipe) = topicPipe[1]
      BY <2>1, EmptySeq
    <2>4. topicPipe' = <<>> <=> Len(topicPipe') = 0
      BY <2>1, <2>2, EmptySeq
    <2> QED BY <2>1, <2>2, <2>3, <2>4
  <1>3. GreetTypeOK'
    <2>1. shows' \in [at : 0 .. Len(log), topic : Titles \cup {None}]
      BY <1>1, <1>2 DEF GreetInv, GreetTypeOK
    <2> QED BY <1>1, <1>2, <2>1 DEF GreetInv, GreetTypeOK, Titles
  \* A user who is online is told.
  <1>4. ASSUME NEW k \in 0 .. Len(log), OnlineSince(k)
        PROVE  shows'.at = k /\ shows'.topic = Head(topicPipe) /\ Head(topicPipe) # None
    <2>1. PICK j \in 0 .. Len(log) :
             OnlineSince(j) /\ shows' = [at |-> j, topic |-> Head(topicPipe)]
      BY <1>1, <1>4
    <2>2. j = k
      BY <1>4, <2>1, OneSession
    <2> QED BY <1>2, <2>1, <2>2, GreetTypes
  <1>5. \A k : OnlineSince(k)' <=> OnlineSince(k)
    BY <1>1 DEF OnlineSince
  <1>6. GreetTopicInv'
    <2> SUFFICES ASSUME ~topicRaced, \A s \in Setters : announcing[s] = None
                 PROVE  /\ topicPipe' # <<>> => topicPipe'[Len(topicPipe')] = hubTopic
                        /\ topicPipe' = <<>> =>
                              \A k \in 0 .. Len(log) :
                                  OnlineSince(k)' /\ Told(k)' => shows'.topic = hubTopic
      BY <1>1 DEF GreetInv, GreetTopicInv
    <2>1. topicPipe[Len(topicPipe)] = hubTopic
      BY <1>1 DEF GreetInv, GreetTopicInv
    <2>2. CASE topicPipe' = <<>>
      <3>1. Len(topicPipe') = 0
        BY <1>2, <2>2
      <3>2. Len(topicPipe) = 1
        BY <1>2, <3>1
      <3>3. Head(topicPipe) = hubTopic
        BY <1>2, <2>1, <3>2
      <3> QED BY <1>4, <1>5, <2>2, <3>3
    <2>3. CASE topicPipe' # <<>>
      <3>1. Len(topicPipe') \in 1 .. Len(topicPipe')
        BY <1>2, <2>3
      <3>2. topicPipe'[Len(topicPipe')] = topicPipe[Len(topicPipe)]
        BY <1>2, <3>1
      <3> QED BY <2>1, <2>3, <3>2
    <2> QED BY <2>2, <2>3
  <1>7. OwedInv'
    BY <1>1, <1>4, <1>5 DEF OwedInv, Told
  <1> QED BY <1>1, <1>3, <1>6, <1>7 DEF GreetInv, UngreetedInv

\* Setters, the greeter and the hub.
LEMMA GreetStepInv ==
  ASSUME GreetInv, GreetNext
  PROVE  GreetInv'
  <1>1. ASSUME NEW s \in Setters, Announce(s) PROVE GreetInv'
    <2>1. announcing[s] \in Titles
      BY <1>1, GreetTypes DEF Announce
    <2>2. ~topicRaced => announcing[s] = hubTopic
      BY <1>1 DEF Announce, GreetInv, GreetTopicInv
    <2>3. /\ topicPipe' = Append(topicPipe, announcing[s])
          /\ UNCHANGED <<log, hubTopic, greetAt, shows, topicRaced, topicSets, setAt, ungreeted>>
          /\ UNCHANGED greeting
          /\ announcing' = [announcing EXCEPT ![s] = None]
      BY <1>1 DEF Announce
    <2> QED BY <2>1, <2>2, <2>3, SendTopicInv
  <1>2. ASSUME Greet PROVE GreetInv'
    <2>1. greeting \in Titles
      BY <1>2, GreetTypes DEF Greet
    <2>2. ~topicRaced => greeting = hubTopic
      BY <1>2 DEF Greet, GreetInv, GreetTopicInv
    <2>3. /\ topicPipe' = Append(topicPipe, greeting)
          /\ UNCHANGED <<log, hubTopic, greetAt, shows, topicRaced, topicSets, setAt, ungreeted>>
          /\ UNCHANGED announcing /\ greeting' = None
      BY <1>2 DEF Greet
    <2> QED BY <2>1, <2>2, <2>3, SendTopicInv
  <1> QED BY <1>1, <1>2, WriteTopicInv, GreeterReadsInv, HubShowsInv DEF GreetNext

\* An event more, or a step of others: who comes now has been told nothing and is not owed
\* anything yet.
LEMMA GreetRestInv ==
  ASSUME GreetInv, UNCHANGED greetVars,
         UNCHANGED log \/ \E kind \in Kinds : Publish(kind)
  PROVE  GreetInv'
  <1>1. /\ UNCHANGED <<hubTopic, announcing, greetAt, greeting, topicPipe, shows, topicRaced>>
        /\ UNCHANGED <<topicSets, setAt, ungreeted>>
    BY DEF greetVars
  <1>2. log \in Seq(Kinds) /\ Len(log) \in Nat
    BY DEF GreetInv
  <1>3. /\ log' \in Seq(Kinds) /\ Len(log') \in Nat /\ Len(log) <= Len(log')
        /\ Len(log') <= Len(log) + 1
        /\ \A k \in 1 .. Len(log) : log'[k] = log[k]
    BY <1>2 DEF Publish
  <1>4. GreetTypeOK'
    <2>1. 0 .. Len(log) \subseteq 0 .. Len(log')
      BY <1>2, <1>3
    <2>2. shows \in [at : 0 .. Len(log'), topic : Titles \cup {None}]
      BY <2>1 DEF GreetInv, GreetTypeOK
    <2>3. greetAt \in 0 .. Len(log') /\ setAt \in 0 .. Len(log')
      BY <2>1, GreetTypes
    <2> QED BY <1>1, <2>2, <2>3 DEF GreetInv, GreetTypeOK, Titles
  <1>5. ASSUME NEW k \in 0 .. Len(log'), OnlineSince(k)', Told(k) \/ Owed(k)
        PROVE  k \in 0 .. Len(log) /\ OnlineSince(k)
    <2>1. k \in 0 .. Len(log)
      BY <1>2, <1>5, GreetTypes DEF Told, Owed
    <2>2. /\ k > 0 => log'[k] = log[k]
          /\ \A m \in k + 1 .. Len(log) : m \in k + 1 .. Len(log') /\ log'[m] = log[m]
      BY <1>2, <1>3, <2>1
    <2> QED BY <1>5, <2>1, <2>2 DEF OnlineSince
  <1>6. \A k : (Told(k)' <=> Told(k)) /\ (Owed(k)' <=> Owed(k))
    BY <1>1 DEF Told, Owed
  <1>7. GreetTopicInv'
    BY <1>1, <1>5, <1>6 DEF GreetInv, GreetTopicInv
  <1>8. OwedInv'
    BY <1>1, <1>5, <1>6 DEF GreetInv, OwedInv, OnItsWay
  <1>9. UngreetedInv'
    <2>1. ASSUME NEW k \in ungreeted PROVE k + Capacity <= Len(log')
      <3>1. k + Capacity <= Len(log) /\ k \in Nat /\ Capacity \in Nat
        BY GreetTypes DEF GreetInv, UngreetedInv
      <3> QED BY <1>2, <1>3, <3>1
    <2> QED BY <1>1, <2>1 DEF UngreetedInv
  <1> QED BY <1>3, <1>4, <1>7, <1>8, <1>9 DEF GreetInv

--------------------------------------------------------------------------------
(* The services together.                                                   *)

OutsideInv == WsInv /\ HookInv /\ BotInv /\ ForwardedInv /\ using \in Uses

\* The invariants hold at the start.
LEMMA OutsideInit == Init => OutsideInv
  BY WsInitInv, HookInitInv, BotInitInv, ForwardedInitInv DEF OutsideInv, Init

\* Only PublishEvent publishes.
LEMMA QuietLog ==
  ASSUME WsNext \/ HookNext \/ BotNext \/ WatchNext \/ OpNext \/ GreetNext
  PROVE  log' = log
  <1>1. WsNext => log' = log
    BY DEF WsNext, WsRequest, WsStep, Admit, AdmitNow, Count, Upgrade, UpgradeFails,
       ClientGoes, Lag, PassOn, SeeItGone, Uncount
  <1>2. CASE HookNext
    <2>1. ASSUME NEW r \in Creators, CountHooks(r) \/ InsertHook(r)
          PROVE  log' = log
      <3>1. CountHooks(r) => UNCHANGED log
        BY DEF CountHooks, HasRoom
      <3>2. InsertHook(r) => UNCHANGED log
        BY DEF InsertHook
      <3> QED BY <2>1, <3>1, <3>2
    <2>2. ASSUME NEW w \in hooks, UpdateHook(w) \/ DeleteHook(w)
          PROVE  log' = log
      BY <2>2 DEF UpdateHook, DeleteHook
    <2>3. DispatcherLags \/ DispatchEvent => log' = log
      BY DEF DispatcherLags, DispatchEvent
    <2>4. ASSUME NEW d \in deliveries, Succeed(d) \/ Fail(d)
          PROVE  log' = log
      BY <2>4 DEF Succeed, Fail
    <2> QED BY <1>2, <2>1, <2>2, <2>3, <2>4 DEF HookNext
  <1>3. BotNext => log' = log
    BY DEF BotNext, RegisterBot, UnregisterBot, ForwarderSubscribes, ForwarderLags,
       PassOverTo, ForwardEvent, ForwardOrEnd, ProcessorLags, Route, ValidateToken, OpenStream,
       StreamStep, StreamLags, Yield, EndStream, BotDisconnects
  <1>4. WatchNext => log' = log
    BY DEF WatchNext, Change, CreateWatch, DeleteWatch, TellWatcher, BanChanges, EventsLost,
       ReadEvent, FindWatchers
  <1>5. OpNext => log' = log
    BY DEF OpNext, HandleList, HandleInfoOrQuit, MapShows, RelayTo, RelayLags, ReceiveLine,
       LockUsers, EndRelay
  <1>6. GreetNext => log' = log
    BY DEF GreetNext, WriteTopic, Announce, GreeterLags, ReadTopic, Greet, HubShows
  <1> QED BY <1>1, <1>2, <1>3, <1>4, <1>5, <1>6

\* Every step keeps the invariants of the services that face the outside.
LEMMA OutsideStep ==
  ASSUME OutsideInv, [Next]_vars
  PROVE  OutsideInv'
  <1>0. WsInv /\ HookInv /\ BotInv /\ ForwardedInv /\ using \in Uses
    BY DEF OutsideInv
  <1>1. using' = using
    BY DEF Next, UsesNow, PublishEvent, vars
  <1>2. CASE PublishEvent
    <2>1. using.kinds \subseteq Kinds
      BY <1>0, UsesAssumption
    <2>2. PICK kind \in Kinds : Publish(kind)
      BY <1>2, <2>1 DEF PublishEvent
    <2>3. UNCHANGED wsVars /\ UNCHANGED hookVars /\ UNCHANGED botVars
      BY <1>2 DEF PublishEvent, outside
    <2>4. WsInv'
      <3>1. log' = Append(log, kind)
        BY <2>2 DEF Publish
      <3> QED BY <1>0, <2>3, <3>1, WsPublishInv
    <2>5. HookInv' /\ BotInv' /\ ForwardedInv'
      BY <1>0, <2>2, <2>3, HookPublishInv, BotPublishInv, ForwardedRestInv
    <2> QED BY <1>0, <1>1, <2>4, <2>5 DEF OutsideInv
  <1>3. CASE WsNext /\ UNCHANGED <<hookVars, botVars>>
    <2>1. log' = log
      BY <1>3, QuietLog
    <2>2. WsInv'
      BY <1>0, <1>3, WsRequestInv, WsStepInv DEF WsNext
    <2> QED BY <1>0, <1>1, <1>3, <2>1, <2>2, HookRestInv, BotRestInv, ForwardedRestInv
            DEF OutsideInv
  <1>4. CASE HookNext /\ UNCHANGED <<wsVars, botVars>>
    <2>1. log' = log
      BY <1>4, QuietLog
    <2> QED BY <1>0, <1>1, <1>4, <2>1, HookStepInv, WsRestInv, BotRestInv, ForwardedRestInv
            DEF OutsideInv
  <1>5. CASE BotNext /\ UNCHANGED <<wsVars, hookVars>>
    <2>1. log' = log
      BY <1>5, QuietLog
    <2> QED BY <1>0, <1>1, <1>5, <2>1, BotStepInv, ForwardedStepInv, WsRestInv, HookRestInv
            DEF OutsideInv
  <1>6. CASE UNCHANGED <<log, outside>>
    BY <1>0, <1>1, <1>6, WsRestInv, HookRestInv, BotRestInv, ForwardedRestInv
    DEF OutsideInv, outside
  <1>7. WatchNext \/ OpNext \/ GreetNext => log' = log
    BY QuietLog
  <1> QED BY <1>2, <1>3, <1>4, <1>5, <1>6, <1>7 DEF Next, UsesNow, outside, vars

\* The invariants of the three services hold throughout.
LEMMA OutsideAlways == Spec => []OutsideInv
  BY OutsideInit, OutsideStep, PTL DEF Spec

\* The WebSocket connections and the webhooks stay within their limits but for requests
\* that race, and no stream goes uncounted (api/websocket.rs:75-100,
\* webhook/manager.rs:77-104).
THEOREM LimitsAreKept == Spec => []LimitsHold
  <1>1. OutsideInv => LimitsHold
    BY DEF OutsideInv, WsInv, WsLimitInv, HookInv, HookLimitInv, LimitsHold, WsLimit, HookLimit
  <1> QED BY <1>1, OutsideAlways, PTL

\* The WebSocket clients get all they asked for, in order and once, or are told which
\* events they missed; and so does a bot with what comes into its channel.  What its
\* forwarder passes over on the way there the bot is not told of, but it is only what the
\* ring no longer held, and everything else that it subscribed to comes
\* (api/websocket.rs:159-184, api/bot.rs:764-788, 887-925).
THEOREM StreamsAreComplete == Spec => []StreamsComplete
  <1>1. OutsideInv => StreamsComplete
    <2> SUFFICES ASSUME OutsideInv PROVE WsComplete /\ ChannelComplete /\ BotComplete
      BY DEF StreamsComplete
    <2>1. WsComplete
      BY DEF OutsideInv, WsInv, WsStreamInv, WsComplete, CountedStates, WantedBy
    <2>2. BotComplete
      BY DEF OutsideInv, BotInv, BotStreamInv, StreamGood, BotComplete
    <2>3. ChannelComplete
      BY DEF OutsideInv, ForwardedInv, Forwarded, SentTo, ChannelComplete
    <2> QED BY <2>1, <2>2, <2>3
  <1> QED BY <1>1, OutsideAlways, PTL

\* No event reaches a bot twice on one way, nor out of order, and no webhook is sent an
\* event again that it has confirmed (api/bot.rs:890-915, main.rs:312-329,
\* webhook/delivery.rs:37-79).
THEOREM NothingIsTwice == Spec => []NothingTwice
  <1>1. OutsideInv => NothingTwice
    BY DEF OutsideInv, HookInv, BotInv, NothingTwice
  <1> QED BY <1>1, OutsideAlways, PTL

\* The services that tell the users of the hub something.
InsideInv == WatchInv /\ OpInv /\ GreetInv

\* They start with nobody to tell.
LEMMA InsideInit == Init => InsideInv
  BY WatchInitInv, OpInitInv, GreetInitInv DEF InsideInv

\* A step of one of them leaves the others alone, and so does everybody else's.
LEMMA InsideStep ==
  ASSUME OutsideInv, InsideInv, [Next]_vars
  PROVE  InsideInv'
  <1>0. WatchInv /\ OpInv /\ GreetInv /\ using \in Uses
    BY DEF InsideInv, OutsideInv
  <1>1. CASE PublishEvent
    <2>1. using.kinds \subseteq Kinds
      BY <1>0, UsesAssumption
    <2>2. PICK kind \in Kinds : Publish(kind)
      BY <1>1, <2>1 DEF PublishEvent
    <2>3. UNCHANGED watchVars /\ UNCHANGED opVars /\ UNCHANGED greetVars
      BY <1>1 DEF PublishEvent, inside
    <2> QED BY <1>0, <2>2, <2>3, WatchPublishInv, OpRestInv, GreetRestInv DEF InsideInv
  <1>2. CASE WatchNext /\ UNCHANGED <<opVars, greetVars>>
    <2>1. log' = log
      BY <1>2, QuietLog
    <2> QED BY <1>0, <1>2, <2>1, WatchStepInv, OpRestInv, GreetRestInv DEF InsideInv
  <1>3. CASE OpNext /\ UNCHANGED <<watchVars, greetVars>>
    <2>1. log' = log
      BY <1>3, QuietLog
    <2> QED BY <1>0, <1>3, <2>1, OpStepInv, WatchRestInv, GreetRestInv DEF InsideInv
  <1>4. CASE GreetNext /\ UNCHANGED <<watchVars, opVars>>
    <2>1. log' = log
      BY <1>4, QuietLog
    <2> QED BY <1>0, <1>4, <2>1, GreetStepInv, WatchRestInv, OpRestInv DEF InsideInv
  <1>5. CASE UNCHANGED <<log, inside>>
    BY <1>0, <1>5, WatchRestInv, OpRestInv, GreetRestInv DEF InsideInv, inside
  <1>6. WsNext \/ HookNext \/ BotNext => log' = log
    BY QuietLog
  <1> QED BY <1>1, <1>2, <1>3, <1>4, <1>5, <1>6 DEF Next, UsesNow, inside, vars

\* The invariants of all six services hold throughout.
LEMMA InsideAlways == Spec => []InsideInv
  BY InsideInit, InsideStep, OutsideAlways, PTL DEF Spec

\* Types, of the bus and of the state of all six services.
THEOREM TypeCorrect == Spec => []TypeOK
  <1>1. OutsideInv /\ InsideInv => TypeOK
    BY DEF OutsideInv, WsInv, HookInv, BotInv, InsideInv, WatchInv, OpInv, GreetInv, TypeOK
  <1> QED BY <1>1, OutsideAlways, InsideAlways, PTL

\* Watchers are told of every login and logout they are due, once and in order; operators
\* that the user map shows get every line; and once all is sent a user who was seen to come,
\* or was there when the topic was set, has been told it since it came, and shows the
\* gateway's unless that was last set in a race.  Whom the greeter overlooks it overlooks
\* for a ring that had moved on (db/event_processor.rs:85-114, opchat.rs:42-73,
\* greeter.rs:35-61).
THEOREM NoticesAreTrue == Spec => []NoticesTrue
  <1>1. GreetInv => TopicOnShow
    BY DEF GreetInv, GreetTopicInv, OwedInv, UngreetedInv, OnItsWay, TopicSettled, TopicOnShow
  <1>2. InsideInv => NoticesTrue
    BY <1>1, WatchInvTold, OpInvHear DEF InsideInv, NoticesTrue
  <1> QED BY <1>2, InsideAlways, PTL
================================================================================
