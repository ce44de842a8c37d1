--------------------------- MODULE BotRegistryProofs ---------------------------
(***************************************************************************)
(* The registry's types and its forwarders, for any number of bots,        *)
(* commands and overlapping calls, and the hub's view of the registry,     *)
(* for any number of calls of which no two about one nick overlap.         *)
(* TokenInv is the strengthening for the forwarders: tokens are given      *)
(* once, so a token identifies its registration.  AgreeInv is the one for  *)
(* the hub: it compares the registry with what the hub will show once it   *)
(* has read what is under way.                                             *)
(***************************************************************************)
EXTENDS BotRegistry, TLAPS, SequenceTheorems

Forwarders == [nick : Nicks, token : 1 .. MaxTokens]

TokenInv ==
    /\ \A n \in Nicks : bots[n].token <= tokens
    /\ \A f \in running : f.token <= tokens
    /\ \A m, n \in Nicks : bots[m].token = bots[n].token /\ bots[m].token # 0 => m = n
    /\ \A n \in Nicks, f \in running : bots[n].token = f.token => f.nick = n

RegistryInv ==
    /\ bots \in [Nicks -> Registrations \cup {NoBot}]
    /\ tokens \in 0 .. MaxTokens
    /\ running \subseteq Forwarders

FwdInv == RegistryInv /\ TokenInv /\ OneForwarderEach

USE RegistryAssumption

\* No registrations at the start.
LEMMA InitFwd == Init => FwdInv
  BY DEF Init, FwdInv, RegistryInv, TokenInv, OneForwarderEach, Registered, NoBot, Forwarders

\* A registration takes a new token, and its forwarder with it.
LEMMA RegisterFwd ==
  ASSUME FwdInv, NEW h \in Calls, NEW n \in Nicks, Register(h, n)
  PROVE  FwdInv'
  <1>1. PICK cs \in SUBSET Commands, fw \in BOOLEAN :
            /\ bots' = [bots EXCEPT ![n] =
                            [token |-> tokens + 1, commands |-> cs, forwards |-> fw]]
            /\ running' = IF fw THEN running \cup {[nick |-> n, token |-> tokens + 1]}
                          ELSE running
    BY DEF Register
  <1>2. tokens \in Nat /\ tokens + 1 \in 1 .. MaxTokens /\ tokens' = tokens + 1
    BY DEF FwdInv, RegistryInv, Register
  <1>3. RegistryInv'
    <2>1. bots' \in [Nicks -> Registrations \cup {NoBot}]
      BY <1>1, <1>2 DEF FwdInv, RegistryInv, Registrations
    <2>2. running' \subseteq Forwarders
      BY <1>1, <1>2 DEF FwdInv, RegistryInv, Forwarders
    <2> QED BY <1>2, <2>1, <2>2 DEF RegistryInv
  <1>4. /\ \A m \in Nicks : bots[m].token \in Nat /\ bots[m].token <= tokens
        /\ \A f \in running : f.token \in Nat /\ f.token <= tokens
    BY DEF FwdInv, RegistryInv, TokenInv, Registrations, NoBot, Forwarders
  <1>5. /\ bots'[n].token = tokens + 1
        /\ bots'[n].forwards = fw
        /\ \A m \in Nicks \ {n} : bots'[m] = bots[m]
    BY <1>1 DEF FwdInv, RegistryInv
  <1>6. \A f \in running' : f \in running \/ (fw /\ f = [nick |-> n, token |-> tokens + 1])
    BY <1>1
  <1>7. TokenInv'
    <2>1. \A m \in Nicks : bots'[m].token <= tokens'
      BY <1>2, <1>4, <1>5
    <2>2. \A f \in running' : f.token <= tokens'
      BY <1>2, <1>4, <1>6
    <2>3. ASSUME NEW l \in Nicks, NEW m \in Nicks,
                 bots'[l].token = bots'[m].token, bots'[l].token # 0
          PROVE  l = m
      BY <1>2, <1>4, <1>5, <2>3 DEF FwdInv, TokenInv
    <2>4. ASSUME NEW m \in Nicks, NEW f \in running', bots'[m].token = f.token
          PROVE  f.nick = m
      <3>1. CASE f \in running
        BY <1>2, <1>4, <1>5, <2>4, <3>1 DEF FwdInv, TokenInv
      <3>2. CASE f = [nick |-> n, token |-> tokens + 1]
        BY <1>2, <1>4, <1>5, <2>4, <3>2
      <3> QED BY <1>6, <3>1, <3>2
    <2> QED BY <2>1, <2>2, <2>3, <2>4 DEF TokenInv
  <1>8. OneForwarderEach'
    <2>1. ASSUME NEW m \in Nicks, bots'[m].token # 0
          PROVE  bots'[m].forwards <=> [nick |-> m, token |-> bots'[m].token] \in running'
      <3>1. CASE m = n
        <4>1. [nick |-> n, token |-> tokens + 1] \notin running
          BY <1>2, <1>4
        <4> QED BY <1>1, <1>5, <3>1, <4>1
      <3>2. CASE m # n
        <4>1. bots'[m] = bots[m] /\ m \in Registered
          BY <1>5, <2>1, <3>2 DEF Registered
        <4>2. [nick |-> m, token |-> bots[m].token] # [nick |-> n, token |-> tokens + 1]
          BY <1>2, <1>4
        <4>3. [nick |-> m, token |-> bots[m].token] \in running'
                 <=> [nick |-> m, token |-> bots[m].token] \in running
          BY <1>1, <4>2
        <4> QED BY <4>1, <4>3 DEF FwdInv, OneForwarderEach
      <3> QED BY <3>1, <3>2
    <2>2. ASSUME NEW f \in running', NEW g \in running', f.token = g.token
          PROVE  f = g
      BY <1>2, <1>4, <1>6, <2>2 DEF FwdInv, OneForwarderEach
    <2> QED BY <2>1, <2>2 DEF OneForwarderEach, Registered
  <1> QED BY <1>3, <1>7, <1>8 DEF FwdInv

\* A removal leaves the forwarders: they end by themselves.
LEMMA RemoveFwd ==
  ASSUME FwdInv, NEW h \in Calls, Remove(h), call[h].nick \in Nicks
  PROVE  FwdInv'
  <1> DEFINE n == call[h].nick
  <1>1. /\ bots' = [bots EXCEPT ![n] = NoBot]
        /\ UNCHANGED <<tokens, running>>
    BY DEF Remove, forwarderVars
  <1>2. /\ bots'[n] = NoBot
        /\ \A m \in Nicks \ {n} : bots'[m] = bots[m]
    BY <1>1 DEF FwdInv, RegistryInv
  <1>3. \A m \in Nicks : bots'[m].token # 0 => bots'[m] = bots[m]
    BY <1>2 DEF NoBot
  <1>4. RegistryInv'
    BY <1>1 DEF FwdInv, RegistryInv
  <1>5. \A f \in running : f.token # 0
    BY DEF FwdInv, RegistryInv, Forwarders
  <1>6. TokenInv'
    <2>1. \A m \in Nicks : bots'[m].token <= tokens
      BY <1>2, <1>3 DEF FwdInv, TokenInv, RegistryInv, NoBot
    <2> QED BY <1>1, <1>3, <1>5, <2>1 DEF FwdInv, TokenInv
  <1>7. OneForwarderEach'
    BY <1>1, <1>3 DEF FwdInv, OneForwarderEach, Registered
  <1> QED BY <1>4, <1>6, <1>7 DEF FwdInv

\* A forwarder that ends is none of a present registration.
LEMMA ForwardFwd ==
  ASSUME FwdInv, NEW f \in running, Forward(f)
  PROVE  FwdInv'
  <1>1. /\ UNCHANGED <<bots, tokens>>
        /\ running' = IF bots[f.nick].token = f.token THEN running ELSE running \ {f}
    BY DEF Forward, registryVars
  <1>2. CASE bots[f.nick].token = f.token
    BY <1>1, <1>2 DEF FwdInv, RegistryInv, TokenInv, OneForwarderEach, Registered
  <1>3. CASE bots[f.nick].token # f.token
    <2>1. running' = running \ {f}
      BY <1>1, <1>3
    <2>2. \A n \in Nicks : [nick |-> n, token |-> bots[n].token] # f
      BY <1>3
    <2> QED BY <1>1, <2>1, <2>2
            DEF FwdInv, RegistryInv, TokenInv, OneForwarderEach, Registered
  <1> QED BY <1>2, <1>3

\* Every other action leaves the registrations and the forwarders alone.
LEMMA OtherFwd ==
  ASSUME FwdInv, UNCHANGED <<bots, tokens, running>>
  PROVE  FwdInv'
  BY DEF FwdInv, RegistryInv, TokenInv, OneForwarderEach, Registered

--------------------------------------------------------------------------------
(* Types.                                                                     *)

AddCalls == [op : {"add", "claim"}, nick : Nicks, commands : SUBSET Commands]
RemoveCalls == [op : {"remove", "withdraw", "release"}, nick : Nicks]

CallType == call \in [Calls -> {Idle} \cup AddCalls \cup RemoveCalls]

\* What a handler is doing tells the shape of its record.
LEMMA CallShapes ==
  ASSUME CallType, NEW h \in Calls
  PROVE  /\ call[h].op \in {"add", "claim"} => call[h] \in AddCalls
         /\ call[h].op \in {"remove", "withdraw", "release"} => call[h] \in RemoveCalls
  BY DEF CallType, AddCalls, RemoveCalls, Idle

\* The handlers keep their shapes.
LEMMA CallTypeStep ==
  ASSUME CallType, [Next]_vars
  PROVE  CallType'
  <1>1. CASE call' = call
    BY <1>1 DEF CallType
  <1>2. ASSUME NEW h \in Calls, NEW n \in Nicks, Register(h, n)
        PROVE  CallType'
    BY <1>2 DEF CallType, Register, AddCalls
  <1>3. ASSUME NEW h \in Calls, NEW n \in Nicks, CheckToken(h, n)
        PROVE  CallType'
    BY <1>3 DEF CallType, CheckToken, RemoveCalls
  <1>4. ASSUME NEW h \in Calls, Announce(h)
        PROVE  CallType'
    <2>1. call[h] \in AddCalls
      BY <1>4, CallShapes DEF Announce
    <2>2. [call[h] EXCEPT !.op = "claim"] \in AddCalls
      BY <2>1 DEF AddCalls
    <2>3. call' = [call EXCEPT ![h] = [call[h] EXCEPT !.op = "claim"]]
      BY <1>4 DEF Announce
    <2> QED BY <2>2, <2>3 DEF CallType
  <1>5. ASSUME NEW h \in Calls, Claim(h) \/ Release(h)
        PROVE  CallType'
    BY <1>5 DEF CallType, Claim, Release
  <1>6. ASSUME NEW h \in Calls, Remove(h)
        PROVE  CallType'
    <2>1. call[h] \in RemoveCalls
      BY <1>6, CallShapes DEF Remove
    <2>2. [call[h] EXCEPT !.op = "withdraw"] \in RemoveCalls
      BY <2>1 DEF RemoveCalls
    <2>3. call' = [call EXCEPT ![h] = [call[h] EXCEPT !.op = "withdraw"]]
      BY <1>6 DEF Remove
    <2> QED BY <2>2, <2>3 DEF CallType
  <1>7. ASSUME NEW h \in Calls, Withdraw(h)
        PROVE  CallType'
    <2>1. call[h] \in RemoveCalls
      BY <1>7, CallShapes DEF Withdraw
    <2>2. [call[h] EXCEPT !.op = "release"] \in RemoveCalls
      BY <2>1 DEF RemoveCalls
    <2>3. call' = [call EXCEPT ![h] = [call[h] EXCEPT !.op = "release"]]
      BY <1>7 DEF Withdraw
    <2> QED BY <2>2, <2>3 DEF CallType
  <1>8. Publish \/ (\E f \in running : Forward(f)) \/ StartReadd \/ ProcessorLags
          \/ (\E n \in Nicks : Readd(n)) \/ LinkDown \/ LinkUp \/ HubTakes
          \/ UNCHANGED vars => call' = call
    BY DEF Publish, Forward, StartReadd, ProcessorLags, Readd, LinkDown, LinkUp, HubTakes, vars
  <1> QED BY <1>1, <1>2, <1>3, <1>4, <1>5, <1>6, <1>7, <1>8 DEF Next, CallStep

PipeType == pipe \in Seq(HubCommands)

\* The pipe holds commands, whoever puts them, ...
LEMMA PutType ==
  ASSUME PipeType, NEW cmd \in HubCommands, Put(cmd)
  PROVE  PipeType'
  BY AppendProperties DEF PipeType, Put

\* ... and whatever is lost of them.
LEMMA LosesOldestType ==
  ASSUME PipeType, LosesOldest
  PROVE  PipeType'
  <1>1. PICK k \in 0 .. Len(pipe) : pipe' = SubSeq(pipe, k + 1, Len(pipe))
    BY DEF LosesOldest
  <1>2. Len(pipe) \in Nat /\ \A i \in k + 1 .. Len(pipe) : pipe[i] \in HubCommands
    BY LenProperties, ElementOfSeq DEF PipeType
  <1> QED BY <1>1, <1>2, SubSeqProperties DEF PipeType

\* Every action keeps the type of the pipe.
LEMMA PipeTypeStep ==
  ASSUME PipeType, CallType, [Next]_vars
  PROVE  PipeType'
  <1>1. ASSUME NEW h \in Calls, Announce(h) PROVE PipeType'
    <2>1. [op |-> "add", nick |-> call[h].nick] \in HubCommands
      BY <1>1, CallShapes DEF Announce, AddCalls, HubCommands
    <2> QED BY <1>1, <2>1, PutType DEF Announce
  <1>2. ASSUME NEW h \in Calls, Withdraw(h) PROVE PipeType'
    <2>1. [op |-> "remove", nick |-> call[h].nick] \in HubCommands
      BY <1>2, CallShapes DEF Withdraw, RemoveCalls, HubCommands
    <2> QED BY <1>2, <2>1, PutType DEF Withdraw
  <1>3. ASSUME NEW n \in Nicks, Readd(n) PROVE PipeType'
    <2>1. [op |-> "add", nick |-> n] \in HubCommands
      BY DEF HubCommands
    <2> QED BY <1>3, <2>1, PutType DEF Readd
  <1>4. CASE LinkDown \/ LinkUp
    BY <1>4, LosesOldestType DEF LinkDown, LinkUp
  <1>5. CASE HubTakes
    BY <1>5, HeadTailProperties DEF HubTakes, PipeType
  <1>6. (\E h \in Calls, n \in Nicks : Register(h, n) \/ CheckToken(h, n))
          \/ (\E h \in Calls : Claim(h) \/ Remove(h) \/ Release(h))
          \/ Publish \/ (\E f \in running : Forward(f)) \/ StartReadd \/ ProcessorLags
          \/ UNCHANGED vars
          => pipe' = pipe
    BY DEF Register, CheckToken, Claim, Remove, Release, Publish, Forward, StartReadd,
           ProcessorLags, vars
  <1> QED BY <1>1, <1>2, <1>3, <1>4, <1>5, <1>6 DEF Next, CallStep, PipeType

RestType ==
    /\ disabled \subseteq Commands
    /\ behind \subseteq running
    /\ up \in BOOLEAN
    /\ drops \in 0 .. MaxDrops
    /\ restored \in BOOLEAN
    /\ missed \in BOOLEAN
    /\ readding \subseteq Nicks
    /\ virtual \subseteq Nicks

\* Every action keeps the types of the other variables.
LEMMA RestTypeStep ==
  ASSUME RestType, PipeType, CallType, [Next]_vars
  PROVE  RestType'
  <1> USE DEF RestType, registryVars, forwarderVars, linkVars
  <1>1. ASSUME NEW h \in Calls, NEW n \in Nicks, Register(h, n) \/ CheckToken(h, n)
        PROVE  RestType'
    BY <1>1 DEF Register, CheckToken
  <1>2. ASSUME NEW h \in Calls, Claim(h)
        PROVE  RestType'
    <2>1. call[h].commands \subseteq Commands
      BY <1>2, CallShapes DEF Claim, AddCalls
    <2> QED BY <1>2, <2>1 DEF Claim
  <1>3. ASSUME NEW h \in Calls, Announce(h) \/ Remove(h) \/ Withdraw(h) \/ Release(h)
        PROVE  RestType'
    BY <1>3 DEF Announce, Remove, Withdraw, Release
  <1>4. CASE Publish
    BY <1>4 DEF Publish
  <1>5. ASSUME NEW f \in running, Forward(f)
        PROVE  RestType'
    BY <1>5 DEF Forward
  <1>6. CASE StartReadd
    BY <1>6 DEF StartReadd, Registered
  <1>12. CASE ProcessorLags
    BY <1>12 DEF ProcessorLags
  <1>7. ASSUME NEW n \in Nicks, Readd(n)
        PROVE  RestType'
    BY <1>7 DEF Readd
  <1>8. CASE LinkDown
    <2>1. drops' \in 0 .. MaxDrops
      BY <1>8 DEF LinkDown
    <2> QED BY <1>8, <2>1 DEF LinkDown
  <1>9. CASE LinkUp
    BY <1>9 DEF LinkUp
  <1>10. CASE HubTakes
    <2>1. Head(pipe) \in HubCommands
      BY <1>10, HeadTailProperties DEF HubTakes, PipeType
    <2>2. Head(pipe).nick \in Nicks
      BY <2>1 DEF HubCommands
    <2> QED BY <1>10, <2>2 DEF HubTakes
  <1>11. CASE UNCHANGED vars
    BY <1>11 DEF vars
  <1> QED BY <1>1, <1>2, <1>3, <1>4, <1>5, <1>6, <1>7, <1>8, <1>9, <1>10, <1>11,
          <1>12
          DEF Next, CallStep

--------------------------------------------------------------------------------

\* The inductive invariant.
IInv == FwdInv /\ CallType /\ PipeType /\ RestType

\* Every action keeps the registrations and the forwarders together.
LEMMA FwdStep ==
  ASSUME FwdInv, CallType, [Next]_vars
  PROVE  FwdInv'
  <1>1. ASSUME NEW h \in Calls, Remove(h) PROVE FwdInv'
    <2>1. call[h].nick \in Nicks
      BY <1>1, CallShapes DEF Remove, RemoveCalls
    <2> QED BY <1>1, <2>1, RemoveFwd
  <1>2. (\E h \in Calls, n \in Nicks : CheckToken(h, n))
          \/ (\E h \in Calls : Announce(h) \/ Claim(h) \/ Withdraw(h) \/ Release(h))
          \/ Publish \/ StartReadd \/ ProcessorLags \/ (\E n \in Nicks : Readd(n))
          \/ LinkDown \/ LinkUp \/ HubTakes \/ UNCHANGED vars
          => UNCHANGED <<bots, tokens, running>>
    BY DEF CheckToken, Announce, Claim, Withdraw, Release, Publish, StartReadd,
           ProcessorLags, Readd, LinkDown, LinkUp, HubTakes, vars, registryVars, forwarderVars
  <1> QED BY <1>1, <1>2, RegisterFwd, ForwardFwd, OtherFwd DEF Next, CallStep

\* The strengthened types hold in every behaviour.
LEMMA Inductive == Spec => []IInv
  <1>1. Init => IInv
    <2> SUFFICES ASSUME Init PROVE IInv
      OBVIOUS
    <2>1. CallType
      BY DEF Init, CallType
    <2>3. 0 \in 0 .. MaxDrops /\ FALSE \in BOOLEAN
      BY RegistryAssumption
    <2>4. RestType
      BY <2>3, Zenon DEF Init, RestType
    <2>2. PipeType
      BY EmptySeq DEF Init, PipeType
    <2> QED BY <2>1, <2>2, <2>4, InitFwd DEF IInv
  <1>2. IInv /\ [Next]_vars => IInv'
    BY FwdStep, CallTypeStep, PipeTypeStep, RestTypeStep DEF IInv
  <1> QED BY <1>1, <1>2, PTL DEF Spec

\* Every variable keeps its type.
THEOREM TypeCorrect == Spec => []TypeOK
  <1>1. IInv => TypeOK
    BY DEF IInv, FwdInv, RegistryInv, CallType, PipeType, RestType, TypeOK, AddCalls,
           RemoveCalls, Forwarders
  <1> QED BY <1>1, Inductive, PTL

\* Each registration with subscriptions has exactly its own forwarder, for any number
\* of bots and of overlapping registrations and removals.
THEOREM ForwarderPerRegistration == Spec => []OneForwarderEach
  <1>1. IInv => OneForwarderEach
    BY DEF IInv, FwdInv
  <1> QED BY <1>1, Inductive, PTL

--------------------------------------------------------------------------------
(* The hub and the registry, where calls about one nick do not overlap.     *)

\* What the hub will show once it has read what is under way.
Shown(n) ==
    \/ \E i \in DOMAIN pipe :
        /\ pipe[i] = [op |-> "add", nick |-> n]
        /\ \A j \in DOMAIN pipe : j > i => pipe[j].nick # n
    \/ n \in virtual /\ \A i \in DOMAIN pipe : pipe[i].nick # n

OneCallEach ==
    \A g, h \in Calls :
        call[g] # Idle /\ call[h] # Idle /\ call[g].nick = call[h].nick => g = h

\* What a call is about to tell the hub agrees with the registry.
CallsAgree ==
    \A h \in Calls :
        /\ call[h].op = "add" => call[h].nick \in Registered
        /\ call[h].op = "withdraw" => call[h].nick \notin Registered

Adding(n) == \E h \in Calls : call[h].op = "add" /\ call[h].nick = n

Removing(n) == \E h \in Calls : call[h].op = "withdraw" /\ call[h].nick = n

\* A bot the hub will not show has its call or the re-adding ahead of it, ...
BotsComing ==
    \A n \in Registered : Shown(n) \/ ~up \/ restored \/ missed \/ n \in readding \/ Adding(n)

\* ... and a nick without a bot it will show has its removal ahead.
BotsGoing == \A n \in Nicks \ Registered : Shown(n) => Removing(n)

HubInv ==
    /\ ~up => virtual = {}
    /\ readding \subseteq Registered
    /\ BotsComing /\ BotsGoing

AgreeInv == OneCallEach /\ CallsAgree /\ HubInv

\* A command put after the others decides about its own nick.
LEMMA PutShows ==
  ASSUME PipeType, NEW cmd \in HubCommands, Put(cmd), virtual' = virtual, NEW n \in Nicks
  PROVE  Shown(n)' <=> IF cmd.nick = n THEN cmd.op = "add" ELSE Shown(n)
  <1>1. /\ Len(pipe) \in Nat /\ DOMAIN pipe = 1 .. Len(pipe)
        /\ DOMAIN pipe' = 1 .. Len(pipe) + 1
        /\ \A i \in DOMAIN pipe : pipe'[i] = pipe[i]
        /\ pipe'[Len(pipe) + 1] = cmd
    BY AppendProperties, LenProperties DEF PipeType, Put
  <1> DEFINE k == Len(pipe) + 1
  <1>2. /\ k \in DOMAIN pipe' /\ pipe'[k] = cmd /\ k \notin DOMAIN pipe
        /\ \A i \in DOMAIN pipe' : i \in DOMAIN pipe \/ i = k
        /\ \A i \in DOMAIN pipe : i \in DOMAIN pipe' /\ k > i /\ ~(i > k) /\ pipe'[i] = pipe[i]
        /\ ~(k > k)
    BY <1>1
  <1> HIDE DEF k
  <1>3. CASE cmd.nick = n
    <2>1. cmd = [op |-> "add", nick |-> n] <=> cmd.op = "add"
      BY <1>3 DEF HubCommands
    <2>2. cmd.op = "add" => Shown(n)'
      BY <1>2, <2>1 DEF Shown
    <2>3. Shown(n)' => cmd.op = "add"
      BY <1>2, <1>3, <2>1 DEF Shown
    <2> QED BY <1>3, <2>2, <2>3
  <1>4. CASE cmd.nick # n
    <2>1. cmd # [op |-> "add", nick |-> n]
      BY <1>4
    <2>2. Shown(n) => Shown(n)'
      BY <1>2, <1>4 DEF Shown
    <2>3. Shown(n)' => Shown(n)
      BY <1>2, <2>1 DEF Shown
    <2> QED BY <1>4, <2>2, <2>3
  <1> QED BY <1>3, <1>4

\* What the hub reads it shows.
LEMMA TakingShows ==
  ASSUME PipeType, HubTakes, NEW n \in Nicks
  PROVE  Shown(n)' <=> Shown(n)
  <1>1. /\ Len(pipe) \in Nat /\ DOMAIN pipe = 1 .. Len(pipe) /\ Len(pipe) > 0
        /\ pipe' = Tail(pipe) /\ pipe' \in Seq(HubCommands) /\ Len(pipe') = Len(pipe) - 1
        /\ \A i \in 1 .. Len(pipe') : pipe'[i] = pipe[i + 1]
    BY HeadTailProperties, LenProperties, EmptySeq DEF PipeType, HubTakes
  <1>2. DOMAIN pipe' = 1 .. Len(pipe) - 1
    BY <1>1, LenProperties
  <1>3. /\ \A i \in DOMAIN pipe' : i + 1 \in DOMAIN pipe /\ pipe'[i] = pipe[i + 1] /\ i \in Nat
        /\ \A i \in DOMAIN pipe : i \in Nat /\ (i = 1 \/ i - 1 \in DOMAIN pipe')
        /\ \A i \in DOMAIN pipe : i - 1 \in DOMAIN pipe' => pipe'[i - 1] = pipe[i]
        /\ 1 \in DOMAIN pipe
    BY <1>1, <1>2
  <1>4. /\ virtual' = IF pipe[1].op = "add" THEN virtual \cup {pipe[1].nick}
                      ELSE virtual \ {pipe[1].nick}
        /\ pipe[1] \in HubCommands
    <2>1. Head(pipe) = pipe[1]
      BY <1>1 DEF PipeType
    <2>2. pipe[1] \in HubCommands
      BY <1>1, ElementOfSeq DEF PipeType
    <2> QED BY <2>1, <2>2 DEF HubTakes
  <1>5. ASSUME Shown(n) PROVE Shown(n)'
    <2>1. CASE n \in virtual /\ \A i \in DOMAIN pipe : pipe[i].nick # n
      <3>1. n \in virtual'
        BY <2>1, <1>3, <1>4
      <3>2. \A i \in DOMAIN pipe' : pipe'[i].nick # n
        BY <2>1, <1>3
      <3> QED BY <3>1, <3>2 DEF Shown
    <2>2. ASSUME NEW i \in DOMAIN pipe, pipe[i] = [op |-> "add", nick |-> n],
                 \A j \in DOMAIN pipe : j > i => pipe[j].nick # n
          PROVE  Shown(n)'
      <3>1. CASE i = 1
        <4>1. n \in virtual'
          BY <2>2, <3>1, <1>4
        <4>2. \A j \in DOMAIN pipe' : pipe'[j].nick # n
          BY <2>2, <3>1, <1>1, <1>2, <1>3
        <4> QED BY <4>1, <4>2 DEF Shown
      <3>2. CASE i # 1
        <4>1. i - 1 \in DOMAIN pipe' /\ pipe'[i - 1] = [op |-> "add", nick |-> n]
          BY <2>2, <3>2, <1>3
        <4>2. \A j \in DOMAIN pipe' : j > i - 1 => pipe'[j].nick # n
          BY <2>2, <1>3
        <4> QED BY <4>1, <4>2 DEF Shown
      <3> QED BY <3>1, <3>2
    <2> QED BY <1>5, <2>1, <2>2 DEF Shown
  <1>6. ASSUME Shown(n)' PROVE Shown(n)
    <2>1. CASE n \in virtual' /\ \A i \in DOMAIN pipe' : pipe'[i].nick # n
      <3>1. \A i \in DOMAIN pipe : i > 1 => pipe[i].nick # n
        BY <2>1, <1>3
      <3>2. CASE pipe[1].nick = n
        <4>1. pipe[1].op = "add"
          BY <2>1, <3>2, <1>4
        <4>2. pipe[1] = [op |-> "add", nick |-> n]
          BY <3>2, <4>1, <1>4 DEF HubCommands
        <4> QED BY <3>1, <4>2, <1>3 DEF Shown
      <3>3. CASE pipe[1].nick # n
        <4>1. n \in virtual
          BY <2>1, <3>3, <1>4
        <4>2. \A i \in DOMAIN pipe : pipe[i].nick # n
          BY <3>1, <3>3, <1>1
        <4> QED BY <4>1, <4>2 DEF Shown
      <3> QED BY <3>2, <3>3
    <2>2. ASSUME NEW i \in DOMAIN pipe', pipe'[i] = [op |-> "add", nick |-> n],
                 \A j \in DOMAIN pipe' : j > i => pipe'[j].nick # n
          PROVE  Shown(n)
      <3>1. /\ i + 1 \in DOMAIN pipe /\ pipe[i + 1] = [op |-> "add", nick |-> n]
            /\ i \in 1 .. Len(pipe)
        BY <2>2, <1>1, <1>2, <1>3
      <3>2. ASSUME NEW j \in DOMAIN pipe, j > i + 1 PROVE pipe[j].nick # n
        <4>1. j - 1 \in DOMAIN pipe' /\ j - 1 > i /\ pipe'[j - 1] = pipe[j]
          BY <3>1, <3>2, <1>3
        <4> QED BY <4>1, <2>2
      <3> QED BY <3>1, <3>2 DEF Shown
    <2> QED BY <1>6, <2>1, <2>2 DEF Shown
  <1> QED BY <1>5, <1>6

\* The commands lost are the oldest: with nothing shown, the hub will show no more than it
\* would have.
LEMMA LosingShowsLess ==
  ASSUME PipeType, LosesOldest, virtual' = {}, NEW n \in Nicks, Shown(n)'
  PROVE  Shown(n)
  <1>1. PICK k \in 0 .. Len(pipe) : pipe' = SubSeq(pipe, k + 1, Len(pipe))
    BY DEF LosesOldest
  <1>2. /\ Len(pipe) \in Nat /\ DOMAIN pipe = 1 .. Len(pipe)
        /\ \A i \in k + 1 .. Len(pipe) : pipe[i] \in HubCommands
    BY LenProperties, ElementOfSeq DEF PipeType
  <1>3. pipe' \in Seq(HubCommands) /\ Len(pipe') = Len(pipe) - k
    BY <1>1, <1>2, SubSeqProperties
  <1>4. DOMAIN pipe' = 1 .. Len(pipe) - k
    BY <1>3, LenProperties
  <1>5. \A i \in 1 .. Len(pipe) - k : pipe'[i] = pipe[i + k]
    <2>1. \A i \in 1 .. Len(pipe) - (k + 1) + 1 : pipe'[i] = pipe[(k + 1) + i - 1]
      BY <1>1, <1>2, SubSeqProperties
    <2> QED BY <2>1, <1>2
  <1>6. PICK i \in DOMAIN pipe' : /\ pipe'[i] = [op |-> "add", nick |-> n]
                                  /\ \A j \in DOMAIN pipe' : j > i => pipe'[j].nick # n
    BY DEF Shown
  <1>7. i + k \in DOMAIN pipe /\ pipe[i + k] = [op |-> "add", nick |-> n]
    BY <1>2, <1>4, <1>5, <1>6
  <1>8. ASSUME NEW j \in DOMAIN pipe, j > i + k PROVE pipe[j].nick # n
    <2>1. j - k \in DOMAIN pipe' /\ j - k > i /\ pipe'[j - k] = pipe[j]
      BY <1>2, <1>4, <1>5, <1>6, <1>8
    <2> QED BY <2>1, <1>6
  <1> QED BY <1>7, <1>8 DEF Shown

\* The calls agree with the registry after every step, when no two are about one nick.
LEMMA CallsStep ==
  ASSUME ~Overlap, FwdInv, CallType, OneCallEach, CallsAgree, [Next]_vars
  PROVE  OneCallEach' /\ CallsAgree'
  <1>0. bots \in [Nicks -> Registrations \cup {NoBot}] /\ tokens \in Nat
    BY DEF FwdInv, RegistryInv
  <1>1. CASE UNCHANGED <<bots, call>>
    BY <1>1 DEF OneCallEach, CallsAgree, Registered
  <1>2. ASSUME NEW h \in Calls, NEW n \in Nicks, Register(h, n)
        PROVE  OneCallEach' /\ CallsAgree'
    <2>1. PICK cs \in SUBSET Commands, fw \in BOOLEAN :
              /\ bots' = [bots EXCEPT ![n] =
                              [token |-> tokens + 1, commands |-> cs, forwards |-> fw]]
              /\ call' = [call EXCEPT ![h] = [op |-> "add", nick |-> n, commands |-> cs]]
      BY <1>2 DEF Register
    <2>2. /\ \A g \in Calls \ {h} : call'[g] = call[g]
          /\ call'[h].op = "add" /\ call'[h].nick = n
      BY <2>1 DEF CallType
    <2>3. \A g \in Calls : call[g] # Idle => call[g].nick # n
      BY <1>2 DEF Register, Busy
    <2>4. n \in Registered' /\ \A m \in Nicks \ {n} : m \in Registered' <=> m \in Registered
      BY <1>0, <2>1 DEF Registered
    <2>5. OneCallEach'
      BY <2>2, <2>3 DEF OneCallEach
    <2>6. ASSUME NEW g \in Calls
          PROVE  /\ call'[g].op = "add" => call'[g].nick \in Registered'
                 /\ call'[g].op = "withdraw" => call'[g].nick \notin Registered'
      <3>1. CASE g = h
        BY <2>2, <2>4, <3>1
      <3>2. CASE g # h
        <4>1. call[g].op \in {"add", "withdraw"} => call[g].nick \in Nicks \ {n}
          BY <2>3, CallShapes DEF AddCalls, RemoveCalls, Idle
        <4> QED BY <2>2, <2>4, <3>2, <4>1 DEF CallsAgree
      <3> QED BY <3>1, <3>2
    <2> QED BY <2>5, <2>6 DEF CallsAgree
  <1>3. ASSUME NEW h \in Calls, NEW n \in Nicks, CheckToken(h, n)
        PROVE  OneCallEach' /\ CallsAgree'
    <2>1. /\ \A g \in Calls \ {h} : call'[g] = call[g]
          /\ call'[h].op = "remove" /\ call'[h].nick = n
          /\ Registered' = Registered
      BY <1>3 DEF CheckToken, CallType, registryVars, Registered
    <2>2. \A g \in Calls : call[g] # Idle => call[g].nick # n
      BY <1>3 DEF CheckToken, Busy
    <2> QED BY <2>1, <2>2 DEF OneCallEach, CallsAgree
  <1>4. ASSUME NEW h \in Calls, Remove(h)
        PROVE  OneCallEach' /\ CallsAgree'
    <2>1. call[h] \in RemoveCalls /\ call[h].nick \in Nicks /\ call[h] # Idle
      BY <1>4, CallShapes DEF Remove, RemoveCalls, Idle
    <2>2. /\ \A g \in Calls \ {h} : call'[g] = call[g]
          /\ call'[h].op = "withdraw" /\ call'[h].nick = call[h].nick
          /\ call'[h] # Idle
      BY <1>4, <2>1 DEF Remove, CallType, RemoveCalls, Idle
    <2>3. Registered' = Registered \ {call[h].nick}
      BY <1>0, <1>4, <2>1 DEF Remove, Registered, NoBot
    <2>4. OneCallEach'
      BY <2>1, <2>2 DEF OneCallEach
    <2>5. ASSUME NEW g \in Calls \ {h}, call[g].op = "add"
          PROVE  call[g].nick # call[h].nick
      BY <2>1, <2>5 DEF OneCallEach, Idle
    <2> QED BY <2>1, <2>2, <2>3, <2>4, <2>5 DEF CallsAgree
  <1>5. ASSUME NEW h \in Calls, Announce(h) \/ Withdraw(h)
        PROVE  OneCallEach' /\ CallsAgree'
    <2>1. call[h] \in AddCalls \cup RemoveCalls /\ call[h] # Idle
      BY <1>5, CallShapes DEF Announce, Withdraw, AddCalls, RemoveCalls, Idle
    <2>2. /\ \A g \in Calls \ {h} : call'[g] = call[g]
          /\ call'[h].op \in {"claim", "release"} /\ call'[h].nick = call[h].nick
          /\ Registered' = Registered
      BY <1>5, <2>1
         DEF Announce, Withdraw, CallType, AddCalls, RemoveCalls, registryVars, Registered
    <2> QED BY <2>1, <2>2 DEF OneCallEach, CallsAgree
  <1>6. ASSUME NEW h \in Calls, Claim(h) \/ Release(h)
        PROVE  OneCallEach' /\ CallsAgree'
    <2>1. /\ \A g \in Calls \ {h} : call'[g] = call[g]
          /\ call'[h] = Idle
          /\ Registered' = Registered
      BY <1>6 DEF Claim, Release, CallType, registryVars, Registered
    <2>2. Idle.op # "add" /\ Idle.op # "withdraw"
      BY DEF Idle
    <2> QED BY <2>1, <2>2 DEF OneCallEach, CallsAgree
  <1>7. Publish \/ (\E f \in running : Forward(f)) \/ StartReadd \/ ProcessorLags
          \/ (\E n \in Nicks : Readd(n)) \/ LinkDown \/ LinkUp \/ HubTakes
          \/ UNCHANGED vars => UNCHANGED <<bots, call>>
    BY DEF Publish, Forward, StartReadd, ProcessorLags, Readd, LinkDown, LinkUp, HubTakes, vars,
           registryVars
  <1> QED BY <1>1, <1>2, <1>3, <1>4, <1>5, <1>6, <1>7 DEF Next, CallStep

\* A step about one nick's call leaves the others' comings and goings alone.
LEMMA SameHub ==
  ASSUME HubInv, UNCHANGED <<bots, up, restored, missed, readding, virtual, pipe>>,
         \A n \in Nicks : (Adding(n) => Adding(n)') /\ (Removing(n) => Removing(n)')
  PROVE  HubInv'
  <1>1. Registered' = Registered /\ Registered \subseteq Nicks
    BY DEF Registered
  <1>2. \A n : Shown(n)' <=> Shown(n)
    BY DEF Shown
  <1>3. BotsComing'
    BY <1>1, <1>2 DEF HubInv, BotsComing
  <1>4. BotsGoing'
    BY <1>1, <1>2 DEF HubInv, BotsGoing
  <1> QED BY <1>1, <1>3, <1>4 DEF HubInv

\* A call that is not about to tell the hub anything may become another.
LEMMA CallGoesOn ==
  ASSUME CallType, NEW h \in Calls, call[h].op \notin {"add", "withdraw"},
         \A g \in Calls \ {h} : call'[g] = call[g]
  PROVE  \A n : (Adding(n) => Adding(n)') /\ (Removing(n) => Removing(n)')
  BY DEF Adding, Removing

\* Registrations and removals: the hub follows.
LEMMA RegistryHub ==
  ASSUME ~Overlap, FwdInv, CallType, HubInv, NEW h \in Calls,
         Remove(h) \/ \E n \in Nicks : Register(h, n)
  PROVE  HubInv'
  <1>0. bots \in [Nicks -> Registrations \cup {NoBot}] /\ tokens \in Nat
    BY DEF FwdInv, RegistryInv
  <1>1. UNCHANGED <<up, restored, missed, readding, virtual, pipe>> /\ readding = {}
    BY DEF Remove, Register, linkVars
  <1>2. \A m : Shown(m)' <=> Shown(m)
    BY <1>1 DEF Shown
  <1>3. ASSUME NEW n \in Nicks, Register(h, n) PROVE HubInv'
    <2>1. PICK cs \in SUBSET Commands, fw \in BOOLEAN :
              /\ bots' = [bots EXCEPT ![n] =
                              [token |-> tokens + 1, commands |-> cs, forwards |-> fw]]
              /\ call' = [call EXCEPT ![h] = [op |-> "add", nick |-> n, commands |-> cs]]
      BY <1>3 DEF Register
    <2>2. /\ \A g \in Calls \ {h} : call'[g] = call[g]
          /\ call'[h].op = "add" /\ call'[h].nick = n
      BY <2>1 DEF CallType
    <2>3. Registered' = Registered \cup {n}
      BY <1>0, <2>1 DEF Registered
    <2>4. call[h].op \notin {"add", "withdraw"}
      BY <1>3 DEF Register, Idle
    <2>5. \A m : (Adding(m) => Adding(m)') /\ (Removing(m) => Removing(m)')
      BY <2>2, <2>4, CallGoesOn
    <2>6. Adding(n)'
      BY <2>2 DEF Adding
    <2>7. BotsComing'
      BY <1>1, <1>2, <2>3, <2>5, <2>6 DEF HubInv, BotsComing
    <2>8. BotsGoing'
      BY <1>2, <2>3, <2>5 DEF HubInv, BotsGoing
    <2> QED BY <1>1, <2>3, <2>7, <2>8 DEF HubInv
  <1>4. CASE Remove(h)
    <2>1. PICK n \in Nicks : n = call[h].nick /\ call[h] \in RemoveCalls
      BY <1>4, CallShapes DEF Remove, RemoveCalls
    <2>2. /\ \A g \in Calls \ {h} : call'[g] = call[g]
          /\ call'[h].op = "withdraw" /\ call'[h].nick = n
      BY <1>4, <2>1 DEF Remove, CallType, RemoveCalls
    <2>3. Registered' = Registered \ {n}
      BY <1>0, <1>4, <2>1 DEF Remove, Registered, NoBot
    <2>4. \A m : (Adding(m) => Adding(m)') /\ (Removing(m) => Removing(m)')
      BY <1>4, <2>2, CallGoesOn DEF Remove
    <2>5. Removing(n)'
      BY <2>2 DEF Removing
    <2>6. BotsComing'
      BY <1>1, <1>2, <2>3, <2>4 DEF HubInv, BotsComing
    <2>7. BotsGoing'
      BY <1>2, <2>3, <2>4, <2>5 DEF HubInv, BotsGoing
    <2> QED BY <1>1, <2>3, <2>6, <2>7 DEF HubInv
  <1> QED BY <1>3, <1>4

\* What a call tells the hub is what the registry says.
LEMMA TellingHub ==
  ASSUME CallType, PipeType, CallsAgree, HubInv, NEW h \in Calls, Announce(h) \/ Withdraw(h)
  PROVE  HubInv'
  <1>1. PICK n \in Nicks : n = call[h].nick
    BY CallShapes DEF Announce, Withdraw, AddCalls, RemoveCalls
  <1>2. /\ UNCHANGED <<bots, up, restored, missed, readding, virtual>>
        /\ Registered' = Registered
    BY DEF Announce, Withdraw, registryVars, linkVars, Registered
  <1>3. \A g \in Calls \ {h} : call'[g] = call[g]
    BY DEF Announce, Withdraw, CallType
  <1>4. \A m : m # n => (Adding(m) => Adding(m)') /\ (Removing(m) => Removing(m)')
    BY <1>1, <1>3 DEF Adding, Removing
  <1>5. /\ \A m \in Nicks : m # n => (Shown(m)' <=> Shown(m))
        /\ Shown(n)' <=> n \in Registered
    <2>1. CASE Announce(h)
      <3>1. [op |-> "add", nick |-> n] \in HubCommands
        BY <1>1 DEF HubCommands
      <3>2. \A m \in Nicks : Shown(m)' <=> IF n = m THEN TRUE ELSE Shown(m)
        BY <2>1, <3>1, <1>1, <1>2, PutShows DEF Announce
      <3> QED BY <2>1, <3>2, <1>1 DEF Announce, CallsAgree
    <2>2. CASE Withdraw(h)
      <3>1. [op |-> "remove", nick |-> n] \in HubCommands
        BY <1>1 DEF HubCommands
      <3>2. \A m \in Nicks : Shown(m)' <=> IF n = m THEN FALSE ELSE Shown(m)
        BY <2>2, <3>1, <1>1, <1>2, PutShows DEF Withdraw
      <3> QED BY <2>2, <3>2, <1>1 DEF Withdraw, CallsAgree
    <2> QED BY <2>1, <2>2
  <1>6. Registered \subseteq Nicks
    BY DEF Registered
  <1>7. BotsComing'
    BY <1>2, <1>4, <1>5, <1>6 DEF HubInv, BotsComing
  <1>8. BotsGoing'
    BY <1>2, <1>4, <1>5 DEF HubInv, BotsGoing
  <1> QED BY <1>2, <1>7, <1>8 DEF HubInv

\* The re-adding is for all registered bots, and a lagging processor is known to have lagged.
LEMMA ReaddingHub ==
  ASSUME PipeType, HubInv, StartReadd \/ ProcessorLags \/ \E n \in Nicks : Readd(n)
  PROVE  HubInv'
  <1>1. /\ UNCHANGED <<bots, call, up, virtual>> /\ Registered' = Registered
        /\ Registered \subseteq Nicks
    BY DEF StartReadd, ProcessorLags, Readd, registryVars, linkVars, Registered
  <1>2. \A m : (Adding(m)' <=> Adding(m)) /\ (Removing(m)' <=> Removing(m))
    BY <1>1 DEF Adding, Removing
  <1>3. CASE StartReadd
    <2>1. readding' = Registered /\ pipe' = pipe
      BY <1>3 DEF StartReadd
    <2>2. \A m : Shown(m)' <=> Shown(m)
      BY <1>1, <2>1 DEF Shown
    <2> QED BY <1>1, <1>2, <2>1, <2>2 DEF HubInv, BotsComing, BotsGoing
  <1>4. CASE ProcessorLags
    <2>1. missed' = TRUE /\ readding' = readding /\ pipe' = pipe
      BY <1>4 DEF ProcessorLags
    <2>2. \A m : Shown(m)' <=> Shown(m)
      BY <1>1, <2>1 DEF Shown
    <2> QED BY <1>1, <1>2, <2>1, <2>2 DEF HubInv, BotsComing, BotsGoing
  <1>5. ASSUME NEW n \in Nicks, Readd(n) PROVE HubInv'
    <2>1. readding' = readding \ {n} /\ n \in readding /\ UNCHANGED <<restored, missed>>
      BY <1>5 DEF Readd, linkVars
    <2>2. [op |-> "add", nick |-> n] \in HubCommands
      BY DEF HubCommands
    <2>3. \A m \in Nicks : Shown(m)' <=> IF n = m THEN TRUE ELSE Shown(m)
      BY <1>1, <1>5, <2>2, PutShows DEF Readd
    <2>4. n \in Registered
      BY <2>1 DEF HubInv
    <2>5. BotsComing'
      BY <1>1, <1>2, <2>1, <2>3 DEF HubInv, BotsComing
    <2>6. BotsGoing'
      BY <1>1, <1>2, <2>3, <2>4 DEF HubInv, BotsGoing
    <2> QED BY <1>1, <2>1, <2>5, <2>6 DEF HubInv
  <1> QED BY <1>3, <1>4, <1>5

\* A connection lost or made loses old commands only, and shows nothing at first.
LEMMA LinkHub ==
  ASSUME PipeType, RestType, HubInv, LinkDown \/ LinkUp \/ HubTakes
  PROVE  HubInv'
  <1>1. /\ UNCHANGED <<bots, call, readding, missed>> /\ Registered' = Registered
        /\ Registered \subseteq Nicks
    BY DEF LinkDown, LinkUp, HubTakes, registryVars, linkVars, Registered
  <1>2. \A m : (Adding(m)' <=> Adding(m)) /\ (Removing(m)' <=> Removing(m))
    BY <1>1 DEF Adding, Removing
  <1>3. CASE LinkDown \/ LinkUp
    <2>1. virtual' = {} /\ LosesOldest /\ (~up' \/ restored')
      BY <1>3 DEF LinkDown, LinkUp, HubInv, RestType
    <2>2. \A m \in Nicks : Shown(m)' => Shown(m)
      BY <2>1, LosingShowsLess
    <2> QED BY <1>1, <1>2, <2>1, <2>2 DEF HubInv, BotsComing, BotsGoing
  <1>4. CASE HubTakes
    <2>1. up /\ UNCHANGED <<up, restored>>
      BY <1>4 DEF HubTakes, linkVars
    <2>2. \A m \in Nicks : Shown(m)' <=> Shown(m)
      BY <1>4, TakingShows
    <2> QED BY <1>1, <1>2, <2>1, <2>2 DEF HubInv, BotsComing, BotsGoing
  <1> QED BY <1>3, <1>4

\* Every action keeps the hub and the registry together.
LEMMA AgreeStep ==
  ASSUME ~Overlap, IInv, AgreeInv, [Next]_vars
  PROVE  AgreeInv'
  <1> USE DEF IInv, AgreeInv
  <1>1. OneCallEach' /\ CallsAgree'
    BY CallsStep
  <1>2. ASSUME UNCHANGED <<bots, up, restored, missed, readding, virtual, pipe>>,
               NEW h \in Calls, call[h].op \notin {"add", "withdraw"},
               \A g \in Calls \ {h} : call'[g] = call[g]
        PROVE  HubInv'
    BY <1>2, CallGoesOn, SameHub
  <1>3. ASSUME NEW h \in Calls, NEW n \in Nicks, CheckToken(h, n) PROVE HubInv'
    <2>1. call[h].op \notin {"add", "withdraw"} /\ \A g \in Calls \ {h} : call'[g] = call[g]
      BY <1>3 DEF CheckToken, CallType, Idle
    <2> QED BY <1>2, <1>3, <2>1 DEF CheckToken, registryVars, linkVars
  <1>4. ASSUME NEW h \in Calls, Claim(h) \/ Release(h) PROVE HubInv'
    <2>1. call[h].op \notin {"add", "withdraw"} /\ \A g \in Calls \ {h} : call'[g] = call[g]
      BY <1>4 DEF Claim, Release, CallType
    <2> QED BY <1>2, <1>4, <2>1 DEF Claim, Release, registryVars, linkVars
  <1>5. ASSUME Publish \/ (\E f \in running : Forward(f)) \/ UNCHANGED vars
        PROVE  HubInv'
    <2>1. /\ UNCHANGED <<bots, up, restored, missed, readding, virtual, pipe>>
          /\ call' = call
      BY <1>5 DEF Publish, Forward, vars, registryVars, linkVars
    <2>2. \A n : (Adding(n) => Adding(n)') /\ (Removing(n) => Removing(n)')
      BY <2>1 DEF Adding, Removing
    <2> QED BY <2>1, <2>2, SameHub
  <1>6. HubInv'
    BY <1>3, <1>4, <1>5, RegistryHub, TellingHub, ReaddingHub, LinkHub DEF Next, CallStep
  <1> QED BY <1>1, <1>6

\* Where the calls about one nick do not overlap, the hub shows exactly the registered bots
\* once things settle, however many registrations, removals and lost connections there were.
THEOREM HubFollowsRegistry ==
  ASSUME ~Overlap
  PROVE  Spec => []HubShowsTheBots
  <1>1. Init => AgreeInv
    BY DEF Init, AgreeInv, OneCallEach, CallsAgree, HubInv, BotsComing, BotsGoing, Shown, Idle,
           Registered, NoBot
  <1>2. IInv /\ AgreeInv /\ [Next]_vars => AgreeInv'
    BY AgreeStep
  <1>3. IInv /\ AgreeInv => HubShowsTheBots
    <2> SUFFICES ASSUME IInv, AgreeInv, Settled, ~missed PROVE virtual = Registered
      BY DEF HubShowsTheBots
    <2>1. \A n : Shown(n) <=> n \in virtual
      BY DEF Settled, Shown
    <2>2. \A n : ~Adding(n) /\ ~Removing(n)
      BY DEF Settled, Adding, Removing, Idle
    <2>3. virtual \subseteq Nicks /\ Registered \subseteq Nicks
      BY DEF IInv, RestType, Registered
    <2> QED BY <2>1, <2>2, <2>3 DEF AgreeInv, HubInv, BotsComing, BotsGoing, Settled
  <1> QED BY <1>1, <1>2, <1>3, Inductive, PTL DEF Spec

================================================================================
