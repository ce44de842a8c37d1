---------------------------- MODULE ModerationProofs ----------------------------
(***************************************************************************)
(* Proofs about Moderation, for any users, tables and handlers in flight:  *)
(* types, that gags silence and that only what was looked up is lifted,    *)
(* that commands respect rank, that logins are earned and that the topic   *)
(* set by chat is saved.                                                   *)
(*                                                                         *)
(* The invariant says of every event, verdict and handler in flight what   *)
(* its sender or an earlier step has seen, as a set it belongs to.  The    *)
(* tables and the faults only grow, as far as these sets depend on them,   *)
(* so that what belongs to one goes on belonging to it (StampsGrow to      *)
(* CallsGrow).                                                             *)
(***************************************************************************)
EXTENDS Moderation, TLAPS, SequenceTheorems, WellFoundedInduction

--------------------------------------------------------------------------------
(* The inductive invariant.                                                 *)

TablesOK ==
    /\ past \in Seq([Users -> Accounts]) /\ past # <<>>
    /\ gagId \in Nat
    /\ gags \subseteq Gags
    /\ settings \in [{"hub_topic", "topic"} -> Topics \cup {NoTopic}]
    /\ topic \in Topics \cup {NoTopic}
    /\ setter \in {"chat", "rest", "start", "failed"}
    /\ requests \in 0 .. MaxRequests
    /\ faults \in 0 .. MaxFaults

\* A line goes with gags of its speaker.
OwnEvents == {e \in Events : e.type = "chat" => \A g \in e.under : g.nick = e.nick}

\* What LoginEarned says of one verdict.
Earned(v) ==
    v.type = "login_user" =>
        \/ \E k \in v.at .. Len(past) :
            /\ v.password # NoPassword
            /\ past[k][v.nick] = [password |-> v.password, permission |-> v.permission]
        \/ /\ v.password = NoPassword
           /\ v.permission = 0
           /\ \/ faults > 0
              \/ \E k \in v.at .. Len(past) : ~Registered(past[k][v.nick])

\* Of a reserved nick nothing but its refusal is ever on its way.
EarnedVerdicts == {v \in Verdicts : Earned(v) /\ (v.nick \in Users \/ v.type = "reject_user")}

LineTasks == [type : {"chat"}, nick : Users, at : Stamps, line : Line,
              under : SUBSET Gags, gagged : BOOLEAN]

SilentLines == {t \in LineTasks : ~t.gagged /\ faults = 0 => t.under \cap gags = {}}

HubOK ==
    /\ session \in [Nicks -> {"out", "waiting", "asked", "in"}]
    /\ \A n \in Reserved : session[n] \in {"out", "waiting"}
    /\ inbox \in Seq(OwnEvents)
    /\ task \in {NoTask} \cup EarnedVerdicts \cup SilentLines
    /\ toHub \in Seq(EarnedVerdicts)

GagCommand == [op : {"gag", "ungag"}, line : [op : {"gag", "ungag"}, target : Users],
               by : Users, at : Stamps, permission : Int, step : {"outranks", "gag", "ungag"}]

\* Whoever runs it was an OP; once it is found to outrank its target it did at some time.
RankedCalls == {k \in GagCommand :
    /\ k.step \in {"outranks", k.op}
    /\ k.permission >= 2
    /\ \E i \in k.at .. Len(past) : past[i][k.by].permission = k.permission
    /\ k.step = k.op /\ faults = 0 =>
          \E j \in k.at .. Len(past) : past[j][k.line.target].permission < k.permission}

\* A handler about to delete a gag knows one that existed when it looked.
Deletes == {k \in [op : {"delete"}, gag : Gags, last : Nat] : k.gag.id <= k.last}

ChatTopics == [op : {"topic"}, line : [op : {"topic"}, topic : Topics],
               by : Users, at : Stamps, permission : Int, step : {"set", "save"}]

RestTopics == [op : {"topic"}, step : {"save"}, line : [topic : Topics \cup {NoTopic}]]

Calls == {Idle} \cup RankedCalls \cup Deletes \cup ChatTopics \cup RestTopics

CommandsSent == [line : Command, by : Users, at : Stamps]

CallOK ==
    /\ commands \in Seq(CommandsSent)
    /\ call \in [RestCalls \cup {processor} -> Calls]

Saving == call[processor].op = "topic" /\ call[processor].step = "save"

\* The topic that the chat command is about to save is the one it has set.
TopicInv ==
    setter \in {"chat", "start"} =>
        IF Saving THEN call[processor].line.topic = topic ELSE settings["hub_topic"] = topic

ModInv == TablesOK /\ HubOK /\ CallOK /\ TopicInv

--------------------------------------------------------------------------------
(* Growth.                                                                  *)

\* How the tables and the faults change: accounts get new versions, gags new ids.
Grows ==
    /\ Len(past) <= Len(past')
    /\ \A k \in Stamps : past'[k] = past[k]
    /\ gagId <= gagId'
    /\ \A g \in gags' \ gags : g.id > gagId
    /\ faults <= faults'

\* Sizes are numbers and the last version is one of the table's.
LEMMA TableTypes ==
  ASSUME TablesOK
  PROVE  /\ Len(past) \in Nat \ {0} /\ gagId \in Nat /\ faults \in Nat /\ requests \in Nat
         /\ MaxFaults \in Nat /\ MaxRequests \in Nat
         /\ Len(past) \in Stamps /\ DOMAIN past = Stamps
         /\ \A k \in Stamps : past[k] \in [Users -> Accounts]
         /\ \A k \in Stamps, n \in Users : /\ past[k][n] \in Accounts
                                          /\ past[k][n].permission \in Int
         /\ \A k \in Stamps : k \in Nat
  <1>1. /\ past \in Seq([Users -> Accounts]) /\ past # <<>> /\ gagId \in Nat
        /\ requests \in 0 .. MaxRequests /\ faults \in 0 .. MaxFaults
    BY DEF TablesOK
  <1>2. /\ Len(past) \in Nat \ {0} /\ DOMAIN past = 1 .. Len(past)
        /\ \A k \in 1 .. Len(past) : past[k] \in [Users -> Accounts]
    BY <1>1, EmptySeq, LenProperties, ElementOfSeq
  <1>3. MaxFaults \in Nat /\ MaxRequests \in Nat
    BY ModerationAssumption
  <1>4. \A k \in Stamps, n \in Users : past[k][n] \in Accounts
    BY <1>2 DEF Stamps
  <1>5. \A a \in Accounts : a.permission \in Int
    BY DEF Accounts
  <1> QED BY <1>1, <1>2, <1>3, <1>4, <1>5 DEF Stamps

\* What is stamped or gagged in one state still is in the next.
LEMMA StampsGrow ==
  ASSUME TablesOK, TablesOK', Grows
  PROVE  /\ Stamps \subseteq Stamps' /\ Gags \subseteq Gags'
         /\ \A at \in Stamps : at .. Len(past) \subseteq at .. Len(past') /\
                               at .. Len(past) \subseteq Stamps
  <1>1. Len(past) \in Nat /\ Len(past') \in Nat /\ Len(past) <= Len(past')
        /\ gagId \in Nat /\ gagId' \in Nat /\ gagId <= gagId'
    BY TableTypes DEF TablesOK, Grows
  <1>2. 1 .. gagId \subseteq 1 .. gagId'
    BY <1>1
  <1> QED BY <1>1, <1>2 DEF Stamps, Gags

\* An event on its way is one still.
LEMMA EventsGrow ==
  ASSUME TablesOK, TablesOK', Grows
  PROVE  OwnEvents \subseteq OwnEvents'
  <1>1. Stamps \subseteq Stamps' /\ SUBSET Gags \subseteq SUBSET Gags'
    BY StampsGrow
  <1>2. Events \subseteq Events'
    BY <1>1 DEF Events
  <1> QED BY <1>2 DEF OwnEvents

\* A verdict earned stays earned: versions of the table are never rewritten.
LEMMA VerdictsGrow ==
  ASSUME TablesOK, TablesOK', Grows
  PROVE  EarnedVerdicts \subseteq EarnedVerdicts'
  <1> SUFFICES ASSUME NEW v \in EarnedVerdicts PROVE v \in EarnedVerdicts'
    OBVIOUS
  <1>1. v \in Verdicts /\ Earned(v) /\ v.at \in Stamps
    BY DEF EarnedVerdicts, Verdicts
  <1>2. v \in Verdicts'
    BY <1>1, StampsGrow DEF Verdicts
  <1>3. \A k \in v.at .. Len(past) : k \in v.at .. Len(past') /\ past'[k] = past[k]
    BY <1>1, StampsGrow DEF Grows
  <1>4. faults > 0 => faults' > 0
    BY TableTypes DEF Grows, TablesOK
  <1>5. Earned(v)'
    BY <1>1, <1>3, <1>4 DEF Earned
  <1> QED BY <1>2, <1>5 DEF EarnedVerdicts

\* A new gag has an id that no gag a line was said under has.
LEMMA LinesGrow ==
  ASSUME TablesOK, TablesOK', Grows
  PROVE  SilentLines \subseteq SilentLines'
  <1> SUFFICES ASSUME NEW t \in SilentLines PROVE t \in SilentLines'
    OBVIOUS
  <1>1. t \in LineTasks /\ t.under \subseteq Gags
        /\ (~t.gagged /\ faults = 0 => t.under \cap gags = {})
    BY DEF SilentLines, LineTasks
  <1>2. t \in LineTasks'
    <2>1. SUBSET Gags \subseteq SUBSET Gags'
      BY StampsGrow
    <2> QED BY <1>1, <2>1, StampsGrow DEF LineTasks
  <1>3. \A g \in Gags : g.id \in Nat /\ g.id <= gagId
    BY TableTypes DEF Gags
  <1>4. \A g \in t.under : g \in gags' => g \in gags
    BY <1>1, <1>3, TableTypes DEF Grows
  <1>5. faults' = 0 => faults = 0
    BY TableTypes DEF Grows, TablesOK
  <1> QED BY <1>1, <1>2, <1>4, <1>5 DEF SilentLines

\* What a handler has found out stays true of the versions it looked at.
LEMMA CallsGrow ==
  ASSUME TablesOK, TablesOK', Grows
  PROVE  Calls \subseteq Calls'
  <1>1. Deletes \subseteq Deletes'
    BY StampsGrow DEF Deletes
  <1>2. ChatTopics \subseteq ChatTopics'
    BY StampsGrow DEF ChatTopics
  <1>3. ASSUME NEW k \in RankedCalls PROVE k \in RankedCalls'
    <2>1. k \in GagCommand /\ k.at \in Stamps
      BY DEF RankedCalls, GagCommand
    <2>2. k \in GagCommand'
      BY <2>1, StampsGrow DEF GagCommand
    <2>3. \A i \in k.at .. Len(past) : i \in k.at .. Len(past') /\ past'[i] = past[i]
      BY <2>1, StampsGrow DEF Grows
    <2>4. faults' = 0 => faults = 0
      BY TableTypes DEF Grows, TablesOK
    <2>5. \E i \in k.at .. Len(past') : past'[i][k.by].permission = k.permission
      BY <2>3 DEF RankedCalls
    <2>6. k.step = k.op /\ faults' = 0 =>
             \E j \in k.at .. Len(past') : past'[j][k.line.target].permission < k.permission
      BY <2>3, <2>4 DEF RankedCalls
    <2> QED BY <2>2, <2>5, <2>6 DEF RankedCalls
  <1> QED BY <1>1, <1>2, <1>3 DEF Calls, RestTopics

\* Those who are not at work keep what they have.
LEMMA HubFrame ==
  ASSUME TablesOK, TablesOK', Grows, HubOK, UNCHANGED hubVars
  PROVE  HubOK'
  <1>1. UNCHANGED <<session, inbox, task, toHub>>
    BY DEF hubVars
  <1>2. inbox \in Seq(OwnEvents') /\ toHub \in Seq(EarnedVerdicts')
    BY EventsGrow, VerdictsGrow, SeqMonotonic DEF HubOK
  <1>3. task \in {NoTask} \cup EarnedVerdicts' \cup SilentLines'
    BY VerdictsGrow, LinesGrow DEF HubOK
  <1> QED BY <1>1, <1>2, <1>3 DEF HubOK

\* So do the handlers in flight and the commands on the bus.
LEMMA CallFrame ==
  ASSUME TablesOK, TablesOK', Grows, CallOK, UNCHANGED <<commands, call>>
  PROVE  CallOK'
  <1>1. CommandsSent \subseteq CommandsSent'
    BY StampsGrow DEF CommandsSent
  <1>2. commands \in Seq(CommandsSent')
    BY <1>1, SeqMonotonic DEF CallOK
  <1>3. call \in [RestCalls \cup {processor} -> Calls']
    BY CallsGrow DEF CallOK
  <1> QED BY <1>2, <1>3 DEF CallOK

\* And the topic, while neither it nor the processor moves.
LEMMA TopicFrame ==
  ASSUME TopicInv, UNCHANGED topicVars, call'[processor] = call[processor]
  PROVE  TopicInv'
  BY DEF TopicInv, topicVars, Saving

\* Nothing grows where nothing is written; a fault is counted.
LEMMA NoGrowth ==
  ASSUME TablesOK, UNCHANGED <<past, gagId>>, gags' \subseteq gags,
         UNCHANGED faults \/ Fault
  PROVE  Grows /\ faults' \in 0 .. MaxFaults /\ (Fault => faults' > 0)
  BY TableTypes DEF Grows, Fault, TablesOK

--------------------------------------------------------------------------------
(* The initial state and the hub.                                           *)

\* At the start nothing is under way.
LEMMA InitInv == Init => ModInv
  <1> SUFFICES ASSUME Init PROVE ModInv
    OBVIOUS
  <1> DEFINE first == [n \in Users |-> IF n \in Ops
                                THEN [password |-> OpPassword, permission |-> 2]
                                ELSE [password |-> NoPassword, permission |-> 0]]
  <1>1. OpPassword \in Passwords
    <2>1. Passwords # {}
      BY ModerationAssumption
    <2> QED BY <2>1 DEF OpPassword
  <1>2. /\ [password |-> OpPassword, permission |-> 2] \in Accounts
        /\ [password |-> NoPassword, permission |-> 0] \in Accounts
    BY <1>1 DEF Accounts
  <1>3. first \in [Users -> Accounts]
    BY <1>2
  <1>4. past = <<first>>
    BY DEF Init
  <1> HIDE DEF first
  <1>5. past \in Seq([Users -> Accounts]) /\ past # <<>>
    BY <1>3, <1>4
  <1>6. MaxRequests \in Nat /\ MaxFaults \in Nat
    BY ModerationAssumption
  <1>7. /\ gagId \in Nat /\ gags \subseteq Gags
        /\ requests \in 0 .. MaxRequests /\ faults \in 0 .. MaxFaults
    BY <1>6 DEF Init
  <1>8. /\ settings \in [{"hub_topic", "topic"} -> Topics \cup {NoTopic}]
        /\ settings["hub_topic"] = NoTopic /\ topic = NoTopic /\ setter = "start"
    BY DEF Init
  <1>9. TablesOK
    BY <1>5, <1>7, <1>8 DEF TablesOK
  <1>10. HubOK
    BY EmptySeq DEF Init, HubOK
  <1>11. call \in [RestCalls \cup {processor} -> {Idle}] /\ commands = <<>>
    BY DEF Init
  <1>12. CallOK
    BY <1>11, EmptySeq DEF CallOK, Calls
  <1>13. call[processor] = Idle
    BY <1>11
  <1>14. TopicInv
    BY <1>8, <1>13 DEF TopicInv, Saving, Idle
  <1> QED BY <1>9, <1>10, <1>12, <1>14 DEF ModInv

\* A hub's step changes none of the tables.
LEMMA HubTables ==
  ASSUME ModInv, HubStep
  PROVE  TablesOK' /\ Grows /\ CallOK' /\ TopicInv'
  <1>1. UNCHANGED <<past, gags, gagId, settings, topic, setter, commands, call, faults>>
    <2>1. \A n \in Nicks : HubConnects(n) \/ HubChat(n) \/ HubAnswers(n) =>
             UNCHANGED <<past, gagVars, topicVars, commands, call, faults>>
      BY DEF HubConnects, HubAnswers, HubChat, boundVars
    <2>2. HubTakes => UNCHANGED <<past, gagVars, topicVars, commands, call, faults>>
      BY DEF HubTakes, boundVars
    <2> QED BY <2>1, <2>2 DEF HubStep, gagVars, topicVars
  <1>2. \/ requests' = requests
        \/ requests' = requests + 1 /\ requests < MaxRequests
    <2>1. \A n \in Nicks : HubConnects(n) \/ HubChat(n) => Request
      BY DEF HubConnects, HubChat
    <2>2. \A n \in Nicks : HubAnswers(n) => requests' = requests
      BY DEF HubAnswers, boundVars
    <2>3. HubTakes => requests' = requests
      BY DEF HubTakes, boundVars
    <2> QED BY <2>1, <2>2, <2>3 DEF HubStep, Request
  <1>3. TablesOK
    BY DEF ModInv
  <1>4. requests' \in 0 .. MaxRequests
    BY <1>2, <1>3, TableTypes DEF TablesOK
  <1>5. TablesOK'
    BY <1>1, <1>3, <1>4 DEF TablesOK, Gags
  <1>6. Grows
    BY <1>1, <1>3, NoGrowth
  <1> QED BY <1>1, <1>3, <1>5, <1>6, CallFrame, TopicFrame DEF ModInv, topicVars

\* A hub's step sends the socket task an event, or takes a verdict.
LEMMA HubInv ==
  ASSUME ModInv, HubStep
  PROVE  ModInv'
  <1>0. TablesOK /\ HubOK /\ TablesOK' /\ Grows /\ CallOK' /\ TopicInv'
    BY HubTables DEF ModInv
  <1>1. /\ OwnEvents \subseteq OwnEvents' /\ Len(past) \in Stamps
        /\ EarnedVerdicts \subseteq EarnedVerdicts'
        /\ SilentLines \subseteq SilentLines'
    BY <1>0, EventsGrow, VerdictsGrow, LinesGrow, TableTypes
  <1>2. \A n \in Nicks : n \notin Reserved => n \in Users
    BY DEF Users
  \* One more event comes in.
  <1>3. ASSUME NEW n \in Nicks, NEW e \in OwnEvents, inbox' = Append(inbox, e),
               UNCHANGED <<task, toHub>>,
               session' = session \/ session' = [session EXCEPT ![n] = "waiting"]
        PROVE  ModInv'
    <2>1. inbox' \in Seq(OwnEvents)
      BY <1>0, <1>3, AppendProperties DEF HubOK
    <2>2. inbox' \in Seq(OwnEvents')
      BY <1>1, <2>1, SeqMonotonic
    <2>3. toHub' \in Seq(EarnedVerdicts')
      BY <1>0, <1>1, <1>3, SeqMonotonic DEF HubOK
    <2>4. task' \in {NoTask} \cup EarnedVerdicts' \cup SilentLines'
      BY <1>0, <1>1, <1>3 DEF HubOK
    <2>5. /\ session' \in [Nicks -> {"out", "waiting", "asked", "in"}]
          /\ \A r \in Reserved : session'[r] \in {"out", "waiting"}
      BY <1>0, <1>3, ModerationAssumption DEF HubOK
    <2>6. HubOK'
      BY <2>2, <2>3, <2>4, <2>5 DEF HubOK
    <2> QED BY <1>0, <2>6 DEF ModInv
  <1>4. ASSUME NEW n \in Nicks, HubConnects(n) PROVE ModInv'
    <2> DEFINE e == [type |-> "validate_nick", nick |-> n, at |-> Len(past)]
    <2>1. e \in OwnEvents
      BY <1>1 DEF OwnEvents, Events
    <2>2. /\ inbox' = Append(inbox, e) /\ UNCHANGED <<task, toHub>>
          /\ session' = [session EXCEPT ![n] = "waiting"]
      BY <1>4 DEF HubConnects
    <2> HIDE DEF e
    <2> QED BY <1>3, <2>1, <2>2
  <1>5. ASSUME NEW n \in Nicks, HubAnswers(n) PROVE ModInv'
    <2>1. n \in Users
      BY <1>0, <1>2, <1>5 DEF HubAnswers, HubOK
    <2>2. PICK p \in Passwords \cup {NoPassword} :
            inbox' = Append(inbox, [type |-> "check_password", nick |-> n, password |-> p,
                                    at |-> Len(past)])
      BY <1>5 DEF HubAnswers
    <2>3. [type |-> "check_password", nick |-> n, password |-> p, at |-> Len(past)] \in OwnEvents
      BY <1>1, <2>1 DEF OwnEvents, Events
    <2>4. UNCHANGED <<task, toHub>> /\ session' = [session EXCEPT ![n] = "waiting"]
      BY <1>5 DEF HubAnswers
    <2> QED BY <1>3, <2>2, <2>3, <2>4
  <1>6. ASSUME NEW n \in Nicks, HubChat(n) PROVE ModInv'
    <2>1. n \in Users
      BY <1>0, <1>2, <1>6 DEF HubChat, HubOK
    <2>2. PICK line \in Line :
            inbox' = Append(inbox, [type |-> "chat", nick |-> n, line |-> line,
                                    at |-> Len(past), under |-> GagsOf(n)])
      BY <1>6 DEF HubChat
    <2>3. GagsOf(n) \in SUBSET Gags /\ \A g \in GagsOf(n) : g.nick = n
      BY <1>0 DEF GagsOf, TablesOK
    <2>4. [type |-> "chat", nick |-> n, line |-> line, at |-> Len(past), under |-> GagsOf(n)]
             \in OwnEvents
      BY <1>1, <2>1, <2>3 DEF OwnEvents, Events
    <2>5. UNCHANGED <<task, toHub>> /\ session' = session
      BY <1>6 DEF HubChat
    <2> QED BY <1>3, <2>2, <2>4, <2>5
  <1>7. CASE HubTakes
    <2> DEFINE v == Head(toHub)
    <2>1. toHub # <<>> /\ toHub' = Tail(toHub) /\ UNCHANGED <<inbox, task>>
      BY <1>7 DEF HubTakes
    <2>2. v \in EarnedVerdicts /\ toHub' \in Seq(EarnedVerdicts)
      BY <1>0, <2>1, HeadTailProperties DEF HubOK
    <2>3. PICK s \in {"out", "asked", "in"} :
            /\ session' = [session EXCEPT ![v.nick] = s]
            /\ v.type = "reject_user" => s = "out"
      BY <1>7 DEF HubTakes
    <2>4. v.nick \in Users \/ v.type = "reject_user"
      BY <2>2 DEF EarnedVerdicts
    <2>5. v.nick \in Reserved => s = "out"
      BY <2>3, <2>4 DEF Users
    <2>6. /\ session' \in [Nicks -> {"out", "waiting", "asked", "in"}]
          /\ \A r \in Reserved : session'[r] \in {"out", "waiting"}
      <3> HIDE DEF v
      <3> QED BY <1>0, <2>3, <2>5, ModerationAssumption DEF HubOK
    <2>7. toHub' \in Seq(EarnedVerdicts') /\ inbox' \in Seq(OwnEvents')
      BY <1>0, <1>1, <2>1, <2>2, SeqMonotonic DEF HubOK
    <2>8. task' \in {NoTask} \cup EarnedVerdicts' \cup SilentLines'
      BY <1>0, <1>1, <2>1 DEF HubOK
    <2> QED BY <1>0, <2>6, <2>7, <2>8 DEF ModInv, HubOK
  <1> QED BY <1>4, <1>5, <1>6, <1>7 DEF HubStep

--------------------------------------------------------------------------------
(* The socket task.                                                         *)

\* What the socket task does to an event is all it does.
LEMMA SocketTables ==
  ASSUME ModInv, SocketStep
  PROVE  /\ TablesOK' /\ Grows
         /\ UNCHANGED <<past, gags, gagId, settings, topic, setter, session, call>>
         /\ UNCHANGED faults \/ Fault
  <1>1. UNCHANGED <<past, gags, gagId, settings, topic, setter, session, call, requests>>
    <2>1. ValidateNick \/ CheckPassword =>
             UNCHANGED <<past, gagVars, topicVars, session, call, requests>>
      BY DEF ValidateNick, CheckPassword
    <2>2. SendVerdict \/ CheckGag \/ FinishLine =>
             UNCHANGED <<past, gagVars, topicVars, session, call, requests>>
      BY DEF SendVerdict, CheckGag, FinishLine, boundVars
    <2> QED BY <2>1, <2>2 DEF SocketStep, gagVars, topicVars
  <1>2. UNCHANGED faults \/ Fault
    <2>1. ValidateNick => UNCHANGED faults \/ Fault
      BY DEF ValidateNick
    <2>2. CheckPassword => UNCHANGED faults \/ Fault
      BY DEF CheckPassword
    <2>3. SendVerdict \/ CheckGag \/ FinishLine => UNCHANGED faults \/ Fault
      BY DEF SendVerdict, CheckGag, FinishLine, boundVars
    <2> QED BY <2>1, <2>2, <2>3 DEF SocketStep
  <1>3. TablesOK
    BY DEF ModInv
  <1>4. Grows /\ faults' \in 0 .. MaxFaults
    BY <1>1, <1>2, <1>3, NoGrowth
  <1>5. TablesOK'
    BY <1>1, <1>3, <1>4 DEF TablesOK, Gags
  <1> QED BY <1>1, <1>2, <1>4, <1>5

\* The socket task judges an event, and acts on its verdict.
LEMMA SocketInv ==
  ASSUME ModInv, SocketStep
  PROVE  ModInv'
  <1>0. /\ TablesOK /\ HubOK /\ CallOK /\ TopicInv /\ TablesOK' /\ Grows
        /\ UNCHANGED <<past, gags, gagId, settings, topic, setter, session, call>>
        /\ UNCHANGED faults \/ Fault
    BY SocketTables DEF ModInv
  <1>1. /\ OwnEvents \subseteq OwnEvents' /\ Len(past) \in Stamps
        /\ EarnedVerdicts \subseteq EarnedVerdicts'
        /\ SilentLines \subseteq SilentLines'
    BY <1>0, EventsGrow, VerdictsGrow, LinesGrow, TableTypes
  <1>2. TopicInv'
    BY <1>0, TopicFrame DEF topicVars
  <1>3. \A v \in EarnedVerdicts : v.type \in {"send_getpass", "login_user", "reject_user"}
    BY DEF EarnedVerdicts, Verdicts
  \* An event is taken up.
  <1>4. ASSUME NEW type, Handles(type), task' \in EarnedVerdicts' \cup SilentLines',
               UNCHANGED <<toHub, commands>>
        PROVE  ModInv'
    <2>1. inbox' \in Seq(OwnEvents)
      BY <1>0, <1>4, HeadTailProperties DEF Handles, HubOK
    <2>2. inbox' \in Seq(OwnEvents') /\ toHub' \in Seq(EarnedVerdicts')
      BY <1>0, <1>1, <1>4, <2>1, SeqMonotonic DEF HubOK
    <2>3. HubOK'
      BY <1>0, <1>4, <2>2 DEF HubOK
    <2>4. CallOK'
      BY <1>0, <1>4, CallFrame
    <2> QED BY <1>0, <1>2, <2>3, <2>4 DEF ModInv
  <1>5. ASSUME NEW type, Handles(type)
        PROVE  /\ Head(inbox) \in OwnEvents /\ Head(inbox) \in Events
               /\ Head(inbox).type = type /\ Head(inbox).at \in Stamps
               /\ Head(inbox).nick \in Nicks
               /\ type \in {"check_password", "chat"} => Head(inbox).nick \in Users
    <2>1. Head(inbox) \in OwnEvents /\ Head(inbox).type = type
      BY <1>0, <1>5, HeadTailProperties DEF Handles, HubOK
    <2>2. Head(inbox) \in Events
      BY <2>1 DEF OwnEvents
    <2> QED BY <2>1, <2>2 DEF Events, Users
  <1>6. ASSUME NEW at \in Stamps
        PROVE  Len(past) \in at .. Len(past')
    BY <1>0, <1>6, TableTypes DEF Stamps
  <1>7. \A n \in Users : past'[Len(past)][n] = Account(n)
    BY <1>0 DEF Account
  <1>8. CASE ValidateNick
    <2> DEFINE e == Head(inbox)
    <2>1. /\ Handles("validate_nick") /\ UNCHANGED <<toHub, commands>>
          /\ \/ /\ e.nick \in Reserved
                /\ task' = Verdict(e, "reject_user", NoPassword, 0)
             \/ /\ e.nick \in Users
                /\ Registered(Account(e.nick))
                /\ task' = Verdict(e, "send_getpass", NoPassword, 0)
             \/ /\ e.nick \in Users
                /\ ~Registered(Account(e.nick)) \/ Fault
                /\ task' = Verdict(e, "login_user", NoPassword, 0)
      BY <1>8 DEF ValidateNick
    <2>2. e.at \in Stamps' /\ e.nick \in Nicks /\ e.at \in Stamps
      BY <1>0, <1>5, <2>1, StampsGrow
    <2>3. \A t \in {"send_getpass", "login_user", "reject_user"} :
             Verdict(e, t, NoPassword, 0) \in Verdicts'
      BY <2>2 DEF Verdicts, Verdict
    <2>4. Fault => faults' > 0
      BY <1>0, NoGrowth
    <2>5. PICK v : v = task'
      OBVIOUS
    <2>6. \/ v.type # "login_user"
          \/ /\ v.password = NoPassword /\ v.permission = 0
             /\ faults' > 0 \/ ~Registered(past'[Len(past)][v.nick])
      BY <1>7, <2>1, <2>4, <2>5 DEF Verdict
    <2>7. v.at = e.at /\ (v.nick \in Users \/ v.type = "reject_user")
      BY <2>1, <2>5 DEF Verdict
    <2>8. v \in Verdicts'
      BY <2>1, <2>3, <2>5
    <2>9. Earned(v)'
      <3>1. Len(past) \in v.at .. Len(past')
        BY <1>6, <2>2, <2>7
      <3> QED BY <2>6, <3>1 DEF Earned
    <2>10. task' \in EarnedVerdicts'
      BY <2>5, <2>7, <2>8, <2>9 DEF EarnedVerdicts
    <2> QED BY <1>4, <2>1, <2>10
  <1>9. CASE CheckPassword
    <2> DEFINE e == Head(inbox)
               a == Account(e.nick)
    <2>1. /\ Handles("check_password") /\ UNCHANGED <<toHub, commands>>
          /\ \/ /\ e.password # NoPassword /\ e.password = a.password
                /\ task' = Verdict(e, "login_user", e.password, a.permission)
             \/ task' = Verdict(e, "reject_user", e.password, 0)
      BY <1>9 DEF CheckPassword
    <2>2. /\ e.at \in Stamps' /\ e.nick \in Users /\ e.at \in Stamps
          /\ e \in Events /\ e.type = "check_password"
      BY <1>0, <1>5, <2>1, StampsGrow
    <2>3. e.password \in Passwords \cup {NoPassword}
      BY <2>2 DEF Events
    <2>4. a \in Accounts /\ a.permission \in Int /\ past'[Len(past)][e.nick] = a
      BY <1>0, <1>1, <1>7, <2>2, TableTypes DEF Account
    <2>5. PICK v : v = task'
      OBVIOUS
    <2>6. v \in Verdicts' /\ v.at = e.at /\ v.nick = e.nick
      BY <2>1, <2>2, <2>3, <2>4, <2>5 DEF Verdicts, Verdict, Users
    <2>7. v.type = "login_user" =>
             /\ v.password # NoPassword
             /\ a = [password |-> v.password, permission |-> v.permission]
      BY <2>1, <2>4, <2>5 DEF Verdict, Accounts
    <2>8. Earned(v)'
      <3>1. Len(past) \in v.at .. Len(past')
        BY <1>6, <2>2, <2>6
      <3> QED BY <2>4, <2>6, <2>7, <3>1 DEF Earned
    <2>9. task' \in EarnedVerdicts'
      BY <2>2, <2>5, <2>6, <2>8 DEF EarnedVerdicts
    <2> QED BY <1>4, <2>1, <2>9
  <1>10. CASE CheckGag
    <2> DEFINE e == Head(inbox)
    <2>1. PICK gagged \in BOOLEAN :
            /\ task' = Checked(e, gagged)
            /\ ~gagged => GagsOf(e.nick) = {} \/ Fault
      BY <1>10 DEF CheckGag
    <2>2. Handles("chat") /\ UNCHANGED <<toHub, commands>>
      BY <1>10 DEF CheckGag
    <2>3. /\ e \in OwnEvents' /\ e \in Events' /\ e.type = "chat"
          /\ \A g \in e.under : g.nick = e.nick
      BY <1>1, <1>5, <2>2 DEF OwnEvents
    <2>4. Checked(e, gagged) \in LineTasks'
      BY <2>3 DEF Events, LineTasks, Checked
    <2>5. ASSUME ~gagged, faults' = 0 PROVE e.under \cap gags' = {}
      <3>1. ~Fault
        BY <1>0, <2>5, NoGrowth
      <3>2. GagsOf(e.nick) = {}
        BY <2>1, <2>5, <3>1
      <3> QED BY <1>0, <2>3, <3>2 DEF GagsOf
    <2>6. Checked(e, gagged) \in SilentLines'
      BY <2>4, <2>5 DEF SilentLines, Checked
    <2> QED BY <1>4, <2>1, <2>2, <2>6
  <1>11. CASE SendVerdict
    <2>1. /\ task.type \in {"send_getpass", "login_user", "reject_user"}
          /\ toHub' = Append(toHub, task) /\ task' = NoTask
          /\ UNCHANGED <<inbox, commands>>
      BY <1>11 DEF SendVerdict
    <2>2. task \in EarnedVerdicts
      BY <1>0, <2>1 DEF HubOK, NoTask, SilentLines, LineTasks
    <2>3. toHub' \in Seq(EarnedVerdicts)
      BY <1>0, <2>1, <2>2, AppendProperties DEF HubOK
    <2>4. toHub' \in Seq(EarnedVerdicts') /\ inbox' \in Seq(OwnEvents')
      BY <1>0, <1>1, <2>1, <2>3, SeqMonotonic DEF HubOK
    <2>5. HubOK'
      BY <1>0, <2>1, <2>4 DEF HubOK
    <2>6. CallOK'
      BY <1>0, <2>1, CallFrame
    <2> QED BY <1>0, <1>2, <2>5, <2>6 DEF ModInv
  <1>12. CASE FinishLine
    <2> DEFINE m == [line |-> task.line, by |-> task.nick, at |-> task.at]
    <2>1. /\ task.type = "chat" /\ task' = NoTask /\ UNCHANGED <<inbox, toHub>>
          /\ \/ commands' = commands
             \/ /\ task.line.op # "talk"
                /\ commands' = Append(commands, m)
      BY <1>12 DEF FinishLine
    <2>2. task \in LineTasks
      <3>1. task \in {NoTask} \cup EarnedVerdicts \cup SilentLines
        BY <1>0 DEF HubOK
      <3>2. task \notin EarnedVerdicts /\ task # NoTask
        BY <1>3, <2>1 DEF NoTask
      <3> QED BY <3>1, <3>2 DEF SilentLines
    <2>3. task.line.op # "talk" => m \in CommandsSent
      BY <2>2 DEF LineTasks, Line, CommandsSent
    <2> HIDE DEF m
    <2>4. commands' \in Seq(CommandsSent)
      BY <1>0, <2>1, <2>3, AppendProperties DEF CallOK
    <2>5. CommandsSent \subseteq CommandsSent'
      BY <1>0, StampsGrow DEF CommandsSent
    <2>6. call' \in [RestCalls \cup {processor} -> Calls']
      BY <1>0, CallsGrow DEF CallOK
    <2>7. CallOK'
      BY <2>4, <2>5, <2>6, SeqMonotonic DEF CallOK
    <2>8. toHub' \in Seq(EarnedVerdicts') /\ inbox' \in Seq(OwnEvents')
      BY <1>0, <1>1, <2>1, SeqMonotonic DEF HubOK
    <2>9. HubOK'
      BY <1>0, <2>1, <2>8 DEF HubOK
    <2> QED BY <1>0, <1>2, <2>7, <2>9 DEF ModInv
  <1> QED BY <1>8, <1>9, <1>10, <1>11, <1>12 DEF SocketStep

--------------------------------------------------------------------------------
(* The handlers.                                                            *)

\* One handler moves on, or is over.
LEMMA CallMove ==
  ASSUME ModInv, TablesOK', Grows, UNCHANGED hubVars, TopicInv',
         commands' \in Seq(CommandsSent),
         \/ call' = call
         \/ \E c \in RestCalls \cup {processor}, v \in Calls' : call' = [call EXCEPT ![c] = v]
  PROVE  ModInv'
  <1>1. HubOK'
    BY HubFrame DEF ModInv
  <1>2. CommandsSent \subseteq CommandsSent'
    BY StampsGrow DEF CommandsSent, ModInv
  <1>3. commands' \in Seq(CommandsSent')
    BY <1>2, SeqMonotonic
  <1>4. call \in [RestCalls \cup {processor} -> Calls']
    BY CallsGrow DEF CallOK, ModInv
  <1>5. call' \in [RestCalls \cup {processor} -> Calls']
    BY <1>4
  <1> QED BY <1>1, <1>3, <1>5 DEF ModInv, CallOK

\* What the step of a handler says of its kind.
LEMMA CallKinds ==
  ASSUME NEW v \in Calls
  PROVE  /\ v.op \in {"gag", "ungag"} => v \in RankedCalls
         /\ v.op = "delete" => v \in Deletes
         /\ v.op = "topic" => v \in ChatTopics \cup RestTopics
         /\ v.op = "topic" => v.line.topic \in Topics \cup {NoTopic}
         /\ v.op = "topic" /\ v.step = "set" => v \in ChatTopics
  BY DEF Calls, Idle, RankedCalls, GagCommand, Deletes, ChatTopics, RestTopics

\* There is a latest gag of a nick that has any.
LEMMA LatestGag ==
  ASSUME TablesOK, NEW n, GagsOf(n) # {}
  PROVE  ActiveGag(n) \in GagsOf(n) /\ ActiveGag(n) \in gags
  <1>1. gagId \in Nat /\ GagsOf(n) \subseteq gags
        /\ \A g \in GagsOf(n) : g.id \in Nat /\ g.id <= gagId
    BY DEF TablesOK, GagsOf, Gags
  <1> DEFINE ages == {gagId - g.id : g \in GagsOf(n)}
  <1>2. ages \subseteq Nat /\ ages # {}
    BY <1>1
  <1>3. PICK x \in ages : \A y \in ages : ~(<<y, x>> \in OpToRel(<, Nat))
    <2> HIDE DEF ages
    <2> QED BY <1>2, NatLessThanWellFounded, WFMin
  <1>4. ASSUME NEW y \in ages PROVE x <= y
    <2>1. x \in Nat /\ y \in Nat
      BY <1>2
    <2>2. y < x => <<y, x>> \in OpToRel(<, Nat)
      BY <2>1, Zenon DEF OpToRel
    <2>3. ~(y < x)
      BY <1>3, <2>2, Zenon
    <2> QED BY <2>1, <2>3
  <1>5. PICK g \in GagsOf(n) : x = gagId - g.id
    <2>1. x \in ages
      BY <1>3, Zenon
    <2> QED BY <2>1
  <1>6. ASSUME NEW f \in GagsOf(n) PROVE f.id <= g.id
    <2>1. gagId - f.id \in ages
      OBVIOUS
    <2>2. x <= gagId - f.id
      BY <1>4, <2>1
    <2> HIDE DEF ages
    <2> QED BY <1>1, <1>5, <2>2
  <1>7. ActiveGag(n) \in GagsOf(n)
    BY <1>5, <1>6 DEF ActiveGag
  <1> QED BY <1>1, <1>7

\* A gag that was looked up is no newer than the lookup.
LEMMA LookedUp ==
  ASSUME TablesOK, NEW n, GagsOf(n) # {}
  PROVE  [op |-> "delete", gag |-> ActiveGag(n), last |-> gagId] \in Deletes
  <1>1. ActiveGag(n) \in Gags /\ gagId \in Nat
    BY LatestGag DEF TablesOK
  <1>2. ActiveGag(n).id <= gagId
    BY <1>1 DEF Gags
  <1> QED BY <1>1, <1>2 DEF Deletes

\* A new version of the users table.
LEMMA NewVersion ==
  ASSUME ModInv, NEW n \in Users, NEW p \in Passwords \cup {NoPassword}, NEW level \in Int,
         SetAccount(n, p, level)
  PROVE  ModInv'
  <1> DEFINE new == [past[Len(past)] EXCEPT ![n] = [password |-> p, permission |-> level]]
  <1>0. TablesOK /\ CallOK /\ TopicInv
    BY DEF ModInv
  <1>1. UNCHANGED <<gags, gagId, settings, topic, setter, hubVars, commands, call, faults>>
    BY DEF SetAccount, gagVars, topicVars
  <1>2. requests' \in 0 .. MaxRequests
    BY <1>0, TableTypes DEF SetAccount, Request, TablesOK
  <1>3. [password |-> p, permission |-> level] \in Accounts
    BY DEF Accounts
  <1>4. past[Len(past)] \in [Users -> Accounts]
    BY <1>0, TableTypes
  <1>5. new \in [Users -> Accounts] /\ past \in Seq([Users -> Accounts])
    BY <1>0, <1>3, <1>4 DEF TablesOK
  <1>6. past' = Append(past, new)
    BY DEF SetAccount
  <1> HIDE DEF new
  <1>7. /\ past' \in Seq([Users -> Accounts]) /\ past' # <<>>
        /\ Len(past') = Len(past) + 1
        /\ \A k \in 1 .. Len(past) : past'[k] = past[k]
    BY <1>5, <1>6, AppendProperties
  <1>8. TablesOK'
    BY <1>0, <1>1, <1>2, <1>7 DEF TablesOK, Gags
  <1>9. Grows
    BY <1>0, <1>1, <1>7, TableTypes DEF Grows, Stamps
  <1>10. TopicInv'
    BY <1>0, <1>1, TopicFrame DEF topicVars
  <1> QED BY <1>0, <1>1, <1>8, <1>9, <1>10, CallMove DEF CallOK

\* The three requests that write an account.
LEMMA AccountInv ==
  ASSUME ModInv, NEW n \in Users, RegisterUser(n) \/ UnregisterUser(n) \/ SetPassword(n)
  PROVE  ModInv'
  <1>1. ASSUME RegisterUser(n) PROVE ModInv'
    <2>1. \A level \in RegTypes : level \in Int
      BY ModerationAssumption
    <2> QED BY <1>1, <2>1, NewVersion DEF RegisterUser
  <1>2. ASSUME UnregisterUser(n) PROVE ModInv'
    BY <1>2, NewVersion DEF UnregisterUser
  <1>3. ASSUME SetPassword(n) PROVE ModInv'
    <2>1. \A level \in Permissions : level \in Int
      BY ModerationAssumption
    <2>2. Account(n).permission \in Int
      BY TableTypes DEF ModInv, Account
    <2> QED BY <1>3, <2>1, <2>2, NewVersion DEF SetPassword
  <1> QED BY <1>1, <1>2, <1>3

\* A gag with an id that no gag had.
LEMMA NewGag ==
  ASSUME TablesOK, NEW n \in Users, CreateGag(n), UNCHANGED <<past, topicVars, faults>>,
         requests' \in 0 .. MaxRequests
  PROVE  TablesOK' /\ Grows
  <1>1. gagId \in Nat /\ gagId' = gagId + 1
    BY DEF TablesOK, CreateGag
  <1>2. PICK temporary \in BOOLEAN :
          gags' = gags \cup {[nick |-> n, id |-> gagId + 1, temporary |-> temporary]}
    BY DEF CreateGag
  <1>3. 1 .. gagId \subseteq 1 .. gagId' /\ gagId + 1 \in 1 .. gagId'
    BY <1>1
  <1>4. Gags \subseteq Gags'
    BY <1>3 DEF Gags
  <1>5. [nick |-> n, id |-> gagId + 1, temporary |-> temporary] \in Gags'
    BY <1>3 DEF Gags
  <1>6. gags' \subseteq Gags'
    BY <1>2, <1>4, <1>5 DEF TablesOK
  <1>7. TablesOK'
    BY <1>1, <1>6 DEF TablesOK, topicVars
  <1>8. \A g \in gags' \ gags : g.id > gagId
    BY <1>1, <1>2
  <1> QED BY <1>1, <1>7, <1>8, TableTypes DEF Grows

\* REST handlers that gag, talk, look a gag up or set the topic.
LEMMA RestInv ==
  ASSUME ModInv, RestRequest
  PROVE  ModInv'
  <1>0. TablesOK /\ HubOK /\ CallOK /\ TopicInv
    BY DEF ModInv
  <1>1. \A n : GagUser(n) \/ SendMessage(n) => Request
    BY DEF GagUser, SendMessage
  <1>2. \A c, n, t : UngagUser(c, n) \/ SetTopic(c, t) => Request
    BY DEF UngagUser, SetTopic
  <1>3. Request => requests' \in 0 .. MaxRequests
    BY <1>0, TableTypes DEF Request, TablesOK
  <1>4. commands \in Seq(CommandsSent) /\ Len(past) \in Stamps
    BY <1>0, TableTypes DEF CallOK
  <1>5. ASSUME NEW n \in Users, RegisterUser(n) \/ UnregisterUser(n) \/ SetPassword(n)
        PROVE  ModInv'
    BY <1>5, AccountInv
  <1>6. ASSUME NEW n \in Users, GagUser(n) PROVE ModInv'
    <2>1. CreateGag(n) /\ UNCHANGED <<past, topicVars, hubVars, commands, call, faults>>
      BY <1>6 DEF GagUser
    <2>2. TablesOK' /\ Grows
      BY <1>0, <1>1, <1>3, <1>6, <2>1, NewGag
    <2>3. TopicInv'
      BY <1>0, <2>1, TopicFrame
    <2> QED BY <1>4, <2>1, <2>2, <2>3, CallMove
  <1>7. ASSUME NEW n \in Users, SendMessage(n) PROVE ModInv'
    <2>1. UNCHANGED <<past, gags, gagId, settings, topic, setter, hubVars, call, faults>>
      BY <1>7 DEF SendMessage, gagVars, topicVars
    <2>2. PICK line \in Command :
            commands' = Append(commands, [line |-> line, by |-> n, at |-> Len(past)])
      BY <1>7 DEF SendMessage
    <2>3. [line |-> line, by |-> n, at |-> Len(past)] \in CommandsSent
      BY <1>4 DEF CommandsSent
    <2>4. commands' \in Seq(CommandsSent)
      BY <1>4, <2>2, <2>3, AppendProperties
    <2>5. TablesOK'
      BY <1>0, <1>1, <1>3, <1>7, <2>1 DEF TablesOK, Gags
    <2>6. Grows
      BY <1>0, <2>1, NoGrowth
    <2>7. TopicInv'
      BY <1>0, <2>1, TopicFrame DEF topicVars
    <2> QED BY <2>1, <2>4, <2>5, <2>6, <2>7, CallMove
  <1>8. ASSUME NEW c \in RestCalls, NEW n \in Users, UngagUser(c, n) PROVE ModInv'
    <2>1. /\ UNCHANGED <<past, gags, gagId, settings, topic, setter, hubVars, commands, faults>>
          /\ GagsOf(n) # {}
      BY <1>8 DEF UngagUser, gagVars, topicVars
    <2> DEFINE v == [op |-> "delete", gag |-> ActiveGag(n), last |-> gagId]
    <2>2. v \in Deletes /\ call' = [call EXCEPT ![c] = v]
      BY <1>0, <1>8, <2>1, LookedUp DEF UngagUser
    <2>3. TablesOK'
      BY <1>0, <1>2, <1>3, <1>8, <2>1 DEF TablesOK, Gags
    <2>4. Grows
      BY <1>0, <2>1, NoGrowth
    <2> HIDE DEF v
    <2>5. v \in Calls'
      BY <1>0, <2>2, <2>3, <2>4, CallsGrow DEF Calls
    <2>6. call'[processor] = call[processor]
      <3>1. c # processor
        BY ModerationAssumption
      <3> QED BY <1>0, <2>2, <3>1 DEF CallOK
    <2>7. TopicInv'
      BY <1>0, <2>1, <2>6, TopicFrame DEF topicVars
    <2> QED BY <1>4, <2>1, <2>2, <2>3, <2>4, <2>5, <2>7, CallMove
  <1>9. ASSUME NEW c \in RestCalls, NEW t \in Topics \cup {NoTopic}, SetTopic(c, t)
        PROVE  ModInv'
    <2>1. /\ UNCHANGED <<past, gags, gagId, settings, hubVars, commands, faults>>
          /\ topic' = t /\ setter' = "rest"
      BY <1>9 DEF SetTopic, gagVars
    <2> DEFINE v == [op |-> "topic", step |-> "save", line |-> [topic |-> t]]
    <2>2. v \in RestTopics /\ call' = [call EXCEPT ![c] = v]
      BY <1>9 DEF SetTopic, RestTopics
    <2>3. TablesOK'
      BY <1>0, <1>2, <1>3, <1>9, <2>1 DEF TablesOK, Gags
    <2>4. Grows
      BY <1>0, <2>1, NoGrowth
    <2> HIDE DEF v
    <2>5. v \in Calls'
      BY <1>0, <2>2, <2>3, <2>4, CallsGrow DEF Calls
    <2>6. TopicInv'
      BY <2>1 DEF TopicInv
    <2> QED BY <1>4, <2>1, <2>2, <2>3, <2>4, <2>5, <2>6, CallMove
  <1> QED BY <1>5, <1>6, <1>7, <1>8, <1>9 DEF RestRequest

\* The command processor receives a command, and ranks are compared.
LEMMA DispatchInv ==
  ASSUME ModInv, Dispatch
  PROVE  ModInv'
  <1>0. TablesOK /\ HubOK /\ CallOK /\ TopicInv
    BY DEF ModInv
  <1> DEFINE m == Head(commands)
             running == [op |-> m.line.op, line |-> m.line, by |-> m.by,
                         at |-> m.at, permission |-> Account(m.by).permission,
                         step |-> IF m.line.op = "topic" THEN "set" ELSE "outranks"]
  <1>1. /\ call[processor] = Idle /\ commands # <<>> /\ commands' = Tail(commands)
        /\ UNCHANGED <<past, gags, gagId, settings, topic, setter, hubVars, requests>>
    BY DEF Dispatch, gagVars, topicVars
  <1>2. /\ \/ call' = call
           \/ running.permission >= 2 /\ call' = [call EXCEPT ![processor] = running]
        /\ \/ faults' = faults
           \/ faults' = faults + 1 /\ faults < MaxFaults
    BY DEF Dispatch
  <1>3. m \in CommandsSent /\ commands' \in Seq(CommandsSent)
    BY <1>0, <1>1, HeadTailProperties DEF CallOK
  <1>4. m.line \in Command /\ m.by \in Users /\ m.at \in Stamps
    BY <1>3 DEF CommandsSent
  <1>5. UNCHANGED faults \/ Fault
    BY <1>2 DEF Fault
  <1>6. Grows /\ faults' \in 0 .. MaxFaults
    BY <1>0, <1>1, <1>5, NoGrowth
  <1>7. TablesOK'
    BY <1>0, <1>1, <1>6 DEF TablesOK, Gags
  <1>8. /\ Account(m.by).permission \in Int
        /\ Len(past) \in m.at .. Len(past)
        /\ past[Len(past)][m.by].permission = Account(m.by).permission
    BY <1>0, <1>4, TableTypes DEF Account, Stamps
  <1>9. running.permission >= 2 => running \in Calls
    <2>1. CASE m.line \in [op : {"topic"}, topic : Topics]
      <3>1. running \in ChatTopics
        BY <1>4, <1>8, <2>1 DEF ChatTopics
      <3> QED BY <3>1 DEF Calls
    <2>2. CASE m.line \in [op : {"gag", "ungag"}, target : Users]
      <3>1. running \in GagCommand /\ running.step = "outranks"
            /\ running.op \in {"gag", "ungag"}
        BY <1>4, <1>8, <2>2 DEF GagCommand
      <3>2. running.at = m.at /\ running.by = m.by
            /\ running.permission = Account(m.by).permission
        OBVIOUS
      <3> HIDE DEF running, m
      <3>3. \E i \in running.at .. Len(past) : past[i][running.by].permission = running.permission
        BY <1>8, <3>2
      <3>4. running.permission >= 2 => running \in RankedCalls
        BY <3>1, <3>3 DEF RankedCalls
      <3> QED BY <3>4 DEF Calls
    <2> QED BY <1>4, <2>1, <2>2 DEF Command
  <1>10. running.op # "topic" \/ running.step = "set"
    OBVIOUS
  <1> HIDE DEF running, m
  <1>11. TopicInv'
    <2>1. CASE call' = call
      BY <1>0, <1>1, <2>1, TopicFrame DEF topicVars
    <2>2. CASE call' = [call EXCEPT ![processor] = running]
      <3>1. call'[processor] = running
        BY <1>0, <2>2 DEF CallOK
      <3>2. ~Saving /\ ~Saving'
        BY <1>1, <1>10, <3>1 DEF Saving, Idle
      <3> QED BY <1>0, <1>1, <3>2 DEF TopicInv
    <2> QED BY <1>2, <2>1, <2>2
  <1>12. \/ call' = call
         \/ running \in Calls' /\ call' = [call EXCEPT ![processor] = running]
    BY <1>0, <1>2, <1>6, <1>7, <1>9, CallsGrow
  <1> QED BY <1>1, <1>3, <1>6, <1>7, <1>11, <1>12, CallMove

\* A step of a handler that writes no account and makes no gag.
LEMMA TablesStep ==
  ASSUME TablesOK, UNCHANGED <<past, gagId, requests>>, gags' \subseteq gags,
         UNCHANGED faults \/ Fault,
         settings' \in [{"hub_topic", "topic"} -> Topics \cup {NoTopic}],
         topic' \in Topics \cup {NoTopic}, setter' \in {"chat", "rest", "start", "failed"}
  PROVE  TablesOK' /\ Grows /\ (Fault => faults' > 0)
  <1>1. Grows /\ faults' \in 0 .. MaxFaults /\ (Fault => faults' > 0)
    BY NoGrowth
  <1>2. gags' \subseteq Gags'
    BY DEF TablesOK, Gags
  <1> QED BY <1>1, <1>2 DEF TablesOK

\* A topic is on its way to the settings only while its handler is at that step.
LEMMA NotSaving ==
  ASSUME ModInv, ~Saving, ~Saving', UNCHANGED topicVars
  PROVE  TopicInv'
  BY DEF ModInv, TopicInv, topicVars

\* The processor's handler as CallOK has it.
LEMMA Running ==
  ASSUME CallOK
  PROVE  /\ call[processor] \in Calls
         /\ \A v : [call EXCEPT ![processor] = v][processor] = v
         /\ processor \in RestCalls \cup {processor}
  BY DEF CallOK

\* The target's rank is compared, and the gag or its lifting follows.
LEMMA OutranksInv ==
  ASSUME ModInv, Outranks
  PROVE  ModInv'
  <1> DEFINE k == call[processor]
             v == [k EXCEPT !.step = k.op]
  <1>0. TablesOK /\ HubOK /\ CallOK /\ TopicInv
    BY DEF ModInv
  <1>1. /\ k.op \in {"gag", "ungag"} /\ k.step = "outranks"
        /\ UNCHANGED <<past, gags, gagId, settings, topic, setter, hubVars, commands, requests>>
        /\ UNCHANGED faults \/ Fault
        /\ \/ call' = [call EXCEPT ![processor] = Idle]
           \/ /\ call' = [call EXCEPT ![processor].step = k.op]
              /\ \/ Account(k.line.target).permission < k.permission
                 \/ Fault
    BY DEF Outranks, gagVars, topicVars, End
  <1>2. TablesOK' /\ Grows /\ (Fault => faults' > 0)
    <2>1. TablesOK => /\ settings \in [{"hub_topic", "topic"} -> Topics \cup {NoTopic}]
                      /\ topic \in Topics \cup {NoTopic}
                      /\ setter \in {"chat", "rest", "start", "failed"}
      BY DEF TablesOK
    <2> QED BY <1>0, <1>1, <2>1, TablesStep
  <1>3. k \in RankedCalls
    <2>1. k \in Calls
      BY <1>0, Running
    <2> QED BY <1>1, <2>1, CallKinds
  <1>4. /\ k \in GagCommand /\ k.permission >= 2
        /\ \E i \in k.at .. Len(past) : past[i][k.by].permission = k.permission
    BY <1>3 DEF RankedCalls
  <1>5. /\ v \in GagCommand /\ v.step = v.op /\ v.op = k.op /\ v.at = k.at
        /\ v.by = k.by /\ v.line = k.line /\ v.permission = k.permission
    BY <1>1, <1>4 DEF GagCommand
  <1>6. k.line.target \in Users /\ k.at \in Stamps
    BY <1>4 DEF GagCommand
  <1>7. Len(past) \in k.at .. Len(past)
    BY <1>0, <1>6, TableTypes DEF Stamps
  <1> HIDE DEF v
  <1>8. ASSUME \/ Account(k.line.target).permission < k.permission
               \/ Fault
        PROVE  v \in Calls'
    <2>1. Len(past') = Len(past) /\ past' = past
      BY <1>1
    <2>2. v \in GagCommand'
      BY <1>5, <2>1 DEF GagCommand, Stamps
    <2>3. faults' = 0 =>
             \E j \in k.at .. Len(past') : past'[j][k.line.target].permission < k.permission
      BY <1>2, <1>7, <1>8, <2>1 DEF Account
    <2>4. v \in RankedCalls'
      BY <1>4, <1>5, <2>1, <2>2, <2>3 DEF RankedCalls
    <2> QED BY <2>4 DEF Calls
  <1>9. Idle \in Calls'
    BY DEF Calls
  <1>10. [call EXCEPT ![processor].step = k.op] = [call EXCEPT ![processor] = v]
    BY DEF v
  <1>11. \E w \in Calls' : call' = [call EXCEPT ![processor] = w]
    BY <1>1, <1>8, <1>9, <1>10
  <1>12. ~Saving /\ ~Saving'
    <2>1. \/ call'[processor] = Idle
          \/ call'[processor] = v
      BY <1>0, <1>1, <1>10, Running
    <2> QED BY <1>1, <1>5, <2>1 DEF Saving, Idle
  <1>13. TopicInv'
    BY <1>1, <1>12, NotSaving DEF topicVars
  <1> QED BY <1>0, <1>1, <1>2, <1>11, <1>13, CallMove DEF CallOK

\* The processor gags, or looks up the gag to lift.
LEMMA GagsByChatInv ==
  ASSUME ModInv, GagByChat \/ UngagByChat
  PROVE  ModInv'
  <1> DEFINE k == call[processor]
  <1>0. TablesOK /\ HubOK /\ CallOK /\ TopicInv
    BY DEF ModInv
  <1>1. /\ k.op \in {"gag", "ungag"}
        /\ UNCHANGED <<past, settings, topic, setter, hubVars, commands, requests>>
    BY DEF GagByChat, UngagByChat, topicVars, boundVars
  <1>2. k.line.target \in Users
    <2>1. k \in RankedCalls
      BY <1>0, <1>1, Running, CallKinds
    <2> QED BY <2>1 DEF RankedCalls, GagCommand
  <1>3. /\ requests' \in 0 .. MaxRequests /\ requests' = requests
        /\ settings' \in [{"hub_topic", "topic"} -> Topics \cup {NoTopic}]
        /\ topic' \in Topics \cup {NoTopic} /\ setter' \in {"chat", "rest", "start", "failed"}
    BY <1>0, <1>1 DEF TablesOK
  <1>4. /\ TablesOK' /\ Grows
        /\ \/ call' = [call EXCEPT ![processor] = Idle]
           \/ /\ GagsOf(k.line.target) # {}
              /\ call' = [call EXCEPT ![processor] =
                             [op |-> "delete", gag |-> ActiveGag(k.line.target),
                              last |-> gagId]]
    <2>1. CASE GagByChat
      <3>1. /\ call' = [call EXCEPT ![processor] = Idle]
            /\ \/ CreateGag(k.line.target) /\ UNCHANGED faults
               \/ Fault /\ UNCHANGED <<gags, gagId>>
        BY <2>1 DEF GagByChat, End, gagVars
      <3>2. CASE CreateGag(k.line.target) /\ UNCHANGED faults
        BY <1>0, <1>1, <1>2, <1>3, <3>1, <3>2, NewGag DEF topicVars
      <3>3. CASE Fault /\ UNCHANGED <<gags, gagId>>
        BY <1>0, <1>1, <1>3, <3>1, <3>3, TablesStep
      <3> QED BY <3>1, <3>2, <3>3
    <2>2. CASE UngagByChat
      <3>1. UNCHANGED <<gags, gagId, faults>>
        BY <2>2 DEF UngagByChat, gagVars, boundVars
      <3>2. TablesOK' /\ Grows
        BY <1>0, <1>1, <1>3, <3>1, TablesStep
      <3> QED BY <2>2, <3>2 DEF UngagByChat, End
    <2> QED BY <2>1, <2>2
  <1> DEFINE v == [op |-> "delete", gag |-> ActiveGag(k.line.target), last |-> gagId]
  <1>5. GagsOf(k.line.target) # {} => v \in Deletes /\ v.op = "delete"
    BY <1>0, LookedUp
  <1>6. Idle \in Calls /\ (v \in Deletes => v \in Calls)
    BY DEF Calls
  <1> HIDE DEF v
  <1>7. \E w \in Calls' : /\ call' = [call EXCEPT ![processor] = w]
                          /\ w.op # "topic"
    <2>1. Calls \subseteq Calls'
      BY <1>0, <1>4, CallsGrow
    <2>2. Idle.op # "topic"
      BY DEF Idle
    <2>3. CASE call' = [call EXCEPT ![processor] = Idle]
      BY <1>6, <2>1, <2>2, <2>3
    <2>4. CASE GagsOf(k.line.target) # {} /\ call' = [call EXCEPT ![processor] = v]
      BY <1>5, <1>6, <2>1, <2>4
    <2> QED BY <1>4, <2>3, <2>4 DEF v
  <1>8. ~Saving /\ ~Saving'
    BY <1>0, <1>1, <1>7, Running DEF Saving
  <1>9. TopicInv'
    BY <1>1, <1>8, NotSaving DEF topicVars
  <1> QED BY <1>0, <1>1, <1>4, <1>7, <1>9, CallMove DEF CallOK

\* The processor sets the topic; saving it is the next step.
LEMMA TopicByChatInv ==
  ASSUME ModInv, TopicByChat
  PROVE  ModInv'
  <1> DEFINE k == call[processor]
             v == [k EXCEPT !.step = "save"]
  <1>0. TablesOK /\ HubOK /\ CallOK /\ TopicInv
    BY DEF ModInv
  <1>1. /\ k.op = "topic" /\ k.step = "set"
        /\ UNCHANGED <<past, gags, gagId, settings, hubVars, commands, requests, faults>>
        /\ topic' = k.line.topic /\ setter' = "chat"
        /\ call' = [call EXCEPT ![processor].step = "save"]
    BY DEF TopicByChat, gagVars, boundVars
  <1>2. k \in ChatTopics /\ k.line.topic \in Topics \cup {NoTopic}
    BY <1>0, <1>1, Running, CallKinds
  <1>3. TablesOK' /\ Grows
    <2>1. settings' \in [{"hub_topic", "topic"} -> Topics \cup {NoTopic}]
      BY <1>0, <1>1 DEF TablesOK
    <2> QED BY <1>0, <1>1, <1>2, <2>1, TablesStep
  <1>4. v \in ChatTopics /\ v.op = "topic" /\ v.step = "save" /\ v.line = k.line
    BY <1>1, <1>2 DEF ChatTopics
  <1>5. call' = [call EXCEPT ![processor] = v]
    BY <1>1
  <1> HIDE DEF v
  <1>6. v \in Calls'
    BY <1>0, <1>3, <1>4, CallsGrow DEF Calls
  <1>7. call'[processor] = v
    BY <1>0, <1>5, Running
  <1>8. TopicInv'
    BY <1>1, <1>4, <1>7 DEF TopicInv, Saving
  <1> QED BY <1>0, <1>1, <1>3, <1>5, <1>6, <1>8, CallMove DEF CallOK

\* The processor's steps.
LEMMA ProcessorInv ==
  ASSUME ModInv, ProcessorStep
  PROVE  ModInv'
  BY DispatchInv, OutranksInv, GagsByChatInv, TopicByChatInv DEF ProcessorStep

--------------------------------------------------------------------------------
(* Gags are deleted and expire, topics are saved, the gateway restarts.     *)

\* A handler's step that leaves the processor's at its step leaves the topic's too.
LEMMA OtherHandler ==
  ASSUME CallOK, NEW c \in RestCalls \cup {processor}, call' = [call EXCEPT ![c] = Idle]
  PROVE  /\ c # processor => call'[processor] = call[processor]
         /\ c = processor => ~Saving'
  BY DEF CallOK, Saving, Idle

\* One gag goes, or none; the handler is over.
LEMMA DeleteInv ==
  ASSUME ModInv, NEW c \in RestCalls \cup {processor}, DeleteGag(c)
  PROVE  ModInv'
  <1>0. TablesOK /\ HubOK /\ CallOK /\ TopicInv
    BY DEF ModInv
  <1>1. /\ call[c].op = "delete" /\ call' = [call EXCEPT ![c] = Idle]
        /\ UNCHANGED <<past, gagId, settings, topic, setter, hubVars, commands, requests>>
        /\ gags' \subseteq gags
        /\ UNCHANGED faults \/ Fault
    BY DEF DeleteGag, End, topicVars
  <1>2. TablesOK' /\ Grows
    <2>1. /\ settings' \in [{"hub_topic", "topic"} -> Topics \cup {NoTopic}]
          /\ topic' \in Topics \cup {NoTopic} /\ setter' \in {"chat", "rest", "start", "failed"}
      BY <1>0, <1>1 DEF TablesOK
    <2> QED BY <1>0, <1>1, <2>1, TablesStep
  <1>3. Idle \in Calls'
    BY DEF Calls
  <1>4. TopicInv'
    <2>1. CASE c = processor
      <3>1. ~Saving /\ ~Saving'
        BY <1>0, <1>1, <2>1, OtherHandler DEF Saving
      <3> QED BY <1>1, <3>1, NotSaving DEF topicVars
    <2>2. CASE c # processor
      BY <1>0, <1>1, <2>2, OtherHandler, TopicFrame DEF topicVars
    <2> QED BY <2>1, <2>2
  <1> QED BY <1>0, <1>1, <1>2, <1>3, <1>4, CallMove DEF CallOK

\* Saved under its own key, the topic of the processor is the one it has set.
LEMMA SaveInv ==
  ASSUME ModInv, NEW c \in RestCalls \cup {processor}, SaveTopic(c)
  PROVE  ModInv'
  <1>0. TablesOK /\ HubOK /\ CallOK /\ TopicInv
    BY DEF ModInv
  <1>1. /\ call[c].op = "topic" /\ call[c].step = "save"
        /\ call' = [call EXCEPT ![c] = Idle]
        /\ UNCHANGED <<past, gags, gagId, topic, hubVars, commands, requests>>
        /\ \/ /\ settings' = [settings EXCEPT ![TopicKey(c)] = call[c].line.topic]
              /\ UNCHANGED <<setter, faults>>
           \/ /\ Fault
              /\ setter' = IF c = processor THEN "failed" ELSE setter
              /\ UNCHANGED settings
    BY DEF SaveTopic, End, gagVars
  <1>2. call[c].line.topic \in Topics \cup {NoTopic}
    <2>1. call[c] \in Calls
      BY <1>0 DEF CallOK
    <2> QED BY <1>1, <2>1, CallKinds
  <1>3. settings \in [{"hub_topic", "topic"} -> Topics \cup {NoTopic}]
        /\ topic' \in Topics \cup {NoTopic} /\ setter' \in {"chat", "rest", "start", "failed"}
    BY <1>0, <1>1 DEF TablesOK
  <1>4. TablesOK' /\ Grows
    <2>1. settings' \in [{"hub_topic", "topic"} -> Topics \cup {NoTopic}]
      BY <1>1, <1>2, <1>3
    <2> QED BY <1>0, <1>1, <1>3, <2>1, TablesStep
  <1>5. Idle \in Calls'
    BY DEF Calls
  <1>6. TopicInv'
    <2>1. CASE c = processor
      <3>1. Saving /\ ~Saving'
        BY <1>0, <1>1, <2>1, OtherHandler DEF Saving
      <3>2. CASE setter' = "failed"
        BY <3>2 DEF TopicInv
      <3>3. CASE settings' = [settings EXCEPT ![TopicKey(c)] = call[c].line.topic]
                 /\ UNCHANGED <<setter, faults>>
        <4>1. settings'["hub_topic"] = call[processor].line.topic
          BY <1>3, <2>1, <3>3 DEF TopicKey
        <4> QED BY <1>0, <1>1, <3>1, <3>3, <4>1 DEF TopicInv
      <3> QED BY <1>1, <2>1, <3>2, <3>3
    <2>2. CASE c # processor
      <3>1. call'[processor] = call[processor]
        BY <1>0, <1>1, <2>2, OtherHandler
      <3>2. settings'["hub_topic"] = settings["hub_topic"] /\ setter' = setter
        BY <1>1, <1>3, <2>2 DEF TopicKey
      <3> QED BY <1>0, <1>1, <3>1, <3>2 DEF TopicInv, Saving
    <2> QED BY <2>1, <2>2
  <1> QED BY <1>0, <1>1, <1>4, <1>5, <1>6, CallMove DEF CallOK

\* A gag expires.
LEMMA ExpiresInv ==
  ASSUME ModInv, GagExpires
  PROVE  ModInv'
  <1>0. TablesOK /\ HubOK /\ CallOK /\ TopicInv
    BY DEF ModInv
  <1>1. /\ UNCHANGED <<past, gagId, settings, topic, setter, hubVars, commands, call>>
        /\ UNCHANGED <<requests, faults>>
        /\ gags' \subseteq gags
    BY DEF GagExpires, topicVars, boundVars
  <1>2. TablesOK' /\ Grows
    <2>1. /\ settings' \in [{"hub_topic", "topic"} -> Topics \cup {NoTopic}]
          /\ topic' \in Topics \cup {NoTopic} /\ setter' \in {"chat", "rest", "start", "failed"}
      BY <1>0, <1>1 DEF TablesOK
    <2> QED BY <1>0, <1>1, <2>1, TablesStep
  <1>3. TopicInv'
    BY <1>0, <1>1, TopicFrame DEF topicVars
  <1> QED BY <1>0, <1>1, <1>2, <1>3, CallMove DEF CallOK

\* A restart keeps the tables and drops what is under way.
LEMMA RestartInv ==
  ASSUME ModInv, Restart
  PROVE  ModInv'
  <1>0. TablesOK /\ HubOK /\ CallOK /\ TopicInv
    BY DEF ModInv
  <1>1. /\ UNCHANGED <<past, gags, gagId, settings, requests>> /\ Fault
        /\ topic' = settings["hub_topic"] /\ setter' = "start"
        /\ inbox' = <<>> /\ task' = NoTask /\ toHub' = <<>> /\ commands' = <<>>
        /\ call' = [c \in DOMAIN call |-> Idle]
        /\ session' = [n \in Nicks |-> IF session[n] \in {"waiting", "asked"} THEN "out"
                                       ELSE session[n]]
    BY DEF Restart, gagVars
  <1>2. TablesOK'
    <2>1. /\ settings' \in [{"hub_topic", "topic"} -> Topics \cup {NoTopic}]
          /\ topic' \in Topics \cup {NoTopic}
      BY <1>0, <1>1 DEF TablesOK
    <2> QED BY <1>0, <1>1, <2>1, TablesStep
  <1>3. HubOK'
    <2>1. /\ session' \in [Nicks -> {"out", "waiting", "asked", "in"}]
          /\ \A n \in Reserved : session'[n] \in {"out", "waiting"}
      BY <1>0, <1>1, ModerationAssumption DEF HubOK
    <2> QED BY <1>1, <2>1, EmptySeq DEF HubOK
  <1>4. call' \in [RestCalls \cup {processor} -> {Idle}]
    BY <1>0, <1>1 DEF CallOK
  <1>5. CallOK'
    BY <1>1, <1>4, EmptySeq DEF CallOK, Calls
  <1>6. TopicInv'
    <2>1. call'[processor] = Idle
      BY <1>4
    <2> QED BY <1>1, <2>1 DEF TopicInv, Saving, Idle
  <1> QED BY <1>2, <1>3, <1>5, <1>6 DEF ModInv

\* Every step preserves the invariant.
LEMMA StepInv == ModInv /\ [Next]_vars => ModInv'
  <1> SUFFICES ASSUME ModInv, [Next]_vars PROVE ModInv'
    OBVIOUS
  <1>1. CASE UNCHANGED vars
    <2>1. UNCHANGED <<past, gags, gagId, settings, topic, setter, hubVars, commands, call>>
          /\ UNCHANGED <<requests, faults>>
      BY <1>1 DEF vars, gagVars, topicVars, boundVars
    <2>2. UNCHANGED <<session, inbox, task, toHub>>
      BY <2>1 DEF hubVars
    <2>3. TablesOK'
      BY <2>1 DEF ModInv, TablesOK, Gags
    <2>4. Grows
      BY <2>1, NoGrowth DEF ModInv
    <2> QED BY <2>1, <2>3, <2>4, HubFrame, CallFrame, TopicFrame DEF ModInv, topicVars
  <1> QED BY <1>1, HubInv, SocketInv, ProcessorInv, RestInv, DeleteInv, SaveInv,
             ExpiresInv, RestartInv DEF Next

\* The invariant holds in every state of every behaviour.
THEOREM Invariance == Spec => []ModInv
  <1> QED BY InitInv, StepInv, PTL DEF Spec

--------------------------------------------------------------------------------
(* What the runs check.                                                     *)

\* Types, of the tables, of what is under way between hub, socket task and command
\* processor, and of the counters.
THEOREM TypeCorrect == Spec => []TypeOK
  <1>1. ModInv => TypeOK
    <2> SUFFICES ASSUME ModInv PROVE TypeOK
      OBVIOUS
    <2>1. OwnEvents \subseteq Events /\ EarnedVerdicts \subseteq Verdicts
          /\ SilentLines \subseteq LineTasks
      BY DEF OwnEvents, EarnedVerdicts, SilentLines
    <2>2. inbox \in Seq(Events) /\ toHub \in Seq(Verdicts)
      BY <2>1, SeqMonotonic DEF ModInv, HubOK
    <2>3. task \in {NoTask} \cup Verdicts \cup LineTasks
      BY <2>1 DEF ModInv, HubOK
    <2>4. commands \in Seq([line : Command, by : Users, at : Stamps])
      BY DEF ModInv, CallOK, CommandsSent
    <2>5. TablesOK /\ session \in [Nicks -> {"out", "waiting", "asked", "in"}]
      BY DEF ModInv, HubOK
    <2> QED BY <2>2, <2>3, <2>4, <2>5 DEF TypeOK, TablesOK, LineTasks
  <1> QED BY <1>1, Invariance, PTL

\* A line said under a gag that is still in force is not heard, unless the check failed.
THEOREM GagsSilence == Spec => []GagSilences
  <1>1. ModInv => GagSilences
    <2> SUFFICES ASSUME ModInv, task.type = "chat", ~task.gagged, faults = 0
                 PROVE  task.under \cap gags = {}
      BY DEF GagSilences
    <2>1. task \in SilentLines
      BY DEF ModInv, HubOK, NoTask, EarnedVerdicts, Verdicts
    <2> QED BY <2>1 DEF SilentLines
  <1> QED BY <1>1, Invariance, PTL

\* Whoever is about to gag or to lift a gag by chat was an OP and outranked the target
\* at some time since saying so, unless a query failed.
THEOREM RankIsRespected == Spec => []RankRespected
  <1>1. ModInv => RankRespected
    <2> DEFINE k == call[processor]
    <2> SUFFICES ASSUME ModInv, k.op \in {"gag", "ungag"}, k.step = k.op, faults = 0
                 PROVE  \E i, j \in k.at .. Len(past) :
                          /\ past[i][k.by].permission >= 2
                          /\ past[j][k.line.target].permission < past[i][k.by].permission
      BY DEF RankRespected
    <2>1. k \in RankedCalls
      <3>1. k \in Calls
        BY Running DEF ModInv
      <3> QED BY <3>1, CallKinds
    <2> HIDE DEF k
    <2>2. PICK i \in k.at .. Len(past) : past[i][k.by].permission = k.permission
      BY <2>1 DEF RankedCalls
    <2>3. PICK j \in k.at .. Len(past) : past[j][k.line.target].permission < k.permission
      BY <2>1 DEF RankedCalls
    <2>4. k.permission >= 2
      BY <2>1 DEF RankedCalls
    <2> QED BY <2>2, <2>3, <2>4
  <1> QED BY <1>1, Invariance, PTL

\* Nobody is let in with a permission, or without a password, that the users table did
\* not account for at some time since asking.
THEOREM LoginsAreEarned == Spec => []LoginEarned
  <1>1. ModInv => LoginEarned
    <2> SUFFICES ASSUME ModInv, NEW i \in DOMAIN toHub PROVE Earned(toHub[i])
      BY DEF LoginEarned, Earned
    <2>1. toHub[i] \in EarnedVerdicts
      <3>1. toHub \in Seq(EarnedVerdicts)
        BY DEF ModInv, HubOK
      <3> QED BY <3>1, LenProperties, ElementOfSeq
    <2> QED BY <2>1 DEF EarnedVerdicts
  <1> QED BY <1>1, Invariance, PTL

\* A restart restores the topic set by chat once it is saved.
THEOREM ChatTopicIsSaved == Spec => []ChatTopicSaved
  <1>1. ModInv => ChatTopicSaved
    BY DEF ModInv, TopicInv, Saving, ChatTopicSaved
  <1> QED BY <1>1, Invariance, PTL

\* Only handlers in flight and time take a gag away.
LEMMA HubLeavesGags == HubStep => gags' = gags
  BY DEF HubStep, HubConnects, HubAnswers, HubChat, HubTakes, gagVars

\* A REST request adds a gag at most.
LEMMA RestKeepsGags == RestRequest => gags \subseteq gags'
  <1>1. \A n, p, level : SetAccount(n, p, level) => gags' = gags
    BY DEF SetAccount, gagVars
  <1>2. \A n : GagUser(n) => gags \subseteq gags'
    BY DEF GagUser, CreateGag
  <1>3. \A n : SendMessage(n) => gags' = gags
    BY DEF SendMessage, gagVars
  <1>4. \A c, n : UngagUser(c, n) => gags' = gags
    BY DEF UngagUser, gagVars
  <1>5. \A c, t : SetTopic(c, t) => gags' = gags
    BY DEF SetTopic, gagVars
  <1> QED BY <1>1, <1>2, <1>3, <1>4, <1>5
          DEF RestRequest, RegisterUser, UnregisterUser, SetPassword

\* The later gag stands.
THEOREM LaterGagsAreKept == Spec => LaterGagsStand
  <1> DEFINE Kept == \A g \in gags \ gags' :
                        g.temporary \/ \E c \in DOMAIN call :
                                          call[c].op = "delete" /\ g.id <= call[c].last
  <1>1. ModInv /\ [Next]_vars => [Kept]_vars
    <2> SUFFICES ASSUME ModInv, Next, NEW g \in gags \ gags', ~g.temporary
                 PROVE  \E c \in DOMAIN call : call[c].op = "delete" /\ g.id <= call[c].last
      OBVIOUS
    <2>1. ~HubStep
      BY HubLeavesGags
    <2>2. ~SocketStep
      BY DEF SocketStep, ValidateNick, CheckPassword, SendVerdict, CheckGag, FinishLine,
             gagVars
    <2>3. ~ProcessorStep
      BY DEF ProcessorStep, Dispatch, Outranks, GagByChat, UngagByChat, TopicByChat,
             CreateGag, gagVars
    <2>4. ~RestRequest
      BY RestKeepsGags
    <2>5. ~GagExpires
      BY DEF GagExpires
    <2>6. ~Restart
      BY DEF Restart, gagVars
    <2>7. PICK c \in RestCalls \cup {processor} : DeleteGag(c) \/ SaveTopic(c)
      BY <2>1, <2>2, <2>3, <2>4, <2>5, <2>6 DEF Next
    <2>8. DeleteGag(c)
      BY <2>7 DEF SaveTopic, gagVars
    <2>9. call[c].op = "delete" /\ g = call[c].gag
      BY <2>8 DEF DeleteGag
    <2>10. call[c] \in Deletes /\ c \in DOMAIN call
      BY <2>9, CallKinds DEF ModInv, CallOK
    <2> QED BY <2>9, <2>10 DEF Deletes
  <1>2. [][Kept]_vars <=> LaterGagsStand
    BY DEF LaterGagsStand
  <1> QED BY <1>1, <1>2, Invariance, PTL DEF Spec

================================================================================
