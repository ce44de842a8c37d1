------------------------------- MODULE TellsProofs -------------------------------
(***************************************************************************)
(* Proofs about Tells, for any nicks and bounds: types, that no tell is    *)
(* taken for delivered unsent, that it takes a fault to send one again,    *)
(* and that without faults a nick's tells keep their order.                *)
(***************************************************************************)
EXTENDS Tells, TLAPS, SequenceTheorems, WellFoundedInduction

\* The tell being sent has been sent and is not marked yet.
AtMark(t) == step = "mark" /\ t = Oldest

\* A tell that may still be sent, because it is pending or was found pending,
\* has only been sent before if something failed.
DeliveryInv ==
    /\ \A t \in Ids : (t \in left \/ ~tells[t].done) /\ ~AtMark(t) => tells[t].sent <= faults
    /\ step = "mark" => tells[Oldest].sent > 0

\* With TypeOK, the inductive invariant.
DeliverySafe == MarkedMeansSent /\ SentAgainOnlyAfterFaults /\ DeliveryInv

USE TellsAssumption

\* There is an oldest one among the tells found.
LEMMA OldestInLeft ==
  ASSUME TypeOK, left # {}
  PROVE  Oldest \in left /\ Oldest \in Ids /\ \A u \in left : Oldest <= u
  <1>1. left \subseteq Nat /\ left \subseteq Ids
    BY LenProperties DEF TypeOK, Ids
  <1>2. PICK x \in left : \A y \in left : ~(<<y, x>> \in OpToRel(<, Nat))
    BY <1>1, NatLessThanWellFounded, WFMin
  <1>3. ASSUME NEW y \in left PROVE x <= y
    <2>1. x \in Nat /\ y \in Nat
      BY <1>1
    <2>2. y < x => <<y, x>> \in OpToRel(<, Nat)
      BY <2>1, Zenon DEF OpToRel
    <2>3. ~(y < x)
      BY <1>2, <2>2, Zenon
    <2> QED BY <2>1, <2>3
  <1> QED BY <1>1, <1>3 DEF Oldest

\* A new tell takes the next id and changes no other.
LEMMA InsertFacts ==
  ASSUME TypeOK, NEW to \in Nicks, NEW num \in 0 .. MaxTells, Insert(to, num)
  PROVE  /\ tells' \in Seq(TellRecords)
         /\ Len(tells) \in Nat
         /\ Len(tells') = Len(tells) + 1
         /\ \A t \in Ids : tells'[t] = tells[t]
         /\ tells'[Len(tells) + 1].sent = 0 /\ ~tells'[Len(tells) + 1].done
         /\ Ids \subseteq Ids'
         /\ \A t \in Ids' : t \in Ids \/ t = Len(tells) + 1
  <1> DEFINE new == [to |-> to, done |-> FALSE, by |-> num, sent |-> 0]
  <1>1. new \in TellRecords /\ tells \in Seq(TellRecords)
    BY DEF TellRecords, TypeOK
  <1>2. tells' = Append(tells, new)
    BY DEF Insert
  <1> HIDE DEF new
  <1>3. /\ tells' \in Seq(TellRecords)
        /\ Len(tells') = Len(tells) + 1
        /\ \A i \in 1 .. Len(tells) : tells'[i] = tells[i]
        /\ tells'[Len(tells) + 1] = new
    BY <1>1, <1>2, AppendProperties
  <1>4. Len(tells) \in Nat
    BY <1>1, LenProperties
  <1>5. new.sent = 0 /\ ~new.done
    BY DEF new
  <1> QED BY <1>3, <1>4, <1>5 DEF Ids

\* A function on the ids is a table with the same ids.
LEMMA SameIds ==
  ASSUME NEW n \in Nat, tells' \in [1 .. n -> TellRecords]
  PROVE  tells' \in Seq(TellRecords) /\ Len(tells') = n
  <1>1. tells' \in Seq(TellRecords)
    BY SeqDef
  <1>2. Len(tells') \in Nat /\ DOMAIN tells' = 1 .. Len(tells') /\ DOMAIN tells' = 1 .. n
    BY <1>1, LenProperties
  <1> QED BY <1>1, <1>2

\* Marking a tell changes nothing else.
LEMMA MarkFacts ==
  ASSUME TypeOK, NEW t \in Ids, tells' = [tells EXCEPT ![t].done = TRUE]
  PROVE  /\ tells' \in Seq(TellRecords)
         /\ Ids' = Ids
         /\ \A j \in Ids : /\ tells'[j].sent = tells[j].sent
                           /\ tells'[j].to = tells[j].to
                           /\ tells'[j].done <=> (tells[j].done \/ j = t)
  <1>1. Len(tells) \in Nat /\ tells \in [1 .. Len(tells) -> TellRecords]
    BY LenProperties DEF TypeOK
  <1>2. t \in 1 .. Len(tells)
    BY DEF Ids
  <1>3. tells' \in [1 .. Len(tells) -> TellRecords]
    BY <1>1, <1>2 DEF TellRecords
  <1>4. \A j \in 1 .. Len(tells) :
            tells'[j] = IF j = t THEN [tells[j] EXCEPT !.done = TRUE] ELSE tells[j]
    BY <1>1, <1>2
  <1>5. \A j \in 1 .. Len(tells) : /\ tells'[j].sent = tells[j].sent
                                  /\ tells'[j].to = tells[j].to
                                  /\ tells'[j].done <=> (tells[j].done \/ j = t)
    BY <1>1, <1>4 DEF TellRecords
  <1> QED BY <1>1, <1>3, <1>5, SameIds DEF Ids

\* Sending a tell counts it and changes nothing else.
LEMMA SendFacts ==
  ASSUME TypeOK, NEW t \in Ids, tells' = [tells EXCEPT ![t].sent = @ + 1]
  PROVE  /\ tells' \in Seq(TellRecords)
         /\ Ids' = Ids
         /\ \A j \in Ids : /\ tells'[j].done = tells[j].done
                           /\ tells'[j].to = tells[j].to
                           /\ tells'[j].sent = IF j = t THEN tells[j].sent + 1
                                               ELSE tells[j].sent
  <1>1. Len(tells) \in Nat /\ tells \in [1 .. Len(tells) -> TellRecords]
    BY LenProperties DEF TypeOK
  <1>2. t \in 1 .. Len(tells)
    BY DEF Ids
  <1>3. tells' \in [1 .. Len(tells) -> TellRecords]
    <2>1. tells[t] \in TellRecords
      BY <1>1, <1>2
    <2>2. [tells[t] EXCEPT !.sent = @ + 1] \in TellRecords
      BY <2>1 DEF TellRecords
    <2> QED BY <1>1, <1>2, <2>2
  <1>4. \A j \in 1 .. Len(tells) :
            tells'[j] = IF j = t THEN [tells[j] EXCEPT !.sent = @ + 1] ELSE tells[j]
    BY <1>1, <1>2
  <1>5. \A j \in 1 .. Len(tells) :
            /\ tells'[j].done = tells[j].done
            /\ tells'[j].to = tells[j].to
            /\ tells'[j].sent = IF j = t THEN tells[j].sent + 1 ELSE tells[j].sent
    BY <1>1, <1>4 DEF TellRecords
  <1> QED BY <1>1, <1>3, <1>5, SameIds DEF Ids

--------------------------------------------------------------------------------
(* Types.                                                                   *)

\* What a processor reads next is an event.
LEMMA EventsTyped ==
  ASSUME TypeOK
  PROVE  /\ evTodo # <<>> => Head(evTodo) \in Events /\ Tail(evTodo) \in Seq(Events)
         /\ cmdTodo # <<>> => Head(cmdTodo) \in Events /\ Tail(cmdTodo) \in Seq(Events)
         /\ <<>> \in Seq(Events) /\ <<>> \in Seq(Nat)
  BY HeadTailProperties, EmptySeq DEF TypeOK

\* A fault is counted.
LEMMA FaultTyped ==
  ASSUME TypeOK, Fault
  PROVE  faults' \in 0 .. MaxFaults /\ faults' = faults + 1
  BY DEF TypeOK, Fault

\* The types hold at the start.
THEOREM InitTypeOK == Init => TypeOK
  <1> SUFFICES ASSUME Init PROVE TypeOK
    OBVIOUS
  <1>1. <<>> \in Seq(TellRecords) /\ <<>> \in Seq(Events) /\ <<>> \in Seq(Nat)
    BY EmptySeq
  <1> QED BY <1>1 DEF Init, TypeOK

\* Both queues hold events.
LEMMA PublishTyped ==
  ASSUME TypeOK, NEW e \in Events, Publish(e)
  PROVE  evTodo' \in Seq(Events) /\ cmdTodo' \in Seq(Events)
  BY AppendProperties DEF TypeOK, Publish

\* The bus and the reading of commands keep the types.
LEMMA EventTypeOK ==
  ASSUME TypeOK,
         \/ \E n \in Nicks : Seen(n) \/ \E to \in Nicks : TypeTell(n, to)
         \/ Lag
         \/ ReadCommand
  PROVE  TypeOK'
  <1> USE DEF dbVars, procVars, pipeVars
  <1>1. ASSUME NEW n \in Nicks, Seen(n) PROVE TypeOK'
    <2>1. [nick |-> n, num |-> 0, spelt |-> FALSE] \in Events
      BY DEF Events
    <2>2. evTodo' \in Seq(Events) /\ cmdTodo' \in Seq(Events)
      BY <1>1, <2>1, PublishTyped DEF Seen
    <2> QED BY <1>1, <2>2 DEF Seen, TypeOK, Ids
  <1>2. ASSUME NEW n \in Nicks, NEW to \in Nicks, TypeTell(n, to) PROVE TypeOK'
    <2>1. issued + 1 \in 1 .. MaxTells /\ issued' \in 0 .. MaxTells
      BY <1>2 DEF TypeTell, TypeOK
    <2>2. PICK s \in BOOLEAN :
              Publish([nick |-> n, to |-> to, num |-> issued + 1, spelt |-> s])
      BY <1>2 DEF TypeTell
    <2>3. [nick |-> n, to |-> to, num |-> issued + 1, spelt |-> s] \in Events
      BY <2>1 DEF Events, TellCommands
    <2>4. evTodo' \in Seq(Events) /\ cmdTodo' \in Seq(Events)
      BY <2>2, <2>3, PublishTyped
    <2> QED BY <1>2, <2>1, <2>4 DEF TypeTell, TypeOK, Ids
  <1>3. CASE Lag
    <2>1. evTodo' \in Seq(Events) /\ cmdTodo' \in Seq(Events)
      BY <1>3, EventsTyped DEF Lag, TypeOK
    <2>2. faults' \in 0 .. MaxFaults
      BY <1>3, FaultTyped DEF Lag
    <2> QED BY <1>3, <2>1, <2>2 DEF Lag, TypeOK, Ids
  <1>4. CASE ReadCommand
    <2>1. cmdTodo' \in Seq(Events) /\ Head(cmdTodo) \in Events
      BY <1>4, EventsTyped DEF ReadCommand
    <2>2. Head(cmdTodo).num # 0 => Head(cmdTodo) \in TellCommands
      BY <2>1 DEF Events
    <2>3. cmd' \in TellCommands \cup {None}
      BY <1>4, <2>2 DEF ReadCommand
    <2> QED BY <1>4, <2>1, <2>3 DEF ReadCommand, TypeOK, Ids
  <1> QED BY <1>1, <1>2, <1>3, <1>4

\* So does a new tell, whoever leaves it.
LEMMA InsertTypeOK ==
  ASSUME TypeOK, NEW to \in Nicks, NEW num \in 0 .. MaxTells, Insert(to, num),
         UNCHANGED <<byBot, procVars, pipeVars, evTodo, cmdTodo>>,
         issued' \in 0 .. MaxTells, cmd' \in TellCommands \cup {None}, faults' \in 0 .. MaxFaults
  PROVE  TypeOK'
  <1>1. tells' \in Seq(TellRecords) /\ Ids \subseteq Ids'
    BY InsertFacts
  <1> QED BY <1>1 DEF TypeOK, procVars, pipeVars

\* A command at the command processor names a recipient and has a number.
LEMMA CommandTyped ==
  ASSUME TypeOK, SaveTell, cmd # None
  PROVE  cmd.to \in Nicks /\ cmd.num \in 0 .. MaxTells
  BY DEF TypeOK, TellCommands

\* So do the command and the bot API.
LEMMA CommandTypeOK ==
  ASSUME TypeOK,
         SaveTell \/ (\E n \in Nicks : ApiCreate(n)) \/ (\E t \in Ids : ApiMark(t))
  PROVE  TypeOK'
  <1> USE DEF busVars, procVars, pipeVars
  <1>1. CASE SaveTell
    <2>1. cmd # None /\ cmd' = None /\ issued' \in 0 .. MaxTells
      BY <1>1 DEF SaveTell, TypeOK
    <2>2. cmd.to \in Nicks /\ cmd.num \in 0 .. MaxTells
      BY <1>1, <2>1, CommandTyped
    <2>3. CASE Insert(cmd.to, cmd.num) /\ UNCHANGED faults
      <3>1. faults' \in 0 .. MaxFaults /\ UNCHANGED <<byBot, procVars, pipeVars, evTodo, cmdTodo>>
        BY <1>1, <2>3 DEF SaveTell, TypeOK
      <3> QED BY <2>1, <2>2, <2>3, <3>1, InsertTypeOK
    <2>4. CASE Fault /\ UNCHANGED tells
      <3>1. faults' \in 0 .. MaxFaults
        BY <2>4, FaultTyped
      <3> QED BY <1>1, <2>1, <2>4, <3>1 DEF SaveTell, TypeOK, Ids
    <2> QED BY <1>1, <2>3, <2>4 DEF SaveTell
  <1>2. ASSUME NEW n \in Nicks, ApiCreate(n) PROVE TypeOK'
    <2>1. /\ Insert(n, 0) /\ 0 \in 0 .. MaxTells
          /\ UNCHANGED <<byBot, procVars, pipeVars, evTodo, cmdTodo>>
          /\ issued' \in 0 .. MaxTells
          /\ cmd' \in TellCommands \cup {None}
          /\ faults' \in 0 .. MaxFaults
      BY <1>2 DEF ApiCreate, TypeOK
    <2> QED BY <2>1, InsertTypeOK
  <1>3. ASSUME NEW t \in Ids, ApiMark(t) PROVE TypeOK'
    <2>1. tells' \in Seq(TellRecords) /\ Ids' = Ids
      BY <1>3, MarkFacts DEF ApiMark
    <2> QED BY <1>3, <2>1 DEF ApiMark, TypeOK
  <1> QED BY <1>1, <1>2, <1>3

\* So does each step of the event processor.
LEMMA ProcTypeOK ==
  ASSUME TypeOK, ProcStep
  PROVE  TypeOK'
  <1> USE DEF dbVars, busVars, pipeVars
  <1>1. CASE ReadEvent
    <2>1. Head(evTodo) \in Events /\ Tail(evTodo) \in Seq(Events)
      BY <1>1, EventsTyped DEF ReadEvent
    <2> QED BY <1>1, <2>1 DEF ReadEvent, TypeOK, Ids
  <1>2. CASE FindTells
    <2>1. CASE Fault /\ Done /\ UNCHANGED left
      <3>1. faults' \in 0 .. MaxFaults
        BY <2>1, FaultTyped
      <3> QED BY <1>2, <2>1, <3>1 DEF FindTells, Done, TypeOK, Ids
    <2>2. CASE ~(Fault /\ Done /\ UNCHANGED left)
      <3>1. /\ left' \subseteq Ids /\ UNCHANGED faults
            /\ IF left' = {} THEN Done ELSE step' = "send" /\ UNCHANGED proc
        BY <1>2, <2>2 DEF FindTells, Found, Pending
      <3> QED BY <1>2, <3>1 DEF FindTells, Done, TypeOK, Ids
    <2> QED BY <2>1, <2>2
  <1>3. CASE SendTell
    <2>1. left # {} /\ Oldest \in Ids /\ Oldest \in Nat
      BY <1>3, OldestInLeft DEF SendTell, TypeOK, Ids
    <2>2. tells' \in Seq(TellRecords) /\ Ids' = Ids
      BY <1>3, <2>1, SendFacts DEF SendTell
    <2>3. pipe' \in Seq(Nat)
      BY <1>3, <2>1, AppendProperties DEF SendTell, TypeOK
    <2> QED BY <1>3, <2>1, <2>2, <2>3 DEF SendTell, TypeOK
  <1>4. CASE MarkTell
    <2>1. left # {} /\ Oldest \in Ids
      BY <1>4, OldestInLeft DEF MarkTell, TypeOK
    <2>2. tells' \in Seq(TellRecords) /\ Ids' = Ids /\ faults' \in 0 .. MaxFaults
      <3>1. CASE tells' = [tells EXCEPT ![Oldest].done = TRUE] /\ UNCHANGED faults
        BY <2>1, <3>1, MarkFacts DEF TypeOK
      <3>2. CASE Fault /\ UNCHANGED tells
        BY <3>2, FaultTyped DEF TypeOK, Ids
      <3> QED BY <1>4, <3>1, <3>2 DEF MarkTell
    <2>3. left' \subseteq Ids /\ IF left' = {} THEN Done ELSE step' = "send" /\ UNCHANGED proc
      BY <1>4 DEF MarkTell, NextTell, TypeOK
    <2> QED BY <1>4, <2>2, <2>3 DEF MarkTell, Done, TypeOK
  <1> QED BY <1>1, <1>2, <1>3, <1>4 DEF ProcStep

\* So do the hub and the faults outside the processors.
LEMMA OutsideTypeOK ==
  ASSUME TypeOK, HubTakes \/ LinkFails \/ Restart \/ UNCHANGED vars
  PROVE  TypeOK'
  <1> USE DEF dbVars, busVars, procVars, pipeVars
  <1>1. CASE HubTakes
    <2>1. Head(pipe) \in Nat /\ pipe' \in Seq(Nat)
      BY <1>1, HeadTailProperties DEF HubTakes, TypeOK
    <2>2. got' \in Seq(Nat)
      BY <1>1, <2>1, AppendProperties DEF HubTakes, TypeOK
    <2> QED BY <1>1, <2>1, <2>2 DEF HubTakes, TypeOK, Ids
  <1>2. CASE LinkFails
    <2>1. PICK k \in 1 .. Len(pipe) : pipe' = SubSeq(pipe, k + 1, Len(pipe))
      BY <1>2 DEF LinkFails
    <2>2. pipe' \in Seq(Nat)
      BY <2>1, LenProperties, SubSeqProperties DEF TypeOK
    <2>3. faults' \in 0 .. MaxFaults
      BY <1>2, FaultTyped DEF LinkFails
    <2> QED BY <1>2, <2>2, <2>3 DEF LinkFails, TypeOK, Ids
  <1>3. CASE Restart
    <2>1. faults' \in 0 .. MaxFaults
      BY <1>3, FaultTyped DEF Restart
    <2> QED BY <1>3, <2>1, EventsTyped DEF Restart, TypeOK, Ids
  <1>4. CASE UNCHANGED vars
    BY <1>4 DEF vars, TypeOK, Ids
  <1> QED BY <1>1, <1>2, <1>3, <1>4

\* Every action keeps the types.
THEOREM NextTypeOK == TypeOK /\ [Next]_vars => TypeOK'
  <1> SUFFICES ASSUME TypeOK, [Next]_vars PROVE TypeOK'
    OBVIOUS
  <1>1. CASE \/ \E n \in Nicks : Seen(n) \/ \E to \in Nicks : TypeTell(n, to)
             \/ Lag
             \/ ReadCommand
    BY <1>1, EventTypeOK
  <1>2. CASE SaveTell \/ (\E n \in Nicks : ApiCreate(n)) \/ (\E t \in Ids : ApiMark(t))
    BY <1>2, CommandTypeOK
  <1>3. CASE ProcStep
    BY <1>3, ProcTypeOK
  <1>4. CASE HubTakes \/ LinkFails \/ Restart \/ UNCHANGED vars
    BY <1>4, OutsideTypeOK
  <1> QED BY <1>1, <1>2, <1>3, <1>4 DEF Next, CmdStep

\* The types hold in every behaviour.
THEOREM TypeCorrect == Spec => []TypeOK
  BY InitTypeOK, NextTypeOK, PTL DEF Spec

--------------------------------------------------------------------------------
(* Delivery.                                                                *)

\* How often a tell was sent is a number.
LEMMA SentTyped ==
  ASSUME TypeOK
  PROVE  \A t \in Ids : tells[t].sent \in Nat
  <1> SUFFICES ASSUME NEW t \in Ids PROVE tells[t].sent \in Nat
    OBVIOUS
  <1>1. tells[t] \in TellRecords
    BY ElementOfSeq DEF TypeOK, Ids
  <1> QED BY <1>1 DEF TellRecords

\* What leaves the table and the delivery alone leaves the invariant alone.
LEMMA SameDelivery ==
  ASSUME TypeOK, TypeOK', DeliverySafe, UNCHANGED <<tells, byBot, step, left>>,
         faults' = faults \/ faults' = faults + 1
  PROVE  DeliverySafe'
  <1>1. Ids' = Ids /\ Oldest' = Oldest /\ faults \in Nat /\ faults' \in Nat /\ faults <= faults'
    BY DEF Ids, Oldest, TypeOK
  <1>2. \A t \in Ids : tells[t].sent \in Nat
    BY SentTyped
  <1> QED BY <1>1, <1>2 DEF DeliverySafe, MarkedMeansSent, SentAgainOnlyAfterFaults,
                            DeliveryInv, AtMark

\* A new tell is pending and unsent.
LEMMA InsertDelivery ==
  ASSUME TypeOK, TypeOK', DeliverySafe, NEW to \in Nicks, NEW num \in 0 .. MaxTells,
         Insert(to, num), UNCHANGED <<byBot, step, left, faults>>
  PROVE  DeliverySafe'
  <1>1. Oldest' = Oldest /\ (step = "mark" => Oldest \in Ids)
    BY OldestInLeft DEF Oldest, TypeOK
  <1>2. /\ \A t \in Ids : tells'[t] = tells[t]
        /\ tells'[Len(tells) + 1].sent = 0 /\ ~tells'[Len(tells) + 1].done
        /\ \A t \in Ids' : t \in Ids \/ t = Len(tells) + 1
    BY InsertFacts
  <1>3. faults \in Nat
    BY DEF TypeOK
  <1>4. MarkedMeansSent'
    BY <1>2 DEF DeliverySafe, MarkedMeansSent
  <1>5. SentAgainOnlyAfterFaults'
    BY <1>2, <1>3 DEF DeliverySafe, SentAgainOnlyAfterFaults
  <1>6. DeliveryInv'
    <2>1. ASSUME NEW t \in Ids', (t \in left \/ ~tells'[t].done) /\ ~AtMark(t)'
          PROVE  tells'[t].sent <= faults
      BY <1>1, <1>2, <1>3, <2>1 DEF DeliverySafe, DeliveryInv, AtMark
    <2>2. step = "mark" => tells'[Oldest].sent > 0
      BY <1>1, <1>2 DEF DeliverySafe, DeliveryInv
    <2> QED BY <1>1, <2>1, <2>2 DEF DeliveryInv
  <1> QED BY <1>4, <1>5, <1>6 DEF DeliverySafe

\* A tell marked by a bot is not the gateway's to answer for.
LEMMA ApiMarkDelivery ==
  ASSUME TypeOK, DeliverySafe, NEW t \in Ids, ApiMark(t)
  PROVE  DeliverySafe'
  <1>1. /\ Ids' = Ids
        /\ \A j \in Ids : /\ tells'[j].sent = tells[j].sent
                          /\ tells'[j].done <=> (tells[j].done \/ j = t)
    BY MarkFacts DEF ApiMark
  <1>2. Oldest' = Oldest /\ (step = "mark" => Oldest \in Ids)
    BY OldestInLeft DEF ApiMark, procVars, Oldest, TypeOK
  <1>3. byBot' = byBot \cup {t} /\ UNCHANGED <<step, left, faults>>
    BY DEF ApiMark, procVars
  <1> QED BY <1>1, <1>2, <1>3 DEF DeliverySafe, MarkedMeansSent, SentAgainOnlyAfterFaults,
                                  DeliveryInv, AtMark

\* Only what is pending is found.
LEMMA FindDelivery ==
  ASSUME TypeOK, DeliverySafe, FindTells
  PROVE  DeliverySafe'
  <1>1. /\ UNCHANGED <<tells, byBot>> /\ Ids' = Ids /\ step = "find" /\ step' # "mark"
        /\ faults \in Nat /\ (faults' = faults \/ faults' = faults + 1)
    BY DEF FindTells, dbVars, Fault, Done, Ids, TypeOK
  <1>2. \A t \in left' : t \in left \/ ~tells[t].done
    BY DEF FindTells, Found, Pending
  <1>3. \A t \in Ids : tells[t].sent \in Nat
    BY SentTyped
  <1> QED BY <1>1, <1>2, <1>3 DEF DeliverySafe, MarkedMeansSent, SentAgainOnlyAfterFaults,
                                  DeliveryInv, AtMark

\* What is sent was unsent, or there was a fault.
LEMMA SendDelivery ==
  ASSUME TypeOK, DeliverySafe, SendTell
  PROVE  DeliverySafe'
  <1>1. Oldest \in left /\ Oldest \in Ids /\ Oldest' = Oldest
    BY OldestInLeft DEF SendTell, TypeOK, Oldest
  <1>2. /\ Ids' = Ids
        /\ \A j \in Ids : /\ tells'[j].done = tells[j].done
                          /\ tells'[j].sent = IF j = Oldest THEN tells[j].sent + 1
                                              ELSE tells[j].sent
    BY <1>1, SendFacts DEF SendTell
  <1>3. /\ step = "send" /\ step' = "mark" /\ UNCHANGED <<byBot, left, faults>>
        /\ faults \in Nat
    BY DEF SendTell, TypeOK
  <1>4. \A t \in Ids : tells[t].sent \in Nat
    BY SentTyped
  <1>5. tells[Oldest].sent <= faults
    BY <1>1, <1>3 DEF DeliverySafe, DeliveryInv, AtMark
  <1> QED BY <1>1, <1>2, <1>3, <1>4, <1>5
          DEF DeliverySafe, MarkedMeansSent, SentAgainOnlyAfterFaults, DeliveryInv, AtMark

\* What is marked has been sent; what is not marked is a fault.
LEMMA MarkDelivery ==
  ASSUME TypeOK, DeliverySafe, MarkTell
  PROVE  DeliverySafe'
  <1>1. Oldest \in left /\ Oldest \in Ids
    BY OldestInLeft DEF MarkTell, TypeOK
  <1>2. /\ step = "mark" /\ step' # "mark" /\ left' = left \ {Oldest} /\ UNCHANGED byBot
        /\ faults \in Nat
    BY DEF MarkTell, NextTell, Done, TypeOK
  <1>3. \A t \in Ids : tells[t].sent \in Nat
    BY SentTyped
  <1>4. CASE tells' = [tells EXCEPT ![Oldest].done = TRUE] /\ UNCHANGED faults
    <2>1. /\ Ids' = Ids
          /\ \A j \in Ids : /\ tells'[j].sent = tells[j].sent
                            /\ tells'[j].done <=> (tells[j].done \/ j = Oldest)
      BY <1>1, <1>4, MarkFacts
    <2> QED BY <1>1, <1>2, <1>3, <1>4, <2>1
            DEF DeliverySafe, MarkedMeansSent, SentAgainOnlyAfterFaults, DeliveryInv, AtMark
  <1>5. CASE Fault /\ UNCHANGED tells
    <2>1. Ids' = Ids /\ faults' = faults + 1
      BY <1>5 DEF Fault, Ids
    <2> QED BY <1>1, <1>2, <1>3, <1>5, <2>1
            DEF DeliverySafe, MarkedMeansSent, SentAgainOnlyAfterFaults, DeliveryInv, AtMark
  <1> QED BY <1>4, <1>5 DEF MarkTell

\* A restart forgets the pass and counts as a fault.
LEMMA RestartDelivery ==
  ASSUME TypeOK, DeliverySafe, Restart
  PROVE  DeliverySafe'
  <1>1. /\ UNCHANGED <<tells, byBot>> /\ Ids' = Ids /\ step' = "idle" /\ left' = {}
        /\ faults \in Nat /\ faults' = faults + 1
    BY DEF Restart, dbVars, Fault, Ids, TypeOK
  <1>2. \A t \in Ids : tells[t].sent \in Nat
    BY SentTyped
  <1> QED BY <1>1, <1>2 DEF DeliverySafe, MarkedMeansSent, SentAgainOnlyAfterFaults,
                            DeliveryInv, AtMark

\* There are no tells at the start.
LEMMA InitDelivery == Init => DeliverySafe
  <1> SUFFICES ASSUME Init PROVE DeliverySafe
    OBVIOUS
  <1>1. Ids = {} /\ step # "mark"
    BY EmptySeq DEF Init, Ids
  <1> QED BY <1>1 DEF DeliverySafe, MarkedMeansSent, SentAgainOnlyAfterFaults, DeliveryInv

\* Every action keeps what is said of the deliveries.
THEOREM NextDelivery == TypeOK /\ DeliverySafe /\ [Next]_vars => DeliverySafe'
  <1> SUFFICES ASSUME TypeOK, DeliverySafe, [Next]_vars PROVE DeliverySafe'
    OBVIOUS
  <1>0. TypeOK'
    BY NextTypeOK
  <1> USE <1>0 DEF dbVars, busVars, procVars, pipeVars
  <1>1. CASE \E n \in Nicks : Seen(n) \/ \E to \in Nicks : TypeTell(n, to)
    BY <1>1, SameDelivery DEF Seen, TypeTell
  <1>2. ASSUME NEW n \in Nicks, ApiCreate(n) PROVE DeliverySafe'
    <2>1. Insert(n, 0) /\ 0 \in 0 .. MaxTells /\ UNCHANGED <<byBot, step, left, faults>>
      BY <1>2 DEF ApiCreate
    <2> QED BY <2>1, InsertDelivery
  <1>3. ASSUME NEW t \in Ids, ApiMark(t) PROVE DeliverySafe'
    BY <1>3, ApiMarkDelivery
  <1>4. CASE ReadEvent
    <2>1. UNCHANGED <<tells, byBot, left, faults>> /\ step = "idle" /\ step' # "mark"
      BY <1>4 DEF ReadEvent
    <2> QED BY <2>1 DEF DeliverySafe, MarkedMeansSent, SentAgainOnlyAfterFaults, DeliveryInv,
                        AtMark, Ids
  <1>5. CASE FindTells
    BY <1>5, FindDelivery
  <1>6. CASE SendTell
    BY <1>6, SendDelivery
  <1>7. CASE MarkTell
    BY <1>7, MarkDelivery
  <1>8. CASE ReadCommand
    BY <1>8, SameDelivery DEF ReadCommand
  <1>9. CASE SaveTell
    <2>1. cmd.to \in Nicks /\ cmd.num \in 0 .. MaxTells
      BY <1>9, CommandTyped DEF SaveTell
    <2>2. CASE Insert(cmd.to, cmd.num) /\ UNCHANGED faults
      BY <1>9, <2>1, <2>2, InsertDelivery DEF SaveTell
    <2>3. CASE Fault /\ UNCHANGED tells
      BY <1>9, <2>3, SameDelivery DEF SaveTell, Fault
    <2> QED BY <1>9, <2>2, <2>3 DEF SaveTell
  <1>10. CASE Lag \/ LinkFails
    BY <1>10, SameDelivery DEF Lag, LinkFails, Fault
  <1>11. CASE HubTakes \/ UNCHANGED vars
    BY <1>11, SameDelivery DEF HubTakes, vars
  <1>12. CASE Restart
    BY <1>12, RestartDelivery
  <1> QED BY <1>1, <1>2, <1>3, <1>4, <1>5, <1>6, <1>7, <1>8, <1>9, <1>10, <1>11, <1>12
          DEF Next, ProcStep, CmdStep

\* No tell is ever taken for delivered that was not sent, whatever restarts, lags and
\* failing statements come in between.
THEOREM NoneSwallowed == Spec => []MarkedMeansSent
  <1>1. TypeOK /\ DeliverySafe => MarkedMeansSent
    BY DEF DeliverySafe
  <1> QED BY <1>1, InitTypeOK, InitDelivery, NextTypeOK, NextDelivery, PTL DEF Spec

\* A tell is sent at most once more than there were faults.
THEOREM RepeatsNeedFaults == Spec => []SentAgainOnlyAfterFaults
  <1>1. TypeOK /\ DeliverySafe => SentAgainOnlyAfterFaults
    BY DEF DeliverySafe
  <1> QED BY <1>1, InitTypeOK, InitDelivery, NextTypeOK, NextDelivery, PTL DEF Spec

--------------------------------------------------------------------------------
(* The order of delivery.                                                   *)

\* What the hub has got and will get.
Sent == got \o pipe

SentKnown == \A i \in DOMAIN Sent : Sent[i] \in Ids /\ tells[Sent[i]].sent > 0

\* What may still be sent to a nick was left after all that was sent to it.
UnsentLater ==
    \A t, u \in Ids :
        /\ tells[t].to = tells[u].to
        /\ t \in left \/ ~tells[t].done
        /\ tells[t].sent = 0 /\ tells[u].sent > 0
        => u < t

\* A pass is about one nick; what is pending for it and not among what the pass has yet to
\* deliver has come since.
PassIsOfOne ==
    \A t \in left :
        /\ tells[t].to = proc.nick
        /\ \A u \in Ids \ left : tells[u].to = proc.nick /\ ~tells[u].done => t < u

\* The tells of one nick go out in the order they were left.
Rising == \A i, j \in DOMAIN Sent :
              (i < j /\ tells[Sent[i]].to = tells[Sent[j]].to) => Sent[i] < Sent[j]

OrderInv == faults = 0 => SentKnown /\ Rising /\ UnsentLater /\ PassIsOfOne

\* What the hub gets is a sequence, as long as what it has got and what is under way.
LEMMA SentTypes ==
  ASSUME TypeOK
  PROVE  /\ Sent \in Seq(Nat) /\ Len(Sent) \in Nat /\ DOMAIN Sent = 1 .. Len(Sent)
         /\ got \in Seq(Nat) /\ pipe \in Seq(Nat)
  <1>1. got \in Seq(Nat) /\ pipe \in Seq(Nat)
    BY DEF TypeOK
  <1>2. Sent \in Seq(Nat)
    BY <1>1, ConcatProperties DEF Sent
  <1> QED BY <1>1, <1>2, LenProperties

\* Concatenation of sequences of ids is associative.
LEMMA ConcatIds ==
  ASSUME NEW s \in Seq(Nat), NEW t \in Seq(Nat), NEW u \in Seq(Nat)
  PROVE  (s \o t) \o u = s \o (t \o u)
  BY ConcatAssociative, SMTT(30)

\* What the hub reads keeps its place.
LEMMA TakingKeepsSent ==
  ASSUME TypeOK, HubTakes
  PROVE  Sent' = Sent
  <1>1. got \in Seq(Nat) /\ pipe \in Seq(Nat) /\ pipe # <<>>
    BY SentTypes DEF HubTakes
  <1>2. Head(pipe) \in Nat /\ Tail(pipe) \in Seq(Nat)
    BY <1>1, HeadTailProperties
  <1>3. <<Head(pipe)>> \in Seq(Nat) /\ Append(got, Head(pipe)) = got \o <<Head(pipe)>>
    BY <1>1, <1>2, AppendIsConcat
  <1>4. (got \o <<Head(pipe)>>) \o Tail(pipe) = got \o (<<Head(pipe)>> \o Tail(pipe))
    BY <1>1, <1>2, <1>3, ConcatIds
  <1>5. <<Head(pipe)>> \o Tail(pipe) = pipe
    BY <1>1
  <1> QED BY <1>3, <1>4, <1>5 DEF HubTakes, Sent

\* A send comes after everything sent so far.
LEMMA SendingAppends ==
  ASSUME TypeOK, SendTell
  PROVE  /\ Sent' \in Seq(Nat) /\ DOMAIN Sent' = 1 .. Len(Sent) + 1
         /\ \A i \in DOMAIN Sent : Sent'[i] = Sent[i]
         /\ Sent'[Len(Sent) + 1] = Oldest
  <1>1. Oldest \in Nat
    BY OldestInLeft DEF SendTell, TypeOK, Ids
  <1>2. <<Oldest>> \in Seq(Nat) /\ pipe' = pipe \o <<Oldest>> /\ got' = got
    <2>1. pipe' = Append(pipe, Oldest) /\ got' = got
      BY DEF SendTell
    <2>2. pipe \in Seq(Nat)
      BY SentTypes
    <2>3. Append(pipe, Oldest) = pipe \o <<Oldest>>
      BY <1>1, <2>2, AppendIsConcat, Zenon
    <2>4. <<Oldest>> \in Seq(Nat)
      BY <1>1
    <2> QED BY <2>1, <2>3, <2>4, Zenon
  <1>3. Sent' = Sent \o <<Oldest>>
    <2>1. got \in Seq(Nat) /\ pipe \in Seq(Nat)
      BY SentTypes
    <2>2. (got \o pipe) \o <<Oldest>> = got \o (pipe \o <<Oldest>>)
      BY <1>2, <2>1, ConcatIds
    <2>3. got' \o pipe' = got \o (pipe \o <<Oldest>>)
      BY <1>2, Zenon
    <2> QED BY <2>2, <2>3 DEF Sent
  <1>4. Sent' = Append(Sent, Oldest)
    <2>1. Sent \in Seq(Nat)
      BY SentTypes
    <2>2. Append(Sent, Oldest) = Sent \o <<Oldest>>
      BY <1>1, <2>1, AppendIsConcat, Zenon
    <2> QED BY <1>3, <2>2, Zenon
  <1> QED BY <1>1, <1>4, SentTypes, AppendProperties, LenProperties

\* The order stands while nothing is left, found or sent.
LEMMA SameOrder ==
  ASSUME TypeOK, OrderInv,
         faults' = faults, UNCHANGED left, Ids' = Ids, Sent' = Sent,
         left # {} => proc' = proc,
         \A j \in Ids : /\ tells'[j].to = tells[j].to
                        /\ tells'[j].sent = tells[j].sent
                        /\ tells[j].done => tells'[j].done
  PROVE  OrderInv'
  <1> SUFFICES ASSUME faults = 0
               PROVE  SentKnown' /\ Rising' /\ UnsentLater' /\ PassIsOfOne'
    BY DEF OrderInv
  <1>1. SentKnown /\ Rising /\ UnsentLater /\ PassIsOfOne /\ left \subseteq Ids
    BY DEF OrderInv, TypeOK
  <1>2. SentKnown' /\ Rising'
    BY <1>1 DEF SentKnown, Rising
  <1>3. UnsentLater'
    BY <1>1 DEF UnsentLater
  <1>4. PassIsOfOne'
    BY <1>1 DEF PassIsOfOne
  <1> QED BY <1>2, <1>3, <1>4

\* A fault ends what is said of the order.
LEMMA FaultOrder ==
  ASSUME TypeOK, Fault
  PROVE  OrderInv'
  <1>1. faults' # 0
    BY DEF TypeOK, Fault
  <1> QED BY <1>1 DEF OrderInv

\* A new tell comes after all others.
LEMMA InsertOrder ==
  ASSUME TypeOK, OrderInv, NEW to \in Nicks, NEW num \in 0 .. MaxTells,
         Insert(to, num), UNCHANGED <<proc, left, faults, got, pipe>>
  PROVE  OrderInv'
  <1> DEFINE n == Len(tells) + 1
  <1> SUFFICES ASSUME faults = 0
               PROVE  SentKnown' /\ Rising' /\ UnsentLater' /\ PassIsOfOne'
    BY DEF OrderInv
  <1>1. SentKnown /\ Rising /\ UnsentLater /\ PassIsOfOne /\ left \subseteq Ids
    BY DEF OrderInv, TypeOK
  <1>2. /\ \A t \in Ids : tells'[t] = tells[t] /\ t \in Nat /\ t < n
        /\ tells'[n].sent = 0
        /\ Ids \subseteq Ids'
        /\ \A t \in Ids' : t \in Ids \/ t = n
    BY InsertFacts DEF Ids
  <1>3. Sent' = Sent
    BY DEF Sent
  <1> HIDE DEF n
  <1>4. SentKnown' /\ Rising'
    BY <1>1, <1>2, <1>3 DEF SentKnown, Rising
  <1>5. UnsentLater'
    BY <1>1, <1>2 DEF UnsentLater
  <1>6. PassIsOfOne'
    BY <1>1, <1>2 DEF PassIsOfOne
  <1> QED BY <1>4, <1>5, <1>6

\* A pass starts with all that is pending for its nick.
LEMMA FindOrder ==
  ASSUME TypeOK, OrderInv, FindTells
  PROVE  OrderInv'
  <1>1. CASE Fault
    BY <1>1, FaultOrder
  <1>2. CASE ~Fault
    <2>1. /\ left' = Pending(proc.nick) /\ UNCHANGED <<tells, faults, got, pipe>>
          /\ left' # {} => proc' = proc
      BY <1>2 DEF FindTells, Found, dbVars, pipeVars
    <2>2. SUFFICES ASSUME faults = 0
                   PROVE  SentKnown' /\ Rising' /\ UnsentLater' /\ PassIsOfOne'
      BY <2>1 DEF OrderInv
    <2>3. SentKnown /\ Rising /\ UnsentLater /\ Ids' = Ids /\ Sent' = Sent
      BY <2>1, <2>2 DEF OrderInv, Ids, Sent
    <2>4. SentKnown' /\ Rising'
      BY <2>1, <2>3 DEF SentKnown, Rising
    <2>5. UnsentLater'
      BY <2>1, <2>3 DEF UnsentLater, Pending
    <2>6. PassIsOfOne'
      BY <2>1, <2>3 DEF PassIsOfOne, Pending
    <2> QED BY <2>4, <2>5, <2>6
  <1> QED BY <1>1, <1>2

\* What is sent next was left after all that was sent to its nick, and before all that
\* may still be sent to it.
LEMMA SendOrder ==
  ASSUME TypeOK, DeliverySafe, OrderInv, SendTell
  PROVE  OrderInv'
  <1>1. UNCHANGED <<proc, left, faults, got>> /\ left \subseteq Ids /\ left # {}
    BY DEF SendTell, TypeOK
  <1> SUFFICES ASSUME faults = 0
               PROVE  SentKnown' /\ Rising' /\ UnsentLater' /\ PassIsOfOne'
    BY <1>1 DEF OrderInv
  <1>2. SentKnown /\ Rising /\ UnsentLater /\ PassIsOfOne
    BY DEF OrderInv
  <1>3. Oldest \in left /\ Oldest \in Ids /\ \A u \in left : Oldest <= u
    BY <1>1, OldestInLeft
  <1>4. /\ Ids' = Ids
        /\ \A j \in Ids : /\ tells'[j].done = tells[j].done
                          /\ tells'[j].to = tells[j].to
                          /\ tells'[j].sent = IF j = Oldest THEN tells[j].sent + 1
                                              ELSE tells[j].sent
    BY <1>3, SendFacts DEF SendTell
  <1>5. \A t \in Ids : tells[t].sent \in Nat /\ t \in Nat
    BY SentTyped DEF Ids
  <1>6. tells[Oldest].sent = 0
    <2>1. tells[Oldest].sent <= 0
      BY <1>3 DEF SendTell, DeliverySafe, DeliveryInv, AtMark
    <2> QED BY <1>3, <1>5, <2>1
  <1>7. /\ DOMAIN Sent' = 1 .. Len(Sent) + 1 /\ DOMAIN Sent = 1 .. Len(Sent) /\ Len(Sent) \in Nat
        /\ \A i \in DOMAIN Sent : Sent'[i] = Sent[i]
        /\ Sent'[Len(Sent) + 1] = Oldest
    BY SendingAppends, SentTypes
  <1>8. \A t \in Ids : tells'[t].sent > 0 <=> (t = Oldest \/ tells[t].sent > 0)
    BY <1>3, <1>4, <1>5
  <1>9. SentKnown'
    <2>1. ASSUME NEW i \in DOMAIN Sent' PROVE Sent'[i] \in Ids /\ tells'[Sent'[i]].sent > 0
      <3>1. CASE i \in DOMAIN Sent
        BY <3>1, <1>2, <1>7, <1>8 DEF SentKnown
      <3>2. CASE i = Len(Sent) + 1
        BY <3>2, <1>3, <1>7, <1>8
      <3> QED BY <1>7, <3>1, <3>2
    <2> QED BY <1>4, <2>1 DEF SentKnown
  <1>10. Rising'
    <2>1. ASSUME NEW i \in DOMAIN Sent', NEW j \in DOMAIN Sent', i < j,
                 tells'[Sent'[i]].to = tells'[Sent'[j]].to
          PROVE  Sent'[i] < Sent'[j]
      <3>1. i \in DOMAIN Sent /\ Sent'[i] = Sent[i] /\ Sent[i] \in Ids /\ tells[Sent[i]].sent > 0
        BY <2>1, <1>2, <1>7 DEF SentKnown
      <3>2. CASE j \in DOMAIN Sent
        <4>1. Sent'[j] = Sent[j] /\ Sent[j] \in Ids
          BY <3>2, <1>2, <1>7 DEF SentKnown
        <4>2. tells[Sent[i]].to = tells[Sent[j]].to
          BY <2>1, <3>1, <4>1, <1>4
        <4> QED BY <2>1, <3>1, <3>2, <4>1, <4>2, <1>2 DEF Rising
      <3>3. CASE j = Len(Sent) + 1
        <4>1. Sent'[j] = Oldest /\ tells[Sent[i]].to = tells[Oldest].to
          BY <2>1, <3>1, <3>3, <1>3, <1>4, <1>7
        <4> QED BY <3>1, <4>1, <1>2, <1>3, <1>6 DEF UnsentLater
      <3> QED BY <1>7, <3>2, <3>3
    <2> QED BY <2>1 DEF Rising
  <1>11. UnsentLater'
    <2>1. ASSUME NEW t \in Ids, NEW u \in Ids, tells[t].to = tells[u].to,
                 t \in left \/ ~tells[t].done, tells'[t].sent = 0, tells'[u].sent > 0
          PROVE  u < t
      <3>1. t # Oldest /\ tells[t].sent = 0
        BY <2>1, <1>3, <1>4, <1>5
      <3>2. CASE tells[u].sent > 0
        BY <2>1, <3>1, <3>2, <1>2 DEF UnsentLater
      <3>3. CASE u = Oldest /\ t \in left
        BY <3>1, <3>3, <1>3, <1>5
      <3>4. CASE u = Oldest /\ t \notin left
        <4>1. tells[u].to = proc.nick
          BY <3>4, <1>2, <1>3 DEF PassIsOfOne
        <4> QED BY <2>1, <3>4, <4>1, <1>2, <1>3 DEF PassIsOfOne
      <3> QED BY <2>1, <1>8, <3>2, <3>3, <3>4
    <2> QED BY <1>1, <1>4, <2>1 DEF UnsentLater
  <1>12. PassIsOfOne'
    BY <1>1, <1>2, <1>4 DEF PassIsOfOne
  <1> QED BY <1>9, <1>10, <1>11, <1>12

\* The tell marked is off the pass, and no longer pending.
LEMMA MarkOrder ==
  ASSUME TypeOK, OrderInv, MarkTell
  PROVE  OrderInv'
  <1>1. CASE Fault
    BY <1>1, FaultOrder
  <1>2. CASE ~Fault
    <2>1. /\ tells' = [tells EXCEPT ![Oldest].done = TRUE] /\ UNCHANGED <<faults, got, pipe>>
          /\ left' = left \ {Oldest} /\ (left' # {} => proc' = proc)
          /\ left # {} /\ left \subseteq Ids
      BY <1>2 DEF MarkTell, NextTell, pipeVars, TypeOK
    <2> SUFFICES ASSUME faults = 0
                 PROVE  SentKnown' /\ Rising' /\ UnsentLater' /\ PassIsOfOne'
      BY <2>1 DEF OrderInv
    <2>2. SentKnown /\ Rising /\ UnsentLater /\ PassIsOfOne /\ Sent' = Sent
      BY <2>1 DEF OrderInv, Sent
    <2>3. Oldest \in left /\ Oldest \in Ids
      BY <2>1, OldestInLeft
    <2>4. /\ Ids' = Ids
          /\ \A j \in Ids : /\ tells'[j].sent = tells[j].sent
                            /\ tells'[j].to = tells[j].to
                            /\ tells'[j].done <=> (tells[j].done \/ j = Oldest)
      BY <2>1, <2>3, MarkFacts
    <2>5. SentKnown' /\ Rising'
      BY <2>2, <2>4 DEF SentKnown, Rising
    <2>6. UnsentLater'
      BY <2>1, <2>2, <2>4 DEF UnsentLater
    <2>7. PassIsOfOne'
      BY <2>1, <2>2, <2>4 DEF PassIsOfOne
    <2> QED BY <2>5, <2>6, <2>7
  <1> QED BY <1>1, <1>2

\* Nothing is sent at the start.
LEMMA InitOrder == Init => OrderInv
  <1> SUFFICES ASSUME Init PROVE OrderInv
    OBVIOUS
  <1>1. Ids = {} /\ Sent = <<>> /\ left = {}
    BY EmptySeq, ConcatEmptySeq DEF Init, Ids, Sent
  <1> QED BY <1>1 DEF OrderInv, SentKnown, Rising, UnsentLater, PassIsOfOne

\* Every action keeps what is said of the order.
THEOREM NextOrder == TypeOK /\ DeliverySafe /\ OrderInv /\ [Next]_vars => OrderInv'
  <1> SUFFICES ASSUME TypeOK, DeliverySafe, OrderInv, [Next]_vars PROVE OrderInv'
    OBVIOUS
  <1> USE DEF dbVars, busVars, procVars, pipeVars
  <1>1. ASSUME UNCHANGED <<tells, left, faults, got, pipe>>, left # {} => proc' = proc
        PROVE  OrderInv'
    <2>1. Ids' = Ids /\ Sent' = Sent
      BY <1>1 DEF Ids, Sent
    <2> QED BY <1>1, <2>1, SameOrder
  <1>2. CASE \E n \in Nicks : Seen(n) \/ \E to \in Nicks : TypeTell(n, to)
    BY <1>1, <1>2 DEF Seen, TypeTell
  <1>3. ASSUME NEW n \in Nicks, ApiCreate(n) PROVE OrderInv'
    <2>1. Insert(n, 0) /\ 0 \in 0 .. MaxTells /\ UNCHANGED <<proc, left, faults, got, pipe>>
      BY <1>3 DEF ApiCreate, TypeOK
    <2> QED BY <2>1, InsertOrder
  <1>4. ASSUME NEW t \in Ids, ApiMark(t) PROVE OrderInv'
    <2>1. /\ Ids' = Ids
          /\ \A j \in Ids : /\ tells'[j].sent = tells[j].sent
                            /\ tells'[j].to = tells[j].to
                            /\ tells'[j].done <=> (tells[j].done \/ j = t)
      BY <1>4, MarkFacts DEF ApiMark
    <2>2. Sent' = Sent /\ UNCHANGED <<left, proc, faults>>
      BY <1>4 DEF ApiMark, Sent
    <2> QED BY <2>1, <2>2, SameOrder
  <1>5. CASE ReadEvent
    <2>1. left = {} /\ UNCHANGED <<tells, left, faults, got, pipe>>
      BY <1>5 DEF ReadEvent, TypeOK
    <2> QED BY <1>1, <2>1
  <1>6. CASE FindTells
    BY <1>6, FindOrder
  <1>7. CASE SendTell
    BY <1>7, SendOrder
  <1>8. CASE MarkTell
    BY <1>8, MarkOrder
  <1>9. CASE ReadCommand
    BY <1>1, <1>9 DEF ReadCommand
  <1>10. CASE SaveTell
    <2>1. cmd.to \in Nicks /\ cmd.num \in 0 .. MaxTells
      BY <1>10, CommandTyped DEF SaveTell
    <2>2. CASE Insert(cmd.to, cmd.num) /\ UNCHANGED faults
      BY <1>10, <2>1, <2>2, InsertOrder DEF SaveTell
    <2>3. CASE Fault
      BY <2>3, FaultOrder
    <2> QED BY <1>10, <2>2, <2>3 DEF SaveTell
  <1>11. CASE Lag \/ LinkFails \/ Restart
    BY <1>11, FaultOrder DEF Lag, LinkFails, Restart
  <1>12. CASE HubTakes
    <2>1. Ids' = Ids /\ Sent' = Sent /\ UNCHANGED <<tells, left, proc, faults>>
      BY <1>12, TakingKeepsSent DEF HubTakes, Ids
    <2> QED BY <2>1, SameOrder
  <1>13. CASE UNCHANGED vars
    BY <1>1, <1>13 DEF vars
  <1> QED BY <1>2, <1>3, <1>4, <1>5, <1>6, <1>7, <1>8, <1>9, <1>10, <1>11, <1>12, <1>13
          DEF Next, ProcStep, CmdStep

\* Without faults the hub gets a nick's tells in the order they were left, whoever else
\* marks them and however new tells cut the passes over them.
THEOREM TellsInOrder == Spec => []InOrder
  <1>1. OrderInv => InOrder
    BY DEF OrderInv, Rising, Sent, InOrder
  <1> QED BY <1>1, InitTypeOK, InitDelivery, InitOrder, NextTypeOK, NextDelivery, NextOrder, PTL
          DEF Spec

================================================================================
