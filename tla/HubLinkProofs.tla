----------------------------- MODULE HubLinkProofs -----------------------------
(***************************************************************************)
(* Theorems about the hub socket task, for every channel capacity, every   *)
(* set of senders and every backoff.  The strengthening LinkInv says which *)
(* values of link and batch go with a phase.                               *)
(***************************************************************************)
EXTENDS HubLink, TLAPS, SequenceTheorems

LinkInv ==
    /\ link = "none" => wire = <<>>
    /\ phase \in {"sleep", "connecting"} => link # "up"
    /\ phase \in {"users", "bots", "send"} => batch # <<>>
    /\ phase = "writing" => inHand # <<>>

IInv == TypeOK /\ SessionAnnounced /\ QueueBounded /\ LinkInv

USE LinkAssumption

\* The invariant holds at the start.
THEOREM InitIInv == Init => IInv
  <1> SUFFICES ASSUME Init PROVE IInv
    OBVIOUS
  <1>1. TypeOK
    <2>1. <<>> \in Seq(Kinds) /\ <<>> \in Seq(Nat)
      BY EmptySeq
    <2>2. InitialDelay \in InitialDelay .. MaxDelay
      OBVIOUS
    <2> QED BY <2>1, <2>2 DEF Init, TypeOK, Phases
  <1>2. Len(queue) = 0 /\ Len(inHand) = 0
    BY DEF Init
  <1> QED BY <1>1, <1>2 DEF Init, IInv, SessionAnnounced, QueueBounded, LinkInv

\* The end of a session clears what belonged to it.
LEMMA EndSessionIInv ==
  ASSUME IInv, NEW how \in {"ok", "err"}, EndSession(how)
  PROVE  IInv'
  <1> USE DEF channelVars, senderVars
  <1>1. TypeOK'
    <2>1. <<>> \in Seq(Kinds) /\ <<>> \in Seq(Nat)
      BY EmptySeq
    <2>2. delay' \in InitialDelay .. MaxDelay
      BY DEF IInv, TypeOK, EndSession
    <2>3. link' \in {"none", "up", "dropped"}
      BY DEF EndSession
    <2> QED BY <2>1, <2>2, <2>3 DEF IInv, TypeOK, EndSession, Phases
  <1>2. Len(inHand') = 0
    BY DEF EndSession
  <1>3. SessionAnnounced'
    BY DEF EndSession, SessionAnnounced
  <1>4. QueueBounded'
    BY <1>2 DEF IInv, QueueBounded, EndSession
  <1>5. LinkInv'
    BY DEF IInv, LinkInv, TypeOK, EndSession
  <1> QED BY <1>1, <1>3, <1>4, <1>5 DEF IInv

\* A sender pushes into a channel that has room.
LEMMA PushFacts ==
  ASSUME IInv, Push
  PROVE  /\ sent' \in Nat
         /\ queue' \in Seq(Nat)
         /\ Len(queue') <= Cap
  <1>1. sent + 1 \in Nat /\ queue \in Seq(Nat) /\ Len(queue) < Cap
    BY DEF IInv, TypeOK, Push, HasRoom
  <1> QED BY <1>1, AppendProperties, LenProperties DEF Push

\* The frames left of a read are frames.
LEMMA NextFrameFacts ==
  ASSUME IInv, NextFrame, batch # <<>>
  PROVE  batch' \in Seq(Kinds)
  BY HeadTailProperties DEF IInv, TypeOK, NextFrame

\* The socket task keeps the invariant, ...
LEMMA SocketIInv == ASSUME IInv, SocketStep PROVE IInv'
  <1> USE DEF statusVars, channelVars, senderVars, hubVars
  <1>1. CASE Wake
    <2>1. delay' \in InitialDelay .. MaxDelay
      BY <1>1 DEF Wake, IInv, TypeOK
    <2> QED BY <1>1, <2>1 DEF Wake, IInv, TypeOK, Phases, SessionAnnounced,
                              QueueBounded, LinkInv
  <1>2. CASE Connect
    BY <1>2, EmptySeq DEF Connect, IInv, TypeOK, Phases, SessionAnnounced,
                          QueueBounded, LinkInv
  <1>3. CASE ConnectFails \/ AuthFails \/ RequestFails \/ ReadEnds \/ WriteFails
             \/ HandleOversize
    BY <1>3, EndSessionIInv DEF ConnectFails, AuthFails, RequestFails, ReadEnds,
                                WriteFails, HandleOversize
  <1>4. CASE AuthOk
    BY <1>4 DEF AuthOk, IInv, TypeOK, Phases, SessionAnnounced, QueueBounded, LinkInv
  <1>5. CASE RequestState
    BY <1>5 DEF RequestState, IInv, TypeOK, Phases, SessionAnnounced, QueueBounded,
                LinkInv
  <1>6. CASE ReadEvents
    <2>1. PICK n \in 1 .. MaxBatch : batch' \in [1 .. n -> Kinds]
      BY <1>6 DEF ReadEvents
    <2>2. batch' \in Seq(Kinds)
      BY <2>1, IsASeq
    <2> QED BY <1>6, <2>2 DEF ReadEvents, IInv, TypeOK, Phases, SessionAnnounced,
                              QueueBounded, LinkInv
  <1>7. CASE RecvCommand
    <2>1. queue \in Seq(Nat) /\ queue # <<>> /\ Len(queue) <= Cap
      BY <1>7 DEF RecvCommand, IInv, TypeOK, QueueBounded
    <2>2. /\ Head(queue) \in Nat
          /\ queue' \in Seq(Nat)
          /\ Len(queue') = Len(queue) - 1
      BY <1>7, <2>1, HeadTailProperties DEF RecvCommand
    <2>3. /\ inHand' \in Seq(Nat)
          /\ Len(inHand') = 1
          /\ inHand' # <<>>
          /\ Len(queue') <= Cap
      BY <1>7, <2>1, <2>2, LenProperties DEF RecvCommand
    <2> QED BY <1>7, <2>2, <2>3 DEF RecvCommand, IInv, TypeOK, Phases,
                                    SessionAnnounced, QueueBounded, LinkInv
  <1>8. CASE WriteCommand
    <2>1. wire' \in Seq(Nat)
      BY <1>8, ConcatProperties DEF WriteCommand, IInv, TypeOK
    <2>2. inHand' \in Seq(Nat) /\ Len(inHand') = 0
      BY <1>8, EmptySeq DEF WriteCommand
    <2> QED BY <1>8, <2>1, <2>2 DEF WriteCommand, IInv, TypeOK, Phases,
                                    SessionAnnounced, QueueBounded, LinkInv
  <1>9. CASE BatchDone
    BY <1>9 DEF BatchDone, IInv, TypeOK, Phases, SessionAnnounced, QueueBounded, LinkInv
  <1>10. CASE HandlePublish
    <2>1. batch' \in Seq(Kinds)
      BY <1>10, NextFrameFacts DEF HandlePublish
    <2> QED BY <1>10, <2>1 DEF HandlePublish, NextFrame, IInv, TypeOK, Phases,
                               SessionAnnounced, QueueBounded, LinkInv
  <1>11. CASE StartHandler
    <2>1. phase' \in {"send", "users", "bots"} /\ batch' = batch /\ batch # <<>>
      <3>1. Head(batch) \in {"chat", "roster", "validate"}
        BY <1>11 DEF StartHandler, WaitsFor
      <3> QED BY <1>11, <3>1 DEF StartHandler, WaitsFor
    <2> QED BY <1>11, <2>1 DEF StartHandler, IInv, TypeOK, Phases, SessionAnnounced,
                               QueueBounded, LinkInv
  <1>12. CASE WriteUsers
    <2>1. batch' \in Seq(Kinds)
      BY <1>12, NextFrameFacts DEF WriteUsers, IInv, LinkInv
    <2> QED BY <1>12, <2>1 DEF WriteUsers, NextFrame, IInv, TypeOK, Phases,
                               SessionAnnounced, QueueBounded, LinkInv
  <1>13. CASE CheckBots
    BY <1>13 DEF CheckBots, IInv, TypeOK, Phases, SessionAnnounced, QueueBounded, LinkInv
  <1>14. CASE SendOwn
    <2>1. batch' \in Seq(Kinds)
      BY <1>14, NextFrameFacts DEF SendOwn, IInv, LinkInv
    <2>2. sent' \in Nat /\ queue' \in Seq(Nat) /\ Len(queue') <= Cap
      BY <1>14, PushFacts DEF SendOwn
    <2> QED BY <1>14, <2>1, <2>2 DEF SendOwn, NextFrame, IInv, TypeOK, Phases,
                                     SessionAnnounced, QueueBounded, LinkInv
  <1>15. CASE Tick \/ TickReturns
    BY <1>15 DEF Tick, TickReturns, IInv, TypeOK, Phases, SessionAnnounced, QueueBounded,
                 LinkInv
  <1>16. CASE HandleUnreadable
    <2>1. <<>> \in Seq(Kinds) /\ <<>> \in Seq(Nat) /\ Len(queue') = 0
      BY <1>16, EmptySeq DEF HandleUnreadable
    <2>2. link' \in {"none", "up", "dropped"} /\ (link' = "none" => link = "none")
      BY <1>16 DEF HandleUnreadable
    <2> QED BY <1>16, <2>1, <2>2 DEF HandleUnreadable, IInv, TypeOK, Phases,
                                     SessionAnnounced, QueueBounded, LinkInv
  <1> QED BY <1>1, <1>2, <1>3, <1>4, <1>5, <1>6, <1>7, <1>8, <1>9, <1>10, <1>11,
             <1>12, <1>13, <1>14, <1>15, <1>16 DEF SocketStep

\* ... the senders do, ...
LEMMA SenderIInv ==
  ASSUME IInv, NEW p \in Senders, SenderStep(p)
  PROVE  IInv'
  <1> USE DEF socketVars, statusVars, channelVars, hubVars
  <1>1. pc' \in [Senders -> {"idle", "holding", "sending"}]
    BY DEF SenderStep, TakeLock, StartSend, SendReturns, DropLock, IInv, TypeOK
  <1>2. CASE SendReturns(p)
    <2>1. sent' \in Nat /\ queue' \in Seq(Nat) /\ Len(queue') <= Cap
      BY <1>2, PushFacts DEF SendReturns, IInv, TypeOK, QueueBounded
    <2> QED BY <1>1, <1>2, <2>1 DEF SendReturns, IInv, TypeOK, SessionAnnounced,
                                    QueueBounded, LinkInv
  <1>3. CASE TakeLock(p) \/ StartSend(p) \/ DropLock(p)
    <2>1. UNCHANGED <<socketVars, statusVars, channelVars, wantBots, hubVars>>
      BY <1>3 DEF TakeLock, StartSend, DropLock
    <2>2. TypeOK'
      BY <1>1, <2>1 DEF IInv, TypeOK
    <2>3. SessionAnnounced' /\ QueueBounded' /\ LinkInv'
      BY <2>1 DEF IInv, SessionAnnounced, QueueBounded, LinkInv
    <2> QED BY <2>2, <2>3 DEF IInv
  <1> QED BY <1>2, <1>3 DEF SenderStep

\* ... and the admin API and the hub.
LEMMA RestIInv ==
  ASSUME IInv, AskBots \/ WriteBots \/ HubReads \/ HubCloses
  PROVE  IInv'
  <1> USE DEF socketVars, statusVars, channelVars, senderVars, hubVars
  <1>1. CASE AskBots \/ WriteBots
    <2>1. /\ wantBots' \in BOOLEAN
          /\ UNCHANGED <<socketVars, statusVars, channelVars, pc, hubVars>>
      BY <1>1 DEF AskBots, WriteBots
    <2>2. TypeOK'
      BY <2>1 DEF IInv, TypeOK
    <2>3. SessionAnnounced' /\ QueueBounded' /\ LinkInv'
      BY <2>1 DEF IInv, SessionAnnounced, QueueBounded, LinkInv
    <2> QED BY <2>2, <2>3 DEF IInv
  <1>2. CASE HubReads
    <2>1. wire \in Seq(Nat) /\ got \in Seq(Nat) /\ wire # <<>>
      BY <1>2 DEF HubReads, IInv, TypeOK
    <2>2. got' \in Seq(Nat) /\ wire' \in Seq(Nat)
      BY <1>2, <2>1, HeadTailProperties, AppendProperties DEF HubReads
    <2>3. link # "none"
      BY <2>1 DEF IInv, LinkInv
    <2> QED BY <1>2, <2>2, <2>3 DEF HubReads, IInv, TypeOK, SessionAnnounced,
                                    QueueBounded, LinkInv
  <1>3. CASE HubCloses
    BY <1>3, EmptySeq DEF HubCloses, IInv, TypeOK, SessionAnnounced, QueueBounded, LinkInv
  <1> QED BY <1>1, <1>2, <1>3

\* Every action keeps the invariant.
LEMMA NextIInv == IInv /\ [Next]_vars => IInv'
  <1>1. IInv /\ UNCHANGED vars => IInv'
    BY DEF vars, socketVars, statusVars, channelVars, senderVars, hubVars, IInv, TypeOK,
           SessionAnnounced, QueueBounded, LinkInv
  <1> QED BY <1>1, SocketIInv, SenderIInv, RestIInv DEF Next

\* The invariant holds in every behaviour.
LEMMA Inductive == Spec => []IInv
  BY InitIInv, NextIInv, PTL DEF Spec

\* Every variable keeps its type; the backoff stays within its two bounds.
THEOREM TypeCorrect == Spec => []TypeOK
  BY Inductive, PTL DEF IInv

\* The bus and the REST API are told of every session's start and end.
THEOREM Announced == Spec => []SessionAnnounced
  BY Inductive, PTL DEF IInv

\* The channel never exceeds its capacity, with any number of senders.
THEOREM Bounded == Spec => []QueueBounded
  BY Inductive, PTL DEF IInv
--------------------------------------------------------------------------------
(* The command pipe.  Each step either leaves the concatenation of the wire,  *)
(* the command in hand and the channel alone, or adds at its end, or takes    *)
(* from its front.                                                            *)

InTransit == wire \o inHand \o queue

\* What is under way may be cut between any two of its parts.
LEMMA ConcatNat ==
  ASSUME NEW s \in Seq(Nat), NEW t \in Seq(Nat), NEW u \in Seq(Nat)
  PROVE  (s \o t) \o u = s \o (t \o u)
  BY ConcatAssociative, SMTT(30)

\* What is under way is a sequence of commands.
LEMMA PartsTyped ==
  ASSUME IInv
  PROVE  /\ wire \in Seq(Nat) /\ inHand \in Seq(Nat) /\ queue \in Seq(Nat)
         /\ wire \o inHand \in Seq(Nat)
         /\ InTransit \in Seq(Nat)
  BY ConcatProperties DEF IInv, TypeOK, InTransit

\* A command pushed is the last one under way.
LEMMA PushAppends ==
  ASSUME IInv, Push, UNCHANGED <<wire, inHand>>
  PROVE  InTransit' = Append(InTransit, sent + 1)
  <1> DEFINE front == wire \o inHand
  <1>1. sent + 1 \in Nat /\ queue \in Seq(Nat) /\ front \in Seq(Nat)
    BY PartsTyped DEF IInv, TypeOK
  <1>2. <<sent + 1>> \in Seq(Nat)
    BY <1>1
  <1>3. Append(queue, sent + 1) = queue \o <<sent + 1>>
    BY <1>1, AppendIsConcat
  <1>4. Append(front \o queue, sent + 1) = (front \o queue) \o <<sent + 1>>
    BY <1>1, AppendIsConcat, ConcatProperties
  <1>5. (front \o queue) \o <<sent + 1>> = front \o (queue \o <<sent + 1>>)
    BY <1>1, <1>2, ConcatNat
  <1> QED BY <1>3, <1>4, <1>5 DEF Push, InTransit

\* Taking a command off the channel keeps it under way, ...
LEMMA RecvKeeps ==
  ASSUME IInv, RecvCommand
  PROVE  InTransit' = InTransit
  <1>1. inHand = <<>> /\ queue # <<>> /\ wire' = wire
    BY DEF IInv, QueueBounded, RecvCommand, hubVars
  <1>2. wire \in Seq(Nat) /\ queue \in Seq(Nat)
    BY PartsTyped
  <1>3. Head(queue) \in Nat /\ Tail(queue) \in Seq(Nat)
    BY <1>1, <1>2, HeadTailProperties
  <1>4. <<Head(queue)>> \in Seq(Nat)
    BY <1>3
  <1>5. <<Head(queue)>> \o Tail(queue) = queue
    <2>1. Len(<<Head(queue)>> \o Tail(queue)) = Len(queue)
      BY <1>1, <1>2, <1>3, <1>4, ConcatProperties, HeadTailProperties, LenProperties
    <2>2. \A i \in 1 .. Len(queue) : (<<Head(queue)>> \o Tail(queue))[i] = queue[i]
      BY <1>1, <1>2, <1>3, <1>4, ConcatProperties, HeadTailProperties, LenProperties
    <2> QED BY <1>2, <1>3, <1>4, <2>1, <2>2, ConcatProperties, SeqEqual
  <1>6. (wire \o <<Head(queue)>>) \o Tail(queue) = wire \o queue
    <2>1. (wire \o <<Head(queue)>>) \o Tail(queue) = wire \o (<<Head(queue)>> \o Tail(queue))
      BY <1>2, <1>3, <1>4, ConcatNat
    <2> QED BY <1>5, <2>1
  <1>7. wire \o <<>> = wire
    BY <1>2, ConcatEmptySeq
  <1> QED BY <1>1, <1>6, <1>7 DEF InTransit, RecvCommand

\* ... and so does writing it.
LEMMA WriteKeeps ==
  ASSUME IInv, WriteCommand
  PROVE  InTransit' = InTransit
  BY PartsTyped, ConcatEmptySeq DEF InTransit, WriteCommand, channelVars

\* The hub reads the oldest command under way.
LEMMA ReadTakes ==
  ASSUME IInv, HubReads
  PROVE  /\ InTransit # <<>>
         /\ Head(wire) = Head(InTransit)
         /\ InTransit' = Tail(InTransit)
  <1> DEFINE rest == inHand \o queue
  <1>1. wire \in Seq(Nat) /\ wire # <<>> /\ rest \in Seq(Nat)
    BY PartsTyped, ConcatProperties DEF HubReads
  <1>2. /\ Tail(wire) \in Seq(Nat)
        /\ Len(wire) \in Nat \ {0}
        /\ Len(rest) \in Nat
        /\ Len(Tail(wire)) = Len(wire) - 1
        /\ \A i \in 1 .. Len(Tail(wire)) : Tail(wire)[i] = wire[i + 1]
    BY <1>1, HeadTailProperties, LenProperties, EmptySeq
  <1>3. InTransit = wire \o rest /\ InTransit' = Tail(wire) \o rest
    <2>1. wire \in Seq(Nat) /\ inHand \in Seq(Nat) /\ queue \in Seq(Nat)
      BY PartsTyped
    <2>2. InTransit = wire \o rest
      <3>1. (wire \o inHand) \o queue = wire \o (inHand \o queue)
        BY <2>1, ConcatNat
      <3> QED BY <3>1 DEF InTransit
    <2>3. InTransit' = (Tail(wire) \o inHand) \o queue
      BY DEF InTransit, HubReads, socketVars, channelVars
    <2>4. Tail(wire) \in Seq(Nat)
      BY <1>2
    <2>5. ASSUME NEW t \in Seq(Nat) PROVE (t \o inHand) \o queue = t \o rest
      BY <2>1, ConcatNat
    <2> QED BY <2>2, <2>3, <2>4, <2>5
  <1>4. /\ wire \o rest \in Seq(Nat)
        /\ Len(wire \o rest) = Len(wire) + Len(rest)
        /\ \A i \in 1 .. Len(wire) + Len(rest) :
              (wire \o rest)[i] = IF i <= Len(wire) THEN wire[i] ELSE rest[i - Len(wire)]
    BY <1>1, ConcatProperties
  <1>5. /\ Tail(wire) \o rest \in Seq(Nat)
        /\ Len(Tail(wire) \o rest) = Len(Tail(wire)) + Len(rest)
        /\ \A i \in 1 .. Len(Tail(wire)) + Len(rest) :
              (Tail(wire) \o rest)[i] = IF i <= Len(Tail(wire)) THEN Tail(wire)[i]
                                        ELSE rest[i - Len(Tail(wire))]
    BY <1>1, <1>2, ConcatProperties
  <1>6. wire \o rest # <<>>
    BY <1>2, <1>4, EmptySeq
  <1>7. Head(wire) = Head(wire \o rest)
    BY <1>1, <1>2, <1>4, <1>6
  <1>8. /\ Tail(wire \o rest) \in Seq(Nat)
        /\ Len(Tail(wire \o rest)) = Len(wire \o rest) - 1
        /\ \A i \in 1 .. Len(Tail(wire \o rest)) :
              Tail(wire \o rest)[i] = (wire \o rest)[i + 1]
    BY <1>4, <1>6, HeadTailProperties
  <1>9. Tail(wire) \o rest = Tail(wire \o rest)
    <2> HIDE DEF rest
    <2>1. Len(Tail(wire) \o rest) = Len(Tail(wire \o rest))
      BY <1>2, <1>4, <1>5, <1>8
    <2>2. ASSUME NEW i \in 1 .. Len(Tail(wire) \o rest)
          PROVE  (Tail(wire) \o rest)[i] = Tail(wire \o rest)[i]
      BY <1>2, <1>4, <1>5, <1>8
    <2> QED BY <1>5, <1>8, <2>1, <2>2, SeqEqual
  <1> QED BY <1>3, <1>6, <1>7, <1>9

\* The rest of a sequence is what is left when its beginning is dropped.
LEMMA DropPrefix ==
  ASSUME NEW s \in Seq(Nat), NEW t \in Seq(Nat)
  PROVE  \E k \in 0 .. Len(s \o t) : t = SubSeq(s \o t, k + 1, Len(s \o t))
  <1>1. Len(s) \in Nat /\ Len(t) \in Nat /\ Len(s \o t) = Len(s) + Len(t)
    BY LenProperties, ConcatProperties
  <1>2. SubSeq(s \o t, Len(s) + 1, Len(s \o t)) = t
    <2>1. \A i \in Len(s) + 1 .. Len(s \o t) : (s \o t)[i] \in Nat
      BY <1>1, ConcatProperties, ElementOfSeq
    <2>2. /\ SubSeq(s \o t, Len(s) + 1, Len(s \o t)) \in Seq(Nat)
          /\ Len(SubSeq(s \o t, Len(s) + 1, Len(s \o t)))
                 = IF Len(s) + 1 <= Len(s \o t) THEN Len(s \o t) - (Len(s) + 1) + 1 ELSE 0
          /\ \A i \in 1 .. Len(s \o t) - (Len(s) + 1) + 1 :
                SubSeq(s \o t, Len(s) + 1, Len(s \o t))[i] = (s \o t)[(Len(s) + 1) + i - 1]
      BY <1>1, <2>1, SubSeqProperties
    <2>3. Len(SubSeq(s \o t, Len(s) + 1, Len(s \o t))) = Len(t)
      BY <1>1, <2>2
    <2>4. ASSUME NEW i \in 1 .. Len(t)
          PROVE  SubSeq(s \o t, Len(s) + 1, Len(s \o t))[i] = t[i]
      <3>1. SubSeq(s \o t, Len(s) + 1, Len(s \o t))[i] = (s \o t)[Len(s) + i]
        <4>1. /\ i \in 1 .. Len(s \o t) - (Len(s) + 1) + 1
              /\ (Len(s) + 1) + i - 1 = Len(s) + i
          BY <1>1
        <4> QED BY <2>2, <4>1, Zenon
      <3>2. (s \o t)[Len(s) + i] = t[i]
        BY <1>1, ConcatProperties
      <3> QED BY <3>1, <3>2
    <2> QED BY <2>2, <2>3, <2>4, SeqEqual
  <1>3. Len(s) \in 0 .. Len(s \o t)
    BY <1>1
  <1> QED BY <1>2, <1>3, Zenon

\* Dropping nothing is dropping a beginning.
LEMMA KeepAll ==
  ASSUME NEW s \in Seq(Nat)
  PROVE  \E k \in 0 .. Len(s) : s = SubSeq(s, k + 1, Len(s))
  BY DropPrefix, EmptySeq, ConcatEmptySeq

\* Whatever happens to the connection, the commands that survive are the
\* youngest ones, and only a connection that is not up throughout loses any.
LEMMA EndSessionLoses ==
  ASSUME IInv, NEW how \in {"ok", "err"}, EndSession(how),
         phase = "writing" => link = "none"
  PROVE  /\ \E k \in 0 .. Len(InTransit) : InTransit' = SubSeq(InTransit, k + 1, Len(InTransit))
         /\ link' # "up"
         /\ UNCHANGED <<sent, got>>
  <1>1. /\ link' # "up"
        /\ UNCHANGED <<sent, got, wire, queue>>
        /\ inHand' = <<>>
    BY DEF EndSession, channelVars
  <1>2. CASE inHand = <<>>
    <2>1. InTransit' = InTransit
      BY <1>1, <1>2 DEF InTransit
    <2>2. InTransit \in Seq(Nat)
      BY PartsTyped
    <2>3. \E k \in 0 .. Len(InTransit) : InTransit = SubSeq(InTransit, k + 1, Len(InTransit))
      BY <2>2, KeepAll
    <2> QED BY <1>1, <2>1, <2>3
  <1>3. CASE wire = <<>>
    <2>1. wire \o inHand \in Seq(Nat) /\ queue \in Seq(Nat)
      BY PartsTyped
    <2>2. (wire \o inHand)' = <<>>
      BY <1>1, <1>3, EmptySeq, ConcatEmptySeq
    <2>3. InTransit' = queue
      BY <1>1, <2>1, <2>2, ConcatEmptySeq DEF InTransit
    <2>4. \E k \in 0 .. Len(InTransit) : queue = SubSeq(InTransit, k + 1, Len(InTransit))
      BY <2>1, DropPrefix DEF InTransit
    <2> QED BY <1>1, <2>3, <2>4
  <1>4. inHand = <<>> \/ wire = <<>>
    BY DEF IInv, QueueBounded, LinkInv
  <1> QED BY <1>2, <1>3, <1>4

\* What is lost with the wire is the oldest under way.
LEMMA ClearWireLoses ==
  ASSUME IInv, wire' = <<>>, UNCHANGED <<inHand, queue>>
  PROVE  \E k \in 0 .. Len(InTransit) : InTransit' = SubSeq(InTransit, k + 1, Len(InTransit))
  <1> DEFINE rest == inHand \o queue
  <1>1. wire \in Seq(Nat) /\ inHand \in Seq(Nat) /\ queue \in Seq(Nat) /\ rest \in Seq(Nat)
    BY PartsTyped, ConcatProperties
  <1>2. InTransit = wire \o rest
    <2>1. (wire \o inHand) \o queue = wire \o (inHand \o queue)
      <3>1. wire \in Seq(Nat) /\ inHand \in Seq(Nat) /\ queue \in Seq(Nat)
        BY <1>1
      <3> QED BY <3>1, ConcatNat
    <2> QED BY <2>1 DEF InTransit
  <1>3. InTransit' = rest
    BY <1>1, ConcatEmptySeq DEF InTransit
  <1> QED BY <1>1, <1>2, <1>3, DropPrefix

\* The beginning of a sequence is what is left when its rest is dropped.
LEMMA DropSuffix ==
  ASSUME NEW s \in Seq(Nat), NEW t \in Seq(Nat)
  PROVE  \E k \in 0 .. Len(s \o t) : s = SubSeq(s \o t, 1, k)
  <1> DEFINE c == s \o t
             b == SubSeq(c, 1, Len(s))
  <1>1. /\ Len(s) \in Nat /\ Len(t) \in Nat /\ Len(c) = Len(s) + Len(t)
        /\ \A i \in 1 .. Len(s) : c[i] = s[i] /\ s[i] \in Nat
        /\ c \in Seq(Nat)
    BY LenProperties, ConcatProperties, ElementOfSeq
  <1>2. b = s
    <2>1. \A i \in 1 .. Len(s) : c[i] \in Nat
      BY <1>1
    <2>2. /\ b \in Seq(Nat)
          /\ Len(b) = IF 1 <= Len(s) THEN Len(s) - 1 + 1 ELSE 0
          /\ \A i \in 1 .. Len(s) - 1 + 1 : b[i] = c[1 + i - 1]
      BY <1>1, <2>1, SubSeqProperties
    <2> HIDE DEF b, c
    <2>3. Len(b) = Len(s)
      BY <1>1, <2>2
    <2>4. ASSUME NEW i \in 1 .. Len(s) PROVE b[i] = s[i]
      <3>1. i \in 1 .. Len(s) - 1 + 1 /\ 1 + i - 1 = i
        BY <1>1
      <3>2. b[i] = c[1 + i - 1]
        BY <2>2, <3>1
      <3> QED BY <1>1, <3>1, <3>2
    <2> QED BY <2>2, <2>3, <2>4, SeqEqual
  <1>3. Len(s) \in 0 .. Len(c)
    BY <1>1
  <1> QED BY <1>2, <1>3, Zenon

\* A panic leaves of what was under way what had been written.
LEMMA PanicCuts ==
  ASSUME IInv, HandleUnreadable
  PROVE  /\ InTransit' = wire
         /\ \E k \in 0 .. Len(InTransit) : wire = SubSeq(InTransit, 1, k)
  <1>1. inHand = <<>> /\ UNCHANGED <<wire, inHand>> /\ queue' = <<>>
    BY DEF HandleUnreadable, IInv, QueueBounded
  <1>2. wire \in Seq(Nat) /\ queue \in Seq(Nat) /\ wire \o <<>> = wire
    BY PartsTyped, ConcatEmptySeq
  <1>3. InTransit = wire \o queue /\ InTransit' = wire
    BY <1>1, <1>2 DEF InTransit
  <1> QED BY <1>2, <1>3, DropSuffix

\* Every step of the link is a step of the pipe or none of its business.
LEMMA PipeStep == IInv /\ [Next]_vars => [Pipe!Next]_(Pipe!vars)
  <1> SUFFICES ASSUME IInv, [Next]_vars
               PROVE  Pipe!Next \/ UNCHANGED Pipe!vars
    OBVIOUS
  <1> USE DEF Pipe!Next, Pipe!vars
  <1> DEFINE Lost == /\ \E k \in 0 .. Len(InTransit) :
                          InTransit' = SubSeq(InTransit, k + 1, Len(InTransit))
                     /\ link' = "up" => link # "up" /\ ~Dead
                     /\ UNCHANGED <<sent, got>>
                     /\ UNCHANGED Dead
             Same == UNCHANGED <<sent, got, InTransit, link, Dead>>
  <1>1. Lost => Pipe!Next
    BY DEF Pipe!Relink, InTransit
  <1>2. Same => UNCHANGED Pipe!vars
    BY DEF InTransit
  <1>3. Push /\ ~Dead /\ UNCHANGED <<wire, inHand, got, link, Dead>> => Pipe!Next
    BY PushAppends DEF Pipe!Put, InTransit, Push
  <1>4. UNCHANGED <<sent, got, wire, inHand, queue, link, Dead>> => Same
    BY DEF InTransit
  <1> HIDE DEF Lost, Same
  <1> USE DEF Dead
  <1> USE DEF vars, socketVars, statusVars, channelVars, senderVars, hubVars
  <1>5. CASE UNCHANGED vars
    <2>1. UNCHANGED <<sent, got, wire, inHand, queue, link, Dead>>
      BY <1>5
    <2> QED BY <1>2, <1>4, <2>1
  <1>6. CASE Wake \/ AuthOk \/ RequestState \/ Tick \/ TickReturns \/ ReadEvents
             \/ BatchDone \/ HandlePublish \/ StartHandler \/ WriteUsers \/ CheckBots
    <2>1. UNCHANGED <<sent, got, wire, inHand, queue, link>>
      BY <1>6 DEF Wake, AuthOk, RequestState, Tick, TickReturns, ReadEvents,
         BatchDone, HandlePublish, StartHandler, WriteUsers, CheckBots, NextFrame
    <2>2. ~Dead /\ ~Dead'
      BY <1>6 DEF Wake, AuthOk, RequestState, Tick, TickReturns, ReadEvents,
         BatchDone, HandlePublish, StartHandler, WriteUsers, CheckBots, NextFrame, WaitsFor
    <2>3. UNCHANGED Dead
      BY <2>2
    <2> QED BY <1>2, <1>4, <2>1, <2>3
  <1>7. CASE ConnectFails \/ AuthFails \/ RequestFails \/ ReadEnds \/ WriteFails
             \/ HandleOversize
    <2>1. PICK how \in {"ok", "err"} : EndSession(how)
      BY <1>7 DEF ConnectFails, AuthFails, RequestFails, ReadEnds, WriteFails,
                  HandleOversize
    <2>2. (phase = "writing" => link = "none") /\ ~Dead
      BY <1>7 DEF ConnectFails, AuthFails, RequestFails, ReadEnds, WriteFails,
                  HandleOversize
    <2>3. ~Dead'
      BY <2>1 DEF EndSession
    <2> QED BY <1>1, <2>1, <2>2, <2>3, EndSessionLoses DEF Lost
  <1>8. CASE Connect
    <2>1. link # "up" /\ ~Dead /\ ~Dead'
      BY <1>8 DEF Connect, IInv, LinkInv
    <2> QED BY <1>1, <1>8, <2>1, ClearWireLoses DEF Connect, Lost
  <1>9. CASE RecvCommand
    BY <1>2, <1>9, RecvKeeps DEF RecvCommand, Same
  <1>10. CASE WriteCommand
    BY <1>2, <1>10, WriteKeeps DEF WriteCommand, Same
  <1>11. CASE SendOwn
    BY <1>3, <1>11 DEF SendOwn, NextFrame
  <1>12. CASE \E p \in Senders : SenderStep(p)
    <2> PICK p \in Senders : SenderStep(p)
      BY <1>12
    <2>1. CASE SendReturns(p)
      <3>1. CASE Dead
        BY <1>2, <1>4, <2>1, <3>1 DEF SendReturns
      <3>2. CASE ~Dead
        BY <1>3, <2>1, <3>2 DEF SendReturns
      <3> QED BY <3>1, <3>2
    <2>2. CASE TakeLock(p) \/ StartSend(p) \/ DropLock(p)
      BY <1>2, <1>4, <2>2 DEF TakeLock, StartSend, DropLock
    <2> QED BY <2>1, <2>2 DEF SenderStep
  <1>13. CASE AskBots \/ WriteBots
    BY <1>2, <1>4, <1>13 DEF AskBots, WriteBots
  <1>14. CASE HubReads
    <2>1. Pipe!Take
      BY <1>14, ReadTakes DEF HubReads, Pipe!Take, InTransit
    <2> QED BY <2>1
  <1>15. CASE HubCloses
    BY <1>1, <1>15, ClearWireLoses DEF HubCloses, Lost
  <1>16. CASE HandleUnreadable
    <2>1. InTransit' = wire /\ (\E k \in 0 .. Len(InTransit) : wire = SubSeq(InTransit, 1, k))
      BY <1>16, PanicCuts
    <2> QED BY <1>16, <2>1 DEF HandleUnreadable, Pipe!Break, InTransit
  <1> QED BY <1>5, <1>6, <1>7, <1>8, <1>9, <1>10, <1>11, <1>12, <1>13, <1>14, <1>15,
             <1>16
          DEF Next, SocketStep

\* The socket task, its channel and the senders implement the command pipe: no
\* reordering, no duplicate, and no loss while the connection is up.
THEOREM ImplementsPipe == Spec => PipeSpec
  <1>1. Init => Pipe!Init
    <2> SUFFICES ASSUME Init PROVE Pipe!Init
      OBVIOUS
    <2>1. wire \o inHand \o queue = <<>>
      BY EmptySeq, ConcatEmptySeq DEF Init
    <2> QED BY <2>1 DEF Init, Pipe!Init, Dead
  <1> QED BY <1>1, PipeStep, Inductive, PTL DEF Spec, PipeSpec, Pipe!Spec

--------------------------------------------------------------------------------
(* The wedges.                                                                *)

\* No action leads out of the wedge.
LEMMA WedgeStep == IInv /\ [Next]_vars /\ Wedged => Wedged'
  <1> SUFFICES ASSUME IInv, [Next]_vars, Wedged PROVE Wedged'
    OBVIOUS
  <1>1. /\ phase \in {"send", "users", "bots"}
        /\ Full
        /\ phase = "users" => UsersRead # {}
        /\ phase = "bots" => wantBots /\ BotsRead # {}
    BY DEF Wedged, SendWedge, UsersWedge, BotsWedge, UsersRead, BotsRead
  <1>2. ~HasRoom /\ ~Push
    BY <1>1 DEF Full, HasRoom, Push, IInv, TypeOK
  <1>3. ~SocketStep
    BY <1>1, <1>2 DEF SocketStep, Wake, Connect, ConnectFails, AuthOk, AuthFails,
       RequestState, RequestFails, Tick, TickReturns, ReadEvents, ReadEnds, RecvCommand,
       WriteCommand, WriteFails, BatchDone, HandleOversize, HandlePublish, HandleUnreadable,
       StartHandler, WriteUsers, CheckBots, SendOwn
  <1>4. ASSUME NEW p \in Senders, SenderStep(p)
        PROVE  /\ UNCHANGED <<phase, queue, wantBots>>
               /\ \A q \in Senders : pc[q] = "sending" => pc'[q] = "sending"
    BY <1>1, <1>2, <1>4 DEF SenderStep, TakeLock, StartSend, SendReturns, DropLock, IInv,
       TypeOK, socketVars, channelVars, Locking
  <1>5. CASE \E p \in Senders : SenderStep(p)
    BY <1>4, <1>5 DEF Wedged, SendWedge, UsersWedge, BotsWedge, Full
  <1>6. CASE AskBots \/ HubReads \/ HubCloses \/ UNCHANGED vars
    BY <1>6 DEF AskBots, HubReads, HubCloses, vars, socketVars, channelVars, senderVars,
       Wedged, SendWedge, UsersWedge, BotsWedge, Full
  <1>7. CASE WriteBots
    BY <1>1, <1>7 DEF WriteBots, socketVars, channelVars, Wedged, SendWedge, UsersWedge,
       BotsWedge, Full
  <1> QED BY <1>3, <1>5, <1>6, <1>7 DEF Next

\* A wedged gateway stays wedged, whatever its other tasks and the hub do and
\* however large the channel is.
THEOREM WedgeStays == Spec => WedgeIsForever
  <1>1. IInv /\ [Next]_vars => [Wedged => Wedged']_vars
    BY WedgeStep
  <1> QED BY <1>1, Inductive, PTL DEF Spec, WedgeIsForever

(***************************************************************************)
(* The order of what the hub reads follows from the pipe's own theorem.    *)
(***************************************************************************)
PipeTheory == INSTANCE CommandPipeProofs
    WITH pipe <- wire \o inHand \o queue, up <- (link = "up"), broken <- Dead

\* What the hub reads is in the order the channel accepted it, without
\* duplicates, across any number of reconnections.
THEOREM HubReadsInOrder == Spec => []Pipe!InOrderAtMostOnce
  <1> USE DEF PipeTheory!vars, Pipe!vars, PipeTheory!Increasing, Pipe!Increasing
  <1>1. Pipe!Init => PipeTheory!Init
    BY DEF PipeTheory!Init, Pipe!Init
  <1>2. [Pipe!Next]_(Pipe!vars) => [PipeTheory!Next]_(PipeTheory!vars)
    BY DEF PipeTheory!Next, Pipe!Next, PipeTheory!Put, Pipe!Put, PipeTheory!Take,
           Pipe!Take, PipeTheory!Relink, Pipe!Relink, PipeTheory!Break, Pipe!Break
  <1>3. PipeTheory!InOrderAtMostOnce => Pipe!InOrderAtMostOnce
    BY DEF PipeTheory!InOrderAtMostOnce, Pipe!InOrderAtMostOnce
  <1> HIDE DEF PipeTheory!vars, Pipe!vars
  <1>4. PipeTheory!Spec => []PipeTheory!InOrderAtMostOnce
    BY PipeTheory!PipeOrder
  <1>5. Spec => Pipe!Spec
    BY ImplementsPipe DEF PipeSpec
  <1> QED BY <1>1, <1>2, <1>3, <1>4, <1>5, PTL DEF PipeTheory!Spec, Pipe!Spec
================================================================================
