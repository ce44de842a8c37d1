----------------------------- MODULE PresenceProofs -----------------------------
(***************************************************************************)
(* Proofs about Presence, for any users, moderators and bounds: types,     *)
(* that the user map follows the hub, and that the sessions do.  Both      *)
(* follow it through queues; the invariants say of each user what the last *)
(* event about it in a queue will come to (After), and that no one enters  *)
(* twice (Fit).                                                            *)
(***************************************************************************)
EXTENDS Presence, TLAPS, SequenceTheorems, WellFoundedInduction

USE PresenceAssumption

--------------------------------------------------------------------------------
(* What a sequence of verdicts on a user comes to.                          *)

Verdicts == {"in", "out", "none"}

\* A verdict on a user who was "in" or "out".
Step(was, v) == IF v = "none" THEN was ELSE v

AllNone(s) == \A i \in DOMAIN s : s[i] = "none"

LastIn(s) == \E i \in DOMAIN s : s[i] = "in" /\ \A j \in DOMAIN s : j > i => s[j] = "none"

\* The verdicts s on a user who was "in" or "out": the last one counts.
After(s, was) == IF AllNone(s) THEN was ELSE IF LastIn(s) THEN "in" ELSE "out"

\* No one enters who is in.
Fit(s, was) ==
    \A j \in DOMAIN s : s[j] = "in" =>
        /\ \A i \in DOMAIN s : i < j /\ s[i] = "in" =>
               \E k \in DOMAIN s : i < k /\ k < j /\ s[k] # "none"
        /\ was = "in" => \E k \in DOMAIN s : k < j /\ s[k] # "none"

\* One more verdict counts last.
LEMMA OneMore ==
  ASSUME NEW m \in Nat, NEW s, NEW t, NEW was,
         DOMAIN s = 1 .. m, DOMAIN t = 1 .. m + 1, \A i \in 1 .. m : t[i] = s[i],
         t[m + 1] \in Verdicts
  PROVE  After(t, was) = Step(After(s, was), t[m + 1])
  <1> DEFINE v == t[m + 1]
  <1>1. AllNone(t) <=> AllNone(s) /\ v = "none"
    BY DEF AllNone
  <1>2. v = "none" => (LastIn(t) <=> LastIn(s))
    BY DEF LastIn
  <1>3. v # "none" => (LastIn(t) <=> v = "in")
    BY DEF LastIn
  <1> QED BY <1>1, <1>2, <1>3 DEF After, Step, Verdicts

\* It fits when who enters was not in.
LEMMA OneMoreFits ==
  ASSUME NEW m \in Nat, NEW s, NEW t, NEW was,
         DOMAIN s = 1 .. m, DOMAIN t = 1 .. m + 1, \A i \in 1 .. m : t[i] = s[i],
         Fit(s, was), t[m + 1] = "in" => After(s, was) # "in"
  PROVE  Fit(t, was)
  <1> DEFINE v == t[m + 1]
  <1>1. ASSUME NEW j \in 1 .. m, t[j] = "in"
        PROVE  /\ \A i \in 1 .. m : i < j /\ t[i] = "in" =>
                      \E k \in 1 .. m : i < k /\ k < j /\ t[k] # "none"
               /\ was = "in" => \E k \in 1 .. m : k < j /\ t[k] # "none"
    BY <1>1 DEF Fit
  <1>2. ASSUME v = "in"
        PROVE  /\ \A i \in 1 .. m : t[i] = "in" => \E k \in 1 .. m : i < k /\ t[k] # "none"
               /\ was = "in" => \E k \in 1 .. m : t[k] # "none"
    <2>1. was = "in" => ~AllNone(s)
      BY <1>2 DEF After
    <2>2. ASSUME NEW i \in 1 .. m, s[i] = "in"
          PROVE  \E k \in 1 .. m : i < k /\ s[k] # "none"
      <3>1. ~AllNone(s) /\ ~LastIn(s)
        BY <1>2, <2>2 DEF After, AllNone
      <3> QED BY <2>2, <3>1 DEF LastIn
    <2> QED BY <2>1, <2>2 DEF AllNone
  <1>3. ASSUME NEW j \in 1 .. m + 1, t[j] = "in"
        PROVE  /\ \A i \in 1 .. m + 1 : i < j /\ t[i] = "in" =>
                      \E k \in 1 .. m + 1 : i < k /\ k < j /\ t[k] # "none"
               /\ was = "in" => \E k \in 1 .. m + 1 : k < j /\ t[k] # "none"
    BY <1>1, <1>2, <1>3
  <1> QED BY <1>3 DEF Fit

\* The first verdict taken.
LEMMA FirstTaken ==
  ASSUME NEW m \in Nat \ {0}, NEW s, NEW t, NEW was,
         DOMAIN s = 1 .. m, DOMAIN t = 1 .. m - 1, \A i \in 1 .. m - 1 : t[i] = s[i + 1],
         s[1] \in Verdicts
  PROVE  /\ After(s, was) = After(t, Step(was, s[1]))
         /\ Fit(s, was) => /\ s[1] = "in" => was # "in"
                           /\ Fit(t, Step(was, s[1]))
  <1>0. /\ \A i \in 1 .. m : i = 1 \/ (i - 1 \in 1 .. m - 1 /\ t[i - 1] = s[i])
        /\ \A i \in 1 .. m - 1 : i + 1 \in 1 .. m
        /\ 1 \in 1 .. m
    OBVIOUS
  <1>1. AllNone(s) <=> AllNone(t) /\ s[1] = "none"
    BY <1>0 DEF AllNone
  <1>2. ASSUME ~AllNone(t) PROVE LastIn(s) <=> LastIn(t)
    <2>1. ASSUME NEW i \in 1 .. m, s[i] = "in", \A j \in 1 .. m : j > i => s[j] = "none"
          PROVE  LastIn(t)
      <3>1. i # 1
        BY <1>0, <1>2, <2>1 DEF AllNone
      <3>2. i - 1 \in 1 .. m - 1 /\ t[i - 1] = "in"
        BY <1>0, <2>1, <3>1
      <3>3. \A j \in 1 .. m - 1 : j > i - 1 => t[j] = "none"
        BY <1>0, <2>1
      <3> QED BY <3>2, <3>3 DEF LastIn
    <2>2. ASSUME NEW i \in 1 .. m - 1, t[i] = "in", \A j \in 1 .. m - 1 : j > i => t[j] = "none"
          PROVE  LastIn(s)
      <3>1. i + 1 \in 1 .. m /\ s[i + 1] = "in"
        BY <1>0, <2>2
      <3>2. \A j \in 1 .. m : j > i + 1 => s[j] = "none"
        BY <1>0, <2>2
      <3> QED BY <3>1, <3>2 DEF LastIn
    <2> QED BY <2>1, <2>2 DEF LastIn
  <1>3. ASSUME AllNone(t) PROVE LastIn(s) <=> s[1] = "in"
    <2>1. \A i \in 1 .. m : i = 1 \/ s[i] = "none"
      BY <1>0, <1>3 DEF AllNone
    <2>2. \A j \in 1 .. m : j > 1 => j # 1
      OBVIOUS
    <2> QED BY <1>0, <2>1, <2>2 DEF LastIn
  <1>4. After(s, was) = After(t, Step(was, s[1]))
    BY <1>1, <1>2, <1>3 DEF After, Step, Verdicts
  <1>5. ASSUME Fit(s, was) PROVE (s[1] = "in" => was # "in") /\ Fit(t, Step(was, s[1]))
    <2>1. s[1] = "in" => was # "in"
      BY <1>0, <1>5 DEF Fit
    <2>2. ASSUME NEW j \in 1 .. m - 1, t[j] = "in", NEW i \in 1 .. m - 1, i < j, t[i] = "in"
          PROVE  \E k \in 1 .. m - 1 : i < k /\ k < j /\ t[k] # "none"
      <3>1. s[j + 1] = "in" /\ s[i + 1] = "in" /\ i + 1 < j + 1
            /\ i + 1 \in 1 .. m /\ j + 1 \in 1 .. m
        BY <2>2
      <3>2. PICK k \in 1 .. m : i + 1 < k /\ k < j + 1 /\ s[k] # "none"
        BY <1>5, <3>1 DEF Fit
      <3>3. k - 1 \in 1 .. m - 1 /\ i < k - 1 /\ k - 1 < j /\ t[k - 1] = s[k]
        BY <2>2, <3>2, <1>0
      <3> QED BY <3>2, <3>3
    <2>3. ASSUME NEW j \in 1 .. m - 1, t[j] = "in", Step(was, s[1]) = "in"
          PROVE  \E k \in 1 .. m - 1 : k < j /\ t[k] # "none"
      <3>1. s[j + 1] = "in" /\ j + 1 \in 1 .. m /\ 1 < j + 1
        BY <2>3
      <3>2. PICK k \in 1 .. m : 1 < k /\ k < j + 1 /\ s[k] # "none"
        <4>1. CASE s[1] = "in"
          <5>1. \A i \in 1 .. m : i < j + 1 /\ s[i] = "in" =>
                    \E k \in 1 .. m : i < k /\ k < j + 1 /\ s[k] # "none"
            BY <1>5, <3>1 DEF Fit
          <5> QED BY <1>0, <3>1, <4>1, <5>1
        <4>2. CASE s[1] = "none" /\ was = "in"
          <5>1. PICK k \in 1 .. m : k < j + 1 /\ s[k] # "none"
            BY <1>5, <3>1, <4>2 DEF Fit
          <5>2. k # 1 /\ 1 < k
            BY <4>2, <5>1
          <5> QED BY <5>1, <5>2
        <4> QED BY <2>3, <4>1, <4>2 DEF Step
      <3>3. k - 1 \in 1 .. m - 1 /\ k - 1 < j /\ t[k - 1] = s[k]
        BY <2>3, <3>2, <1>0
      <3> QED BY <3>2, <3>3
    <2>4. Fit(t, Step(was, s[1]))
      BY <2>2, <2>3 DEF Fit
    <2> QED BY <2>1, <2>4
  <1> QED BY <1>4, <1>5

\* A beginning without verdicts dropped.
LEMMA SilenceDropped ==
  ASSUME NEW m \in Nat, NEW d \in 0 .. m, NEW s, NEW t, NEW was,
         DOMAIN s = 1 .. m, DOMAIN t = 1 .. m - d, \A i \in 1 .. m - d : t[i] = s[i + d],
         \A i \in 1 .. d : s[i] = "none"
  PROVE  /\ After(s, was) = After(t, was)
         /\ Fit(s, was) => Fit(t, was)
  <1>0. /\ \A i \in 1 .. m : s[i] # "none" => (i - d \in 1 .. m - d /\ t[i - d] = s[i])
        /\ \A i \in 1 .. m - d : i + d \in 1 .. m
    <2>1. ASSUME NEW i \in 1 .. m, s[i] # "none" PROVE i - d \in 1 .. m - d /\ t[i - d] = s[i]
      <3>1. i > d
        BY <2>1
      <3> QED BY <3>1
    <2> QED BY <2>1
  <1>1. AllNone(s) <=> AllNone(t)
    BY <1>0 DEF AllNone
  <1>2. LastIn(s) => LastIn(t)
    <2> SUFFICES ASSUME NEW i \in 1 .. m, s[i] = "in", \A j \in 1 .. m : j > i => s[j] = "none"
                 PROVE  LastIn(t)
      BY DEF LastIn
    <2>1. i - d \in 1 .. m - d /\ t[i - d] = "in"
      BY <1>0
    <2>2. \A j \in 1 .. m - d : j > i - d => t[j] = "none"
      BY <1>0
    <2> QED BY <2>1, <2>2 DEF LastIn
  <1>3. LastIn(t) => LastIn(s)
    <2> SUFFICES ASSUME NEW i \in 1 .. m - d, t[i] = "in",
                        \A j \in 1 .. m - d : j > i => t[j] = "none"
                 PROVE  LastIn(s)
      BY DEF LastIn
    <2>1. i + d \in 1 .. m /\ s[i + d] = "in"
      BY <1>0
    <2>2. \A j \in 1 .. m : j > i + d => s[j] = "none"
      BY <1>0
    <2> QED BY <2>1, <2>2 DEF LastIn
  <1>4. ASSUME Fit(s, was) PROVE Fit(t, was)
    <2>1. ASSUME NEW j \in 1 .. m - d, t[j] = "in", NEW i \in 1 .. m - d, i < j, t[i] = "in"
          PROVE  \E k \in 1 .. m - d : i < k /\ k < j /\ t[k] # "none"
      <3>1. PICK k \in 1 .. m : i + d < k /\ k < j + d /\ s[k] # "none"
        <4>1. s[j + d] = "in" /\ s[i + d] = "in" /\ i + d < j + d
              /\ i + d \in 1 .. m /\ j + d \in 1 .. m
          BY <1>0, <2>1
        <4> QED BY <1>4, <4>1 DEF Fit
      <3>2. k - d \in 1 .. m - d /\ i < k - d /\ k - d < j /\ t[k - d] = s[k]
        BY <1>0, <2>1, <3>1
      <3> QED BY <3>1, <3>2
    <2>2. ASSUME NEW j \in 1 .. m - d, t[j] = "in", was = "in"
          PROVE  \E k \in 1 .. m - d : k < j /\ t[k] # "none"
      <3>1. PICK k \in 1 .. m : k < j + d /\ s[k] # "none"
        <4>1. s[j + d] = "in" /\ j + d \in 1 .. m
          BY <1>0, <2>2
        <4> QED BY <1>4, <2>2, <4>1 DEF Fit
      <3>2. k - d \in 1 .. m - d /\ k - d < j /\ t[k - d] = s[k]
        BY <1>0, <2>2, <3>1
      <3> QED BY <3>1, <3>2
    <2> QED BY <2>1, <2>2 DEF Fit
  <1> QED BY <1>1, <1>2, <1>3, <1>4 DEF After

\* Who was out rather than in is in after it only if he would have been.
LEMMA OutFits ==
  ASSUME NEW s, NEW was, NEW now, now = "in" => was = "in"
  PROVE  /\ Fit(s, was) => Fit(s, now)
         /\ After(s, now) = "in" => After(s, was) = "in"
  BY DEF Fit, After

--------------------------------------------------------------------------------
(* Types.                                                                   *)

BusEvents == [type : {"user_join", "user_quit"}, nick : Nicks] \cup {Tick}

AtWork == [type : {"user_join", "open", "kick", "user_quit"}, nick : Nicks] \cup {NoEvent, Tick}

ModWork ==
    {Idle} \cup [step : {"look", "kick"}, nick : Nicks]
        \cup [step : {"delete"}, nick : Nicks, ban : BanRecords]

HubType ==
    /\ up \in BOOLEAN /\ asked \in BOOLEAN
    /\ online \subseteq Nicks /\ informed \subseteq online
    /\ logins \in 0 .. MaxLogins
    /\ inbox \in Seq(Events)
    /\ unseen \subseteq Nicks

ProcType ==
    /\ users \subseteq Nicks
    /\ todo \in Seq(BusEvents)
    /\ proc \in AtWork
    /\ sessions \in [Nicks -> Nat]
    /\ faults \in 0 .. MaxFaults

ModType ==
    /\ bans \subseteq BanRecords
    /\ banId \in 0 .. MaxBans
    /\ mod \in [Mods -> ModWork]
    /\ kicks \in Seq(Nicks)

Types == HubType /\ ProcType /\ ModType

\* Among the bans of a nick there is a latest one.
LEMMA LatestBan ==
  ASSUME ModType, NEW n \in Nicks, Banned(n)
  PROVE  ActiveBan(n) \in bans /\ ActiveBan(n).nick = n
  <1> DEFINE Ages == {MaxBans - b.id : b \in {c \in bans : c.nick = n}}
  <1>1. \A b \in bans : b.id \in 1 .. MaxBans
    BY DEF ModType, BanRecords
  <1>2. Ages \subseteq Nat /\ Ages # {}
    BY <1>1 DEF Banned
  <1>3. PICK x \in Ages : \A y \in Ages : ~(<<y, x>> \in OpToRel(<, Nat))
    BY <1>2, NatLessThanWellFounded, WFMin
  <1>4. PICK b \in bans : b.nick = n /\ x = MaxBans - b.id
    OBVIOUS
  <1>5. ASSUME NEW c \in bans, c.nick = n PROVE c.id <= b.id
    <2> DEFINE y == MaxBans - c.id
    <2>1. x \in Nat /\ y \in Nat /\ y \in Ages
      BY <1>2, <1>5
    <2> HIDE DEF Ages, y
    <2>2. y < x => <<y, x>> \in OpToRel(<, Nat)
      BY <2>1, Zenon DEF OpToRel
    <2>3. ~(y < x)
      BY <1>3, <2>1, <2>2, Zenon
    <2> QED BY <1>1, <1>4, <2>1, <2>3 DEF y
  <1> QED BY <1>4, <1>5 DEF ActiveBan

\* The next event of the inbox, of the type it has.
LEMMA InboxTyped ==
  ASSUME HubType, inbox # <<>>
  PROVE  /\ Head(inbox) \in Events /\ Tail(inbox) \in Seq(Events)
         /\ Head(inbox).type \in {"user_join", "user_quit"} => Head(inbox) \in BusEvents
         /\ Head(inbox).type \in {"user_join", "user_quit", "myinfo"} => Head(inbox).nick \in Nicks
         /\ Head(inbox).type = "user_list" => Head(inbox).users \subseteq Nicks
  <1>1. Head(inbox) \in Events /\ Tail(inbox) \in Seq(Events)
    BY HeadTailProperties DEF HubType
  <1> QED BY <1>1 DEF Events, BusEvents

\* What is told of, in the inbox or on the bus, is told of users.
LEMMA ToldTyped ==
  ASSUME NEW s, s \in Seq(Events) \/ s \in Seq(BusEvents)
  PROVE  Told(s) \subseteq Nicks
  <1>1. ASSUME NEW i \in DOMAIN s, s[i].type \in {"user_join", "user_quit"}
        PROVE  s[i].nick \in Nicks
    <2>1. CASE s \in Seq(Events)
      <3>1. s[i] \in Events
        BY <2>1, LenProperties, ElementOfSeq
      <3> QED BY <1>1, <3>1 DEF Events
    <2>2. CASE s \in Seq(BusEvents)
      <3>1. s[i] \in BusEvents
        BY <2>2, LenProperties, ElementOfSeq
      <3> QED BY <1>1, <3>1 DEF BusEvents, Tick
    <2> QED BY <2>1, <2>2
  <1> QED BY <1>1 DEF Told

\* A report is of an event.
LEMMA ReportTyped ==
  ASSUME HubType, NEW e \in Events, Report(e)
  PROVE  inbox' \in Seq(Events) /\ unseen' \subseteq Nicks
  <1>1. CASE up
    BY <1>1, AppendProperties DEF Report, HubType
  <1>2. CASE ~up
    <2>1. e.type \in {"user_join", "user_quit"} => e.nick \in Nicks
      BY DEF Events
    <2> QED BY <1>2, <2>1 DEF Report, HubType
  <1> QED BY <1>1, <1>2

\* A fault is counted.
LEMMA FaultTyped ==
  ASSUME ProcType, Fault
  PROVE  faults' \in 0 .. MaxFaults
  BY DEF ProcType, Fault

\* What is left of a sequence is a sequence.
LEMMA RestTyped ==
  ASSUME NEW S, NEW s \in Seq(S), NEW k \in 0 .. Len(s)
  PROVE  /\ Len(s) \in Nat /\ DOMAIN s = 1 .. Len(s)
         /\ SubSeq(s, k + 1, Len(s)) \in Seq(S)
         /\ DOMAIN SubSeq(s, k + 1, Len(s)) = 1 .. Len(s) - k
         /\ \A i \in 1 .. Len(s) - k : SubSeq(s, k + 1, Len(s))[i] = s[i + k]
         /\ SubSeq(s, 1, k) \in Seq(S)
         /\ DOMAIN SubSeq(s, 1, k) = 1 .. k
         /\ \A i \in 1 .. k : SubSeq(s, 1, k)[i] = s[i]
  <1>1. Len(s) \in Nat /\ DOMAIN s = 1 .. Len(s) /\ \A i \in 1 .. Len(s) : s[i] \in S
    BY LenProperties, ElementOfSeq
  <1> DEFINE t == SubSeq(s, k + 1, Len(s))
  <1>2. /\ t \in Seq(S) /\ Len(t) = IF k + 1 <= Len(s) THEN Len(s) - (k + 1) + 1 ELSE 0
        /\ \A i \in 1 .. Len(s) - (k + 1) + 1 : t[i] = s[(k + 1) + i - 1]
    <2>1. k + 1 \in Int /\ Len(s) \in Int /\ \A i \in k + 1 .. Len(s) : s[i] \in S
      BY <1>1
    <2> QED BY <2>1, SubSeqProperties
  <1> HIDE DEF t
  <1>3. DOMAIN t = 1 .. Len(s) - k /\ \A i \in 1 .. Len(s) - k : t[i] = s[i + k]
    <2>0. k \in Nat /\ Len(s) \in Nat /\ k <= Len(s)
      BY <1>1
    <2>1. Len(t) = Len(s) - k
      <3>1. CASE k + 1 <= Len(s)
        BY <1>2, <2>0, <3>1
      <3>2. CASE ~(k + 1 <= Len(s))
        BY <1>2, <2>0, <3>2
      <3> QED BY <3>1, <3>2
    <2>2. DOMAIN t = 1 .. Len(t)
      BY <1>2, LenProperties
    <2>3. ASSUME NEW i \in 1 .. Len(s) - k PROVE t[i] = s[i + k]
      <3>1. i \in 1 .. Len(s) - (k + 1) + 1 /\ (k + 1) + i - 1 = i + k
        BY <1>1
      <3> QED BY <1>2, <3>1
    <2> QED BY <2>1, <2>2, <2>3
  <1> DEFINE u == SubSeq(s, 1, k)
  <1>4. u \in Seq(S) /\ Len(u) = k /\ \A i \in 1 .. k : u[i] = s[1 + i - 1]
    BY <1>1, SubSeqProperties
  <1>5. DOMAIN u = 1 .. k /\ \A i \in 1 .. k : u[i] = s[i]
    BY <1>1, <1>4, LenProperties
  <1> QED BY <1>1, <1>2, <1>3, <1>4, <1>5 DEF t

\* The hub and the queues from it keep their types.
LEMMA HubTypeStep ==
  ASSUME Types, [Next]_vars
  PROVE  HubType'
  <1> USE DEF hubVars, socketVars, procVars, banVars, faultVars
  <1>0. HubType /\ ProcType /\ ModType
    BY DEF Types
  <1>1. ASSUME NEW n \in Nicks, HubLogin(n) PROVE HubType'
    <2>1. [type |-> "user_join", nick |-> n] \in Events
      BY DEF Events
    <2>2. inbox' \in Seq(Events) /\ unseen' \subseteq Nicks
      BY <1>0, <1>1, <2>1, ReportTyped DEF HubLogin
    <2>3. logins' \in 0 .. MaxLogins
      BY <1>0, <1>1 DEF HubLogin, HubType
    <2> QED BY <1>0, <1>1, <2>2, <2>3 DEF HubLogin, HubType
  <1>2. ASSUME NEW n \in Nicks, HubInfo(n) PROVE HubType'
    <2>1. [type |-> "myinfo", nick |-> n] \in Events
      BY DEF Events
    <2>2. inbox' \in Seq(Events) /\ unseen' \subseteq Nicks
      BY <1>0, <1>2, <2>1, ReportTyped DEF HubInfo
    <2> QED BY <1>0, <1>2, <2>2 DEF HubInfo, HubType
  <1>3. ASSUME NEW n \in Nicks, Leaves(n), UNCHANGED <<up, logins, asked>> PROVE HubType'
    <2>1. [type |-> "user_quit", nick |-> n] \in Events
      BY DEF Events
    <2>2. inbox' \in Seq(Events) /\ unseen' \subseteq Nicks
      BY <1>0, <1>3, <2>1, ReportTyped DEF Leaves
    <2> QED BY <1>0, <1>3, <2>2 DEF Leaves, HubType
  <1>4. ASSUME NEW n \in Nicks, HubQuit(n) PROVE HubType'
    BY <1>3, <1>4 DEF HubQuit
  <1>5. CASE HubKicks
    <2>1. Head(kicks) \in Nicks
      BY <1>0, <1>5, HeadTailProperties DEF HubKicks, ModType
    <2>2. UNCHANGED <<up, logins, asked>>
      BY <1>5 DEF HubKicks
    <2>3. CASE Head(kicks) \in online
      <3>1. Leaves(Head(kicks))
        BY <1>5, <2>3 DEF HubKicks
      <3> QED BY <1>3, <2>1, <2>2, <3>1
    <2>4. CASE Head(kicks) \notin online
      BY <1>0, <1>5, <2>4 DEF HubKicks, HubType
    <2> QED BY <2>3, <2>4
  <1>6. CASE HubLists
    <2>1. [type |-> "user_list", users |-> online] \in Events
      BY <1>0 DEF Events, HubType
    <2>2. inbox' \in Seq(Events)
      BY <1>0, <1>6, <2>1, AppendProperties DEF HubLists, HubType
    <2> QED BY <1>0, <1>6, <2>2 DEF HubLists, HubType
  <1>7. CASE LinkDown
    <2>1. PICK k \in 0 .. Len(kicks) :
              unseen' = unseen \cup Told(inbox) \cup {kicks[i] : i \in 1 .. k}
      BY <1>7 DEF LinkDown
    <2>2. \A i \in 1 .. k : kicks[i] \in Nicks
      BY <1>0, LenProperties, ElementOfSeq DEF ModType
    <2>3. unseen' \subseteq Nicks
      BY <1>0, <2>1, <2>2, ToldTyped DEF HubType
    <2>4. <<>> \in Seq(Events)
      BY EmptySeq
    <2> QED BY <1>0, <1>7, <2>3, <2>4 DEF LinkDown, HubType
  <1>8. CASE LinkUp \/ AskList
    BY <1>0, <1>8 DEF LinkUp, AskList, HubType
  <1>9. CASE SocketStep
    <2>1. /\ inbox # <<>> /\ inbox' = Tail(inbox)
          /\ UNCHANGED <<up, asked, online, informed, logins, unseen>>
      BY <1>9 DEF SocketStep, HandleJoin, HandleInfo, HandleQuit, HandleList, NextEvent
    <2>2. inbox' \in Seq(Events)
      BY <1>0, <2>1, InboxTyped
    <2> QED BY <1>0, <2>1, <2>2 DEF HubType
  <1>10. CASE Lag
    <2>1. PICK k \in 1 .. Len(todo) : unseen' = unseen \cup Told(SubSeq(todo, 1, k))
      BY <1>10 DEF Lag
    <2>2. todo \in Seq(BusEvents) /\ k \in 0 .. Len(todo)
      BY <1>0, LenProperties DEF ProcType
    <2>3. SubSeq(todo, 1, k) \in Seq(BusEvents)
      BY <2>2, RestTyped
    <2>4. unseen' \subseteq Nicks
      BY <1>0, <2>1, <2>3, ToldTyped DEF HubType
    <2> QED BY <1>0, <1>10, <2>4 DEF Lag, HubType
  <1>11. CASE OpenSession \/ CloseSessions
    <2>1. proc.nick \in Nicks
      BY <1>0, <1>11 DEF OpenSession, CloseSessions, ProcType, AtWork, NoEvent, Tick
    <2>2. unseen' \subseteq Nicks
      BY <1>0, <1>11, <2>1 DEF OpenSession, CloseSessions, HubType
    <2> QED BY <1>0, <1>11, <2>2 DEF OpenSession, CloseSessions, HubType
  <1>12. CASE PublishTick \/ Receive \/ CheckBan \/ KickAtJoin \/ Maintain \/ BanExpires
    BY <1>0, <1>12
       DEF PublishTick, Receive, CheckBan, KickAtJoin, Maintain, BanExpires, HubType
  <1>13. ASSUME NEW m \in Mods, NEW n \in Nicks, Ban(m, n) \/ KickUser(m, n) \/ Unban(m, n)
         PROVE  HubType'
    BY <1>0, <1>13 DEF Ban, KickUser, Unban, HubType
  <1>14. ASSUME NEW m \in Mods, ModStep(m) PROVE HubType'
    BY <1>0, <1>14 DEF ModStep, LookUp, Kick, DeleteBan, HubType
  <1>15. CASE UNCHANGED vars
    BY <1>0, <1>15 DEF vars, HubType
  <1> QED BY <1>1, <1>2, <1>4, <1>5, <1>6, <1>7, <1>8, <1>9, <1>10, <1>11, <1>12, <1>13, <1>14,
             <1>15 DEF Next, HubStep, ProcStep

\* So do the user map, the bus and the processor.
LEMMA ProcTypeStep ==
  ASSUME Types, [Next]_vars
  PROVE  ProcType'
  <1> USE DEF hubVars, socketVars, procVars, banVars, faultVars
  <1>0. HubType /\ ProcType /\ ModType
    BY DEF Types
  <1>1. ASSUME UNCHANGED <<users, todo, proc, sessions>>, faults' = faults \/ Fault
        PROVE  ProcType'
    BY <1>0, <1>1, FaultTyped DEF ProcType
  <1>2. ASSUME NEW n \in Nicks, HubLogin(n) \/ HubInfo(n) \/ HubQuit(n) PROVE ProcType'
    BY <1>1, <1>2 DEF HubLogin, HubInfo, HubQuit
  <1>3. CASE HubLists \/ HubKicks \/ LinkDown \/ LinkUp \/ AskList
    BY <1>1, <1>3 DEF HubLists, HubKicks, LinkDown, LinkUp, AskList
  <1>4. CASE HandleJoin \/ HandleQuit
    <2>1. Head(inbox) \in BusEvents /\ todo' = Append(todo, Head(inbox))
      BY <1>0, <1>4, InboxTyped DEF HandleJoin, HandleQuit, NextEvent
    <2>2. todo' \in Seq(BusEvents)
      BY <1>0, <2>1, AppendProperties DEF ProcType
    <2> QED BY <1>0, <1>4, <2>2 DEF HandleJoin, HandleQuit, ProcType
  <1>5. CASE HandleInfo \/ HandleList
    <2>1. users' \subseteq Nicks
      BY <1>0, <1>5, InboxTyped DEF HandleInfo, HandleList, NextEvent, ProcType
    <2> QED BY <1>0, <1>5, <2>1 DEF HandleInfo, HandleList, ProcType
  <1>6. CASE PublishTick
    <2>1. todo' \in Seq(BusEvents)
      BY <1>0, <1>6, AppendProperties DEF PublishTick, ProcType, BusEvents
    <2> QED BY <1>0, <1>6, <2>1 DEF PublishTick, ProcType
  <1>7. CASE Lag
    <2>1. PICK k \in 1 .. Len(todo) : todo' = SubSeq(todo, k + 1, Len(todo))
      BY <1>7 DEF Lag
    <2>2. todo \in Seq(BusEvents) /\ k \in 0 .. Len(todo)
      BY <1>0, LenProperties DEF ProcType
    <2>3. todo' \in Seq(BusEvents) /\ faults' \in 0 .. MaxFaults
      BY <1>0, <1>7, <2>1, <2>2, RestTyped, FaultTyped DEF Lag
    <2> QED BY <1>0, <1>7, <2>3 DEF Lag, ProcType
  <1>8. CASE Receive
    <2>1. Head(todo) \in BusEvents /\ Tail(todo) \in Seq(BusEvents)
      BY <1>0, <1>8, HeadTailProperties DEF Receive, ProcType
    <2>2. Head(todo) \in AtWork
      BY <2>1 DEF BusEvents, AtWork
    <2> QED BY <1>0, <1>8, <2>1, <2>2 DEF Receive, ProcType
  <1>9. CASE CheckBan
    <2>1. proc \in [type : {"user_join", "open", "kick", "user_quit"}, nick : Nicks]
      BY <1>0, <1>9 DEF CheckBan, ProcType, AtWork, NoEvent, Tick
    <2>2. proc' \in AtWork
      BY <1>9, <2>1 DEF CheckBan, AtWork
    <2>3. faults' \in 0 .. MaxFaults
      BY <1>0, <1>9, FaultTyped DEF CheckBan, ProcType
    <2> QED BY <1>0, <1>9, <2>2, <2>3 DEF CheckBan, ProcType
  <1>10. CASE KickAtJoin \/ Maintain
    BY <1>0, <1>10 DEF KickAtJoin, Maintain, ProcType, AtWork
  <1>11. CASE OpenSession \/ CloseSessions
    <2>1. proc' \in AtWork
      BY <1>11 DEF OpenSession, CloseSessions, AtWork
    <2>2. sessions' \in [Nicks -> Nat]
      BY <1>0, <1>11 DEF OpenSession, CloseSessions, ProcType
    <2>3. faults' \in 0 .. MaxFaults
      BY <1>0, <1>11, FaultTyped DEF OpenSession, CloseSessions, ProcType
    <2> QED BY <1>0, <1>11, <2>1, <2>2, <2>3 DEF OpenSession, CloseSessions, ProcType
  <1>12. ASSUME NEW m \in Mods, NEW n \in Nicks, Ban(m, n) \/ KickUser(m, n) \/ Unban(m, n)
         PROVE  ProcType'
    BY <1>1, <1>12 DEF Ban, KickUser, Unban
  <1>13. ASSUME NEW m \in Mods, ModStep(m) PROVE ProcType'
    BY <1>1, <1>13 DEF ModStep, LookUp, Kick, DeleteBan
  <1>14. CASE BanExpires \/ UNCHANGED vars
    BY <1>1, <1>14 DEF BanExpires, vars
  <1> QED BY <1>2, <1>3, <1>4, <1>5, <1>6, <1>7, <1>8, <1>9, <1>10, <1>11, <1>12, <1>13, <1>14
          DEF Next, HubStep, SocketStep, ProcStep

\* So do the bans, the moderators and the kicks.
LEMMA ModTypeStep ==
  ASSUME Types, [Next]_vars
  PROVE  ModType'
  <1> USE DEF hubVars, socketVars, procVars, banVars, faultVars
  <1>0. HubType /\ ProcType /\ ModType
    BY DEF Types
  <1>1. ASSUME NEW n \in Nicks, SendKick(n) PROVE kicks' \in Seq(Nicks)
    BY <1>0, <1>1, AppendProperties DEF SendKick, ModType
  <1>2. ASSUME UNCHANGED <<bans, banId, mod, kicks>> PROVE ModType'
    BY <1>0, <1>2 DEF ModType
  <1>3. CASE HubKicks
    BY <1>0, <1>3, HeadTailProperties DEF HubKicks, ModType
  <1>4. CASE LinkDown
    <2>1. PICK k \in 0 .. Len(kicks) : kicks' = SubSeq(kicks, k + 1, Len(kicks))
      BY <1>4 DEF LinkDown
    <2>2. kicks' \in Seq(Nicks)
      BY <1>0, <2>1, RestTyped DEF ModType
    <2> QED BY <1>0, <1>4, <2>2 DEF LinkDown, ModType
  <1>5. CASE KickAtJoin
    <2>1. proc.nick \in Nicks
      BY <1>0, <1>5 DEF KickAtJoin, ProcType, AtWork, NoEvent, Tick
    <2> QED BY <1>0, <1>1, <1>5, <2>1 DEF KickAtJoin, ModType
  <1>6. CASE BanExpires
    BY <1>0, <1>6 DEF BanExpires, ModType
  <1>7. ASSUME NEW m \in Mods, NEW n \in Nicks, Ban(m, n) PROVE ModType'
    <2>1. banId' \in 0 .. MaxBans /\ [nick |-> n, id |-> banId + 1] \in BanRecords
      BY <1>0, <1>7 DEF Ban, CreateBan, ModType, BanRecords
    <2>2. bans' \subseteq BanRecords
      BY <1>0, <1>7, <2>1 DEF Ban, CreateBan, ModType
    <2>3. mod' \in [Mods -> ModWork]
      BY <1>0, <1>7 DEF Ban, ModType, ModWork
    <2> QED BY <1>0, <1>7, <2>1, <2>2, <2>3 DEF Ban, ModType
  <1>8. ASSUME NEW m \in Mods, NEW n \in Nicks, KickUser(m, n) PROVE ModType'
    BY <1>0, <1>8 DEF KickUser, ModType, ModWork
  <1>9. ASSUME NEW m \in Mods, NEW n \in Nicks, Unban(m, n) PROVE ModType'
    <2>1. ActiveBan(n) \in BanRecords
      BY <1>0, <1>9, LatestBan DEF Unban, ModType
    <2>2. mod' \in [Mods -> ModWork]
      BY <1>0, <1>9, <2>1 DEF Unban, ModType, ModWork
    <2> QED BY <1>0, <1>9, <2>2 DEF Unban, ModType
  <1>10. ASSUME NEW m \in Mods, LookUp(m) PROVE ModType'
    <2>1. mod[m] \in [step : {"look", "kick"}, nick : Nicks]
      BY <1>0, <1>10 DEF LookUp, ModType, ModWork, Idle
    <2>2. [mod[m] EXCEPT !.step = "kick"] \in ModWork /\ Idle \in ModWork
      BY <2>1 DEF ModWork
    <2>3. mod' = [mod EXCEPT ![m] = IF mod[m].nick \in users
                                    THEN [mod[m] EXCEPT !.step = "kick"] ELSE Idle]
      BY <1>10 DEF LookUp
    <2>4. mod' \in [Mods -> ModWork]
      BY <1>0, <2>2, <2>3 DEF ModType
    <2> QED BY <1>0, <1>10, <2>4 DEF LookUp, ModType
  <1>11. ASSUME NEW m \in Mods, Kick(m) PROVE ModType'
    <2>1. mod[m].nick \in Nicks
      BY <1>0, <1>11 DEF Kick, ModType, ModWork, Idle
    <2>2. mod' \in [Mods -> ModWork]
      BY <1>0, <1>11 DEF Kick, ModType, ModWork
    <2> QED BY <1>0, <1>1, <1>11, <2>1, <2>2 DEF Kick, ModType
  <1>12. ASSUME NEW m \in Mods, DeleteBan(m) PROVE ModType'
    <2>1. mod' \in [Mods -> ModWork]
      BY <1>0, <1>12 DEF DeleteBan, ModType, ModWork
    <2> QED BY <1>0, <1>12, <2>1 DEF DeleteBan, ModType
  <1>13. ASSUME NEW n \in Nicks, HubLogin(n) \/ HubInfo(n) \/ HubQuit(n) PROVE ModType'
    BY <1>2, <1>13 DEF HubLogin, HubInfo, HubQuit
  <1>14. CASE \/ HubLists \/ LinkUp \/ AskList \/ SocketStep \/ PublishTick \/ Lag
              \/ Receive \/ CheckBan \/ OpenSession \/ CloseSessions \/ Maintain
              \/ UNCHANGED vars
    BY <1>2, <1>14
       DEF HubLists, LinkUp, AskList, SocketStep, HandleJoin, HandleInfo, HandleQuit, HandleList,
           PublishTick, Lag, Receive, CheckBan, OpenSession, CloseSessions, Maintain, vars
  <1> QED BY <1>3, <1>4, <1>5, <1>6, <1>7, <1>8, <1>9, <1>10, <1>11, <1>12, <1>13, <1>14
          DEF Next, HubStep, ProcStep, ModStep

\* The types hold in every behaviour.
LEMMA TypesAlways == Spec => []Types
  <1>1. Init => Types
    <2> SUFFICES ASSUME Init PROVE Types
      OBVIOUS
    <2>1. <<>> \in Seq(Events) /\ <<>> \in Seq(BusEvents) /\ <<>> \in Seq(Nicks)
      BY EmptySeq
    <2>2. HubType
      <3>1. up \in BOOLEAN /\ asked \in BOOLEAN
        BY DEF Init
      <3>2. /\ online \subseteq Nicks /\ informed \subseteq online /\ unseen \subseteq Nicks
            /\ logins \in 0 .. MaxLogins /\ inbox \in Seq(Events)
        BY <2>1 DEF Init
      <3> QED BY <3>1, <3>2 DEF HubType
    <2>3. ProcType
      BY <2>1 DEF Init, ProcType, AtWork
    <2>4. ModType
      BY <2>1 DEF Init, ModType, ModWork
    <2> QED BY <2>2, <2>3, <2>4 DEF Types
  <1>2. Types /\ [Next]_vars => Types'
    BY HubTypeStep, ProcTypeStep, ModTypeStep DEF Types
  <1> QED BY <1>1, <1>2, PTL DEF Spec

\* Every variable keeps its type, and the hub only has infos of users who are online.
THEOREM TypeCorrect == Spec => []TypeOK
  <1>1. Types => TypeOK
    BY DEF Types, HubType, ProcType, ModType, TypeOK, BusEvents, AtWork, ModWork
  <1> QED BY <1>1, TypesAlways, PTL

--------------------------------------------------------------------------------
(* The user map.                                                            *)

\* What an event of the hub says of a user's place in the map.
MapVerdict(e, n) ==
    IF e.type = "user_list" THEN IF n \in e.users THEN "in" ELSE "out"
    ELSE IF e.type = "myinfo" /\ e.nick = n THEN "in"
    ELSE IF e.type = "user_quit" /\ e.nick = n THEN "out"
    ELSE "none"

MapVerdicts(s, n) == [i \in DOMAIN s |-> MapVerdict(s[i], n)]

InMap(n) == IF n \in users THEN "in" ELSE "out"

\* Whether the map will have the user, once the inbox is handled.
Mapped(n) == After(MapVerdicts(inbox, n), InMap(n))

\* On a connection whose list has come, handled or not.
MapInv ==
    up /\ ~asked =>
        \A n \in Nicks : /\ n \in informed => Mapped(n) = "in"
                         /\ Mapped(n) = "in" => n \in online

\* The inbox is a sequence.
LEMMA InboxShape ==
  ASSUME Types
  PROVE  /\ Len(inbox) \in Nat /\ DOMAIN inbox = 1 .. Len(inbox)
         /\ \A e \in Events :
                inbox' = Append(inbox, e) =>
                    /\ DOMAIN inbox' = 1 .. Len(inbox) + 1
                    /\ \A i \in 1 .. Len(inbox) : inbox'[i] = inbox[i]
                    /\ inbox'[Len(inbox) + 1] = e
         /\ inbox # <<>> /\ inbox' = Tail(inbox) =>
                /\ Len(inbox) \in Nat \ {0}
                /\ DOMAIN inbox' = 1 .. Len(inbox) - 1
                /\ \A i \in 1 .. Len(inbox) - 1 : inbox'[i] = inbox[i + 1]
                /\ inbox[1] = Head(inbox)
  <1>1. inbox \in Seq(Events)
    BY DEF Types, HubType
  <1>2. Len(inbox) \in Nat /\ DOMAIN inbox = 1 .. Len(inbox)
    BY <1>1, LenProperties
  <1>3. ASSUME NEW e \in Events, inbox' = Append(inbox, e)
        PROVE  /\ DOMAIN inbox' = 1 .. Len(inbox) + 1
               /\ \A i \in 1 .. Len(inbox) : inbox'[i] = inbox[i]
               /\ inbox'[Len(inbox) + 1] = e
    <2>1. inbox' \in Seq(Events) /\ Len(inbox') = Len(inbox) + 1
      BY <1>1, <1>3, AppendProperties
    <2> QED BY <1>1, <1>2, <1>3, <2>1, AppendProperties, LenProperties
  <1>4. ASSUME inbox # <<>>, inbox' = Tail(inbox)
        PROVE  /\ Len(inbox) \in Nat \ {0}
               /\ DOMAIN inbox' = 1 .. Len(inbox) - 1
               /\ \A i \in 1 .. Len(inbox) - 1 : inbox'[i] = inbox[i + 1]
               /\ inbox[1] = Head(inbox)
    <2>1. inbox' \in Seq(Events) /\ Len(inbox') = Len(inbox) - 1
      BY <1>1, <1>4, HeadTailProperties
    <2>2. Len(inbox) \in Nat \ {0}
      BY <1>1, <1>2, <1>4, EmptySeq
    <2>3. inbox[1] = Head(inbox)
      BY <1>1, <1>4
    <2> QED BY <1>1, <1>2, <1>4, <2>1, <2>2, <2>3, HeadTailProperties, LenProperties
  <1> QED BY <1>2, <1>3, <1>4

\* A report is the last word on the user.
LEMMA ReportMaps ==
  ASSUME Types, NEW e \in Events, inbox' = Append(inbox, e), users' = users, NEW n
  PROVE  Mapped(n)' = Step(Mapped(n), MapVerdict(e, n))
  <1> DEFINE s == MapVerdicts(inbox, n)
             t == MapVerdicts(inbox', n)
             m == Len(inbox)
  <1>1. /\ m \in Nat /\ DOMAIN inbox = 1 .. m /\ DOMAIN inbox' = 1 .. m + 1
        /\ \A i \in 1 .. m : inbox'[i] = inbox[i]
        /\ inbox'[m + 1] = e
    BY InboxShape
  <1>2. /\ DOMAIN s = 1 .. m /\ DOMAIN t = 1 .. m + 1
        /\ \A i \in 1 .. m : t[i] = s[i]
        /\ t[m + 1] = MapVerdict(e, n)
    BY <1>1 DEF MapVerdicts
  <1>3. MapVerdict(e, n) \in Verdicts
    BY DEF MapVerdict, Verdicts
  <1>4. Mapped(n) = After(s, InMap(n)) /\ Mapped(n)' = After(t, InMap(n))
    BY DEF Mapped, InMap
  <1> HIDE DEF s, t, m
  <1> QED BY <1>1, <1>2, <1>3, <1>4, OneMore

\* Handling an event brings the map no nearer and no farther from what it will be.
LEMMA HandlingMaps ==
  ASSUME Types, inbox # <<>>, inbox' = Tail(inbox), NEW n,
         InMap(n)' = Step(InMap(n), MapVerdict(Head(inbox), n))
  PROVE  Mapped(n)' = Mapped(n)
  <1> DEFINE s == MapVerdicts(inbox, n)
             t == MapVerdicts(inbox', n)
             m == Len(inbox)
  <1>1. /\ m \in Nat \ {0} /\ DOMAIN inbox = 1 .. m /\ DOMAIN inbox' = 1 .. m - 1
        /\ \A i \in 1 .. m - 1 : inbox'[i] = inbox[i + 1]
        /\ inbox[1] = Head(inbox)
    BY InboxShape
  <1>2. /\ DOMAIN s = 1 .. m /\ DOMAIN t = 1 .. m - 1
        /\ \A i \in 1 .. m - 1 : t[i] = s[i + 1]
        /\ s[1] = MapVerdict(Head(inbox), n)
    BY <1>1 DEF MapVerdicts
  <1>3. s[1] \in Verdicts
    BY <1>2 DEF MapVerdict, Verdicts
  <1>4. Mapped(n) = After(s, InMap(n)) /\ Mapped(n)' = After(t, Step(InMap(n), s[1]))
    BY <1>2 DEF Mapped, InMap
  <1> HIDE DEF s, t, m
  <1> QED BY <1>1, <1>2, <1>3, <1>4, FirstTaken

\* What the hub reports makes the map follow.
LEMMA HubMapStep ==
  ASSUME Types, MapInv, NEW n \in Nicks, NEW e \in Events,
         Report(e), UNCHANGED <<up, asked, users>>,
         \/ /\ e = [type |-> "user_join", nick |-> n]
            /\ online' = online \cup {n} /\ informed' = informed
         \/ /\ e = [type |-> "myinfo", nick |-> n]
            /\ online' = online /\ informed' = informed \cup {n} /\ n \in online
         \/ /\ e = [type |-> "user_quit", nick |-> n]
            /\ online' = online \ {n} /\ informed' = informed \ {n}
  PROVE  MapInv'
  <1> SUFFICES ASSUME up, ~asked, NEW k \in Nicks
               PROVE  /\ k \in informed' => Mapped(k)' = "in"
                      /\ Mapped(k)' = "in" => k \in online'
    BY DEF MapInv
  <1>1. inbox' = Append(inbox, e)
    BY DEF Report
  <1>2. Mapped(k)' = Step(Mapped(k), MapVerdict(e, k))
    BY <1>1, ReportMaps
  <1>3. (k \in informed => Mapped(k) = "in") /\ (Mapped(k) = "in" => k \in online)
    BY DEF MapInv
  <1>4. CASE /\ e = [type |-> "user_join", nick |-> n]
             /\ online' = online \cup {n} /\ informed' = informed
    BY <1>2, <1>3, <1>4 DEF MapVerdict, Step
  <1>5. CASE /\ e = [type |-> "myinfo", nick |-> n]
             /\ online' = online /\ informed' = informed \cup {n} /\ n \in online
    BY <1>2, <1>3, <1>5 DEF MapVerdict, Step
  <1>6. CASE /\ e = [type |-> "user_quit", nick |-> n]
             /\ online' = online \ {n} /\ informed' = informed \ {n}
    BY <1>2, <1>3, <1>6 DEF MapVerdict, Step
  <1> QED BY <1>4, <1>5, <1>6

\* Every action keeps the map behind the hub.
LEMMA MapStep ==
  ASSUME Types, MapInv, [Next]_vars
  PROVE  MapInv'
  <1> USE DEF hubVars, socketVars, procVars, banVars, faultVars
  <1>1. ASSUME UNCHANGED <<online, informed, inbox, users>>, up' /\ ~asked' => up /\ ~asked
        PROVE  MapInv'
    <2>1. \A n \in Nicks : Mapped(n)' = Mapped(n)
      BY <1>1 DEF Mapped, InMap
    <2> QED BY <1>1, <2>1 DEF MapInv
  <1>2. ASSUME NEW n \in Nicks, HubLogin(n) PROVE MapInv'
    <2>1. [type |-> "user_join", nick |-> n] \in Events
      BY DEF Events
    <2>2. /\ Report([type |-> "user_join", nick |-> n]) /\ UNCHANGED <<up, asked, users>>
          /\ online' = online \cup {n} /\ informed' = informed
      BY <1>2 DEF HubLogin
    <2> QED BY <2>1, <2>2, HubMapStep
  <1>3. ASSUME NEW n \in Nicks, HubInfo(n) PROVE MapInv'
    <2>1. [type |-> "myinfo", nick |-> n] \in Events
      BY DEF Events
    <2>2. /\ Report([type |-> "myinfo", nick |-> n]) /\ UNCHANGED <<up, asked, users>>
          /\ online' = online /\ informed' = informed \cup {n} /\ n \in online
      BY <1>3 DEF HubInfo
    <2> QED BY <2>1, <2>2, HubMapStep
  <1>4. ASSUME NEW n \in Nicks, Leaves(n), UNCHANGED <<up, asked, users>> PROVE MapInv'
    <2>1. [type |-> "user_quit", nick |-> n] \in Events
      BY DEF Events
    <2>2. /\ Report([type |-> "user_quit", nick |-> n])
          /\ online' = online \ {n} /\ informed' = informed \ {n}
      BY <1>4 DEF Leaves
    <2> QED BY <1>4, <2>1, <2>2, HubMapStep
  <1>5. ASSUME NEW n \in Nicks, HubQuit(n) PROVE MapInv'
    BY <1>4, <1>5 DEF HubQuit
  <1>6. CASE HubKicks
    <2>1. PICK n \in Nicks : n = Head(kicks)
      BY <1>6, HeadTailProperties DEF HubKicks, Types, ModType
    <2>2. UNCHANGED <<up, asked, users>>
      BY <1>6 DEF HubKicks
    <2>3. CASE n \in online
      <3>1. Leaves(n)
        BY <1>6, <2>1, <2>3 DEF HubKicks
      <3> QED BY <1>4, <2>2, <3>1
    <2>4. CASE n \notin online
      BY <1>1, <1>6, <2>1, <2>4 DEF HubKicks
    <2> QED BY <2>3, <2>4
  <1>7. CASE HubLists
    <2>1. PICK l \in Events : l = [type |-> "user_list", users |-> online]
      BY DEF Events, Types, HubType
    <2>2. inbox' = Append(inbox, l) /\ users' = users
      BY <1>7, <2>1 DEF HubLists
    <2>3. UNCHANGED <<online, informed>> /\ informed \subseteq online
      BY <1>7 DEF HubLists, Types, HubType
    <2>4. ASSUME NEW n \in Nicks PROVE Mapped(n)' = IF n \in online THEN "in" ELSE "out"
      <3>1. Mapped(n)' = Step(Mapped(n), MapVerdict(l, n))
        BY <2>2, ReportMaps
      <3> QED BY <2>1, <3>1 DEF MapVerdict, Step
    <2> QED BY <2>3, <2>4 DEF MapInv
  <1>8. CASE LinkDown \/ LinkUp
    BY <1>8 DEF LinkDown, LinkUp, MapInv
  <1>9. CASE AskList
    BY <1>9 DEF AskList, MapInv
  <1>10. CASE SocketStep
    <2>1. /\ inbox # <<>> /\ inbox' = Tail(inbox)
          /\ UNCHANGED <<up, asked, online, informed>>
      BY <1>10 DEF SocketStep, HandleJoin, HandleInfo, HandleQuit, HandleList, NextEvent
    <2>2. ASSUME NEW n \in Nicks PROVE InMap(n)' = Step(InMap(n), MapVerdict(Head(inbox), n))
      <3>1. CASE HandleJoin
        BY <3>1 DEF HandleJoin, NextEvent, InMap, MapVerdict, Step
      <3>2. CASE HandleInfo
        BY <3>2 DEF HandleInfo, NextEvent, InMap, MapVerdict, Step
      <3>3. CASE HandleQuit
        BY <3>3 DEF HandleQuit, NextEvent, InMap, MapVerdict, Step
      <3>4. CASE HandleList
        BY <3>4 DEF HandleList, NextEvent, InMap, MapVerdict, Step
      <3> QED BY <1>10, <3>1, <3>2, <3>3, <3>4 DEF SocketStep
    <2>3. \A n \in Nicks : Mapped(n)' = Mapped(n)
      BY <2>1, <2>2, HandlingMaps
    <2> QED BY <2>1, <2>3 DEF MapInv
  <1>11. CASE PublishTick \/ Lag \/ ProcStep \/ BanExpires \/ UNCHANGED vars
    BY <1>1, <1>11 DEF PublishTick, Lag, ProcStep, Receive, CheckBan, KickAtJoin, OpenSession,
                       CloseSessions, Maintain, BanExpires, vars
  <1>12. ASSUME NEW m \in Mods, NEW n \in Nicks, Ban(m, n) \/ KickUser(m, n) \/ Unban(m, n)
         PROVE  MapInv'
    BY <1>1, <1>12 DEF Ban, KickUser, Unban
  <1>13. ASSUME NEW m \in Mods, ModStep(m) PROVE MapInv'
    BY <1>1, <1>13 DEF ModStep, LookUp, Kick, DeleteBan
  <1> QED BY <1>2, <1>3, <1>5, <1>6, <1>7, <1>8, <1>9, <1>10, <1>11, <1>12, <1>13
          DEF Next, HubStep

\* The user map follows the hub through every reconnection, quit and list.
THEOREM MapFollowsHub == Spec => []UsersMirror
  <1>1. Init => MapInv
    BY DEF Init, MapInv
  <1>2. Types /\ MapInv /\ [Next]_vars => MapInv'
    BY MapStep
  <1>3. Types /\ MapInv => UsersMirror
    <2> SUFFICES ASSUME Types, MapInv, CaughtUp
                 PROVE  informed \subseteq users /\ users \subseteq online
      BY DEF UsersMirror
    <2>1. \A n : Mapped(n) = InMap(n)
      BY DEF CaughtUp, Mapped, After, AllNone, MapVerdicts
    <2>2. users \subseteq Nicks /\ informed \subseteq Nicks
      BY DEF Types, ProcType, HubType
    <2> QED BY <2>1, <2>2 DEF CaughtUp, MapInv, InMap
  <1> QED BY <1>1, <1>2, <1>3, TypesAlways, PTL DEF Spec

--------------------------------------------------------------------------------
(* The sessions.                                                            *)

\* What an event, or the processor's step for it, says of a user's session.
Verdict(e, n) ==
    IF e.type \in {"user_join", "open", "kick"} /\ e.nick = n THEN "in"
    ELSE IF e.type = "user_quit" /\ e.nick = n THEN "out"
    ELSE "none"

VerdictsOn(s, n) == [i \in DOMAIN s |-> Verdict(s[i], n)]

\* Whether the user has a session: now, ...
Inside(n) == IF sessions[n] = 0 THEN "out" ELSE "in"

\* ... once the processor is done with its event, ...
InsideNext(n) == Step(Inside(n), Verdict(proc, n))

\* ... with those of the bus, ...
InsideBus(n) == After(VerdictsOn(todo, n), InsideNext(n))

\* ... and with those of the inbox.
InsideLast(n) == After(VerdictsOn(inbox, n), InsideBus(n))

KickComing(n) == \E i \in DOMAIN kicks : kicks[i] = n

\* No join finds a session open.
Queued(n) ==
    /\ sessions[n] \in {0, 1}
    /\ Verdict(proc, n) = "in" => Inside(n) = "out"
    /\ Fit(VerdictsOn(todo, n), InsideNext(n))
    /\ Fit(VerdictsOn(inbox, n), InsideBus(n))

\* Who will have a session is online, and who is online will have one or is about to be
\* kicked.
Ends(n) ==
    /\ InsideLast(n) = "in" => n \in online
    /\ n \in online => InsideLast(n) = "in" \/ KickComing(n)

SessionInv == \A n \in Nicks \ unseen : Queued(n) /\ Ends(n)

\* The events on the bus are a sequence.
LEMMA TodoShape ==
  ASSUME Types
  PROVE  /\ Len(todo) \in Nat /\ DOMAIN todo = 1 .. Len(todo)
         /\ \A e \in BusEvents :
                todo' = Append(todo, e) =>
                    /\ DOMAIN todo' = 1 .. Len(todo) + 1
                    /\ \A i \in 1 .. Len(todo) : todo'[i] = todo[i]
                    /\ todo'[Len(todo) + 1] = e
         /\ todo # <<>> /\ todo' = Tail(todo) =>
                /\ Len(todo) \in Nat \ {0}
                /\ DOMAIN todo' = 1 .. Len(todo) - 1
                /\ \A i \in 1 .. Len(todo) - 1 : todo'[i] = todo[i + 1]
                /\ todo[1] = Head(todo)
  <1>1. todo \in Seq(BusEvents)
    BY DEF Types, ProcType
  <1>2. Len(todo) \in Nat /\ DOMAIN todo = 1 .. Len(todo)
    BY <1>1, LenProperties
  <1>3. ASSUME NEW e \in BusEvents, todo' = Append(todo, e)
        PROVE  /\ DOMAIN todo' = 1 .. Len(todo) + 1
               /\ \A i \in 1 .. Len(todo) : todo'[i] = todo[i]
               /\ todo'[Len(todo) + 1] = e
    <2>1. todo' \in Seq(BusEvents) /\ Len(todo') = Len(todo) + 1
      BY <1>1, <1>3, AppendProperties
    <2> QED BY <1>1, <1>2, <1>3, <2>1, AppendProperties, LenProperties
  <1>4. ASSUME todo # <<>>, todo' = Tail(todo)
        PROVE  /\ Len(todo) \in Nat \ {0}
               /\ DOMAIN todo' = 1 .. Len(todo) - 1
               /\ \A i \in 1 .. Len(todo) - 1 : todo'[i] = todo[i + 1]
               /\ todo[1] = Head(todo)
    <2>1. todo' \in Seq(BusEvents) /\ Len(todo') = Len(todo) - 1
      BY <1>1, <1>4, HeadTailProperties
    <2>2. Len(todo) \in Nat \ {0}
      BY <1>1, <1>2, <1>4, EmptySeq
    <2>3. todo[1] = Head(todo)
      BY <1>1, <1>4
    <2> QED BY <1>1, <1>2, <1>4, <2>1, <2>2, <2>3, HeadTailProperties, LenProperties
  <1> QED BY <1>2, <1>3, <1>4

\* A verdict is one.
LEMMA VerdictTyped ==
  ASSUME NEW e, NEW n
  PROVE  Verdict(e, n) \in Verdicts
  BY DEF Verdict, Verdicts

\* One more event in the inbox.
LEMMA InboxOneMore ==
  ASSUME Types, NEW e \in Events, inbox' = Append(inbox, e), NEW n, InsideBus(n)' = InsideBus(n)
  PROVE  /\ InsideLast(n)' = Step(InsideLast(n), Verdict(e, n))
         /\ (Fit(VerdictsOn(inbox, n), InsideBus(n))
                /\ (Verdict(e, n) = "in" => InsideLast(n) # "in"))
             => Fit(VerdictsOn(inbox, n), InsideBus(n))'
  <1> DEFINE s == VerdictsOn(inbox, n)
             t == VerdictsOn(inbox', n)
             m == Len(inbox)
             b == InsideBus(n)
  <1>1. /\ m \in Nat /\ DOMAIN inbox = 1 .. m /\ DOMAIN inbox' = 1 .. m + 1
        /\ \A i \in 1 .. m : inbox'[i] = inbox[i]
        /\ inbox'[m + 1] = e
    BY InboxShape
  <1>2. /\ DOMAIN s = 1 .. m /\ DOMAIN t = 1 .. m + 1
        /\ \A i \in 1 .. m : t[i] = s[i]
        /\ t[m + 1] = Verdict(e, n)
    BY <1>1 DEF VerdictsOn
  <1>3. Verdict(e, n) \in Verdicts
    BY VerdictTyped
  <1>4. InsideLast(n) = After(s, b) /\ InsideLast(n)' = After(t, b)
    BY DEF InsideLast
  <1>5. /\ Fit(VerdictsOn(inbox, n), InsideBus(n))' <=> Fit(t, b)
        /\ Fit(VerdictsOn(inbox, n), InsideBus(n)) <=> Fit(s, b)
    OBVIOUS
  <1> HIDE DEF s, t, m, b
  <1>6. t[m + 1] \in Verdicts
    BY <1>2, <1>3
  <1>7. After(t, b) = Step(After(s, b), t[m + 1])
    BY <1>1, <1>2, <1>6, OneMore
  <1>8. ASSUME Fit(s, b), t[m + 1] = "in" => After(s, b) # "in" PROVE Fit(t, b)
    BY <1>1, <1>2, <1>6, <1>8, OneMoreFits
  <1> QED BY <1>2, <1>4, <1>5, <1>7, <1>8

\* One less, the first.
LEMMA InboxFirstTaken ==
  ASSUME Types, inbox # <<>>, inbox' = Tail(inbox), NEW n,
         InsideBus(n)' = Step(InsideBus(n), Verdict(Head(inbox), n))
  PROVE  /\ InsideLast(n)' = InsideLast(n)
         /\ Fit(VerdictsOn(inbox, n), InsideBus(n)) =>
                /\ Verdict(Head(inbox), n) = "in" => InsideBus(n) # "in"
                /\ Fit(VerdictsOn(inbox, n), InsideBus(n))'
  <1> DEFINE s == VerdictsOn(inbox, n)
             t == VerdictsOn(inbox', n)
             m == Len(inbox)
             b == InsideBus(n)
             v == Verdict(Head(inbox), n)
  <1>1. /\ m \in Nat \ {0} /\ DOMAIN inbox = 1 .. m /\ DOMAIN inbox' = 1 .. m - 1
        /\ \A i \in 1 .. m - 1 : inbox'[i] = inbox[i + 1]
        /\ inbox[1] = Head(inbox)
    BY InboxShape
  <1>2. /\ DOMAIN s = 1 .. m /\ DOMAIN t = 1 .. m - 1
        /\ \A i \in 1 .. m - 1 : t[i] = s[i + 1]
        /\ s[1] = v
    BY <1>1 DEF VerdictsOn
  <1>3. v \in Verdicts
    BY VerdictTyped
  <1>4. InsideLast(n) = After(s, b) /\ InsideLast(n)' = After(t, Step(b, v))
    BY DEF InsideLast
  <1>5. /\ Fit(VerdictsOn(inbox, n), InsideBus(n))' <=> Fit(t, Step(b, v))
        /\ Fit(VerdictsOn(inbox, n), InsideBus(n)) <=> Fit(s, b)
        /\ b = InsideBus(n) /\ v = Verdict(Head(inbox), n)
    OBVIOUS
  <1> HIDE DEF s, t, m, b, v
  <1>6. s[1] \in Verdicts
    BY <1>2, <1>3
  <1>7. /\ After(s, b) = After(t, Step(b, s[1]))
        /\ Fit(s, b) => /\ s[1] = "in" => b # "in"
                        /\ Fit(t, Step(b, s[1]))
    BY <1>1, <1>2, <1>6, FirstTaken, Zenon
  <1> QED BY <1>2, <1>4, <1>5, <1>7

\* One more event on the bus.
LEMMA BusOneMore ==
  ASSUME Types, NEW e \in BusEvents, todo' = Append(todo, e), NEW n,
         InsideNext(n)' = InsideNext(n)
  PROVE  /\ InsideBus(n)' = Step(InsideBus(n), Verdict(e, n))
         /\ (Fit(VerdictsOn(todo, n), InsideNext(n))
                /\ (Verdict(e, n) = "in" => InsideBus(n) # "in"))
             => Fit(VerdictsOn(todo, n), InsideNext(n))'
  <1> DEFINE s == VerdictsOn(todo, n)
             t == VerdictsOn(todo', n)
             m == Len(todo)
             b == InsideNext(n)
  <1>1. /\ m \in Nat /\ DOMAIN todo = 1 .. m /\ DOMAIN todo' = 1 .. m + 1
        /\ \A i \in 1 .. m : todo'[i] = todo[i]
        /\ todo'[m + 1] = e
    BY TodoShape
  <1>2. /\ DOMAIN s = 1 .. m /\ DOMAIN t = 1 .. m + 1
        /\ \A i \in 1 .. m : t[i] = s[i]
        /\ t[m + 1] = Verdict(e, n)
    BY <1>1 DEF VerdictsOn
  <1>3. Verdict(e, n) \in Verdicts
    BY VerdictTyped
  <1>4. InsideBus(n) = After(s, b) /\ InsideBus(n)' = After(t, b)
    BY DEF InsideBus
  <1>5. /\ Fit(VerdictsOn(todo, n), InsideNext(n))' <=> Fit(t, b)
        /\ Fit(VerdictsOn(todo, n), InsideNext(n)) <=> Fit(s, b)
    OBVIOUS
  <1> HIDE DEF s, t, m, b
  <1>6. t[m + 1] \in Verdicts
    BY <1>2, <1>3
  <1>7. After(t, b) = Step(After(s, b), t[m + 1])
    BY <1>1, <1>2, <1>6, OneMore
  <1>8. ASSUME Fit(s, b), t[m + 1] = "in" => After(s, b) # "in" PROVE Fit(t, b)
    BY <1>1, <1>2, <1>6, <1>8, OneMoreFits
  <1> QED BY <1>2, <1>4, <1>5, <1>7, <1>8

\* One less, the first.
LEMMA BusFirstTaken ==
  ASSUME Types, todo # <<>>, todo' = Tail(todo), NEW n,
         InsideNext(n)' = Step(InsideNext(n), Verdict(Head(todo), n))
  PROVE  /\ InsideBus(n)' = InsideBus(n)
         /\ Fit(VerdictsOn(todo, n), InsideNext(n)) =>
                /\ Verdict(Head(todo), n) = "in" => InsideNext(n) # "in"
                /\ Fit(VerdictsOn(todo, n), InsideNext(n))'
  <1> DEFINE s == VerdictsOn(todo, n)
             t == VerdictsOn(todo', n)
             m == Len(todo)
             b == InsideNext(n)
             v == Verdict(Head(todo), n)
  <1>1. /\ m \in Nat \ {0} /\ DOMAIN todo = 1 .. m /\ DOMAIN todo' = 1 .. m - 1
        /\ \A i \in 1 .. m - 1 : todo'[i] = todo[i + 1]
        /\ todo[1] = Head(todo)
    BY TodoShape
  <1>2. /\ DOMAIN s = 1 .. m /\ DOMAIN t = 1 .. m - 1
        /\ \A i \in 1 .. m - 1 : t[i] = s[i + 1]
        /\ s[1] = v
    BY <1>1 DEF VerdictsOn
  <1>3. v \in Verdicts
    BY VerdictTyped
  <1>4. InsideBus(n) = After(s, b) /\ InsideBus(n)' = After(t, Step(b, v))
    BY DEF InsideBus
  <1>5. /\ Fit(VerdictsOn(todo, n), InsideNext(n))' <=> Fit(t, Step(b, v))
        /\ Fit(VerdictsOn(todo, n), InsideNext(n)) <=> Fit(s, b)
        /\ b = InsideNext(n) /\ v = Verdict(Head(todo), n)
    OBVIOUS
  <1> HIDE DEF s, t, m, b, v
  <1>6. s[1] \in Verdicts
    BY <1>2, <1>3
  <1>7. /\ After(s, b) = After(t, Step(b, s[1]))
        /\ Fit(s, b) => /\ s[1] = "in" => b # "in"
                        /\ Fit(t, Step(b, s[1]))
    BY <1>1, <1>2, <1>6, FirstTaken, Zenon
  <1> QED BY <1>2, <1>4, <1>5, <1>7

\* The processor's step changes nothing that the queues rest on.
LEMMA QueuesAside ==
  ASSUME NEW n, UNCHANGED <<inbox, todo>>, InsideNext(n)' = InsideNext(n)
  PROVE  /\ InsideLast(n)' = InsideLast(n)
         /\ Fit(VerdictsOn(todo, n), InsideNext(n))' <=> Fit(VerdictsOn(todo, n), InsideNext(n))
         /\ Fit(VerdictsOn(inbox, n), InsideBus(n))' <=> Fit(VerdictsOn(inbox, n), InsideBus(n))
  <1>1. VerdictsOn(todo, n)' = VerdictsOn(todo, n) /\ VerdictsOn(inbox, n)' = VerdictsOn(inbox, n)
    OBVIOUS
  <1>2. InsideBus(n)' = InsideBus(n)
    BY <1>1 DEF InsideBus
  <1> QED BY <1>1, <1>2 DEF InsideLast

\* Neither does a step of the hub or of the socket task for which the bus stays.
LEMMA BusAside ==
  ASSUME NEW n, UNCHANGED <<todo, proc, sessions>>
  PROVE  /\ Inside(n)' = Inside(n) /\ InsideNext(n)' = InsideNext(n)
         /\ InsideBus(n)' = InsideBus(n)
         /\ Fit(VerdictsOn(todo, n), InsideNext(n))' <=> Fit(VerdictsOn(todo, n), InsideNext(n))
  <1>1. Inside(n)' = Inside(n) /\ InsideNext(n)' = InsideNext(n)
    BY DEF Inside, InsideNext
  <1>2. VerdictsOn(todo, n)' = VerdictsOn(todo, n)
    OBVIOUS
  <1> QED BY <1>1, <1>2 DEF InsideBus

\* A report of the hub is the last word on the user, if it gets through.
LEMMA ReportSession ==
  ASSUME Types, NEW e \in Events, Report(e), NEW n, n \notin unseen',
         UNCHANGED <<todo, proc, sessions>>, Queued(n),
         Verdict(e, n) = "in" => InsideLast(n) # "in"
  PROVE  InsideLast(n)' = Step(InsideLast(n), Verdict(e, n)) /\ Queued(n)'
  <1>1. /\ Inside(n)' = Inside(n) /\ InsideNext(n)' = InsideNext(n)
        /\ InsideBus(n)' = InsideBus(n)
        /\ Fit(VerdictsOn(todo, n), InsideNext(n))'
    BY BusAside DEF Queued
  <1>2. CASE up
    <2>1. inbox' = Append(inbox, e)
      BY <1>2 DEF Report
    <2>2. /\ InsideLast(n)' = Step(InsideLast(n), Verdict(e, n))
          /\ Fit(VerdictsOn(inbox, n), InsideBus(n))'
      BY <1>1, <2>1, InboxOneMore DEF Queued
    <2> QED BY <1>1, <2>2 DEF Queued
  <1>3. CASE ~up
    <2>1. inbox' = inbox
      BY <1>3 DEF Report
    <2>2. Verdict(e, n) = "none"
      <3>1. e.type \in {"user_join", "user_quit"} => e.nick # n
        BY <1>3 DEF Report
      <3>2. e.type \in {"user_join", "myinfo", "user_quit", "user_list"}
        BY DEF Events
      <3> QED BY <3>1, <3>2 DEF Verdict
    <2>3. InsideLast(n)' = InsideLast(n) /\ Fit(VerdictsOn(inbox, n), InsideBus(n))'
      BY <1>1, <2>1, QueuesAside DEF Queued
    <2> QED BY <1>1, <2>2, <2>3 DEF Queued, Step
  <1> QED BY <1>2, <1>3

\* The socket task passes a join or a quit on to the bus ...
LEMMA EventPassedOn ==
  ASSUME Types, inbox # <<>>, Head(inbox) \in BusEvents, inbox' = Tail(inbox),
         todo' = Append(todo, Head(inbox)), UNCHANGED <<proc, sessions>>, NEW n, Queued(n)
  PROVE  InsideLast(n)' = InsideLast(n) /\ Queued(n)'
  <1>1. Inside(n)' = Inside(n) /\ InsideNext(n)' = InsideNext(n)
    BY DEF Inside, InsideNext
  <1>2. InsideBus(n)' = Step(InsideBus(n), Verdict(Head(inbox), n))
    BY <1>1, BusOneMore
  <1>3. /\ InsideLast(n)' = InsideLast(n)
        /\ Verdict(Head(inbox), n) = "in" => InsideBus(n) # "in"
        /\ Fit(VerdictsOn(inbox, n), InsideBus(n))'
    BY <1>2, InboxFirstTaken DEF Queued
  <1>4. Fit(VerdictsOn(todo, n), InsideNext(n))'
    BY <1>1, <1>3, BusOneMore DEF Queued
  <1> QED BY <1>1, <1>3, <1>4 DEF Queued

\* ... and keeps what says nothing of a session.
LEMMA EventKept ==
  ASSUME Types, inbox # <<>>, Head(inbox).type \in {"myinfo", "user_list"}, inbox' = Tail(inbox),
         UNCHANGED <<todo, proc, sessions>>, NEW n, Queued(n)
  PROVE  InsideLast(n)' = InsideLast(n) /\ Queued(n)'
  <1>1. /\ Inside(n)' = Inside(n) /\ InsideNext(n)' = InsideNext(n)
        /\ InsideBus(n)' = InsideBus(n)
        /\ Fit(VerdictsOn(todo, n), InsideNext(n))'
    BY BusAside DEF Queued
  <1>2. InsideBus(n)' = Step(InsideBus(n), Verdict(Head(inbox), n))
    BY <1>1 DEF Verdict, Step
  <1>3. InsideLast(n)' = InsideLast(n) /\ Fit(VerdictsOn(inbox, n), InsideBus(n))'
    BY <1>2, InboxFirstTaken DEF Queued
  <1> QED BY <1>1, <1>3 DEF Queued

\* The bus gets a tick, ...
LEMMA TickPublished ==
  ASSUME Types, todo' = Append(todo, Tick), UNCHANGED <<inbox, proc, sessions>>,
         NEW n, Queued(n)
  PROVE  InsideLast(n)' = InsideLast(n) /\ Queued(n)'
  <1>1. Inside(n)' = Inside(n) /\ InsideNext(n)' = InsideNext(n)
    BY DEF Inside, InsideNext
  <1>2. Tick \in BusEvents /\ Verdict(Tick, n) = "none"
    BY DEF BusEvents, Verdict, Tick
  <1>3. InsideBus(n)' = InsideBus(n) /\ Fit(VerdictsOn(todo, n), InsideNext(n))'
    BY <1>1, <1>2, BusOneMore DEF Queued, Step
  <1>4. VerdictsOn(inbox, n)' = VerdictsOn(inbox, n)
    OBVIOUS
  <1>5. InsideLast(n)' = InsideLast(n) /\ Fit(VerdictsOn(inbox, n), InsideBus(n))'
    BY <1>3, <1>4 DEF InsideLast, Queued
  <1> QED BY <1>1, <1>3, <1>5 DEF Queued

\* ... loses its oldest events, which counts only for the users they are about, ...
LEMMA BusLags ==
  ASSUME Types, NEW k \in 1 .. Len(todo), todo' = SubSeq(todo, k + 1, Len(todo)),
         UNCHANGED <<inbox, proc, sessions>>,
         NEW n, n \notin Told(SubSeq(todo, 1, k)), Queued(n)
  PROVE  InsideLast(n)' = InsideLast(n) /\ Queued(n)'
  <1> DEFINE s == VerdictsOn(todo, n)
             t == VerdictsOn(todo', n)
             m == Len(todo)
             b == InsideNext(n)
             lost == SubSeq(todo, 1, k)
  <1>1. Inside(n)' = Inside(n) /\ InsideNext(n)' = InsideNext(n)
    BY DEF Inside, InsideNext
  <1>2. todo \in Seq(BusEvents) /\ m \in Nat /\ DOMAIN todo = 1 .. m /\ k \in 0 .. m
    BY TodoShape DEF Types, ProcType
  <1>3. /\ DOMAIN todo' = 1 .. m - k /\ \A i \in 1 .. m - k : todo'[i] = todo[i + k]
        /\ DOMAIN lost = 1 .. k /\ \A i \in 1 .. k : lost[i] = todo[i]
    BY <1>2, RestTyped
  <1>4. \A i \in 1 .. k : s[i] = "none"
    <2> SUFFICES ASSUME NEW i \in 1 .. k PROVE s[i] = "none"
      OBVIOUS
    <2>1. i \in 1 .. m
      BY <1>2
    <2>2. todo[i] \in BusEvents
      BY <1>2, <2>1, ElementOfSeq
    <2>3. todo[i].type \in {"user_join", "user_quit", "maintenance_tick"}
      BY <2>2 DEF BusEvents, Tick
    <2>4. todo[i].type \in {"user_join", "user_quit"} => todo[i].nick # n
      BY <1>3 DEF Told
    <2>5. Verdict(todo[i], n) = "none"
      BY <2>3, <2>4 DEF Verdict
    <2> QED BY <1>2, <2>1, <2>5 DEF VerdictsOn
  <1>5. /\ DOMAIN s = 1 .. m /\ DOMAIN t = 1 .. m - k
        /\ \A i \in 1 .. m - k : t[i] = s[i + k]
    <2>1. \A i \in 1 .. m - k : i + k \in 1 .. m
      BY <1>2
    <2> QED BY <1>2, <1>3, <2>1 DEF VerdictsOn
  <1>6. InsideBus(n) = After(s, b) /\ InsideBus(n)' = After(t, b)
    BY <1>1 DEF InsideBus
  <1>7. Fit(s, b) /\ (Fit(VerdictsOn(todo, n), InsideNext(n))' <=> Fit(t, b))
    BY <1>1 DEF Queued
  <1> HIDE DEF s, t, m, b
  <1>8. InsideBus(n)' = InsideBus(n) /\ Fit(t, b)
    BY <1>2, <1>4, <1>5, <1>6, <1>7, SilenceDropped
  <1>9. VerdictsOn(inbox, n)' = VerdictsOn(inbox, n)
    OBVIOUS
  <1>10. InsideLast(n)' = InsideLast(n) /\ Fit(VerdictsOn(inbox, n), InsideBus(n))'
    BY <1>8, <1>9 DEF InsideLast, Queued
  <1> QED BY <1>1, <1>7, <1>8, <1>10 DEF Queued

\* ... and has its first event received.
LEMMA EventReceived ==
  ASSUME Types, Receive, NEW n, Queued(n)
  PROVE  InsideLast(n)' = InsideLast(n) /\ Queued(n)'
  <1> USE DEF hubVars, socketVars, procVars, banVars, faultVars
  <1>1. /\ todo # <<>> /\ todo' = Tail(todo) /\ proc = NoEvent /\ proc' = Head(todo)
        /\ UNCHANGED <<inbox, sessions>>
    BY DEF Receive
  <1>2. Inside(n)' = Inside(n) /\ InsideNext(n) = Inside(n)
    BY <1>1 DEF Inside, InsideNext, Verdict, NoEvent, Step
  <1>3. InsideNext(n)' = Step(InsideNext(n), Verdict(Head(todo), n))
    BY <1>1, <1>2 DEF InsideNext
  <1>4. /\ InsideBus(n)' = InsideBus(n)
        /\ Verdict(Head(todo), n) = "in" => InsideNext(n) # "in"
        /\ Fit(VerdictsOn(todo, n), InsideNext(n))'
    BY <1>1, <1>3, BusFirstTaken DEF Queued
  <1>5. VerdictsOn(inbox, n)' = VerdictsOn(inbox, n)
    BY <1>1
  <1>6. InsideLast(n)' = InsideLast(n) /\ Fit(VerdictsOn(inbox, n), InsideBus(n))'
    BY <1>4, <1>5 DEF InsideLast, Queued
  <1>7. Verdict(proc, n)' = "in" => Inside(n)' = "out"
    BY <1>1, <1>2, <1>4 DEF Inside
  <1> QED BY <1>1, <1>4, <1>6, <1>7 DEF Queued

\* The processor's last step for an event leaves the user as the event said, unless it
\* kicks the user, who then has no session.
LEMMA EventDone ==
  ASSUME Types, UNCHANGED <<inbox, todo>>, NEW n, Queued(n),
         sessions'[n] \in {0, 1}, Verdict(proc, n)' = "none",
         InsideNext(n)' = "in" => InsideNext(n) = "in"
  PROVE  /\ InsideLast(n)' = "in" => InsideLast(n) = "in"
         /\ Queued(n)'
  <1>1. VerdictsOn(todo, n)' = VerdictsOn(todo, n) /\ VerdictsOn(inbox, n)' = VerdictsOn(inbox, n)
    OBVIOUS
  <1>2. /\ Fit(VerdictsOn(todo, n), InsideNext(n))'
        /\ InsideBus(n)' = "in" => InsideBus(n) = "in"
    BY <1>1, OutFits DEF InsideBus, Queued
  <1>3. /\ Fit(VerdictsOn(inbox, n), InsideBus(n))'
        /\ InsideLast(n)' = "in" => InsideLast(n) = "in"
    BY <1>1, <1>2, OutFits DEF InsideLast, Queued
  <1> QED BY <1>2, <1>3 DEF Queued

\* A kick sent is a kick coming, and so are those sent before.
LEMMA KickSent ==
  ASSUME Types, NEW h \in Nicks, SendKick(h)
  PROVE  KickComing(h)' /\ \A n : KickComing(n) => KickComing(n)'
  <1>1. /\ kicks \in Seq(Nicks) /\ kicks' = Append(kicks, h)
        /\ Len(kicks) \in Nat /\ DOMAIN kicks = 1 .. Len(kicks)
    BY LenProperties DEF SendKick, Types, ModType
  <1>2. /\ DOMAIN kicks' = 1 .. Len(kicks) + 1
        /\ \A i \in 1 .. Len(kicks) : kicks'[i] = kicks[i]
        /\ kicks'[Len(kicks) + 1] = h
    <2>1. kicks' \in Seq(Nicks) /\ Len(kicks') = Len(kicks) + 1
      BY <1>1, AppendProperties
    <2> QED BY <1>1, <2>1, AppendProperties, LenProperties
  <1>3. KickComing(h)'
    BY <1>1, <1>2 DEF KickComing
  <1>4. ASSUME NEW n, KickComing(n) PROVE KickComing(n)'
    BY <1>1, <1>2, <1>4 DEF KickComing
  <1> QED BY <1>3, <1>4

\* Of kicks carried out or lost, the others are still coming.
LEMMA KicksLeft ==
  ASSUME Types, NEW k \in 0 .. Len(kicks), kicks' = SubSeq(kicks, k + 1, Len(kicks)),
         NEW n, n \notin {kicks[i] : i \in 1 .. k}, KickComing(n)
  PROVE  KickComing(n)'
  <1>1. kicks \in Seq(Nicks)
    BY DEF Types, ModType
  <1>2. /\ Len(kicks) \in Nat /\ DOMAIN kicks = 1 .. Len(kicks)
        /\ DOMAIN kicks' = 1 .. Len(kicks) - k
        /\ \A i \in 1 .. Len(kicks) - k : kicks'[i] = kicks[i + k]
    BY <1>1, RestTyped
  <1>3. PICK i \in 1 .. Len(kicks) : kicks[i] = n
    BY <1>2 DEF KickComing
  <1>4. i - k \in 1 .. Len(kicks) - k /\ (i - k) + k = i
    <2>1. i \notin 1 .. k
      BY <1>3
    <2> QED BY <1>2, <2>1
  <1>5. i - k \in DOMAIN kicks' /\ kicks'[i - k] = n
    BY <1>2, <1>3, <1>4
  <1> QED BY <1>5 DEF KickComing

\* Users whose events were lost stay apart.
LEMMA UnseenGrows ==
  ASSUME [Next]_vars
  PROVE  unseen \subseteq unseen'
  <1> USE DEF hubVars, socketVars, procVars, banVars, faultVars
  <1>1. ASSUME NEW e, Report(e) PROVE unseen \subseteq unseen'
    BY <1>1 DEF Report
  <1>2. ASSUME NEW n \in Nicks, HubLogin(n) \/ HubInfo(n) \/ HubQuit(n)
        PROVE  unseen \subseteq unseen'
    BY <1>1, <1>2 DEF HubLogin, HubInfo, HubQuit, Leaves
  <1>3. CASE HubLists \/ HubKicks \/ LinkUp \/ AskList
    BY <1>1, <1>3 DEF HubLists, HubKicks, LinkUp, AskList, Leaves
  <1>4. CASE LinkDown \/ Lag
    BY <1>4 DEF LinkDown, Lag
  <1>5. CASE SocketStep \/ PublishTick \/ ProcStep \/ BanExpires \/ UNCHANGED vars
    BY <1>5 DEF SocketStep, HandleJoin, HandleInfo, HandleQuit, HandleList, PublishTick, ProcStep,
                Receive, CheckBan, KickAtJoin, OpenSession, CloseSessions, Maintain, BanExpires,
                vars
  <1>6. ASSUME NEW m \in Mods, NEW n \in Nicks, Ban(m, n) \/ KickUser(m, n) \/ Unban(m, n)
        PROVE  unseen \subseteq unseen'
    BY <1>6 DEF Ban, KickUser, Unban
  <1>7. ASSUME NEW m \in Mods, ModStep(m) PROVE unseen \subseteq unseen'
    BY <1>7 DEF ModStep, LookUp, Kick, DeleteBan
  <1> QED BY <1>2, <1>3, <1>4, <1>5, <1>6, <1>7 DEF Next, HubStep

\* What the hub says of a user it also does.
LEMMA HubSession ==
  ASSUME Types, NEW h \in Nicks, NEW n, n \notin unseen', Queued(n), Ends(n),
         UNCHANGED <<todo, proc, sessions>>,
         KickComing(n) /\ n # h => KickComing(n)',
         \/ /\ Report([type |-> "user_join", nick |-> h])
            /\ h \notin online /\ online' = online \cup {h}
         \/ /\ Report([type |-> "myinfo", nick |-> h])
            /\ online' = online /\ KickComing(n)' = KickComing(n)
         \/ /\ Report([type |-> "user_quit", nick |-> h])
            /\ online' = online \ {h}
  PROVE  Queued(n)' /\ Ends(n)'
  <1>1. CASE /\ Report([type |-> "user_join", nick |-> h])
             /\ h \notin online /\ online' = online \cup {h}
    <2> DEFINE e == [type |-> "user_join", nick |-> h]
    <2>1. e \in Events /\ Verdict(e, n) = IF n = h THEN "in" ELSE "none"
      BY DEF Events, Verdict
    <2>2. n = h => InsideLast(n) # "in"
      BY <1>1 DEF Ends
    <2>3. InsideLast(n)' = Step(InsideLast(n), Verdict(e, n)) /\ Queued(n)'
      BY <1>1, <2>1, <2>2, ReportSession
    <2> QED BY <1>1, <2>1, <2>3 DEF Ends, Step
  <1>2. CASE /\ Report([type |-> "myinfo", nick |-> h])
             /\ online' = online /\ KickComing(n)' = KickComing(n)
    <2> DEFINE e == [type |-> "myinfo", nick |-> h]
    <2>1. e \in Events /\ Verdict(e, n) = "none"
      BY DEF Events, Verdict
    <2>2. InsideLast(n)' = Step(InsideLast(n), Verdict(e, n)) /\ Queued(n)'
      BY <1>2, <2>1, ReportSession
    <2> QED BY <1>2, <2>1, <2>2 DEF Ends, Step
  <1>3. CASE /\ Report([type |-> "user_quit", nick |-> h])
             /\ online' = online \ {h}
    <2> DEFINE e == [type |-> "user_quit", nick |-> h]
    <2>1. e \in Events /\ Verdict(e, n) = IF n = h THEN "out" ELSE "none"
      BY DEF Events, Verdict
    <2>2. InsideLast(n)' = Step(InsideLast(n), Verdict(e, n)) /\ Queued(n)'
      BY <1>3, <2>1, ReportSession
    <2> QED BY <1>3, <2>1, <2>2 DEF Ends, Step
  <1> QED BY <1>1, <1>2, <1>3

\* The hub and the connection.
LEMMA HubSessions ==
  ASSUME Types, HubStep, NEW n \in Nicks, n \notin unseen', Queued(n), Ends(n)
  PROVE  Queued(n)' /\ Ends(n)'
  <1> USE DEF hubVars, socketVars, procVars, banVars, faultVars
  <1>0. UNCHANGED kicks => KickComing(n)' = KickComing(n)
    BY DEF KickComing
  <1>1. ASSUME NEW h \in Nicks, HubLogin(h) PROVE Queued(n)' /\ Ends(n)'
    <2>1. /\ Report([type |-> "user_join", nick |-> h]) /\ h \notin online
          /\ online' = online \cup {h} /\ UNCHANGED <<todo, proc, sessions, kicks>>
      BY <1>1 DEF HubLogin
    <2> QED BY <1>0, <2>1, HubSession
  <1>2. ASSUME NEW h \in Nicks, HubInfo(h) PROVE Queued(n)' /\ Ends(n)'
    <2>1. /\ Report([type |-> "myinfo", nick |-> h])
          /\ online' = online /\ UNCHANGED <<todo, proc, sessions, kicks>>
      BY <1>2 DEF HubInfo
    <2> QED BY <1>0, <2>1, HubSession
  <1>3. ASSUME NEW h \in Nicks, HubQuit(h) PROVE Queued(n)' /\ Ends(n)'
    <2>1. /\ Report([type |-> "user_quit", nick |-> h])
          /\ online' = online \ {h} /\ UNCHANGED <<todo, proc, sessions, kicks>>
      BY <1>3 DEF HubQuit, Leaves
    <2> QED BY <1>0, <2>1, HubSession
  <1>4. CASE HubKicks
    <2>1. /\ kicks # <<>> /\ kicks' = Tail(kicks) /\ UNCHANGED <<todo, proc, sessions>>
      BY <1>4 DEF HubKicks
    <2>2. kicks \in Seq(Nicks) /\ Head(kicks) \in Nicks
      BY <2>1, HeadTailProperties DEF Types, ModType
    <2>3. /\ Len(kicks) \in Nat \ {0} /\ DOMAIN kicks = 1 .. Len(kicks)
          /\ DOMAIN kicks' = 1 .. Len(kicks) - 1
          /\ \A i \in 1 .. Len(kicks) - 1 : kicks'[i] = kicks[i + 1]
          /\ kicks[1] = Head(kicks)
      <3>1. kicks' \in Seq(Nicks) /\ Len(kicks') = Len(kicks) - 1
        BY <2>1, <2>2, HeadTailProperties
      <3>2. Len(kicks) \in Nat \ {0}
        BY <2>1, <2>2, EmptySeq, LenProperties
      <3> QED BY <2>1, <2>2, <3>1, <3>2, HeadTailProperties, LenProperties
    <2>4. KickComing(n) /\ n # Head(kicks) => KickComing(n)'
      <3> SUFFICES ASSUME NEW i \in 1 .. Len(kicks), kicks[i] = n, n # Head(kicks)
                   PROVE  KickComing(n)'
        BY <2>3 DEF KickComing
      <3>1. i - 1 \in 1 .. Len(kicks) - 1 /\ (i - 1) + 1 = i
        <4>1. i # 1
          BY <2>3
        <4> QED BY <2>3, <4>1
      <3>2. i - 1 \in DOMAIN kicks' /\ kicks'[i - 1] = n
        BY <2>3, <3>1
      <3> QED BY <3>2 DEF KickComing
    <2>5. PICK h \in Nicks : h = Head(kicks)
      BY <2>2
    <2>6. CASE h \in online
      <3>1. Report([type |-> "user_quit", nick |-> h]) /\ online' = online \ {h}
        BY <1>4, <2>5, <2>6 DEF HubKicks, Leaves
      <3> QED BY <2>1, <2>4, <2>5, <3>1, HubSession
    <2>7. CASE h \notin online
      <3>1. UNCHANGED <<online, inbox>>
        BY <1>4, <2>5, <2>7 DEF HubKicks
      <3>2. Inside(n)' = Inside(n) /\ InsideNext(n)' = InsideNext(n)
        BY <2>1, BusAside
      <3>3. InsideLast(n)' = InsideLast(n) /\ Queued(n)'
        BY <2>1, <3>1, <3>2, QueuesAside DEF Queued
      <3> QED BY <2>4, <2>5, <2>7, <3>1, <3>3 DEF Ends
    <2> QED BY <2>6, <2>7
  <1>5. CASE HubLists
    <2>1. PICK l \in Events : l = [type |-> "user_list", users |-> online]
      BY DEF Events, Types, HubType
    <2>2. Report(l) /\ UNCHANGED <<todo, proc, sessions, online, kicks>>
      BY <1>5, <2>1 DEF HubLists, Report
    <2>3. Verdict(l, n) = "none"
      BY <2>1 DEF Verdict
    <2>4. InsideLast(n)' = InsideLast(n) /\ Queued(n)'
      BY <2>2, <2>3, ReportSession DEF Step
    <2> QED BY <1>0, <2>2, <2>4 DEF Ends
  <1>6. CASE LinkDown
    <2>1. PICK k \in 0 .. Len(kicks) :
              /\ kicks' = SubSeq(kicks, k + 1, Len(kicks))
              /\ unseen' = unseen \cup Told(inbox) \cup {kicks[i] : i \in 1 .. k}
      BY <1>6 DEF LinkDown
    <2>2. inbox' = <<>> /\ UNCHANGED <<todo, proc, sessions, online>>
      BY <1>6 DEF LinkDown
    <2>3. n \notin Told(inbox) /\ n \notin {kicks[i] : i \in 1 .. k}
      BY <2>1
    <2>4. KickComing(n) => KickComing(n)'
      BY <2>1, <2>3, KicksLeft
    <2>5. \A i \in DOMAIN inbox : Verdict(inbox[i], n) = "none"
      <3> SUFFICES ASSUME NEW i \in DOMAIN inbox PROVE Verdict(inbox[i], n) = "none"
        OBVIOUS
      <3>1. inbox[i] \in Events
        BY InboxShape, ElementOfSeq DEF Types, HubType
      <3>2. inbox[i].type \in {"user_join", "myinfo", "user_quit", "user_list"}
        BY <3>1 DEF Events
      <3>3. inbox[i].type \in {"user_join", "user_quit"} => inbox[i].nick # n
        BY <2>3 DEF Told
      <3> QED BY <3>2, <3>3 DEF Verdict
    <2>6. InsideLast(n) = InsideBus(n)
      BY <2>5 DEF InsideLast, After, AllNone, VerdictsOn
    <2>7. /\ Inside(n)' = Inside(n) /\ InsideNext(n)' = InsideNext(n)
          /\ InsideBus(n)' = InsideBus(n)
          /\ Fit(VerdictsOn(todo, n), InsideNext(n))'
      BY <2>2, BusAside DEF Queued
    <2>8. InsideLast(n)' = InsideBus(n)'
      BY <2>2 DEF InsideLast, After, AllNone, VerdictsOn
    <2>9. Fit(VerdictsOn(inbox, n), InsideBus(n))'
      BY <2>2 DEF Fit, VerdictsOn
    <2>10. Queued(n)'
      BY <2>2, <2>7, <2>9 DEF Queued
    <2> QED BY <2>2, <2>4, <2>6, <2>7, <2>8, <2>10 DEF Ends
  <1>7. CASE LinkUp
    <2>1. UNCHANGED <<inbox, todo, proc, sessions, online, kicks>>
      BY <1>7 DEF LinkUp
    <2>2. Inside(n)' = Inside(n) /\ InsideNext(n)' = InsideNext(n)
      BY <2>1, BusAside
    <2>3. InsideLast(n)' = InsideLast(n) /\ Queued(n)'
      BY <2>1, <2>2, QueuesAside DEF Queued
    <2> QED BY <1>0, <2>1, <2>3 DEF Ends
  <1> QED BY <1>1, <1>2, <1>3, <1>4, <1>5, <1>6, <1>7 DEF HubStep

\* The socket task and the bus.
LEMMA SocketSessions ==
  ASSUME Types, SocketStep \/ PublishTick \/ Lag, NEW n, n \notin unseen', Queued(n), Ends(n)
  PROVE  Queued(n)' /\ Ends(n)'
  <1> USE DEF hubVars, socketVars, procVars, banVars, faultVars
  <1>1. SUFFICES UNCHANGED <<online, kicks>> /\ InsideLast(n)' = InsideLast(n) /\ Queued(n)'
    BY DEF Ends, KickComing
  <1>2. UNCHANGED <<online, kicks, proc, sessions>>
    BY DEF SocketStep, HandleJoin, HandleInfo, HandleQuit, HandleList, PublishTick, Lag
  <1>3. CASE HandleJoin \/ HandleQuit
    <2>1. /\ inbox # <<>> /\ inbox' = Tail(inbox) /\ todo' = Append(todo, Head(inbox))
          /\ Head(inbox).type \in {"user_join", "user_quit"}
      BY <1>3 DEF HandleJoin, HandleQuit, NextEvent
    <2>2. Head(inbox) \in BusEvents
      BY <2>1, InboxTyped DEF Types
    <2> QED BY <1>2, <2>1, <2>2, EventPassedOn
  <1>4. CASE HandleInfo \/ HandleList
    <2>1. /\ inbox # <<>> /\ inbox' = Tail(inbox) /\ todo' = todo
          /\ Head(inbox).type \in {"myinfo", "user_list"}
      BY <1>4 DEF HandleInfo, HandleList, NextEvent
    <2> QED BY <1>2, <2>1, EventKept
  <1>5. CASE PublishTick
    <2>1. todo' = Append(todo, Tick) /\ inbox' = inbox
      BY <1>5 DEF PublishTick
    <2> QED BY <1>2, <2>1, TickPublished
  <1>6. CASE Lag
    <2>1. PICK k \in 1 .. Len(todo) :
              /\ todo' = SubSeq(todo, k + 1, Len(todo))
              /\ unseen' = unseen \cup Told(SubSeq(todo, 1, k))
      BY <1>6 DEF Lag
    <2>2. inbox' = inbox /\ n \notin Told(SubSeq(todo, 1, k))
      BY <1>6, <2>1 DEF Lag
    <2> QED BY <1>2, <2>1, <2>2, BusLags
  <1> QED BY <1>3, <1>4, <1>5, <1>6 DEF SocketStep

\* The processor.
LEMMA ProcSessions ==
  ASSUME Types, ProcStep, NEW n \in Nicks, n \notin unseen', Queued(n), Ends(n)
  PROVE  Queued(n)' /\ Ends(n)'
  <1> USE DEF hubVars, socketVars, procVars, banVars, faultVars
  <1>0. /\ proc \in AtWork /\ sessions \in [Nicks -> Nat]
        /\ sessions[n] \in {0, 1}
        /\ Verdict(proc, n) = "in" => Inside(n) = "out"
        /\ Verdict(NoEvent, n) = "none"
    BY DEF Types, ProcType, Queued, Verdict, NoEvent
  <1>1. UNCHANGED online
    BY DEF ProcStep, Receive, CheckBan, KickAtJoin, OpenSession, CloseSessions, Maintain
  <1>2. CASE Receive
    <2>1. InsideLast(n)' = InsideLast(n) /\ Queued(n)'
      BY <1>2, EventReceived
    <2>2. kicks' = kicks
      BY <1>2 DEF Receive
    <2> QED BY <1>1, <2>1, <2>2 DEF Ends, KickComing
  <1>3. CASE CheckBan
    <2>1. /\ proc.type = "user_join" /\ UNCHANGED <<inbox, todo, sessions, kicks>>
          /\ \/ proc' = [proc EXCEPT !.type = "kick"]
             \/ proc' = [proc EXCEPT !.type = "open"]
      BY <1>3 DEF CheckBan
    <2>2. proc \in [type : {"user_join", "open", "kick", "user_quit"}, nick : Nicks]
      BY <1>0, <2>1 DEF AtWork, NoEvent, Tick
    <2>3. Verdict(proc, n)' = Verdict(proc, n)
      BY <2>1, <2>2 DEF Verdict
    <2>4. Inside(n)' = Inside(n) /\ InsideNext(n)' = InsideNext(n)
      BY <2>1, <2>3 DEF Inside, InsideNext
    <2>5. InsideLast(n)' = InsideLast(n) /\ Queued(n)'
      BY <2>1, <2>3, <2>4, QueuesAside DEF Queued
    <2> QED BY <1>1, <2>1, <2>5 DEF Ends, KickComing
  <1>4. CASE KickAtJoin
    <2>1. /\ proc.type = "kick" /\ proc' = NoEvent /\ UNCHANGED <<inbox, todo, sessions>>
          /\ SendKick(proc.nick)
      BY <1>4 DEF KickAtJoin
    <2>2. proc.nick \in Nicks
      BY <1>0, <2>1 DEF AtWork, NoEvent, Tick
    <2>3. PICK p \in Nicks : p = proc.nick
      BY <2>2
    <2>4. KickComing(p)' /\ (KickComing(n) => KickComing(n)')
      BY <2>1, <2>3, KickSent
    <2>5. Inside(n)' = Inside(n) /\ InsideNext(n)' = Inside(n) /\ Verdict(proc, n)' = "none"
      BY <1>0, <2>1 DEF Inside, InsideNext, Step
    <2>6. CASE n = p
      <3>1. Inside(n) = "out"
        BY <1>0, <2>1, <2>3, <2>6 DEF Verdict
      <3>2. (InsideLast(n)' = "in" => InsideLast(n) = "in") /\ Queued(n)'
        BY <1>0, <2>1, <2>5, <3>1, EventDone
      <3> QED BY <1>1, <2>4, <2>6, <3>2 DEF Ends
    <2>7. CASE n # p
      <3>1. InsideNext(n)' = InsideNext(n)
        BY <2>1, <2>3, <2>5, <2>7 DEF InsideNext, Verdict, Step
      <3>2. InsideLast(n)' = InsideLast(n) /\ Queued(n)'
        BY <1>0, <2>1, <2>5, <3>1, QueuesAside DEF Queued
      <3> QED BY <1>1, <2>4, <3>2 DEF Ends
    <2> QED BY <2>6, <2>7
  <1>5. CASE OpenSession \/ CloseSessions \/ Maintain
    <2>1. proc' = NoEvent /\ UNCHANGED <<inbox, todo, kicks>>
      BY <1>5 DEF OpenSession, CloseSessions, Maintain
    <2>2. Verdict(proc, n)' = "none"
      BY <1>0, <2>1
    <2>3. sessions'[n] \in {0, 1} /\ Inside(n)' = InsideNext(n)
      <3>1. CASE OpenSession
        <4>1. proc.type = "open" /\ proc.nick \in Nicks
          BY <1>0, <3>1 DEF OpenSession, AtWork, NoEvent, Tick
        <4>2. CASE proc.nick = n
          <5>1. sessions[n] = 0
            BY <1>0, <4>1, <4>2 DEF Verdict, Inside
          <5>2. sessions'[n] = 1
            BY <1>0, <3>1, <4>2, <5>1 DEF OpenSession
          <5> QED BY <4>1, <4>2, <5>2 DEF Inside, InsideNext, Verdict, Step
        <4>3. CASE proc.nick # n
          <5>1. sessions'[n] = sessions[n]
            BY <1>0, <3>1, <4>3 DEF OpenSession
          <5> QED BY <1>0, <4>3, <5>1 DEF Inside, InsideNext, Verdict, Step
        <4> QED BY <4>2, <4>3
      <3>2. CASE CloseSessions
        <4>1. proc.type = "user_quit" /\ proc.nick \in Nicks
          BY <1>0, <3>2 DEF CloseSessions, AtWork, NoEvent, Tick
        <4>2. CASE proc.nick = n
          <5>1. sessions'[n] = 0
            BY <1>0, <3>2, <4>2 DEF CloseSessions
          <5> QED BY <4>1, <4>2, <5>1 DEF Inside, InsideNext, Verdict, Step
        <4>3. CASE proc.nick # n
          <5>1. sessions'[n] = sessions[n]
            BY <1>0, <3>2, <4>3 DEF CloseSessions
          <5> QED BY <1>0, <4>3, <5>1 DEF Inside, InsideNext, Verdict, Step
        <4> QED BY <4>2, <4>3
      <3>3. CASE Maintain
        BY <1>0, <3>3 DEF Maintain, Inside, InsideNext, Verdict, Tick, Step
      <3> QED BY <1>5, <3>1, <3>2, <3>3
    <2>4. InsideNext(n)' = InsideNext(n)
      BY <2>2, <2>3 DEF InsideNext, Step
    <2>5. InsideLast(n)' = InsideLast(n) /\ Queued(n)'
      BY <2>1, <2>2, <2>3, <2>4, QueuesAside DEF Queued
    <2> QED BY <1>1, <2>1, <2>5 DEF Ends, KickComing
  <1> QED BY <1>2, <1>3, <1>4, <1>5 DEF ProcStep

\* Every action keeps the sessions behind the hub.
LEMMA SessionStep ==
  ASSUME Types, SessionInv, [Next]_vars
  PROVE  SessionInv'
  <1> USE DEF hubVars, socketVars, procVars, banVars, faultVars
  <1> SUFFICES ASSUME NEW n \in Nicks, n \notin unseen' PROVE Queued(n)' /\ Ends(n)'
    BY DEF SessionInv
  <1>0. Queued(n) /\ Ends(n)
    BY UnseenGrows DEF SessionInv
  <1>1. ASSUME UNCHANGED <<inbox, todo, proc, sessions, online>>, KickComing(n) => KickComing(n)'
        PROVE  Queued(n)' /\ Ends(n)'
    <2>1. Inside(n)' = Inside(n) /\ InsideNext(n)' = InsideNext(n)
      BY <1>1, BusAside
    <2>2. InsideLast(n)' = InsideLast(n) /\ Queued(n)'
      BY <1>0, <1>1, <2>1, QueuesAside DEF Queued
    <2> QED BY <1>0, <1>1, <2>2 DEF Ends
  <1>2. CASE HubStep
    BY <1>0, <1>2, HubSessions
  <1>3. CASE SocketStep \/ PublishTick \/ Lag
    BY <1>0, <1>3, SocketSessions
  <1>4. CASE ProcStep
    BY <1>0, <1>4, ProcSessions
  <1>5. ASSUME NEW m \in Mods, Kick(m) PROVE Queued(n)' /\ Ends(n)'
    <2>1. mod[m].nick \in Nicks
      BY <1>5 DEF Types, ModType, ModWork, Idle, Kick
    <2>2. SendKick(mod[m].nick)
      BY <1>5 DEF Kick
    <2>3. KickComing(n) => KickComing(n)'
      BY <2>1, <2>2, KickSent
    <2> QED BY <1>1, <1>5, <2>3 DEF Kick
  <1>6. ASSUME NEW m \in Mods, LookUp(m) \/ DeleteBan(m) PROVE Queued(n)' /\ Ends(n)'
    BY <1>1, <1>6 DEF LookUp, DeleteBan, KickComing
  <1>7. ASSUME NEW m \in Mods, NEW k \in Nicks, Ban(m, k) \/ KickUser(m, k) \/ Unban(m, k)
        PROVE  Queued(n)' /\ Ends(n)'
    BY <1>1, <1>7 DEF Ban, KickUser, Unban, KickComing
  <1>8. CASE AskList \/ BanExpires \/ UNCHANGED vars
    BY <1>1, <1>8 DEF AskList, BanExpires, vars, KickComing
  <1> QED BY <1>2, <1>3, <1>4, <1>5, <1>6, <1>7, <1>8 DEF Next, ModStep

\* Whenever joins, quits and kicks have been dealt with, every user online has one open
\* session and every other user none, except users whose events were lost.
THEOREM SessionsFollowHub == Spec => []SessionsFollow
  <1>1. Init => SessionInv
    <2> SUFFICES ASSUME Init, NEW n \in Nicks, n \notin unseen PROVE Queued(n) /\ Ends(n)
      BY DEF SessionInv
    <2>1. /\ sessions[n] = 0 /\ proc = NoEvent /\ inbox = <<>> /\ todo = <<>>
          /\ n \notin online
      BY DEF Init
    <2>2. Inside(n) = "out" /\ InsideNext(n) = "out" /\ Verdict(proc, n) = "none"
      BY <2>1 DEF Inside, InsideNext, Verdict, NoEvent, Step
    <2>3. InsideBus(n) = "out" /\ InsideLast(n) = "out"
      BY <2>1, <2>2 DEF InsideBus, InsideLast, After, AllNone, VerdictsOn
    <2>4. Queued(n)
      BY <2>1, <2>2 DEF Queued, Fit, VerdictsOn
    <2> QED BY <2>1, <2>3, <2>4 DEF Ends
  <1>2. Types /\ SessionInv /\ [Next]_vars => SessionInv'
    BY SessionStep
  <1>3. Types /\ SessionInv => SessionsFollow
    <2> SUFFICES ASSUME Types, SessionInv, Quiet, NEW n \in Nicks, n \notin unseen
                 PROVE  sessions[n] = IF n \in online THEN 1 ELSE 0
      BY DEF SessionsFollow
    <2>1. Queued(n) /\ Ends(n)
      BY DEF SessionInv
    <2>2. Verdict(proc, n) = "none"
      BY DEF Quiet, Verdict, NoEvent, Tick
    <2>3. AllNone(VerdictsOn(todo, n)) /\ AllNone(VerdictsOn(inbox, n))
      BY DEF Quiet, AllNone, VerdictsOn, Verdict, Tick
    <2>4. InsideLast(n) = Inside(n)
      BY <2>2, <2>3 DEF InsideLast, InsideBus, InsideNext, After, Step
    <2>5. ~KickComing(n)
      BY DEF Quiet, KickComing
    <2> QED BY <2>1, <2>4, <2>5 DEF Queued, Ends, Inside
  <1> QED BY <1>1, <1>2, <1>3, TypesAlways, PTL DEF Spec

--------------------------------------------------------------------------------
(* The bans.                                                                *)

\* Whether the processor has a ban check for the user ahead: of the event at hand, ...
Unchecked(n) == IF proc.type \in {"user_join", "kick"} /\ proc.nick = n THEN "in" ELSE "out"

\* ... of the last join that nobody undoes on the bus, ...
CheckBus(n) == After(VerdictsOn(todo, n), Unchecked(n))

\* ... and in the inbox.
CheckLast(n) == After(VerdictsOn(inbox, n), CheckBus(n))

KickSoon(n) ==
    \/ KickComing(n)
    \/ \E m \in Mods : mod[m].step = "kick" /\ mod[m].nick = n

\* A banned user is on the way out.  Without a connection only a kick will do, the check may
\* have been made.
Leaving(n) ==
    /\ n \in online => KickSoon(n) \/ CheckLast(n) = "in"
    /\ ~up => KickSoon(n)

BanInv == faults = 0 => \A n \in Nicks : Banned(n) => Leaving(n)

\* All bans are by chat.
ChatBans == \A m \in Mods : mod[m].step # "look"

\* Who is banned and online is about to be kicked or checked.
BannedAreLeaving ==
    faults = 0 => \A n \in Nicks : Banned(n) /\ n \in online => KickSoon(n) \/ CheckLast(n) = "in"

\* One more event counts last, ...
LEMMA EventGained ==
  ASSUME NEW m \in Nat, NEW s, NEW t, NEW n, NEW was,
         DOMAIN s = 1 .. m, DOMAIN t = 1 .. m + 1, \A i \in 1 .. m : t[i] = s[i]
  PROVE  After(VerdictsOn(t, n), was) = Step(After(VerdictsOn(s, n), was), Verdict(t[m + 1], n))
  <1> DEFINE vs == VerdictsOn(s, n)
             vt == VerdictsOn(t, n)
  <1>1. /\ DOMAIN vs = 1 .. m /\ DOMAIN vt = 1 .. m + 1
        /\ \A i \in 1 .. m : vt[i] = vs[i]
        /\ vt[m + 1] = Verdict(t[m + 1], n)
    BY DEF VerdictsOn
  <1>2. Verdict(t[m + 1], n) \in Verdicts
    BY VerdictTyped
  <1> HIDE DEF vs, vt
  <1>3. After(vt, was) = Step(After(vs, was), vt[m + 1])
    BY <1>1, <1>2, OneMore
  <1> QED BY <1>1, <1>3 DEF vs, vt

\* ... and the one taken counts first.
LEMMA EventTaken ==
  ASSUME NEW m \in Nat \ {0}, NEW s, NEW t, NEW n, NEW was,
         DOMAIN s = 1 .. m, DOMAIN t = 1 .. m - 1, \A i \in 1 .. m - 1 : t[i] = s[i + 1]
  PROVE  After(VerdictsOn(s, n), was) = After(VerdictsOn(t, n), Step(was, Verdict(s[1], n)))
  <1> DEFINE vs == VerdictsOn(s, n)
             vt == VerdictsOn(t, n)
  <1>1. /\ DOMAIN vs = 1 .. m /\ DOMAIN vt = 1 .. m - 1
        /\ \A i \in 1 .. m - 1 : vt[i] = vs[i + 1]
        /\ vs[1] = Verdict(s[1], n)
    BY DEF VerdictsOn
  <1>2. Verdict(s[1], n) \in Verdicts
    BY VerdictTyped
  <1> HIDE DEF vs, vt
  <1>3. After(vs, was) = After(vt, Step(was, vs[1]))
    BY <1>1, <1>2, FirstTaken
  <1> QED BY <1>1, <1>3 DEF vs, vt

\* So it is in the inbox ...
LEMMA InboxMoves ==
  ASSUME Types, NEW n, NEW was
  PROVE  /\ \A e \in Events : inbox' = Append(inbox, e) =>
                After(VerdictsOn(inbox', n), was)
                    = Step(After(VerdictsOn(inbox, n), was), Verdict(e, n))
         /\ inbox # <<>> /\ inbox' = Tail(inbox) =>
                After(VerdictsOn(inbox, n), was)
                    = After(VerdictsOn(inbox', n), Step(was, Verdict(Head(inbox), n)))
  <1>1. ASSUME NEW e \in Events, inbox' = Append(inbox, e)
        PROVE  After(VerdictsOn(inbox', n), was)
                   = Step(After(VerdictsOn(inbox, n), was), Verdict(e, n))
    <2>1. /\ Len(inbox) \in Nat /\ DOMAIN inbox = 1 .. Len(inbox)
          /\ DOMAIN inbox' = 1 .. Len(inbox) + 1
          /\ \A i \in 1 .. Len(inbox) : inbox'[i] = inbox[i]
          /\ inbox'[Len(inbox) + 1] = e
      BY <1>1, InboxShape
    <2>2. After(VerdictsOn(inbox', n), was)
              = Step(After(VerdictsOn(inbox, n), was), Verdict(inbox'[Len(inbox) + 1], n))
      BY ONLY <2>1, EventGained
    <2> QED BY <2>1, <2>2
  <1>2. ASSUME inbox # <<>>, inbox' = Tail(inbox)
        PROVE  After(VerdictsOn(inbox, n), was)
                   = After(VerdictsOn(inbox', n), Step(was, Verdict(Head(inbox), n)))
    <2>1. /\ Len(inbox) \in Nat \ {0} /\ DOMAIN inbox = 1 .. Len(inbox)
          /\ DOMAIN inbox' = 1 .. Len(inbox) - 1
          /\ \A i \in 1 .. Len(inbox) - 1 : inbox'[i] = inbox[i + 1]
          /\ inbox[1] = Head(inbox)
      BY <1>2, InboxShape
    <2>2. After(VerdictsOn(inbox, n), was)
              = After(VerdictsOn(inbox', n), Step(was, Verdict(inbox[1], n)))
      BY ONLY <2>1, EventTaken
    <2> QED BY <2>1, <2>2
  <1> QED BY <1>1, <1>2

\* ... and on the bus.
LEMMA BusMoves ==
  ASSUME Types, NEW n, NEW was
  PROVE  /\ \A e \in BusEvents : todo' = Append(todo, e) =>
                After(VerdictsOn(todo', n), was)
                    = Step(After(VerdictsOn(todo, n), was), Verdict(e, n))
         /\ todo # <<>> /\ todo' = Tail(todo) =>
                After(VerdictsOn(todo, n), was)
                    = After(VerdictsOn(todo', n), Step(was, Verdict(Head(todo), n)))
  <1>1. ASSUME NEW e \in BusEvents, todo' = Append(todo, e)
        PROVE  After(VerdictsOn(todo', n), was)
                   = Step(After(VerdictsOn(todo, n), was), Verdict(e, n))
    <2>1. /\ Len(todo) \in Nat /\ DOMAIN todo = 1 .. Len(todo)
          /\ DOMAIN todo' = 1 .. Len(todo) + 1
          /\ \A i \in 1 .. Len(todo) : todo'[i] = todo[i]
          /\ todo'[Len(todo) + 1] = e
      BY <1>1, TodoShape
    <2>2. After(VerdictsOn(todo', n), was)
              = Step(After(VerdictsOn(todo, n), was), Verdict(todo'[Len(todo) + 1], n))
      BY ONLY <2>1, EventGained
    <2> QED BY <2>1, <2>2
  <1>2. ASSUME todo # <<>>, todo' = Tail(todo)
        PROVE  After(VerdictsOn(todo, n), was)
                   = After(VerdictsOn(todo', n), Step(was, Verdict(Head(todo), n)))
    <2>1. /\ Len(todo) \in Nat \ {0} /\ DOMAIN todo = 1 .. Len(todo)
          /\ DOMAIN todo' = 1 .. Len(todo) - 1
          /\ \A i \in 1 .. Len(todo) - 1 : todo'[i] = todo[i + 1]
          /\ todo[1] = Head(todo)
      BY <1>2, TodoShape
    <2>2. After(VerdictsOn(todo, n), was)
              = After(VerdictsOn(todo', n), Step(was, Verdict(todo[1], n)))
      BY ONLY <2>1, EventTaken
    <2> QED BY <2>1, <2>2
  <1> QED BY <1>1, <1>2

\* The first kick carried out, the others are still coming.
LEMMA FirstKicked ==
  ASSUME Types, kicks # <<>>, kicks' = Tail(kicks), NEW n, n # Head(kicks), KickComing(n)
  PROVE  KickComing(n)'
  <1>1. kicks \in Seq(Nicks)
    BY DEF Types, ModType
  <1>2. kicks' = SubSeq(kicks, 1 + 1, Len(kicks)) /\ 1 \in 0 .. Len(kicks)
    <2>1. Len(kicks) \in Nat \ {0}
      BY <1>1, EmptySeq, LenProperties
    <2> QED BY <1>1, <2>1
  <1>3. n \notin {kicks[i] : i \in 1 .. 1}
    BY <1>1
  <1> QED BY <1>2, <1>3, KicksLeft

\* A report of the hub is the last word, if it gets through.
LEMMA ReportChecks ==
  ASSUME Types, NEW e \in Events, Report(e), UNCHANGED <<up, todo, proc, kicks, mod>>, NEW n,
         Leaving(n)
  PROVE  /\ up => CheckLast(n)' = Step(CheckLast(n), Verdict(e, n))
         /\ KickSoon(n) => Leaving(n)'
         /\ ~up => Leaving(n)'
  <1>1. KickSoon(n)' = KickSoon(n)
    BY DEF KickSoon, KickComing
  <1>2. CASE up
    <2>1. inbox' = Append(inbox, e)
      BY <1>2 DEF Report
    <2>2. CheckBus(n)' = CheckBus(n)
      BY DEF CheckBus, Unchecked
    <2>3. CheckLast(n)' = Step(CheckLast(n), Verdict(e, n))
      BY <2>1, <2>2, InboxMoves DEF CheckLast
    <2> QED BY <1>1, <1>2, <2>3 DEF Leaving
  <1>3. CASE ~up
    BY <1>1, <1>3 DEF Leaving
  <1> QED BY <1>2, <1>3

\* Whatever the hub does, no failure among it, who is banned stays on the way out.
LEMMA HubBans ==
  ASSUME Types, HubStep, faults' = faults, NEW n \in Nicks, Leaving(n)
  PROVE  Leaving(n)'
  <1> USE DEF hubVars, socketVars, procVars, banVars, faultVars
  <1>1. ~LinkDown
    BY DEF LinkDown, Fault, Types, ProcType
  <1>2. ASSUME NEW k \in Nicks, HubLogin(k) PROVE Leaving(n)'
    <2>1. PICK e \in Events : e = [type |-> "user_join", nick |-> k]
      BY DEF Events
    <2>2. Report(e) /\ UNCHANGED <<up, todo, proc, kicks, mod>> /\ online' = online \cup {k}
      BY <1>2, <2>1 DEF HubLogin
    <2>3. Verdict(e, n) = IF n = k THEN "in" ELSE "none"
      BY <2>1 DEF Verdict
    <2> QED BY <2>2, <2>3, ReportChecks DEF Leaving, Step
  <1>3. ASSUME NEW k \in Nicks, HubInfo(k) PROVE Leaving(n)'
    <2>1. PICK e \in Events : e = [type |-> "myinfo", nick |-> k]
      BY DEF Events
    <2>2. Report(e) /\ UNCHANGED <<up, todo, proc, kicks, mod, online>>
      BY <1>3, <2>1 DEF HubInfo
    <2>3. Verdict(e, n) = "none"
      BY <2>1 DEF Verdict
    <2> QED BY <2>2, <2>3, ReportChecks DEF Leaving, Step
  <1>4. ASSUME NEW k \in Nicks, HubQuit(k) PROVE Leaving(n)'
    <2>1. PICK e \in Events : e = [type |-> "user_quit", nick |-> k]
      BY DEF Events
    <2>2. Report(e) /\ UNCHANGED <<up, todo, proc, kicks, mod>> /\ online' = online \ {k}
      BY <1>4, <2>1 DEF HubQuit, Leaves
    <2>3. n # k => Verdict(e, n) = "none"
      BY <2>1 DEF Verdict
    <2> QED BY <2>2, <2>3, ReportChecks DEF Leaving, Step
  <1>5. CASE HubLists
    <2>1. PICK e \in Events : e = [type |-> "user_list", users |-> online]
      BY DEF Events, Types, HubType
    <2>2. Report(e) /\ UNCHANGED <<up, todo, proc, kicks, mod, online>>
      BY <1>5, <2>1 DEF HubLists, Report
    <2>3. Verdict(e, n) = "none"
      BY <2>1 DEF Verdict
    <2> QED BY <2>2, <2>3, ReportChecks DEF Leaving, Step
  <1>6. CASE LinkUp
    <2>1. UNCHANGED <<inbox, todo, proc, online, kicks, mod>>
      BY <1>6 DEF LinkUp
    <2>2. KickSoon(n)
      BY <1>6 DEF LinkUp, Leaving
    <2> QED BY <2>1, <2>2 DEF KickSoon, KickComing, Leaving
  <1>7. CASE HubKicks
    <2>1. /\ up /\ up' /\ kicks # <<>> /\ kicks' = Tail(kicks) /\ UNCHANGED <<todo, proc, mod>>
      BY <1>7 DEF HubKicks
    <2>2. PICK h \in Nicks : h = Head(kicks)
      BY <2>1, HeadTailProperties DEF Types, ModType
    <2>3. n # h /\ KickSoon(n) => KickSoon(n)'
      BY <2>1, <2>2, FirstKicked DEF KickSoon
    <2>4. CheckBus(n)' = CheckBus(n)
      BY <2>1 DEF CheckBus, Unchecked
    <2>5. CASE h \in online
      <3>1. PICK e \in Events : e = [type |-> "user_quit", nick |-> h]
        BY DEF Events
      <3>2. Report(e) /\ online' = online \ {h}
        BY <1>7, <2>2, <2>5, <3>1 DEF HubKicks, Leaves
      <3>3. inbox' = Append(inbox, e)
        BY <2>1, <3>2 DEF Report
      <3>4. n # h => Verdict(e, n) = "none"
        BY <3>1 DEF Verdict
      <3>5. CheckLast(n)' = Step(CheckLast(n), Verdict(e, n))
        BY <2>4, <3>3, InboxMoves DEF CheckLast
      <3> QED BY <2>1, <2>3, <3>2, <3>4, <3>5 DEF Leaving, Step
    <2>6. CASE h \notin online
      <3>1. UNCHANGED <<online, inbox>>
        BY <1>7, <2>2, <2>6 DEF HubKicks
      <3>2. CheckLast(n)' = CheckLast(n)
        BY <2>4, <3>1 DEF CheckLast
      <3> QED BY <2>1, <2>3, <2>6, <3>1, <3>2 DEF Leaving
    <2> QED BY <2>5, <2>6
  <1> QED BY <1>1, <1>2, <1>3, <1>4, <1>5, <1>6, <1>7 DEF HubStep

\* Neither the socket task nor the bus loses a check.
LEMMA SocketBans ==
  ASSUME Types, SocketStep \/ PublishTick, NEW n, Leaving(n)
  PROVE  Leaving(n)'
  <1> USE DEF hubVars, socketVars, procVars, banVars, faultVars
  <1>1. UNCHANGED <<up, online, proc, kicks, mod>>
    BY DEF SocketStep, HandleJoin, HandleInfo, HandleQuit, HandleList, PublishTick
  <1>2. Unchecked(n)' = Unchecked(n) /\ KickSoon(n)' = KickSoon(n)
    BY <1>1 DEF Unchecked, KickSoon, KickComing
  <1>3. CASE HandleJoin \/ HandleQuit
    <2>1. /\ inbox # <<>> /\ inbox' = Tail(inbox) /\ todo' = Append(todo, Head(inbox))
          /\ Head(inbox).type \in {"user_join", "user_quit"}
      BY <1>3 DEF HandleJoin, HandleQuit, NextEvent
    <2>2. Head(inbox) \in BusEvents
      BY <2>1, InboxTyped DEF Types
    <2>3. CheckBus(n)' = Step(CheckBus(n), Verdict(Head(inbox), n))
      BY <1>2, <2>1, <2>2, BusMoves DEF CheckBus
    <2>4. CheckLast(n)' = CheckLast(n)
      BY <2>1, <2>3, InboxMoves DEF CheckLast
    <2> QED BY <1>1, <1>2, <2>4 DEF Leaving
  <1>4. CASE HandleInfo \/ HandleList
    <2>1. /\ inbox # <<>> /\ inbox' = Tail(inbox) /\ todo' = todo
          /\ Head(inbox).type \in {"myinfo", "user_list"}
      BY <1>4 DEF HandleInfo, HandleList, NextEvent
    <2>2. CheckBus(n)' = CheckBus(n) /\ Verdict(Head(inbox), n) = "none"
      BY <1>2, <2>1 DEF CheckBus, Verdict
    <2>3. CheckLast(n)' = CheckLast(n)
      BY <2>1, <2>2, InboxMoves DEF CheckLast, Step
    <2> QED BY <1>1, <1>2, <2>3 DEF Leaving
  <1>5. CASE PublishTick
    <2>1. todo' = Append(todo, Tick) /\ inbox' = inbox
      BY <1>5 DEF PublishTick
    <2>2. Tick \in BusEvents /\ Verdict(Tick, n) = "none"
      BY DEF BusEvents, Verdict, Tick
    <2>3. CheckBus(n)' = CheckBus(n)
      BY <1>2, <2>1, <2>2, BusMoves DEF CheckBus, Step
    <2>4. CheckLast(n)' = CheckLast(n)
      BY <2>1, <2>3 DEF CheckLast
    <2> QED BY <1>1, <1>2, <2>4 DEF Leaving
  <1> QED BY <1>3, <1>4, <1>5 DEF SocketStep

\* The processor drops a check only to make it, and a kick it owes only to send it.
LEMMA ProcBans ==
  ASSUME Types, ProcStep, faults' = faults, NEW n \in Nicks, Banned(n), Leaving(n)
  PROVE  Leaving(n)'
  <1> USE DEF hubVars, socketVars, procVars, banVars, faultVars
  <1>0. ~Fault
    BY DEF Fault, Types, ProcType
  <1>1. UNCHANGED <<up, online, inbox, mod>>
    BY DEF ProcStep, Receive, CheckBan, KickAtJoin, OpenSession, CloseSessions, Maintain
  <1>2. ASSUME UNCHANGED <<todo, kicks>>, Unchecked(n)' = Unchecked(n) PROVE Leaving(n)'
    <2>1. CheckLast(n)' = CheckLast(n)
      BY <1>1, <1>2 DEF CheckLast, CheckBus
    <2> QED BY <1>1, <1>2, <2>1 DEF Leaving, KickSoon, KickComing
  <1>3. CASE Receive
    <2>1. /\ todo # <<>> /\ todo' = Tail(todo) /\ proc = NoEvent /\ proc' = Head(todo)
          /\ kicks' = kicks
      BY <1>3 DEF Receive
    <2>2. Head(todo) \in BusEvents
      BY <2>1, HeadTailProperties DEF Types, ProcType
    <2>3. Unchecked(n) = "out" /\ Unchecked(n)' = Step("out", Verdict(Head(todo), n))
      BY <2>1, <2>2 DEF Unchecked, Step, Verdict, NoEvent, BusEvents, Tick
    <2>4. CheckBus(n)' = CheckBus(n)
      BY <2>1, <2>3, BusMoves DEF CheckBus
    <2>5. CheckLast(n)' = CheckLast(n)
      BY <1>1, <2>4 DEF CheckLast
    <2> QED BY <1>1, <2>1, <2>5 DEF Leaving, KickSoon, KickComing
  <1>4. CASE CheckBan
    <2>1. /\ proc.type = "user_join" /\ UNCHANGED <<todo, kicks>>
          /\ proc' = [proc EXCEPT !.type = IF Banned(proc.nick) THEN "kick" ELSE "open"]
      BY <1>0, <1>4 DEF CheckBan
    <2>2. proc \in [type : {"user_join", "open", "kick", "user_quit"}, nick : Nicks]
      BY <2>1 DEF Types, ProcType, AtWork, NoEvent, Tick
    <2>3. proc'.nick = proc.nick /\ proc'.type \in {"kick", "open"}
      BY <2>1, <2>2
    <2>4. proc.nick = n => proc'.type = "kick"
      BY <2>1, <2>2
    <2>5. Unchecked(n)' = Unchecked(n)
      BY <2>1, <2>3, <2>4 DEF Unchecked
    <2> QED BY <1>2, <2>1, <2>5
  <1>5. CASE KickAtJoin
    <2>1. /\ proc.type = "kick" /\ proc' = NoEvent /\ todo' = todo /\ SendKick(proc.nick)
      BY <1>5 DEF KickAtJoin
    <2>2. PICK p \in Nicks : p = proc.nick
      BY <2>1 DEF Types, ProcType, AtWork, NoEvent, Tick
    <2>3. KickComing(p)' /\ (KickComing(n) => KickComing(n)')
      BY <2>1, <2>2, KickSent
    <2>4. KickSoon(n) => KickSoon(n)'
      BY <1>1, <2>3 DEF KickSoon
    <2>5. CASE n = p
      BY <2>3, <2>5 DEF Leaving, KickSoon
    <2>6. CASE n # p
      <3>1. Unchecked(n)' = Unchecked(n)
        BY <2>1, <2>2, <2>6 DEF Unchecked, NoEvent
      <3>2. CheckLast(n)' = CheckLast(n)
        BY <1>1, <2>1, <3>1 DEF CheckLast, CheckBus
      <3> QED BY <1>1, <2>4, <3>2 DEF Leaving
    <2> QED BY <2>5, <2>6
  <1>6. CASE OpenSession \/ CloseSessions \/ Maintain
    <2>1. /\ proc.type \notin {"user_join", "kick"} /\ proc' = NoEvent /\ UNCHANGED <<todo, kicks>>
      BY <1>6 DEF OpenSession, CloseSessions, Maintain, Tick
    <2>2. Unchecked(n)' = Unchecked(n)
      BY <2>1 DEF Unchecked, NoEvent
    <2> QED BY <1>2, <2>1, <2>2
  <1> QED BY <1>3, <1>4, <1>5, <1>6 DEF ProcStep

\* A moderator owes a kick from the ban on, unless a REST request looks the user up first.
LEMMA ModBans ==
  ASSUME Types, ChatBans, ChatBans', NEW n \in Nicks, Banned(n) => Leaving(n), Banned(n)',
         \/ \E m \in Mods, k \in Nicks : Ban(m, k) \/ KickUser(m, k) \/ Unban(m, k)
         \/ \E m \in Mods : ModStep(m)
         \/ BanExpires
  PROVE  Leaving(n)'
  <1> USE DEF hubVars, socketVars, procVars, banVars, faultVars
  <1>0. mod \in [Mods -> ModWork]
    BY DEF Types, ModType
  <1>1. UNCHANGED <<up, online, inbox, todo, proc>>
    BY DEF Ban, KickUser, Unban, ModStep, LookUp, Kick, DeleteBan, BanExpires
  <1>2. CheckLast(n)' = CheckLast(n)
    BY <1>1 DEF CheckLast, CheckBus, Unchecked
  <1>3. ASSUME Banned(n), KickSoon(n) => KickSoon(n)' PROVE Leaving(n)'
    BY <1>1, <1>2, <1>3 DEF Leaving
  <1>4. ASSUME NEW m \in Mods, NEW w \in ModWork, mod' = [mod EXCEPT ![m] = w],
               mod[m].step # "kick", UNCHANGED kicks
        PROVE  KickSoon(n) => KickSoon(n)'
    <2>1. \A l \in Mods : l # m => mod'[l] = mod[l]
      BY <1>0, <1>4
    <2> QED BY <1>4, <2>1 DEF KickSoon, KickComing
  <1>5. ASSUME NEW m \in Mods, NEW k \in Nicks, Ban(m, k) PROVE Leaving(n)'
    <2>1. mod[m] = Idle /\ kicks' = kicks /\ bans' = bans \cup {[nick |-> k, id |-> banId + 1]}
      BY <1>5 DEF Ban, CreateBan
    <2>2. mod' = [mod EXCEPT ![m] = [step |-> "kick", nick |-> k]]
      <3>1. mod' = [mod EXCEPT ![m] = [step |-> "look", nick |-> k]] => mod'[m].step = "look"
        BY <1>0
      <3> QED BY <1>5, <3>1 DEF Ban, ChatBans
    <2>3. CASE n = k
      <3>1. mod'[m].step = "kick" /\ mod'[m].nick = n
        BY <1>0, <2>2, <2>3
      <3> QED BY <3>1 DEF Leaving, KickSoon
    <2>4. CASE n # k
      <3>1. Banned(n)
        BY <2>1, <2>4 DEF Banned
      <3>2. [step |-> "kick", nick |-> k] \in ModWork
        BY DEF ModWork
      <3>3. mod[m].step # "kick"
        BY <2>1 DEF Idle
      <3> QED BY <1>3, <1>4, <2>1, <2>2, <3>1, <3>2, <3>3
    <2> QED BY <2>3, <2>4
  <1>6. ASSUME NEW m \in Mods, NEW k \in Nicks, KickUser(m, k) PROVE Leaving(n)'
    <2>1. /\ mod[m].step # "kick" /\ mod' = [mod EXCEPT ![m] = [step |-> "kick", nick |-> k]]
          /\ UNCHANGED <<kicks, bans>>
      BY <1>6 DEF KickUser, Idle
    <2>2. [step |-> "kick", nick |-> k] \in ModWork
      BY DEF ModWork
    <2>3. Banned(n)
      BY <2>1 DEF Banned
    <2> QED BY <1>3, <1>4, <2>1, <2>2, <2>3
  <1>7. ASSUME NEW m \in Mods, NEW k \in Nicks, Unban(m, k) PROVE Leaving(n)'
    <2>1. /\ mod[m].step # "kick" /\ UNCHANGED <<kicks, bans>>
          /\ mod' = [mod EXCEPT ![m] = [step |-> "delete", nick |-> k, ban |-> ActiveBan(k)]]
          /\ Banned(k)
      BY <1>7 DEF Unban, Idle
    <2>2. [step |-> "delete", nick |-> k, ban |-> ActiveBan(k)] \in ModWork
      BY <2>1, LatestBan DEF ModWork, Types, ModType
    <2>3. Banned(n)
      BY <2>1 DEF Banned
    <2> QED BY <1>3, <1>4, <2>1, <2>2, <2>3
  <1>8. ASSUME NEW m \in Mods, DeleteBan(m) PROVE Leaving(n)'
    <2>1. mod[m].step # "kick" /\ kicks' = kicks /\ mod' = [mod EXCEPT ![m] = Idle]
      BY <1>8 DEF DeleteBan
    <2>2. Banned(n)
      BY <1>8 DEF DeleteBan, Banned
    <2>3. Idle \in ModWork
      BY DEF ModWork
    <2> QED BY <1>3, <1>4, <2>1, <2>2, <2>3
  <1>9. ASSUME NEW m \in Mods, Kick(m) PROVE Leaving(n)'
    <2>1. /\ mod[m].step = "kick" /\ SendKick(mod[m].nick) /\ mod' = [mod EXCEPT ![m] = Idle]
          /\ bans' = bans
      BY <1>9 DEF Kick
    <2>2. PICK h \in Nicks : h = mod[m].nick
      BY <1>0, <2>1 DEF ModWork, Idle
    <2>3. KickComing(h)' /\ (KickComing(n) => KickComing(n)')
      BY <2>1, <2>2, KickSent
    <2>4. \A l \in Mods : l # m => mod'[l] = mod[l]
      BY <1>0, <2>1
    <2>5. KickSoon(n) => KickSoon(n)'
      BY <2>2, <2>3, <2>4 DEF KickSoon
    <2>6. Banned(n)
      BY <2>1 DEF Banned
    <2> QED BY <1>3, <2>5, <2>6
  <1>10. ASSUME NEW m \in Mods, LookUp(m) PROVE FALSE
    BY <1>10 DEF LookUp, ChatBans
  <1>11. CASE BanExpires
    <2>1. UNCHANGED <<kicks, mod>> /\ Banned(n)
      BY <1>11 DEF BanExpires, Banned
    <2> QED BY <1>3, <2>1 DEF KickSoon, KickComing
  <1> QED BY <1>5, <1>6, <1>7, <1>8, <1>9, <1>10, <1>11 DEF ModStep

\* Failures are counted.
LEMMA FaultsGrow ==
  ASSUME Types, [Next]_vars
  PROVE  faults \in Nat /\ faults' \in Nat /\ faults <= faults'
  <1> USE DEF hubVars, socketVars, procVars, banVars, faultVars
  <1>1. faults \in Nat
    BY DEF Types, ProcType
  <1>2. SUFFICES faults' = faults \/ faults' = faults + 1
    BY <1>1
  <1>3. CASE HubStep
    BY <1>3 DEF HubStep, HubLogin, HubInfo, HubQuit, HubLists, HubKicks, LinkDown, LinkUp, Fault
  <1>4. CASE SocketStep \/ PublishTick \/ Lag \/ AskList \/ BanExpires \/ UNCHANGED vars
    BY <1>4 DEF SocketStep, HandleJoin, HandleInfo, HandleQuit, HandleList, PublishTick, Lag, Fault,
                AskList, BanExpires, vars
  <1>5. CASE ProcStep
    BY <1>5 DEF ProcStep, Receive, CheckBan, KickAtJoin, OpenSession, CloseSessions, Maintain, Fault
  <1>6. ASSUME NEW m \in Mods, NEW n \in Nicks, Ban(m, n) \/ KickUser(m, n) \/ Unban(m, n)
        PROVE  faults' = faults
    BY <1>6 DEF Ban, KickUser, Unban
  <1>7. ASSUME NEW m \in Mods, ModStep(m) PROVE faults' = faults \/ faults' = faults + 1
    BY <1>7 DEF ModStep, LookUp, Kick, DeleteBan, Fault
  <1> QED BY <1>3, <1>4, <1>5, <1>6, <1>7 DEF Next

\* Every action keeps the banned on the way out.
LEMMA BanStep ==
  ASSUME Types, BanInv, ChatBans, ChatBans', [Next]_vars
  PROVE  BanInv'
  <1> USE DEF hubVars, socketVars, procVars, banVars, faultVars
  <1>1. faults \in Nat /\ faults' \in Nat /\ faults <= faults'
    BY FaultsGrow
  <1> SUFFICES ASSUME faults = 0, faults' = faults, NEW n \in Nicks, Banned(n) => Leaving(n),
                      Banned(n)'
               PROVE  Leaving(n)'
    BY <1>1 DEF BanInv
  <1>2. CASE HubStep
    <2>1. bans' = bans
      BY <1>2 DEF HubStep, HubLogin, HubInfo, HubQuit, HubLists, HubKicks, LinkDown, LinkUp
    <2> QED BY <1>2, <2>1, HubBans DEF Banned
  <1>3. CASE SocketStep \/ PublishTick
    <2>1. bans' = bans
      BY <1>3 DEF SocketStep, HandleJoin, HandleInfo, HandleQuit, HandleList, PublishTick
    <2> QED BY <1>3, <2>1, SocketBans DEF Banned
  <1>4. CASE ProcStep
    <2>1. bans' = bans
      BY <1>4 DEF ProcStep, Receive, CheckBan, KickAtJoin, OpenSession, CloseSessions, Maintain
    <2> QED BY <1>4, <2>1, ProcBans DEF Banned
  <1>5. CASE Lag
    BY <1>5 DEF Lag, Fault, Types, ProcType
  <1>6. CASE AskList \/ UNCHANGED vars
    <2>1. UNCHANGED <<up, online, inbox, todo, proc, bans, mod, kicks>>
      BY <1>6 DEF AskList, vars
    <2> QED BY <2>1 DEF Banned, Leaving, KickSoon, KickComing, CheckLast, CheckBus, Unchecked
  <1>7. CASE \/ \E m \in Mods, k \in Nicks : Ban(m, k) \/ KickUser(m, k) \/ Unban(m, k)
             \/ \E m \in Mods : ModStep(m)
             \/ BanExpires
    BY <1>7, ModBans
  <1> QED BY <1>2, <1>3, <1>4, <1>5, <1>6, <1>7 DEF Next

\* As long as nothing fails and no ban is a REST request, a banned user who is online has a
\* kick coming or a moderator about to send it, or the processor still checks the login
\* (db/event_processor.rs:71-77, bot/commands/mod.rs:515-519).
THEOREM BannedAreOnTheirWayOut == Spec /\ []ChatBans => []BannedAreLeaving
  <1>1. Init => BanInv
    BY DEF Init, BanInv, Banned
  <1>2. Types /\ BanInv /\ ChatBans /\ ChatBans' /\ [Next]_vars => BanInv'
    BY BanStep
  <1>3. BanInv => BannedAreLeaving
    BY DEF BanInv, BannedAreLeaving, Leaving
  <1> QED BY <1>1, <1>2, <1>3, TypesAlways, PTL DEF Spec

================================================================================
