---------------------------------- MODULE OpChat ----------------------------------
(***************************************************************************)
(* OPChat (src/src/opchat.rs): a private message to it is relayed to every *)
(* operator in the user map but its sender, one by one, with the map's     *)
(* lock held for reading from the first to the last.  What the lock does   *)
(* to the rest of the gateway is module HubLink.                           *)
(***************************************************************************)
EXTENDS EventBus

CONSTANTS
    People,     \* users that may be operators
    Outsider,   \* a sender who is none of them
    MaxOpTurns  \* bound on the comings and goings of operators

ASSUME OpChatAssumption ==
    /\ Outsider \notin People
    /\ MaxOpTurns \in Nat

VARIABLES
    op,       \* who is an operator in the user map, and how many events there were when
              \* that last changed
    opAt,     \* the relay's place on the bus
    line,     \* what it is doing: the step, the line's sender and who is yet to get it
    lines,    \* the senders of the lines it received, by event
    hears,    \* per person: the lines relayed to it
    opTurns

opVars == <<op, opAt, line, lines, hears, opTurns>>

NoLine == [step |-> "none", from |-> Outsider, left |-> {}]

OpInit ==
    /\ op = [p \in People |-> [on |-> FALSE, since |-> 0]]
    /\ opAt = 0
    /\ line = NoLine
    /\ lines = <<>>
    /\ hears = [p \in People |-> <<>>]
    /\ opTurns = 0

--------------------------------------------------------------------------------
(* The socket task writes the user map.  Only the list says who is an      *)
(* operator: whoever sends its info is none until the next list.            *)

MapShows(ops) ==
    /\ opTurns < MaxOpTurns
    /\ opTurns' = opTurns + 1
    /\ op' = [p \in People |-> IF op[p].on = (p \in ops) THEN op[p]
                               ELSE [on |-> p \in ops, since |-> Len(log)]]
    /\ UNCHANGED <<log, opAt, line, lines, hears>>

ListedOps == {p \in People : op[p].on}

HandleList ==
    /\ line.step # "relay"
    /\ \E ops \in SUBSET People \ {ListedOps} : MapShows(ops)

\* Mutant of HandleInfoOrQuit: it does not wait for the lock.
HandleAtOnce(p) ==
    /\ p \in ListedOps
    /\ MapShows(ListedOps \ {p})

HandleInfoOrQuit(p) ==
    /\ line.step # "relay"
    /\ p \in ListedOps
    /\ MapShows(ListedOps \ {p})

--------------------------------------------------------------------------------

RelayLags ==
    /\ line = NoLine
    /\ Pending(opAt, log) /\ Lags(opAt, log, Capacity)
    /\ opAt' = Oldest(log, Capacity)
    /\ UNCHANGED <<log, op, line, lines, hears, opTurns>>

\* Most private messages are for others.
ReceiveLine ==
    /\ line = NoLine
    /\ Pending(opAt, log) /\ ~Lags(opAt, log, Capacity)
    /\ opAt' = opAt + 1
    /\ \/ /\ log[opAt'] = "pm"
          /\ \E from \in People \cup {Outsider} :
              /\ line' = [step |-> "lock", from |-> from, left |-> {}]
              /\ lines' = Append(lines, [event |-> opAt', from |-> from])
       \/ UNCHANGED <<line, lines>>
    /\ UNCHANGED <<log, op, hears, opTurns>>

LockUsers ==
    /\ line.step = "lock"
    /\ line' = [line EXCEPT !.step = "relay", !.left = ListedOps \ {line.from}]
    /\ UNCHANGED <<log, op, opAt, lines, hears, opTurns>>

RelayTo(p) ==
    /\ p \in line.left
    /\ line' = [line EXCEPT !.left = @ \ {p}]
    /\ hears' = [hears EXCEPT ![p] = Append(@, opAt)]
    /\ UNCHANGED <<log, op, opAt, lines, opTurns>>

EndRelay ==
    /\ line.step = "relay" /\ line.left = {}
    /\ line' = NoLine
    /\ UNCHANGED <<log, op, opAt, lines, hears, opTurns>>

OpNext ==
    \/ HandleList
    \/ \E p \in People : HandleInfoOrQuit(p) \/ RelayTo(p)
    \/ RelayLags \/ ReceiveLine \/ LockUsers \/ EndRelay

--------------------------------------------------------------------------------
(* Properties.                                                              *)

OpTypeOK ==
    /\ op \in [People -> [on : BOOLEAN, since : 0 .. Len(log)]]
    /\ opAt \in 0 .. Len(log)
    /\ line \in [step : {"none", "lock", "relay"}, from : People \cup {Outsider},
                 left : SUBSET People]
    /\ lines \in Seq([event : 1 .. Len(log), from : People \cup {Outsider}])
    /\ hears \in [People -> Seq(1 .. Len(log))]
    /\ opTurns \in 0 .. MaxOpTurns

\* Whoever the user map shows as an operator gets every line received since it does, but
\* its own, once and in order; and nobody gets one whom it does not show any more when
\* the line is sent (opchat.rs:42-73).  "All online operators" (opchat.rs:4) it is not:
\* an operator who sends its info gets nothing until the next list.
OpsHear ==
    /\ line.left \subseteq ListedOps
    /\ \A p \in People :
        /\ \A i, j \in DOMAIN hears[p] : i < j => hears[p][i] < hears[p][j]
        /\ op[p].on =>
              \A i \in DOMAIN lines :
                  (/\ lines[i].event > op[p].since
                   /\ lines[i].from # p
                   /\ lines[i].event < opAt \/ line = NoLine) =>
                      \E j \in DOMAIN hears[p] : hears[p][j] = lines[i].event
================================================================================
