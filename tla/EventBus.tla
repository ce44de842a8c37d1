-------------------------------- MODULE EventBus --------------------------------
(***************************************************************************)
(* The bus of src/src/bus.rs: a ring that keeps the newest events and      *)
(* never waits for a receiver.  A receiver is how many events it has read  *)
(* or passed over; one that falls behind the ring is told so when it reads *)
(* next, and goes on with the oldest event kept.                           *)
(***************************************************************************)
EXTENDS Naturals, Sequences, FiniteSets

CONSTANTS
    Kinds,      \* events, as far as readers tell them apart
    Capacity,   \* events the ring keeps
    MaxEvents   \* bound on the events of a behaviour

ASSUME BusAssumption ==
    /\ Capacity \in Nat \ {0}
    /\ MaxEvents \in Nat

VARIABLE log    \* the events published so far

\* The type an event goes by with those who subscribe: a chat line that is a command is
\* a chat line to them.
Tag(kind) == IF kind = "command" THEN "chat" ELSE kind

Tags == {Tag(kind) : kind \in Kinds}

Publish(kind) ==
    /\ Len(log) < MaxEvents
    /\ log' = Append(log, kind)

Pending(read, events) == read < Len(events)

Lags(read, events, capacity) == Len(events) - read > capacity

\* Where a receiver that lags goes on.
Oldest(events, capacity) == Len(events) - capacity

--------------------------------------------------------------------------------
(* What a reader passes on: events, and notices of what it missed, as       *)
(* intervals of the events published.                                       *)

Shown(k) == [from |-> k, to |-> k, missed |-> FALSE]

Missed(first, last) == [from |-> first, to |-> last, missed |-> TRUE]

Items == [from : Nat \ {0}, to : Nat \ {0}, missed : BOOLEAN]

\* A reader that started after `start' events and has read up to `read' has passed on,
\* in order, every event it was to pass on (those of `wanted'), save those it reported
\* as missed.
Accounts(out, start, read, wanted) ==
    /\ \A i \in DOMAIN out :
        /\ start < out[i].from /\ out[i].from <= out[i].to /\ out[i].to <= read
        /\ out[i].missed \/ out[i].from \in wanted
        /\ i > 1 => out[i - 1].to < out[i].from
    /\ \A k \in wanted :
        start < k /\ k <= read => \E i \in DOMAIN out : out[i].from <= k /\ k <= out[i].to
================================================================================
