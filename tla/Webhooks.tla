-------------------------------- MODULE Webhooks --------------------------------
(***************************************************************************)
(* Webhooks: the table with its limit (src/src/webhook/manager.rs), and    *)
(* the dispatcher that reads the bus and starts a task per matching        *)
(* webhook, which tries and retries on its own                             *)
(* (src/src/webhook/delivery.rs).                                          *)
(*                                                                         *)
(* The table is taken to hold the ids as the text that the code binds.     *)
(***************************************************************************)
EXTENDS EventBus

CONSTANTS
    ValidKinds,   \* event types a webhook may list
    Creators,     \* requests for new webhooks at once
    MaxWebhooks,
    MaxRetries,
    MaxIds,       \* bound on the webhooks created
    MaxHookFaults \* bound on failing statements

ASSUME WebhooksAssumption ==
    /\ ValidKinds \subseteq Tags
    /\ MaxWebhooks \in Nat
    /\ MaxRetries \in Nat
    /\ MaxIds \in Nat
    /\ MaxHookFaults \in Nat

VARIABLES
    hooks,       \* the webhooks table
    lastId,      \* ids given so far
    creating,    \* requests that found room for their webhook
    hookRaced,   \* a webhook was counted before one counted earlier was inserted
    dispatched,  \* the dispatcher's place on the bus
    deliveries,  \* delivery tasks: webhook, event and attempts made
    confirmed,   \* what endpoints have confirmed: webhook and event
    hookFaults   \* failing statements so far

hookVars == <<hooks, lastId, creating, hookRaced, dispatched, deliveries, confirmed, hookFaults>>

HookSettings == [events : SUBSET ValidKinds, enabled : BOOLEAN]

HookFault ==
    /\ hookFaults < MaxHookFaults
    /\ hookFaults' = hookFaults + 1

HookInit ==
    /\ hooks = {}
    /\ lastId = 0
    /\ creating = {}
    /\ hookRaced = FALSE
    /\ dispatched = 0
    /\ deliveries = {}
    /\ confirmed = {}
    /\ hookFaults = 0

--------------------------------------------------------------------------------
(* create: one statement counts, another inserts.                           *)

HasRoom(r) ==
    /\ creating' = creating \cup {r}
    /\ hookRaced' = (hookRaced \/ creating # {})
    /\ UNCHANGED <<log, hooks, lastId, dispatched, deliveries, confirmed, hookFaults>>

\* Mutant of CountHooks: one more than the limit.
CountOneMore(r) ==
    /\ r \notin creating
    /\ Cardinality(hooks) <= MaxWebhooks
    /\ HasRoom(r)

CountHooks(r) ==
    /\ r \notin creating
    /\ Cardinality(hooks) < MaxWebhooks
    /\ HasRoom(r)

InsertHook(r) ==
    /\ r \in creating
    /\ creating' = creating \ {r}
    /\ \/ /\ lastId < MaxIds
          /\ lastId' = lastId + 1
          /\ \E s \in HookSettings : hooks' = hooks \cup {[id |-> lastId + 1, row |-> s]}
          /\ UNCHANGED hookFaults
       \/ HookFault /\ UNCHANGED <<hooks, lastId>>
    /\ UNCHANGED <<log, hookRaced, dispatched, deliveries, confirmed>>

UpdateHook(w) ==
    /\ w \in hooks
    /\ \E s \in HookSettings : hooks' = (hooks \ {w}) \cup {[w EXCEPT !.row = s]}
    /\ UNCHANGED <<log, lastId, creating, hookRaced, dispatched, deliveries, confirmed, hookFaults>>

DeleteHook(w) ==
    /\ w \in hooks
    /\ hooks' = hooks \ {w}
    /\ UNCHANGED <<log, lastId, creating, hookRaced, dispatched, deliveries, confirmed, hookFaults>>

--------------------------------------------------------------------------------
(* run_dispatcher and dispatch.                                             *)

\* What the dispatcher misses is logged and no more.
DispatcherLags ==
    /\ Pending(dispatched, log) /\ Lags(dispatched, log, Capacity)
    /\ dispatched' = Oldest(log, Capacity)
    /\ UNCHANGED <<log, hooks, lastId, creating, hookRaced, deliveries, confirmed, hookFaults>>

\* get_matching: an empty list stands for all types.
Matching(kind) ==
    {w \in hooks : w.row.enabled /\ (w.row.events = {} \/ Tag(kind) \in w.row.events)}

\* A failing query counts as no webhook.
DispatchEvent ==
    /\ Pending(dispatched, log) /\ ~Lags(dispatched, log, Capacity)
    /\ dispatched' = dispatched + 1
    /\ \/ /\ deliveries' = deliveries \cup
                 {[id |-> w.id, event |-> dispatched + 1, attempt |-> 1] :
                     w \in Matching(log[dispatched + 1])}
          /\ UNCHANGED hookFaults
       \/ HookFault /\ UNCHANGED deliveries
    /\ UNCHANGED <<log, hooks, lastId, creating, hookRaced, confirmed>>

--------------------------------------------------------------------------------
(* deliver_one: a task per webhook and event.  An attempt fails when no     *)
(* answer of success comes in time, whether the endpoint got it or not.     *)

\* Mutant of Succeed: the task goes on trying.
SucceedAndRepeat(d) ==
    /\ d \in deliveries
    /\ deliveries' = (deliveries \ {d}) \cup
                        IF d.attempt <= MaxRetries THEN {[d EXCEPT !.attempt = @ + 1]} ELSE {}
    /\ confirmed' = confirmed \cup {[id |-> d.id, event |-> d.event]}
    /\ UNCHANGED <<log, hooks, lastId, creating, hookRaced, dispatched, hookFaults>>

Succeed(d) ==
    /\ d \in deliveries
    /\ deliveries' = deliveries \ {d}
    /\ confirmed' = confirmed \cup {[id |-> d.id, event |-> d.event]}
    /\ UNCHANGED <<log, hooks, lastId, creating, hookRaced, dispatched, hookFaults>>

Fail(d) ==
    /\ d \in deliveries
    /\ deliveries' = (deliveries \ {d}) \cup
                        IF d.attempt <= MaxRetries THEN {[d EXCEPT !.attempt = @ + 1]} ELSE {}
    /\ UNCHANGED <<log, hooks, lastId, creating, hookRaced, dispatched, confirmed, hookFaults>>

Tasks == [id : 1 .. MaxIds, event : 1 .. MaxEvents, attempt : 1 .. MaxRetries + 1]

HookNext ==
    \/ \E r \in Creators : CountHooks(r) \/ InsertHook(r)
    \/ \E w \in hooks : UpdateHook(w) \/ DeleteHook(w)
    \/ DispatcherLags \/ DispatchEvent
    \/ \E d \in deliveries : Succeed(d) \/ Fail(d)

\* The tasks run, and requests have a timeout.
HookFairness == \A d \in Tasks : WF_<<log, hookVars>>(Succeed(d) \/ Fail(d))

--------------------------------------------------------------------------------
(* Properties.                                                              *)

HookTypeOK ==
    /\ hooks \subseteq [id : 1 .. lastId, row : HookSettings]
    /\ lastId \in 0 .. MaxIds
    /\ creating \subseteq Creators
    /\ hookRaced \in BOOLEAN
    /\ dispatched \in 0 .. Len(log)
    /\ deliveries \subseteq Tasks
    /\ confirmed \subseteq [id : 1 .. MaxIds, event : 1 .. MaxEvents]
    /\ hookFaults \in 0 .. MaxHookFaults

\* The limit is exceeded only by requests that count at the same time
\* (webhook/manager.rs:80-104).
HookLimit == ~hookRaced => Cardinality(hooks) <= MaxWebhooks

\* One task serves a webhook and event, and an endpoint that has confirmed an event gets
\* it no more: repetitions follow only answers that did not come
\* (webhook/delivery.rs:37-79).
RepeatsNeedLostAnswers ==
    \A d \in deliveries :
        /\ \A e \in deliveries : (d.id = e.id /\ d.event = e.event) => d = e
        /\ [id |-> d.id, event |-> d.event] \notin confirmed

\* A webhook that is deleted falls silent: what is under way to it ends, and nothing is
\* added (webhook/delivery.rs:37-86, webhook/manager.rs:160-179).
GoneHooksFallSilent ==
    \A i \in 1 .. MaxIds :
        <>[](\A w \in hooks : w.id # i) => <>[](\A d \in deliveries : d.id # i)
================================================================================
