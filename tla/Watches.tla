--------------------------------- MODULE Watches ---------------------------------
(***************************************************************************)
(* Watches: who asked to be told when a nick logs in or out (the commands  *)
(* of src/src/bot/commands/mod.rs and the bot API of src/src/api/bot.rs),  *)
(* and the event processor telling them, one by one                        *)
(* (src/src/db/event_processor.rs).  One watched nick stands for all; its  *)
(* sessions and bans are module Presence, its tells module Tells.          *)
(***************************************************************************)
EXTENDS EventBus

CONSTANTS
    Watchers,
    MaxChanges,     \* bound on the watches begun and ended
    MaxWatchFaults  \* bound on failing statements

ASSUME WatchesAssumption ==
    /\ MaxChanges \in Nat
    /\ MaxWatchFaults \in Nat

VARIABLES
    watch,     \* the watches table; since says how many events there were at the change
    banned,    \* whether the nick is banned
    heard,     \* the processor's place on the bus
    finding,   \* it is about to look up who watches
    telling,   \* watchers it has yet to tell
    told,      \* per watcher: the events it was told of
    untold,    \* events that were missed, failed, or a banned nick's joins
    changes,   \* watches begun and ended so far
    watchFaults

processorVars == <<heard, finding, telling, untold, watchFaults>>
watchVars == <<watch, banned, processorVars, told, changes>>

WatchInit ==
    /\ watch = [w \in Watchers |-> [on |-> FALSE, since |-> 0]]
    /\ banned = FALSE
    /\ heard = 0
    /\ finding = FALSE
    /\ telling = {}
    /\ told = [w \in Watchers |-> <<>>]
    /\ untold = {}
    /\ changes = 0
    /\ watchFaults = 0

--------------------------------------------------------------------------------

Change(w, on) ==
    /\ watch[w].on # on
    /\ changes < MaxChanges
    /\ changes' = changes + 1
    /\ watch' = [watch EXCEPT ![w] = [on |-> on, since |-> Len(log)]]
    /\ UNCHANGED <<log, banned, processorVars, told>>

CreateWatch(w) == Change(w, TRUE)

DeleteWatch(w) == Change(w, FALSE)

BanChanges ==
    /\ banned' = ~banned
    /\ UNCHANGED <<log, watch, processorVars, told, changes>>

--------------------------------------------------------------------------------
(* process_event.                                                           *)

Ready == ~finding /\ telling = {} /\ Pending(heard, log)

WatchFault ==
    /\ watchFaults < MaxWatchFaults
    /\ watchFaults' = watchFaults + 1

EventsLost ==
    /\ Ready /\ Lags(heard, log, Capacity)
    /\ heard' = Oldest(log, Capacity)
    /\ untold' = untold \cup heard + 1 .. heard'
    /\ UNCHANGED <<log, watch, banned, finding, telling, told, changes, watchFaults>>

\* A banned nick's join ends with a kick, but its quit does not; an error of a statement
\* before the watchers' turn ends the event, and an error of the ban's does not.
ReadEvent ==
    LET kind == log[heard + 1]
    IN  /\ Ready /\ ~Lags(heard, log, Capacity)
        /\ heard' = heard + 1
        /\ \/ /\ kind \in {"user_join", "user_quit"}
              /\ finding' = ~(kind = "user_join" /\ banned)
              /\ untold' = IF finding' THEN untold ELSE untold \cup {heard'}
              /\ UNCHANGED watchFaults
           \/ /\ kind \in {"user_join", "user_quit"}
              /\ WatchFault
              /\ finding' \in BOOLEAN
              /\ untold' = IF finding' THEN untold ELSE untold \cup {heard'}
           \/ /\ kind \notin {"user_join", "user_quit"}
              /\ UNCHANGED <<finding, untold, watchFaults>>
        /\ UNCHANGED <<log, watch, banned, telling, told, changes>>

FindWatchers ==
    /\ finding
    /\ finding' = FALSE
    /\ \/ /\ telling' = {w \in Watchers : watch[w].on}
          /\ UNCHANGED <<untold, watchFaults>>
       \/ /\ WatchFault
          /\ untold' = untold \cup {heard}
          /\ UNCHANGED telling
    /\ UNCHANGED <<log, watch, banned, heard, told, changes>>

\* Mutant of TellWatcher: only the first is told.
TellFirstWatcher(w) ==
    /\ w \in telling
    /\ telling' = {}
    /\ told' = [told EXCEPT ![w] = Append(@, heard)]
    /\ UNCHANGED <<log, watch, banned, heard, finding, untold, changes, watchFaults>>

TellWatcher(w) ==
    /\ w \in telling
    /\ telling' = telling \ {w}
    /\ told' = [told EXCEPT ![w] = Append(@, heard)]
    /\ UNCHANGED <<log, watch, banned, heard, finding, untold, changes, watchFaults>>

WatchNext ==
    \/ \E w \in Watchers : CreateWatch(w) \/ DeleteWatch(w) \/ TellWatcher(w)
    \/ BanChanges
    \/ EventsLost \/ ReadEvent \/ FindWatchers

--------------------------------------------------------------------------------
(* Properties.                                                              *)

WatchTypeOK ==
    /\ watch \in [Watchers -> [on : BOOLEAN, since : 0 .. Len(log)]]
    /\ banned \in BOOLEAN /\ finding \in BOOLEAN
    /\ heard \in 0 .. Len(log)
    /\ telling \subseteq Watchers
    /\ told \in [Watchers -> Seq(1 .. Len(log))]
    /\ untold \subseteq 1 .. Len(log)
    /\ changes \in 0 .. MaxChanges
    /\ watchFaults \in 0 .. MaxWatchFaults

\* The events the processor is done with.
Done == IF finding \/ telling # {} THEN 1 .. heard - 1 ELSE 1 .. heard

\* A watcher is told of logins and logouts in order and once; of each one since the
\* watch began, save those that were missed, that failed or that a ban cut short, and of
\* none after the watch has ended (db/event_processor.rs:85-96, 103-114).
WatchersTold ==
    \A w \in Watchers :
        /\ \A i, j \in DOMAIN told[w] : i < j => told[w][i] < told[w][j]
        /\ watch[w].on =>
              \A k \in Done \ untold :
                  (k > watch[w].since /\ log[k] \in {"user_join", "user_quit"}) =>
                      \E i \in DOMAIN told[w] : told[w][i] = k
        /\ ~watch[w].on => \A i \in DOMAIN told[w] : told[w][i] <= watch[w].since
================================================================================
