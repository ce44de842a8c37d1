------------------------------- MODULE MCHubLink -------------------------------
(* Instances of HubLink for TLC: which kinds of event the hub sends.          *)
EXTENDS HubLink

CONSTANTS opchat, botloop, api  \* senders, as model values

\* Every kind of event.
EveryKind == AllKinds

\* Chat alone, for the wedge that needs no other task.
ChatOnly == {"chat"}
================================================================================
