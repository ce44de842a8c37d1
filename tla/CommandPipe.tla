------------------------------ MODULE CommandPipe ------------------------------
(***************************************************************************)
(* What the gateway promises about the commands its tasks hand to the hub  *)
(* socket task: a pipe that may lose commands but never reorders,          *)
(* duplicates or invents one, and that loses none while the hub connection *)
(* stays up.  It may break for good: it then loses the youngest, accepts   *)
(* no more, and never comes up again.  Commands are numbered in the order  *)
(* the pipe accepts them.                                                  *)
(*                                                                         *)
(* HubLink (src/src/hub/socket.rs) is shown to implement this module.      *)
(***************************************************************************)
EXTENDS Naturals, Sequences

VARIABLES sent,     \* how many commands the pipe has accepted
          pipe,     \* the accepted commands not yet read by the hub or lost
          got,      \* the commands the hub has read, oldest first
          up,       \* whether the hub connection is up
          broken    \* whether the pipe is broken for good

vars == <<sent, pipe, got, up, broken>>

Init ==
    /\ sent = 0
    /\ pipe = <<>>
    /\ got = <<>>
    /\ up = FALSE
    /\ broken = FALSE

\* A task's command is accepted.
Put ==
    /\ ~broken
    /\ sent' = sent + 1
    /\ pipe' = Append(pipe, sent + 1)
    /\ UNCHANGED <<got, up, broken>>

\* The hub reads the oldest command in the pipe.
Take ==
    /\ pipe # <<>>
    /\ got' = Append(got, Head(pipe))
    /\ pipe' = Tail(pipe)
    /\ UNCHANGED <<sent, up, broken>>

\* The connection comes up or goes down; then, or while it is down, the
\* oldest k commands may be lost.
Relink ==
    /\ up' \in BOOLEAN
    /\ up' => ~up /\ ~broken
    /\ \E k \in 0 .. Len(pipe) : pipe' = SubSeq(pipe, k + 1, Len(pipe))
    /\ UNCHANGED <<sent, got, broken>>

\* The pipe breaks: only its oldest k commands can still arrive.
Break ==
    /\ ~broken
    /\ broken' = TRUE
    /\ up' = FALSE
    /\ \E k \in 0 .. Len(pipe) : pipe' = SubSeq(pipe, 1, k)
    /\ UNCHANGED <<sent, got>>

Next == Put \/ Take \/ Relink \/ Break

Spec == Init /\ [][Next]_vars

--------------------------------------------------------------------------------

Increasing(s) == \A i, j \in 1 .. Len(s) : i < j => s[i] < s[j]

\* The hub reads commands in the order they were accepted and none twice, and
\* everything still in the pipe is younger than what the hub has read
\* (hub/socket.rs: one channel, one writer, one connection at a time).
InOrderAtMostOnce ==
    /\ Increasing(got)
    /\ Increasing(pipe)
    /\ \A i \in 1 .. Len(got), j \in 1 .. Len(pipe) : got[i] < pipe[j]
    /\ \A i \in 1 .. Len(got) : got[i] <= sent
    /\ \A j \in 1 .. Len(pipe) : pipe[j] <= sent
================================================================================
