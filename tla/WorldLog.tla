------------------------------- MODULE WorldLog -------------------------------
(***************************************************************************)
(* What a store of a world promises, whoever keeps it: the world is the    *)
(* log of the commands that made it.  A command enters the log at most     *)
(* once and only on the very log it was computed from, and every reader    *)
(* shows a prefix of the log that only grows, never a branch of its own.   *)
(***************************************************************************)
EXTENDS Naturals, Sequences

CONSTANT Reader

VARIABLES
    log,        \* sequence of [command, base], base: the length it was computed on
    view        \* [Reader -> the log it shows]

Init == log = << >> /\ view = [r \in Reader |-> << >>]

Extend(entry) ==
    /\ entry.base = Len(log)
    /\ \A i \in DOMAIN log : log[i].command # entry.command
    /\ log' = Append(log, entry)
    /\ UNCHANGED view

Show(r, n) == view' = [view EXCEPT ![r] = SubSeq(log, 1, n)] /\ UNCHANGED log

Next ==
    \/ /\ Len(log') = Len(log) + 1
       /\ Extend(log'[Len(log')])
    \/ \E r \in Reader : \E n \in Len(view[r]) .. Len(log) : Show(r, n)

Spec == Init /\ [][Next]_<<log, view>>
=============================================================================
