--------------------------- MODULE RuntimeLedger ---------------------------
(***************************************************************************)
(* What runtime commands promise: a command happens on all its sheets at   *)
(* once or on none, at most once, and only if each sheet has had exactly   *)
(* the writes the command was computed from.  No revision, no receipt, no  *)
(* message: module RuntimeCommand implements this with those.              *)
(***************************************************************************)
EXTENDS Naturals, Sequences

CONSTANTS Characters, None

VARIABLES
    content,        \* per character: who wrote its sheet, in order
    done            \* the commands that have happened

Init ==
    /\ content = [c \in Characters |-> <<>>]
    /\ done = {}

\* A sheet is changed by anything that is not a runtime command.
Write(c) ==
    /\ content' = [content EXCEPT ![c] = Append(@, None)]
    /\ UNCHANGED done

Execute(req) ==
    /\ req \notin done
    /\ \A c \in DOMAIN req.expected : Len(content[c]) = req.expected[c]
    /\ content' = [c \in Characters |-> IF c \in DOMAIN req.expected
                                        THEN Append(content[c], req) ELSE content[c]]
    /\ done' = done \cup {req}

\* The command of a step, if it is one, is what the step adds to done.
Next ==
    \/ \E c \in Characters : Write(c)
    \/ \E req \in done' : Execute(req)

Spec == Init /\ [][Next]_<<content, done>>
=============================================================================
