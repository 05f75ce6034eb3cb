----------------------------- MODULE RulesSession -----------------------------
(***************************************************************************)
(* The browser's own store of a world: PersistentRulesSession over the     *)
(* IndexedDB store of src/frontend/src/rules-session.  Several tabs may    *)
(* have a session open on one database, and one session may have several   *)
(* commands under way, for dispatch is asynchronous and keeps no queue.    *)
(*                                                                         *)
(* A world is the log of the commands that made it; its length is the      *)
(* revision.  The snapshot ('worlds') and the event rows are written in    *)
(* one transaction and hold the same log.  open reads the snapshot in one  *)
(* transaction and the events in a later one.                              *)
(*                                                                         *)
(* A definition marked (fault) is a plausible bug in the definition that   *)
(* follows it; no behaviour of SessionSpec uses one.                       *)
(***************************************************************************)
EXTENDS Naturals, Sequences

CONSTANTS
    Tab,            \* a tab has at most one session on the world
    Command         \* the command ids that are ever dispatched

VARIABLES
    stored,         \* the log in the store
    phase,          \* [Tab -> "closed", "opening" or "open"]
    snapshot,       \* [Tab -> what initialize returned to open]
    shown,          \* [Tab -> this.world of its session, or of its last one]
    underWay        \* dispatches between handleCommand and the listeners

sessionVars == <<stored, phase, snapshot, shown, underWay>>

Processed(log) == {log[i].command : i \in DOMAIN log}

\* handleCommand: the world `log' with one more command.
Handled(log, c) == Append(log, [command |-> c, base |-> Len(log)])

\* initialize returns the snapshot there is.
Initialize(t) ==
    /\ phase[t] = "closed"
    /\ phase' = [phase EXCEPT ![t] = "opening"]
    /\ snapshot' = [snapshot EXCEPT ![t] = stored]
    /\ UNCHANGED <<stored, shown, underWay>>

\* loadEvents, replay and comparison; another tab's commit in between looks
\* like a corrupt store (snapshot_replay_mismatch) and open throws.
ReplayEvents(t) ==
    /\ phase[t] = "opening"
    /\ IF stored = snapshot[t]
       THEN /\ phase' = [phase EXCEPT ![t] = "open"]
            /\ shown' = [shown EXCEPT ![t] = stored]
       ELSE phase' = [phase EXCEPT ![t] = "closed"] /\ UNCHANGED shown
    /\ UNCHANGED <<stored, snapshot, underWay>>

\* (fault) the next world is adopted before the store has it
ShownWhileCommittingNext(t, c) == Handled(shown[t], c)

\* A command becomes visible only after the store's commit.
ShownWhileCommitting(t, c) == shown[t]

\* dispatch up to its await: rejected commands change nothing.
Dispatch(t, c) ==
    /\ phase[t] = "open" /\ c \notin Processed(shown[t])
    /\ underWay' = underWay \cup {[tab |-> t, command |-> c, base |-> shown[t],
                                   committed |-> FALSE]}
    /\ shown' = [shown EXCEPT ![t] = ShownWhileCommitting(t, c)]
    /\ UNCHANGED <<stored, phase, snapshot>>

\* The store's read-write transaction: the revision must be the one the
\* command was computed on, and the keys of its event rows must be free.
Commit(d) ==
    /\ ~d.committed
    /\ IF Len(stored) = Len(d.base)
       THEN /\ stored' = Handled(d.base, d.command)
            /\ underWay' = (underWay \ {d}) \cup {[d EXCEPT !.committed = TRUE]}
       ELSE underWay' = underWay \ {d} /\ UNCHANGED stored
    /\ UNCHANGED <<phase, snapshot, shown>>

\* dispatch after its await: the session shows the world, the listeners run.
Adopt(d) ==
    /\ d.committed
    /\ shown' = [shown EXCEPT ![d.tab] = Handled(d.base, d.command)]
    /\ underWay' = underWay \ {d}
    /\ UNCHANGED <<stored, phase, snapshot>>

\* The tab is closed or reloaded; what it had under way is gone.
CloseTab(t) ==
    /\ phase[t] # "closed"
    /\ phase' = [phase EXCEPT ![t] = "closed"]
    /\ underWay' = {d \in underWay : d.tab # t}
    /\ UNCHANGED <<stored, snapshot, shown>>

SessionInit ==
    /\ stored = << >>
    /\ phase = [t \in Tab |-> "closed"]
    /\ snapshot = [t \in Tab |-> << >>] /\ shown = [t \in Tab |-> << >>]
    /\ underWay = {}

SessionNext ==
    \/ \E t \in Tab : Initialize(t) \/ ReplayEvents(t) \/ CloseTab(t)
    \/ \E t \in Tab : \E c \in Command : Dispatch(t, c)
    \/ \E d \in underWay : Commit(d) \/ Adopt(d)

SessionSpec == SessionInit /\ [][SessionNext]_sessionVars

-----------------------------------------------------------------------------
\* Whatever tabs dispatch, reload and overlap, the store keeps one log of
\* commands, each computed from the log it is appended to, and every session
\* shows a prefix of that log, which only grows.
StoredLog == INSTANCE WorldLog WITH Reader <- Tab, log <- stored, view <- shown
SessionsKeepLog == StoredLog!Init /\ [][StoredLog!Next]_<<stored, shown>>
=============================================================================
