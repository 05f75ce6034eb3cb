------------------------------- MODULE ApiCache -------------------------------
(***************************************************************************)
(* The cache of reference data in one browser tab: src/frontend/src/api.   *)
(* cached(key, ttl, loader) answers from a fresh entry or loads and stores *)
(* what it loaded; the response interceptor drops the entries of an entity *)
(* when a write of it has succeeded, and sends a failed read again.        *)
(*                                                                         *)
(* One entity under one key.  The server (external) keeps its version and  *)
(* answers a read with the version it has when it handles it.              *)
(***************************************************************************)
EXTENDS Naturals

CONSTANTS
    Caller,         \* calls of cached that may overlap
    MaxAttempts,    \* SAFE_READ_MAX_ATTEMPTS
    MaxVersion      \* bound: edits of the entity

VARIABLES
    version,        \* the server's version of the entity
    entry,          \* the cached version, or NoEntry
    call,           \* [Caller -> its load: stage, version read, attempts]
    edit,           \* this tab's write: [stage, version it made]
    acknowledged    \* the version of this tab's last write that it was told succeeded

vars == <<version, entry, call, edit, acknowledged>>

NoEntry == MaxVersion + 1
NoEdit == [stage |-> "none", version |-> 0]
NoLoad == [stage |-> "none", version |-> 0, attempts |-> 0]

Init ==
    /\ version = 0 /\ entry = NoEntry
    /\ call = [c \in Caller |-> NoLoad]
    /\ edit = NoEdit /\ acknowledged = 0

\* cached without a fresh entry: a hit changes nothing.
Load(c) ==
    /\ call[c] = NoLoad /\ entry = NoEntry
    /\ call' = [call EXCEPT ![c] = [stage |-> "sent", version |-> 0, attempts |-> 1]]
    /\ UNCHANGED <<version, entry, edit, acknowledged>>

\* The server (external) handles the GET.
Read(c) ==
    /\ call[c].stage = "sent"
    /\ call' = [call EXCEPT ![c].stage = "answered", ![c].version = version]
    /\ UNCHANGED <<version, entry, edit, acknowledged>>

\* A transient failure: the interceptor sends the GET again, or gives up.
ReadFails(c) ==
    /\ call[c].stage \in {"sent", "answered"}
    /\ call' = [call EXCEPT ![c] =
                  IF call[c].attempts < MaxAttempts
                  THEN [stage |-> "sent", version |-> 0, attempts |-> call[c].attempts + 1]
                  ELSE NoLoad]
    /\ UNCHANGED <<version, entry, edit, acknowledged>>

\* The loader returns and its value is stored.
Store(c) ==
    /\ call[c].stage = "answered"
    /\ entry' = call[c].version
    /\ call' = [call EXCEPT ![c] = NoLoad]
    /\ UNCHANGED <<version, edit, acknowledged>>

\* The entry is older than its ttl.
Expire ==
    /\ entry # NoEntry
    /\ entry' = NoEntry
    /\ UNCHANGED <<version, call, edit, acknowledged>>

SendEdit ==
    /\ edit = NoEdit
    /\ edit' = [NoEdit EXCEPT !.stage = "sent"]
    /\ UNCHANGED <<version, entry, call, acknowledged>>

\* The server (external) applies this tab's write...
ApplyEdit ==
    /\ edit.stage = "sent" /\ version < MaxVersion
    /\ version' = version + 1
    /\ edit' = [stage |-> "applied", version |-> version + 1]
    /\ UNCHANGED <<entry, call, acknowledged>>

\* ... or another client's.
ApplyOther ==
    /\ version < MaxVersion
    /\ version' = version + 1
    /\ UNCHANGED <<entry, call, edit, acknowledged>>

\* The interceptor sees a successful answer to a write: bustPrefix.
EditSucceeds ==
    /\ edit.stage = "applied"
    /\ acknowledged' = edit.version /\ entry' = NoEntry /\ edit' = NoEdit
    /\ UNCHANGED <<version, call>>

\* A failed or lost answer drops nothing.
EditFails ==
    /\ edit # NoEdit
    /\ edit' = NoEdit
    /\ UNCHANGED <<version, entry, call, acknowledged>>

Next ==
    \/ \E c \in Caller : Load(c) \/ Read(c) \/ ReadFails(c) \/ Store(c)
    \/ Expire \/ SendEdit \/ ApplyEdit \/ ApplyOther \/ EditSucceeds \/ EditFails

Spec == Init /\ [][Next]_vars

\* What this tab reads from its cache is at least as new as the write it was
\* last told has succeeded: "edits are visible at once".
EditsAreVisible == entry = NoEntry \/ entry >= acknowledged
=============================================================================
