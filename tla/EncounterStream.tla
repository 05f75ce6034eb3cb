--------------------------- MODULE EncounterStream ---------------------------
(***************************************************************************)
(* How the participants of one encounter follow it: the journal rows that  *)
(* Apply commits, the pg_notify that rings after the commit, the LISTEN    *)
(* goroutine and the EncounterHub of every server instance, the SSE        *)
(* handler of every connection and the useEncounterStream hook of every    *)
(* browser.                                                                *)
(*                                                                         *)
(* Module Encounter shows that the journal of an encounter at seq n is     *)
(* 1..n and that its state changes with seq only.  Here an operation is    *)
(* therefore its seq, and a state is the operations that were applied to   *)
(* reach it, in order: Operations(seq) on the server, have[c] in browser c. *)
(*                                                                         *)
(* Hazards names the races and failures that a run admits.  With all of    *)
(* them the module is the code; a run that leaves some out shows what the  *)
(* protocol achieves when they do not strike.                              *)
(*                                                                         *)
(* A definition marked (fault) is a plausible bug in the definition that   *)
(* follows it; no specification uses it.                                   *)
(***************************************************************************)
EXTENDS Naturals, Sequences, FiniteSets

CONSTANTS
    Clients,        \* browsers on the encounter's board
    Instances,      \* server processes
    None,
    Buffer,         \* capacity of a subscriber's channel (64 in the code)
    MaxSeq,         \* bound on the number of operations
    MaxDrops,       \* bound on the number of broken connections
    Hazards         \* the subset of AllHazards that may strike

AllHazards ==
    {"lateNotify",      \* two handlers notify in the other order than they committed
     "listenerGap",     \* the LISTEN connection breaks and is opened again
     "closedChannel",   \* a browser leaves while its event is being published
     "failedReplay",    \* the query of the journal fails
     "lateResponse"}    \* the stream overtakes the response of the browser's own Apply

ASSUME StreamAssumption ==
    /\ Hazards \subseteq AllHazards
    /\ Buffer \in Nat \ {0}
    /\ MaxSeq \in Nat /\ MaxDrops \in Nat
    /\ None \notin Instances

VARIABLES
    seq,            \* encounters.seq; the journal holds the rows 1..seq
    unnotified,     \* per instance: committed operations whose notify is still to come
    listening,      \* per instance: is the LISTEN connection open?
    inbox,          \* per instance: notifications the listener has not read yet
    publishing,     \* per instance: the event publishLocal is handing out, and to whom
    phase,          \* per browser: where its connection is
    home,           \* per browser: the instance that serves the connection
    since,          \* per browser: the since parameter of the connection
    channel,        \* per browser: what the hub has queued for the connection
    wire,           \* per browser: what the handler has written and the browser not read
    seqRef,         \* per browser: seqRef.current
    have,           \* per browser: the operations its state is made of
    command,        \* per browser: its Apply, if one is under way
    drops           \* connections broken so far

serverVars == <<seq, unnotified, listening, inbox, publishing>>
streamVars == <<phase, home, since, channel, wire>>
clientVars == <<seqRef, have, command>>
vars == <<seq, unnotified, listening, inbox, publishing,
          phase, home, since, channel, wire, seqRef, have, command, drops>>

Idle == [event |-> 0, targets |-> {}, closed |-> FALSE]

NoCommand == [stage |-> "none", expected |-> 0, base |-> <<>>]

Operations(n) == [k \in 1..n |-> k]

Init ==
    /\ seq = 0
    /\ unnotified = [i \in Instances |-> {}]
    /\ listening = [i \in Instances |-> TRUE]
    /\ inbox = [i \in Instances |-> <<>>]
    /\ publishing = [i \in Instances |-> Idle]
    /\ phase = [c \in Clients |-> "new"]
    /\ home = [c \in Clients |-> None]
    /\ since = [c \in Clients |-> 0]
    /\ channel = [c \in Clients |-> <<>>]
    /\ wire = [c \in Clients |-> <<>>]
    /\ seqRef = [c \in Clients |-> 0]
    /\ have = [c \in Clients |-> <<>>]
    /\ command = [c \in Clients |-> NoCommand]
    /\ drops = 0

\* The seqs that lie after s, in ascending order.
JournalAfter(s) == [k \in 1..(seq - s) |-> s + k]

------------------------------------------------------------------------------
(* Operations *)

\* Apply's transaction on instance i, by anyone: its notify is a later step.
Committed(i) ==
    /\ seq < MaxSeq
    /\ seq' = seq + 1
    /\ unnotified' = [unnotified EXCEPT ![i] = @ \cup {seq + 1}]

\* A sheet, or a board in another tab, applies on a snapshot of its own.
ApplyElsewhere(i) ==
    /\ Committed(i)
    /\ UNCHANGED <<listening, inbox, publishing, streamVars, clientVars, drops>>

\* A click on the board builds a command from the rendered state and its seq.
Build(c) ==
    /\ phase[c] # "new"
    /\ command[c].stage = "none"
    /\ seq < MaxSeq
    /\ command' = [command EXCEPT ![c] =
                     [stage |-> "sent", expected |-> seqRef[c], base |-> have[c]]]
    /\ UNCHANGED <<serverVars, streamVars, seqRef, have, drops>>

\* (fault) the version is not compared
IsCurrentAlways(c) == TRUE

\* The optimistic lock of Apply.
IsCurrent(c) == command[c].expected = seq

\* Its Apply is accepted on some instance ...
Accept(c, i) ==
    /\ command[c].stage = "sent"
    /\ IsCurrent(c)
    /\ Committed(i)
    /\ command' = [command EXCEPT ![c] =
                     [stage |-> "answered", expected |-> seq + 1, base |-> command[c].base]]
    /\ UNCHANGED <<listening, inbox, publishing, streamVars, seqRef, have, drops>>

\* ... or refused, 409, because the encounter has moved on.
Refuse(c) ==
    /\ command[c].stage = "sent"
    /\ ~IsCurrent(c)
    /\ command' = [command EXCEPT ![c] = NoCommand]
    /\ UNCHANGED <<serverVars, streamVars, seqRef, have, drops>>

\* The response carries the whole state at its seq and replaces the browser's.
Respond(c) ==
    /\ command[c].stage = "answered"
    /\ "lateResponse" \in Hazards \/ seqRef[c] <= command[c].expected
    /\ seqRef' = [seqRef EXCEPT ![c] = command[c].expected]
    /\ have' = [have EXCEPT ![c] = Operations(command[c].expected)]
    /\ command' = [command EXCEPT ![c] = NoCommand]
    /\ UNCHANGED <<serverVars, streamVars, drops>>

\* The response is lost; the hook leaves its state to the stream.
LoseResponse(c) ==
    /\ command[c].stage = "answered"
    /\ drops < MaxDrops
    /\ drops' = drops + 1
    /\ command' = [command EXCEPT ![c] = NoCommand]
    /\ UNCHANGED <<serverVars, streamVars, seqRef, have>>

------------------------------------------------------------------------------
(* The hub *)

\* pg_notify, a statement of its own after the commit, reaches the instances
\* that are listening at that moment.
Notify(i, n) ==
    /\ n \in unnotified[i]
    /\ \/ "lateNotify" \in Hazards
       \/ \A j \in Instances : \A m \in unnotified[j] : n <= m
    /\ unnotified' = [unnotified EXCEPT ![i] = @ \ {n}]
    /\ inbox' = [j \in Instances |->
                   IF listening[j] THEN Append(inbox[j], n) ELSE inbox[j]]
    /\ UNCHANGED <<seq, listening, publishing, streamVars, clientVars, drops>>

\* The LISTEN connection breaks; what it had not handed over is gone.
StopListening(i) ==
    /\ "listenerGap" \in Hazards
    /\ listening[i]
    /\ drops < MaxDrops
    /\ drops' = drops + 1
    /\ listening' = [listening EXCEPT ![i] = FALSE]
    /\ inbox' = [inbox EXCEPT ![i] = <<>>]
    /\ UNCHANGED <<seq, unnotified, publishing, streamVars, clientVars>>

\* The listener connects again after its backoff.
Listen(i) ==
    /\ ~listening[i]
    /\ publishing[i] = Idle
    /\ listening' = [listening EXCEPT ![i] = TRUE]
    /\ UNCHANGED <<seq, unnotified, inbox, publishing, streamVars, clientVars, drops>>

\* (fault) the handler subscribes when the replay is over
SubscribedWhenLive(i) == {c \in Clients : home[c] = i /\ phase[c] = "live"}

\* The handler subscribes before it replays.
Subscribed(i) == {c \in Clients : home[c] = i}

\* The listener takes the next notification, loads the journal row and copies
\* the set of channels under the hub's lock.
Publish(i) ==
    /\ publishing[i] = Idle
    /\ inbox[i] # <<>>
    /\ inbox' = [inbox EXCEPT ![i] = Tail(@)]
    /\ publishing' = [publishing EXCEPT ![i] =
                        IF Subscribed(i) = {} THEN Idle
                        ELSE [event |-> Head(inbox[i]), targets |-> Subscribed(i),
                              closed |-> FALSE]]
    /\ UNCHANGED <<seq, unnotified, listening, streamVars, clientVars, drops>>

\* (fault) a full channel is queued to all the same
EnqueuedAlways(queue, n) == Append(queue, n)

\* A full channel loses the event.
Enqueued(queue, n) == IF Len(queue) < Buffer THEN Append(queue, n) ELSE queue

\* The lock is released: one channel after another, in any order.
Send(i, c) ==
    /\ c \in publishing[i].targets
    /\ channel' = [channel EXCEPT ![c] = Enqueued(@, publishing[i].event)]
    /\ publishing' = [publishing EXCEPT ![i] =
                        IF publishing[i].targets = {c} /\ ~publishing[i].closed
                        THEN Idle
                        ELSE [publishing[i] EXCEPT !.targets = publishing[i].targets \ {c}]]
    /\ UNCHANGED <<seq, unnotified, listening, inbox, phase, home, since, wire,
                   clientVars, drops>>

\* Sending on a channel that unsubscribe has closed panics in the listener's
\* goroutine, which nothing recovers: the process dies, and with it its
\* connections and its pending notifications.
Panic(i) ==
    /\ publishing[i].closed
    /\ publishing' = [publishing EXCEPT ![i] = Idle]
    /\ unnotified' = [unnotified EXCEPT ![i] = {}]
    /\ listening' = [listening EXCEPT ![i] = FALSE]
    /\ inbox' = [inbox EXCEPT ![i] = <<>>]
    /\ phase' = [c \in Clients |-> IF home[c] = i THEN "offline" ELSE phase[c]]
    /\ channel' = [c \in Clients |-> IF home[c] = i THEN <<>> ELSE channel[c]]
    /\ wire' = [c \in Clients |-> IF home[c] = i THEN <<>> ELSE wire[c]]
    /\ home' = [c \in Clients |-> IF home[c] = i THEN None ELSE home[c]]
    /\ UNCHANGED <<seq, since, clientVars, drops>>

------------------------------------------------------------------------------
(* A connection *)

\* The hook starts from a snapshot.
Load(c) ==
    /\ phase[c] = "new"
    /\ phase' = [phase EXCEPT ![c] = "offline"]
    /\ seqRef' = [seqRef EXCEPT ![c] = seq]
    /\ have' = [have EXCEPT ![c] = Operations(seq)]
    /\ UNCHANGED <<serverVars, home, since, channel, wire, command, drops>>

Connected == {"subscribed", "replayed", "live"}

\* encountersApi.stream(id, seqRef.current): the first time, and after every
\* backoff.  The handler subscribes before it reads the journal.
Connect(c, i) ==
    /\ phase[c] = "offline"
    /\ phase' = [phase EXCEPT ![c] = "subscribed"]
    /\ home' = [home EXCEPT ![c] = i]
    /\ since' = [since EXCEPT ![c] = seqRef[c]]
    /\ UNCHANGED <<serverVars, channel, wire, clientVars, drops>>

\* (fault) the replay goes by the wrong end of the journal
ReplayedOff(c) == SubSeq(JournalAfter(since[c]), 2, seq - since[c])

\* The rows of the journal after since.
Replayed(c) == JournalAfter(since[c])

\* One query; its rows are written before anything from the channel.
Replay(c) ==
    /\ phase[c] = "subscribed"
    /\ phase' = [phase EXCEPT ![c] = "replayed"]
    /\ wire' = [wire EXCEPT ![c] = Replayed(c)]
    /\ UNCHANGED <<serverVars, home, since, channel, clientVars, drops>>

\* The query fails and the handler goes on without it.
ReplayFails(c) ==
    /\ "failedReplay" \in Hazards
    /\ phase[c] = "subscribed"
    /\ drops < MaxDrops
    /\ drops' = drops + 1
    /\ phase' = [phase EXCEPT ![c] = "replayed"]
    /\ UNCHANGED <<serverVars, home, since, channel, wire, clientVars>>

GoLive(c) ==
    /\ phase[c] = "replayed"
    /\ phase' = [phase EXCEPT ![c] = "live"]
    /\ UNCHANGED <<serverVars, home, since, channel, wire, clientVars, drops>>

\* The handler's loop copies its channel to the socket.
Forward(c) ==
    /\ phase[c] = "live"
    /\ channel[c] # <<>>
    /\ wire' = [wire EXCEPT ![c] = Append(@, Head(channel[c]))]
    /\ channel' = [channel EXCEPT ![c] = Tail(@)]
    /\ UNCHANGED <<serverVars, phase, home, since, clientVars, drops>>

\* (fault) an event with the seq of the state is not recognised as a repetition
IsStaleStrictly(c, n) == n < seqRef[c]

\* onEvent ignores what its state already covers.
IsStale(c, n) == n <= seqRef[c]

\* onEvent: any newer event is applied, whether or not it is the next one.
Receive(c) ==
    /\ wire[c] # <<>>
    /\ wire' = [wire EXCEPT ![c] = Tail(@)]
    /\ LET n == Head(wire[c])
       IN  IF IsStale(c, n)
           THEN UNCHANGED <<seqRef, have>>
           ELSE /\ seqRef' = [seqRef EXCEPT ![c] = n]
                /\ have' = [have EXCEPT ![c] = Append(@, n)]
    /\ UNCHANGED <<serverVars, phase, home, since, channel, command, drops>>

\* The connection breaks: the handler unsubscribes and closes its channel, and
\* the hook will come back.
Disconnect(c) ==
    /\ phase[c] \in Connected
    /\ drops < MaxDrops
    /\ "closedChannel" \in Hazards \/ c \notin publishing[home[c]].targets
    /\ drops' = drops + 1
    /\ phase' = [phase EXCEPT ![c] = "offline"]
    /\ home' = [home EXCEPT ![c] = None]
    /\ channel' = [channel EXCEPT ![c] = <<>>]
    /\ wire' = [wire EXCEPT ![c] = <<>>]
    /\ publishing' =
         LET p == publishing[home[c]]
         IN  IF c \in p.targets
             THEN [publishing EXCEPT ![home[c]] =
                     [event |-> p.event, targets |-> p.targets \ {c}, closed |-> TRUE]]
             ELSE publishing
    /\ UNCHANGED <<seq, unnotified, listening, inbox, since, clientVars>>

------------------------------------------------------------------------------

Next ==
    \/ \E i \in Instances :
        \/ ApplyElsewhere(i)
        \/ \E n \in 1..MaxSeq : Notify(i, n)
        \/ StopListening(i) \/ Listen(i) \/ Publish(i) \/ Panic(i)
    \/ \E c \in Clients :
        \/ Build(c) \/ Refuse(c) \/ Respond(c) \/ LoseResponse(c)
        \/ Load(c) \/ Replay(c) \/ ReplayFails(c) \/ GoLive(c)
        \/ Forward(c) \/ Receive(c) \/ Disconnect(c)
        \/ \E i \in Instances : Accept(c, i) \/ Connect(c, i) \/ Send(i, c)

\* Goroutines and browsers keep running, requests are answered, and the hook
\* retries for ever.  Nobody has to apply anything, and connections need not
\* break.
Fairness ==
    /\ \A i \in Instances :
        /\ \A n \in 1..MaxSeq : WF_vars(Notify(i, n))
        /\ WF_vars(Listen(i)) /\ WF_vars(Publish(i)) /\ WF_vars(Panic(i))
        /\ \A c \in Clients : WF_vars(Send(i, c))
    /\ \A c \in Clients :
        /\ WF_vars(Refuse(c)) /\ WF_vars(Respond(c))
        /\ WF_vars(Load(c)) /\ WF_vars(Replay(c)) /\ WF_vars(GoLive(c))
        /\ WF_vars(Forward(c)) /\ WF_vars(Receive(c))
        /\ WF_vars(\E i \in Instances : Connect(c, i))

Spec == Init /\ [][Next]_vars

FairSpec == Spec /\ Fairness

------------------------------------------------------------------------------
(* What a browser may rely on *)

CommandType ==
    [stage : {"none", "sent", "answered"}, expected : 0..MaxSeq, base : Seq(1..MaxSeq)]

TypeOK ==
    /\ seq \in 0..MaxSeq
    /\ unnotified \in [Instances -> SUBSET (1..MaxSeq)]
    /\ listening \in [Instances -> BOOLEAN]
    /\ inbox \in [Instances -> Seq(1..MaxSeq)]
    /\ publishing \in [Instances ->
          [event : 0..MaxSeq, targets : SUBSET Clients, closed : BOOLEAN]]
    /\ phase \in [Clients -> {"new", "offline"} \cup Connected]
    /\ home \in [Clients -> Instances \cup {None}]
    /\ since \in [Clients -> 0..MaxSeq]
    /\ channel \in [Clients -> Seq(1..MaxSeq)]
    /\ \A c \in Clients : Len(channel[c]) <= Buffer
    /\ wire \in [Clients -> Seq(1..MaxSeq)]
    /\ seqRef \in [Clients -> 0..MaxSeq]
    /\ have \in [Clients -> Seq(1..MaxSeq)]
    /\ command \in [Clients -> CommandType]
    /\ drops \in 0..MaxDrops

\* Whatever goes wrong on the way, a browser applies operations in the order
\* the server committed them, none twice and none that its seq does not
\* cover: replay, live events and Apply responses overlap freely, and an event
\* such as "three damage" must not count twice.
AppliedInOrder ==
    \A c \in Clients :
        /\ seqRef[c] <= seq
        /\ \A k \in DOMAIN have[c] : have[c][k] <= seqRef[c]
        /\ \A k, l \in DOMAIN have[c] : k < l => have[c][k] < have[c][l]

\* A browser at seq n shows the server's state at n, nothing missing: the hook
\* has a seq to compare and nothing else, so this is what its reconnects with
\* since and its expected_seq rest on.
ClientStateMatchesSeq ==
    \A c \in Clients : have[c] = Operations(seqRef[c])

\* An Apply that is accepted was built on the server's state: it carries
\* absolute hit points and effect lists, which would otherwise undo what the
\* browser has not seen.
CommandsBuiltOnServerState ==
    [][\A c \in Clients :
          (command[c].stage = "sent" /\ command'[c].stage = "answered") =>
              command[c].base = Operations(seq)]_vars

\* The listener never sends on a channel its subscriber has closed.
PublishesToOpenChannels ==
    \A i \in Instances : ~publishing[i].closed

\* Every operation is on every browser's board at last.
EventuallySynced ==
    \A c \in Clients, n \in 1..MaxSeq :
        seq >= n ~> \E k \in DOMAIN have[c] : have[c][k] = n
==============================================================================
