------------------------- MODULE EncounterStreamProofs -------------------------
(***************************************************************************)
(* Proofs about EncounterStream, for every number of browsers, instances,  *)
(* operations, buffer sizes and for every subset of the hazards: type      *)
(* correctness, and that a browser applies operations in their order, none *)
(* twice.                                                                  *)
(*                                                                         *)
(* Both rest on one strengthening of the type invariant: what any queue    *)
(* holds has been committed (StreamInv bounds by seq what TypeOK bounds by *)
(* MaxSeq).                                                                *)
(*                                                                         *)
(* The second half is what the protocol achieves when none of the hazards  *)
(* strikes and no channel overflows (Quiet): a browser misses nothing, and *)
(* builds its commands on the server's state.  QuietInv, its inductive     *)
(* invariant, follows an event from the commit to the browser.             *)
(***************************************************************************)
EXTENDS EncounterStream, Integers, TLAPS

\* Everything on its way, and everything a browser has, is in `events'.
Holding(events) ==
    /\ unnotified \in [Instances -> SUBSET events]
    /\ listening \in [Instances -> BOOLEAN]
    /\ inbox \in [Instances -> Seq(events)]
    /\ publishing \in [Instances ->
          [event : {0} \cup events, targets : SUBSET Clients, closed : BOOLEAN]]
    /\ phase \in [Clients -> {"new", "offline"} \cup Connected]
    /\ home \in [Clients -> Instances \cup {None}]
    /\ since \in [Clients -> {0} \cup events]
    /\ channel \in [Clients -> Seq(events)]
    /\ \A c \in Clients : Len(channel[c]) <= Buffer
    /\ wire \in [Clients -> Seq(events)]
    /\ seqRef \in [Clients -> {0} \cup events]
    /\ have \in [Clients -> Seq(events)]
    /\ command \in [Clients ->
          [stage : {"none", "sent", "answered"}, expected : {0} \cup events, base : Seq(events)]]
    /\ drops \in 0 .. MaxDrops

\* An event that is being published is one; a connected browser has a home.
Attached ==
    /\ \A i \in Instances : publishing[i].targets # {} => publishing[i].event # 0
    /\ \A c \in Clients : phase[c] \in Connected => home[c] \in Instances

\* A browser's operations ascend and end at its seq.
Ascending ==
    \A c \in Clients :
        /\ \A k \in DOMAIN have[c] : have[c][k] <= seqRef[c]
        /\ \A k, l \in DOMAIN have[c] : k < l => have[c][k] < have[c][l]

StreamInv == seq \in 0 .. MaxSeq /\ Holding(1 .. seq) /\ Attached /\ Ascending

-----------------------------------------------------------------------------
(* Queues. *)

LEMMA QueueFacts ==
    ASSUME NEW S, NEW q \in Seq(S)
    PROVE  /\ \A e \in S : Append(q, e) \in Seq(S) /\ Len(Append(q, e)) = Len(q) + 1
           /\ q # << >> => Head(q) \in S /\ Tail(q) \in Seq(S) /\ Len(Tail(q)) = Len(q) - 1
           /\ Len(q) \in Nat
OBVIOUS

LEMMA QueuesWiden ==
    ASSUME NEW S, NEW T, S \subseteq T
    PROVE  Seq(S) \subseteq Seq(T)
OBVIOUS

LEMMA OperationsFacts ==
    ASSUME NEW n \in Nat
    PROVE  /\ Operations(n) \in Seq(1 .. n) /\ DOMAIN Operations(n) = 1 .. n
           /\ \A k \in 1 .. n : Operations(n)[k] = k
<1>1. Operations(n) \in [1 .. n -> 1 .. n]
  BY DEF Operations
<1>2. QED
  BY <1>1 DEF Operations

LEMMA JournalAfterFacts ==
    ASSUME seq \in Nat, NEW s \in 0 .. seq
    PROVE  JournalAfter(s) \in Seq(1 .. seq)
<1>1. seq - s \in Nat /\ JournalAfter(s) \in [1 .. (seq - s) -> 1 .. seq]
  BY DEF JournalAfter
<1>2. QED
  BY <1>1

LEMMA AppendAscends ==
    ASSUME NEW q \in Seq(Nat), NEW n \in Nat,
           \A k \in DOMAIN q : q[k] < n,
           \A k, l \in DOMAIN q : k < l => q[k] < q[l]
    PROVE  LET r == Append(q, n)
           IN  /\ \A k \in DOMAIN r : r[k] <= n
               /\ \A k, l \in DOMAIN r : k < l => r[k] < r[l]
<1> DEFINE r == Append(q, n)
<1>1. /\ DOMAIN q = 1 .. Len(q) /\ DOMAIN r = 1 .. (Len(q) + 1) /\ Len(q) \in Nat
      /\ \A k \in 1 .. Len(q) : r[k] = q[k] /\ q[k] \in Nat
      /\ r[Len(q) + 1] = n
  OBVIOUS
<1> HIDE DEF r
<1>2. QED
  BY <1>1 DEF r

-----------------------------------------------------------------------------
(* The invariant. *)

LEMMA StreamInitInvariant ==
    ASSUME Init
    PROVE  StreamInv
<1>1. seq = 0 /\ 0 \in 0 .. MaxSeq /\ << >> \in Seq(1 .. 0)
  BY StreamAssumption DEF Init
<1>2. NoCommand \in [stage : {"none", "sent", "answered"}, expected : {0} \cup 1 .. 0,
                     base : Seq(1 .. 0)]
  BY <1>1 DEF NoCommand
<1>3. Idle \in [event : {0} \cup 1 .. 0, targets : SUBSET Clients, closed : BOOLEAN]
      /\ Idle.targets = {}
  BY DEF Idle
<1>4. Holding(1 .. seq)
  BY <1>1, <1>2, <1>3, StreamAssumption DEF Init, Holding
<1>5. Attached /\ Ascending
  BY <1>3 DEF Init, Attached, Ascending, Connected
<1>6. QED
  BY <1>1, <1>4, <1>5 DEF StreamInv

\* A commit admits one more event and takes none away.
LEMMA HoldingWidens ==
    ASSUME NEW S, NEW T, S \subseteq T, Holding(S)
    PROVE  Holding(T)
<1>1. Seq(S) \subseteq Seq(T)
  BY QueuesWiden
<1>2. [stage : {"none", "sent", "answered"}, expected : {0} \cup S, base : Seq(S)]
        \subseteq [stage : {"none", "sent", "answered"}, expected : {0} \cup T, base : Seq(T)]
  BY <1>1
<1>3. QED
  BY <1>1, <1>2 DEF Holding
-----------------------------------------------------------------------------
(* The steps. *)

LEMMA CommitStep ==
    ASSUME StreamInv, NEW i \in Instances, Committed(i),
           UNCHANGED <<listening, inbox, publishing, streamVars, seqRef, have, drops>>,
           \/ command' = command
           \/ \E c \in Clients :
                command' = [command EXCEPT ![c] = [stage |-> "answered", expected |-> seq + 1,
                                                   base |-> command[c].base]]
    PROVE  StreamInv'
<1> DEFINE S == 1 .. seq'
<1>1. seq \in Nat /\ seq' = seq + 1 /\ seq' \in 0 .. MaxSeq /\ 1 .. seq \subseteq S /\ seq' \in S
  <2>1. MaxSeq \in Nat /\ seq \in 0 .. MaxSeq
    BY StreamAssumption DEF StreamInv
  <2>2. seq < MaxSeq /\ seq' = seq + 1
    BY DEF Committed
  <2>3. seq \in Nat
    BY <2>1
  <2>4. seq' \in 0 .. MaxSeq
    BY <2>1, <2>2
  <2>5. \A k \in 1 .. seq : k \in 1 .. seq'
    BY <2>2, <2>3
  <2>6. QED
    BY <2>2, <2>3, <2>4, <2>5
<1>2. Holding(S)
  <2> HIDE DEF S
  <2>1. QED
    BY <1>1, HoldingWidens DEF StreamInv
<1> HIDE DEF S
<1>3. unnotified' \in [Instances -> SUBSET S]
  <2>1. unnotified \in [Instances -> SUBSET S]
    BY <1>2 DEF Holding
  <2>2. unnotified' = [unnotified EXCEPT ![i] = unnotified[i] \cup {seq'}]
    BY <1>1 DEF Committed
  <2>3. unnotified[i] \cup {seq'} \in SUBSET S
    BY <1>1, <2>1
  <2>4. QED
    BY <2>1, <2>2, <2>3
<1>4. command' \in [Clients -> [stage : {"none", "sent", "answered"}, expected : {0} \cup S,
                               base : Seq(S)]]
  <2> DEFINE T == [stage : {"none", "sent", "answered"}, expected : {0} \cup S, base : Seq(S)]
  <2>1. command \in [Clients -> T]
    BY <1>2 DEF Holding
  <2>2. ASSUME NEW c \in Clients,
               command' = [command EXCEPT ![c] =
                             [stage |-> "answered", expected |-> seq + 1,
                              base |-> command[c].base]]
        PROVE  command' \in [Clients -> T]
    <3>1. command[c] \in T
      BY <2>1
    <3>2. [stage |-> "answered", expected |-> seq + 1, base |-> command[c].base] \in T
      BY <3>1, <1>1
    <3>3. QED
      BY <2>1, <2>2, <3>2
  <2>3. QED
    BY <2>1, <2>2
<1>5. Holding(1 .. seq)'
  BY <1>2, <1>3, <1>4 DEF S, Holding, streamVars
<1>6. Attached' /\ Ascending'
  BY DEF StreamInv, Attached, Ascending, streamVars
<1>7. QED
  BY <1>1, <1>5, <1>6 DEF StreamInv

LEMMA BuildStep ==
    ASSUME StreamInv, NEW c \in Clients, Build(c)
    PROVE  StreamInv'
<1>1. seq' = seq /\ UNCHANGED <<serverVars, streamVars, seqRef, have, drops>>
  BY DEF Build, serverVars
<1>2. [stage |-> "sent", expected |-> seqRef[c], base |-> have[c]] \in
        [stage : {"none", "sent", "answered"}, expected : {0} \cup 1 .. seq, base : Seq(1 .. seq)]
  BY DEF StreamInv, Holding
<1>3. Holding(1 .. seq)'
  BY <1>1, <1>2 DEF StreamInv, Holding, Build, serverVars, streamVars
<1>4. QED
  BY <1>1, <1>3 DEF StreamInv, Attached, Ascending, serverVars, streamVars

LEMMA ForgetStep ==
    ASSUME StreamInv, NEW c \in Clients, Refuse(c) \/ LoseResponse(c)
    PROVE  StreamInv'
<1>1. /\ seq' = seq /\ UNCHANGED <<serverVars, streamVars, seqRef, have>>
      /\ command' = [command EXCEPT ![c] = NoCommand]
      /\ drops' \in 0 .. MaxDrops
  BY StreamAssumption DEF StreamInv, Holding, Refuse, LoseResponse, serverVars
<1>2. NoCommand \in
        [stage : {"none", "sent", "answered"}, expected : {0} \cup 1 .. seq, base : Seq(1 .. seq)]
  BY DEF NoCommand
<1>3. Holding(1 .. seq)'
  BY <1>1, <1>2 DEF StreamInv, Holding, serverVars, streamVars
<1>4. QED
  BY <1>1, <1>3 DEF StreamInv, Attached, Ascending, serverVars, streamVars

\* A browser takes over the whole state at n.
LEMMA AdoptStep ==
    ASSUME StreamInv, NEW c \in Clients, NEW n \in 0 .. seq, NEW com, com \in
              [stage : {"none", "sent", "answered"}, expected : {0} \cup 1 .. seq, base : Seq(1 .. seq)],
           seqRef' = [seqRef EXCEPT ![c] = n], have' = [have EXCEPT ![c] = Operations(n)],
           command' = [command EXCEPT ![c] = com],
           \/ phase' = phase
           \/ phase' = [phase EXCEPT ![c] = "offline"],
           UNCHANGED <<serverVars, home, since, channel, wire, drops>>
    PROVE  StreamInv'
<1>1. seq' = seq /\ seq \in Nat /\ n \in Nat /\ n \in {0} \cup 1 .. seq
  BY StreamAssumption DEF StreamInv, serverVars
<1>2. Operations(n) \in Seq(1 .. seq)
  <2>0. 1 .. n \subseteq 1 .. seq
    BY <1>1
  <2>1. Seq(1 .. n) \subseteq Seq(1 .. seq)
    BY <2>0, QueuesWiden
  <2>2. Operations(n) \in Seq(1 .. n)
    BY <1>1, OperationsFacts
  <2>3. QED
    BY <2>1, <2>2
<1>3. Holding(1 .. seq)'
  BY <1>1, <1>2 DEF StreamInv, Holding, serverVars
<1>4. Attached'
  BY DEF StreamInv, Holding, Attached, serverVars, Connected
<1>5. Ascending'
  <2>1. /\ \A d \in Clients : d # c => have'[d] = have[d] /\ seqRef'[d] = seqRef[d]
        /\ have'[c] = Operations(n) /\ seqRef'[c] = n
    BY DEF StreamInv, Holding
  <2>2. \A k \in DOMAIN Operations(n) : Operations(n)[k] = k /\ k \in Nat /\ k <= n
    <3>1. /\ DOMAIN Operations(n) = 1 .. n
          /\ \A k \in 1 .. n : Operations(n)[k] = k
      BY <1>1, OperationsFacts
    <3>2. QED
      BY <1>1, <3>1
  <2>3. QED
    BY <2>1, <2>2 DEF StreamInv, Ascending
<1>6. QED
  BY <1>1, <1>3, <1>4, <1>5 DEF StreamInv

LEMMA RespondStep ==
    ASSUME StreamInv, NEW c \in Clients, Respond(c)
    PROVE  StreamInv'
<1>1. PICK n \in 0 .. seq : n = command[c].expected
  BY StreamAssumption DEF StreamInv, Holding
<1>2. PICK com \in [stage : {"none", "sent", "answered"}, expected : {0} \cup 1 .. seq,
                   base : Seq(1 .. seq)] : com = NoCommand
  <2>1. << >> \in Seq(1 .. seq)
    OBVIOUS
  <2>2. QED
    BY <2>1 DEF NoCommand
<1>3. /\ seqRef' = [seqRef EXCEPT ![c] = n] /\ have' = [have EXCEPT ![c] = Operations(n)]
      /\ command' = [command EXCEPT ![c] = com] /\ phase' = phase
      /\ UNCHANGED <<serverVars, home, since, channel, wire, drops>>
  BY <1>1, <1>2 DEF Respond, streamVars
<1>4. QED
  BY <1>3, AdoptStep

LEMMA LoadStep ==
    ASSUME StreamInv, NEW c \in Clients, Load(c)
    PROVE  StreamInv'
<1>1. PICK n \in 0 .. seq : n = seq
  BY StreamAssumption DEF StreamInv
<1>2. PICK com \in [stage : {"none", "sent", "answered"}, expected : {0} \cup 1 .. seq,
                   base : Seq(1 .. seq)] : com = command[c]
  BY DEF StreamInv, Holding
<1>3. command' = [command EXCEPT ![c] = com]
  BY <1>2 DEF Load, StreamInv, Holding
<1>4. /\ seqRef' = [seqRef EXCEPT ![c] = n] /\ have' = [have EXCEPT ![c] = Operations(n)]
      /\ phase' = [phase EXCEPT ![c] = "offline"]
      /\ UNCHANGED <<serverVars, home, since, channel, wire, drops>>
  BY <1>1 DEF Load
<1>5. QED
  BY <1>3, <1>4, AdoptStep

LEMMA NotifyStep ==
    ASSUME StreamInv, NEW i \in Instances, NEW n \in 1 .. MaxSeq, Notify(i, n)
    PROVE  StreamInv'
<1>0. inbox' \in [Instances -> Seq(1 .. seq)] /\ unnotified' \in [Instances -> SUBSET (1 .. seq)]
  <2>1. n \in 1 .. seq
    BY DEF StreamInv, Holding, Notify
  <2>2. QED
    BY <2>1, QueueFacts DEF StreamInv, Holding, Notify
<1>1. seq' = seq /\ seq' \in 0 .. MaxSeq
  BY DEF StreamInv, Notify, streamVars, clientVars
<1>2. Holding(1 .. seq)'
  BY <1>1, <1>0 DEF StreamInv, Holding, Notify, streamVars, clientVars
<1>3. Attached'
  BY DEF StreamInv, Holding, Attached, Notify, streamVars, clientVars
<1>4. Ascending'
  BY DEF StreamInv, Holding, Ascending, Notify, streamVars, clientVars
<1>5. QED
  BY <1>1, <1>2, <1>3, <1>4 DEF StreamInv

LEMMA StopListeningStep ==
    ASSUME StreamInv, NEW i \in Instances, StopListening(i)
    PROVE  StreamInv'
<1>1. seq' = seq /\ seq' \in 0 .. MaxSeq
  BY DEF StreamInv, StopListening, streamVars, clientVars
<1>2. Holding(1 .. seq)'
  BY <1>1, StreamAssumption DEF StreamInv, Holding, StopListening, streamVars, clientVars
<1>3. Attached'
  BY DEF StreamInv, Holding, Attached, StopListening, streamVars, clientVars
<1>4. Ascending'
  BY DEF StreamInv, Holding, Ascending, StopListening, streamVars, clientVars
<1>5. QED
  BY <1>1, <1>2, <1>3, <1>4 DEF StreamInv

LEMMA ListenStep ==
    ASSUME StreamInv, NEW i \in Instances, Listen(i)
    PROVE  StreamInv'
<1>1. seq' = seq /\ seq' \in 0 .. MaxSeq
  BY DEF StreamInv, Listen, streamVars, clientVars
<1>2. Holding(1 .. seq)'
  BY <1>1 DEF StreamInv, Holding, Listen, streamVars, clientVars
<1>3. Attached'
  BY DEF StreamInv, Holding, Attached, Listen, streamVars, clientVars
<1>4. Ascending'
  BY DEF StreamInv, Holding, Ascending, Listen, streamVars, clientVars
<1>5. QED
  BY <1>1, <1>2, <1>3, <1>4 DEF StreamInv

LEMMA PublishStep ==
    ASSUME StreamInv, NEW i \in Instances, Publish(i)
    PROVE  StreamInv'
<1>0. /\ inbox' \in [Instances -> Seq(1 .. seq)]
      /\ publishing' \in [Instances ->
            [event : {0} \cup 1 .. seq, targets : SUBSET Clients, closed : BOOLEAN]]
      /\ \A j \in Instances : publishing'[j].targets # {} => publishing'[j].event # 0
  <2>1. Head(inbox[i]) \in 1 .. seq /\ Tail(inbox[i]) \in Seq(1 .. seq)
    BY QueueFacts DEF StreamInv, Holding, Publish
  <2>2. /\ Idle \in [event : {0} \cup 1 .. seq, targets : SUBSET Clients, closed : BOOLEAN]
        /\ Idle.targets = {}
    BY DEF Idle
  <2>3. [event |-> Head(inbox[i]), targets |-> Subscribed(i), closed |-> FALSE]
          \in [event : {0} \cup 1 .. seq, targets : SUBSET Clients, closed : BOOLEAN]
    BY <2>1 DEF Subscribed
  <2>4. inbox' \in [Instances -> Seq(1 .. seq)]
    BY <2>1 DEF StreamInv, Holding, Publish
  <2>5. Head(inbox[i]) # 0
    BY <2>1
  <2> DEFINE E == [event : {0} \cup 1 .. seq, targets : SUBSET Clients, closed : BOOLEAN]
  <2>6. PICK r \in E : /\ publishing' = [publishing EXCEPT ![i] = r]
                       /\ r.targets # {} => r.event # 0
    BY <2>2, <2>3, <2>5 DEF Publish
  <2>7. publishing \in [Instances -> E]
    BY DEF StreamInv, Holding
  <2>8. \A j \in Instances : publishing[j].targets # {} => publishing[j].event # 0
    BY DEF StreamInv, Attached
  <2> HIDE DEF E
  <2>9. QED
    <3>1. publishing' \in [Instances -> E]
      BY <2>6, <2>7
    <3>2. \A j \in Instances : publishing'[j] = IF j = i THEN r ELSE publishing[j]
      BY <2>6, <2>7
    <3>3. QED
      BY <2>4, <2>6, <2>8, <3>1, <3>2 DEF E
<1>1. seq' = seq /\ seq' \in 0 .. MaxSeq
  BY DEF StreamInv, Publish, streamVars, clientVars
<1>2. Holding(1 .. seq)'
  BY <1>1, <1>0 DEF StreamInv, Holding, Publish, streamVars, clientVars
<1>3. Attached'
  BY <1>0 DEF StreamInv, Holding, Attached, Publish, streamVars, clientVars
<1>4. Ascending'
  BY DEF StreamInv, Holding, Ascending, Publish, streamVars, clientVars
<1>5. QED
  BY <1>1, <1>2, <1>3, <1>4 DEF StreamInv

LEMMA SendStep ==
    ASSUME StreamInv, NEW i \in Instances, NEW c \in Clients, Send(i, c)
    PROVE  StreamInv'
<1>0. /\ channel' \in [Clients -> Seq(1 .. seq)] /\ \A d \in Clients : Len(channel'[d]) <= Buffer
      /\ publishing' \in [Instances ->
            [event : {0} \cup 1 .. seq, targets : SUBSET Clients, closed : BOOLEAN]]
      /\ \A j \in Instances : publishing'[j].targets # {} => publishing'[j].event # 0
  <2> DEFINE n == publishing[i].event
             rest == [publishing[i] EXCEPT !.targets = publishing[i].targets \ {c}]
  <2>1. n \in 1 .. seq
    BY DEF StreamInv, Holding, Attached, Send
  <2>2. Enqueued(channel[c], n) \in Seq(1 .. seq) /\ Len(Enqueued(channel[c], n)) <= Buffer
    <3>1. channel[c] \in Seq(1 .. seq) /\ Len(channel[c]) <= Buffer
      BY DEF StreamInv, Holding
    <3>2. /\ Append(channel[c], n) \in Seq(1 .. seq)
          /\ Len(Append(channel[c], n)) = Len(channel[c]) + 1
          /\ Len(channel[c]) \in Nat
      BY <2>1, <3>1, QueueFacts
    <3>3. Buffer \in Nat
      BY StreamAssumption
    <3>4. QED
      <4>1. CASE Len(channel[c]) < Buffer
        BY <3>2, <3>3, <4>1 DEF Enqueued
      <4>2. CASE ~(Len(channel[c]) < Buffer)
        BY <3>1, <4>2 DEF Enqueued
      <4>3. QED
        BY <4>1, <4>2
  <2>3. /\ Idle \in [event : {0} \cup 1 .. seq, targets : SUBSET Clients, closed : BOOLEAN]
        /\ Idle.targets = {}
    BY DEF Idle
  <2>4. /\ rest \in [event : {0} \cup 1 .. seq, targets : SUBSET Clients, closed : BOOLEAN]
        /\ rest.event # 0
    <3>1. publishing[i] \in
            [event : {0} \cup 1 .. seq, targets : SUBSET Clients, closed : BOOLEAN]
      BY DEF StreamInv, Holding
    <3>2. rest = [event |-> publishing[i].event, targets |-> publishing[i].targets \ {c},
                  closed |-> publishing[i].closed]
      BY <3>1
    <3> HIDE DEF rest
    <3>3. n # 0
      BY <2>1
    <3>4. QED
      BY <3>1, <3>2, <3>3
  <2>5. publishing' = [publishing EXCEPT ![i] =
                         IF publishing[i].targets = {c} /\ ~publishing[i].closed THEN Idle ELSE rest]
    BY DEF Send
  <2>6. channel' = [channel EXCEPT ![c] = Enqueued(channel[c], n)]
    BY DEF Send
  <2> HIDE DEF rest, n
  <2>7. channel' \in [Clients -> Seq(1 .. seq)] /\ \A d \in Clients : Len(channel'[d]) <= Buffer
    BY <2>2, <2>6 DEF StreamInv, Holding
  <2> DEFINE E == [event : {0} \cup 1 .. seq, targets : SUBSET Clients, closed : BOOLEAN]
  <2>8. PICK r \in E : /\ publishing' = [publishing EXCEPT ![i] = r]
                       /\ r.targets # {} => r.event # 0
    BY <2>3, <2>4, <2>5
  <2>9. publishing \in [Instances -> E]
    BY DEF StreamInv, Holding
  <2>10. \A j \in Instances : publishing[j].targets # {} => publishing[j].event # 0
    BY DEF StreamInv, Attached
  <2> HIDE DEF E
  <2>11. QED
    <3>1. publishing' \in [Instances -> E]
      BY <2>8, <2>9
    <3>2. \A j \in Instances : publishing'[j] = IF j = i THEN r ELSE publishing[j]
      BY <2>8, <2>9
    <3>3. QED
      BY <2>7, <2>8, <2>10, <3>1, <3>2 DEF E
<1>1. seq' = seq /\ seq' \in 0 .. MaxSeq
  BY DEF StreamInv, Send, clientVars
<1>2. Holding(1 .. seq)'
  BY <1>1, <1>0 DEF StreamInv, Holding, Send, clientVars
<1>3. Attached'
  BY <1>0 DEF StreamInv, Holding, Attached, Send, clientVars
<1>4. Ascending'
  BY DEF StreamInv, Holding, Ascending, Send, clientVars
<1>5. QED
  BY <1>1, <1>2, <1>3, <1>4 DEF StreamInv

LEMMA PanicStep ==
    ASSUME StreamInv, NEW i \in Instances, Panic(i)
    PROVE  StreamInv'
<1>0. /\ Idle \in [event : {0} \cup 1 .. seq, targets : SUBSET Clients, closed : BOOLEAN]
      /\ Idle.targets = {} /\ << >> \in Seq(1 .. seq) /\ Len(<< >>) <= Buffer
  BY StreamAssumption DEF Idle
<1>1. seq' = seq /\ seq' \in 0 .. MaxSeq
  BY DEF StreamInv, Panic, clientVars
<1>2. Holding(1 .. seq)'
  BY <1>1, <1>0 DEF StreamInv, Holding, Panic, clientVars
<1>3. Attached'
  BY <1>0 DEF StreamInv, Holding, Attached, Panic, clientVars, Connected
<1>4. Ascending'
  BY DEF StreamInv, Holding, Ascending, Panic, clientVars
<1>5. QED
  BY <1>1, <1>2, <1>3, <1>4 DEF StreamInv

LEMMA ConnectStep ==
    ASSUME StreamInv, NEW c \in Clients, NEW i \in Instances, Connect(c, i)
    PROVE  StreamInv'
<1>1. seq' = seq /\ seq' \in 0 .. MaxSeq
  BY DEF StreamInv, Connect, Connected, serverVars, clientVars
<1>2. Holding(1 .. seq)'
  BY <1>1 DEF StreamInv, Holding, Connect, Connected, serverVars, clientVars
<1>3. Attached'
  BY DEF StreamInv, Holding, Attached, Connect, Connected, serverVars, clientVars
<1>4. Ascending'
  BY DEF StreamInv, Holding, Ascending, Connect, Connected, serverVars, clientVars
<1>5. QED
  BY <1>1, <1>2, <1>3, <1>4 DEF StreamInv

LEMMA ReplayStep ==
    ASSUME StreamInv, NEW c \in Clients, Replay(c)
    PROVE  StreamInv'
<1>0. Replayed(c) \in Seq(1 .. seq)
  <2>1. seq \in Nat /\ since[c] \in {0} \cup 1 .. seq
    BY StreamAssumption DEF StreamInv, Holding
  <2>2. since[c] \in 0 .. seq
    BY <2>1
  <2>3. QED
    BY <2>1, <2>2, JournalAfterFacts DEF Replayed
<1>1. seq' = seq /\ seq' \in 0 .. MaxSeq
  BY DEF StreamInv, Replay, Connected, serverVars, clientVars
<1>2. Holding(1 .. seq)'
  BY <1>1, <1>0 DEF StreamInv, Holding, Replay, Connected, serverVars, clientVars
<1>3. Attached'
  BY DEF StreamInv, Holding, Attached, Replay, Connected, serverVars, clientVars
<1>4. Ascending'
  BY DEF StreamInv, Holding, Ascending, Replay, Connected, serverVars, clientVars
<1>5. QED
  BY <1>1, <1>2, <1>3, <1>4 DEF StreamInv

LEMMA ReplayFailsStep ==
    ASSUME StreamInv, NEW c \in Clients, ReplayFails(c)
    PROVE  StreamInv'
<1>1. seq' = seq /\ seq' \in 0 .. MaxSeq
  BY DEF StreamInv, ReplayFails, Connected, serverVars, clientVars
<1>2. Holding(1 .. seq)'
  BY <1>1, StreamAssumption DEF StreamInv, Holding, ReplayFails, Connected, serverVars, clientVars
<1>3. Attached'
  BY DEF StreamInv, Holding, Attached, ReplayFails, Connected, serverVars, clientVars
<1>4. Ascending'
  BY DEF StreamInv, Holding, Ascending, ReplayFails, Connected, serverVars, clientVars
<1>5. QED
  BY <1>1, <1>2, <1>3, <1>4 DEF StreamInv

LEMMA GoLiveStep ==
    ASSUME StreamInv, NEW c \in Clients, GoLive(c)
    PROVE  StreamInv'
<1>1. seq' = seq /\ seq' \in 0 .. MaxSeq
  BY DEF StreamInv, GoLive, Connected, serverVars, clientVars
<1>2. Holding(1 .. seq)'
  BY <1>1 DEF StreamInv, Holding, GoLive, Connected, serverVars, clientVars
<1>3. Attached'
  BY DEF StreamInv, Holding, Attached, GoLive, Connected, serverVars, clientVars
<1>4. Ascending'
  BY DEF StreamInv, Holding, Ascending, GoLive, Connected, serverVars, clientVars
<1>5. QED
  BY <1>1, <1>2, <1>3, <1>4 DEF StreamInv

LEMMA ForwardStep ==
    ASSUME StreamInv, NEW c \in Clients, Forward(c)
    PROVE  StreamInv'
<1>0. /\ channel' \in [Clients -> Seq(1 .. seq)] /\ \A d \in Clients : Len(channel'[d]) <= Buffer
      /\ wire' \in [Clients -> Seq(1 .. seq)]
  <2>1. /\ Head(channel[c]) \in 1 .. seq /\ Tail(channel[c]) \in Seq(1 .. seq)
        /\ Len(Tail(channel[c])) <= Buffer
    BY QueueFacts, StreamAssumption DEF StreamInv, Holding, Forward
  <2>2. Append(wire[c], Head(channel[c])) \in Seq(1 .. seq)
    BY <2>1, QueueFacts DEF StreamInv, Holding
  <2>3. QED
    BY <2>1, <2>2 DEF StreamInv, Holding, Forward
<1>1. seq' = seq /\ seq' \in 0 .. MaxSeq
  BY DEF StreamInv, Forward, serverVars, clientVars
<1>2. Holding(1 .. seq)'
  BY <1>1, <1>0 DEF StreamInv, Holding, Forward, serverVars, clientVars
<1>3. Attached'
  BY DEF StreamInv, Holding, Attached, Forward, serverVars, clientVars
<1>4. Ascending'
  BY DEF StreamInv, Holding, Ascending, Forward, serverVars, clientVars
<1>5. QED
  BY <1>1, <1>2, <1>3, <1>4 DEF StreamInv

LEMMA ReceiveStep ==
    ASSUME StreamInv, NEW c \in Clients, Receive(c)
    PROVE  StreamInv'
<1> DEFINE n == Head(wire[c])
<1>1. /\ seq' = seq /\ n \in 1 .. seq /\ wire' \in [Clients -> Seq(1 .. seq)]
      /\ have[c] \in Seq(1 .. seq) /\ seqRef[c] \in Nat /\ seq \in Nat
  BY QueueFacts, StreamAssumption DEF StreamInv, Holding, Receive, serverVars
<1>2. Append(have[c], n) \in Seq(1 .. seq)
  BY <1>1, QueueFacts
<1> HIDE DEF n
<1>3. Holding(1 .. seq)'
  BY <1>1, <1>2 DEF n, StreamInv, Holding, Receive, serverVars
<1>4. Attached'
  BY DEF StreamInv, Attached, Receive, serverVars
<1>5. Ascending'
  <2>1. CASE IsStale(c, n)
    BY <2>1 DEF n, StreamInv, Ascending, Receive
  <2>2. CASE ~IsStale(c, n)
    <3>1. seqRef' = [seqRef EXCEPT ![c] = n] /\ have' = [have EXCEPT ![c] = Append(have[c], n)]
      BY <2>2 DEF n, Receive
    <3>2. /\ \A d \in Clients : d # c => have'[d] = have[d] /\ seqRef'[d] = seqRef[d]
          /\ have'[c] = Append(have[c], n) /\ seqRef'[c] = n
      BY <3>1 DEF StreamInv, Holding
    <3>3. have[c] \in Seq(Nat) /\ n \in Nat /\ \A k \in DOMAIN have[c] : have[c][k] < n
      <4>0. 1 .. seq \subseteq Nat
        OBVIOUS
      <4>1. Seq(1 .. seq) \subseteq Seq(Nat)
        BY <4>0, QueuesWiden
      <4>2. seqRef[c] < n
        BY <1>1, <2>2 DEF IsStale
      <4>3. \A k \in DOMAIN have[c] : have[c][k] \in Nat /\ have[c][k] <= seqRef[c]
        BY <1>1 DEF StreamInv, Ascending
      <4>4. QED
        BY <1>1, <4>1, <4>2, <4>3
    <3>4. \A k, l \in DOMAIN have[c] : k < l => have[c][k] < have[c][l]
      BY DEF StreamInv, Ascending
    <3>5. /\ \A k \in DOMAIN have'[c] : have'[c][k] <= seqRef'[c]
          /\ \A k, l \in DOMAIN have'[c] : k < l => have'[c][k] < have'[c][l]
      BY <3>2, <3>3, <3>4, AppendAscends
    <3>6. QED
      BY <3>2, <3>5 DEF StreamInv, Ascending
  <2>3. QED
    BY <2>1, <2>2
<1>6. QED
  BY <1>1, <1>3, <1>4, <1>5 DEF StreamInv

LEMMA DisconnectStep ==
    ASSUME StreamInv, NEW c \in Clients, Disconnect(c)
    PROVE  StreamInv'
<1>0. /\ publishing' \in [Instances ->
            [event : {0} \cup 1 .. seq, targets : SUBSET Clients, closed : BOOLEAN]]
      /\ \A j \in Instances : publishing'[j].targets # {} => publishing'[j].event # 0
  <2> DEFINE i == home[c]
             rest == [event |-> publishing[i].event, targets |-> publishing[i].targets \ {c},
                      closed |-> TRUE]
  <2>1. i \in Instances
    BY DEF StreamInv, Attached, Disconnect
  <2>2. /\ rest \in [event : {0} \cup 1 .. seq, targets : SUBSET Clients, closed : BOOLEAN]
        /\ rest.targets = publishing[i].targets \ {c} /\ rest.event = publishing[i].event
    <3>1. publishing[i] \in
            [event : {0} \cup 1 .. seq, targets : SUBSET Clients, closed : BOOLEAN]
      BY <2>1 DEF StreamInv, Holding
    <3>2. QED
      BY <3>1
  <2>3. \/ publishing' = publishing
        \/ publishing' = [publishing EXCEPT ![i] = rest] /\ c \in publishing[i].targets
    BY DEF Disconnect
  <2> DEFINE E == [event : {0} \cup 1 .. seq, targets : SUBSET Clients, closed : BOOLEAN]
  <2>4. /\ publishing \in [Instances -> E]
        /\ \A j \in Instances : publishing[j].targets # {} => publishing[j].event # 0
    BY DEF StreamInv, Holding, Attached
  <2>5. rest \in E /\ (c \in publishing[i].targets => rest.event # 0)
    BY <2>1, <2>2, <2>4
  <2> HIDE DEF rest, i
  <2>6. CASE publishing' = publishing
    BY <2>4, <2>6
  <2> HIDE DEF E
  <2>7. CASE publishing' = [publishing EXCEPT ![i] = rest] /\ c \in publishing[i].targets
    <3>1. publishing' \in [Instances -> E]
      BY <2>1, <2>4, <2>5, <2>7
    <3>2. \A j \in Instances : publishing'[j] = IF j = i THEN rest ELSE publishing[j]
      BY <2>1, <2>4, <2>7
    <3>3. QED
      BY <2>4, <2>5, <2>7, <3>1, <3>2 DEF E
  <2>8. QED
    BY <2>3, <2>6, <2>7
<1>1. seq' = seq /\ seq' \in 0 .. MaxSeq
  BY DEF StreamInv, Disconnect, clientVars
<1>2. Holding(1 .. seq)'
  BY <1>1, <1>0, StreamAssumption DEF StreamInv, Holding, Disconnect, clientVars
<1>3. Attached'
  BY <1>0 DEF StreamInv, Holding, Attached, Disconnect, clientVars, Connected
<1>4. Ascending'
  BY DEF StreamInv, Holding, Ascending, Disconnect, clientVars
<1>5. QED
  BY <1>1, <1>2, <1>3, <1>4 DEF StreamInv

-----------------------------------------------------------------------------
(* The theorems. *)

LEMMA StreamStep ==
    ASSUME StreamInv, [Next]_vars
    PROVE  StreamInv'
<1>1. CASE UNCHANGED vars
  BY <1>1 DEF vars, StreamInv, Holding, Attached, Ascending
<1>2. ASSUME NEW i \in Instances,
             \/ ApplyElsewhere(i)
             \/ \E n \in 1 .. MaxSeq : Notify(i, n)
             \/ StopListening(i) \/ Listen(i) \/ Publish(i) \/ Panic(i)
      PROVE  StreamInv'
  <2>1. CASE ApplyElsewhere(i)
    BY <2>1, CommitStep DEF ApplyElsewhere, clientVars
  <2>2. QED
    BY <1>2, <2>1, NotifyStep, StopListeningStep, ListenStep, PublishStep, PanicStep
<1>3. ASSUME NEW c \in Clients,
             \/ Build(c) \/ Refuse(c) \/ Respond(c) \/ LoseResponse(c)
             \/ Load(c) \/ Replay(c) \/ ReplayFails(c) \/ GoLive(c)
             \/ Forward(c) \/ Receive(c) \/ Disconnect(c)
      PROVE  StreamInv'
  BY <1>3, BuildStep, ForgetStep, RespondStep, LoadStep, ReplayStep, ReplayFailsStep, GoLiveStep,
     ForwardStep, ReceiveStep, DisconnectStep
<1>4. ASSUME NEW c \in Clients, NEW i \in Instances,
             Accept(c, i) \/ Connect(c, i) \/ Send(i, c)
      PROVE  StreamInv'
  <2>1. CASE Accept(c, i)
    <3>1. /\ Committed(i)
          /\ UNCHANGED <<listening, inbox, publishing, streamVars, seqRef, have, drops>>
          /\ command' = [command EXCEPT ![c] =
                            [stage |-> "answered", expected |-> seq + 1, base |-> command[c].base]]
      BY <2>1 DEF Accept
    <3>2. QED
      BY <3>1, CommitStep
  <2>2. QED
    BY <1>4, <2>1, ConnectStep, SendStep
<1>5. QED
  BY <1>1, <1>2, <1>3, <1>4 DEF Next

\* Every queue between the journal and a browser holds committed operations
\* only, and a browser's own ascend: the inductive invariant.
THEOREM StreamInvariant == Spec => []StreamInv
<1>1. Init => StreamInv
  BY StreamInitInvariant
<1>2. StreamInv /\ [Next]_vars => StreamInv'
  BY StreamStep
<1>3. QED
  BY <1>1, <1>2, PTL DEF Spec

\* Every reachable state of the stream is well typed, and no subscriber's
\* channel holds more than its buffer.
THEOREM StreamTypeCorrect == Spec => []TypeOK
<1>1. StreamInv => TypeOK
  <2> SUFFICES ASSUME StreamInv PROVE TypeOK
    OBVIOUS
  <2>0. MaxSeq \in Nat
    BY StreamAssumption
  <2>1. seq \in 0 .. MaxSeq
    BY DEF StreamInv
  <2>2. 1 .. seq \subseteq 1 .. MaxSeq
    BY <2>0, <2>1
  <2>3. Holding(1 .. MaxSeq)
    BY <2>2, HoldingWidens DEF StreamInv
  <2>4. {0} \cup 1 .. MaxSeq = 0 .. MaxSeq
    BY <2>0
  <2>5. QED
    BY <2>1, <2>3, <2>4 DEF Holding, TypeOK, CommandType
<1>2. QED
  BY <1>1, StreamInvariant, PTL

\* Whatever is lost, delayed or repeated on the way, a browser applies
\* operations in the order of their seqs, none twice and none its own seq does
\* not cover.
THEOREM AppliedInOrderCorrect == Spec => []AppliedInOrder
<1>1. StreamInv => AppliedInOrder
  BY StreamAssumption DEF StreamInv, Holding, Ascending, AppliedInOrder
<1>2. QED
  BY <1>1, StreamInvariant, PTL

-----------------------------------------------------------------------------
(* Without the listed races, and with room for every event: nothing is     *)
(* missed.  The argument follows an event on its way.  Notifications go    *)
(* out in order (Notified), every listener has them without a hole         *)
(* (Listened), a connection's channel goes on where its wire ends, and the *)
(* wire where the browser's seq ends (Streams).                            *)

Quiet == Hazards = {} /\ MaxSeq <= Buffer

\* The journal's notifications have gone out up to `r', in order, and no
\* listener has missed one.
Notified(r) ==
    /\ \A i \in Instances : \A n \in unnotified[i] : n > r
    /\ \A n \in (r + 1) .. seq : \E i \in Instances : n \in unnotified[i]
    /\ \A i, j \in Instances : i # j => unnotified[i] \cap unnotified[j] = {}

Published(i, r) == r - Len(inbox[i])

Listened(r) ==
    \A i \in Instances :
        /\ listening[i]
        /\ Len(inbox[i]) <= r
        /\ \A k \in 1 .. Len(inbox[i]) : inbox[i][k] = Published(i, r) + k
        /\ ~publishing[i].closed
        /\ publishing[i].targets # {} => publishing[i].event = Published(i, r)
        /\ \A c \in publishing[i].targets : home[c] = i

\* The last event sent to c's channel, and the last one taken from it.
Sent(c, r) ==
    IF c \in publishing[home[c]].targets THEN Published(home[c], r) - 1 ELSE Published(home[c], r)

Forwarded(c, r) == Sent(c, r) - Len(channel[c])

Follows(c, x) == x <= seqRef[c] \/ \E k \in DOMAIN wire[c] : wire[c][k] >= x

\* What the browser will read next never skips an operation.
Gapless(c) ==
    \A k \in DOMAIN wire[c] :
        \/ wire[c][k] <= seqRef[c] + 1
        \/ \E l \in DOMAIN wire[c] : l < k /\ wire[c][l] >= wire[c][k] - 1

Streams(c, r) ==
    /\ phase[c] \in Connected =>
          /\ Forwarded(c, r) >= 0
          /\ \A k \in 1 .. Len(channel[c]) : channel[c][k] = Forwarded(c, r) + k
    /\ phase[c] \notin Connected => home[c] = None /\ channel[c] = << >> /\ wire[c] = << >>
    /\ phase[c] = "subscribed" => wire[c] = << >> /\ since[c] <= seqRef[c]
    /\ phase[c] \in {"replayed", "live"} => Follows(c, Forwarded(c, r))
    /\ Gapless(c)

Faithful(c) ==
    /\ have[c] = Operations(seqRef[c])
    /\ command[c].stage = "sent" => command[c].base = Operations(command[c].expected)

Undisturbed(r) ==
    /\ Notified(r) /\ Listened(r)
    /\ \A c \in Clients : Streams(c, r)

QuietInv == (\E r \in 0 .. seq : Undisturbed(r)) /\ \A c \in Clients : Faithful(c)

Row(c) == <<phase[c], home[c], since[c], channel[c], wire[c], seqRef[c]>>

\* A connection that a step does not touch and that loses nothing by it.
LEMMA StreamsKept ==
    ASSUME NEW c \in Clients, NEW r, NEW q, Streams(c, r), UNCHANGED Row(c),
           phase[c] \in Connected => Forwarded(c, q)' = Forwarded(c, r)
    PROVE  Streams(c, q)'
<1>1. /\ phase'[c] = phase[c] /\ home'[c] = home[c] /\ since'[c] = since[c]
      /\ channel'[c] = channel[c] /\ wire'[c] = wire[c] /\ seqRef'[c] = seqRef[c]
  BY DEF Row
<1>2. Gapless(c)' /\ \A x : Follows(c, x) => Follows(c, x)'
  BY <1>1 DEF Streams, Gapless, Follows
<1>3. QED
  BY <1>1, <1>2 DEF Streams, Connected

\* A step that touches nothing between the journal and the browsers.
LEMMA UndisturbedKept ==
    ASSUME NEW r, Undisturbed(r),
           UNCHANGED <<serverVars, phase, home, since, channel, wire, seqRef>>
    PROVE  Undisturbed(r)'
<1>1. Notified(r)' /\ Listened(r)'
  BY DEF Undisturbed, Notified, Listened, Published, serverVars
<1>2. ASSUME NEW c \in Clients PROVE Streams(c, r)'
  <2>1. Streams(c, r) /\ UNCHANGED Row(c)
    BY DEF Undisturbed, Row
  <2>2. Forwarded(c, r)' = Forwarded(c, r)
    BY DEF Forwarded, Sent, Published, serverVars
  <2>3. QED
    BY <2>1, <2>2, StreamsKept
<1>3. QED
  BY <1>1, <1>2 DEF Undisturbed

LEMMA QuietInit ==
    ASSUME Init
    PROVE  QuietInv
<1>1. seq = 0 /\ 0 \in 0 .. seq
  BY DEF Init
<1>2. Notified(0) /\ Listened(0)
  BY <1>1 DEF Init, Notified, Listened, Published, Idle
<1>3. ASSUME NEW c \in Clients PROVE Streams(c, 0) /\ Faithful(c)
  <2>1. /\ phase[c] = "new" /\ home[c] = None /\ channel[c] = << >> /\ wire[c] = << >>
        /\ seqRef[c] = 0 /\ have[c] = << >> /\ command[c].stage = "none"
    BY DEF Init, NoCommand
  <2>2. Operations(0) = << >>
    BY DEF Operations
  <2>3. QED
    BY <2>1, <2>2 DEF Streams, Connected, Gapless, Faithful
<1>4. QED
  BY <1>1, <1>2, <1>3 DEF QuietInv, Undisturbed

LEMMA QuietCommit ==
    ASSUME StreamInv, NEW r \in 0 .. seq, Undisturbed(r), NEW i \in Instances, Committed(i),
           UNCHANGED <<listening, inbox, publishing, streamVars, seqRef>>
    PROVE  r \in 0 .. seq' /\ Undisturbed(r)'
<1>1. /\ seq \in Nat /\ seq' = seq + 1 /\ r \in Nat /\ r <= seq
      /\ \A j \in Instances : unnotified'[j] = IF j = i THEN unnotified[j] \cup {seq'} ELSE unnotified[j]
      /\ \A j \in Instances : \A n \in unnotified[j] : n \in 1 .. seq
  <2>1. seq \in Nat /\ seq' = seq + 1
    BY StreamAssumption DEF Committed, StreamInv
  <2>2. unnotified \in [Instances -> SUBSET (1 .. seq)]
    BY DEF StreamInv, Holding
  <2>3. unnotified' = [unnotified EXCEPT ![i] = @ \cup {seq'}]
    BY <2>1 DEF Committed
  <2>4. QED
    BY <2>1, <2>2, <2>3
<1>2. Notified(r)'
  <2>1. ASSUME NEW j \in Instances, NEW n \in unnotified'[j] PROVE n > r
    <3>1. n = seq' \/ n \in unnotified[j]
      BY <1>1
    <3>2. QED
      BY <1>1, <3>1 DEF Undisturbed, Notified
  <2>2. ASSUME NEW n \in (r + 1) .. seq' PROVE \E j \in Instances : n \in unnotified'[j]
    <3>1. n = seq' \/ n \in (r + 1) .. seq
      BY <1>1
    <3>2. QED
      BY <1>1, <3>1 DEF Undisturbed, Notified
  <2>3. ASSUME NEW j \in Instances, NEW k \in Instances, j # k
        PROVE  unnotified'[j] \cap unnotified'[k] = {}
    <3>1. \A l \in Instances : seq' \notin unnotified[l]
      BY <1>1
    <3>2. unnotified[j] \cap unnotified[k] = {}
      BY <2>3 DEF Undisturbed, Notified
    <3>3. /\ unnotified'[j] = unnotified[j] \/ (j = i /\ unnotified'[j] = unnotified[j] \cup {seq'})
          /\ unnotified'[k] = unnotified[k] \/ (k = i /\ unnotified'[k] = unnotified[k] \cup {seq'})
      BY <1>1
    <3>4. QED
      BY <2>3, <3>1, <3>2, <3>3
  <2>4. QED
    BY <2>1, <2>2, <2>3 DEF Notified
<1>3. Listened(r)'
  BY DEF Undisturbed, Listened, Published, streamVars
<1>4. ASSUME NEW c \in Clients PROVE Streams(c, r)'
  <2>1. Streams(c, r) /\ UNCHANGED Row(c)
    BY DEF Undisturbed, Row, streamVars
  <2>2. Forwarded(c, r)' = Forwarded(c, r)
    BY DEF Forwarded, Sent, Published, streamVars
  <2>3. QED
    BY <2>1, <2>2, StreamsKept
<1>5. QED
  BY <1>1, <1>2, <1>3, <1>4 DEF Undisturbed

\* A browser that learns of a later seq by other means.
LEMMA QuietAdopt ==
    ASSUME StreamInv, NEW r \in 0 .. seq, Undisturbed(r), NEW c \in Clients,
           NEW n \in Nat, seqRef[c] <= n, seqRef' = [seqRef EXCEPT ![c] = n],
           \/ phase' = phase
           \/ phase[c] \notin Connected /\ phase' = [phase EXCEPT ![c] = "offline"],
           UNCHANGED <<serverVars, home, since, channel, wire>>
    PROVE  Undisturbed(r)'
<1>1. Notified(r)' /\ Listened(r)'
  BY DEF Undisturbed, Notified, Listened, Published, serverVars
<1>2. \A d \in Clients : Forwarded(d, r)' = Forwarded(d, r)
  BY DEF Forwarded, Sent, Published, serverVars
<1>3. ASSUME NEW d \in Clients, d # c PROVE Streams(d, r)'
  <2>1. Streams(d, r) /\ UNCHANGED Row(d)
    BY <1>3 DEF Undisturbed, Row, StreamInv, Holding
  <2>2. QED
    BY <1>2, <2>1, StreamsKept
<1>4. Streams(c, r)'
  <2>1. /\ seqRef'[c] = n /\ seqRef[c] \in Nat /\ since[c] \in Nat
        /\ wire[c] \in Seq(Nat) /\ seqRef[c] <= n /\ n \in Nat
    <3>1. 1 .. seq \subseteq Nat /\ {0} \cup 1 .. seq \subseteq Nat
      BY StreamAssumption DEF StreamInv
    <3>2. Seq(1 .. seq) \subseteq Seq(Nat)
      BY <3>1, QueuesWiden
    <3>3. QED
      BY <3>1, <3>2 DEF StreamInv, Holding
  <2>2. phase'[c] = phase[c] \/ (phase[c] \notin Connected /\ phase'[c] = "offline")
    BY DEF StreamInv, Holding
  <2>3. Gapless(c)'
    <3>1. \A k \in DOMAIN wire[c] : wire[c][k] \in Nat
      BY <2>1
    <3>2. Gapless(c) /\ wire'[c] = wire[c]
      BY DEF Undisturbed, Streams
    <3>3. ASSUME NEW k \in DOMAIN wire[c], wire[c][k] <= seqRef[c] + 1
          PROVE  wire[c][k] <= seqRef'[c] + 1
      BY <2>1, <3>1, <3>3
    <3>4. QED
      BY <3>2, <3>3 DEF Gapless
  <2>4. phase[c] \in {"replayed", "live"} => Follows(c, Forwarded(c, r))'
    <3>1. ASSUME phase[c] \in {"replayed", "live"} PROVE Follows(c, Forwarded(c, r))'
      <4>1. phase[c] \in Connected /\ home[c] \in Instances
        BY <3>1 DEF Connected, StreamInv, Attached
      <4>2. Follows(c, Forwarded(c, r))
        BY <3>1 DEF Undisturbed, Streams
      <4>3. Forwarded(c, r) \in Int
        BY <4>1 DEF Forwarded, Sent, Published, StreamInv, Holding
      <4>4. QED
        BY <1>2, <2>1, <4>2, <4>3 DEF Follows
    <3>2. QED
      BY <3>1
  <2>5. QED
    BY <1>2, <2>1, <2>2, <2>3, <2>4 DEF Undisturbed, Streams, Connected
<1>5. QED
  BY <1>1, <1>3, <1>4 DEF Undisturbed

LEMMA OperationsGrow ==
    ASSUME NEW n \in Nat
    PROVE  Append(Operations(n), n + 1) = Operations(n + 1)
<1>1. Operations(n) \in Seq(Nat) /\ Len(Operations(n)) = n
  BY DEF Operations
<1>2. Operations(n + 1) \in Seq(Nat) /\ Len(Operations(n + 1)) = n + 1
  BY DEF Operations
<1>3. \A k \in 1 .. (n + 1) : Append(Operations(n), n + 1)[k] = Operations(n + 1)[k]
  BY <1>1 DEF Operations
<1>4. Append(Operations(n), n + 1) \in Seq(Nat) /\ Len(Append(Operations(n), n + 1)) = n + 1
  BY <1>1
<1>5. \A s \in Seq(Nat) : Len(s) = n + 1 => s = [k \in 1 .. (n + 1) |-> s[k]]
  OBVIOUS
<1> DEFINE a == Append(Operations(n), n + 1)
           b == Operations(n + 1)
<1>6. a = [k \in 1 .. (n + 1) |-> a[k]] /\ b = [k \in 1 .. (n + 1) |-> b[k]]
  BY <1>2, <1>4, <1>5
<1> HIDE DEF a, b
<1>7. \A k \in 1 .. (n + 1) : a[k] = b[k]
  BY <1>3 DEF a, b
<1>8. a = b
  BY <1>6, <1>7
<1>9. QED
  BY <1>8 DEF a, b

LEMMA NumberQueues ==
    ASSUME NEW q \in Seq(Nat)
    PROVE  /\ Len(q) \in Nat /\ DOMAIN q = 1 .. Len(q)
           /\ \A k \in 1 .. Len(q) : q[k] \in Nat
           /\ \A e \in Nat : LET r == Append(q, e)
                             IN /\ r \in Seq(Nat) /\ Len(r) = Len(q) + 1 /\ r[Len(q) + 1] = e
                                /\ \A k \in 1 .. Len(q) : r[k] = q[k]
           /\ q # << >> => LET r == Tail(q)
                           IN /\ r \in Seq(Nat) /\ Len(q) > 0 /\ Len(r) = Len(q) - 1
                              /\ Head(q) = q[1] /\ \A k \in 1 .. Len(r) : r[k] = q[k + 1]
OBVIOUS

LEMMA StreamFacts ==
    ASSUME StreamInv
    PROVE  /\ seq \in Nat /\ seq <= MaxSeq /\ MaxSeq \in Nat /\ Buffer \in Nat
           /\ unnotified \in [Instances -> SUBSET (1 .. seq)]
           /\ inbox \in [Instances -> Seq(Nat)]
           /\ channel \in [Clients -> Seq(Nat)] /\ wire \in [Clients -> Seq(Nat)]
           /\ seqRef \in [Clients -> 0 .. seq] /\ since \in [Clients -> 0 .. seq]
<1>1. 1 .. seq \subseteq Nat /\ {0} \cup 1 .. seq \subseteq 0 .. seq /\ seq \in Nat
  BY StreamAssumption DEF StreamInv
<1>2. Seq(1 .. seq) \subseteq Seq(Nat)
  BY <1>1, QueuesWiden
<1>3. seq <= MaxSeq /\ MaxSeq \in Nat /\ Buffer \in Nat
  BY StreamAssumption DEF StreamInv
<1>4. unnotified \in [Instances -> SUBSET (1 .. seq)] /\ inbox \in [Instances -> Seq(Nat)]
  BY <1>2 DEF StreamInv, Holding
<1>5. channel \in [Clients -> Seq(Nat)] /\ wire \in [Clients -> Seq(Nat)]
  BY <1>2 DEF StreamInv, Holding
<1>6. seqRef \in [Clients -> 0 .. seq] /\ since \in [Clients -> 0 .. seq]
  BY <1>1 DEF StreamInv, Holding
<1>7. QED
  BY <1>1, <1>3, <1>4, <1>5, <1>6

\* A browser that is connected is connected to a server process.
LEMMA HomeFacts ==
    ASSUME StreamInv, NEW r \in 0 .. seq, Undisturbed(r), NEW c \in Clients
    PROVE  /\ phase[c] \in Connected <=> home[c] \in Instances
           /\ home[c] \in Instances => Sent(c, r) \in Int /\ Forwarded(c, r) \in Int /\ Sent(c, r) <= seq
<1>1. /\ phase[c] \in Connected => home[c] \in Instances
      /\ phase[c] \notin Connected => home[c] = None
      /\ None \notin Instances
  BY StreamAssumption DEF StreamInv, Attached, Undisturbed, Streams
<1>2. ASSUME home[c] \in Instances
      PROVE  Sent(c, r) \in Int /\ Forwarded(c, r) \in Int /\ Sent(c, r) <= seq
  <2>1. Len(inbox[home[c]]) \in Nat /\ Len(channel[c]) \in Nat /\ seq \in Nat
    BY <1>2, StreamFacts
  <2>2. QED
    BY <2>1 DEF Forwarded, Sent, Published
<1>3. QED
  BY <1>1, <1>2

\* Notifications go out in the order of the commits: the next is r + 1.
LEMMA QuietNotify ==
    ASSUME Quiet, StreamInv, NEW r \in 0 .. seq, Undisturbed(r),
           NEW i \in Instances, NEW n \in 1 .. MaxSeq, Notify(i, n)
    PROVE  r + 1 \in 0 .. seq' /\ Undisturbed(r + 1)'
<1>1. /\ n \in unnotified[i] /\ \A j \in Instances : \A m \in unnotified[j] : n <= m
      /\ unnotified' = [unnotified EXCEPT ![i] = @ \ {n}]
      /\ UNCHANGED <<seq, listening, publishing, streamVars, clientVars, drops>>
  BY DEF Quiet, Notify
<1>2. n = r + 1 /\ n <= seq /\ seq \in Nat /\ r \in Nat
  <2>1. n \in 1 .. seq /\ n > r /\ seq \in Nat
    BY <1>1, StreamFacts DEF Undisturbed, Notified
  <2>2. r + 1 \in (r + 1) .. seq
    BY <2>1
  <2>3. PICK j \in Instances : r + 1 \in unnotified[j]
    BY <2>2 DEF Undisturbed, Notified
  <2>4. n <= r + 1
    BY <1>1, <2>3
  <2>5. QED
    BY <2>1, <2>4
<1>3. /\ inbox \in [Instances -> Seq(Nat)] /\ inbox' \in [Instances -> Seq(Nat)]
      /\ \A j \in Instances : inbox'[j] = Append(inbox[j], n)
      /\ n \in Nat /\ \A j \in Instances : inbox[j] \in Seq(Nat)
  <2>1. inbox \in [Instances -> Seq(Nat)] /\ n \in Nat
    BY <1>2, StreamFacts
  <2>2. inbox' = [j \in Instances |-> Append(inbox[j], n)]
    BY DEF Undisturbed, Listened, Notify
  <2>3. QED
    BY <2>1, <2>2
<1>4. \A j \in Instances : /\ Len(inbox'[j]) = Len(inbox[j]) + 1
                           /\ \A k \in 1 .. Len(inbox[j]) : inbox'[j][k] = inbox[j][k]
                           /\ inbox'[j][Len(inbox[j]) + 1] = n
  <2> TAKE j \in Instances
  <2>1. inbox[j] \in Seq(Nat) /\ n \in Nat /\ inbox'[j] = Append(inbox[j], n)
    BY <1>3
  <2>2. QED
    BY <2>1, NumberQueues
<1>5. \A j \in Instances : Published(j, r + 1)' = Published(j, r)
  <2> SUFFICES ASSUME NEW j \in Instances PROVE (r + 1) - Len(inbox'[j]) = r - Len(inbox[j])
    BY DEF Published
  <2>1. PICK l \in Nat : l = Len(inbox[j])
    BY <1>3
  <2>2. Len(inbox'[j]) = l + 1
    BY <1>4, <2>1
  <2>3. (r + 1) - (l + 1) = r - l
    BY <1>2
  <2>4. QED
    BY <2>1, <2>2, <2>3
<1>6. Notified(r + 1)'
  <2>0. unnotified \in [Instances -> SUBSET (1 .. seq)]
    BY DEF StreamInv, Holding
  <2>1. \A j \in Instances : unnotified'[j] = IF j = i THEN unnotified[j] \ {n} ELSE unnotified[j]
    BY <1>1, <2>0
  <2>2. ASSUME NEW j \in Instances, NEW m \in unnotified'[j] PROVE m > r + 1
    <3>1. m \in unnotified[j] /\ m # n
      BY <1>1, <2>1 DEF Undisturbed, Notified
    <3>2. m \in 1 .. seq /\ n <= m
      BY <1>1, <2>0, <3>1
    <3>3. QED
      BY <1>2, <3>1, <3>2
  <2>3. ASSUME NEW m \in (r + 2) .. seq PROVE \E j \in Instances : m \in unnotified'[j]
    <3>1. m \in (r + 1) .. seq /\ m # n
      BY <1>2
    <3>2. QED
      BY <2>1, <3>1 DEF Undisturbed, Notified
  <2>4. \A j, k \in Instances : j # k => unnotified'[j] \cap unnotified'[k] = {}
    BY <2>1 DEF Undisturbed, Notified
  <2>5. (r + 1) + 1 = r + 2
    BY <1>2
  <2>6. QED
    BY <1>1, <2>2, <2>3, <2>4, <2>5 DEF Notified
<1>7. Listened(r + 1)'
  <2>1. ASSUME NEW j \in Instances
        PROVE  /\ Len(inbox'[j]) <= r + 1
               /\ \A k \in 1 .. Len(inbox'[j]) : inbox'[j][k] = Published(j, r) + k
    <3>1. Len(inbox[j]) <= r /\ \A k \in 1 .. Len(inbox[j]) : inbox[j][k] = Published(j, r) + k
      BY DEF Undisturbed, Listened
    <3>2. n = Published(j, r) + (Len(inbox[j]) + 1)
      BY <1>2, <1>3 DEF Published
    <3>3. PICK l \in Nat : l = Len(inbox[j]) /\ Len(inbox'[j]) = l + 1
      BY <1>3, <1>4
    <3>4. l + 1 <= r + 1 /\ \A k \in 1 .. (l + 1) : k \in 1 .. l \/ k = l + 1
      BY <1>2, <3>1, <3>3
    <3>5. QED
      BY <1>4, <3>1, <3>2, <3>3, <3>4
  <2>2. /\ listening' = listening /\ publishing' = publishing /\ home' = home
    BY <1>1 DEF streamVars
  <2>3. QED
    BY <1>5, <2>1, <2>2 DEF Undisturbed, Listened
<1>8. ASSUME NEW c \in Clients PROVE Streams(c, r + 1)'
  <2>1. Streams(c, r) /\ UNCHANGED Row(c) /\ home' = home /\ channel' = channel /\ publishing' = publishing
    BY <1>1 DEF Undisturbed, Row, streamVars, clientVars
  <2>2. phase[c] \in Connected => Forwarded(c, r + 1)' = Forwarded(c, r)
    BY <1>5, <2>1, HomeFacts DEF Forwarded, Sent
  <2>3. QED
    BY <2>1, <2>2, StreamsKept
<1>9. QED
  BY <1>1, <1>2, <1>6, <1>7, <1>8 DEF Undisturbed

LEMMA QuietPublish ==
    ASSUME StreamInv, NEW r \in 0 .. seq, Undisturbed(r), NEW i \in Instances, Publish(i)
    PROVE  Undisturbed(r)'
<1>1. /\ publishing[i] = Idle /\ inbox[i] # << >> /\ inbox' = [inbox EXCEPT ![i] = Tail(@)]
      /\ UNCHANGED <<seq, unnotified, listening, streamVars, clientVars, drops>>
      /\ home' = home
  BY DEF Publish, streamVars
<1>2. /\ inbox[i] \in Seq(Nat) /\ Len(inbox[i]) \in Nat \ {0}
      /\ Len(Tail(inbox[i])) = Len(inbox[i]) - 1
      /\ \A k \in 1 .. Len(Tail(inbox[i])) : Tail(inbox[i])[k] = inbox[i][k + 1]
      /\ Head(inbox[i]) = inbox[i][1]
  <2>1. inbox[i] \in Seq(Nat) /\ inbox[i] # << >>
    BY <1>1, StreamFacts
  <2>2. QED
    BY <2>1
<1>3. /\ inbox \in [Instances -> Seq(Nat)] /\ inbox' \in [Instances -> Seq(Nat)]
      /\ \A j \in Instances : inbox'[j] = IF j = i THEN Tail(inbox[i]) ELSE inbox[j]
  <2>1. inbox \in [Instances -> Seq(Nat)] /\ Tail(inbox[i]) \in Seq(Nat)
    BY <1>1, StreamFacts
  <2>2. QED
    BY <1>1, <2>1
<1>4. /\ \A j \in Instances : Published(j, r)' = IF j = i THEN Published(j, r) + 1 ELSE Published(j, r)
      /\ Published(i, r) \in Int /\ r \in Nat /\ Head(inbox[i]) = Published(i, r) + 1
  <2>1. Head(inbox[i]) = Published(i, r) + 1
    BY <1>2 DEF Undisturbed, Listened
  <2>2. r \in Nat
    BY StreamFacts
  <2>3. Published(i, r) = r - Len(inbox[i]) /\ Published(i, r)' = r - (Len(inbox[i]) - 1)
    BY <1>2, <1>3 DEF Published
  <2>4. Published(i, r) \in Int /\ Published(i, r)' = Published(i, r) + 1
    BY <1>2, <1>3, <2>2, <2>3
  <2>5. \A j \in Instances : j # i => Published(j, r)' = Published(j, r)
    BY <1>3 DEF Published
  <2>6. QED
    BY <2>1, <2>2, <2>4, <2>5
<1>5. PICK p : /\ publishing' = [publishing EXCEPT ![i] = p]
               /\ p.targets = Subscribed(i) /\ p.closed = FALSE
               /\ p.targets # {} => p.event = Published(i, r)'
  <2> DEFINE p == [event |-> Head(inbox[i]), targets |-> Subscribed(i), closed |-> FALSE]
  <2>1. CASE Subscribed(i) = {}
    <3>1. publishing' = [publishing EXCEPT ![i] = Idle]
      BY <2>1 DEF Publish
    <3>2. Idle.targets = {} /\ Idle.closed = FALSE
      BY DEF Idle
    <3>3. QED
      BY <2>1, <3>1, <3>2
  <2>2. CASE Subscribed(i) # {}
    <3>1. publishing' = [publishing EXCEPT ![i] = p]
      BY <2>2 DEF Publish
    <3>2. p.targets = Subscribed(i) /\ p.closed = FALSE /\ p.event = Published(i, r)'
      BY <1>4
    <3> HIDE DEF p
    <3>3. QED
      BY <3>1, <3>2
  <2>3. QED
    BY <2>1, <2>2
<1>6. \A j \in Instances : publishing'[j] = IF j = i THEN p ELSE publishing[j]
  BY <1>5 DEF StreamInv, Holding
<1>7. Notified(r)'
  BY <1>1 DEF Undisturbed, Notified
<1>8. Listened(r)'
  <2>1. ASSUME NEW j \in Instances
        PROVE  /\ Len(inbox'[j]) <= r
               /\ \A k \in 1 .. Len(inbox'[j]) : inbox'[j][k] = Published(j, r)' + k
    <3>1. Len(inbox[j]) <= r /\ \A k \in 1 .. Len(inbox[j]) : inbox[j][k] = Published(j, r) + k
      BY DEF Undisturbed, Listened
    <3>2. CASE j # i
      BY <1>3, <1>4, <3>1, <3>2
    <3>3. CASE j = i
      <4>1. \A k \in 1 .. (Len(inbox[i]) - 1) : inbox[i][k + 1] = Published(i, r) + (k + 1)
        BY <1>2, <3>1, <3>3
      <4>2. PICK l \in Nat : Len(inbox[i]) = l + 1 /\ Len(inbox'[i]) = l
        <5>1. PICK n \in Nat \ {0} : Len(inbox[i]) = n /\ Len(inbox'[i]) = n - 1
          BY <1>2, <1>3
        <5>2. n = (n - 1) + 1 /\ n - 1 \in Nat
          OBVIOUS
        <5>3. QED
          BY <5>1, <5>2
      <4>3. l <= r
        BY <1>4, <3>1, <3>3, <4>2
      <4>4. ASSUME NEW k \in 1 .. l
            PROVE  inbox'[i][k] = (Published(i, r) + 1) + k
        <5>1. k \in 1 .. (Len(inbox[i]) - 1) /\ k \in 1 .. Len(Tail(inbox[i]))
          BY <1>3, <4>2
        <5>2. inbox'[i][k] = inbox[i][k + 1]
          BY <1>2, <1>3, <5>1
        <5>3. inbox'[i][k] = Published(i, r) + (k + 1)
          BY <4>1, <5>1, <5>2
        <5>4. QED
          BY <1>4, <5>3
      <4>5. QED
        BY <1>4, <3>3, <4>2, <4>3, <4>4
    <3>4. QED
      BY <3>2, <3>3
  <2>2. ASSUME NEW j \in Instances
        PROVE  /\ ~publishing'[j].closed
               /\ publishing'[j].targets # {} => publishing'[j].event = Published(j, r)'
               /\ \A c \in publishing'[j].targets : home'[c] = j
    <3>1. CASE j = i
      BY <1>1, <1>5, <1>6, <3>1 DEF Subscribed
    <3>2. CASE j # i
      BY <1>1, <1>4, <1>6, <3>2 DEF Undisturbed, Listened
    <3>3. QED
      BY <3>1, <3>2
  <2>3. listening' = listening
    BY <1>1
  <2>4. QED
    BY <2>1, <2>2, <2>3 DEF Undisturbed, Listened
<1>9. ASSUME NEW c \in Clients PROVE Streams(c, r)'
  <2>1. Streams(c, r) /\ UNCHANGED Row(c) /\ channel' = channel
    BY <1>1 DEF Undisturbed, Row, streamVars, clientVars
  <2>2. ASSUME phase[c] \in Connected PROVE Sent(c, r)' = Sent(c, r)
    <3>1. home[c] \in Instances
      BY <2>2, HomeFacts
    <3>2. CASE home[c] = i
      <4>1. c \notin publishing[i].targets /\ c \in publishing'[i].targets
        BY <1>1, <1>5, <1>6, <3>2 DEF Idle, Subscribed
      <4>2. QED
        BY <1>1, <1>4, <3>2, <4>1 DEF Sent
    <3>3. CASE home[c] # i
      BY <1>1, <1>4, <1>6, <3>1, <3>3 DEF Sent
    <3>4. QED
      BY <3>2, <3>3
  <2>3. QED
    BY <2>1, <2>2, StreamsKept DEF Forwarded
<1>10. QED
  BY <1>7, <1>8, <1>9 DEF Undisturbed

\* The channel has room: it holds fewer events than there are operations.
LEMMA QuietSend ==
    ASSUME Quiet, StreamInv, NEW r \in 0 .. seq, Undisturbed(r),
           NEW i \in Instances, NEW c \in Clients, Send(i, c)
    PROVE  Undisturbed(r)'
<1>1. /\ c \in publishing[i].targets /\ home' = home
      /\ channel' = [channel EXCEPT ![c] = Enqueued(@, publishing[i].event)]
      /\ UNCHANGED <<seq, unnotified, listening, inbox, phase, home, since, wire, clientVars, drops>>
  BY DEF Send
<1>2. /\ home[c] = i /\ publishing[i].event = Published(i, r)
      /\ ~publishing[i].closed
      /\ Sent(c, r) = Published(i, r) - 1
      /\ phase[c] \in Connected
  BY <1>1, HomeFacts DEF Undisturbed, Listened, Sent
<1>3. PICK p : /\ publishing' = [publishing EXCEPT ![i] = p]
               /\ p.targets = publishing[i].targets \ {c} /\ p.closed = FALSE
               /\ p.targets # {} => p.event = publishing[i].event
  <2> DEFINE rest == [publishing[i] EXCEPT !.targets = publishing[i].targets \ {c}]
  <2>1. CASE publishing[i].targets = {c}
    <3>1. publishing' = [publishing EXCEPT ![i] = Idle]
      BY <1>2, <2>1 DEF Send
    <3>2. Idle.targets = {} /\ Idle.closed = FALSE
      BY DEF Idle
    <3>3. QED
      BY <2>1, <3>1, <3>2
  <2>2. CASE publishing[i].targets # {c}
    <3>1. publishing' = [publishing EXCEPT ![i] = rest]
      BY <2>2 DEF Send
    <3>2. publishing[i] \in
            [event : {0} \cup 1 .. seq, targets : SUBSET Clients, closed : BOOLEAN]
      BY DEF StreamInv, Holding
    <3>3. /\ rest.targets = publishing[i].targets \ {c} /\ rest.closed = FALSE
          /\ rest.event = publishing[i].event
      BY <1>2, <3>2
    <3> HIDE DEF rest
    <3>4. QED
      BY <3>1, <3>3
  <2>3. QED
    BY <2>1, <2>2
<1>4. \A j \in Instances : publishing'[j] = IF j = i THEN p ELSE publishing[j]
  BY <1>3 DEF StreamInv, Holding
<1>5. \A j \in Instances : Published(j, r)' = Published(j, r)
  BY <1>1 DEF Published
<1>6. Notified(r)'
  BY <1>1 DEF Undisturbed, Notified
<1>7. Listened(r)'
  <2>1. ASSUME NEW j \in Instances
        PROVE  /\ ~publishing'[j].closed
               /\ publishing'[j].targets # {} => publishing'[j].event = Published(j, r)'
               /\ \A d \in publishing'[j].targets : home'[d] = j
    <3>1. CASE j = i
      BY <1>1, <1>2, <1>3, <1>4, <1>5, <3>1 DEF Undisturbed, Listened
    <3>2. CASE j # i
      BY <1>1, <1>4, <1>5, <3>2 DEF Undisturbed, Listened
    <3>3. QED
      BY <3>1, <3>2
  <2>2. QED
    BY <1>1, <1>5, <2>1 DEF Undisturbed, Listened
<1>8. ASSUME NEW d \in Clients, d # c PROVE Streams(d, r)'
  <2>1. Streams(d, r) /\ UNCHANGED Row(d)
    BY <1>1, <1>8 DEF Undisturbed, Row, StreamInv, Holding, clientVars
  <2>2. ASSUME phase[d] \in Connected PROVE Sent(d, r)' = Sent(d, r)
    <3>1. home[d] \in Instances
      BY <2>2, HomeFacts
    <3>2. d \in publishing'[home[d]].targets <=> d \in publishing[home[d]].targets
      BY <1>3, <1>4, <1>8, <3>1
    <3>3. QED
      BY <1>1, <1>5, <3>1, <3>2 DEF Sent
  <2>3. QED
    BY <2>1, <2>2, StreamsKept DEF Forwarded, Row
<1>9. Streams(c, r)'
  <2> DEFINE q == channel[c]
             e == Published(i, r)
  <2>1. /\ q \in Seq(Nat) /\ Len(q) \in Nat /\ e \in Nat /\ e <= seq /\ e # 0
        /\ seq <= MaxSeq /\ MaxSeq \in Nat /\ seq \in Nat /\ Buffer \in Nat
    <3>1. e \in {0} \cup 1 .. seq /\ e # 0
      BY <1>1, <1>2 DEF StreamInv, Holding, Attached
    <3>2. q \in Seq(Nat) /\ seq <= MaxSeq /\ MaxSeq \in Nat /\ seq \in Nat /\ Buffer \in Nat
      BY StreamFacts
    <3> HIDE DEF e, q
    <3>3. QED
      BY <3>1, <3>2
  <2>2. /\ Forwarded(c, r) = (e - 1) - Len(q) /\ Forwarded(c, r) >= 0
        /\ \A k \in 1 .. Len(q) : q[k] = Forwarded(c, r) + k
    BY <1>2 DEF Undisturbed, Streams, Forwarded
  <2>3. channel'[c] = Enqueued(q, e)
    <3>1. channel \in [Clients -> Seq(Nat)]
      BY StreamFacts
    <3>2. QED
      BY <1>1, <1>2, <3>1
  <2>4. Sent(c, r)' = e
    <3>1. home'[c] = i /\ c \notin publishing'[i].targets
      BY <1>1, <1>2, <1>3, <1>4
    <3>2. QED
      BY <1>5, <3>1 DEF Sent
  <2>5. Forwarded(c, r)' = e - Len(channel'[c])
    BY <2>4 DEF Forwarded
  <2> HIDE DEF q, e
  <2>6. channel'[c] = Append(q, e)
    <3>1. Len(q) < Buffer
      BY <2>1, <2>2 DEF Quiet
    <3>2. QED
      BY <2>3, <3>1 DEF Enqueued
  <2>7. Len(channel'[c]) = Len(q) + 1 /\ \A k \in 1 .. Len(q) : channel'[c][k] = q[k]
    BY <2>1, <2>6, NumberQueues
  <2>8. Forwarded(c, r)' = Forwarded(c, r)
    <3>1. e - (Len(q) + 1) = (e - 1) - Len(q)
      BY <2>1
    <3>2. QED
      BY <2>2, <2>5, <2>7, <3>1
  <2>9. channel'[c][Len(q) + 1] = Forwarded(c, r) + (Len(q) + 1)
    <3>1. e = ((e - 1) - Len(q)) + (Len(q) + 1)
      BY <2>1
    <3>2. channel'[c][Len(q) + 1] = e
      BY <2>1, <2>6, NumberQueues
    <3>3. QED
      BY <2>2, <3>1, <3>2
  <2>10. \A k \in 1 .. Len(channel'[c]) : channel'[c][k] = Forwarded(c, r) + k
    <3>1. \A k \in 1 .. (Len(q) + 1) : k \in 1 .. Len(q) \/ k = Len(q) + 1
      BY <2>1
    <3>2. QED
      BY <2>2, <2>7, <2>9, <3>1
  <2>11. Gapless(c)' /\ (phase[c] \in {"replayed", "live"} => Follows(c, Forwarded(c, r))')
    <3>1. wire' = wire /\ seqRef' = seqRef
      BY <1>1 DEF clientVars
    <3>2. QED
      BY <2>8, <3>1 DEF Undisturbed, Streams, Gapless, Follows
  <2>12. phase' = phase /\ since' = since /\ wire' = wire /\ seqRef' = seqRef
    BY <1>1 DEF clientVars
  <2>13. QED
    BY <1>2, <2>2, <2>8, <2>10, <2>11, <2>12 DEF Undisturbed, Streams
<1>10. QED
  BY <1>6, <1>7, <1>8, <1>9 DEF Undisturbed

\* A step of one connection that leaves the server alone.
LEMMA QuietOne ==
    ASSUME StreamInv, NEW r \in 0 .. seq, Undisturbed(r), NEW c \in Clients,
           UNCHANGED serverVars,
           \A d \in Clients : d # c => UNCHANGED Row(d),
           \A i \in Instances : c \in publishing[i].targets => home'[c] = i,
           Streams(c, r)'
    PROVE  Undisturbed(r)'
<1>1. Notified(r)'
  BY DEF Undisturbed, Notified, serverVars
<1>2. \A i \in Instances : \A d \in publishing[i].targets : home'[d] = i
  <2> SUFFICES ASSUME NEW i \in Instances, NEW d \in publishing[i].targets PROVE home'[d] = i
    OBVIOUS
  <2>1. d \in Clients /\ home[d] = i
    BY DEF StreamInv, Holding, Undisturbed, Listened
  <2>2. QED
    BY <2>1 DEF Row
<1>3. Listened(r)'
  BY <1>2 DEF Undisturbed, Listened, Published, serverVars
<1>4. ASSUME NEW d \in Clients, d # c PROVE Streams(d, r)'
  <2>1. Streams(d, r) /\ UNCHANGED Row(d)
    BY <1>4 DEF Undisturbed
  <2>2. Forwarded(d, r)' = Forwarded(d, r)
    BY <2>1 DEF Forwarded, Sent, Published, serverVars, Row
  <2>3. QED
    BY <2>1, <2>2, StreamsKept
<1>5. QED
  BY <1>1, <1>3, <1>4 DEF Undisturbed

LEMMA QuietConnect ==
    ASSUME StreamInv, NEW r \in 0 .. seq, Undisturbed(r),
           NEW c \in Clients, NEW i \in Instances, Connect(c, i)
    PROVE  Undisturbed(r)'
<1>1. /\ phase[c] = "offline" /\ phase' = [phase EXCEPT ![c] = "subscribed"]
      /\ home' = [home EXCEPT ![c] = i] /\ since' = [since EXCEPT ![c] = seqRef[c]]
      /\ UNCHANGED <<serverVars, channel, wire, clientVars, drops>>
      /\ seqRef' = seqRef
  BY DEF Connect, clientVars
<1>2. /\ home[c] = None /\ channel[c] = << >> /\ wire[c] = << >> /\ None \notin Instances
  BY <1>1, StreamAssumption DEF Undisturbed, Streams, Connected
<1>3. \A j \in Instances : c \notin publishing[j].targets
  BY <1>2 DEF Undisturbed, Listened
<1>4. Streams(c, r)'
  <2>1. /\ phase'[c] = "subscribed" /\ home'[c] = i /\ since'[c] = seqRef[c]
        /\ channel'[c] = << >> /\ wire'[c] = << >> /\ seqRef[c] \in Nat
    BY <1>1, <1>2, StreamFacts DEF StreamInv, Holding
  <2>2. Sent(c, r)' = Published(i, r)
    BY <1>1, <1>3, <2>1 DEF Sent, Published, serverVars
  <2>3. Published(i, r) \in Nat
    <3>1. inbox \in [Instances -> Seq(Nat)] /\ Len(inbox[i]) <= r /\ r \in Nat
      BY StreamFacts DEF Undisturbed, Listened
    <3>2. QED
      BY <3>1 DEF Published
  <2>4. Forwarded(c, r)' = Published(i, r)
    <3>1. Len(<< >>) = 0 /\ Forwarded(c, r)' = Published(i, r) - Len(<< >>)
      BY <2>1, <2>2 DEF Forwarded
    <3>2. QED
      BY <2>3, <3>1
  <2>5. \A k \in 1 .. Len(channel'[c]) : FALSE
    BY <2>1
  <2>6. Gapless(c)'
    BY <2>1 DEF Gapless
  <2>7. QED
    BY <1>1, <2>1, <2>3, <2>4, <2>5, <2>6 DEF Streams, Connected
<1>5. \A d \in Clients : d # c => UNCHANGED Row(d)
  BY <1>1 DEF Row, StreamInv, Holding
<1>6. QED
  BY <1>1, <1>3, <1>4, <1>5, QuietOne

\* The rows after since end at seq, and what the channel brings next was
\* published after the handler subscribed.
LEMMA QuietReplay ==
    ASSUME StreamInv, NEW r \in 0 .. seq, Undisturbed(r), NEW c \in Clients, Replay(c)
    PROVE  Undisturbed(r)'
<1>1. /\ phase[c] = "subscribed" /\ phase' = [phase EXCEPT ![c] = "replayed"]
      /\ wire' = [wire EXCEPT ![c] = JournalAfter(since[c])]
      /\ UNCHANGED <<serverVars, home, since, channel, clientVars, drops>>
      /\ seqRef' = seqRef
  BY DEF Replay, Replayed, clientVars
<1>2. /\ seqRef[c] \in Nat /\ since[c] \in 0 .. seq /\ seq \in Nat /\ since[c] <= seqRef[c]
  BY <1>1, StreamFacts DEF Undisturbed, Streams
<1>3. phase[c] \in Connected /\ home[c] \in Instances
  BY <1>1, HomeFacts DEF Connected
<1>4. Forwarded(c, r) \in Int /\ Forwarded(c, r) <= seq /\ Forwarded(c, r)' = Forwarded(c, r)
  <2>1. Sent(c, r) \in Int /\ Sent(c, r) <= seq
    BY <1>3, HomeFacts
  <2>2. channel \in [Clients -> Seq(Nat)]
    BY StreamFacts
  <2>3. Forwarded(c, r)' = Forwarded(c, r)
    BY <1>1 DEF Forwarded, Sent, Published, serverVars
  <2>4. QED
    BY <1>2, <2>1, <2>2, <2>3 DEF Forwarded
<1>5. Gapless(c)' /\ Follows(c, Forwarded(c, r))'
  <2> DEFINE s == since[c]
             n == seq - s
             w == [k \in 1 .. n |-> s + k]
  <2>1. wire'[c] = w /\ n \in Nat /\ s \in Nat
    <3>1. wire'[c] = JournalAfter(s)
      BY <1>1 DEF StreamInv, Holding
    <3>2. QED
      BY <1>2, <3>1 DEF JournalAfter
  <2>2. s <= seqRef[c] /\ seq = s + n
    BY <1>2
  <2> HIDE DEF s, n
  <2>3. DOMAIN w = 1 .. n /\ \A k \in 1 .. n : w[k] = s + k
    OBVIOUS
  <2> HIDE DEF w
  <2>4. ASSUME NEW k \in 1 .. n
        PROVE  w[k] <= seqRef[c] + 1 \/ \E l \in 1 .. n : l < k /\ w[l] >= w[k] - 1
    <3>1. CASE k = 1
      BY <1>2, <2>2, <2>3, <2>1, <3>1
    <3>2. CASE k # 1
      <4>1. k - 1 \in 1 .. n /\ k - 1 < k
        BY <2>1, <3>2
      <4>2. w[k - 1] >= w[k] - 1
        BY <2>1, <2>3, <4>1
      <4>3. QED
        BY <4>1, <4>2
    <3>3. QED
      BY <3>1, <3>2
  <2>5. Gapless(c)'
    BY <1>1, <2>1, <2>3, <2>4 DEF Gapless
  <2>6. Follows(c, Forwarded(c, r))'
    <3>1. CASE n = 0
      <4>1. Forwarded(c, r) <= seqRef[c]
        BY <1>2, <1>4, <2>1, <2>2, <3>1
      <4>2. QED
        BY <1>1, <1>4, <4>1 DEF Follows
    <3>2. CASE n # 0
      <4>1. n \in 1 .. n /\ w[n] = seq
        BY <2>1, <2>2, <2>3, <3>2
      <4>2. w[n] >= Forwarded(c, r)
        BY <1>2, <1>4, <4>1
      <4>3. QED
        BY <1>1, <1>4, <2>1, <2>3, <4>1, <4>2 DEF Follows
    <3>3. QED
      BY <3>1, <3>2
  <2>7. QED
    BY <2>5, <2>6
<1>6. Streams(c, r)'
  <2>1. phase'[c] = "replayed"
    BY <1>1 DEF StreamInv, Holding
  <2>2. channel' = channel
    BY <1>1
  <2>3. QED
    BY <1>3, <1>4, <1>5, <2>1, <2>2 DEF Undisturbed, Streams, Connected
<1>7. \A d \in Clients : d # c => UNCHANGED Row(d)
  BY <1>1 DEF Row, StreamInv, Holding
<1>8. \A i \in Instances : c \in publishing[i].targets => home'[c] = i
  BY <1>1 DEF Undisturbed, Listened
<1>9. QED
  BY <1>1, <1>6, <1>7, <1>8, QuietOne

LEMMA QuietGoLive ==
    ASSUME StreamInv, NEW r \in 0 .. seq, Undisturbed(r), NEW c \in Clients, GoLive(c)
    PROVE  Undisturbed(r)'
<1>1. /\ phase[c] = "replayed" /\ phase' = [phase EXCEPT ![c] = "live"]
      /\ UNCHANGED <<serverVars, home, since, channel, wire, clientVars, drops>>
      /\ seqRef' = seqRef
  BY DEF GoLive, clientVars
<1>2. Forwarded(c, r)' = Forwarded(c, r)
  BY <1>1 DEF Forwarded, Sent, Published, serverVars
<1>3. Gapless(c)' /\ (Follows(c, Forwarded(c, r)) => Follows(c, Forwarded(c, r))')
  BY <1>1, <1>2 DEF Gapless, Follows, Undisturbed, Streams
<1>4. Streams(c, r)'
  <2>1. phase'[c] = "live" /\ channel' = channel
    BY <1>1 DEF StreamInv, Holding
  <2>2. QED
    BY <1>1, <1>2, <1>3, <2>1 DEF Undisturbed, Streams, Connected
<1>5. \A d \in Clients : d # c => UNCHANGED Row(d)
  BY <1>1 DEF Row, StreamInv, Holding
<1>6. \A i \in Instances : c \in publishing[i].targets => home'[c] = i
  BY <1>1 DEF Undisturbed, Listened
<1>7. QED
  BY <1>1, <1>4, <1>5, <1>6, QuietOne

LEMMA QuietForward ==
    ASSUME StreamInv, NEW r \in 0 .. seq, Undisturbed(r), NEW c \in Clients, Forward(c)
    PROVE  Undisturbed(r)'
<1> DEFINE q == channel[c]
           w == wire[c]
           f == Forwarded(c, r)
<1>1. /\ phase[c] = "live" /\ q # << >>
      /\ wire' = [wire EXCEPT ![c] = Append(w, Head(q))]
      /\ channel' = [channel EXCEPT ![c] = Tail(q)]
      /\ UNCHANGED <<serverVars, phase, home, since, clientVars, drops>>
      /\ seqRef' = seqRef
  BY DEF Forward, clientVars
<1>2. phase[c] \in Connected /\ home[c] \in Instances
  BY <1>1, HomeFacts DEF Connected
<1>3. /\ q \in Seq(Nat) /\ w \in Seq(Nat) /\ seqRef[c] \in Nat
      /\ wire'[c] = Append(w, Head(q)) /\ channel'[c] = Tail(q)
  BY <1>1, StreamFacts
<1>4. /\ f \in Int /\ f >= 0 /\ Follows(c, f) /\ Gapless(c)
      /\ \A k \in 1 .. Len(q) : q[k] = f + k
  BY <1>1, <1>2, HomeFacts DEF Undisturbed, Streams
<1>5. Sent(c, r)' = Sent(c, r) /\ Sent(c, r) \in Int /\ f = Sent(c, r) - Len(q)
      /\ Forwarded(c, r)' = Sent(c, r) - Len(Tail(q))
  BY <1>1, <1>2, <1>3, HomeFacts DEF Forwarded, Sent, Published, serverVars
<1>6. /\ \A k \in DOMAIN w : w[k] <= seqRef[c] + 1 \/ \E l \in DOMAIN w : l < k /\ w[l] >= w[k] - 1
      /\ f <= seqRef[c] \/ \E k \in DOMAIN w : w[k] >= f
  BY <1>4 DEF Gapless, Follows
<1> HIDE DEF q, w, f
<1>7. /\ Len(q) \in Nat /\ Len(q) > 0 /\ Head(q) = q[1] /\ Len(Tail(q)) = Len(q) - 1
      /\ \A k \in 1 .. Len(Tail(q)) : Tail(q)[k] = q[k + 1]
  BY <1>1, <1>3, NumberQueues
<1>8. Head(q) = f + 1 /\ f + 1 \in Nat
  BY <1>4, <1>7
<1>9. /\ Len(w) \in Nat /\ DOMAIN w = 1 .. Len(w) /\ DOMAIN wire'[c] = 1 .. (Len(w) + 1)
      /\ wire'[c][Len(w) + 1] = f + 1 /\ \A k \in 1 .. Len(w) : wire'[c][k] = w[k]
      /\ \A k \in 1 .. Len(w) : w[k] \in Nat
  <2>1. wire'[c] = Append(w, f + 1)
    BY <1>3, <1>8
  <2>2. QED
    BY <1>3, <1>8, <2>1, NumberQueues
<1>10. Forwarded(c, r)' = f + 1
  BY <1>5, <1>7
<1>11. Gapless(c)'
  <2>1. ASSUME NEW k \in DOMAIN wire'[c]
        PROVE  \/ wire'[c][k] <= seqRef[c] + 1
               \/ \E l \in DOMAIN wire'[c] : l < k /\ wire'[c][l] >= wire'[c][k] - 1
    <3>1. CASE k \in 1 .. Len(w)
      <4>1. CASE w[k] <= seqRef[c] + 1
        BY <1>9, <3>1, <4>1
      <4>2. CASE \E l \in DOMAIN w : l < k /\ w[l] >= w[k] - 1
        <5>1. PICK l \in 1 .. Len(w) : l < k /\ w[l] >= w[k] - 1
          BY <1>9, <4>2
        <5>2. l \in DOMAIN wire'[c] /\ wire'[c][l] = w[l] /\ wire'[c][k] = w[k]
          BY <1>9, <3>1
        <5>3. QED
          BY <5>1, <5>2
      <4>3. QED
        BY <1>6, <1>9, <3>1, <4>1, <4>2
    <3>2. CASE k = Len(w) + 1
      <4>1. CASE f <= seqRef[c]
        BY <1>3, <1>4, <1>9, <3>2, <4>1
      <4>2. CASE \E l \in DOMAIN w : w[l] >= f
        <5>1. PICK l \in 1 .. Len(w) : w[l] >= f
          BY <1>9, <4>2
        <5>2. l \in DOMAIN wire'[c] /\ l < k /\ wire'[c][l] = w[l] /\ wire'[c][k] = f + 1
          BY <1>9, <3>2
        <5>3. QED
          BY <1>4, <5>1, <5>2
      <4>3. QED
        BY <1>6, <4>1, <4>2
    <3>3. QED
      BY <1>9, <3>1, <3>2
  <2>2. QED
    BY <1>1, <2>1 DEF Gapless
<1>12. Follows(c, Forwarded(c, r))'
  <2>1. Len(w) + 1 \in DOMAIN wire'[c] /\ wire'[c][Len(w) + 1] >= f + 1
    BY <1>8, <1>9
  <2>2. QED
    BY <1>10, <2>1 DEF Follows
<1>13. \A k \in 1 .. Len(channel'[c]) : channel'[c][k] = Forwarded(c, r)' + k
  <2>1. ASSUME NEW k \in 1 .. Len(Tail(q)) PROVE Tail(q)[k] = (f + 1) + k
    <3>1. k + 1 \in 1 .. Len(q) /\ Tail(q)[k] = q[k + 1]
      BY <1>7
    <3>2. q[k + 1] = f + (k + 1)
      BY <1>4, <3>1
    <3>3. QED
      BY <1>4, <3>1, <3>2
  <2>2. QED
    BY <1>3, <1>10, <2>1
<1>14. Streams(c, r)'
  <2>1. phase'[c] = "live" /\ Forwarded(c, r)' >= 0
    BY <1>1, <1>4, <1>10
  <2>2. QED
    BY <1>11, <1>12, <1>13, <2>1 DEF Streams, Connected
<1>15. \A d \in Clients : d # c => UNCHANGED Row(d)
  BY <1>1 DEF Row, StreamInv, Holding
<1>16. UNCHANGED serverVars /\ \A i \in Instances : c \in publishing[i].targets => home'[c] = i
  BY <1>1 DEF Undisturbed, Listened
<1>17. QED
  BY <1>14, <1>15, <1>16, QuietOne

\* What a browser reads next is old, or the operation after its own.
LEMMA QuietReceive ==
    ASSUME StreamInv, NEW r \in 0 .. seq, Undisturbed(r), NEW c \in Clients, Receive(c), Faithful(c)
    PROVE  Undisturbed(r)' /\ Faithful(c)'
<1> DEFINE w == wire[c]
           n == Head(w)
           s == seqRef'[c]
<1>1. /\ w # << >> /\ wire' = [wire EXCEPT ![c] = Tail(w)]
      /\ UNCHANGED <<serverVars, phase, home, since, channel, command, drops>>
      /\ \/ n <= seqRef[c] /\ seqRef' = seqRef /\ have' = have
         \/ /\ ~(n <= seqRef[c]) /\ seqRef' = [seqRef EXCEPT ![c] = n]
            /\ have' = [have EXCEPT ![c] = Append(@, n)]
  BY DEF Receive, IsStale
<1>2. /\ w \in Seq(Nat) /\ seqRef[c] \in Nat /\ wire'[c] = Tail(w)
      /\ \/ n <= seqRef[c] /\ s = seqRef[c] /\ have'[c] = have[c]
         \/ ~(n <= seqRef[c]) /\ s = n /\ have'[c] = Append(have[c], n)
  <2>1. w \in Seq(Nat) /\ seqRef[c] \in Nat /\ wire'[c] = Tail(w)
    BY <1>1, StreamFacts
  <2>2. /\ \A x : seqRef' = [seqRef EXCEPT ![c] = x] => s = x
        /\ \A x : have' = [have EXCEPT ![c] = Append(@, x)] => have'[c] = Append(have[c], x)
    BY DEF StreamInv, Holding
  <2> HIDE DEF n, w
  <2>3. QED
    BY <1>1, <2>1, <2>2
<1>3. /\ \A k \in DOMAIN w : w[k] <= seqRef[c] + 1 \/ \E l \in DOMAIN w : l < k /\ w[l] >= w[k] - 1
      /\ \A x : Follows(c, x) => x <= seqRef[c] \/ \E k \in DOMAIN w : w[k] >= x
  BY DEF Undisturbed, Streams, Gapless, Follows
<1>4. \A x : (x <= s \/ \E k \in DOMAIN wire'[c] : wire'[c][k] >= x) => Follows(c, x)'
  BY DEF Follows
<1>5. /\ \A d \in Clients : d # c => UNCHANGED Row(d)
      /\ have' \in [Clients -> Seq(1 .. seq)] \/ have' = [have EXCEPT ![c] = Append(@, n)]
  BY <1>1 DEF Row, StreamInv, Holding
<1> HIDE DEF w, n, s
<1>6. /\ Len(w) \in Nat /\ Len(w) > 0 /\ DOMAIN w = 1 .. Len(w)
      /\ \A k \in 1 .. Len(w) : w[k] \in Nat
      /\ n = w[1] /\ n \in Nat
      /\ Len(Tail(w)) = Len(w) - 1 /\ DOMAIN Tail(w) = 1 .. (Len(w) - 1)
      /\ \A k \in 1 .. (Len(w) - 1) : Tail(w)[k] = w[k + 1]
  <2>1. w # << >> /\ w \in Seq(Nat)
    BY <1>1, <1>2
  <2>2. QED
    BY <2>1, NumberQueues DEF n
<1>7. n <= seqRef[c] + 1
  BY <1>3, <1>6
<1>8. s \in Nat /\ seqRef[c] <= s /\ n <= s
  BY <1>2, <1>6
<1>9. Gapless(c)'
  <2>1. ASSUME NEW k \in 1 .. (Len(w) - 1)
        PROVE  \/ Tail(w)[k] <= s + 1
               \/ \E l \in 1 .. (Len(w) - 1) : l < k /\ Tail(w)[l] >= Tail(w)[k] - 1
    <3>1. k + 1 \in 1 .. Len(w) /\ Tail(w)[k] = w[k + 1] /\ w[k + 1] \in Nat
      BY <1>6
    <3>2. CASE w[k + 1] <= seqRef[c] + 1
      BY <1>2, <1>8, <3>1, <3>2
    <3>3. CASE \E l \in DOMAIN w : l < k + 1 /\ w[l] >= w[k + 1] - 1
      <4>1. PICK l \in 1 .. Len(w) : l < k + 1 /\ w[l] >= w[k + 1] - 1
        BY <1>6, <3>3
      <4>2. CASE l = 1
        BY <1>6, <1>8, <3>1, <4>1, <4>2
      <4>3. CASE l # 1
        <5>1. l - 1 \in 1 .. (Len(w) - 1) /\ l - 1 < k /\ (l - 1) + 1 = l
          BY <1>6, <4>1, <4>3
        <5>2. Tail(w)[l - 1] = w[l]
          BY <1>6, <5>1
        <5>3. QED
          BY <3>1, <4>1, <5>1, <5>2
      <4>4. QED
        BY <4>2, <4>3
    <3>4. QED
      BY <1>3, <1>6, <3>1, <3>2, <3>3
  <2>2. QED
    BY <1>2, <1>6, <2>1 DEF Gapless, s
<1>10. ASSUME NEW x \in Int, Follows(c, x) PROVE Follows(c, x)'
  <2>1. CASE x <= seqRef[c]
    BY <1>2, <1>4, <1>8, <2>1
  <2>2. CASE \E k \in DOMAIN w : w[k] >= x
    <3>1. PICK k \in 1 .. Len(w) : w[k] >= x
      BY <1>6, <2>2
    <3>2. CASE k = 1
      BY <1>4, <1>6, <1>8, <3>1, <3>2
    <3>3. CASE k # 1
      <4>1. k - 1 \in 1 .. (Len(w) - 1) /\ (k - 1) + 1 = k
        BY <1>6, <3>3
      <4>2. Tail(w)[k - 1] >= x /\ k - 1 \in DOMAIN wire'[c] /\ wire'[c] = Tail(w)
        BY <1>2, <1>6, <3>1, <4>1
      <4>3. QED
        BY <1>4, <4>2
    <3>4. QED
      BY <3>2, <3>3
  <2>3. QED
    BY <1>3, <1>10, <2>1, <2>2
<1>11. phase[c] \in {"replayed", "live"}
  BY <1>1 DEF Undisturbed, Streams, StreamInv, Holding, Connected, w
<1>12. Streams(c, r)'
  <2>1. phase'[c] = phase[c] /\ channel' = channel /\ Forwarded(c, r)' = Forwarded(c, r)
    BY <1>1 DEF Forwarded, Sent, Published, serverVars
  <2>2. phase[c] \in Connected /\ Forwarded(c, r) \in Int
    BY <1>11, HomeFacts DEF Connected
  <2>3. Follows(c, Forwarded(c, r))'
    BY <1>10, <1>11, <2>1, <2>2 DEF Undisturbed, Streams, Follows
  <2>4. QED
    BY <1>9, <1>11, <2>1, <2>2, <2>3 DEF Undisturbed, Streams, Connected
<1>13. UNCHANGED serverVars /\ \A i \in Instances : c \in publishing[i].targets => home'[c] = i
  BY <1>1 DEF Undisturbed, Listened
<1>14. Undisturbed(r)'
  BY <1>5, <1>12, <1>13, QuietOne
<1>15. Faithful(c)'
  <2>1. have'[c] = Operations(s)
    <3>1. CASE n <= seqRef[c] /\ s = seqRef[c] /\ have'[c] = have[c]
      BY <3>1 DEF Faithful
    <3>2. CASE ~(n <= seqRef[c]) /\ s = n /\ have'[c] = Append(have[c], n)
      <4>1. n = seqRef[c] + 1
        BY <1>2, <1>6, <1>7, <3>2
      <4>2. have'[c] = Append(Operations(seqRef[c]), seqRef[c] + 1) /\ s = seqRef[c] + 1
        BY <3>2, <4>1 DEF Faithful
      <4>3. QED
        BY <1>2, <4>2, OperationsGrow
    <3>3. QED
      BY <1>2, <3>1, <3>2
  <2>2. command' = command
    BY <1>1
  <2>3. QED
    BY <2>1, <2>2 DEF Faithful, s
<1>16. QED
  BY <1>14, <1>15

\* Nobody leaves while an event is being handed to it.
LEMMA QuietDisconnect ==
    ASSUME Quiet, StreamInv, NEW r \in 0 .. seq, Undisturbed(r), NEW c \in Clients, Disconnect(c)
    PROVE  Undisturbed(r)'
<1>1. /\ phase[c] \in Connected /\ c \notin publishing[home[c]].targets
      /\ phase' = [phase EXCEPT ![c] = "offline"] /\ home' = [home EXCEPT ![c] = None]
      /\ channel' = [channel EXCEPT ![c] = << >>] /\ wire' = [wire EXCEPT ![c] = << >>]
      /\ UNCHANGED <<serverVars, since, clientVars>> /\ seqRef' = seqRef
  BY DEF Disconnect, Quiet, serverVars, clientVars
<1>2. /\ phase'[c] = "offline" /\ home'[c] = None /\ channel'[c] = << >> /\ wire'[c] = << >>
      /\ \A d \in Clients : d # c => UNCHANGED Row(d)
  BY <1>1 DEF Row, StreamInv, Holding
<1>3. Streams(c, r)'
  BY <1>2 DEF Streams, Connected, Gapless
<1>4. \A i \in Instances : c \in publishing[i].targets => home'[c] = i
  BY <1>1 DEF Undisturbed, Listened
<1>5. QED
  BY <1>1, <1>2, <1>3, <1>4, QuietOne

\* A step that changes no browser's state and, at most, ends c's command.
LEMMA FaithfulKept ==
    ASSUME \A c \in Clients : Faithful(c), UNCHANGED <<seqRef, have>>,
           \A c \in Clients : command'[c] = command[c] \/ command'[c].stage # "sent"
    PROVE  \A c \in Clients : Faithful(c)'
BY DEF Faithful

LEMMA CommandFacts ==
    ASSUME StreamInv, NEW c \in Clients, NEW x, command' = [command EXCEPT ![c] = x]
    PROVE  command'[c] = x /\ \A d \in Clients : d # c => command'[d] = command[d]
BY DEF StreamInv, Holding

LEMMA QuietInstanceStep ==
    ASSUME Quiet, StreamInv, QuietInv, NEW i \in Instances,
           \/ ApplyElsewhere(i)
           \/ \E n \in 1 .. MaxSeq : Notify(i, n)
           \/ StopListening(i) \/ Listen(i) \/ Publish(i) \/ Panic(i)
    PROVE  QuietInv'
<1>1. PICK r \in 0 .. seq : Undisturbed(r)
  BY DEF QuietInv
<1>2. \A c \in Clients : Faithful(c)
  BY DEF QuietInv
<1>3. CASE ApplyElsewhere(i)
  <2>1. Committed(i) /\ UNCHANGED <<listening, inbox, publishing, streamVars, clientVars, drops>>
    BY <1>3 DEF ApplyElsewhere
  <2>2. r \in 0 .. seq' /\ Undisturbed(r)'
    BY <1>1, <2>1, QuietCommit DEF clientVars
  <2>3. \A c \in Clients : Faithful(c)'
    BY <1>2, <2>1, FaithfulKept DEF clientVars
  <2>4. QED
    BY <2>2, <2>3 DEF QuietInv
<1>4. CASE \E n \in 1 .. MaxSeq : Notify(i, n)
  <2>1. PICK n \in 1 .. MaxSeq : Notify(i, n)
    BY <1>4
  <2>2. r + 1 \in 0 .. seq' /\ Undisturbed(r + 1)'
    BY <1>1, <2>1, QuietNotify
  <2>3. \A c \in Clients : Faithful(c)'
    BY <1>2, <2>1, FaithfulKept DEF Notify, clientVars
  <2>4. QED
    BY <2>2, <2>3 DEF QuietInv
<1>5. CASE Publish(i)
  <2>1. seq' = seq
    BY <1>5 DEF Publish
  <2>2. Undisturbed(r)'
    BY <1>1, <1>5, QuietPublish
  <2>3. \A c \in Clients : Faithful(c)'
    BY <1>2, <1>5, FaithfulKept DEF Publish, clientVars
  <2>4. QED
    BY <1>1, <2>1, <2>2, <2>3 DEF QuietInv
<1>6. ~StopListening(i)
  BY DEF StopListening, Quiet
<1>7. ~Listen(i) /\ ~Panic(i)
  BY <1>1 DEF Listen, Panic, Undisturbed, Listened
<1>8. QED
  BY <1>3, <1>4, <1>5, <1>6, <1>7

\* What a browser does of itself, and what answers it.
LEMMA QuietCommandStep ==
    ASSUME Quiet, StreamInv, QuietInv, NEW c \in Clients,
           \/ Build(c) \/ Refuse(c) \/ Respond(c) \/ LoseResponse(c) \/ Load(c)
           \/ \E i \in Instances : Accept(c, i)
    PROVE  QuietInv'
<1>1. PICK r \in 0 .. seq : Undisturbed(r)
  BY DEF QuietInv
<1>2. \A d \in Clients : Faithful(d)
  BY DEF QuietInv
<1>3. /\ seqRef[c] \in Nat /\ seqRef[c] <= seq /\ seq \in Nat /\ command[c].expected \in Nat
      /\ seqRef \in [Clients -> 0 .. seq] /\ have \in [Clients -> Seq(1 .. seq)]
  <2>1. command[c].expected \in {0} \cup 1 .. seq /\ have \in [Clients -> Seq(1 .. seq)]
    BY DEF StreamInv, Holding
  <2>2. QED
    BY <2>1, StreamFacts
<1>4. CASE Build(c)
  <2> DEFINE new == [stage |-> "sent", expected |-> seqRef[c], base |-> have[c]]
  <2>1. /\ command' = [command EXCEPT ![c] = new]
        /\ UNCHANGED <<serverVars, streamVars, seqRef, have>>
    BY <1>4 DEF Build
  <2>2. new.expected = seqRef[c] /\ new.base = have[c]
    OBVIOUS
  <2> HIDE DEF new
  <2>3. command'[c] = new /\ \A d \in Clients : d # c => command'[d] = command[d]
    BY <2>1, CommandFacts
  <2>4. Undisturbed(r)' /\ seq' = seq
    BY <1>1, <2>1, UndisturbedKept DEF streamVars, serverVars
  <2>5. \A d \in Clients : Faithful(d)'
    BY <1>2, <2>1, <2>2, <2>3 DEF Faithful
  <2>6. QED
    BY <1>1, <2>4, <2>5 DEF QuietInv
<1>5. CASE Refuse(c) \/ LoseResponse(c)
  <2>1. /\ command' = [command EXCEPT ![c] = NoCommand]
        /\ UNCHANGED <<serverVars, streamVars, seqRef, have>>
    BY <1>5 DEF Refuse, LoseResponse
  <2>2. command'[c] = NoCommand /\ \A d \in Clients : d # c => command'[d] = command[d]
    BY <2>1, CommandFacts
  <2>3. Undisturbed(r)' /\ seq' = seq
    BY <1>1, <2>1, UndisturbedKept DEF streamVars, serverVars
  <2>4. \A d \in Clients : Faithful(d)'
    BY <1>2, <2>1, <2>2, FaithfulKept DEF NoCommand
  <2>5. QED
    BY <1>1, <2>3, <2>4 DEF QuietInv
<1>6. CASE Respond(c)
  <2> DEFINE n == command[c].expected
  <2>1. /\ seqRef[c] <= n /\ command' = [command EXCEPT ![c] = NoCommand]
        /\ seqRef' = [seqRef EXCEPT ![c] = n] /\ have' = [have EXCEPT ![c] = Operations(n)]
        /\ UNCHANGED <<serverVars, streamVars>>
    BY <1>6 DEF Respond, Quiet
  <2>2. command'[c] = NoCommand /\ \A d \in Clients : d # c => command'[d] = command[d]
    BY <2>1, CommandFacts
  <2>3. Undisturbed(r)' /\ seq' = seq
    BY <1>1, <1>3, <2>1, QuietAdopt DEF streamVars, serverVars
  <2>4. /\ seqRef'[c] = n /\ have'[c] = Operations(n)
        /\ \A d \in Clients : d # c => seqRef'[d] = seqRef[d] /\ have'[d] = have[d]
    BY <1>3, <2>1
  <2> HIDE DEF n
  <2>5. \A d \in Clients : Faithful(d)'
    BY <1>2, <2>2, <2>4 DEF Faithful, NoCommand
  <2>6. QED
    BY <1>1, <2>3, <2>5 DEF QuietInv
<1>7. CASE Load(c)
  <2>1. /\ phase[c] = "new" /\ phase' = [phase EXCEPT ![c] = "offline"]
        /\ seqRef' = [seqRef EXCEPT ![c] = seq] /\ have' = [have EXCEPT ![c] = Operations(seq)]
        /\ UNCHANGED <<serverVars, home, since, channel, wire, command>>
    BY <1>7 DEF Load
  <2>2. phase[c] \notin Connected
    BY <2>1 DEF Connected
  <2>3. Undisturbed(r)' /\ seq' = seq
    BY <1>1, <1>3, <2>1, <2>2, QuietAdopt DEF serverVars
  <2>4. /\ seqRef'[c] = seq /\ have'[c] = Operations(seq)
        /\ \A d \in Clients : d # c => seqRef'[d] = seqRef[d] /\ have'[d] = have[d]
    BY <1>3, <2>1
  <2>5. \A d \in Clients : Faithful(d)'
    BY <1>2, <2>1, <2>4 DEF Faithful
  <2>6. QED
    BY <1>1, <2>3, <2>5 DEF QuietInv
<1>8. CASE \E i \in Instances : Accept(c, i)
  <2>1. PICK i \in Instances : Accept(c, i)
    BY <1>8
  <2>2. PICK x : /\ command' = [command EXCEPT ![c] = x] /\ x.stage = "answered" /\ Committed(i)
                 /\ UNCHANGED <<listening, inbox, publishing, streamVars, seqRef, have>>
    BY <2>1 DEF Accept
  <2>3. command'[c] = x /\ \A d \in Clients : d # c => command'[d] = command[d]
    BY <2>2, CommandFacts
  <2>4. r \in 0 .. seq' /\ Undisturbed(r)'
    BY <1>1, <2>2, QuietCommit
  <2>5. \A d \in Clients : Faithful(d)'
    BY <1>2, <2>2, <2>3, FaithfulKept
  <2>6. QED
    BY <2>4, <2>5 DEF QuietInv
<1>9. QED
  BY <1>4, <1>5, <1>6, <1>7, <1>8

\* What happens to a connection.
LEMMA QuietConnectionStep ==
    ASSUME Quiet, StreamInv, QuietInv, NEW c \in Clients,
           \/ Replay(c) \/ ReplayFails(c) \/ GoLive(c) \/ Forward(c) \/ Receive(c) \/ Disconnect(c)
           \/ \E i \in Instances : Connect(c, i) \/ Send(i, c)
    PROVE  QuietInv'
<1>1. PICK r \in 0 .. seq : Undisturbed(r)
  BY DEF QuietInv
<1>2. \A d \in Clients : Faithful(d)
  BY DEF QuietInv
<1>3. CASE Receive(c)
  <2>1. Undisturbed(r)' /\ Faithful(c)'
    BY <1>1, <1>2, <1>3, QuietReceive
  <2>2. seq' = seq /\ command' = command
    BY <1>3 DEF Receive, serverVars
  <2>3. \A d \in Clients : d # c => seqRef'[d] = seqRef[d] /\ have'[d] = have[d]
    <3>1. \/ seqRef' = seqRef /\ have' = have
          \/ \E n : seqRef' = [seqRef EXCEPT ![c] = n] /\ have' = [have EXCEPT ![c] = Append(@, n)]
      BY <1>3 DEF Receive
    <3>2. QED
      BY <3>1 DEF StreamInv, Holding
  <2>4. \A d \in Clients : Faithful(d)'
    BY <1>2, <2>1, <2>2, <2>3 DEF Faithful
  <2>5. QED
    BY <1>1, <2>1, <2>2, <2>4 DEF QuietInv
<1>4. ~ReplayFails(c)
  BY DEF ReplayFails, Quiet
<1>5. ASSUME \/ Replay(c) \/ GoLive(c) \/ Forward(c) \/ Disconnect(c)
             \/ \E i \in Instances : Connect(c, i) \/ Send(i, c)
      PROVE  QuietInv'
  <2>1. Undisturbed(r)'
    BY <1>1, <1>5, QuietReplay, QuietGoLive, QuietForward, QuietDisconnect, QuietConnect, QuietSend
  <2>2. seq' = seq /\ UNCHANGED clientVars
    BY <1>5 DEF Replay, GoLive, Forward, Disconnect, Connect, Send, serverVars
  <2>3. \A d \in Clients : Faithful(d)'
    BY <1>2, <2>2, FaithfulKept DEF clientVars
  <2>4. QED
    BY <1>1, <2>1, <2>2, <2>3 DEF QuietInv
<1>6. QED
  BY <1>3, <1>4, <1>5

LEMMA QuietNext ==
    ASSUME Quiet, StreamInv, QuietInv, [Next]_vars
    PROVE  QuietInv'
<1>1. CASE \E i \in Instances :
              \/ ApplyElsewhere(i)
              \/ \E n \in 1 .. MaxSeq : Notify(i, n)
              \/ StopListening(i) \/ Listen(i) \/ Publish(i) \/ Panic(i)
  BY <1>1, QuietInstanceStep
<1>2. ASSUME NEW c \in Clients,
             \/ Build(c) \/ Refuse(c) \/ Respond(c) \/ LoseResponse(c) \/ Load(c)
             \/ \E i \in Instances : Accept(c, i)
      PROVE  QuietInv'
  BY <1>2, QuietCommandStep
<1>3. ASSUME NEW c \in Clients,
             \/ Replay(c) \/ ReplayFails(c) \/ GoLive(c) \/ Forward(c) \/ Receive(c) \/ Disconnect(c)
             \/ \E i \in Instances : Connect(c, i) \/ Send(i, c)
      PROVE  QuietInv'
  BY <1>3, QuietConnectionStep
<1>4. CASE UNCHANGED vars
  <2>1. PICK r \in 0 .. seq : Undisturbed(r)
    BY DEF QuietInv
  <2>2. Undisturbed(r)' /\ seq' = seq
    BY <1>4, <2>1, UndisturbedKept DEF vars, serverVars
  <2>3. \A c \in Clients : Faithful(c)'
    BY <1>4, FaithfulKept DEF QuietInv, vars
  <2>4. QED
    BY <2>1, <2>2, <2>3 DEF QuietInv
<1>5. QED
  BY <1>1, <1>2, <1>3, <1>4 DEF Next

\* While no listed race strikes and no channel can overflow, an event reaches
\* every browser after the one before it and before the one after it.
THEOREM QuietInvariant ==
    ASSUME Quiet
    PROVE  Spec => []QuietInv
<1>1. Init => QuietInv
  BY QuietInit
<1>2. StreamInv /\ QuietInv /\ [Next]_vars => QuietInv'
  BY QuietNext
<1>3. QED
  BY <1>1, <1>2, StreamInvariant, PTL DEF Spec

\* Without the listed races, and with room for every event, a browser at seq n
\* shows the server's state at n: subscribing before the replay, and ignoring
\* what the state covers, close every gap that reconnecting opens.
THEOREM ClientStateMatchesSeqCorrect ==
    ASSUME Quiet
    PROVE  Spec => []ClientStateMatchesSeq
<1>1. QuietInv => ClientStateMatchesSeq
  BY DEF QuietInv, Faithful, ClientStateMatchesSeq
<1>2. QED
  BY <1>1, QuietInvariant, PTL

\* ... and an Apply that the optimistic lock lets through was built on the
\* state it is applied to.
THEOREM CommandsBuiltOnServerStateCorrect ==
    ASSUME Quiet
    PROVE  Spec => CommandsBuiltOnServerState
<1> DEFINE Built == \A c \in Clients :
                       (command[c].stage = "sent" /\ command'[c].stage = "answered") =>
                           command[c].base = Operations(seq)
<1>1. StreamInv /\ QuietInv /\ [Next]_vars => [Built]_vars
  <2> SUFFICES ASSUME StreamInv, QuietInv, Next, NEW c \in Clients,
                      command[c].stage = "sent", command'[c].stage = "answered"
               PROVE  command[c].base = Operations(seq)
    OBVIOUS
  <2>1. \E i \in Instances : Accept(c, i)
    <3>1. \A d \in Clients : \A x : command' = [command EXCEPT ![d] = x] => d = c /\ x.stage = "answered"
      BY CommandFacts
    <3>2. command' # command
      OBVIOUS
    <3>3. \A d \in Clients : ~(Build(d) \/ Refuse(d) \/ Respond(d) \/ LoseResponse(d))
      <4> SUFFICES ASSUME NEW d \in Clients,
                          Build(d) \/ Refuse(d) \/ Respond(d) \/ LoseResponse(d)
                   PROVE  FALSE
        OBVIOUS
      <4>1. \E x : command' = [command EXCEPT ![d] = x] /\ x.stage # "answered"
        BY DEF Build, Refuse, Respond, LoseResponse, NoCommand
      <4>2. QED
        BY <3>1, <4>1
    <3>4. \A d \in Clients, i \in Instances : Accept(d, i) => d = c
      BY <3>1 DEF Accept
    <3>5. \/ \E d \in Clients :
                \/ Build(d) \/ Refuse(d) \/ Respond(d) \/ LoseResponse(d)
                \/ \E i \in Instances : Accept(d, i)
          \/ command' = command
      <4>1. CASE \E i \in Instances :
                    \/ ApplyElsewhere(i)
                    \/ \E n \in 1 .. MaxSeq : Notify(i, n)
                    \/ StopListening(i) \/ Listen(i) \/ Publish(i) \/ Panic(i)
        BY <4>1 DEF ApplyElsewhere, Notify, StopListening, Listen, Publish, Panic, clientVars
      <4>2. ASSUME NEW d \in Clients,
                   \/ Load(d) \/ Replay(d) \/ ReplayFails(d) \/ GoLive(d)
                   \/ Forward(d) \/ Receive(d) \/ Disconnect(d)
                   \/ \E i \in Instances : Connect(d, i) \/ Send(i, d)
            PROVE  command' = command
        BY <4>2 DEF Load, Replay, ReplayFails, GoLive, Forward, Receive, Disconnect, Connect, Send,
                    clientVars
      <4>3. QED
        BY <4>1, <4>2 DEF Next
    <3>6. QED
      BY <3>2, <3>3, <3>4, <3>5
  <2>2. command[c].expected = seq
    BY <2>1 DEF Accept, IsCurrent
  <2>3. QED
    BY <2>2 DEF QuietInv, Faithful
<1>2. QED
  BY <1>1, StreamInvariant, QuietInvariant, PTL DEF Spec, CommandsBuiltOnServerState

=============================================================================
