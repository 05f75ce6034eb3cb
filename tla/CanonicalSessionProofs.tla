------------------------ MODULE CanonicalSessionProofs ------------------------
(***************************************************************************)
(* Proofs about CanonicalSession, for every set of members and actors and  *)
(* every bound: transitions implement WorldLog, authority holds at the     *)
(* commit, the decision ledger follows the head and retries are answered.  *)
(*                                                                         *)
(* What makes them inductive is TxAdmitted: what ApplyTransition has       *)
(* checked would still be its answer when it commits, since the session    *)
(* row and the shared membership rows keep away everyone who could change  *)
(* it.                                                                     *)
(***************************************************************************)
EXTENDS CanonicalSession, WorldLogLemmas, TLAPS

LogEntry == [command : Nat, base : Nat]
Pending == {NoDecision} \cup [id : 1 .. MaxId, decider : SessionActor]
World == [log : Seq(LogEntry), pending : Pending, changed : [SessionActor -> Nat]]
Request == [id : Nat, semantic : Nat, shape : Shapes, base : World, pending : Pending]
Message == [user : User, request : Request]
Decision == [decider : SessionActor, assigned : User, open : BOOLEAN]

TransportTypeOK ==
    /\ head \in World /\ known \in [User -> World]
    /\ members \in [User -> Role] /\ controller \in [SessionActor -> User]
    /\ \A d \in DOMAIN decisions : decisions[d] \in Decision
    /\ sent \subseteq Message
    /\ \A c \in DOMAIN receipts :
          receipts[c] \in Message /\ receipts[c].request.id = c

\* What the transaction has checked is so until it ends.
TxAdmitted ==
    tx # NoTx => tx \in Message /\ Outcome(tx.user, tx.request) = "admitted"

\* What a client has read is the beginning of what there is.
KnownIsPast == \A u \in User : Extends(known[u].log, head.log)

\* A receipt is of a request that was well formed.
ReceiptsAppend == \A c \in DOMAIN receipts : AppendsCommand(receipts[c].request)

CInv == /\ TransportTypeOK /\ TxAdmitted /\ KnownIsPast
        /\ DecisionsFollowHead /\ ReceiptsAppend

-----------------------------------------------------------------------------
(* What admission means. *)

LEMMA AdmittedFacts ==
    ASSUME NEW u, NEW r, Outcome(u, r) = "admitted"
    PROVE  /\ AppendsCommand(r) /\ MayControl(u) /\ r.id \notin DOMAIN receipts
           /\ admitting /\ BindingsMatch /\ r.base = head
           /\ MayProject(u, r) /\ DecisionPlanHolds(u, r)
BY DEF Outcome, Receipt

\* Admission reads nothing that another step may change under the locks.
LEMMA AdmissionStays ==
    ASSUME TransportTypeOK, NEW u \in User, NEW r \in Request,
           Outcome(u, r) = "admitted",
           UNCHANGED <<admitting, head, controller, decisions, receipts>>,
           members' \in [User -> Role],
           \A v \in User : Active(v) => members'[v] = members[v]
    PROVE  Outcome(u, r)' = "admitted"
<1>1. /\ AppendsCommand(r) /\ MayControl(u) /\ r.id \notin DOMAIN receipts
      /\ admitting /\ BindingsMatch /\ r.base = head
      /\ MayProject(u, r) /\ DecisionPlanHolds(u, r)
      /\ controller[r.shape.source] = u
      /\ \A a \in {r.shape.source} \cup r.shape.targets : ActorHasMembers(a)
  BY DEF Outcome, Receipt
<1>2. \A v \in User : (MayControl(v) => MayControl(v)') /\ (Active(v) => Active(v)')
  BY DEF TransportTypeOK, MayControl, Active
<1>3. members'[u] = members[u]
  BY <1>1 DEF MayControl, Active
<1>4. AppendsCommand(r)' /\ MayControl(u)' /\ BindingsMatch' /\ r.base = head'
  BY <1>1, <1>2 DEF AppendsCommand, BindingsMatch
<1>5. \A a \in SessionActor : ActorHasMembers(a) => ActorHasMembers(a)'
  BY <1>2, TransportAssumption DEF ActorHasMembers, TransportTypeOK
<1>6. {r.shape.source} \cup r.shape.targets \subseteq SessionActor
      /\ r.shape.changes \subseteq SessionActor
  BY TransportAssumption DEF Request
<1>7. MayProject(u, r)'
  BY <1>1, <1>3, <1>5, <1>6 DEF MayProject, MayMutate
<1>8. DecisionPlanHolds(u, r)'
  BY <1>1, <1>2, <1>3, <1>6 DEF DecisionPlanHolds, TransportTypeOK
<1>9. QED
  BY <1>1, <1>4, <1>5, <1>6, <1>7, <1>8 DEF Outcome
-----------------------------------------------------------------------------
(* The steps. *)

\* A step of the abstract log, or none.
Refined == TransportLog!Next \/ UNCHANGED <<head.log, known>>

\* The session row and the membership rows are locked: what other steps leave
\* alone keeps an admitted transaction admitted.
LEMMA StillAdmitted ==
    ASSUME CInv, UNCHANGED <<admitting, head, controller, decisions, receipts, tx>>,
           members' \in [User -> Role],
           tx # NoTx => \A v \in User : Active(v) => members'[v] = members[v]
    PROVE  TxAdmitted'
<1>1. CASE tx = NoTx
  BY <1>1 DEF TxAdmitted
<1>2. CASE tx # NoTx
  <2>1. PICK m \in Message : m = tx
    BY <1>2 DEF CInv, TxAdmitted
  <2>2. m.user \in User /\ m.request \in Request /\ Outcome(m.user, m.request) = "admitted"
    BY <1>2, <2>1 DEF CInv, TxAdmitted, Message
  <2>3. Outcome(m.user, m.request)' = "admitted"
    BY <1>2, <2>2, AdmissionStays DEF CInv
  <2>4. tx' = m
    BY <2>1
  <2>5. QED
    BY <2>3, <2>4 DEF TxAdmitted
<1>3. QED
  BY <1>1, <1>2

LEMMA SendStep ==
    ASSUME CInv, NEW u \in User, Send(u)
    PROVE  CInv' /\ Refined
<1> DEFINE usedIds == {m.request.id : m \in sent}
           usedSemantics == {m.request.semantic : m \in sent}
<1>1. UNCHANGED <<admitting, head, members, controller, decisions, receipts, tx, known>>
  BY DEF Send
<1>2. usedIds \subseteq Nat /\ usedSemantics \subseteq Nat
  BY DEF CInv, TransportTypeOK, Message, Request
<1>3. sent' \subseteq Message
  <2>1. PICK shape \in Shapes, pending \in Pending, id \in Nat, semantic \in Nat :
          sent' = sent \cup {[user |-> u, request |->
                [id |-> id, semantic |-> semantic, shape |-> shape,
                 base |-> known[u], pending |-> pending]]}
    <3>1. PICK shape \in Shapes :
            \E pending \in (IF shape.answers THEN {NoDecision}
                            ELSE IF shape.asks = {} THEN {known[u].pending}
                            ELSE [id : 1 .. MaxId, decider : shape.asks]) :
            \E id \in usedIds \cup ({Cardinality(usedIds) + 1} \cap 1 .. MaxId) :
            \E semantic \in usedSemantics
                             \cup ({Cardinality(usedSemantics) + 1} \cap 1 .. MaxId) :
              sent' = sent \cup {[user |-> u, request |->
                [id |-> id, semantic |-> semantic, shape |-> shape,
                 base |-> known[u], pending |-> pending]]}
      BY DEF Send
    <3>2. known[u].pending \in Pending /\ shape.asks \subseteq SessionActor
      BY TransportAssumption DEF CInv, TransportTypeOK, World
    <3>3. (IF shape.answers THEN {NoDecision}
           ELSE IF shape.asks = {} THEN {known[u].pending}
           ELSE [id : 1 .. MaxId, decider : shape.asks]) \subseteq Pending
      BY <3>2 DEF Pending
    <3>4. /\ usedIds \cup ({Cardinality(usedIds) + 1} \cap 1 .. MaxId) \subseteq Nat
          /\ usedSemantics \cup ({Cardinality(usedSemantics) + 1} \cap 1 .. MaxId) \subseteq Nat
      <4>1. \A k : {k} \cap 1 .. MaxId \subseteq Nat
        OBVIOUS
      <4> HIDE DEF usedIds, usedSemantics
      <4>2. QED
        BY <1>2, <4>1, Zenon
    <3> HIDE DEF usedIds, usedSemantics
    <3>5. QED
      BY <3>1, <3>3, <3>4, Zenon
  <2>2. known[u] \in World
    BY DEF CInv, TransportTypeOK
  <2>3. QED
    BY <2>1, <2>2 DEF CInv, TransportTypeOK, Message, Request
<1>4. TransportTypeOK'
  BY <1>1, <1>3 DEF CInv, TransportTypeOK
<1>5. TxAdmitted'
  BY <1>1, <1>4, StillAdmitted DEF TransportTypeOK
<1>6. KnownIsPast' /\ DecisionsFollowHead' /\ ReceiptsAppend'
  BY <1>1 DEF CInv, KnownIsPast, DecisionsFollowHead, ReceiptsAppend, AppendsCommand
<1>7. QED
  BY <1>1, <1>4, <1>5, <1>6 DEF CInv, Refined

LEMMA AdmitStep ==
    ASSUME CInv, NEW m \in sent, Admit(m)
    PROVE  CInv' /\ Refined
<1>1. /\ UNCHANGED <<admitting, head, members, controller, decisions, receipts, sent, known>>
      /\ tx' = m /\ Outcome(m.user, m.request) = "admitted" /\ m \in Message
  BY DEF Admit, CInv, TransportTypeOK
<1>2. Outcome(m.user, m.request)' = "admitted"
  <2>1. m.user \in User /\ m.request \in Request
    BY <1>1 DEF Message
  <2>2. QED
    BY <1>1, <2>1, AdmissionStays DEF CInv, TransportTypeOK
<1>3. TxAdmitted'
  BY <1>1, <1>2 DEF TxAdmitted
<1>4. TransportTypeOK' /\ KnownIsPast' /\ DecisionsFollowHead' /\ ReceiptsAppend'
  BY <1>1 DEF CInv, TransportTypeOK, KnownIsPast, DecisionsFollowHead, ReceiptsAppend,
              AppendsCommand
<1>5. QED
  BY <1>1, <1>3, <1>4 DEF CInv, Refined

LEMMA GetCurrentStep ==
    ASSUME CInv, NEW u \in User, GetCurrent(u)
    PROVE  CInv' /\ Refined
<1>1. /\ UNCHANGED <<admitting, head, members, controller, decisions, receipts, sent, tx>>
      /\ known' = [known EXCEPT ![u] = head] /\ TransportTypeOK
      /\ head.log \in Seq(LogEntry) /\ \A v \in User : known[v].log \in Seq(LogEntry)
  BY DEF GetCurrent, CInv, TransportTypeOK, World
<1>2. TransportTypeOK'
  BY <1>1 DEF TransportTypeOK
<1>3. TxAdmitted'
  BY <1>1, StillAdmitted DEF TransportTypeOK
<1>4. KnownIsPast'
  <2>1. \A v \in User : known'[v] = IF v = u THEN head ELSE known[v]
    BY <1>1 DEF TransportTypeOK
  <2>2. Extends(head.log, head.log)
    BY <1>1, ExtendsItself
  <2>3. QED
    BY <1>1, <2>1, <2>2 DEF CInv, KnownIsPast
<1>5. DecisionsFollowHead' /\ ReceiptsAppend'
  BY <1>1 DEF CInv, DecisionsFollowHead, ReceiptsAppend, AppendsCommand
<1>6. TransportLog!Next
  <2>1. PICK n \in Nat : n = Len(head.log)
    BY <1>1
  <2>2. n \in Len(known[u].log) .. n /\ head.log = SubSeq(head.log, 1, n)
    <3>1. Extends(known[u].log, head.log) /\ Extends(head.log, head.log)
      BY <1>1, ExtendsItself DEF CInv, KnownIsPast
    <3>2. Len(known[u].log) \in Nat /\ Len(known[u].log) <= n
      BY <1>1, <2>1, <3>1 DEF Extends
    <3>3. QED
      BY <1>1, <2>1, <3>1, <3>2, PrefixIsSubSeq
  <2>3. [v \in User |-> known'[v].log] = [[v \in User |-> known[v].log] EXCEPT ![u] = head.log]
    BY <1>1 DEF TransportTypeOK
  <2>4. TransportLog!Show(u, n)
    BY <1>1, <2>2, <2>3 DEF TransportLog!Show
  <2>5. n \in Len([v \in User |-> known[v].log][u]) .. Len(head.log)
    BY <2>1, <2>2
  <2>6. QED
    BY <2>4, <2>5, Zenon DEF TransportLog!Next
<1>7. QED
  BY <1>2, <1>3, <1>4, <1>5, <1>6 DEF CInv, Refined

LEMMA ProvisioningStep ==
    ASSUME CInv, UNCHANGED <<head, decisions, receipts, sent, tx, known>>,
           \/ \E u \in User : \E role \in Role : ChangeRole(u, role)
           \/ ChangeStatus
           \/ \E a \in SessionActor, u \in User : ChangeController(a, u)
    PROVE  CInv' /\ Refined
<1>1. /\ members' \in [User -> Role] /\ controller' \in [SessionActor -> User]
  BY DEF CInv, TransportTypeOK, ChangeRole, ChangeStatus, ChangeController
<1>2. TransportTypeOK'
  BY <1>1 DEF CInv, TransportTypeOK
<1>3. TxAdmitted'
  <2>1. CASE tx = NoTx
    BY <2>1 DEF TxAdmitted
  <2>2. CASE tx # NoTx
    <3>1. UNCHANGED <<admitting, controller>>
      BY <2>2 DEF ChangeRole, ChangeStatus, ChangeController
    <3>2. \A v \in User : Active(v) => members'[v] = members[v]
      BY <2>2 DEF ChangeRole, ChangeStatus, ChangeController, MemberLocked, CInv, TransportTypeOK
    <3>3. QED
      BY <1>1, <3>1, <3>2, StillAdmitted
  <2>3. QED
    BY <2>1, <2>2
<1>4. KnownIsPast' /\ DecisionsFollowHead' /\ ReceiptsAppend'
  BY DEF CInv, KnownIsPast, DecisionsFollowHead, ReceiptsAppend, AppendsCommand
<1>5. QED
  BY <1>2, <1>3, <1>4 DEF CInv, Refined
LEMMA RollBackStep ==
    ASSUME CInv, RollBack
    PROVE  CInv' /\ Refined
<1>1. /\ UNCHANGED <<admitting, head, members, controller, decisions, receipts, sent, known>>
      /\ tx' = NoTx
  BY DEF RollBack
<1>2. QED
  BY <1>1 DEF CInv, TransportTypeOK, TxAdmitted, KnownIsPast, DecisionsFollowHead,
              ReceiptsAppend, AppendsCommand, Refined

\* What holds of the transaction when it commits.
LEMMA CommitFacts ==
    ASSUME CInv, tx # NoTx
    PROVE  /\ tx \in Message /\ tx.user \in User /\ tx.request \in Request
           /\ tx.request.base = head /\ AppendsCommand(tx.request)
           /\ MayControl(tx.user) /\ BindingsMatch
           /\ MayProject(tx.user, tx.request) /\ DecisionPlanHolds(tx.user, tx.request)
<1>1. tx \in Message /\ Outcome(tx.user, tx.request) = "admitted"
  BY DEF CInv, TxAdmitted
<1>2. tx.user \in User /\ tx.request \in Request
  BY <1>1 DEF Message
<1>3. QED
  BY <1>1, <1>2, AdmittedFacts

LEMMA NextWorldFacts ==
    ASSUME NEW base \in World, NEW r \in Request
    PROVE  /\ NextWorld(base, r) \in World
           /\ NextWorld(base, r).log
                = Append(base.log, [command |-> r.semantic, base |-> Len(base.log)])
           /\ NextWorld(base, r).pending = r.pending
           /\ \A a \in SessionActor : a \notin r.shape.changes
                 => NextWorld(base, r).changed[a] = base.changed[a]
<1>1. /\ base.log \in Seq(LogEntry) /\ Len(base.log) \in Nat
      /\ base.changed \in [SessionActor -> Nat]
      /\ r.pending \in Pending /\ r.semantic \in Nat
  BY DEF World, Request
<1>2. Append(base.log, [command |-> r.semantic, base |-> Len(base.log)]) \in Seq(LogEntry)
  BY <1>1, AppendExtends DEF LogEntry
<1>3. [a \in SessionActor |-> IF a \in r.shape.changes THEN Len(base.log) + 1
                             ELSE base.changed[a]] \in [SessionActor -> Nat]
  BY <1>1
<1>4. NextWorld(base, r) \in World
  BY <1>1, <1>2, <1>3 DEF NextWorld, World
<1>5. QED
  BY <1>1, <1>4 DEF NextWorld

LEMMA CommitTransitionStep ==
    ASSUME CInv, CommitTransition
    PROVE  CInv' /\ Refined
<1> DEFINE u == tx.user
           r == tx.request
           entry == [command |-> r.semantic, base |-> Len(head.log)]
<1>1. /\ TransportTypeOK /\ tx \in Message /\ u \in User /\ r \in Request
      /\ r.base = head /\ AppendsCommand(r) /\ BindingsMatch /\ MayProject(u, r)
      /\ DecisionPlanHolds(u, r)
      /\ head' = NextWorld(head, r) /\ decisions' = DecisionsAfter(u, r) /\ tx' = NoTx
      /\ UNCHANGED <<admitting, members, controller, sent, known>>
  BY CommitFacts DEF CInv, CommitTransition
<1>2. head \in World /\ head.log \in Seq(LogEntry) /\ Len(head.log) \in Nat /\ r.semantic \in Nat
      /\ r.pending \in Pending /\ head.pending \in Pending
  BY <1>1 DEF TransportTypeOK, World, Request
<1>3. head' \in World /\ head'.log = Append(head.log, entry) /\ head'.pending = r.pending
  BY <1>1, <1>2, NextWorldFacts
<1>4. /\ Len(head'.log) = Len(head.log) + 1 /\ head'.log[Len(head.log) + 1] = entry
      /\ Extends(head.log, head'.log) /\ head'.log \in Seq(LogEntry)
  <2>1. entry \in LogEntry
    BY <1>2 DEF LogEntry
  <2>2. QED
    BY <1>2, <1>3, <2>1, AppendExtends
<1>5. /\ \A c \in DOMAIN receipts' : receipts'[c] \in Message /\ receipts'[c].request.id = c
      /\ ReceiptsAppend'
  <2>1. receipts' = [c \in DOMAIN receipts \cup {r.id} |-> IF c = r.id THEN tx ELSE receipts[c]]
    BY DEF CommitTransition
  <2>2. QED
    BY <1>1, <2>1 DEF CInv, TransportTypeOK, ReceiptsAppend, AppendsCommand
<1>6. DecisionsFollowHead' /\ \A d \in DOMAIN decisions' : decisions'[d] \in Decision
  <2>1. /\ {d \in DOMAIN decisions : decisions[d].open} = {head.pending.id} \ {0}
        /\ head.pending # NoDecision =>
              /\ decisions[head.pending.id].decider = head.pending.decider
              /\ decisions[head.pending.id].assigned = InitialController[head.pending.decider]
        /\ \A d \in DOMAIN decisions : decisions[d] \in Decision
    BY <1>1 DEF CInv, DecisionsFollowHead, TransportTypeOK
  <2> DEFINE resolved == [d \in DOMAIN decisions |-> [decisions[d] EXCEPT !.open = FALSE]]
  <2>2. /\ \A d \in DOMAIN decisions : resolved[d] \in Decision /\ ~resolved[d].open
        /\ DOMAIN resolved = DOMAIN decisions
    BY <2>1 DEF Decision
  <2>3. CASE r.pending = head.pending
    <3>1. decisions' = decisions
      BY <1>1, <2>3 DEF DecisionsAfter
    <3>2. QED
      BY <1>3, <2>1, <2>3, <3>1 DEF DecisionsFollowHead
  <2>4. CASE r.pending # head.pending /\ r.pending = NoDecision
    <3>1. decisions' = resolved
      BY <1>1, <2>4 DEF DecisionsAfter
    <3>2. head'.pending.id = 0 /\ head'.pending = NoDecision
      BY <1>3, <2>4 DEF NoDecision
    <3> HIDE DEF resolved
    <3>3. QED
      BY <2>2, <3>1, <3>2 DEF DecisionsFollowHead
  <2>5. CASE r.pending # head.pending /\ r.pending # NoDecision
    <3> DEFINE new == r.pending.id
               fresh == [decider |-> r.pending.decider,
                         assigned |-> controller[r.pending.decider], open |-> TRUE]
    <3>1. /\ new \in 1 .. MaxId /\ new # 0 /\ r.pending.decider \in SessionActor
          /\ new \notin DOMAIN decisions
      BY <1>1, <1>2, <2>5, TransportAssumption DEF DecisionPlanHolds, Pending
    <3>2. decisions' = [d \in DOMAIN decisions \cup {new} |->
                          IF d \in DOMAIN decisions THEN resolved[d] ELSE fresh]
      BY <1>1, <2>5 DEF DecisionsAfter
    <3>3. controller[r.pending.decider] = InitialController[r.pending.decider]
          /\ fresh \in Decision
      BY <1>1, <3>1 DEF BindingsMatch, TransportTypeOK, Decision
    <3>4. fresh.open /\ fresh.decider = r.pending.decider
          /\ fresh.assigned = InitialController[r.pending.decider]
      BY <3>3
    <3> HIDE DEF resolved, fresh
    <3>5. /\ DOMAIN decisions' = DOMAIN decisions \cup {new}
          /\ \A d \in DOMAIN decisions : decisions'[d] = resolved[d]
          /\ decisions'[new] = fresh
      BY <3>1, <3>2
    <3>6. {d \in DOMAIN decisions' : decisions'[d].open} = {new}
      BY <2>2, <3>4, <3>5
    <3>7. QED
      BY <1>3, <2>2, <3>1, <3>3, <3>4, <3>5, <3>6 DEF DecisionsFollowHead
  <2>6. QED
    BY <2>3, <2>4, <2>5
<1>7. TransportTypeOK'
  BY <1>1, <1>3, <1>5, <1>6 DEF TransportTypeOK
<1>8. TxAdmitted'
  BY <1>1 DEF TxAdmitted
<1>9. KnownIsPast'
  BY <1>1, <1>2, <1>4, ExtendsOn DEF CInv, KnownIsPast, TransportTypeOK, World
<1>10. TransportLog!Next
  <2>1. \A i \in DOMAIN head.log : head.log[i].command # entry.command
    BY <1>1 DEF AppendsCommand, Commands
  <2>2. TransportLog!Extend(head'.log[Len(head'.log)])
    BY <1>1, <1>3, <1>4, <2>1 DEF TransportLog!Extend
  <2>3. QED
    BY <1>4, <2>2 DEF TransportLog!Next
<1>11. QED
  BY <1>5, <1>6, <1>7, <1>8, <1>9, <1>10 DEF CInv, Refined

-----------------------------------------------------------------------------
(* The theorems. *)

LEMMA TransportInitInvariant ==
    ASSUME TransportInit
    PROVE  CInv /\ TransportLog!Init
<1>1. Genesis \in World /\ Genesis.pending = NoDecision /\ NoDecision.id = 0 /\ Genesis.log = << >>
  BY DEF Genesis, World, Pending, NoDecision
<1>2. TransportTypeOK
  BY <1>1, TransportAssumption DEF TransportInit, TransportTypeOK
<1>3. TxAdmitted /\ ReceiptsAppend
  BY DEF TransportInit, TxAdmitted, ReceiptsAppend
<1>4. KnownIsPast
  <2>1. << >> \in Seq(LogEntry)
    OBVIOUS
  <2>2. QED
    BY <1>1, <2>1, ExtendsItself DEF TransportInit, KnownIsPast
<1>5. DecisionsFollowHead
  BY <1>1 DEF TransportInit, DecisionsFollowHead
<1>6. TransportLog!Init
  BY <1>1 DEF TransportInit, TransportLog!Init
<1>7. QED
  BY <1>2, <1>3, <1>4, <1>5, <1>6 DEF CInv

LEMMA TransportStep ==
    ASSUME CInv, [TransportNext]_transportVars
    PROVE  CInv' /\ Refined
<1>1. CASE UNCHANGED transportVars
  BY <1>1 DEF transportVars, CInv, TransportTypeOK, TxAdmitted, KnownIsPast, DecisionsFollowHead,
              ReceiptsAppend, AppendsCommand, Refined, Outcome, MayControl, ActorHasMembers,
              Active, BindingsMatch, MayProject, MayMutate, DecisionPlanHolds, Receipt
<1>2. CASE \E u \in User : \E role \in {InitialRole[u], "observer", "revoked"} \ {members[u]} :
             ChangeRole(u, role)
  <2>1. PICK u \in User, role \in Role : ChangeRole(u, role)
    BY <1>2, TransportAssumption DEF Role
  <2>2. QED
    BY <2>1, ProvisioningStep DEF ChangeRole
<1>3. CASE ChangeStatus \/ \E a \in SessionActor : \E u \in User \ {controller[a]} :
             ChangeController(a, u)
  <2>1. UNCHANGED <<head, decisions, receipts, sent, tx, known>>
    BY <1>3 DEF ChangeStatus, ChangeController
  <2>2. QED
    BY <1>3, <2>1, ProvisioningStep
<1>4. CASE \/ \E u \in User : Send(u) \/ GetCurrent(u)
           \/ \E m \in sent : Admit(m)
           \/ CommitTransition \/ RollBack
  BY <1>4, SendStep, GetCurrentStep, AdmitStep, CommitTransitionStep, RollBackStep
<1>5. QED
  BY <1>1, <1>2, <1>3, <1>4 DEF TransportNext

\* What a transaction has checked is so when it commits, the ledger follows the
\* head, and what clients have read is the past: the inductive invariant.
THEOREM TransportInvariant == TransportSpec => []CInv
<1>1. TransportInit => CInv
  BY TransportInitInvariant
<1>2. CInv /\ [TransportNext]_transportVars => CInv'
  BY TransportStep
<1>3. QED
  BY <1>1, <1>2, PTL DEF TransportSpec

\* The ledger of decisions has one open row exactly while the head waits for
\* one, and it is assigned to who controlled the decider.
THEOREM DecisionsCorrect == TransportSpec => []DecisionsFollowHead
<1>1. CInv => DecisionsFollowHead
  BY DEF CInv
<1>2. QED
  BY <1>1, TransportInvariant, PTL

\* A member who repeats a committed command gets its receipt, whatever has
\* happened to the head, the status or the controllers since.
THEOREM RetriesCorrect == TransportSpec => []RetriesAreAnswered
<1>1. CInv => RetriesAreAnswered
  <2>1. SUFFICES ASSUME CInv, NEW c \in DOMAIN receipts, MayControl(receipts[c].user)
                 PROVE  Outcome(receipts[c].user, receipts[c].request) = "replayed"
    BY DEF RetriesAreAnswered
  <2>2. AppendsCommand(receipts[c].request) /\ receipts[c].request.id = c
    BY <2>1 DEF CInv, TransportTypeOK, ReceiptsAppend
  <2>3. \A u, r : /\ AppendsCommand(r) /\ MayControl(u) /\ r.id \in DOMAIN receipts
                  /\ receipts[r.id].user = u /\ receipts[r.id].request = r
                  => Outcome(u, r) = "replayed"
    BY DEF Outcome, Receipt
  <2>4. QED
    BY <2>1, <2>2, <2>3
<1>2. QED
  BY <1>1, TransportInvariant, PTL

\* ApplyTransition and GetCurrent implement the abstract log: each command
\* once, on the head it was computed from, and clients read its prefixes.
THEOREM TransitionsCorrect == TransportSpec => TransitionsKeepLog
<1>1. TransportInit => TransportLog!Init
  BY TransportInitInvariant
<1>2. CInv /\ [TransportNext]_transportVars => [TransportLog!Next]_<<head.log, known>>
  BY TransportStep DEF Refined
<1>3. QED
  BY <1>1, <1>2, TransportInvariant, PTL DEF TransportSpec, TransitionsKeepLog

\* Rights that were revoked, demoted or reassigned before a transition commits
\* do not count in it.
THEOREM AuthorityCorrect == TransportSpec => AuthorityHoldsAtCommit
<1> DEFINE Authorised ==
        head' # head =>
            /\ MayControl(tx.user)
            /\ \A a \in SessionActor : head'.changed[a] # head.changed[a] => MayMutate(tx.user, a)
            /\ head.pending \notin {NoDecision, head'.pending} =>
                  \/ members[tx.user] = "gm"
                  \/ decisions[head.pending.id].assigned = tx.user
<1>1. CInv /\ [TransportNext]_transportVars => [Authorised]_transportVars
  <2>1. SUFFICES ASSUME CInv, TransportNext, head' # head
                 PROVE  Authorised
    BY DEF transportVars
  <2>2. CommitTransition
    BY <2>1 DEF TransportNext, Send, GetCurrent, Admit, RollBack, ChangeRole, ChangeStatus,
                ChangeController
  <2>3. /\ tx.request \in Request /\ tx.request.base = head /\ MayControl(tx.user)
        /\ MayProject(tx.user, tx.request) /\ DecisionPlanHolds(tx.user, tx.request)
        /\ head' = NextWorld(head, tx.request) /\ head \in World
    BY <2>1, <2>2, CommitFacts DEF CommitTransition, CInv, TransportTypeOK
  <2>4. /\ head'.pending = tx.request.pending
        /\ \A a \in SessionActor : a \notin tx.request.shape.changes
              => head'.changed[a] = head.changed[a]
    BY <2>3, NextWorldFacts
  <2>5. \A a \in SessionActor : head'.changed[a] # head.changed[a] => MayMutate(tx.user, a)
    BY <2>3, <2>4 DEF MayProject
  <2>6. head.pending \notin {NoDecision, head'.pending} =>
          \/ members[tx.user] = "gm"
          \/ decisions[head.pending.id].assigned = tx.user
    BY <2>3, <2>4 DEF DecisionPlanHolds
  <2>7. QED
    BY <2>3, <2>5, <2>6
<1>2. QED
  BY <1>1, TransportInvariant, PTL DEF TransportSpec, AuthorityHoldsAtCommit
=============================================================================
