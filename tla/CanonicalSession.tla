--------------------------- MODULE CanonicalSession ---------------------------
(***************************************************************************)
(* The canonical session transport of src/backend: clients compute a       *)
(* transition of the world with the rules core and POST it with the head   *)
(* they computed it from.  ApplyTransition locks the session row, shares   *)
(* the membership rows, looks for a receipt of the command, checks source, *)
(* targets, head, actor projections and the decision ledger, and commits   *)
(* event, snapshot, projections, ledger, head and receipt together.        *)
(*                                                                         *)
(* The transaction is two steps, Admit (all locks, reads and checks) and   *)
(* CommitTransition, so that what other writers may do in between is in    *)
(* the model.  A world is its log, the decision it waits for and, per      *)
(* actor, the revision that last changed it; revision, snapshot sequence,  *)
(* event sequence and state hash all name it.  Checks of shape, hashes and *)
(* release are left out: clients send well-formed requests.  Members,      *)
(* controllers and the status of a session are written by provisioning,    *)
(* which is not part of this repository.                                   *)
(*                                                                         *)
(* A definition marked (fault) is a plausible bug in the definition that   *)
(* follows it; no behaviour of TransportSpec uses one.                     *)
(***************************************************************************)
EXTENDS Naturals, Sequences, FiniteSets

CONSTANTS
    User, SessionActor,
    InitialRole,        \* [User -> Role]
    InitialController,  \* [SessionActor -> User], also controllerId in every world
    OwnerOf,            \* [SessionActor -> User], owner_user_id
    Shapes,             \* bound: the source, targets, changes and deciders tried
    MaxId               \* bound: command, semantic and decision ids are 1 .. MaxId

\* "gm" may control unowned actors; "revoked" is no active membership.
Role == {"gm", "player", "observer", "revoked"}

ASSUME TransportAssumption ==
    /\ InitialRole \in [User -> Role]
    /\ InitialController \in [SessionActor -> User] /\ OwnerOf \in [SessionActor -> User]
    /\ Shapes \subseteq [source : SessionActor, targets : SUBSET SessionActor,
                         changes : SUBSET SessionActor, answers : BOOLEAN,
                         asks : SUBSET SessionActor]
    /\ MaxId \in Nat

VARIABLES
    admitting,          \* status = 'active' and authority_mode = 'local'
    head,               \* game_sessions.current_snapshot
    members,            \* game_session_members
    controller,         \* game_session_actors.controller_user_id
    decisions,          \* decision_requests: a function of request id
    receipts,           \* game_commands: a function of command id
    sent,               \* requests of clients; each may arrive late, twice or never
    tx,                 \* the transaction that holds the session row
    known               \* [User -> World], the head a client last read

transportVars == <<admitting, head, members, controller, decisions, receipts, sent, tx, known>>

NoDecision == [id |-> 0]
NoTx == [user |-> "none"]

Commands(log) == {log[i].command : i \in DOMAIN log}

\* The world a client computes from `base'.
NextWorld(base, r) ==
    [log |-> Append(base.log, [command |-> r.semantic, base |-> Len(base.log)]),
     pending |-> r.pending,
     changed |-> [a \in SessionActor |-> IF a \in r.shape.changes THEN Len(base.log) + 1
                                  ELSE base.changed[a]]]

-----------------------------------------------------------------------------
(* Admission. *)

Active(u) == members[u] # "revoked"
MayControl(u) == members[u] \notin {"revoked", "observer"}

\* requireCanonicalActorMembers
ActorHasMembers(a) == MayControl(controller[a]) /\ Active(OwnerOf[a])

\* canonicalMemberMayMutateActor
MayMutate(u, a) == members[u] = "gm" \/ u \in {controller[a], OwnerOf[a]}

\* (fault) a semantic command may be appended twice
AppendsCommandTwice(r) == TRUE

\* inspectCanonicalWorld, before the transaction: processedCommandIds are
\* distinct, so the command that the request appends is a new one.
AppendsCommand(r) == r.semantic \notin Commands(r.base.log)

\* inferCanonicalActorBindings: controllerId in the world never changes.
BindingsMatch == controller = InitialController

\* prepareCanonicalActorProjections
MayProject(u, r) ==
    /\ \A a \in SessionActor : ActorHasMembers(a)
    /\ r.shape.changes \subseteq {r.shape.source} \cup r.shape.targets
    /\ \A a \in r.shape.changes : MayMutate(u, a)

\* prepareCanonicalDecisionPlan
DecisionPlanHolds(u, r) ==
    LET open == {d \in DOMAIN decisions : decisions[d].open}
        old == r.base.pending
    IN /\ open = {old.id} \ {0}
       /\ \/ r.pending = old
          \/ /\ old # NoDecision =>
                   \/ members[u] = "gm"
                   \/ decisions[old.id].assigned = u /\ decisions[old.id].decider = r.shape.source
             /\ r.pending # NoDecision =>
                   /\ r.pending.decider \in {r.shape.source} \cup r.shape.targets
                   /\ Active(controller[r.pending.decider])
                   /\ r.pending.id \notin DOMAIN decisions

\* loadIdempotentCanonicalResult: a command id answers for one request.
Receipt(u, r) ==
    IF receipts[r.id].user = u /\ receipts[r.id].request = r THEN "replayed" ELSE "conflict"

\* (fault) the head is compared before the receipt is looked up
OutcomeStaleFirst(u, r) ==
    IF ~MayControl(u) THEN "forbidden"
    ELSE IF ~admitting \/ r.base # head THEN "refused"
    ELSE IF r.id \in DOMAIN receipts THEN Receipt(u, r)
    ELSE "admitted"

\* ApplyTransition, in the order of its checks: what an arriving request gets.
Outcome(u, r) ==
    IF ~AppendsCommand(r) THEN "refused"
    ELSE IF ~MayControl(u) THEN "forbidden"
    ELSE IF r.id \in DOMAIN receipts THEN Receipt(u, r)
    ELSE IF ~admitting THEN "refused"
    ELSE IF controller[r.shape.source] # u THEN "forbidden"
    ELSE IF \E a \in {r.shape.source} \cup r.shape.targets : ~ActorHasMembers(a) THEN "forbidden"
    ELSE IF ~BindingsMatch THEN "failed"
    ELSE IF r.base # head THEN "stale"
    ELSE IF ~MayProject(u, r) \/ ~DecisionPlanHolds(u, r) THEN "refused"
    ELSE "admitted"

-----------------------------------------------------------------------------
(* The transition. *)

\* (fault) a decision that is replaced stays open in the ledger
DecisionsAfterKept(u, r) ==
    IF r.pending = NoDecision
    THEN [d \in DOMAIN decisions |-> [decisions[d] EXCEPT !.open = FALSE]]
    ELSE IF r.pending = head.pending THEN decisions
    ELSE [d \in DOMAIN decisions \cup {r.pending.id} |->
            IF d \in DOMAIN decisions THEN decisions[d]
            ELSE [decider |-> r.pending.decider, assigned |-> controller[r.pending.decider],
                  open |-> TRUE]]

\* applyCanonicalDecisionPlan: the old decision is resolved, the new opened.
DecisionsAfter(u, r) ==
    IF r.pending = head.pending THEN decisions
    ELSE LET resolved == [d \in DOMAIN decisions |-> [decisions[d] EXCEPT !.open = FALSE]]
         IN IF r.pending = NoDecision THEN resolved
            ELSE [d \in DOMAIN decisions \cup {r.pending.id} |->
                    IF d \in DOMAIN decisions THEN resolved[d]
                    ELSE [decider |-> r.pending.decider,
                          assigned |-> controller[r.pending.decider], open |-> TRUE]]

\* (fault) the transition reads the membership rows without a lock
MemberLockedNever(u) == FALSE

\* activeCanonicalMembers(tx, sessionID, true): the active rows are held FOR
\* SHARE until the commit; one that is not active may still be reinstated.
MemberLocked(u) == tx # NoTx /\ Active(u)

Send(u) ==
    LET usedIds == {m.request.id : m \in sent}
        usedSemantics == {m.request.semantic : m \in sent}
        pendings(shape) ==
            IF shape.answers THEN {NoDecision}
            ELSE IF shape.asks = {} THEN {known[u].pending}
            ELSE [id : 1 .. MaxId, decider : shape.asks]
    IN /\ Active(u) /\ Cardinality(sent) < MaxId
       /\ \E shape \in Shapes : \E pending \in pendings(shape) :
          \E id \in usedIds \cup ({Cardinality(usedIds) + 1} \cap 1 .. MaxId) :
          \E semantic \in usedSemantics \cup ({Cardinality(usedSemantics) + 1} \cap 1 .. MaxId) :
             sent' = sent \cup {[user |-> u, request |->
                [id |-> id, semantic |-> semantic, shape |-> shape,
                 base |-> known[u], pending |-> pending]]}
       /\ UNCHANGED <<admitting, head, members, controller, decisions, receipts, tx, known>>

Admit(m) ==
    /\ tx = NoTx /\ Outcome(m.user, m.request) = "admitted"
    /\ tx' = m
    /\ UNCHANGED <<admitting, head, members, controller, decisions, receipts, sent, known>>

CommitTransition ==
    /\ tx # NoTx
    /\ head' = NextWorld(tx.request.base, tx.request)
    /\ decisions' = DecisionsAfter(tx.user, tx.request)
    /\ receipts' = [c \in DOMAIN receipts \cup {tx.request.id} |->
                      IF c = tx.request.id THEN tx ELSE receipts[c]]
    /\ tx' = NoTx
    /\ UNCHANGED <<admitting, members, controller, sent, known>>

\* A statement of the transaction fails, or its process dies.
RollBack ==
    /\ tx # NoTx /\ tx' = NoTx
    /\ UNCHANGED <<admitting, head, members, controller, decisions, receipts, sent, known>>

\* FOR SHARE on the session row: waits for a transition.
GetCurrent(u) ==
    /\ tx = NoTx /\ Active(u) /\ BindingsMatch
    /\ known' = [known EXCEPT ![u] = head]
    /\ UNCHANGED <<admitting, head, members, controller, decisions, receipts, sent, tx>>

-----------------------------------------------------------------------------
(* Provisioning (external): each is an UPDATE that waits for the row locks. *)

ChangeRole(u, role) ==
    /\ ~MemberLocked(u)
    /\ members' = [members EXCEPT ![u] = role]
    /\ UNCHANGED <<admitting, head, controller, decisions, receipts, sent, tx, known>>

ChangeStatus ==
    /\ tx = NoTx
    /\ admitting' = ~admitting
    /\ UNCHANGED <<head, members, controller, decisions, receipts, sent, tx, known>>

ChangeController(a, u) ==
    /\ tx = NoTx
    /\ controller' = [controller EXCEPT ![a] = u]
    /\ UNCHANGED <<admitting, head, members, decisions, receipts, sent, tx, known>>

-----------------------------------------------------------------------------
Genesis == [log |-> << >>, pending |-> NoDecision, changed |-> [a \in SessionActor |-> 0]]

TransportInit ==
    /\ admitting = TRUE /\ head = Genesis /\ members = InitialRole
    /\ controller = InitialController
    /\ decisions = << >> /\ receipts = << >> /\ sent = {} /\ tx = NoTx
    /\ known = [u \in User |-> Genesis]

TransportNext ==
    \/ \E u \in User : Send(u) \/ GetCurrent(u)
    \/ \E m \in sent : Admit(m)
    \/ CommitTransition \/ RollBack
    \/ \E u \in User : \E role \in {InitialRole[u], "observer", "revoked"} \ {members[u]} :
          ChangeRole(u, role)
    \/ ChangeStatus
    \/ \E a \in SessionActor : \E u \in User \ {controller[a]} : ChangeController(a, u)

TransportSpec == TransportInit /\ [][TransportNext]_transportVars

-----------------------------------------------------------------------------
(* Properties. *)

\* Transitions keep one log: each command once, on the head it was computed
\* from, and every client shows a prefix of it that only grows.
TransportLog == INSTANCE WorldLog WITH
    Reader <- User, log <- head.log, view <- [u \in User |-> known[u].log]
TransitionsKeepLog == TransportLog!Init /\ [][TransportLog!Next]_<<head.log, known>>

\* Whatever was revoked, demoted or reassigned before a transition commits
\* does not count in it: an actor changes only by a member who may change it
\* at the commit, a decision is closed only by the member it is assigned to or a GM.
AuthorityHoldsAtCommit ==
    [][head' # head =>
        /\ MayControl(tx.user)
        /\ \A a \in SessionActor : head'.changed[a] # head.changed[a] => MayMutate(tx.user, a)
        /\ head.pending \notin {NoDecision, head'.pending} =>
              \/ members[tx.user] = "gm"
              \/ decisions[head.pending.id].assigned = tx.user]_transportVars

\* The ledger has one open decision exactly while the world waits for one, it
\* is that one, and it is assigned to who controlled the decider.
DecisionsFollowHead ==
    /\ {d \in DOMAIN decisions : decisions[d].open} = {head.pending.id} \ {0}
    /\ head.pending # NoDecision =>
          /\ decisions[head.pending.id].decider = head.pending.decider
          /\ decisions[head.pending.id].assigned = InitialController[head.pending.decider]

\* A member who repeats a committed command is answered with its receipt,
\* whatever has happened to the session or its actors since.
RetriesAreAnswered ==
    \A c \in DOMAIN receipts :
        MayControl(receipts[c].user)
            => Outcome(receipts[c].user, receipts[c].request) = "replayed"
=============================================================================
