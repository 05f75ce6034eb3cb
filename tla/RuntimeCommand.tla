--------------------------- MODULE RuntimeCommand ---------------------------
(***************************************************************************)
(* Runtime commands: one atomic, idempotent change of several character    *)
(* sheets (POST /characters-v3/runtime-commands), and the browser tabs     *)
(* that prepare, send and retry them over a network that loses responses   *)
(* and delays requests.                                                    *)
(*                                                                         *)
(* A tab computes a command from the sheets it shows and names the         *)
(* runtime_revision of each.  When no answer arrives it keeps the exact    *)
(* bytes and sends them again under the same command_id; the server keeps  *)
(* a receipt per command_id and answers a repetition from it.              *)
(*                                                                         *)
(* What a sheet says is abstracted to who wrote it: content is the         *)
(* sequence of the requests that changed it, None for any other writer.    *)
(* Module Encounter shows that the other writers move the revision too     *)
(* (RuntimeChangeMovesRevision); here they are OtherWrite and Link.        *)
(*                                                                         *)
(* A definition marked (fault) is a plausible bug in the definition that   *)
(* follows it; no specification uses it.                                   *)
(***************************************************************************)
EXTENDS Naturals, Sequences

CONSTANTS
    Tabs,           \* browser tabs of one account
    Companion,      \* the tabs that send companion commands; the others send combat
    Characters,
    CommandIds,
    Payloads,       \* what else the bodies of two commands can differ in
    None,
    MaxRevision,    \* bound on runtime_revision
    MaxCommands,    \* bound on commands prepared
    MaxLosses,      \* bound on commands whose answer a tab does not get
    MaxDenials      \* bound on requests answered 4xx for a reason outside the ledger

Groups == SUBSET Characters \ {{}}

\* The body of a command, and so its hash.  Within MaxRevision a command leaves
\* room for its own write.
Request ==
    [id : CommandIds, payload : Payloads, expected : UNION {[g -> 0..(MaxRevision - 1)] : g \in Groups}]

ASSUME CommandAssumption ==
    /\ Companion \subseteq Tabs
    /\ {MaxRevision, MaxCommands, MaxLosses, MaxDenials} \subseteq Nat
    /\ None \notin Request

Participants(req) == DOMAIN req.expected

VARIABLES
    sheet,          \* characters_v3: [revision, content, linked to an encounter]
    receipts,       \* character_runtime_commands: the request behind a command_id
    requests,       \* requests on their way to the server
    responses,      \* responses on their way to a tab that still waits
    shown,          \* per tab: the sheets it shows
    stage,          \* per tab: idle, waiting, retry or refetching
    request,        \* per tab: the command it has prepared and not dropped,
                    \* the sheets it was computed from (base) and those the
                    \* server had when it replayed the receipt (floor)
    loaded,         \* per tab: what a refetch has brought so far
    spent,          \* how much of MaxCommands, MaxLosses and MaxDenials is used
    accepted,       \* requests a tab has got a receipt of
    refused         \* requests a tab has dropped as rejected, and by which answer

serverVars == <<sheet, receipts>>
tabVars == <<shown, stage, request, loaded, accepted, refused>>
vars == <<sheet, receipts, requests, responses, shown, stage, request,
          loaded, spent, accepted, refused>>

\* Sheets of a group of characters.
Extract(sheets, group) == [c \in Characters |-> IF c \in group THEN sheets[c] ELSE None]

NoSheets == [c \in Characters |-> None]

NewSheet == [revision |-> 0, content |-> <<>>, linked |-> FALSE]

Init ==
    /\ sheet = [c \in Characters |-> NewSheet]
    /\ receipts = [k \in CommandIds |-> None]
    /\ requests = {}
    /\ responses = {}
    /\ shown = [t \in Tabs |-> sheet]
    /\ stage = [t \in Tabs |-> "idle"]
    /\ request = [t \in Tabs |-> None]
    /\ loaded = [t \in Tabs |-> NoSheets]
    /\ spent = [commands |-> 0, losses |-> 0, denials |-> 0]
    /\ accepted = {}
    /\ refused = {}

------------------------------------------------------------------------------
(* Other writers of the sheets *)

\* (fault) the revision is not moved
WrittenUnrevised(s, writer) == [s EXCEPT !.content = Append(@, writer)]

\* A sheet after one more write.
Written(s, writer) ==
    [s EXCEPT !.revision = @ + 1, !.content = Append(@, writer)]

\* PUT, PATCH, or an encounter operation on a linked character.
OtherWrite(c) ==
    /\ sheet[c].revision < MaxRevision
    /\ sheet' = [sheet EXCEPT ![c] = Written(@, None)]
    /\ UNCHANGED <<receipts, requests, responses, tabVars, spent>>

\* (fault) joining an encounter keeps the revision
LinkedSheetAsBefore(s) == [s EXCEPT !.linked = TRUE]

\* Joining an encounter writes the combatant's temporary hit points through.
LinkedSheet(s) == [Written(s, None) EXCEPT !.linked = TRUE]

Link(c) ==
    /\ ~sheet[c].linked
    /\ sheet[c].revision < MaxRevision
    /\ sheet' = [sheet EXCEPT ![c] = LinkedSheet(@)]
    /\ UNCHANGED <<receipts, requests, responses, tabVars, spent>>

\* Leaving it writes nothing but the link.
Unlink(c) ==
    /\ sheet[c].linked
    /\ sheet' = [sheet EXCEPT ![c].linked = FALSE]
    /\ UNCHANGED <<receipts, requests, responses, tabVars, spent>>

------------------------------------------------------------------------------
(* The server *)

HasReceipt(req) == receipts[req.id] # None

\* (fault) the request hash is not compared
IsSameRequestById(req) == TRUE

IsSameRequest(req) == receipts[req.id] = req

\* (fault) the revisions are not compared
IsUnchangedSinceAlways(req, c) == TRUE

IsUnchangedSince(req, c) == sheet[c].revision = req.expected[c]

IsCommittable(req) ==
    \A c \in Participants(req) : ~sheet[c].linked /\ IsUnchangedSince(req, c)

\* (fault) the first participant's sheet is written, then the others are lost
PostimageOfOne(req, c) ==
    IF c = CHOOSE d \in Participants(req) : TRUE THEN Written(sheet[c], req) ELSE sheet[c]

Postimage(req, c) == IF c \in Participants(req) THEN Written(sheet[c], req) ELSE sheet[c]

\* The answer reaches a tab that still waits for it; any other is lost.  It
\* holds the receipt, and at: the participants' sheets as the server left
\* them (a fresh answer shows them to the tab, a replay only to the properties).
Answer(m, kind, receipt, at) ==
    /\ requests' = requests \ {m}
    /\ responses' = IF m.awaited
                    THEN responses \cup {[tab |-> m.tab, kind |-> kind,
                                          receipt |-> receipt, at |-> at]}
                    ELSE responses
    /\ UNCHANGED tabVars

Replay(m) ==
    /\ HasReceipt(m.request)
    /\ IsSameRequest(m.request)
    /\ Answer(m, "replayed", receipts[m.request.id],
              Extract(sheet, Participants(m.request)))
    /\ UNCHANGED <<serverVars, spent>>

Commit(m) ==
    /\ ~HasReceipt(m.request)
    /\ IsCommittable(m.request)
    /\ sheet' = [c \in Characters |-> Postimage(m.request, c)]
    /\ receipts' = [receipts EXCEPT ![m.request.id] = m.request]
    /\ Answer(m, "fresh", m.request, Extract(sheet', Participants(m.request)))
    /\ UNCHANGED spent

\* 409: command_id_reuse, character_linked_encounter or runtime_revision_conflict.
Reject(m) ==
    /\ IF HasReceipt(m.request) THEN ~IsSameRequest(m.request)
                                ELSE ~IsCommittable(m.request)
    /\ Answer(m, "rejected", None, NoSheets)
    /\ UNCHANGED <<serverVars, spent>>

Denies == spent.denials < MaxDenials /\ spent' = [spent EXCEPT !.denials = @ + 1]

\* A definitive 4xx that is not the ledger's: 401, the token has expired or its
\* user is no longer active.  The page then gives way to the login page, which
\* for a command that is kept is a Reload.
Deny(m) ==
    /\ m.awaited
    /\ Denies
    /\ Answer(m, "denied", None, NoSheets)
    /\ UNCHANGED serverVars

\* A request never arrives.
LoseRequest(m) ==
    /\ ~m.awaited
    /\ requests' = requests \ {m}
    /\ UNCHANGED <<serverVars, responses, tabVars, spent>>

------------------------------------------------------------------------------
(* A tab *)

Message(t, req, base) == [tab |-> t, request |-> req, base |-> base, awaited |-> TRUE]

\* The user acts: a command for a group of the sheets on the screen, none of
\* which is in an encounter as far as the screen shows.
Prepare(t, k, p, group) ==
    LET req == [id |-> k, payload |-> p,
                expected |-> [c \in group |-> shown[t][c].revision]]
        base == Extract(shown[t], group)
    IN  /\ stage[t] = "idle"
        /\ spent.commands < MaxCommands
        /\ spent' = [spent EXCEPT !.commands = @ + 1]
        /\ \A c \in group : ~shown[t][c].linked /\ shown[t][c].revision < MaxRevision
        /\ request' = [request EXCEPT ![t] = [body |-> req, base |-> base, floor |-> NoSheets]]
        /\ stage' = [stage EXCEPT ![t] = "waiting"]
        /\ requests' = requests \cup {Message(t, req, base)}
        /\ UNCHANGED <<serverVars, responses, shown, loaded, accepted, refused>>

\* Tab t no longer waits for what it has sent.
Abandoned(t) == {IF m.tab = t THEN [m EXCEPT !.awaited = FALSE] ELSE m : m \in requests}

Loses == spent.losses < MaxLosses /\ spent' = [spent EXCEPT !.losses = @ + 1]

\* Tab t waits for at least one GET of its refetch.
IsLoading(t) ==
    /\ stage[t] = "refetching"
    /\ \E c \in Participants(request[t].body) : loaded[t][c] = None

\* The command is kept for "repeat safely", and with it nothing of a refetch.
Kept(t) ==
    /\ stage' = [stage EXCEPT ![t] = "retry"]
    /\ loaded' = [loaded EXCEPT ![t] = NoSheets]
    /\ UNCHANGED <<shown, request, accepted, refused>>

\* No answer in time, or one that says nothing (5xx, 408, 425, 429), to the
\* command or to a GET of its refetch.  The request may still be on its way.
GiveUp(t) ==
    /\ stage[t] = "waiting" \/ IsLoading(t)
    /\ Loses
    /\ Kept(t)
    /\ requests' = Abandoned(t)
    /\ responses' = {r \in responses : r.tab # t}
    /\ UNCHANGED serverVars

\* "Repeat safely": the same bytes again.
Retry(t) ==
    /\ stage[t] = "retry"
    /\ stage' = [stage EXCEPT ![t] = "waiting"]
    /\ requests' = requests \cup {Message(t, request[t].body, request[t].base)}
    /\ UNCHANGED <<serverVars, responses, shown, request, loaded, spent, accepted, refused>>

Took(r) == responses' = responses \ {r}

\* The transaction's own postimage is put on the screen.
OnFresh(r) ==
    LET t == r.tab
        req == request[t].body
    IN  /\ r.kind = "fresh"
        /\ Took(r)
        /\ shown' = [shown EXCEPT ![t] =
                       [c \in Characters |-> IF c \in Participants(req) THEN r.at[c] ELSE @[c]]]
        /\ accepted' = accepted \cup {req}
        /\ stage' = [stage EXCEPT ![t] = "idle"]
        /\ request' = [request EXCEPT ![t] = None]
        /\ UNCHANGED <<serverVars, requests, loaded, spent, refused>>

\* A receipt proves the commit and says nothing of now: refetch.
OnReplayed(r) ==
    /\ r.kind = "replayed"
    /\ Took(r)
    /\ accepted' = accepted \cup {request[r.tab].body}
    /\ stage' = [stage EXCEPT ![r.tab] = "refetching"]
    /\ request' = [request EXCEPT ![r.tab].floor = r.at]
    /\ UNCHANGED <<serverVars, requests, shown, loaded, spent, refused>>

\* loadCurrent, one GET per participant, answered in any order.
LoadCurrent(t, c) ==
    /\ stage[t] = "refetching"
    /\ c \in Participants(request[t].body)
    /\ loaded[t][c] = None
    /\ loaded' = [loaded EXCEPT ![t][c] = sheet[c]]
    /\ UNCHANGED <<serverVars, requests, responses, shown, stage, request, spent,
                   accepted, refused>>

\* (fault) the receipt's snapshot is shown
CurrentFromReceipt(t, c) == Written(request[t].base[c], request[t].body)

CurrentOf(t, c) == loaded[t][c]

\* Everything is there: the tab is up to date and the command is over.
FinishRefetch(t) ==
    /\ stage[t] = "refetching"
    /\ \A c \in Participants(request[t].body) : loaded[t][c] # None
    /\ shown' = [shown EXCEPT ![t] =
                    [c \in Characters |-> IF c \in Participants(request[t].body)
                                          THEN CurrentOf(t, c) ELSE @[c]]]
    /\ stage' = [stage EXCEPT ![t] = "idle"]
    /\ request' = [request EXCEPT ![t] = None]
    /\ loaded' = [loaded EXCEPT ![t] = NoSheets]
    /\ UNCHANGED <<serverVars, requests, responses, spent, accepted, refused>>

\* (fault) a rejected command is kept like an unanswered one
DropsRejectedNever(t) == FALSE

\* sheetCompanionRetryPolicy of a definitive 4xx, whoever it comes from; a combat
\* command is kept whatever the answer.
DropsRejected(t) == t \in Companion

\* The command is dropped as rejected and the sheets are listed again; the list
\* may fail.
Dropped(t, answer) ==
    /\ refused' = refused \cup {[body |-> request[t].body, by |-> answer]}
    /\ \E listed \in {sheet, shown[t]} : shown' = [shown EXCEPT ![t] = listed]
    /\ stage' = [stage EXCEPT ![t] = "idle"]
    /\ request' = [request EXCEPT ![t] = None]
    /\ loaded' = [loaded EXCEPT ![t] = NoSheets]
    /\ UNCHANGED accepted

Rejections == {"rejected", "denied"}

OnRejectedDrop(r) ==
    /\ r.kind \in Rejections
    /\ DropsRejected(r.tab)
    /\ Took(r)
    /\ Dropped(r.tab, r.kind)
    /\ UNCHANGED <<serverVars, requests, spent>>

OnRejectedKeep(r) ==
    /\ r.kind \in Rejections
    /\ ~DropsRejected(r.tab)
    /\ Took(r)
    /\ Kept(r.tab)
    /\ UNCHANGED <<serverVars, requests, spent>>

\* A GET of the refetch is answered 401, 403 or 404: the refetch and the command
\* are in one try block, so the command counts as rejected.
RefetchDenied(t) ==
    /\ IsLoading(t)
    /\ Denies
    /\ IF DropsRejected(t) THEN Dropped(t, "denied") ELSE Kept(t)
    /\ UNCHANGED <<serverVars, requests, responses>>

\* Another panel of the page puts a sheet it has just read on the screen.
Refresh(t, c) ==
    /\ shown[t][c] # sheet[c]
    /\ shown' = [shown EXCEPT ![t][c] = sheet[c]]
    /\ UNCHANGED <<serverVars, requests, responses, stage, request, loaded, spent,
                   accepted, refused>>

\* The page is loaded anew and forgets its command.
Reload(t) ==
    /\ stage[t] # "idle"
    /\ Loses
    /\ shown' = [shown EXCEPT ![t] = sheet]
    /\ stage' = [stage EXCEPT ![t] = "idle"]
    /\ request' = [request EXCEPT ![t] = None]
    /\ loaded' = [loaded EXCEPT ![t] = NoSheets]
    /\ requests' = Abandoned(t)
    /\ responses' = {r \in responses : r.tab # t}
    /\ UNCHANGED <<serverVars, accepted, refused>>

------------------------------------------------------------------------------

Serve(m) == Replay(m) \/ Commit(m) \/ Reject(m) \/ Deny(m)

TakeAnswer(r) == OnFresh(r) \/ OnReplayed(r) \/ OnRejectedDrop(r) \/ OnRejectedKeep(r)

Next ==
    \/ \E c \in Characters : OtherWrite(c) \/ Link(c) \/ Unlink(c)
    \/ \E m \in requests : Replay(m) \/ Commit(m) \/ Reject(m) \/ Deny(m) \/ LoseRequest(m)
    \/ \E r \in responses :
          OnFresh(r) \/ OnReplayed(r) \/ OnRejectedDrop(r) \/ OnRejectedKeep(r)
    \/ \E t \in Tabs :
          \/ \E k \in CommandIds, p \in Payloads, group \in Groups : Prepare(t, k, p, group)
          \/ GiveUp(t) \/ Retry(t) \/ FinishRefetch(t) \/ RefetchDenied(t) \/ Reload(t)
          \/ \E c \in Characters : LoadCurrent(t, c) \/ Refresh(t, c)

Spec == Init /\ [][Next]_vars

\* The server answers, the network brings the answer to a tab that waits, the
\* tab's own steps happen, and a user offered "repeat safely" uses it.  Nobody
\* has to act, give up, or reload the page.
Fairness ==
    \A t \in Tabs :
        /\ WF_vars(\E m \in requests : m.tab = t /\ m.awaited /\ Serve(m))
        /\ WF_vars(\E r \in responses : r.tab = t /\ TakeAnswer(r))
        /\ WF_vars(Retry(t))
        /\ WF_vars(\E c \in Characters : LoadCurrent(t, c))
        /\ WF_vars(FinishRefetch(t))

FairSpec == Spec /\ Fairness

------------------------------------------------------------------------------
(* Properties *)

Sheet ==
    [revision : 0..MaxRevision, content : Seq(Request \cup {None}), linked : BOOLEAN]

Extracts == [Characters -> Sheet \cup {None}]

\* A command a tab has prepared and not dropped.
Held == [body : Request, base : Extracts, floor : Extracts]

\* A command dropped, and whether it was the ledger that refused it.
Refusal == [body : Request, by : Rejections]

\* A request on its way, and the sheets it was computed from.
Envelope == [tab : Tabs, request : Request, base : Extracts, awaited : BOOLEAN]

\* Every variable keeps its shape, a sheet has had as many writes as its
\* revision says, and a tab holds a command exactly while it is not idle.
TypeOK ==
    /\ sheet \in [Characters -> Sheet]
    /\ \A c \in Characters : Len(sheet[c].content) = sheet[c].revision
    /\ receipts \in [CommandIds -> Request \cup {None}]
    /\ \A k \in CommandIds : receipts[k] # None => receipts[k].id = k
    /\ requests \subseteq Envelope
    /\ \A r \in responses :
          /\ r.tab \in Tabs
          /\ \/ r.kind \in {"fresh", "replayed"} /\ r.receipt \in Request /\ r.at \in Extracts
             \/ r.kind \in Rejections
    /\ shown \in [Tabs -> [Characters -> Sheet]]
    /\ stage \in [Tabs -> {"idle", "waiting", "retry", "refetching"}]
    /\ request \in [Tabs -> Held \cup {None}]
    /\ \A t \in Tabs : request[t] \in IF stage[t] = "idle" THEN {None} ELSE Held
    /\ loaded \in [Tabs -> Extracts]
    /\ spent \in [commands : 0..MaxCommands, losses : 0..MaxLosses, denials : 0..MaxDenials]
    /\ accepted \subseteq Request /\ refused \subseteq Refusal

\* Req was executed on every sheet it is about.
Executed(req) ==
    \A c \in Participants(req) : \E i \in DOMAIN sheet[c].content : sheet[c].content[i] = req

\* A tab that was told "done" was told the truth: a receipt never answers for
\* another body sent under the same command_id.
AcceptedMeansExecuted == \A req \in accepted : Executed(req)

Unexecuted(req) ==
    \A c \in Participants(req) : \A i \in DOMAIN sheet[c].content : sheet[c].content[i] # req

\* A command that the ledger refused (409) and the tab dropped can be forgotten: no
\* earlier copy of it, still under way, commits later, and none had committed
\* before.  It says nothing of a 4xx the ledger did not give.
RefusedMeansNever ==
    \A refusal \in refused : refusal.by = "rejected" => Unexecuted(refusal.body)

\* acceptedRuntimeCommandReceipt and currentRuntimeCommandCharacters throw on a
\* receipt of another command and on a refetched sheet older than the receipt;
\* this server never makes them.
ReceiptChecksNeverFail ==
    /\ \A r \in responses : r.kind \notin Rejections => r.receipt = request[r.tab].body
    /\ \A r \in responses : r.kind = "fresh" =>
          \A c \in Participants(r.receipt) : r.at[c].revision = r.receipt.expected[c] + 1
    /\ \A t \in Tabs, c \in Characters : loaded[t][c] # None =>
          loaded[t][c].revision > request[t].body.expected[c]

\* S was read of the sheet that is now: it is that sheet or an older one, and
\* at the same revision says the same, but for a link cleared since.
IsCopyOf(s, now) ==
    /\ s \in Sheet
    /\ s.revision <= now.revision
    /\ s.revision = now.revision => s.content = now.content /\ (now.linked => s.linked)

\* Base holds the sheets that req was computed from; now, those there are.
IsBaseOf(base, req, now) ==
    \A c \in Participants(req) :
        /\ IsCopyOf(base[c], now[c])
        /\ base[c].revision = req.expected[c]
        /\ ~base[c].linked

\* Screens, commands and answers hold copies of sheets.
CopiesAreOld ==
    /\ \A t \in Tabs, c \in Characters : IsCopyOf(shown[t][c], sheet[c])
    /\ \A t \in Tabs : stage[t] # "idle" => IsBaseOf(request[t].base, request[t].body, sheet)
    /\ \A m \in requests : IsBaseOf(m.base, m.request, sheet)
    /\ \A r \in responses : r.kind \notin Rejections =>
          \A c \in Participants(r.receipt) : IsCopyOf(r.at[c], sheet[c])

\* The ledger and the sheets tell the same story.
LedgerMatchesSheets ==
    /\ \A k \in CommandIds : receipts[k] # None =>
          \A c \in Participants(receipts[k]) :
              /\ receipts[k].expected[c] < sheet[c].revision
              /\ \E i \in DOMAIN sheet[c].content : sheet[c].content[i] = receipts[k]
    /\ \A c \in Characters : \A i \in DOMAIN sheet[c].content :
          sheet[c].content[i] # None =>
              receipts[sheet[c].content[i].id] = sheet[c].content[i]

IsCommitted(req, ledger) == ledger[req.id] = req

\* Req has not been committed and never will be.
IsHopeless(req, ledger, now) ==
    /\ ~IsCommitted(req, ledger)
    /\ \/ ledger[req.id] # None
       \/ \E c \in Participants(req) : req.expected[c] < now[c].revision

\* A waiting tab has one exchange open, in one place, about its command, and
\* what the server has answered is true.
ExchangesAreTrue ==
    /\ \A m \in requests : m.awaited =>
          /\ stage[m.tab] = "waiting"
          /\ m.request = request[m.tab].body
    /\ \A r \in responses :
          /\ stage[r.tab] = "waiting"
          /\ r.kind = "rejected" => IsHopeless(request[r.tab].body, receipts, sheet)
          /\ r.kind \notin Rejections =>
                IsCommitted(r.receipt, receipts) /\ r.receipt = request[r.tab].body
          /\ r.kind = "fresh" => \A c \in Participants(r.receipt) :
                                    r.at[c].revision = r.receipt.expected[c] + 1
    /\ \A m, n \in requests : m.awaited /\ n.awaited /\ m.tab = n.tab => m = n
    /\ \A r, q \in responses : r.tab = q.tab => r = q
    /\ \A m \in requests, r \in responses : m.awaited => m.tab # r.tab

\* A refetch is about a committed command and brings nothing older than the
\* server had when it replayed the receipt.
RefetchesAreCurrent ==
    \A t \in Tabs :
        IF stage[t] = "refetching"
        THEN /\ IsCommitted(request[t].body, receipts)
             /\ \A c \in Participants(request[t].body) :
                   IsCopyOf(request[t].floor[c], sheet[c])
             /\ \A c \in Characters : loaded[t][c] # None =>
                   /\ c \in Participants(request[t].body)
                   /\ IsCopyOf(loaded[t][c], sheet[c])
                   /\ request[t].floor[c].revision <= loaded[t][c].revision
                   /\ request[t].body.expected[c] < loaded[t][c].revision
        ELSE loaded[t] = NoSheets

\* What the ledger has told tabs stays true.
AnswersStayTrue ==
    /\ \A req \in accepted : IsCommitted(req, receipts)
    /\ \A refusal \in refused :
          refusal.by = "rejected" => IsHopeless(refusal.body, receipts, sheet)

\* The inductive invariant.
CommandInv ==
    /\ TypeOK
    /\ CopiesAreOld
    /\ LedgerMatchesSheets
    /\ ExchangesAreTrue
    /\ RefetchesAreCurrent
    /\ AnswersStayTrue

\* No write is lost: a command commits only on the very sheets the user saw
\* when it was computed, however long it was under way.
CommitsOnWhatWasSeen ==
    [][\A m \in requests : Commit(m) =>
          \A c \in Participants(m.request) : sheet[c].content = m.base[c].content]_vars

\* A replayed receipt never puts on the screen a sheet older than the server
\* had when it replayed it, whatever was committed after the command.
ReplayShowsCurrent ==
    [][\A t \in Tabs : FinishRefetch(t) =>
          \A c \in Participants(request[t].body) :
              shown'[t][c].revision >= request[t].floor[c].revision]_vars

\* The server's part implements the abstract ledger.
Ledger == INSTANCE RuntimeLedger WITH
    content <- [c \in Characters |-> sheet[c].content],
    done <- {receipts[k] : k \in CommandIds} \ {None}

\* Commands are atomic over their sheets, happen at most once, and only on the
\* sheets they were computed from.
ImplementsLedger == Ledger!Spec

\* A companion command does not stay open: it ends done or dropped.
CompanionCommandsAreSettled ==
    \A t \in Companion : stage[t] # "idle" ~> stage[t] = "idle"

\* What sheetCompanionInteraction.ts says of a definitive rejection, and the
\* combat panel's message of its button, for combat commands: they end too.
CombatCommandsAreSettled ==
    \A t \in Tabs \ Companion : stage[t] # "idle" ~> stage[t] = "idle"
=============================================================================
