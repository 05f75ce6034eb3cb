------------------------ MODULE RuntimeCommandProofs ------------------------
(***************************************************************************)
(* Proofs about RuntimeCommand, for any tabs, characters, command ids and  *)
(* payloads and any bounds.                                                *)
(*                                                                         *)
(* CommandInv is inductive.  Every step leaves on the server only later    *)
(* sheets and more receipts (ServerMoves); copies stay old copies, what is *)
(* committed stays committed and what is hopeless stays hopeless.          *)
(***************************************************************************)
EXTENDS RuntimeCommand, TLAPS

------------------------------------------------------------------------------
(* Requests, sheets and copies *)

LEMMA RequestType ==
    ASSUME NEW req \in Request
    PROVE  /\ req.id \in CommandIds /\ req # None
           /\ Participants(req) \subseteq Characters
           /\ \A c \in Participants(req) : req.expected[c] \in Nat /\ req.expected[c] < MaxRevision
  BY CommandAssumption DEF Request, Groups, Participants

\* One more write of a sheet: the revision and the content grow by one.
LEMMA WrittenSheet ==
    ASSUME NEW s \in Sheet, Len(s.content) = s.revision, s.revision < MaxRevision,
           NEW writer \in Request \cup {None}
    PROVE  LET w == Written(s, writer)
           IN  /\ w \in Sheet
               /\ Len(w.content) = w.revision
               /\ w.revision = s.revision + 1
               /\ w.content = Append(s.content, writer)
               /\ w.linked = s.linked
  <1>1. /\ s.revision \in 0..MaxRevision /\ s.linked \in BOOLEAN
        /\ s.content \in Seq(Request \cup {None})
    BY DEF Sheet
  <1>2. /\ Append(s.content, writer) \in Seq(Request \cup {None})
        /\ Len(Append(s.content, writer)) = Len(s.content) + 1
        /\ s.revision + 1 \in 0..MaxRevision
    BY <1>1, CommandAssumption
  <1>3. ASSUME NEW n \in 0..MaxRevision, NEW q \in Seq(Request \cup {None})
        PROVE  LET w == [s EXCEPT !.revision = n, !.content = q]
               IN  w \in Sheet /\ w.revision = n /\ w.content = q /\ w.linked = s.linked
    BY DEF Sheet
  <1>4. LET w == Written(s, writer)
        IN  /\ w \in Sheet /\ w.revision = s.revision + 1
            /\ w.content = Append(s.content, writer) /\ w.linked = s.linked
    BY <1>2, <1>3, Zenon DEF Written
  <1> QED
    BY <1>2, <1>4

\* What Append does, at each place.
LEMMA AppendAt ==
    ASSUME NEW seq \in Seq(Request \cup {None}), NEW x \in Request \cup {None}
    PROVE  /\ \A i \in DOMAIN seq : i \in DOMAIN Append(seq, x) /\ Append(seq, x)[i] = seq[i]
           /\ \E i \in DOMAIN Append(seq, x) : Append(seq, x)[i] = x
           /\ \A i \in DOMAIN Append(seq, x) : i \in DOMAIN seq \/ Append(seq, x)[i] = x
  <1>1. Len(seq) + 1 \in DOMAIN Append(seq, x)
    OBVIOUS
  <1>2. Append(seq, x)[Len(seq) + 1] = x
    OBVIOUS
  <1>3. \A i \in DOMAIN seq : i \in DOMAIN Append(seq, x) /\ Append(seq, x)[i] = seq[i]
    OBVIOUS
  <1>4. \A i \in DOMAIN Append(seq, x) : i \in DOMAIN seq \/ i = Len(seq) + 1
    OBVIOUS
  <1> QED
    BY <1>1, <1>2, <1>3, <1>4

LEMMA CopyOfItself ==
    ASSUME NEW s \in Sheet
    PROVE  IsCopyOf(s, s)
  BY DEF IsCopyOf, Sheet

LEMMA CopyLater ==
    ASSUME NEW s, NEW a \in Sheet, NEW b \in Sheet, IsCopyOf(s, a), IsCopyOf(a, b)
    PROVE  IsCopyOf(s, b)
  BY DEF IsCopyOf, Sheet

LEMMA ExtractType ==
    ASSUME NEW sheets \in [Characters -> Sheet], NEW group
    PROVE  Extract(sheets, group) \in Extracts
  BY DEF Extract, Extracts

\* The requests of a tab that has stopped waiting are the same but for that.
LEMMA AbandonedRequests ==
    ASSUME requests \subseteq Envelope, NEW t
    PROVE  /\ Abandoned(t) \subseteq Envelope
           /\ \A n \in Abandoned(t) : \E m \in requests :
                 /\ n.tab = m.tab /\ n.request = m.request /\ n.base = m.base
                 /\ n.awaited => n = m /\ n.tab # t
  <1> SUFFICES ASSUME NEW m \in requests,
                      NEW n, n = IF m.tab = t THEN [m EXCEPT !.awaited = FALSE] ELSE m
               PROVE  /\ n \in Envelope
                      /\ n.tab = m.tab /\ n.request = m.request /\ n.base = m.base
                      /\ n.awaited => n = m /\ n.tab # t
    BY DEF Abandoned
  <1> QED
    BY DEF Envelope

------------------------------------------------------------------------------
(* Type correctness *)

LEMMA TypeInit == Init => TypeOK
  <1> SUFFICES ASSUME Init PROVE TypeOK
    OBVIOUS
  <1>1. NewSheet \in Sheet /\ Len(NewSheet.content) = NewSheet.revision
    BY CommandAssumption DEF NewSheet, Sheet
  <1>2. NoSheets \in Extracts
    BY DEF NoSheets, Extracts
  <1>3. spent \in [commands : 0..MaxCommands, losses : 0..MaxLosses, denials : 0..MaxDenials]
    BY CommandAssumption DEF Init
  <1> QED
    BY <1>1, <1>2, <1>3 DEF Init, TypeOK

\* A waiting tab's answer names the tab's own command, which it still holds.
LEMMA TypeNext ==
    ASSUME TypeOK, CopiesAreOld, ExchangesAreTrue, [Next]_vars
    PROVE  TypeOK'
  <1> USE DEF TypeOK
  <1>0. \A m \in requests : m.tab \in Tabs /\ m.request \in Request
    BY DEF Envelope
  <1>1. ASSUME NEW c \in Characters, OtherWrite(c) PROVE TypeOK'
    <2>1. Written(sheet[c], None) \in Sheet
      BY <1>1, WrittenSheet DEF OtherWrite
    <2>2. Len(Written(sheet[c], None).content) = Written(sheet[c], None).revision
      BY <1>1, WrittenSheet DEF OtherWrite
    <2> QED
      BY <1>1, <2>1, <2>2 DEF OtherWrite, tabVars
  <1>2. ASSUME NEW c \in Characters, Link(c) PROVE TypeOK'
    <2>1. /\ Written(sheet[c], None) \in Sheet
          /\ Len(Written(sheet[c], None).content) = Written(sheet[c], None).revision
      BY <1>2, WrittenSheet DEF Link
    <2>2. /\ LinkedSheet(sheet[c]) \in Sheet
          /\ Len(LinkedSheet(sheet[c]).content) = LinkedSheet(sheet[c]).revision
      BY <2>1 DEF LinkedSheet, Sheet
    <2> QED
      BY <1>2, <2>2 DEF Link, tabVars
  <1>3. ASSUME NEW c \in Characters, Unlink(c) PROVE TypeOK'
    <2>1. /\ [sheet[c] EXCEPT !.linked = FALSE] \in Sheet
          /\ [sheet[c] EXCEPT !.linked = FALSE].content = sheet[c].content
          /\ [sheet[c] EXCEPT !.linked = FALSE].revision = sheet[c].revision
      BY DEF Sheet
    <2> QED
      BY <1>3, <2>1 DEF Unlink, tabVars
  <1>4. ASSUME NEW m \in requests, Replay(m) PROVE TypeOK'
    <2>1. receipts[m.request.id] \in Request
      BY <1>0, <1>4, RequestType DEF Replay, HasReceipt
    <2>2. Extract(sheet, Participants(m.request)) \in Extracts
      BY ExtractType
    <2> QED
      BY <1>0, <1>4, <2>1, <2>2 DEF Replay, Answer, serverVars, tabVars
  <1>5. ASSUME NEW m \in requests, Commit(m) PROVE TypeOK'
    <2>1. m.request \in Request /\ m.request.id \in CommandIds
      BY <1>0, RequestType
    <2>2. ASSUME NEW c \in Participants(m.request)
          PROVE  /\ Written(sheet[c], m.request) \in Sheet
                 /\ Len(Written(sheet[c], m.request).content)
                      = Written(sheet[c], m.request).revision
      <3>1. /\ c \in Characters
            /\ m.request.expected[c] < MaxRevision
        BY <2>1, <2>2, RequestType
      <3>2. sheet[c].revision = m.request.expected[c]
        BY <1>5, <2>2 DEF Commit, IsCommittable, IsUnchangedSince
      <3>3. sheet[c] \in Sheet /\ Len(sheet[c].content) = sheet[c].revision
        BY <3>1
      <3>4. sheet[c].revision < MaxRevision
        BY <3>1, <3>2
      <3> QED
        BY <2>1, <3>3, <3>4, WrittenSheet
    <2>3. /\ sheet' \in [Characters -> Sheet]
          /\ \A c \in Characters : Len(sheet'[c].content) = sheet'[c].revision
      BY <1>5, <2>2 DEF Commit, Postimage
    <2>4. Extract(sheet', Participants(m.request)) \in Extracts
      BY <2>3, ExtractType
    <2> QED
      BY <1>0, <1>5, <2>1, <2>3, <2>4 DEF Commit, Answer, tabVars
  <1>6. ASSUME NEW m \in requests, Reject(m) PROVE TypeOK'
    BY <1>0, <1>6 DEF Reject, Answer, Rejections, serverVars, tabVars
  <1>7. ASSUME NEW m \in requests, LoseRequest(m) PROVE TypeOK'
    BY <1>7 DEF LoseRequest, serverVars, tabVars
  <1>22. ASSUME Denies
         PROVE  spent' \in [commands : 0..MaxCommands, losses : 0..MaxLosses, denials : 0..MaxDenials]
    BY <1>22, CommandAssumption DEF Denies
  <1>23. ASSUME NEW m \in requests, Deny(m) PROVE TypeOK'
    <2>1. spent' \in [commands : 0..MaxCommands, losses : 0..MaxLosses, denials : 0..MaxDenials]
      BY <1>22, <1>23 DEF Deny
    <2> QED
      BY <1>0, <1>23, <2>1 DEF Deny, Answer, Rejections, serverVars, tabVars
  \* The body, and so the group of sheets, of the command a tab waits for.
  <1>8. ASSUME NEW r \in responses
        PROVE  r.tab \in Tabs /\ request[r.tab] \in Held /\ request[r.tab].body \in Request
    BY DEF ExchangesAreTrue, Held
  <1>9. ASSUME NEW r \in responses, OnFresh(r) PROVE TypeOK'
    <2>1. ASSUME NEW c \in Participants(request[r.tab].body)
          PROVE  r.at[c] \in Sheet
      <3>1. r.kind \notin Rejections /\ r.receipt = request[r.tab].body
        BY <1>9 DEF OnFresh, ExchangesAreTrue, Rejections
      <3> QED
        BY <2>1, <3>1 DEF CopiesAreOld, IsCopyOf
    <2> QED
      BY <1>8, <1>9, <2>1 DEF OnFresh, Took, serverVars
  <1>10. ASSUME NEW r \in responses, OnReplayed(r) PROVE TypeOK'
    <2>1. r.at \in Extracts
      BY <1>10 DEF OnReplayed, Rejections
    <2>2. [request[r.tab] EXCEPT !.floor = r.at] \in Held
      BY <1>8, <2>1 DEF Held
    <2>3. /\ request' = [request EXCEPT ![r.tab] = [request[r.tab] EXCEPT !.floor = r.at]]
          /\ stage' = [stage EXCEPT ![r.tab] = "refetching"]
          /\ accepted' = accepted \cup {request[r.tab].body}
          /\ responses' = responses \ {r}
          /\ UNCHANGED <<sheet, receipts, requests, shown, loaded, spent, refused>>
      BY <1>10, Zenon DEF OnReplayed, Took, serverVars
    <2> QED
      BY <1>8, <2>2, <2>3
  \* A tab drops its command, or keeps it.
  <1>24. ASSUME NEW t \in Tabs, request[t].body \in Request, NEW answer \in Rejections,
                Dropped(t, answer)
         PROVE  /\ shown' \in [Tabs -> [Characters -> Sheet]]
                /\ stage' \in [Tabs -> {"idle", "waiting", "retry", "refetching"}]
                /\ request' \in [Tabs -> Held \cup {None}]
                /\ \A u \in Tabs : request'[u] \in IF stage'[u] = "idle" THEN {None} ELSE Held
                /\ loaded' \in [Tabs -> Extracts]
                /\ accepted' \subseteq Request /\ refused' \subseteq Refusal
    <2>1. NoSheets \in Extracts
      BY DEF NoSheets, Extracts
    <2>2. [body |-> request[t].body, by |-> answer] \in Refusal
      BY <1>24 DEF Refusal
    <2> QED
      BY <1>24, <2>1, <2>2 DEF Dropped
  <1>25. ASSUME NEW t \in Tabs, stage[t] # "idle", Kept(t)
         PROVE  /\ stage' \in [Tabs -> {"idle", "waiting", "retry", "refetching"}]
                /\ \A u \in Tabs : request'[u] \in IF stage'[u] = "idle" THEN {None} ELSE Held
                /\ loaded' \in [Tabs -> Extracts]
                /\ UNCHANGED <<shown, request, accepted, refused>>
    <2>1. NoSheets \in Extracts
      BY DEF NoSheets, Extracts
    <2> QED
      BY <1>25, <2>1 DEF Kept
  <1>11. ASSUME NEW r \in responses, OnRejectedDrop(r) PROVE TypeOK'
    BY <1>8, <1>11, <1>24 DEF OnRejectedDrop, Took, serverVars
  <1>12. ASSUME NEW r \in responses, OnRejectedKeep(r) PROVE TypeOK'
    BY <1>8, <1>12, <1>25 DEF OnRejectedKeep, Took, serverVars, ExchangesAreTrue
  <1>13. ASSUME NEW t \in Tabs, NEW k \in CommandIds, NEW p \in Payloads, NEW group \in Groups,
                Prepare(t, k, p, group)
         PROVE  TypeOK'
    <2> DEFINE req == [id |-> k, payload |-> p,
                       expected |-> [c \in group |-> shown[t][c].revision]]
               base == Extract(shown[t], group)
    <2>1. req \in Request
      <3>1. \A c \in group : shown[t][c].revision \in 0..(MaxRevision - 1)
        BY <1>13, CommandAssumption DEF Prepare, Groups, Sheet
      <3> QED
        BY <3>1 DEF Request
    <2>2. base \in Extracts /\ NoSheets \in Extracts
      BY ExtractType DEF NoSheets, Extracts
    <2>3. [body |-> req, base |-> base, floor |-> NoSheets] \in Held
      BY <2>1, <2>2 DEF Held
    <2>4. Message(t, req, base)
            \in Envelope
      BY <2>1, <2>2 DEF Message, Envelope
    <2>5. spent' \in [commands : 0..MaxCommands, losses : 0..MaxLosses, denials : 0..MaxDenials]
      BY <1>13, CommandAssumption DEF Prepare
    <2> QED
      BY <1>13, <2>3, <2>4, <2>5 DEF Prepare, serverVars
  <1>14. ASSUME Loses
         PROVE  spent' \in [commands : 0..MaxCommands, losses : 0..MaxLosses, denials : 0..MaxDenials]
    BY <1>14, CommandAssumption DEF Loses
  <1>15. ASSUME NEW t \in Tabs, GiveUp(t) PROVE TypeOK'
    <2>1. requests' \subseteq Envelope
      BY <1>15, AbandonedRequests DEF GiveUp
    <2>2. spent' \in [commands : 0..MaxCommands, losses : 0..MaxLosses, denials : 0..MaxDenials]
      BY <1>14, <1>15 DEF GiveUp
    <2>3. stage[t] # "idle" /\ Kept(t)
      BY <1>15 DEF GiveUp, IsLoading
    <2> QED
      BY <1>15, <1>25, <2>1, <2>2, <2>3 DEF GiveUp, serverVars
  <1>16. ASSUME NEW t \in Tabs, Retry(t) PROVE TypeOK'
    <2>1. Message(t, request[t].body, request[t].base)
            \in Envelope
      BY <1>16 DEF Retry, Message, Held, Envelope
    <2> QED
      BY <1>16, <2>1 DEF Retry, serverVars
  <1>17. ASSUME NEW t \in Tabs, FinishRefetch(t) PROVE TypeOK'
    <2>1. ASSUME NEW c \in Participants(request[t].body), c \in Characters
          PROVE  CurrentOf(t, c) \in Sheet
      BY <1>17, <2>1 DEF FinishRefetch, CurrentOf, Extracts
    <2>2. NoSheets \in Extracts
      BY DEF NoSheets, Extracts
    <2> QED
      BY <1>17, <2>1, <2>2 DEF FinishRefetch, serverVars
  <1>18. ASSUME NEW t \in Tabs, Reload(t) PROVE TypeOK'
    <2>1. NoSheets \in Extracts
      BY DEF NoSheets, Extracts
    <2>2. requests' \subseteq Envelope
      BY <1>18, AbandonedRequests DEF Reload
    <2>3. spent' \in [commands : 0..MaxCommands, losses : 0..MaxLosses, denials : 0..MaxDenials]
      BY <1>14, <1>18 DEF Reload
    <2> QED
      BY <1>18, <2>1, <2>2, <2>3 DEF Reload, serverVars
  <1>19. ASSUME NEW t \in Tabs, NEW c \in Characters, LoadCurrent(t, c) PROVE TypeOK'
    BY <1>19 DEF LoadCurrent, serverVars, Extracts
  <1>20. ASSUME NEW t \in Tabs, NEW c \in Characters, Refresh(t, c) PROVE TypeOK'
    BY <1>20 DEF Refresh, serverVars
  <1>26. ASSUME NEW t \in Tabs, RefetchDenied(t) PROVE TypeOK'
    <2>1. /\ spent' \in [commands : 0..MaxCommands, losses : 0..MaxLosses, denials : 0..MaxDenials]
          /\ UNCHANGED <<sheet, receipts, requests, responses>>
      BY <1>22, <1>26 DEF RefetchDenied, serverVars
    <2>2. stage[t] # "idle" /\ request[t].body \in Request
      BY <1>26 DEF RefetchDenied, IsLoading, Held
    <2>3. CASE Dropped(t, "denied")
      BY <1>24, <2>1, <2>2, <2>3 DEF Rejections
    <2>4. CASE Kept(t)
      BY <1>25, <2>1, <2>2, <2>4
    <2> QED
      BY <1>26, <2>3, <2>4 DEF RefetchDenied
  <1>21. CASE UNCHANGED vars
    BY <1>21 DEF vars
  <1> QED
    BY <1>1, <1>2, <1>3, <1>4, <1>5, <1>6, <1>7, <1>9, <1>10, <1>11, <1>12, <1>13,
       <1>15, <1>16, <1>17, <1>18, <1>19, <1>20, <1>21, <1>23, <1>26 DEF Next

------------------------------------------------------------------------------
(* What time does to the server's tables *)

\* Sheets only get later, a receipt never changes, and a receipt is written
\* only at the revisions its request expects.
ServerMoves ==
    /\ \A c \in Characters : IsCopyOf(sheet[c], sheet'[c])
    /\ \A k \in CommandIds : receipts'[k] # receipts[k] =>
          /\ receipts[k] = None
          /\ \A c \in Participants(receipts'[k]) : receipts'[k].expected[c] = sheet[c].revision

LEMMA ServerNext ==
    ASSUME TypeOK, [Next]_vars
    PROVE  ServerMoves
  <1>1. ASSUME NEW c \in Characters
        PROVE  sheet[c] \in Sheet /\ IsCopyOf(sheet[c], sheet[c])
    BY CopyOfItself DEF TypeOK
  \* A sheet with a higher revision is later.
  <1>2. ASSUME NEW s \in Sheet, NEW w, w.revision = s.revision + 1
        PROVE  IsCopyOf(s, w)
    BY <1>2 DEF IsCopyOf, Sheet
  <1>3. ASSUME NEW c \in Characters, OtherWrite(c) PROVE ServerMoves
    <2>1. IsCopyOf(sheet[c], Written(sheet[c], None))
      BY <1>1, <1>2, <1>3, WrittenSheet DEF OtherWrite, TypeOK
    <2> QED
      BY <1>1, <1>3, <2>1 DEF OtherWrite, ServerMoves, TypeOK
  <1>4. ASSUME NEW c \in Characters, Link(c) PROVE ServerMoves
    <2>1. /\ Written(sheet[c], None) \in Sheet
          /\ Written(sheet[c], None).revision = sheet[c].revision + 1
      BY <1>1, <1>4, WrittenSheet DEF Link, TypeOK
    <2>2. IsCopyOf(sheet[c], LinkedSheet(sheet[c]))
      <3>1. LinkedSheet(sheet[c]).revision = sheet[c].revision + 1
        BY <2>1 DEF LinkedSheet, Sheet
      <3> QED
        BY <1>1, <1>2, <3>1
    <2> QED
      BY <1>1, <1>4, <2>2 DEF Link, ServerMoves, TypeOK
  <1>5. ASSUME NEW c \in Characters, Unlink(c) PROVE ServerMoves
    <2>1. IsCopyOf(sheet[c], [sheet[c] EXCEPT !.linked = FALSE])
      BY <1>1 DEF IsCopyOf, Sheet
    <2>2. sheet' = [sheet EXCEPT ![c] = [sheet[c] EXCEPT !.linked = FALSE]] /\ receipts' = receipts
      BY <1>5, Zenon DEF Unlink
    <2> QED
      BY <1>1, <2>1, <2>2 DEF ServerMoves, TypeOK
  <1>6. ASSUME NEW m \in requests, Commit(m) PROVE ServerMoves
    <2>1. m.request \in Request /\ m.request.id \in CommandIds
      BY RequestType DEF TypeOK, Envelope
    <2>2. \A c \in Participants(m.request) : m.request.expected[c] = sheet[c].revision
      BY <1>6 DEF Commit, IsCommittable, IsUnchangedSince
    <2>3. ASSUME NEW c \in Characters PROVE IsCopyOf(sheet[c], sheet'[c])
      <3>1. CASE c \in Participants(m.request)
        <4>1. Written(sheet[c], m.request).revision = sheet[c].revision + 1
          BY <1>1, <2>1, <2>2, <3>1, RequestType, WrittenSheet DEF TypeOK
        <4> QED
          BY <1>1, <1>2, <1>6, <3>1, <4>1 DEF Commit, Postimage
      <3>2. CASE c \notin Participants(m.request)
        BY <1>1, <1>6, <3>2 DEF Commit, Postimage
      <3> QED
        BY <3>1, <3>2
    <2>4. /\ receipts[m.request.id] = None
          /\ receipts' = [receipts EXCEPT ![m.request.id] = m.request]
      BY <1>6 DEF Commit, HasReceipt
    <2> QED
      BY <2>1, <2>2, <2>3, <2>4 DEF ServerMoves, TypeOK
  <1>7. ASSUME UNCHANGED serverVars PROVE ServerMoves
    BY <1>1, <1>7 DEF serverVars, ServerMoves
  <1> QED
    BY <1>3, <1>4, <1>5, <1>6, <1>7
       DEF Next, Replay, Reject, Deny, LoseRequest, OnFresh, OnReplayed, OnRejectedDrop,
           OnRejectedKeep, Prepare, GiveUp, Retry, FinishRefetch, RefetchDenied, Reload,
           LoadCurrent, Refresh, vars, serverVars

LEMMA SheetsLater ==
    ASSUME TypeOK, TypeOK', ServerMoves, NEW c \in Characters
    PROVE  /\ sheet[c].revision \in Nat /\ sheet'[c].revision \in Nat
           /\ sheet[c].revision <= sheet'[c].revision
           /\ \A s : IsCopyOf(s, sheet[c]) => IsCopyOf(s, sheet'[c])
  <1>1. sheet[c] \in Sheet /\ sheet'[c] \in Sheet
    BY DEF TypeOK
  <1> QED
    BY <1>1, CopyLater DEF ServerMoves, IsCopyOf, Sheet

LEMMA BaseLater ==
    ASSUME TypeOK, TypeOK', ServerMoves, NEW base, NEW req \in Request,
           IsBaseOf(base, req, sheet)
    PROVE  IsBaseOf(base, req, sheet')
  BY RequestType, SheetsLater DEF IsBaseOf

LEMMA CommittedLater ==
    ASSUME ServerMoves, NEW req \in Request, IsCommitted(req, receipts)
    PROVE  IsCommitted(req, receipts')
  BY RequestType DEF IsCommitted, ServerMoves

\* A receipt written now expects the revisions of now, a hopeless request an
\* earlier one.
LEMMA HopelessLater ==
    ASSUME TypeOK, TypeOK', ServerMoves, NEW req \in Request,
           IsHopeless(req, receipts, sheet)
    PROVE  IsHopeless(req, receipts', sheet')
  <1>1. CASE receipts[req.id] # None
    BY <1>1, RequestType DEF IsHopeless, IsCommitted, ServerMoves
  <1>2. CASE receipts[req.id] = None
    <2>1. PICK c \in Participants(req) : req.expected[c] < sheet[c].revision
      BY <1>2 DEF IsHopeless
    <2>2. c \in Characters /\ req.expected[c] \in Nat
      BY <2>1, RequestType
    <2>3. req.expected[c] < sheet'[c].revision
      BY <2>1, <2>2, SheetsLater
    <2>4. req.expected[c] # sheet[c].revision
      BY <2>1, <2>2, SheetsLater
    <2>5. receipts'[req.id] # req
      BY <1>2, <2>1, <2>4, RequestType DEF ServerMoves
    <2> QED
      BY <2>1, <2>3, <2>5 DEF IsHopeless, IsCommitted
  <1> QED
    BY <1>1, <1>2

\* What the server rejects, it will never commit.
LEMMA RejectedIsHopeless ==
    ASSUME TypeOK, CopiesAreOld, NEW m \in requests, Reject(m)
    PROVE  IsHopeless(m.request, receipts, sheet)
  <1>1. m.request \in Request
    BY DEF TypeOK, Envelope
  <1>2. CASE HasReceipt(m.request)
    BY <1>2 DEF Reject, HasReceipt, IsSameRequest, IsHopeless, IsCommitted
  <1>3. CASE ~HasReceipt(m.request)
    <2>1. PICK c \in Participants(m.request) :
            sheet[c].linked \/ sheet[c].revision # m.request.expected[c]
      BY <1>3 DEF Reject, IsCommittable, IsUnchangedSince
    <2>2. c \in Characters /\ m.request.expected[c] \in Nat
      BY <1>1, RequestType
    <2>3. /\ IsCopyOf(m.base[c], sheet[c])
          /\ m.base[c].revision = m.request.expected[c]
          /\ ~m.base[c].linked
      BY DEF CopiesAreOld, IsBaseOf
    <2>4. m.request.expected[c] < sheet[c].revision
      BY <2>1, <2>2, <2>3 DEF IsCopyOf, TypeOK, Sheet
    <2> QED
      BY <1>1, <1>3, <2>4, RequestType DEF HasReceipt, IsHopeless, IsCommitted
  <1> QED
    BY <1>2, <1>3

------------------------------------------------------------------------------
(* Screens, commands and answers hold copies *)

LEMMA CopiesNext ==
    ASSUME CommandInv, TypeOK', ServerMoves, [Next]_vars
    PROVE  CopiesAreOld'
  <1> USE DEF CommandInv
  <1>1. \A t \in Tabs, c \in Characters : IsCopyOf(shown[t][c], sheet'[c])
    BY SheetsLater DEF CopiesAreOld
  <1>2. \A c \in Characters : sheet'[c] \in Sheet /\ IsCopyOf(sheet'[c], sheet'[c])
    BY CopyOfItself DEF TypeOK
  <1>3. \A t \in Tabs : stage[t] # "idle" =>
           request[t] \in Held /\ IsBaseOf(request[t].base, request[t].body, sheet')
    <2> SUFFICES ASSUME NEW t \in Tabs, stage[t] # "idle"
                 PROVE  request[t] \in Held /\ IsBaseOf(request[t].base, request[t].body, sheet')
      OBVIOUS
    <2>1. request[t] \in Held /\ request[t].body \in Request
      BY DEF TypeOK, Held
    <2> QED
      BY <2>1, BaseLater DEF CopiesAreOld
  <1>4. \A m \in requests : m.request \in Request /\ IsBaseOf(m.base, m.request, sheet')
    BY BaseLater DEF CopiesAreOld, TypeOK, Envelope
  <1>5. \A r \in responses : r.kind \notin Rejections =>
           \A c \in Participants(r.receipt) : IsCopyOf(r.at[c], sheet'[c])
    BY RequestType, SheetsLater DEF CopiesAreOld, TypeOK
  <1>6. ASSUME shown' = shown, \A t \in Tabs : stage'[t] # "idle" => stage[t] # "idle",
               \A t \in Tabs : stage'[t] # "idle" =>
                  request'[t].base = request[t].base /\ request'[t].body = request[t].body,
               requests' \subseteq requests, responses' \subseteq responses
        PROVE  CopiesAreOld'
    BY <1>1, <1>3, <1>4, <1>5, <1>6 DEF CopiesAreOld
  <1>7. ASSUME UNCHANGED tabVars, requests' \subseteq requests, responses' \subseteq responses
        PROVE  CopiesAreOld'
    BY <1>6, <1>7 DEF tabVars
  \* What an answer shows is the sheets as they are.
  <1>8. ASSUME NEW m \in requests, NEW kind, NEW at,
               Answer(m, kind, m.request, at),
               \A c \in Participants(m.request) : at[c] = sheet'[c]
        PROVE  CopiesAreOld'
    <2>1. \A r \in responses' : r \in responses
             \/ (r.receipt = m.request /\ r.at = at)
      <3> DEFINE new == [tab |-> m.tab, kind |-> kind, receipt |-> m.request, at |-> at]
      <3>1. responses' \subseteq responses \cup {new}
        BY <1>8 DEF Answer
      <3>2. new.receipt = m.request /\ new.at = at
        OBVIOUS
      <3> HIDE DEF new
      <3> QED
        BY <3>1, <3>2
    <2>2. \A c \in Participants(m.request) : c \in Characters
      BY <1>4, RequestType
    <2>3. \A r \in responses' : r.kind \notin Rejections =>
             \A c \in Participants(r.receipt) : IsCopyOf(r.at[c], sheet'[c])
      BY <1>2, <1>5, <1>8, <2>1, <2>2
    <2>4. UNCHANGED tabVars /\ requests' \subseteq requests
      BY <1>8 DEF Answer
    <2> QED
      BY <1>1, <1>3, <1>4, <2>3, <2>4 DEF CopiesAreOld, tabVars
  <1>9. ASSUME NEW m \in requests, Replay(m) PROVE CopiesAreOld'
    <2>1. Answer(m, "replayed", m.request, Extract(sheet, Participants(m.request)))
      BY <1>9 DEF Replay, IsSameRequest
    <2>2. \A c \in Participants(m.request) :
             Extract(sheet, Participants(m.request))[c] = sheet'[c]
      BY <1>4, <1>9, RequestType DEF Replay, Extract, serverVars
    <2> QED
      BY <1>8, <2>1, <2>2
  <1>10. ASSUME NEW m \in requests, Commit(m) PROVE CopiesAreOld'
    <2>1. Answer(m, "fresh", m.request, Extract(sheet', Participants(m.request)))
      BY <1>10 DEF Commit
    <2>2. \A c \in Participants(m.request) :
             Extract(sheet', Participants(m.request))[c] = sheet'[c]
      BY <1>4, RequestType DEF Extract
    <2> QED
      BY <1>8, <2>1, <2>2
  <1>11. ASSUME NEW m \in requests, Reject(m) PROVE CopiesAreOld'
    <2>1. \A r \in responses' : r.kind \notin Rejections => r \in responses
      BY <1>11 DEF Reject, Answer, Rejections
    <2>2. UNCHANGED tabVars /\ requests' \subseteq requests
      BY <1>11 DEF Reject, Answer
    <2> QED
      BY <1>1, <1>3, <1>4, <1>5, <2>1, <2>2 DEF CopiesAreOld, tabVars
  <1>26. ASSUME NEW m \in requests, Deny(m) PROVE CopiesAreOld'
    <2>1. \A r \in responses' : r.kind \notin Rejections => r \in responses
      BY <1>26 DEF Deny, Answer, Rejections
    <2>2. UNCHANGED tabVars /\ requests' \subseteq requests
      BY <1>26 DEF Deny, Answer
    <2> QED
      BY <1>1, <1>3, <1>4, <1>5, <2>1, <2>2 DEF CopiesAreOld, tabVars
  <1>12. ASSUME NEW r \in responses
         PROVE  r.tab \in Tabs /\ stage[r.tab] # "idle"
    BY DEF ExchangesAreTrue, TypeOK
  <1>13. ASSUME NEW r \in responses, OnFresh(r) PROVE CopiesAreOld'
    <2>1. r.kind \notin Rejections /\ r.receipt = request[r.tab].body
      BY <1>13 DEF OnFresh, ExchangesAreTrue, Rejections
    <2>2. \A t \in Tabs, c \in Characters : IsCopyOf(shown'[t][c], sheet'[c])
      BY <1>1, <1>5, <1>12, <1>13, <2>1 DEF OnFresh, TypeOK
    <2>3. \A t \in Tabs : stage'[t] # "idle" =>
             stage[t] # "idle" /\ request'[t] = request[t]
      BY <1>12, <1>13 DEF OnFresh, TypeOK
    <2> QED
      BY <1>3, <1>4, <1>5, <1>13, <2>2, <2>3 DEF CopiesAreOld, OnFresh, Took
  <1>14. ASSUME NEW r \in responses, OnReplayed(r) PROVE CopiesAreOld'
    <2>1. /\ request' = [request EXCEPT ![r.tab] = [request[r.tab] EXCEPT !.floor = r.at]]
          /\ stage' = [stage EXCEPT ![r.tab] = "refetching"]
          /\ shown' = shown /\ requests' = requests /\ responses' \subseteq responses
      BY <1>14, Zenon DEF OnReplayed, Took
    <2>2. request[r.tab] \in Held
      BY <1>12 DEF TypeOK
    <2>3. \A t \in Tabs : stage'[t] # "idle" =>
             /\ stage[t] # "idle"
             /\ request'[t].base = request[t].base /\ request'[t].body = request[t].body
      BY <1>12, <2>1, <2>2 DEF TypeOK, Held
    <2> QED
      BY <1>6, <2>1, <2>3
  \* A tab drops its command, or keeps it.
  <1>27. ASSUME NEW t \in Tabs, NEW answer, Dropped(t, answer), sheet' = sheet,
                requests' = requests, responses' \subseteq responses
         PROVE  CopiesAreOld'
    <2>1. PICK listed \in {sheet, shown[t]} : shown' = [shown EXCEPT ![t] = listed]
      BY <1>27 DEF Dropped
    <2>2. \A u \in Tabs, c \in Characters : IsCopyOf(shown'[u][c], sheet'[c])
      BY <1>1, <1>2, <1>27, <2>1 DEF TypeOK
    <2>3. \A u \in Tabs : stage'[u] # "idle" =>
             stage[u] # "idle" /\ request'[u] = request[u]
      BY <1>27 DEF Dropped, TypeOK
    <2> QED
      BY <1>3, <1>4, <1>5, <1>27, <2>2, <2>3 DEF CopiesAreOld
  <1>28. ASSUME NEW t \in Tabs, stage[t] # "idle", Kept(t)
         PROVE  /\ UNCHANGED <<shown, request>>
                /\ \A u \in Tabs : stage'[u] # "idle" => stage[u] # "idle"
    BY <1>28 DEF Kept, TypeOK
  <1>15. ASSUME NEW r \in responses, OnRejectedDrop(r) PROVE CopiesAreOld'
    BY <1>12, <1>15, <1>27 DEF OnRejectedDrop, Took, serverVars
  <1>16. ASSUME NEW r \in responses, OnRejectedKeep(r) PROVE CopiesAreOld'
    BY <1>6, <1>12, <1>16, <1>28 DEF OnRejectedKeep, Took
  <1>29. ASSUME NEW t \in Tabs, RefetchDenied(t) PROVE CopiesAreOld'
    BY <1>6, <1>27, <1>28, <1>29 DEF RefetchDenied, IsLoading, serverVars
  <1>17. ASSUME NEW t \in Tabs, NEW k \in CommandIds, NEW p \in Payloads, NEW group \in Groups,
                Prepare(t, k, p, group)
         PROVE  CopiesAreOld'
    <2> DEFINE req == [id |-> k, payload |-> p,
                       expected |-> [c \in group |-> shown[t][c].revision]]
               base == Extract(shown[t], group)
    <2>1. group \subseteq Characters /\ Participants(req) = group
      BY DEF Groups, Participants
    <2>2. IsBaseOf(base, req, sheet')
      BY <1>1, <1>17, <2>1 DEF IsBaseOf, Prepare, Extract
    <2>3. /\ shown' = shown /\ responses' = responses
          /\ requests' = requests \cup {Message(t, req, base)}
          /\ request' = [request EXCEPT ![t] = [body |-> req, base |-> base, floor |-> NoSheets]]
          /\ stage' = [stage EXCEPT ![t] = "waiting"]
      BY <1>17 DEF Prepare
    <2>4. \A m \in requests' : IsBaseOf(m.base, m.request, sheet')
      BY <1>4, <2>2, <2>3 DEF Message
    <2>5. ASSUME NEW u \in Tabs, stage'[u] # "idle"
          PROVE  IsBaseOf(request'[u].base, request'[u].body, sheet')
      BY <1>3, <2>2, <2>3, <2>5 DEF TypeOK
    <2> QED
      BY <1>1, <1>5, <2>3, <2>4, <2>5 DEF CopiesAreOld
  <1>18. ASSUME NEW t \in Tabs, requests' = Abandoned(t)
         PROVE  \A m \in requests' : IsBaseOf(m.base, m.request, sheet')
    BY <1>4, <1>18, AbandonedRequests DEF TypeOK
  <1>19. ASSUME NEW t \in Tabs, GiveUp(t) PROVE CopiesAreOld'
    <2>1. /\ UNCHANGED <<shown, request>>
          /\ \A u \in Tabs : stage'[u] # "idle" => stage[u] # "idle"
      BY <1>19, <1>28 DEF GiveUp, IsLoading
    <2> QED
      BY <1>1, <1>3, <1>5, <1>18, <1>19, <2>1 DEF GiveUp, CopiesAreOld
  <1>20. ASSUME NEW t \in Tabs, Retry(t) PROVE CopiesAreOld'
    <2>1. \A u \in Tabs : stage'[u] # "idle" => stage[u] # "idle"
      BY <1>20 DEF Retry, TypeOK
    <2>2. IsBaseOf(request[t].base, request[t].body, sheet')
      BY <1>3, <1>20 DEF Retry
    <2>3. requests' = requests \cup {Message(t, request[t].body, request[t].base)}
      BY <1>20 DEF Retry
    <2>4. \A m \in requests' : IsBaseOf(m.base, m.request, sheet')
      BY <1>4, <2>2, <2>3 DEF Message
    <2> QED
      BY <1>1, <1>3, <1>5, <1>20, <2>1, <2>4 DEF Retry, CopiesAreOld
  <1>21. ASSUME NEW t \in Tabs, FinishRefetch(t) PROVE CopiesAreOld'
    <2>1. \A c \in Characters : c \in Participants(request[t].body) =>
             IsCopyOf(loaded[t][c], sheet'[c])
      BY <1>21, SheetsLater DEF FinishRefetch, RefetchesAreCurrent
    <2>2. \A u \in Tabs, c \in Characters : IsCopyOf(shown'[u][c], sheet'[c])
      BY <1>1, <1>21, <2>1 DEF FinishRefetch, CurrentOf, TypeOK
    <2>3. \A u \in Tabs : stage'[u] # "idle" =>
             stage[u] # "idle" /\ request'[u] = request[u]
      BY <1>21 DEF FinishRefetch, TypeOK
    <2> QED
      BY <1>3, <1>4, <1>5, <1>21, <2>2, <2>3 DEF CopiesAreOld, FinishRefetch
  <1>22. ASSUME NEW t \in Tabs, Reload(t) PROVE CopiesAreOld'
    <2>1. \A u \in Tabs, c \in Characters : IsCopyOf(shown'[u][c], sheet'[c])
      BY <1>1, <1>2, <1>22 DEF Reload, serverVars, TypeOK
    <2>2. \A u \in Tabs : stage'[u] # "idle" =>
             stage[u] # "idle" /\ request'[u] = request[u]
      BY <1>22 DEF Reload, TypeOK
    <2>3. \A m \in requests' : IsBaseOf(m.base, m.request, sheet')
      BY <1>18, <1>22 DEF Reload
    <2> QED
      BY <1>3, <1>5, <1>22, <2>1, <2>2, <2>3 DEF CopiesAreOld, Reload
  <1>23. ASSUME NEW t \in Tabs, NEW c \in Characters, LoadCurrent(t, c) PROVE CopiesAreOld'
    BY <1>6, <1>23 DEF LoadCurrent
  <1>24. ASSUME NEW t \in Tabs, NEW c \in Characters, Refresh(t, c) PROVE CopiesAreOld'
    <2>1. \A u \in Tabs, d \in Characters : IsCopyOf(shown'[u][d], sheet'[d])
      BY <1>1, <1>2, <1>24 DEF Refresh, serverVars, TypeOK
    <2> QED
      BY <1>3, <1>4, <1>5, <1>24, <2>1 DEF CopiesAreOld, Refresh
  <1>25. CASE UNCHANGED vars
    BY <1>6, <1>25 DEF vars
  <1> QED
    BY <1>7, <1>9, <1>10, <1>11, <1>13, <1>14, <1>15, <1>16, <1>17, <1>19, <1>20, <1>21,
       <1>22, <1>23, <1>24, <1>25, <1>26, <1>29
       DEF Next, OtherWrite, Link, Unlink, LoseRequest

------------------------------------------------------------------------------
(* The ledger and the sheets *)

LEMMA LedgerNext ==
    ASSUME TypeOK, TypeOK', ServerMoves, LedgerMatchesSheets, [Next]_vars
    PROVE  LedgerMatchesSheets'
  \* A write by anybody else.
  <1>1. ASSUME NEW d \in Characters, receipts' = receipts,
               \A c \in Characters : sheet'[c].content =
                  IF c = d THEN Append(sheet[c].content, None) ELSE sheet[c].content
        PROVE  LedgerMatchesSheets'
    <2>1. ASSUME NEW c \in Characters
          PROVE  /\ \A i \in DOMAIN sheet[c].content :
                       i \in DOMAIN sheet'[c].content /\ sheet'[c].content[i] = sheet[c].content[i]
                 /\ \A i \in DOMAIN sheet'[c].content :
                       i \in DOMAIN sheet[c].content \/ sheet'[c].content[i] = None
      <3>1. sheet[c].content \in Seq(Request \cup {None})
        BY DEF TypeOK, Sheet
      <3> DEFINE next == Append(sheet[c].content, None)
      <3>2. /\ \A i \in DOMAIN sheet[c].content : i \in DOMAIN next /\ next[i] = sheet[c].content[i]
            /\ \A i \in DOMAIN next : i \in DOMAIN sheet[c].content \/ next[i] = None
        BY <3>1, AppendAt
      <3>3. sheet'[c].content = IF c = d THEN next ELSE sheet[c].content
        BY <1>1
      <3> HIDE DEF next
      <3> QED
        BY <3>2, <3>3
    <2>2. ASSUME NEW k \in CommandIds, receipts[k] # None, NEW c \in Participants(receipts[k])
          PROVE  /\ receipts[k].expected[c] < sheet'[c].revision
                 /\ \E i \in DOMAIN sheet'[c].content : sheet'[c].content[i] = receipts[k]
      <3>1. receipts[k] \in Request /\ c \in Characters /\ receipts[k].expected[c] \in Nat
        BY <2>2, RequestType DEF TypeOK
      <3> QED
        BY <2>1, <2>2, <3>1, SheetsLater DEF LedgerMatchesSheets
    <2>3. ASSUME NEW c \in Characters, NEW i \in DOMAIN sheet'[c].content,
                 sheet'[c].content[i] # None
          PROVE  receipts[sheet'[c].content[i].id] = sheet'[c].content[i]
      BY <2>1, <2>3 DEF LedgerMatchesSheets
    <2> QED
      BY <1>1, <2>2, <2>3 DEF LedgerMatchesSheets
  <1>2. ASSUME receipts' = receipts, \A c \in Characters : sheet'[c].content = sheet[c].content
        PROVE  LedgerMatchesSheets'
    <2>1. ASSUME NEW k \in CommandIds, receipts[k] # None, NEW c \in Participants(receipts[k])
          PROVE  receipts[k].expected[c] < sheet'[c].revision
      <3>1. receipts[k] \in Request /\ c \in Characters /\ receipts[k].expected[c] \in Nat
        BY <2>1, RequestType DEF TypeOK
      <3> QED
        BY <2>1, <3>1, SheetsLater DEF LedgerMatchesSheets
    <2>2. \A k \in CommandIds : receipts[k] # None =>
             \A c \in Participants(receipts[k]) : c \in Characters
      BY RequestType DEF TypeOK
    <2> QED
      BY <1>2, <2>1, <2>2 DEF LedgerMatchesSheets
  <1>3. ASSUME NEW c \in Characters
        PROVE  /\ sheet[c] \in Sheet
               /\ Written(sheet[c], None).content = Append(sheet[c].content, None)
    BY DEF TypeOK, Sheet, Written
  <1>4. ASSUME NEW c \in Characters, OtherWrite(c) PROVE LedgerMatchesSheets'
    BY <1>1, <1>3, <1>4 DEF OtherWrite, TypeOK
  <1>5. ASSUME NEW c \in Characters, Link(c) PROVE LedgerMatchesSheets'
    <2>1. LinkedSheet(sheet[c]).content = Append(sheet[c].content, None)
      BY <1>3 DEF LinkedSheet, Written, Sheet
    <2> QED
      BY <1>1, <1>5, <2>1 DEF Link, TypeOK
  <1>6. ASSUME NEW c \in Characters, Unlink(c) PROVE LedgerMatchesSheets'
    <2>1. sheet' = [sheet EXCEPT ![c] = [sheet[c] EXCEPT !.linked = FALSE]] /\ receipts' = receipts
      BY <1>6, Zenon DEF Unlink
    <2>2. [sheet[c] EXCEPT !.linked = FALSE].content = sheet[c].content
      BY <1>3 DEF Sheet
    <2> QED
      BY <1>2, <2>1, <2>2 DEF TypeOK
  <1>7. ASSUME NEW m \in requests, Commit(m) PROVE LedgerMatchesSheets'
    <2> DEFINE req == m.request
    <2>1. req \in Request /\ req.id \in CommandIds /\ req # None
      BY RequestType DEF TypeOK, Envelope
    <2>2. receipts[req.id] = None /\ receipts' = [receipts EXCEPT ![req.id] = req]
      BY <1>7 DEF Commit, HasReceipt
    <2>3. ASSUME NEW c \in Participants(req)
          PROVE  /\ c \in Characters
                 /\ req.expected[c] < sheet'[c].revision
                 /\ sheet'[c].content = Append(sheet[c].content, req)
      <3>1. c \in Characters /\ req.expected[c] = sheet[c].revision /\ sheet[c].revision < MaxRevision
        BY <1>7, <2>1, RequestType DEF Commit, IsCommittable, IsUnchangedSince
      <3>2. sheet[c] \in Sheet /\ Len(sheet[c].content) = sheet[c].revision
        BY <3>1 DEF TypeOK
      <3>3. sheet'[c] = Written(sheet[c], req)
        BY <1>7, <3>1 DEF Commit, Postimage
      <3>4. /\ sheet'[c].revision = sheet[c].revision + 1
            /\ sheet'[c].content = Append(sheet[c].content, req)
        BY <2>1, <3>1, <3>2, <3>3, WrittenSheet
      <3> QED
        BY <3>1, <3>2, <3>4 DEF Sheet
    <2>4. ASSUME NEW c \in Characters
          PROVE  /\ \A i \in DOMAIN sheet[c].content :
                       i \in DOMAIN sheet'[c].content /\ sheet'[c].content[i] = sheet[c].content[i]
                 /\ \A i \in DOMAIN sheet'[c].content :
                       i \in DOMAIN sheet[c].content \/ sheet'[c].content[i] = req
                 /\ c \in Participants(req) =>
                       \E i \in DOMAIN sheet'[c].content : sheet'[c].content[i] = req
      <3>1. sheet[c].content \in Seq(Request \cup {None})
        BY DEF TypeOK, Sheet
      <3>2. CASE c \in Participants(req)
        <4> DEFINE next == Append(sheet[c].content, req)
        <4>1. /\ \A i \in DOMAIN sheet[c].content :
                    i \in DOMAIN next /\ next[i] = sheet[c].content[i]
              /\ \E i \in DOMAIN next : next[i] = req
              /\ \A i \in DOMAIN next : i \in DOMAIN sheet[c].content \/ next[i] = req
          BY <2>1, <3>1, AppendAt
        <4>2. sheet'[c].content = next
          BY <2>3, <3>2
        <4> HIDE DEF next
        <4> QED
          BY <4>1, <4>2
      <3>3. CASE c \notin Participants(req)
        <4>1. sheet'[c] = sheet[c]
          BY <1>7, <3>3 DEF Commit, Postimage
        <4> QED
          BY <3>3, <4>1
      <3> QED
        BY <3>2, <3>3
    <2>5. ASSUME NEW k \in CommandIds, receipts'[k] # None, NEW c \in Participants(receipts'[k])
          PROVE  /\ receipts'[k].expected[c] < sheet'[c].revision
                 /\ \E i \in DOMAIN sheet'[c].content : sheet'[c].content[i] = receipts'[k]
      <3>1. CASE k = req.id
        <4>1. receipts'[k] = req
          BY <2>1, <2>2, <3>1 DEF TypeOK
        <4>2. c \in Participants(req)
          BY <2>5, <4>1
        <4> QED
          BY <2>3, <2>4, <4>1, <4>2
      <3>2. CASE k # req.id
        <4>1. receipts'[k] = receipts[k] /\ receipts[k] \in Request
          BY <2>2, <2>5, <3>2 DEF TypeOK
        <4>2. c \in Characters /\ receipts[k].expected[c] \in Nat
          BY <2>5, <4>1, RequestType
        <4>3. /\ receipts[k].expected[c] < sheet[c].revision
              /\ \E i \in DOMAIN sheet[c].content : sheet[c].content[i] = receipts[k]
          BY <2>5, <4>1 DEF LedgerMatchesSheets
        <4>4. receipts[k].expected[c] < sheet'[c].revision
          BY <4>2, <4>3, SheetsLater
        <4> QED
          BY <2>4, <4>1, <4>2, <4>3, <4>4
      <3> QED
        BY <3>1, <3>2
    <2>6. ASSUME NEW c \in Characters, NEW i \in DOMAIN sheet'[c].content,
                 sheet'[c].content[i] # None
          PROVE  receipts'[sheet'[c].content[i].id] = sheet'[c].content[i]
      <3>1. CASE sheet'[c].content[i] = req
        BY <2>1, <2>2, <3>1 DEF TypeOK
      <3>2. CASE i \in DOMAIN sheet[c].content
        <4> DEFINE old == sheet[c].content[i]
        <4>1. sheet'[c].content[i] = old /\ receipts[old.id] = old /\ old # None
          BY <2>4, <2>6, <3>2 DEF LedgerMatchesSheets
        <4>2. old.id # req.id
          BY <2>2, <4>1
        <4>3. sheet[c].content \in Seq(Request \cup {None})
          BY DEF TypeOK, Sheet
        <4>4. old \in Request /\ old.id \in CommandIds
          BY <3>2, <4>1, <4>3, RequestType
        <4> QED
          BY <2>2, <4>1, <4>2, <4>4 DEF TypeOK
      <3> QED
        BY <2>4, <2>6, <3>1, <3>2
    <2> QED
      BY <2>5, <2>6 DEF LedgerMatchesSheets
  <1>8. ASSUME UNCHANGED serverVars PROVE LedgerMatchesSheets'
    BY <1>2, <1>8 DEF serverVars
  <1> QED
    BY <1>4, <1>5, <1>6, <1>7, <1>8
       DEF Next, Replay, Reject, Deny, LoseRequest, OnFresh, OnReplayed, OnRejectedDrop,
           OnRejectedKeep, Prepare, GiveUp, Retry, FinishRefetch, RefetchDenied, Reload,
           LoadCurrent, Refresh, vars, serverVars

------------------------------------------------------------------------------
(* Exchanges, refetches and what tabs were told *)

\* A tab's open exchange is one request or one answer.
OneExchange ==
    /\ \A m, n \in requests : m.awaited /\ n.awaited /\ m.tab = n.tab => m = n
    /\ \A r, q \in responses : r.tab = q.tab => r = q
    /\ \A m \in requests, r \in responses : m.awaited => m.tab # r.tab

AwaitedIsOwn(m) ==
    m.awaited => stage[m.tab] = "waiting" /\ m.request = request[m.tab].body

AnswerIsTrue(r) ==
    /\ stage[r.tab] = "waiting"
    /\ r.kind = "rejected" => IsHopeless(request[r.tab].body, receipts, sheet)
    /\ r.kind \notin Rejections =>
          IsCommitted(r.receipt, receipts) /\ r.receipt = request[r.tab].body
    /\ r.kind = "fresh" => \A c \in Participants(r.receipt) :
                              r.at[c].revision = r.receipt.expected[c] + 1

LEMMA ExchangesInParts ==
    /\ ExchangesAreTrue <=>
         /\ \A m \in requests : AwaitedIsOwn(m)
         /\ \A r \in responses : AnswerIsTrue(r)
         /\ OneExchange
    /\ ExchangesAreTrue' <=>
         /\ \A m \in requests' : AwaitedIsOwn(m)'
         /\ \A r \in responses' : AnswerIsTrue(r)'
         /\ OneExchange'
  BY DEF ExchangesAreTrue, AwaitedIsOwn, AnswerIsTrue, OneExchange

LEMMA ExchangesNext ==
    ASSUME CommandInv, TypeOK', ServerMoves, [Next]_vars
    PROVE  ExchangesAreTrue'
  <1> USE DEF CommandInv
  <1>1. /\ \A m \in requests : AwaitedIsOwn(m)
        /\ \A r \in responses : AnswerIsTrue(r)
        /\ OneExchange
    BY ExchangesInParts
  <1>2. /\ \A m \in requests : m.tab \in Tabs /\ m.request \in Request
        /\ \A r \in responses : r.tab \in Tabs
    BY DEF TypeOK, Envelope
  <1>3. ASSUME NEW r \in responses, stage'[r.tab] = stage[r.tab],
               request'[r.tab] = request[r.tab]
        PROVE  AnswerIsTrue(r)'
    <2>1. AnswerIsTrue(r)
      BY <1>1
    <2>2. request[r.tab].body \in Request
      BY <1>2, <2>1 DEF AnswerIsTrue, TypeOK, Held
    <2>3. r.kind = "rejected" => IsHopeless(request[r.tab].body, receipts', sheet')
      BY <2>1, <2>2, HopelessLater DEF AnswerIsTrue
    <2>4. r.kind \notin Rejections => IsCommitted(r.receipt, receipts')
      BY <2>1, <2>2, CommittedLater DEF AnswerIsTrue
    <2> QED
      BY <1>3, <2>1, <2>3, <2>4 DEF AnswerIsTrue
  \* Nothing new is sent or answered, and who waits still waits.
  <1>4. ASSUME requests' \subseteq requests, responses' \subseteq responses,
               \A m \in requests' : m.awaited =>
                  stage'[m.tab] = stage[m.tab] /\ request'[m.tab] = request[m.tab],
               \A r \in responses' :
                  stage'[r.tab] = stage[r.tab] /\ request'[r.tab] = request[r.tab]
        PROVE  ExchangesAreTrue'
    <2>1. \A m \in requests' : AwaitedIsOwn(m)'
      BY <1>1, <1>4 DEF AwaitedIsOwn
    <2>2. \A r \in responses' : AnswerIsTrue(r)'
      BY <1>3, <1>4
    <2>3. OneExchange'
      BY <1>1, <1>4 DEF OneExchange
    <2> QED
      BY <2>1, <2>2, <2>3, ExchangesInParts
  <1>5. ASSUME UNCHANGED tabVars, requests' \subseteq requests, responses' \subseteq responses
        PROVE  ExchangesAreTrue'
    BY <1>4, <1>5 DEF tabVars
  \* The server answers.
  <1>6. ASSUME NEW m \in requests, NEW kind, NEW receipt, NEW at,
               Answer(m, kind, receipt, at),
               kind = "rejected" => IsHopeless(m.request, receipts', sheet'),
               kind \notin Rejections => IsCommitted(receipt, receipts') /\ receipt = m.request,
               kind = "fresh" => \A c \in Participants(receipt) :
                                    at[c].revision = receipt.expected[c] + 1
        PROVE  ExchangesAreTrue'
    <2> DEFINE new == [tab |-> m.tab, kind |-> kind, receipt |-> receipt, at |-> at]
    <2>1. /\ requests' = requests \ {m}
          /\ responses' = IF m.awaited THEN responses \cup {new} ELSE responses
          /\ stage' = stage /\ request' = request
      BY <1>6 DEF Answer, tabVars
    <2>2. new.tab = m.tab /\ new.kind = kind /\ new.receipt = receipt /\ new.at = at
      OBVIOUS
    <2> HIDE DEF new
    <2>3. \A n \in requests' : AwaitedIsOwn(n)'
      BY <1>1, <2>1 DEF AwaitedIsOwn
    <2>4. ASSUME m.awaited PROVE AnswerIsTrue(new)'
      <3>1. stage'[m.tab] = "waiting" /\ request'[m.tab].body = m.request
        BY <1>1, <2>1, <2>4 DEF AwaitedIsOwn
      <3> QED
        BY <1>6, <2>2, <3>1 DEF AnswerIsTrue
    <2>5. \A r \in responses' : AnswerIsTrue(r)'
      BY <1>3, <2>1, <2>4
    <2>6. OneExchange'
      BY <1>1, <2>1, <2>2 DEF OneExchange
    <2> QED
      BY <2>3, <2>5, <2>6, ExchangesInParts
  <1>7. ASSUME NEW m \in requests, Replay(m) PROVE ExchangesAreTrue'
    <2>1. /\ Answer(m, "replayed", m.request, Extract(sheet, Participants(m.request)))
          /\ IsCommitted(m.request, receipts')
      BY <1>7 DEF Replay, IsSameRequest, IsCommitted, serverVars
    <2> QED
      BY <1>6, <2>1
  <1>8. ASSUME NEW m \in requests, Commit(m) PROVE ExchangesAreTrue'
    <2> DEFINE at == Extract(sheet', Participants(m.request))
    <2>1. m.request.id \in CommandIds
      BY <1>2, RequestType
    <2>2. Answer(m, "fresh", m.request, at) /\ IsCommitted(m.request, receipts')
      BY <1>8, <2>1 DEF Commit, IsCommitted, TypeOK
    <2>3. ASSUME NEW c \in Participants(m.request)
          PROVE  at[c].revision = m.request.expected[c] + 1
      <3>1. /\ c \in Characters
            /\ m.request.expected[c] = sheet[c].revision /\ sheet[c].revision < MaxRevision
        BY <1>2, <1>8, RequestType DEF Commit, IsCommittable, IsUnchangedSince
      <3>2. sheet[c] \in Sheet /\ Len(sheet[c].content) = sheet[c].revision
        BY <3>1 DEF TypeOK
      <3>3. Written(sheet[c], m.request).revision = sheet[c].revision + 1
        BY <1>2, <3>1, <3>2, WrittenSheet
      <3>4. sheet'[c] = Written(sheet[c], m.request)
        BY <1>8, <3>1 DEF Commit, Postimage
      <3> QED
        BY <3>1, <3>3, <3>4 DEF Extract
    <2> HIDE DEF at
    <2> QED
      BY <1>6, <2>2, <2>3
  <1>9. ASSUME NEW m \in requests, Reject(m) PROVE ExchangesAreTrue'
    <2>1. IsHopeless(m.request, receipts', sheet')
      BY <1>9, RejectedIsHopeless DEF Reject, serverVars
    <2>2. Answer(m, "rejected", None, NoSheets)
      BY <1>9 DEF Reject
    <2> QED
      BY <1>6, <2>1, <2>2 DEF Rejections
  <1>24. ASSUME NEW m \in requests, Deny(m) PROVE ExchangesAreTrue'
    <2>1. Answer(m, "denied", None, NoSheets)
      BY <1>24 DEF Deny
    <2> QED
      BY <1>6, <2>1 DEF Rejections
  \* A tab takes its answer: its exchange is over.
  <1>10. ASSUME NEW r \in responses, requests' = requests, responses' = responses \ {r},
                \A t \in Tabs \ {r.tab} : stage'[t] = stage[t] /\ request'[t] = request[t]
         PROVE  ExchangesAreTrue'
    <2>1. \A m \in requests' : m.awaited => m.tab \in Tabs \ {r.tab}
      BY <1>1, <1>2, <1>10 DEF OneExchange
    <2>2. \A q \in responses' : q.tab \in Tabs \ {r.tab}
      BY <1>1, <1>2, <1>10 DEF OneExchange
    <2> QED
      BY <1>4, <1>10, <2>1, <2>2
  <1>11. ASSUME NEW r \in responses, OnFresh(r) PROVE ExchangesAreTrue'
    BY <1>10, <1>11 DEF OnFresh, Took, TypeOK
  <1>12. ASSUME NEW r \in responses, OnReplayed(r) PROVE ExchangesAreTrue'
    <2>1. /\ request' = [request EXCEPT ![r.tab] = [request[r.tab] EXCEPT !.floor = r.at]]
          /\ stage' = [stage EXCEPT ![r.tab] = "refetching"]
          /\ requests' = requests /\ responses' = responses \ {r}
      BY <1>12, Zenon DEF OnReplayed, Took
    <2> QED
      BY <1>10, <2>1 DEF TypeOK
  <1>13. ASSUME NEW r \in responses, OnRejectedDrop(r) PROVE ExchangesAreTrue'
    BY <1>10, <1>13 DEF OnRejectedDrop, Dropped, Took, TypeOK
  <1>14. ASSUME NEW r \in responses, OnRejectedKeep(r) PROVE ExchangesAreTrue'
    BY <1>10, <1>14 DEF OnRejectedKeep, Kept, Took, TypeOK
  \* A tab sends: it did not wait, so nothing was open.
  <1>15. ASSUME NEW t \in Tabs, stage[t] # "waiting", NEW req, NEW base,
                requests' = requests \cup {Message(t, req, base)}, responses' = responses,
                stage'[t] = "waiting", request'[t].body = req,
                \A u \in Tabs \ {t} : stage'[u] = stage[u] /\ request'[u] = request[u]
         PROVE  ExchangesAreTrue'
    <2> DEFINE new == Message(t, req, base)
    <2>1. new.tab = t /\ new.request = req /\ new.awaited
      BY DEF Message
    <2> HIDE DEF new
    <2>2. \A m \in requests : m.awaited => m.tab \in Tabs \ {t}
      BY <1>1, <1>2, <1>15 DEF AwaitedIsOwn
    <2>3. \A r \in responses : r.tab \in Tabs \ {t}
      BY <1>1, <1>2, <1>15 DEF AnswerIsTrue
    <2>4. requests' = requests \cup {new}
      BY <1>15 DEF new
    <2>5. \A m \in requests' : AwaitedIsOwn(m)'
      BY <1>1, <1>15, <2>1, <2>2, <2>4 DEF AwaitedIsOwn
    <2>6. \A r \in responses' : AnswerIsTrue(r)'
      BY <1>3, <1>15, <2>3
    <2>7. OneExchange'
      BY <1>1, <1>15, <2>1, <2>2, <2>3, <2>4 DEF OneExchange
    <2> QED
      BY <2>5, <2>6, <2>7, ExchangesInParts
  <1>16. ASSUME NEW t \in Tabs, NEW k \in CommandIds, NEW p \in Payloads, NEW group \in Groups,
                Prepare(t, k, p, group)
         PROVE  ExchangesAreTrue'
    <2> DEFINE req == [id |-> k, payload |-> p,
                       expected |-> [c \in group |-> shown[t][c].revision]]
               base == Extract(shown[t], group)
    <2>1. /\ stage[t] = "idle" /\ stage' = [stage EXCEPT ![t] = "waiting"]
          /\ request' = [request EXCEPT ![t] = [body |-> req, base |-> base, floor |-> NoSheets]]
          /\ requests' = requests \cup {Message(t, req, base)} /\ responses' = responses
      BY <1>16 DEF Prepare
    <2> HIDE DEF req, base
    <2>2. request'[t].body = req
      BY <2>1 DEF TypeOK
    <2> QED
      BY <1>15, <2>1, <2>2 DEF TypeOK
  <1>17. ASSUME NEW t \in Tabs, Retry(t) PROVE ExchangesAreTrue'
    BY <1>15, <1>17 DEF Retry, TypeOK
  \* A tab gives up: what it has sent is no longer awaited, its answer is lost.
  <1>18. ASSUME NEW t \in Tabs, requests' = Abandoned(t),
                responses' = {r \in responses : r.tab # t},
                \A u \in Tabs \ {t} : stage'[u] = stage[u] /\ request'[u] = request[u]
         PROVE  ExchangesAreTrue'
    <2>1. \A n \in requests' : n.awaited => n \in requests /\ n.tab \in Tabs \ {t}
      BY <1>2, <1>18, AbandonedRequests DEF TypeOK
    <2>2. \A r \in responses' : r \in responses /\ r.tab \in Tabs \ {t}
      BY <1>2, <1>18
    <2>3. \A m \in requests' : AwaitedIsOwn(m)'
      BY <1>1, <1>18, <2>1 DEF AwaitedIsOwn
    <2>4. \A r \in responses' : AnswerIsTrue(r)'
      BY <1>3, <1>18, <2>2
    <2>5. OneExchange'
      BY <1>1, <2>1, <2>2 DEF OneExchange
    <2> QED
      BY <2>3, <2>4, <2>5, ExchangesInParts
  <1>19. ASSUME NEW t \in Tabs, GiveUp(t) PROVE ExchangesAreTrue'
    BY <1>18, <1>19 DEF GiveUp, Kept, TypeOK
  <1>20. ASSUME NEW t \in Tabs, Reload(t) PROVE ExchangesAreTrue'
    BY <1>18, <1>20 DEF Reload, TypeOK
  \* A refetch ends, well or badly: it had nothing open with the ledger.
  <1>25. ASSUME NEW t \in Tabs, stage[t] = "refetching",
                requests' = requests, responses' = responses,
                \A u \in Tabs \ {t} : stage'[u] = stage[u] /\ request'[u] = request[u]
         PROVE  ExchangesAreTrue'
    <2>1. \A m \in requests : m.awaited => m.tab \in Tabs \ {t}
      BY <1>1, <1>2, <1>25 DEF AwaitedIsOwn
    <2>2. \A r \in responses : r.tab \in Tabs \ {t}
      BY <1>1, <1>2, <1>25 DEF AnswerIsTrue
    <2> QED
      BY <1>4, <1>25, <2>1, <2>2
  <1>21. ASSUME NEW t \in Tabs, FinishRefetch(t) PROVE ExchangesAreTrue'
    BY <1>21, <1>25 DEF FinishRefetch, TypeOK
  <1>26. ASSUME NEW t \in Tabs, RefetchDenied(t) PROVE ExchangesAreTrue'
    <2>1. \A u \in Tabs \ {t} : stage'[u] = stage[u] /\ request'[u] = request[u]
      BY <1>26 DEF RefetchDenied, Dropped, Kept, TypeOK
    <2> QED
      BY <1>25, <1>26, <2>1 DEF RefetchDenied, IsLoading
  <1>22. ASSUME NEW t \in Tabs, NEW c \in Characters, LoadCurrent(t, c) \/ Refresh(t, c)
         PROVE  ExchangesAreTrue'
    BY <1>4, <1>22 DEF LoadCurrent, Refresh
  <1>23. CASE UNCHANGED vars
    BY <1>4, <1>23 DEF vars
  <1> QED
    BY <1>5, <1>7, <1>8, <1>9, <1>11, <1>12, <1>13, <1>14, <1>16, <1>17, <1>19, <1>20,
       <1>21, <1>22, <1>23, <1>24, <1>26
       DEF Next, OtherWrite, Link, Unlink, LoseRequest

\* What RefetchesAreCurrent says of a tab that refetches.
RefetchIsCurrent(t) ==
    /\ IsCommitted(request[t].body, receipts)
    /\ \A c \in Participants(request[t].body) : IsCopyOf(request[t].floor[c], sheet[c])
    /\ \A c \in Characters : loaded[t][c] # None =>
          /\ c \in Participants(request[t].body)
          /\ IsCopyOf(loaded[t][c], sheet[c])
          /\ request[t].floor[c].revision <= loaded[t][c].revision
          /\ request[t].body.expected[c] < loaded[t][c].revision

LEMMA RefetchesNext ==
    ASSUME CommandInv, TypeOK', ServerMoves, [Next]_vars
    PROVE  RefetchesAreCurrent'
  <1> USE DEF CommandInv
  <1>1. /\ \A t \in Tabs : stage[t] = "refetching" => RefetchIsCurrent(t)
        /\ \A t \in Tabs : stage[t] # "refetching" => loaded[t] = NoSheets
    BY DEF RefetchesAreCurrent, RefetchIsCurrent
  <1>2. ASSUME \A t \in Tabs : stage'[t] = "refetching" => RefetchIsCurrent(t)',
               \A t \in Tabs : stage'[t] # "refetching" => loaded'[t] = NoSheets
        PROVE  RefetchesAreCurrent'
    BY <1>2 DEF RefetchesAreCurrent, RefetchIsCurrent
  \* A refetch goes on whatever the server does.
  <1>3. ASSUME NEW t \in Tabs, stage[t] = "refetching",
               request'[t] = request[t], loaded'[t] = loaded[t]
        PROVE  RefetchIsCurrent(t)'
    <2>1. RefetchIsCurrent(t) /\ request[t].body \in Request
      BY <1>1, <1>3 DEF TypeOK, Held
    <2>2. IsCommitted(request[t].body, receipts')
      BY <2>1, CommittedLater DEF RefetchIsCurrent
    <2>3. \A c \in Participants(request[t].body) : IsCopyOf(request[t].floor[c], sheet'[c])
      BY <2>1, RequestType, SheetsLater DEF RefetchIsCurrent
    <2> QED
      BY <1>3, <2>1, <2>2, <2>3, SheetsLater DEF RefetchIsCurrent
  \* Tabs that neither begin nor end a refetch.
  <1>4. ASSUME loaded' = loaded,
               \A t \in Tabs : stage'[t] = "refetching" <=> stage[t] = "refetching",
               \A t \in Tabs : stage[t] = "refetching" => request'[t] = request[t]
        PROVE  RefetchesAreCurrent'
    BY <1>1, <1>2, <1>3, <1>4
  <1>5. ASSUME UNCHANGED tabVars PROVE RefetchesAreCurrent'
    BY <1>4, <1>5 DEF tabVars
  <1>6. ASSUME NEW r \in responses PROVE r.tab \in Tabs /\ stage[r.tab] = "waiting"
    BY DEF ExchangesAreTrue, TypeOK
  <1>7. ASSUME NEW r \in responses, OnFresh(r) PROVE RefetchesAreCurrent'
    BY <1>4, <1>6, <1>7 DEF OnFresh, TypeOK
  <1>8. ASSUME NEW r \in responses, OnReplayed(r) PROVE RefetchesAreCurrent'
    <2> DEFINE t == r.tab
    <2>1. /\ request' = [request EXCEPT ![t] = [request[t] EXCEPT !.floor = r.at]]
          /\ stage' = [stage EXCEPT ![t] = "refetching"]
          /\ loaded' = loaded /\ r.kind = "replayed" /\ sheet' = sheet /\ receipts' = receipts
      BY <1>8, Zenon DEF OnReplayed, serverVars
    <2>2. t \in Tabs /\ stage[t] = "waiting" /\ request[t] \in Held
      BY <1>6 DEF TypeOK
    <2>3. IsCommitted(request[t].body, receipts) /\ r.receipt = request[t].body
      BY <2>1 DEF ExchangesAreTrue, Rejections
    <2>4. \A c \in Participants(request[t].body) : IsCopyOf(r.at[c], sheet[c])
      BY <2>1, <2>3 DEF CopiesAreOld, Rejections
    <2>5. loaded[t] = NoSheets
      BY <1>1, <2>2
    <2>6. request'[t].body = request[t].body /\ request'[t].floor = r.at
      BY <2>1, <2>2 DEF TypeOK, Held
    <2>7. RefetchIsCurrent(t)'
      BY <2>1, <2>3, <2>4, <2>5, <2>6 DEF RefetchIsCurrent, NoSheets
    <2>8. \A u \in Tabs \ {t} : stage'[u] = stage[u] /\ request'[u] = request[u]
      BY <2>1, <2>2 DEF TypeOK
    <2>9. stage'[t] = "refetching"
      BY <2>1, <2>2 DEF TypeOK
    <2> HIDE DEF t
    <2> QED
      BY <1>1, <1>2, <1>3, <2>1, <2>7, <2>8, <2>9
  <1>11. ASSUME NEW t \in Tabs, NEW k \in CommandIds, NEW p \in Payloads, NEW group \in Groups,
                Prepare(t, k, p, group)
         PROVE  RefetchesAreCurrent'
    BY <1>4, <1>11 DEF Prepare, TypeOK
  <1>13. ASSUME NEW t \in Tabs, Retry(t) PROVE RefetchesAreCurrent'
    BY <1>4, <1>13 DEF Retry, TypeOK
  \* Tab t ends its refetch, if it has one.
  <1>14. ASSUME NEW t \in Tabs, stage'[t] # "refetching", loaded'[t] = NoSheets,
                \A u \in Tabs \ {t} : /\ stage'[u] = stage[u] /\ request'[u] = request[u]
                                      /\ loaded'[u] = loaded[u]
         PROVE  RefetchesAreCurrent'
    BY <1>1, <1>2, <1>3, <1>14
  <1>20. ASSUME NEW t \in Tabs, Kept(t) \/ \E answer \in Rejections : Dropped(t, answer)
         PROVE  RefetchesAreCurrent'
    BY <1>14, <1>20 DEF Kept, Dropped, TypeOK
  <1>9. ASSUME NEW r \in responses, OnRejectedDrop(r) PROVE RefetchesAreCurrent'
    BY <1>6, <1>9, <1>20 DEF OnRejectedDrop
  <1>10. ASSUME NEW r \in responses, OnRejectedKeep(r) PROVE RefetchesAreCurrent'
    BY <1>6, <1>10, <1>20 DEF OnRejectedKeep
  <1>12. ASSUME NEW t \in Tabs, GiveUp(t) PROVE RefetchesAreCurrent'
    BY <1>12, <1>20 DEF GiveUp
  <1>21. ASSUME NEW t \in Tabs, RefetchDenied(t) PROVE RefetchesAreCurrent'
    BY <1>20, <1>21 DEF RefetchDenied, Rejections
  <1>15. ASSUME NEW t \in Tabs, FinishRefetch(t) PROVE RefetchesAreCurrent'
    BY <1>14, <1>15 DEF FinishRefetch, TypeOK
  <1>16. ASSUME NEW t \in Tabs, Reload(t) PROVE RefetchesAreCurrent'
    BY <1>14, <1>16 DEF Reload, TypeOK
  <1>17. ASSUME NEW t \in Tabs, NEW c \in Characters, LoadCurrent(t, c)
         PROVE  RefetchesAreCurrent'
    <2>1. /\ stage[t] = "refetching" /\ c \in Participants(request[t].body)
          /\ stage' = stage /\ request' = request /\ sheet' = sheet /\ receipts' = receipts
      BY <1>17 DEF LoadCurrent, serverVars
    <2>2. /\ loaded'[t] = [loaded[t] EXCEPT ![c] = sheet[c]]
          /\ \A u \in Tabs \ {t} : loaded'[u] = loaded[u]
      BY <1>17 DEF LoadCurrent, TypeOK
    <2>3. RefetchIsCurrent(t) /\ request[t].body \in Request
      BY <1>1, <2>1 DEF TypeOK, Held
    <2>4. /\ IsCopyOf(sheet[c], sheet[c])
          /\ request[t].floor[c].revision <= sheet[c].revision
      BY <2>1, <2>3, CopyOfItself DEF RefetchIsCurrent, IsCopyOf, TypeOK
    <2>5. request[t].body.expected[c] < sheet[c].revision
      BY <2>1, <2>3, RequestType DEF RefetchIsCurrent, IsCommitted, LedgerMatchesSheets
    <2>6. loaded[t] \in [Characters -> Sheet \cup {None}]
      BY DEF TypeOK, Extracts
    <2>7. RefetchIsCurrent(t)'
      BY <2>1, <2>2, <2>3, <2>4, <2>5, <2>6 DEF RefetchIsCurrent
    <2> QED
      BY <1>1, <1>2, <1>3, <2>1, <2>2, <2>7
  <1>18. ASSUME NEW t \in Tabs, NEW c \in Characters, Refresh(t, c) PROVE RefetchesAreCurrent'
    BY <1>4, <1>18 DEF Refresh
  <1>19. CASE UNCHANGED vars
    BY <1>4, <1>19 DEF vars
  <1> QED
    BY <1>5, <1>7, <1>8, <1>9, <1>10, <1>11, <1>12, <1>13, <1>15, <1>16, <1>17, <1>18,
       <1>19, <1>21
       DEF Next, OtherWrite, Link, Unlink, Replay, Commit, Reject, Deny, Answer, LoseRequest

LEMMA AnswersNext ==
    ASSUME CommandInv, TypeOK', ServerMoves, [Next]_vars
    PROVE  AnswersStayTrue'
  <1> USE DEF CommandInv
  <1>1. \A req \in accepted : IsCommitted(req, receipts')
    BY CommittedLater DEF AnswersStayTrue, TypeOK
  <1>2. \A refusal \in refused :
           refusal.by = "rejected" => IsHopeless(refusal.body, receipts', sheet')
    BY HopelessLater DEF AnswersStayTrue, TypeOK, Refusal
  <1>3. ASSUME accepted' = accepted, refused' = refused PROVE AnswersStayTrue'
    BY <1>1, <1>2, <1>3 DEF AnswersStayTrue
  <1>4. ASSUME NEW r \in responses
        PROVE  /\ request[r.tab].body \in Request
               /\ r.kind \notin Rejections => IsCommitted(request[r.tab].body, receipts')
               /\ r.kind = "rejected" => IsHopeless(request[r.tab].body, receipts', sheet')
    <2>1. request[r.tab].body \in Request
      BY DEF ExchangesAreTrue, TypeOK, Held
    <2> QED
      BY <2>1, CommittedLater, HopelessLater DEF ExchangesAreTrue
  <1>5. ASSUME NEW r \in responses, OnFresh(r) PROVE AnswersStayTrue'
    BY <1>1, <1>2, <1>4, <1>5 DEF OnFresh, AnswersStayTrue, Rejections
  <1>6. ASSUME NEW r \in responses, OnReplayed(r) PROVE AnswersStayTrue'
    <2>1. /\ accepted' = accepted \cup {request[r.tab].body} /\ refused' = refused
          /\ r.kind = "replayed"
      BY <1>6, Zenon DEF OnReplayed
    <2> QED
      BY <1>1, <1>2, <1>4, <2>1 DEF AnswersStayTrue, Rejections
  \* Only a refusal of the ledger says anything of the command.
  <1>9. ASSUME NEW t, NEW answer, Dropped(t, answer),
               answer = "rejected" => IsHopeless(request[t].body, receipts', sheet')
        PROVE  AnswersStayTrue'
    <2> DEFINE new == [body |-> request[t].body, by |-> answer]
    <2>1. accepted' = accepted /\ refused' = refused \cup {new}
      BY <1>9 DEF Dropped
    <2>2. new.body = request[t].body /\ new.by = answer
      OBVIOUS
    <2> HIDE DEF new
    <2> QED
      BY <1>1, <1>2, <1>9, <2>1, <2>2 DEF AnswersStayTrue
  <1>7. ASSUME NEW r \in responses, OnRejectedDrop(r) PROVE AnswersStayTrue'
    BY <1>4, <1>7, <1>9 DEF OnRejectedDrop
  <1>8. ASSUME NEW r \in responses, OnRejectedKeep(r) PROVE AnswersStayTrue'
    BY <1>3, <1>8 DEF OnRejectedKeep, Kept
  <1>10. ASSUME NEW t \in Tabs, RefetchDenied(t) PROVE AnswersStayTrue'
    BY <1>3, <1>9, <1>10 DEF RefetchDenied, Kept
  <1> QED
    BY <1>3, <1>5, <1>6, <1>7, <1>8, <1>10
       DEF Next, OtherWrite, Link, Unlink, Replay, Commit, Reject, Deny, Answer, LoseRequest,
           Prepare, GiveUp, Kept, Retry, FinishRefetch, Reload, LoadCurrent, Refresh,
           tabVars, vars

------------------------------------------------------------------------------
(* The theorems *)

LEMMA CommandInvInit == Init => CommandInv
  <1> SUFFICES ASSUME Init PROVE CommandInv
    OBVIOUS
  <1>1. TypeOK
    BY TypeInit
  <1>2. NewSheet \in Sheet /\ IsCopyOf(NewSheet, NewSheet)
    <2>1. NewSheet \in Sheet
      BY CommandAssumption DEF NewSheet, Sheet
    <2> QED
      BY <2>1, CopyOfItself
  <1>3. CopiesAreOld
    BY <1>2 DEF Init, CopiesAreOld
  <1>4. \A c \in Characters : DOMAIN sheet[c].content = {}
    BY DEF Init, NewSheet
  <1>5. LedgerMatchesSheets
    BY <1>4 DEF Init, LedgerMatchesSheets
  <1>6. ExchangesAreTrue /\ RefetchesAreCurrent /\ AnswersStayTrue
    BY DEF Init, ExchangesAreTrue, RefetchesAreCurrent, AnswersStayTrue
  <1> QED
    BY <1>1, <1>3, <1>5, <1>6 DEF CommandInv

LEMMA CommandInvNext == CommandInv /\ [Next]_vars => CommandInv'
  <1> SUFFICES ASSUME CommandInv, [Next]_vars PROVE CommandInv'
    OBVIOUS
  <1>1. TypeOK'
    BY TypeNext DEF CommandInv
  <1>2. ServerMoves
    BY ServerNext DEF CommandInv
  <1>3. LedgerMatchesSheets'
    BY <1>1, <1>2, LedgerNext DEF CommandInv
  <1> QED
    BY <1>1, <1>2, <1>3, CopiesNext, ExchangesNext, RefetchesNext, AnswersNext DEF CommandInv

\* What the tabs hold and were told always fits what the server has.
THEOREM CommandInvariant == Spec => []CommandInv
  BY CommandInvInit, CommandInvNext, PTL DEF Spec

\* Every reachable state is well typed, and revisions count the writes.
THEOREM CommandTypeCorrect == Spec => []TypeOK
  <1>1. CommandInv => TypeOK
    BY DEF CommandInv
  <1> QED
    BY <1>1, CommandInvariant, PTL

\* A command reported done has happened on all its sheets.
THEOREM AcceptedCorrect == Spec => []AcceptedMeansExecuted
  <1>1. CommandInv => AcceptedMeansExecuted
    <2> SUFFICES ASSUME CommandInv, NEW req \in accepted, NEW c \in Participants(req)
                 PROVE  \E i \in DOMAIN sheet[c].content : sheet[c].content[i] = req
      BY DEF AcceptedMeansExecuted, Executed
    <2>1. req \in Request /\ receipts[req.id] = req
      BY DEF CommandInv, TypeOK, AnswersStayTrue, IsCommitted
    <2> QED
      BY <2>1, RequestType DEF CommandInv, LedgerMatchesSheets
  <1> QED
    BY <1>1, CommandInvariant, PTL

\* A command the ledger refused has not happened anywhere, and never will; of one
\* dropped for another 4xx nothing is claimed.
THEOREM RefusedCorrect == Spec => []RefusedMeansNever
  <1>1. CommandInv => RefusedMeansNever
    <2> SUFFICES ASSUME CommandInv, NEW refusal \in refused, refusal.by = "rejected",
                        NEW c \in Participants(refusal.body),
                        NEW i \in DOMAIN sheet[c].content, sheet[c].content[i] = refusal.body
                 PROVE  FALSE
      BY DEF RefusedMeansNever, Unexecuted
    <2>1. refusal.body \in Request /\ receipts[refusal.body.id] # refusal.body
      BY DEF CommandInv, TypeOK, AnswersStayTrue, IsHopeless, IsCommitted, Refusal
    <2> QED
      BY <2>1, RequestType DEF CommandInv, LedgerMatchesSheets
  <1> QED
    BY <1>1, CommandInvariant, PTL

\* The client's checks of a receipt never throw.
THEOREM ReceiptChecksCorrect == Spec => []ReceiptChecksNeverFail
  <1>1. CommandInv => ReceiptChecksNeverFail
    <2> SUFFICES ASSUME CommandInv PROVE ReceiptChecksNeverFail
      OBVIOUS
    <2>1. /\ \A r \in responses : r.kind \notin Rejections => r.receipt = request[r.tab].body
          /\ \A r \in responses : r.kind = "fresh" =>
                \A c \in Participants(r.receipt) : r.at[c].revision = r.receipt.expected[c] + 1
      BY DEF CommandInv, ExchangesAreTrue
    <2>2. ASSUME NEW t \in Tabs, NEW c \in Characters, loaded[t][c] # None
          PROVE  loaded[t][c].revision > request[t].body.expected[c]
      <3>1. /\ c \in Participants(request[t].body) /\ loaded[t][c] \in Sheet
            /\ request[t].body \in Request
            /\ request[t].body.expected[c] < loaded[t][c].revision
        BY <2>2 DEF CommandInv, RefetchesAreCurrent, NoSheets, IsCopyOf, TypeOK, Held
      <3> QED
        BY <3>1, RequestType DEF Sheet
    <2> QED
      BY <2>1, <2>2 DEF ReceiptChecksNeverFail
  <1> QED
    BY <1>1, CommandInvariant, PTL

\* No command commits over a write its user did not see.
THEOREM CommitsCorrect == Spec => CommitsOnWhatWasSeen
  <1>1. CommandInv /\ [Next]_vars =>
          [\A m \in requests : Commit(m) =>
              \A c \in Participants(m.request) : sheet[c].content = m.base[c].content]_vars
    <2> SUFFICES ASSUME CommandInv, NEW m \in requests, Commit(m),
                        NEW c \in Participants(m.request)
                 PROVE  sheet[c].content = m.base[c].content
      OBVIOUS
    <2>1. sheet[c].revision = m.request.expected[c]
      BY DEF Commit, IsCommittable, IsUnchangedSince
    <2>2. IsCopyOf(m.base[c], sheet[c]) /\ m.base[c].revision = m.request.expected[c]
      BY DEF CommandInv, CopiesAreOld, IsBaseOf
    <2> QED
      BY <2>1, <2>2 DEF IsCopyOf
  <1> QED
    BY <1>1, CommandInvariant, PTL DEF Spec, CommitsOnWhatWasSeen

\* After a replayed receipt the screen is as new as the server was.
THEOREM ReplayCorrect == Spec => ReplayShowsCurrent
  <1> DEFINE Shows == \A t \in Tabs : FinishRefetch(t) =>
                         \A c \in Participants(request[t].body) :
                            shown'[t][c].revision >= request[t].floor[c].revision
  <1>1. CommandInv /\ [Next]_vars => [Shows]_vars
    <2> SUFFICES ASSUME CommandInv, NEW t \in Tabs, FinishRefetch(t),
                        NEW c \in Participants(request[t].body)
                 PROVE  shown'[t][c].revision >= request[t].floor[c].revision
      OBVIOUS
    <2>1. stage[t] = "refetching" /\ c \in Characters /\ loaded[t][c] # None
      <3>1. request[t].body \in Request
        BY DEF FinishRefetch, CommandInv, TypeOK, Held
      <3> QED
        BY <3>1, RequestType DEF FinishRefetch
    <2>2. /\ IsCopyOf(request[t].floor[c], sheet[c]) /\ IsCopyOf(loaded[t][c], sheet[c])
          /\ request[t].floor[c].revision <= loaded[t][c].revision
      BY <2>1 DEF CommandInv, RefetchesAreCurrent
    <2>3. shown'[t][c] = loaded[t][c]
      BY <2>1 DEF FinishRefetch, CurrentOf, CommandInv, TypeOK
    <2> QED
      BY <2>2, <2>3 DEF IsCopyOf, Sheet
  <1> QED
    BY <1>1, CommandInvariant, PTL DEF Spec, ReplayShowsCurrent

\* The server implements the abstract ledger.
THEOREM LedgerCorrect == Spec => ImplementsLedger
  <1> DEFINE Content == [c \in Characters |-> sheet[c].content]
             Done == {receipts[k] : k \in CommandIds} \ {None}
  <1>1. Init => Ledger!Init
    BY DEF Init, Ledger!Init, NewSheet
  <1>2. CommandInv /\ CommandInv' /\ [Next]_vars => [Ledger!Next]_<<Content, Done>>
    <2> SUFFICES ASSUME CommandInv, CommandInv', [Next]_vars
                 PROVE  Ledger!Next \/ (Content' = Content /\ Done' = Done)
      OBVIOUS
    <2>1. ASSUME NEW c \in Characters, receipts' = receipts,
                 \A d \in Characters : sheet'[d].content =
                    IF d = c THEN Append(sheet[d].content, None) ELSE sheet[d].content
          PROVE  Ledger!Write(c)
      BY <2>1 DEF Ledger!Write
    <2>2. ASSUME NEW c \in Characters
          PROVE  /\ Written(sheet[c], None).content = Append(sheet[c].content, None)
                 /\ LinkedSheet(sheet[c]).content = Append(sheet[c].content, None)
      BY DEF Written, LinkedSheet, CommandInv, TypeOK, Sheet
    <2>3. ASSUME NEW c \in Characters, OtherWrite(c) \/ Link(c) PROVE Ledger!Next
      <3>1. Ledger!Write(c)
        BY <2>1, <2>2, <2>3 DEF OtherWrite, Link, CommandInv, TypeOK
      <3> QED
        BY <3>1 DEF Ledger!Next
    <2>4. ASSUME NEW c \in Characters, Unlink(c) PROVE Content' = Content /\ Done' = Done
      <3>1. sheet' = [sheet EXCEPT ![c] = [sheet[c] EXCEPT !.linked = FALSE]]
            /\ receipts' = receipts
        BY <2>4, Zenon DEF Unlink
      <3>2. [sheet[c] EXCEPT !.linked = FALSE].content = sheet[c].content
        BY DEF CommandInv, TypeOK, Sheet
      <3> QED
        BY <3>1, <3>2 DEF CommandInv, TypeOK
    <2>5. ASSUME NEW m \in requests, Commit(m) PROVE Ledger!Next
      <3> DEFINE req == m.request
      <3>1. req \in Request /\ req.id \in CommandIds /\ req # None
        BY RequestType DEF CommandInv, TypeOK, Envelope
      <3>2. receipts[req.id] = None /\ receipts' = [receipts EXCEPT ![req.id] = req]
        BY <2>5 DEF Commit, HasReceipt
      <3>3. Done' = Done \cup {req}
        BY <3>1, <3>2 DEF CommandInv, TypeOK
      <3>4. req \notin Done
        BY <3>1, <3>2 DEF CommandInv, TypeOK
      <3>5. \A c \in Participants(req) : c \in Characters /\ Len(sheet[c].content) = req.expected[c]
        BY <2>5, <3>1, RequestType
           DEF Commit, IsCommittable, IsUnchangedSince, CommandInv, TypeOK
      <3>6. \A c \in Characters : sheet'[c].content =
               IF c \in Participants(req) THEN Append(sheet[c].content, req) ELSE sheet[c].content
        <4>1. \A c \in Characters : Written(sheet[c], req).content = Append(sheet[c].content, req)
          BY DEF Written, CommandInv, TypeOK, Sheet
        <4> QED
          BY <2>5, <4>1 DEF Commit, Postimage
      <3> HIDE DEF req
      <3>7. Ledger!Execute(req)
        BY <3>3, <3>4, <3>5, <3>6 DEF Ledger!Execute, Participants
      <3> QED
        BY <3>3, <3>7 DEF Ledger!Next
    <2>6. ASSUME UNCHANGED serverVars PROVE Content' = Content /\ Done' = Done
      BY <2>6 DEF serverVars
    <2> QED
      BY <2>3, <2>4, <2>5, <2>6
         DEF Next, Replay, Reject, Deny, LoseRequest, OnFresh, OnReplayed, OnRejectedDrop,
             OnRejectedKeep, Prepare, GiveUp, Retry, FinishRefetch, RefetchDenied, Reload,
             LoadCurrent, Refresh, vars, serverVars
  <1> QED
    BY <1>1, <1>2, CommandInvariant, PTL DEF Spec, ImplementsLedger, Ledger!Spec
=============================================================================
