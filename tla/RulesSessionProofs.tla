--------------------------- MODULE RulesSessionProofs ---------------------------
(***************************************************************************)
(* Proof that the browser's store of a world implements WorldLog, for      *)
(* every set of tabs and commands: however tabs dispatch, commit, adopt,   *)
(* close and open again, the store keeps one log and every tab shows a     *)
(* prefix of it that only grows.                                           *)
(*                                                                         *)
(* The inductive invariant SInv says that every world a tab shows or has   *)
(* dispatched on is a prefix of the stored log (Branchless), and that a    *)
(* committed dispatch is the newest thing its tab knows of                 *)
(* (CommittedIsNewest), so that adopting it never takes the tab back.      *)
(***************************************************************************)
EXTENDS RulesSession, WorldLogLemmas, TLAPS

Entry == [command : Command, base : Nat]
Log == Seq(Entry)
Dispatched == [tab : Tab, command : Command, base : Log, committed : BOOLEAN]

SessionTypeOK ==
    /\ stored \in Log
    /\ phase \in [Tab -> {"closed", "opening", "open"}]
    /\ snapshot \in [Tab -> Log] /\ shown \in [Tab -> Log]
    /\ underWay \in SUBSET Dispatched

Branchless ==
    /\ \A t \in Tab : Extends(shown[t], stored)
    /\ \A d \in underWay :
          /\ phase[d.tab] = "open"
          /\ Extends(d.base, stored) /\ d.command \notin Processed(d.base)
          /\ d.committed => Extends(Handled(d.base, d.command), stored)

CommittedIsNewest ==
    \A d \in underWay : d.committed =>
        /\ Len(shown[d.tab]) <= Len(d.base)
        /\ \A f \in underWay :
              f.tab = d.tab => Len(f.base) <= Len(d.base) /\ (f.committed => f = d)

SInv == SessionTypeOK /\ Branchless /\ CommittedIsNewest

-----------------------------------------------------------------------------
(* Logs. *)

LEMMA HandledFacts ==
    ASSUME NEW log \in Log, NEW c \in Command
    PROVE  /\ Handled(log, c) \in Log
           /\ Len(Handled(log, c)) = Len(log) + 1
           /\ \A i \in 1 .. Len(log) : Handled(log, c)[i] = log[i]
           /\ Handled(log, c)[Len(log) + 1] = [command |-> c, base |-> Len(log)]
           /\ Extends(log, Handled(log, c))
<1>1. [command |-> c, base |-> Len(log)] \in Entry
  BY DEF Entry, Log
<1>2. QED
  BY <1>1 DEF Handled, Log, Extends

-----------------------------------------------------------------------------
(* The steps. *)

\* A step of the abstract log, or none.
Refined == StoredLog!Next \/ UNCHANGED <<stored, shown>>

LEMMA ShownStep ==
    ASSUME NEW t \in Tab, NEW log \in Log, SessionTypeOK,
           Extends(log, stored), Len(shown[t]) <= Len(log),
           stored' = stored, shown' = [shown EXCEPT ![t] = log]
    PROVE  StoredLog!Next
<1>1. Len(log) \in 0 .. Len(stored) /\ log = SubSeq(stored, 1, Len(log))
  BY PrefixIsSubSeq DEF Log, SessionTypeOK
<1>2. Len(shown[t]) \in Nat /\ Len(log) \in Nat /\ Len(stored) \in Nat
  BY DEF SessionTypeOK, Log
<1>3. Len(log) \in Len(shown[t]) .. Len(stored)
  BY <1>1, <1>2
<1>4. StoredLog!Show(t, Len(log))
  BY <1>1 DEF StoredLog!Show
<1>5. QED
  BY <1>3, <1>4 DEF StoredLog!Next

LEMMA InitializeStep ==
    ASSUME SInv, NEW t \in Tab, Initialize(t)
    PROVE  SInv' /\ Refined
<1>1. SessionTypeOK'
  BY DEF SInv, SessionTypeOK, Initialize
<1>2. /\ UNCHANGED <<stored, shown, underWay>>
      /\ phase[t] = "closed" /\ \A u \in Tab : u # t => phase'[u] = phase[u]
  BY DEF SInv, SessionTypeOK, Initialize
<1>3. Branchless'
  BY <1>2 DEF SInv, Branchless, SessionTypeOK, Dispatched
<1>4. CommittedIsNewest'
  BY <1>2 DEF SInv, CommittedIsNewest
<1>5. QED
  BY <1>1, <1>2, <1>3, <1>4 DEF SInv, Refined

LEMMA ReplayEventsStep ==
    ASSUME SInv, NEW t \in Tab, ReplayEvents(t)
    PROVE  SInv' /\ Refined
<1>1. /\ SessionTypeOK /\ Branchless /\ CommittedIsNewest
      /\ UNCHANGED <<stored, snapshot, underWay>> /\ phase[t] = "opening"
      /\ \A u \in Tab : u # t => phase'[u] = phase[u]
      /\ SessionTypeOK'
  BY DEF SInv, SessionTypeOK, ReplayEvents
<1>2. \A d \in underWay : d.tab \in Tab /\ d.tab # t
  BY <1>1 DEF Branchless, SessionTypeOK, Dispatched
<1>3. CASE stored = snapshot[t]
  <2>1. shown' = [shown EXCEPT ![t] = stored]
    BY <1>3 DEF ReplayEvents
  <2>2. Branchless'
    <3>1. \A u \in Tab : Extends(shown'[u], stored)
      BY <1>1, <2>1, ExtendsItself DEF Log, Branchless, SessionTypeOK
    <3>2. QED
      BY <1>1, <1>2, <3>1 DEF Branchless
  <2>3. CommittedIsNewest'
    BY <1>1, <1>2, <2>1 DEF CommittedIsNewest, SessionTypeOK
  <2>4. StoredLog!Next
    <3>1. stored \in Log /\ Extends(stored, stored) /\ Len(shown[t]) <= Len(stored)
      BY <1>1, ExtendsItself DEF Log, SessionTypeOK, Branchless, Extends
    <3>2. QED
      BY <1>1, <2>1, <3>1, ShownStep
  <2>5. QED
    BY <1>1, <2>2, <2>3, <2>4 DEF SInv, Refined
<1>4. CASE stored # snapshot[t]
  <2>1. shown' = shown
    BY <1>4 DEF ReplayEvents
  <2>2. Branchless' /\ CommittedIsNewest'
    BY <1>1, <1>2, <2>1 DEF Branchless, CommittedIsNewest
  <2>3. QED
    BY <1>1, <2>1, <2>2 DEF SInv, Refined
<1>5. QED
  BY <1>3, <1>4

LEMMA CloseTabStep ==
    ASSUME SInv, NEW t \in Tab, CloseTab(t)
    PROVE  SInv' /\ Refined
<1>1. /\ SessionTypeOK /\ Branchless /\ CommittedIsNewest
      /\ UNCHANGED <<stored, snapshot, shown>>
      /\ \A u \in Tab : u # t => phase'[u] = phase[u]
      /\ underWay' = {d \in underWay : d.tab # t}
      /\ SessionTypeOK'
  BY DEF SInv, SessionTypeOK, CloseTab
<1>2. \A d \in underWay : d.tab \in Tab
  BY <1>1 DEF SessionTypeOK, Dispatched
<1>3. Branchless' /\ CommittedIsNewest'
  BY <1>1, <1>2 DEF Branchless, CommittedIsNewest
<1>4. QED
  BY <1>1, <1>3 DEF SInv, Refined

LEMMA DispatchStep ==
    ASSUME SInv, NEW t \in Tab, NEW c \in Command, Dispatch(t, c)
    PROVE  SInv' /\ Refined
<1> DEFINE e == [tab |-> t, command |-> c, base |-> shown[t], committed |-> FALSE]
<1>1. /\ SessionTypeOK /\ Branchless /\ CommittedIsNewest
      /\ phase[t] = "open" /\ c \notin Processed(shown[t])
      /\ UNCHANGED <<stored, phase, snapshot>> /\ underWay' = underWay \cup {e}
  BY DEF SInv, Dispatch
<1>2. shown' = shown
  BY <1>1 DEF Dispatch, ShownWhileCommitting, SessionTypeOK
<1>3. /\ e.tab = t /\ e.command = c /\ e.base = shown[t] /\ ~e.committed
      /\ e \in Dispatched
  BY <1>1 DEF SessionTypeOK, Dispatched
<1> HIDE DEF e
<1>4. SessionTypeOK'
  BY <1>1, <1>2, <1>3 DEF SessionTypeOK
<1>5. Branchless'
  BY <1>1, <1>2, <1>3 DEF Branchless
<1>6. CommittedIsNewest'
  <2>1. SUFFICES ASSUME NEW d \in underWay', d.committed
                 PROVE  /\ Len(shown[d.tab]) <= Len(d.base)
                        /\ \A f \in underWay' : f.tab = d.tab =>
                              Len(f.base) <= Len(d.base) /\ (f.committed => f = d)
    BY <1>2 DEF CommittedIsNewest
  <2>2. d \in underWay
    BY <1>1, <1>3, <2>1
  <2>3. QED
    BY <1>1, <1>3, <2>1, <2>2 DEF CommittedIsNewest
<1>7. QED
  BY <1>1, <1>2, <1>4, <1>5, <1>6 DEF SInv, Refined

LEMMA CommitStep ==
    ASSUME SInv, NEW d \in underWay, Commit(d)
    PROVE  SInv' /\ Refined
<1>1. /\ SessionTypeOK /\ Branchless /\ CommittedIsNewest
      /\ UNCHANGED <<phase, snapshot, shown>> /\ ~d.committed
      /\ d \in Dispatched /\ d.tab \in Tab /\ d.command \in Command /\ d.base \in Log
  BY DEF SInv, Commit, SessionTypeOK, Dispatched
<1>2. CASE Len(stored) # Len(d.base)
  <2>1. underWay' = underWay \ {d} /\ stored' = stored
    BY <1>2 DEF Commit
  <2>2. SessionTypeOK' /\ Branchless' /\ CommittedIsNewest'
    BY <1>1, <2>1 DEF SessionTypeOK, Branchless, CommittedIsNewest
  <2>3. QED
    BY <1>1, <2>1, <2>2 DEF SInv, Refined
<1>3. CASE Len(stored) = Len(d.base)
  <2> DEFINE e == [d EXCEPT !.committed = TRUE]
             log == Handled(d.base, d.command)
  <2>1. stored' = log /\ underWay' = (underWay \ {d}) \cup {e}
    BY <1>3 DEF Commit
  <2>2. /\ e.tab = d.tab /\ e.command = d.command /\ e.base = d.base /\ e.committed
        /\ e \in Dispatched
    BY <1>1 DEF Dispatched
  <2>3. d.base = stored /\ d.command \notin Processed(stored)
    <3>1. Extends(d.base, stored) /\ d.command \notin Processed(d.base)
      BY <1>1 DEF Branchless
    <3>2. d.base = stored
      BY <1>1, <1>3, <3>1, EqualLogs DEF Log, SessionTypeOK
    <3>3. QED
      BY <3>1, <3>2
  <2>4. /\ log \in Log /\ Len(log) = Len(stored) + 1 /\ Extends(stored, log)
        /\ log[Len(stored) + 1] = [command |-> d.command, base |-> Len(stored)]
    BY <1>1, <2>3, HandledFacts
  <2>5. StoredLog!Next
    <3>1. /\ stored' = Append(stored, [command |-> d.command, base |-> Len(stored)])
      BY <2>1, <2>3 DEF Handled
    <3>2. \A i \in DOMAIN stored : stored[i].command # d.command
      BY <2>3 DEF Processed
    <3>3. stored'[Len(stored')] = [command |-> d.command, base |-> Len(stored)]
          /\ Len(stored') = Len(stored) + 1
      BY <2>1, <2>4
    <3>4. StoredLog!Extend(stored'[Len(stored')])
      BY <1>1, <3>1, <3>2, <3>3 DEF StoredLog!Extend
    <3>5. QED
      BY <3>3, <3>4 DEF StoredLog!Next
  <2>6. \A a \in Log : Extends(a, stored) => Extends(a, log) /\ Len(a) <= Len(stored)
    BY <2>4, <1>1, ExtendsOn DEF Log, SessionTypeOK, Extends
  <2> HIDE DEF e, log
  <2>7. SessionTypeOK'
    BY <1>1, <2>1, <2>2, <2>4 DEF SessionTypeOK
  <2>8. Branchless'
    <3>1. \A u \in Tab : Extends(shown[u], log)
      BY <1>1, <2>6 DEF Branchless, SessionTypeOK
    <3>2. ASSUME NEW f \in underWay
          PROVE  /\ phase[f.tab] = "open"
                 /\ Extends(f.base, log) /\ f.command \notin Processed(f.base)
                 /\ f.committed => Extends(Handled(f.base, f.command), log)
      <4>1. f.base \in Log /\ f.command \in Command /\ Handled(f.base, f.command) \in Log
        BY <1>1, HandledFacts DEF SessionTypeOK, Dispatched
      <4>2. QED
        BY <1>1, <2>6, <4>1 DEF Branchless
    <3>3. Extends(Handled(e.base, e.command), log) /\ phase[e.tab] = "open"
          /\ Extends(e.base, log) /\ e.command \notin Processed(e.base)
      BY <1>1, <2>2, <2>4, <3>2, ExtendsItself DEF Log, log
    <3>4. QED
      BY <1>1, <2>1, <3>1, <3>2, <3>3 DEF Branchless
  <2>9. CommittedIsNewest'
    <3>1. \A f \in underWay : Len(f.base) <= Len(e.base)
      BY <1>1, <1>3, <2>2, <2>6 DEF Branchless, SessionTypeOK, Dispatched
    <3>2. Len(shown[e.tab]) <= Len(e.base)
      BY <1>1, <1>3, <2>2, <2>6 DEF Branchless, SessionTypeOK
    <3>3. ASSUME NEW f \in underWay, f.committed PROVE f.tab # e.tab
      <4>1. f.base \in Log /\ f.command \in Command
        BY <1>1 DEF SessionTypeOK, Dispatched
      <4>2. Len(Handled(f.base, f.command)) <= Len(stored)
        BY <1>1, <3>3 DEF Branchless, Extends
      <4>3. Len(f.base) + 1 <= Len(d.base)
        BY <1>3, <4>1, <4>2, HandledFacts
      <4>4. ~(Len(d.base) <= Len(f.base))
        BY <1>1, <4>1, <4>3 DEF Log
      <4>5. QED
        BY <1>1, <2>2, <3>3, <4>4 DEF CommittedIsNewest
    <3>4. ASSUME NEW f \in underWay', f.committed
          PROVE  /\ Len(shown[f.tab]) <= Len(f.base)
                 /\ \A g \in underWay' : g.tab = f.tab =>
                       Len(g.base) <= Len(f.base) /\ (g.committed => g = f)
      <4>1. CASE f = e
        <5>1. Len(e.base) <= Len(e.base)
          BY <1>1, <2>2 DEF Log
        <5>2. QED
          BY <2>1, <3>1, <3>2, <3>3, <4>1, <5>1
      <4>2. CASE f # e
        <5>1. f \in underWay /\ f.tab # e.tab
          BY <2>1, <3>3, <3>4, <4>2
        <5>2. QED
          BY <1>1, <2>1, <3>4, <5>1 DEF CommittedIsNewest
      <4>3. QED
        BY <4>1, <4>2
    <3>5. QED
      BY <1>1, <3>4 DEF CommittedIsNewest
  <2>10. QED
    BY <2>5, <2>7, <2>8, <2>9 DEF SInv, Refined
<1>4. QED
  BY <1>2, <1>3

LEMMA AdoptStep ==
    ASSUME SInv, NEW d \in underWay, Adopt(d)
    PROVE  SInv' /\ Refined
<1> DEFINE log == Handled(d.base, d.command)
<1>1. /\ SessionTypeOK /\ Branchless /\ CommittedIsNewest
      /\ UNCHANGED <<stored, phase, snapshot>> /\ d.committed
      /\ d.tab \in Tab /\ d.command \in Command /\ d.base \in Log
      /\ shown' = [shown EXCEPT ![d.tab] = log] /\ underWay' = underWay \ {d}
  BY DEF SInv, Adopt, SessionTypeOK, Dispatched
<1>2. log \in Log /\ Extends(log, stored) /\ Len(log) = Len(d.base) + 1
  BY <1>1, HandledFacts DEF Branchless
<1>3. Len(shown[d.tab]) <= Len(log)
  BY <1>1, <1>2 DEF CommittedIsNewest, SessionTypeOK, Log
<1> HIDE DEF log
<1>4. SessionTypeOK'
  BY <1>1, <1>2 DEF SessionTypeOK
<1>5. Branchless'
  BY <1>1, <1>2 DEF Branchless, SessionTypeOK
<1>6. CommittedIsNewest'
  <2>1. \A f \in underWay' : f.committed => f \in underWay /\ f.tab # d.tab /\ f.tab \in Tab
    BY <1>1 DEF CommittedIsNewest, SessionTypeOK, Dispatched
  <2>2. \A f \in underWay' : f.committed => shown'[f.tab] = shown[f.tab]
    BY <1>1, <2>1 DEF SessionTypeOK
  <2>3. QED
    BY <1>1, <2>1, <2>2 DEF CommittedIsNewest
<1>7. StoredLog!Next
  BY <1>1, <1>2, <1>3, ShownStep
<1>8. QED
  BY <1>4, <1>5, <1>6, <1>7 DEF SInv, Refined

-----------------------------------------------------------------------------
(* The theorems. *)

LEMMA SessionInitInvariant ==
    ASSUME SessionInit
    PROVE  SInv /\ StoredLog!Init
<1>1. SessionTypeOK
  BY DEF SessionInit, SessionTypeOK, Log
<1>2. \A t \in Tab : Extends(shown[t], stored)
  <2>1. << >> \in Log
    BY DEF Log
  <2>2. QED
    BY <2>1, ExtendsItself DEF Log, SessionInit
<1>3. Branchless /\ CommittedIsNewest
  BY <1>2 DEF SessionInit, Branchless, CommittedIsNewest
<1>4. QED
  BY <1>1, <1>3 DEF SInv, SessionInit, StoredLog!Init

LEMMA SessionStep ==
    ASSUME SInv, [SessionNext]_sessionVars
    PROVE  SInv' /\ Refined
<1>1. CASE UNCHANGED sessionVars
  BY <1>1 DEF sessionVars, SInv, SessionTypeOK, Branchless, CommittedIsNewest, Refined
<1>2. CASE SessionNext
  BY <1>2, InitializeStep, ReplayEventsStep, CloseTabStep, DispatchStep, CommitStep, AdoptStep
     DEF SessionNext
<1>3. QED
  BY <1>1, <1>2

\* Every world that a tab shows or has dispatched on is a prefix of the stored
\* log, and a committed dispatch is the newest its tab knows of.
THEOREM SessionInvariant == SessionSpec => []SInv
<1>1. SessionInit => SInv
  BY SessionInitInvariant
<1>2. SInv /\ [SessionNext]_sessionVars => SInv'
  BY SessionStep
<1>3. QED
  BY <1>1, <1>2, PTL DEF SessionSpec

\* PersistentRulesSession over the IndexedDB store implements the abstract log:
\* each command once, on the log it was computed from, and what a tab shows is
\* a prefix that only grows.
THEOREM SessionsCorrect == SessionSpec => SessionsKeepLog
<1>1. SessionInit => StoredLog!Init
  BY SessionInitInvariant
<1>2. SInv /\ [SessionNext]_sessionVars => [StoredLog!Next]_<<stored, shown>>
  BY SessionStep DEF Refined
<1>3. QED
  BY <1>1, <1>2, SessionInvariant, PTL DEF SessionSpec, SessionsKeepLog
=============================================================================
