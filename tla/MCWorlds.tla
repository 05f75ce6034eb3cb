------------------------------- MODULE MCWorlds -------------------------------
(***************************************************************************)
(* A world of the rules core, the browser's store that keeps one and the   *)
(* transport that shares one.  They share no state: a behaviour runs one   *)
(* of them, and `part' says which.                                         *)
(***************************************************************************)
EXTENDS MCRulesCore, CanonicalSession, RulesSession

VARIABLE part

MCUser == {"master", "player"}
MCSessionActor == {"hero", "beast"}
MCInitialRole == [u \in MCUser |-> IF u = "master" THEN "gm" ELSE "player"]
MCInitialController == [a \in MCSessionActor |-> IF a = "hero" THEN "player" ELSE "master"]

\* Each acts on the other and asks it; each answers what the world waits for.
MCShapes ==
    {[source |-> "hero", targets |-> {"beast"}, changes |-> {"hero"}, answers |-> FALSE, asks |-> {"beast"}],
     [source |-> "beast", targets |-> {"hero"}, changes |-> {"hero"}, answers |-> FALSE, asks |-> {"hero"}],
     [source |-> "hero", targets |-> {}, changes |-> {"hero"}, answers |-> TRUE, asks |-> {}],
     [source |-> "beast", targets |-> {}, changes |-> {}, answers |-> TRUE, asks |-> {}]}

MCInit ==
    /\ Init /\ TransportInit /\ SessionInit
    /\ part \in {"core", "transport", "tabs"}

MCNext ==
    /\ UNCHANGED part
    /\ \/ part = "core" /\ Next /\ UNCHANGED <<transportVars, sessionVars>>
       \/ part = "transport" /\ TransportNext /\ UNCHANGED <<world, sessionVars>>
       \/ part = "tabs" /\ SessionNext /\ UNCHANGED <<world, transportVars>>

MCSpec == MCInit /\ [][MCNext]_<<world, transportVars, sessionVars, part>>
=============================================================================
