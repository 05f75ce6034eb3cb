---------------------------- MODULE MCEncounterTx ----------------------------
(***************************************************************************)
(* The server's transactions on encounters and characters twice: in one    *)
(* step, and lock by lock.  A behaviour runs one of the two, and `part'    *)
(* says which.                                                             *)
(***************************************************************************)
EXTENDS MCEncounter, EncounterTx

VARIABLE part

LinksInit == Init /\ LockInit /\ part \in {"steps", "locks"}

LinksNext ==
    /\ UNCHANGED part
    /\ \/ part = "steps" /\ Next /\ UNCHANGED lockVars
       \/ part = "locks" /\ LockNext /\ UNCHANGED vars

LinksSpec == LinksInit /\ [][LinksNext]_<<vars, lockVars, part>>
=============================================================================
