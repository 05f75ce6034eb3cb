----------------------------- MODULE MCEncounter -----------------------------
(***************************************************************************)
(* Instances of Encounter for TLC: two accounts with one character each,   *)
(* two actor ids, and as many encounters and fields as a run asks for.     *)
(***************************************************************************)
EXTENDS Encounter, TLC

CONSTANTS u1, u2, c1, c2

\* Both characters belong to one player, who can command them together; the
\* other user joins, or owns the table.
MCOnePlayer == c1 :> u1 @@ c2 :> u1

MCController == c1 :> u1 @@ c2 :> u2

NoFields == [f \in PatchFields |-> None]

\* What the browser sends for an addition; a character's fields are forged.
Additions ==
    {[character |-> c, fields |-> NoFields] : c \in Characters \cup {None}}

NoRequest ==
    [remove  |-> {},
     patches |-> [a \in Actors |-> NoFields],
     add     |-> [a \in Actors |-> None],
     log     |-> {}]

FieldSets == {s \in FieldSet : \E f \in PatchFields : s[f] # None}

OnePatch ==
    {[NoRequest EXCEPT !.patches[a] = s] : a \in Actors, s \in FieldSets}

OneAdd ==
    {[NoRequest EXCEPT !.add[a] = x] : a \in Actors, x \in Additions}

\* Two additions at once, possibly of the same character.
TwoAdds ==
    {[NoRequest EXCEPT !.add = x] : x \in [Actors -> Additions]}

\* Removals, alone and in one request with a patch or an addition of others
\* or of the same actor.
Removals ==
    {[r EXCEPT !.remove = s] :
        r \in {NoRequest} \cup OnePatch \cup OneAdd, s \in SUBSET Actors \ {{}}}

MCRequests == OnePatch \cup OneAdd \cup TwoAdds \cup Removals

\* Fewer of them, and a journal entry for one character alone, with an addition
\* or with a removal.
MCLoggedRequests ==
    LET removals == {[NoRequest EXCEPT !.remove = {a}] : a \in Actors}
        replacements == {[r EXCEPT !.remove = {a}] : r \in OneAdd, a \in Actors}
        both == {r \in TwoAdds : \A c \in Characters : \E a \in Actors : r.add[a].character = c}
        logged == {NoRequest} \cup OneAdd \cup removals
    IN  OnePatch \cup OneAdd \cup both \cup removals \cup replacements
          \cup {[r EXCEPT !.log = {c}] : r \in logged, c \in Characters}

MCSheetPatches == SheetPatch

\* Encounter ids and actor ids are interchangeable, and so are the two players
\* taken together with their characters.
Players ==
    {[x \in {u1, u2, c1, c2} |-> x],
     [x \in {u1, u2, c1, c2} |->
        CASE x = u1 -> u2 [] x = u2 -> u1 [] x = c1 -> c2 [] x = c2 -> c1]}

\* With one player its characters are interchangeable.
MCOnePlayerSymmetry ==
    {p @@ q @@ r : p \in Permutations({c1, c2}), q \in Permutations(Actors),
                   r \in Permutations(Encounters)}

MCSymmetry ==
    {p @@ q @@ r : p \in Players, q \in Permutations(Actors), r \in Permutations(Encounters)}
==============================================================================
