---------------------------- MODULE WorldLogLemmas ----------------------------
(***************************************************************************)
(* Facts about logs that the proofs of the two implementations of WorldLog *)
(* (RulesSessionProofs, CanonicalSessionProofs) share.                     *)
(***************************************************************************)
EXTENDS Naturals, Sequences, SequenceTheorems, TLAPS

\* The world whose log is b goes on from the one whose log is a.
Extends(a, b) == Len(a) <= Len(b) /\ \A i \in 1 .. Len(a) : a[i] = b[i]

LEMMA ExtendsItself == ASSUME NEW S, NEW a \in Seq(S) PROVE Extends(a, a)
BY DEF Extends

LEMMA ExtendsOn ==
    ASSUME NEW S, NEW a \in Seq(S), NEW b \in Seq(S), NEW c \in Seq(S),
           Extends(a, b), Extends(b, c)
    PROVE  Extends(a, c)
BY DEF Extends

LEMMA EqualLogs ==
    ASSUME NEW S, NEW a \in Seq(S), NEW b \in Seq(S), Extends(a, b), Len(a) = Len(b)
    PROVE  a = b
BY SeqEqual DEF Extends

LEMMA AppendExtends ==
    ASSUME NEW S, NEW a \in Seq(S), NEW e \in S
    PROVE  /\ Append(a, e) \in Seq(S)
           /\ Len(Append(a, e)) = Len(a) + 1
           /\ Append(a, e)[Len(a) + 1] = e
           /\ Extends(a, Append(a, e))
BY DEF Extends

LEMMA PrefixIsSubSeq ==
    ASSUME NEW S, NEW a \in Seq(S), NEW b \in Seq(S), Extends(a, b)
    PROVE  Len(a) \in 0 .. Len(b) /\ a = SubSeq(b, 1, Len(a))
<1>1. Len(a) \in Nat /\ Len(b) \in Nat /\ Len(a) <= Len(b)
  BY DEF Extends
<1>2. SubSeq(b, 1, Len(a)) \in Seq(S) /\ Len(SubSeq(b, 1, Len(a))) = Len(a)
      /\ \A i \in 1 .. Len(a) : SubSeq(b, 1, Len(a))[i] = b[i]
  BY <1>1, SubSeqProperties
<1>3. Extends(a, SubSeq(b, 1, Len(a)))
  <2>1. \A i \in 1 .. Len(a) : a[i] = b[i]
    BY DEF Extends
  <2>2. QED
    BY <1>1, <1>2, <2>1 DEF Extends
<1>4. a = SubSeq(b, 1, Len(a))
  <2> DEFINE c == SubSeq(b, 1, Len(a))
  <2>1. c \in Seq(S) /\ Len(c) = Len(a) /\ Extends(a, c)
    BY <1>2, <1>3
  <2> HIDE DEF c
  <2>2. a = c
    BY <2>1, EqualLogs
  <2>3. QED
    BY <2>2 DEF c
<1>5. QED
  BY <1>1, <1>4
=============================================================================
