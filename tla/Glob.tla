-------------------------------- MODULE Glob --------------------------------
(***************************************************************************)
(* The globs of the management stream's filters (globMatch, splitGlob and  *)
(* globMatchAny of internal/server/manage_ws.go).  Texts are sequences of  *)
(* characters.  The walk over segments is compared with the meaning of a   *)
(* glob.                                                                   *)
(***************************************************************************)
EXTENDS Naturals, Sequences, FiniteSets, SequencesExt

CONSTANTS Letter,               \* the characters of names and channels
          MaxPattern, MaxValue  \* bounds of GlobsDecide

ASSUME GlobAssumption == MaxPattern \in Nat /\ MaxValue \in Nat

Star == "*"
Has(text, c) == \E i \in DOMAIN text : text[i] = c

(* splitGlob: the longest stretches of the pattern without a star.  A      *)
(* segment is kept as the positions where it begins and ends.              *)
splitGlob(pattern) ==
  {seg \in [from : DOMAIN pattern, to : DOMAIN pattern] :
     /\ seg.from <= seg.to
     /\ \A i \in seg.from .. seg.to : pattern[i] # Star
     /\ seg.from = 1 \/ pattern[seg.from - 1] = Star
     /\ seg.to = Len(pattern) \/ pattern[seg.to + 1] = Star}

Width(seg) == seg.to - seg.from + 1

(* Where the segment begins in value at or after pos.                      *)
Occurs(pattern, seg, value, pos) ==
  {k \in pos .. Len(value) - Width(seg) :
     \A i \in seg.from .. seg.to : value[k + 1 + (i - seg.from)] = pattern[i]}

(* Looks for the last segment anywhere, not at the end. *)
FaultyCandidatesOf(pattern, seg, value, pos) ==
  {k \in Occurs(pattern, seg, value, pos) : seg.from = 1 => k = 0}

(* A segment that begins the pattern is a prefix of value, one that ends   *)
(* it a suffix.                                                            *)
CandidatesOf(pattern, seg, value, pos) ==
  {k \in Occurs(pattern, seg, value, pos) :
     /\ seg.from = 1 => k = 0
     /\ seg.to = Len(pattern) => k = Len(value) - Width(seg)}

(* A round of the walk: behind the first candidate, or past the value.     *)
Miss(value) == Len(value) + 1
Walk(pattern, seg, value, pos) ==
  LET found == CandidatesOf(pattern, seg, value, pos)
  IN IF found = {} THEN Miss(value)
     ELSE (CHOOSE k \in found : \A j \in found : k <= j) + Width(seg)

(* pos[i]: behind the segments that end within i characters of pattern.    *)
globMatch(pattern, value) ==
  LET segments == splitGlob(pattern)
      pos[i \in 0 .. Len(pattern)] ==
        IF i = 0 THEN 0
        ELSE IF \E seg \in segments : seg.to = i
        THEN Walk(pattern, CHOOSE seg \in segments : seg.to = i, value, pos[i - 1])
        ELSE pos[i - 1]
  IN IF Has(pattern, Star) THEN pos[Len(pattern)] # Miss(value)
     ELSE pattern = value

globMatchAny(patterns, value) == \E p \in patterns : globMatch(p, value)

-----------------------------------------------------------------------------
(* What a glob means: the pattern's characters stand for consecutive parts *)
(* of the value, a star for any part and another character for itself.     *)
Denotes(pattern, value) ==
  \E cut \in [0 .. Len(pattern) -> 0 .. Len(value)] :
    /\ cut[0] = 0 /\ cut[Len(pattern)] = Len(value)
    /\ \A i \in DOMAIN pattern :
         IF pattern[i] = Star THEN cut[i] >= cut[i - 1]
         ELSE cut[i] = cut[i - 1] + 1 /\ value[cut[i]] = pattern[i]

(* For every pattern and value up to a length, the walk that takes each    *)
(* segment at its first occurrence never misses a match and never finds a  *)
(* false one.                                                              *)
GlobsDecide ==
  \A pattern \in SeqOf(Letter \cup {Star}, MaxPattern), value \in SeqOf(Letter, MaxValue) :
    globMatch(pattern, value) <=> Denotes(pattern, value)
=============================================================================
