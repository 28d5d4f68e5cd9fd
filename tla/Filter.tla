------------------------------- MODULE Filter -------------------------------
(***************************************************************************)
(* The filter loop that the program writes wherever it drops elements of a *)
(* slice (broker.go, registry.go): walk the slice, append what is kept.    *)
(* It is SelectSeq with a set for the test, written so that TLAPS can      *)
(* reason about it.                                                        *)
(***************************************************************************)
EXTENDS Naturals, Sequences

(* The elements of s that are in S, in their order. *)
Keep(s, S) ==
  LET kept[n \in 0 .. Len(s)] ==
        IF n = 0 THEN <<>>
        ELSE IF s[n] \in S THEN Append(kept[n - 1], s[n]) ELSE kept[n - 1]
  IN kept[Len(s)]
=============================================================================
