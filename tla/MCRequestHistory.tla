-------------------------- MODULE MCRequestHistory --------------------------
(***************************************************************************)
(* Three requests, one of which lists the history, over a buffer of two    *)
(* slots and pages of one record: the buffer wraps around and the history  *)
(* is longer than a page.                                                  *)
(***************************************************************************)
EXTENDS RequestHistory

CONSTANTS q1, q2, q3, pa, pb

MCPathOf == [q \in Req |-> IF q = q1 THEN pa ELSE pb]
=============================================================================
