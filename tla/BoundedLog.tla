----------------------------- MODULE BoundedLog -----------------------------
(***************************************************************************)
(* What internal/history promises: a log that keeps the newest Capacity    *)
(* records it was given since it was last cleared, oldest first.           *)
(* RingBuffer implements it with two indices into a fixed array.           *)
(***************************************************************************)
EXTENDS Naturals, Sequences

CONSTANTS Record,     \* the records that may be logged
          Capacity    \* how many of them the log keeps

VARIABLE log

(* A log that is one record too long loses its oldest record. *)
Newest(s) == IF Len(s) <= Capacity THEN s ELSE Tail(s)

LInit == log = <<>>

LAdd(r) == log' = Newest(Append(log, r))

LClear == log' = <<>>

LNext == LClear \/ \E r \in Record : LAdd(r)

LSpec == LInit /\ [][LNext]_log
=============================================================================
