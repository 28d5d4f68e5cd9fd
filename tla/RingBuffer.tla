----------------------------- MODULE RingBuffer -----------------------------
(***************************************************************************)
(* The request-history ring buffer of internal/history/history.go.  Every  *)
(* method runs under the buffer's RWMutex, so each is one atomic action.   *)
(* Indices are 0-based, as in the code.  Operators whose name starts with  *)
(* Faulty are deliberate misreadings that the properties reject.           *)
(***************************************************************************)
EXTENDS Integers, Sequences

CONSTANTS Record,     \* the values a RequestRecord can have
          NoRecord,   \* the zero RequestRecord of a slot never written
          Capacity    \* --history-size

ASSUME CapacityAssumption == Capacity \in Nat
ASSUME NoRecordAssumption == NoRecord \notin Record

VARIABLES records,    \* the backing array
          head,       \* index of the oldest record
          tail,       \* index of the next slot to write
          count       \* how many slots hold a record

bufVars == <<records, head, tail, count>>

Slot == 0 .. Capacity - 1

(* NewRingBuffer: every field but records and size is the zero value. *)
NewRingBuffer ==
  /\ records = [i \in Slot |-> NoRecord]
  /\ head = 0
  /\ tail = 0
  /\ count = 0

(* Add overwrites the oldest record of a full buffer. *)
Add(r) ==
  IF Capacity = 0
  THEN UNCHANGED bufVars
  ELSE /\ records' = [records EXCEPT ![tail] = r]
       /\ tail' = (tail + 1) % Capacity
       /\ IF count < Capacity
          THEN count' = count + 1 /\ UNCHANGED head
          ELSE head' = (head + 1) % Capacity /\ UNCHANGED count

(* The Go slice records[lo:hi]. *)
Slice(lo, hi) == [i \in 1 .. hi - lo |-> records[lo + i - 1]]

(* Copies the two slices of a wrapped buffer in the order of the array. *)
FaultyGetAllInArrayOrder ==
  LET copied == IF head < tail
                THEN Slice(head, tail)
                ELSE Slice(0, tail) \o Slice(head, Capacity)
  IN IF count = 0
     THEN <<>>
     ELSE [i \in 1 .. count |->
             IF i <= Len(copied) THEN copied[i] ELSE NoRecord]

(* GetAll copies at most count records out of one or two slices; a slot of *)
(* the result that no copy reaches keeps the zero record.                  *)
GetAll ==
  LET copied == IF head < tail
                THEN Slice(head, tail)
                ELSE Slice(head, Capacity) \o Slice(0, tail)
  IN IF count = 0
     THEN <<>>
     ELSE [i \in 1 .. count |->
             IF i <= Len(copied) THEN copied[i] ELSE NoRecord]

(* Clear resets the indices and leaves the old records in the array. *)
Clear ==
  /\ head' = 0
  /\ tail' = 0
  /\ count' = 0
  /\ UNCHANGED records

BufNext == Clear \/ \E r \in Record : Add(r)

BufSpec == NewRingBuffer /\ [][BufNext]_bufVars

-----------------------------------------------------------------------------
(* Type correctness of the four fields of the RingBuffer struct. *)
TypeOK ==
  /\ records \in [Slot -> Record \cup {NoRecord}]
  /\ head \in Nat
  /\ tail \in Nat
  /\ count \in Nat

(* An index that went past the end of the array by less than its length. *)
Wrap(i) == IF i < Capacity THEN i ELSE i - Capacity

(* The redundancy between the three indices of the struct: tail is always  *)
(* count slots after head, modulo the size, and every slot between the two *)
(* has been written, so GetAll never returns a zero record.                *)
IndexConsistent ==
  /\ count <= Capacity
  /\ IF Capacity = 0
     THEN head = 0 /\ tail = 0
     ELSE /\ head < Capacity
          /\ tail < Capacity
          /\ tail = Wrap(head + count)
  /\ \A i \in 0 .. count - 1 : records[Wrap(head + i)] # NoRecord

(* Seen through GetAll, the array with its indices is a bounded log: after *)
(* any sequence of Add and Clear, GetAll returns the newest records in the *)
(* order they were added.                                                  *)
Log == INSTANCE BoundedLog WITH log <- GetAll

ImplementsBoundedLog == Log!LSpec
=============================================================================
