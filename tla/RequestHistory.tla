--------------------------- MODULE RequestHistory ---------------------------
(***************************************************************************)
(* The history middleware and GET /_mock/requests over the ring buffer.    *)
(* Requests run concurrently, each in its own goroutine: the middleware    *)
(* notes the start time, runs the handler, takes a request id from an      *)
(* atomic counter, and only then adds the record.  Operators whose name    *)
(* starts with Faulty are deliberate misreadings that the properties       *)
(* reject.                                                                 *)
(***************************************************************************)
EXTENDS RingBuffer, SequencesExt, FiniteSets, Filter

CONSTANTS Req,        \* the requests clients send, each at most once
          Listers,    \* those of them that are GET /_mock/requests
          Path,       \* the URL paths
          PathOf,     \* the path of each request
          AnyPath,    \* an absent path filter
          MaxPage,    \* maxRequestsPage (1000 in the code)
          MaxTime     \* bound on the clock

ASSUME ReqAssumption ==
  /\ IsFiniteSet(Req)
  /\ Listers \subseteq Req
  /\ PathOf \in [Req -> Path]
  /\ AnyPath \notin Path
  /\ MaxPage \in Nat \ {0}
  /\ MaxTime \in Nat

VARIABLES pc,             \* where each request's goroutine is
          start,          \* the time.Now() the middleware took
          rid,            \* the id taken from nextRequestID
          nextRequestID,  \* Server.nextRequestID
          clock,          \* the wall clock, in milliseconds
          answer,         \* what each lister's handler wrote
          recordedAt      \* history variable: q's place among the Adds
                          \* since the last Clear, 0 if it is not there

reqVars == <<pc, start, rid, nextRequestID, clock, answer, recordedAt>>
vars == <<bufVars, reqVars>>

-----------------------------------------------------------------------------
(* The part of a RequestRecord that the endpoint filters and orders by. *)
RequestRecord(q) == [id |-> rid[q], ts |-> start[q], req |-> q]

(* The values a record of the history can have. *)
Records == [id : 1 .. Cardinality(Req), ts : 0 .. MaxTime, req : Req]

ASSUME RecordAssumption == Records \subseteq Record

Query == [path   : Path \cup {AnyPath},
          from   : 0 .. MaxTime,      \* 0 also stands for an absent bound
          till   : 0 .. MaxTime,      \* MaxTime also stands for an absent one
          offset : -1 .. 2,
          limit  : -1 .. MaxPage + 1]

NoQuery == [path |-> AnyPath, from |-> 0, till |-> MaxTime,
            offset |-> 0, limit |-> 0]

recordMatchesFilter(rec, query) ==
  /\ query.path \in {AnyPath, PathOf[rec.req]}
  /\ rec.ts >= query.from
  /\ rec.ts <= query.till

filterRecords(recs, query) ==
  Keep(recs, {rec \in Range(recs) : recordMatchesFilter(rec, query)})

(* A page that is one record too long. *)
FaultyPaginateOverlaps(recs, offset, limit) ==
  LET lo == IF offset < 0 THEN 0
            ELSE IF offset > Len(recs) THEN Len(recs) ELSE offset
      hi == lo + (IF limit < 0 THEN 0 ELSE limit) + 1
  IN SubSeq(recs, lo + 1, IF hi > Len(recs) THEN Len(recs) ELSE hi)

paginateRecords(recs, offset, limit) ==
  LET lo == IF offset < 0 THEN 0
            ELSE IF offset > Len(recs) THEN Len(recs) ELSE offset
      hi == lo + (IF limit < 0 THEN 0 ELSE limit)
  IN SubSeq(recs, lo + 1, IF hi > Len(recs) THEN Len(recs) ELSE hi)

(* The page of the records `all' that handleGetRequests answers with. *)
RequestsPage(all, query) ==
  paginateRecords(filterRecords(all, query),
                  IF query.offset < 0 THEN 0 ELSE query.offset,
                  IF query.limit <= 0 \/ query.limit > MaxPage
                  THEN MaxPage ELSE query.limit)

-----------------------------------------------------------------------------
Init ==
  /\ NewRingBuffer
  /\ pc = [q \in Req |-> "idle"]
  /\ start = [q \in Req |-> 0]
  /\ rid = [q \in Req |-> 0]
  /\ nextRequestID = 0
  /\ clock = 0
  /\ answer = [q \in Listers |-> <<>>]
  /\ recordedAt = [q \in Req |-> 0]

(* The middleware takes the start time and calls next.ServeHTTP. *)
Arrive(q) ==
  /\ pc[q] = "idle"
  /\ pc' = [pc EXCEPT ![q] = "serving"]
  /\ start' = [start EXCEPT ![q] = clock]
  /\ UNCHANGED <<bufVars, rid, nextRequestID, clock, answer, recordedAt>>

(* A lister's handler reads the buffer and writes one page of it. *)
handleGetRequests(q, query) ==
  /\ q \in Listers
  /\ pc[q] = "serving"
  /\ pc' = [pc EXCEPT ![q] = "served"]
  /\ answer' = [answer EXCEPT ![q] = RequestsPage(GetAll, query)]
  /\ UNCHANGED <<bufVars, start, rid, nextRequestID, clock, recordedAt>>

(* Any other handler writes its response without touching the history. *)
ServeOther(q) ==
  /\ q \notin Listers
  /\ pc[q] = "serving"
  /\ pc' = [pc EXCEPT ![q] = "served"]
  /\ UNCHANGED <<bufVars, start, rid, nextRequestID, clock, answer, recordedAt>>

(* A counter whose increment is lost to a concurrent one. *)
FaultyTakeIDLosesUpdate(q) ==
  /\ pc[q] = "served"
  /\ pc' = [pc EXCEPT ![q] = "identified"]
  /\ nextRequestID' \in {nextRequestID, nextRequestID + 1}
  /\ rid' = [rid EXCEPT ![q] = nextRequestID + 1]
  /\ UNCHANGED <<bufVars, start, clock, answer, recordedAt>>

(* nextRequestID.Add(1): the id is taken when the handler has returned. *)
TakeID(q) ==
  /\ pc[q] = "served"
  /\ pc' = [pc EXCEPT ![q] = "identified"]
  /\ nextRequestID' = nextRequestID + 1
  /\ rid' = [rid EXCEPT ![q] = nextRequestID + 1]
  /\ UNCHANGED <<bufVars, start, clock, answer, recordedAt>>

(* The requests whose record was added since the last Clear. *)
Recorded == {q \in Req : recordedAt[q] > 0}

(* historyStore.Add(record). *)
RecordRequest(q) ==
  /\ pc[q] = "identified"
  /\ pc' = [pc EXCEPT ![q] = "done"]
  /\ Add(RequestRecord(q))
  /\ recordedAt' = [recordedAt EXCEPT ![q] = 1 + Cardinality(Recorded)]
  /\ UNCHANGED <<start, rid, nextRequestID, clock, answer>>

(* The store is cleared. *)
ClearHistory ==
  /\ Clear
  /\ recordedAt' = [q \in Req |-> 0]
  /\ UNCHANGED <<pc, start, rid, nextRequestID, clock, answer>>

(* Time passes. *)
Tick ==
  /\ clock < MaxTime
  /\ clock' = clock + 1
  /\ UNCHANGED <<bufVars, pc, start, rid, nextRequestID, answer, recordedAt>>

Next ==
  \/ Tick
  \/ ClearHistory
  \/ \E q \in Req :
       \/ Arrive(q)
       \/ ServeOther(q)
       \/ TakeID(q)
       \/ RecordRequest(q)
  \/ \E q \in Listers, query \in Query : handleGetRequests(q, query)

Spec == Init /\ [][Next]_vars

-----------------------------------------------------------------------------
(* Type correctness of the middleware's state and of the answered pages. *)
HistoryTypeOK ==
  /\ TypeOK
  /\ pc \in [Req -> {"idle", "serving", "served", "identified", "done"}]
  /\ start \in [Req -> 0 .. MaxTime]
  /\ rid \in [Req -> 0 .. Cardinality(Req)]
  /\ nextRequestID \in 0 .. Cardinality(Req)
  /\ clock \in 0 .. MaxTime
  /\ answer \in [Listers -> Seq(Records)]
  /\ recordedAt \in [Req -> 0 .. Cardinality(Req)]

(* However the goroutines interleave between taking an id and adding the   *)
(* record, the history holds exactly the requests whose middleware has     *)
(* finished since the last Clear and that fewer than Capacity later Adds   *)
(* have pushed out, and no two of its records share an id.                 *)
ExactlyNewestCompleted ==
  LET all == GetAll
  IN /\ {all[i].req : i \in DOMAIN all} =
          {q \in Recorded : Cardinality(Recorded) - recordedAt[q] < Capacity}
     /\ \A i, j \in DOMAIN all :
          i # j => all[i].id # all[j].id /\ all[i].req # all[j].req

(* Reading successive pages of one history with any legal limit returns    *)
(* every matching record exactly once and in order (RS.MAPI.8 to 12); a    *)
(* limit that is absent, negative or too large behaves as MaxPage.         *)
PagesPartition ==
  LET all == GetAll
  IN \A path \in Path \cup {AnyPath}, limit \in -1 .. MaxPage + 1 :
       LET query == [NoQuery EXCEPT !.path = path, !.limit = limit]
           step  == IF limit \in 1 .. MaxPage THEN limit ELSE MaxPage
           pages == [k \in 1 .. Capacity + 1 |->
                       RequestsPage(all,
                         [query EXCEPT !.offset = (k - 1) * step])]
       IN FlattenSeq(pages) =
            Keep(all, {rec \in Records :
                         path = AnyPath \/ PathOf[rec.req] = path})

(* RS.MAPI.7: without query parameters the server answers with the most    *)
(* recent records, up to the default limit.                                *)
DefaultPageIsMostRecent ==
  LET all == GetAll
      n   == IF Len(all) < MaxPage THEN Len(all) ELSE MaxPage
  IN RequestsPage(all, NoQuery) = SubSeq(all, Len(all) - n + 1, Len(all))

(* The comment on GetAll: records come in chronological order. *)
Chronological ==
  \A i, j \in DOMAIN GetAll : i < j => GetAll[i].ts <= GetAll[j].ts
=============================================================================
