------------------------------ MODULE Scheduler ------------------------------
(***************************************************************************)
(* The interval-job scheduler of internal/eventbus/scheduler.go.  Add,     *)
(* Cancel and Shutdown hold the mutex and are atomic; Run is a goroutine   *)
(* per job that takes no lock, so its two selects and its delivery         *)
(* interleave with everything else.                                        *)
(*                                                                         *)
(* Operators whose name starts with Faulty are deliberate misreadings of   *)
(* the code; the properties are shown to reject them.                      *)
(***************************************************************************)
EXTENDS Naturals

CONSTANTS ID,       \* job ids
          Job,      \* *ScheduledJob objects, each added at most once
          IdOf,     \* the id of each job
          NoJob     \* a missing map entry

ASSUME IdOfAssumption == IdOf \in [Job -> ID]
ASSUME NoJobAssumption == NoJob \notin Job

VARIABLES jobs,     \* Scheduler.jobs
          closes,   \* how often each job's stop channel was closed
          pc,       \* where each job's Run goroutine is
          ticked,   \* whether a tick waits in ticker.C (capacity 1)
          late      \* history variable: deliveries begun on a closed channel

vars == <<jobs, closes, pc, ticked, late>>

(* A job not yet added, registered but not yet running, at the first       *)
(* select, at the second one, inside Deliver, unwinding a panic, returned. *)
Location == {"new", "added", "check", "select", "deliver", "panicked", "ended"}

NewScheduler ==
  /\ jobs = [id \in ID |-> NoJob]
  /\ closes = [j \in Job |-> 0]
  /\ pc = [j \in Job |-> "new"]
  /\ ticked = [j \in Job |-> FALSE]
  /\ late = [j \in Job |-> 0]

stopped(j) == closes[j] > 0

-----------------------------------------------------------------------------
(* Replaces a registered job without ending its ticker loop. *)
FaultyAddKeepsOldRunning(j) ==
  /\ pc[j] = "new"
  /\ jobs' = [jobs EXCEPT ![IdOf[j]] = j]
  /\ pc' = [pc EXCEPT ![j] = "added"]
  /\ UNCHANGED <<closes, ticked, late>>

(* Add registers a job and closes the stop channel of the one it replaces. *)
Add(j) ==
  LET existing == jobs[IdOf[j]]
  IN /\ pc[j] = "new"
     /\ closes' = [k \in Job |-> IF k = existing THEN closes[k] + 1
                                                 ELSE closes[k]]
     /\ jobs' = [jobs EXCEPT ![IdOf[j]] = j]
     /\ pc' = [pc EXCEPT ![j] = "added"]
     /\ UNCHANGED <<ticked, late>>

(* Unregister the job of an id, if there is one, and close its channel. *)
Unregister(id) ==
  LET job == jobs[id]
  IN /\ jobs' = [jobs EXCEPT ![id] = NoJob]
     /\ closes' = [k \in Job |-> IF k = job THEN closes[k] + 1 ELSE closes[k]]

(* Cancel of an unknown id does nothing, as in the code. *)
Cancel(id) ==
  /\ jobs[id] # NoJob
  /\ Unregister(id)
  /\ UNCHANGED <<pc, ticked, late>>

Shutdown ==
  /\ jobs' = [id \in ID |-> NoJob]
  /\ closes' = [j \in Job |-> IF jobs[IdOf[j]] = j THEN closes[j] + 1
                                                   ELSE closes[j]]
  /\ UNCHANGED <<pc, ticked, late>>

-----------------------------------------------------------------------------
(* go Run(job): the ticker is created and the loop entered. *)
RunStart(j) ==
  /\ pc[j] = "added"
  /\ pc' = [pc EXCEPT ![j] = "check"]
  /\ UNCHANGED <<jobs, closes, ticked, late>>

(* The interval elapses; a tick nobody has read yet is not doubled.  The   *)
(* deferred ticker.Stop ends the ticks when Run leaves its loop.           *)
TickerFires(j) ==
  /\ pc[j] \in {"check", "select", "deliver"}
  /\ ticked' = [ticked EXCEPT ![j] = TRUE]
  /\ UNCHANGED <<jobs, closes, pc, late>>

(* A loop whose first select is missing: stop is only looked at together   *)
(* with the ticker.                                                        *)
FaultyCheckSkipped(j) ==
  /\ pc[j] = "check"
  /\ pc' = [pc EXCEPT ![j] = "select"]
  /\ UNCHANGED <<jobs, closes, ticked, late>>

(* The first select: stop, or default. *)
RunCheck(j) ==
  /\ pc[j] = "check"
  /\ pc' = [pc EXCEPT ![j] = IF stopped(j) THEN "ended" ELSE "select"]
  /\ UNCHANGED <<jobs, closes, ticked, late>>

(* The second select takes the stop case ... *)
RunSelectStop(j) ==
  /\ pc[j] = "select"
  /\ stopped(j)
  /\ pc' = [pc EXCEPT ![j] = "ended"]
  /\ UNCHANGED <<jobs, closes, ticked, late>>

(* ... or the tick; Go picks either when both are ready. *)
RunSelectTick(j) ==
  /\ pc[j] = "select"
  /\ ticked[j]
  /\ ticked' = [ticked EXCEPT ![j] = FALSE]
  /\ pc' = [pc EXCEPT ![j] = "deliver"]
  /\ late' = [late EXCEPT ![j] = IF stopped(j) THEN @ + 1 ELSE @]
  /\ UNCHANGED <<jobs, closes>>

(* job.Deliver() returns and the loop starts over. *)
DeliverReturns(j) ==
  /\ pc[j] = "deliver"
  /\ pc' = [pc EXCEPT ![j] = "check"]
  /\ UNCHANGED <<jobs, closes, ticked, late>>

(* job.Deliver() panics. *)
DeliverPanics(j) ==
  /\ pc[j] = "deliver"
  /\ pc' = [pc EXCEPT ![j] = "panicked"]
  /\ UNCHANGED <<jobs, closes, ticked, late>>

(* A recovery that only logs. *)
FaultyRecoverOnlyLogs(j) ==
  /\ pc[j] = "panicked"
  /\ pc' = [pc EXCEPT ![j] = "ended"]
  /\ UNCHANGED <<jobs, closes, ticked, late>>

(* A recovery that waits for an entry which is already gone. *)
FaultyRecoverWaitsForEntry(j) ==
  /\ pc[j] = "panicked"
  /\ jobs[IdOf[j]] = j
  /\ pc' = [pc EXCEPT ![j] = "ended"]
  /\ Unregister(IdOf[j])
  /\ UNCHANGED <<ticked, late>>

(* The deferred recover cancels whatever is registered under the job's id. *)
RunRecover(j) ==
  /\ pc[j] = "panicked"
  /\ pc' = [pc EXCEPT ![j] = "ended"]
  /\ Unregister(IdOf[j])
  /\ UNCHANGED <<ticked, late>>

Run(j) ==
  \/ RunStart(j)
  \/ RunCheck(j)
  \/ RunSelectStop(j)
  \/ RunSelectTick(j)
  \/ RunRecover(j)

Next ==
  \/ \E j \in Job : Add(j) \/ TickerFires(j) \/ Run(j)
  \/ \E j \in Job : DeliverReturns(j) \/ DeliverPanics(j)
  \/ \E id \in ID : Cancel(id)
  \/ Shutdown

Spec == NewScheduler /\ [][Next]_vars

(* The Go scheduler keeps running a goroutine that can run, the ticker     *)
(* keeps firing, and a delivery ends, one way or the other (every write it *)
(* makes has a deadline).  Nobody is obliged to add or to cancel a job.    *)
Fairness ==
  \A j \in Job : /\ WF_vars(Run(j))
                 /\ WF_vars(TickerFires(j))
                 /\ WF_vars(DeliverReturns(j) \/ DeliverPanics(j))

FairSpec == Spec /\ Fairness

-----------------------------------------------------------------------------
(* Type correctness of the scheduler's map and of the goroutines' state. *)
TypeOK ==
  /\ jobs \in [ID -> Job \cup {NoJob}]
  /\ closes \in [Job -> Nat]
  /\ pc \in [Job -> Location]
  /\ ticked \in [Job -> BOOLEAN]
  /\ late \in [Job -> Nat]

(* A map entry is always filed under the job's own id. *)
FiledUnderOwnId == \A id \in ID : jobs[id] # NoJob => IdOf[jobs[id]] = id

(* A job that was added is either registered under its id with its stop    *)
(* channel open, or gone from the map with its channel closed exactly once *)
(* (a second close would panic): no replacement, cancellation, shutdown or *)
(* panic leaves a loop running that nobody can stop any more.              *)
RegisteredIffOpen ==
  /\ FiledUnderOwnId
  /\ \A j \in Job :
       /\ jobs[IdOf[j]] = j => closes[j] = 0 /\ pc[j] # "new"
       /\ jobs[IdOf[j]] # j => closes[j] = IF pc[j] = "new" THEN 0 ELSE 1

(* What the two selects of Run guarantee: once a job's channel is closed   *)
(* it begins at most one more delivery, and does not wait for a tick again *)
(* after that one.                                                         *)
AtMostOneLateDelivery ==
  \A j \in Job : late[j] <= 1 /\ (late[j] = 1 => stopped(j) /\ pc[j] # "select")

(* What the comment on Run promises: a cancelled job runs no further       *)
(* delivery, even when a tick is already due.                              *)
NoDeliveryAfterCancel == \A j \in Job : late[j] = 0

(* What the comment on Run promises of a panic: it is contained, and the   *)
(* scheduler keeps serving the other jobs.                                 *)
PanicIsContained ==
  [][\A j \in Job : RunRecover(j) =>
       \A k \in Job \ {j} : closes'[k] = closes[k]]_vars

(* A job that is cancelled, replaced or shut down ends its goroutine: no   *)
(* ticker leaks, even if the tick keeps winning the race in the select.    *)
StoppedJobEnds ==
  \A j \in Job : (stopped(j) /\ pc[j] # "new") ~> (pc[j] = "ended")

(* A registered job keeps delivering: its loop is never lost, whatever     *)
(* happens to other jobs, until somebody closes its channel.               *)
RegisteredJobKeepsDelivering ==
  \A j \in Job : (jobs[IdOf[j]] = j) ~> (pc[j] = "deliver" \/ stopped(j))
=============================================================================
