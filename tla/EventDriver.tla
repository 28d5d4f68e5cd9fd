----------------------------- MODULE EventDriver -----------------------------
(***************************************************************************)
(* The event driver: the subscription broker (internal/eventbus/broker.go),*)
(* the delayed emissions of internal/server/message_delivery.go, the event *)
(* bus that joins them (event_server.go), and the runtime examples that    *)
(* POST and DELETE /_mock/examples register and remove                     *)
(* (server_runtime_example.go).  Of an interval job only its place in the  *)
(* scheduler's map is here; its goroutine is in Scheduler.                 *)
(*                                                                         *)
(* Handlers run concurrently with each other, with the goroutines they     *)
(* leave behind and with the shutdown.  An emission is the call of         *)
(* deliverExample for one resolved subscription.  Operators whose name     *)
(* starts with Faulty are deliberate misreadings.                          *)
(***************************************************************************)
EXTENDS Naturals, Sequences, SequencesExt, FiniteSets, Filter

CONSTANTS Ex,        \* message examples with a trigger, one subscription each
          SpecSeq,   \* those of the documents, in the order of their registration
          Periodic,  \* those with x-mock-interval
          Delayed,   \* those with x-mock-delay > 0
          Identity,  \* the event name each event-driven example asks for
          NoName,    \* the empty identity of a payload-only match
          Event,     \* the names clients use for events
          AnyEvent,  \* the broker key "*"
          SchemaOf,  \* the schema prefix each example belongs to
          Schema,    \* the schema prefixes
          Fire,      \* fire calls
          Call       \* what may be fired: [name, schema, global, delay, builtin]

EventEx == Ex \ Periodic
SpecEx  == Range(SpecSeq)

ASSUME DriverAssumption ==
  /\ SpecSeq \in Seq(Ex) /\ IsInjective(SpecSeq)
  /\ Periodic \subseteq Ex
  /\ Delayed \subseteq EventEx
  /\ Identity \in [EventEx -> Event \cup {NoName}]
  /\ NoName \notin Event \cup {AnyEvent}
  /\ SchemaOf \in [Ex -> Schema]
  /\ Call \subseteq [name : Event, schema : Schema, global : BOOLEAN,
                     delay : BOOLEAN, builtin : BOOLEAN]
  /\ Call # {}

VARIABLES byEvent,          \* Broker.byEvent
          jobs,             \* Scheduler.jobs, and why a job is missing in it
          runtimeExamples,  \* runtimeExampleRegistry.byID
          client,           \* how far POST and DELETE are for each example
          fire,             \* the fire calls and the goroutines they left
          shutdown          \* how far eventBus.shutdown is

vars == <<byEvent, jobs, runtimeExamples, client, fire, shutdown>>

Key == Event \cup {AnyEvent}

(* sanitizeIdentity: an empty identity becomes the wildcard key. *)
sanitizeIdentity(identity) == IF identity = NoName THEN AnyEvent ELSE identity

(* The key of the broker an example is registered under. *)
KeyOf(x) == sanitizeIdentity(Identity[x])

(* AddSubscriptions for one example. *)
Subscribe(x) == [byEvent EXCEPT ![KeyOf(x)] = Append(@, x)]

(* registerEventSubscriptions: what the documents register at startup. *)
StartupSubscriptions ==
  [k \in Key |-> Keep(SpecSeq, {x \in EventEx : KeyOf(x) = k})]

(* A job the scheduler holds runs; one whose delivery panicked is gone.    *)
NoJobs == [x \in Periodic |-> "none"]

StartupJobs == [x \in Periodic |-> IF x \in SpecEx THEN "running" ELSE "none"]

deliveryDone == shutdown \in {"delivery", "down"}
brokerDone   == shutdown = "down"

(* A fire call: subs is the resolved snapshot, st how far each one is.     *)
(* standing and gone are history variables: the examples subscribed when   *)
(* the call began, and those whose DELETE had returned by then.            *)
NotFired == [pc |-> "idle", call |-> CHOOSE c \in Call : TRUE,
             subs |-> <<>>, st |-> <<>>, standing |-> {}, gone |-> {}]

Init ==
  /\ byEvent = StartupSubscriptions
  /\ jobs = StartupJobs
  /\ runtimeExamples = {}
  /\ client = [x \in Ex |-> IF x \in SpecEx THEN "spec" ELSE "absent"]
  /\ fire = [f \in Fire |-> NotFired]
  /\ shutdown = "running"

Subscribed(x) == x \in EventEx /\ \E k \in Key : x \in Range(byEvent[k])

-----------------------------------------------------------------------------
(* POST /_mock/examples registers with the broker or the scheduler ... *)
PostRegister(x) ==
  /\ client[x] = "absent"
  /\ client' = [client EXCEPT ![x] = "posting"]
  /\ IF x \in Periodic
     THEN jobs' = [jobs EXCEPT ![x] = "running"] /\ UNCHANGED byEvent
     ELSE byEvent' = Subscribe(x) /\ UNCHANGED jobs
  /\ UNCHANGED <<runtimeExamples, fire, shutdown>>

(* ... then records the example and answers with its id. *)
PostRecord(x) ==
  /\ client[x] = "posting"
  /\ client' = [client EXCEPT ![x] = "posted"]
  /\ runtimeExamples' = runtimeExamples \cup {x}
  /\ UNCHANGED <<byEvent, jobs, fire, shutdown>>

(* DELETE forgets the example ...  (A second DELETE of the id answers 404.) *)
DeleteRecord(x) ==
  /\ client[x] = "posted"
  /\ x \in runtimeExamples
  /\ client' = [client EXCEPT ![x] = "deleting"]
  /\ runtimeExamples' = runtimeExamples \ {x}
  /\ UNCHANGED <<byEvent, jobs, fire, shutdown>>

(* Drops every subscription under the example's key. *)
FaultyDeleteDropsKey(x) ==
  /\ client[x] = "deleting"
  /\ client' = [client EXCEPT ![x] = "deleted"]
  /\ IF x \in Periodic
     THEN jobs' = [jobs EXCEPT ![x] = "none"] /\ UNCHANGED byEvent
     ELSE /\ byEvent' = [byEvent EXCEPT ![KeyOf(x)] = <<>>]
          /\ UNCHANGED jobs
  /\ UNCHANGED <<runtimeExamples, fire, shutdown>>

(* ... then RemoveRuntimeExample filters every key of the broker, or the   *)
(* scheduler cancels the job.                                              *)
DeleteUnregister(x) ==
  /\ client[x] = "deleting"
  /\ client' = [client EXCEPT ![x] = "deleted"]
  /\ IF x \in Periodic
     THEN jobs' = [jobs EXCEPT ![x] = "none"] /\ UNCHANGED byEvent
     ELSE /\ byEvent' = [k \in Key |-> Keep(byEvent[k], EventEx \ {x})]
          /\ UNCHANGED jobs
  /\ UNCHANGED <<runtimeExamples, fire, shutdown>>

(* A periodic delivery panics: recover cancels the job by its id, and      *)
(* leaves the example in the registry of POST and DELETE.                  *)
JobPanics(x) ==
  /\ x \in Periodic /\ jobs[x] = "running"
  /\ jobs' = [jobs EXCEPT ![x] = "panicked"]
  /\ UNCHANGED <<byEvent, runtimeExamples, client, fire, shutdown>>

-----------------------------------------------------------------------------
InScope(x, call) == call.global \/ SchemaOf[x] = call.schema

(* Ignores the schema of the subscriptions. *)
FaultyResolveIgnoresSchema(call) == byEvent[call.name] \o byEvent[AnyEvent]

(* The subscriptions of the event's name, then the wildcard ones. *)
ResolveSubscribers(call) ==
  Keep(byEvent[call.name] \o byEvent[AnyEvent], {x \in EventEx : InScope(x, call)})

HasSubscribers(call) ==
  \E x \in Range(byEvent[call.name] \o byEvent[AnyEvent]) : InScope(x, call)

(* Statuses of a resolved subscription. *)
Settled == {"emitted", "cancelled"}

(* A trigger fires: the observer is told, unless a built-in one finds no   *)
(* subscriber and is dropped.                                              *)
FireBegin(f, call) ==
  /\ fire[f].pc = "idle"
  /\ fire' = [fire EXCEPT ![f] =
       [NotFired EXCEPT
          !.pc = IF call.builtin /\ ~HasSubscribers(call) THEN "ended" ELSE "begun",
          !.call = call,
          !.standing = {x \in EventEx : Subscribed(x)},
          !.gone = {x \in Ex : client[x] = "deleted"}]]
  /\ UNCHANGED <<byEvent, jobs, runtimeExamples, client, shutdown>>

(* The snapshot is taken under the broker's lock; a delayed fire leaves a  *)
(* goroutine with a timer, any other delivers at once.                     *)
FireResolve(f) ==
  LET subs == ResolveSubscribers(fire[f].call)
  IN /\ fire[f].pc = "begun"
     /\ fire' = [fire EXCEPT
          ![f].pc = IF subs = <<>> THEN "ended"
                    ELSE IF fire[f].call.delay THEN "timer" ELSE "delivering",
          ![f].subs = subs,
          ![f].st = [i \in 1 .. Len(subs) |-> "queued"]]
     /\ UNCHANGED <<byEvent, jobs, runtimeExamples, client, shutdown>>

(* The delay of the fire elapses ... *)
FireTimerElapses(f) ==
  /\ fire[f].pc = "timer"
  /\ fire' = [fire EXCEPT ![f].pc = "ripe"]
  /\ UNCHANGED <<byEvent, jobs, runtimeExamples, client, shutdown>>


(* ... and the goroutine's select takes the timer, or the closed done      *)
(* channel of the broker; either one when both are ready.                  *)
FireSelectTimer(f) ==
  /\ fire[f].pc = "ripe"
  /\ fire' = [fire EXCEPT ![f].pc = "delivering"]
  /\ UNCHANGED <<byEvent, jobs, runtimeExamples, client, shutdown>>

FireSelectDone(f) ==
  /\ fire[f].pc \in {"timer", "ripe"}
  /\ brokerDone
  /\ fire' = [fire EXCEPT ![f].pc = "ended",
                          ![f].st = [i \in DOMAIN @ |-> "cancelled"]]
  /\ UNCHANGED <<byEvent, jobs, runtimeExamples, client, shutdown>>

-----------------------------------------------------------------------------
(* The index deliverAll has reached, and the status it leaves behind. *)
Reached(f) ==
  CHOOSE i \in DOMAIN fire[f].st :
    fire[f].st[i] = "queued" /\ \A j \in 1 .. i - 1 : fire[f].st[j] # "queued"

Queued(f) == {i \in DOMAIN fire[f].st : fire[f].st[i] = "queued"}

(* deliverTo for the next subscription of deliverAll: an example with its  *)
(* own delay leaves a goroutine, any other is emitted.                     *)
DeliverNext(f) ==
  LET i == Reached(f)
  IN /\ fire[f].pc = "delivering"
     /\ Queued(f) # {}
     /\ fire' = [fire EXCEPT ![f].st[i] =
                   IF fire[f].subs[i] \in Delayed THEN "timer" ELSE "emitted"]
     /\ UNCHANGED <<byEvent, jobs, runtimeExamples, client, shutdown>>

(* deliverAll has handed out every subscription. *)
DeliverEnd(f) ==
  /\ fire[f].pc = "delivering"
  /\ Queued(f) = {}
  /\ fire' = [fire EXCEPT ![f].pc = "ended"]
  /\ UNCHANGED <<byEvent, jobs, runtimeExamples, client, shutdown>>

(* The timer of a delayed example elapses ... *)
EmissionTimerElapses(f, i) ==
  /\ fire[f].st[i] = "timer"
  /\ fire' = [fire EXCEPT ![f].st[i] = "ripe"]
  /\ UNCHANGED <<byEvent, jobs, runtimeExamples, client, shutdown>>

(* Forgets sub.Delay = 0, so deliverTo delays the emission again. *)
FaultyDelayNotReset(f, i) ==
  /\ fire[f].st[i] = "ripe"
  /\ fire' = [fire EXCEPT ![f].st[i] = "timer"]
  /\ UNCHANGED <<byEvent, jobs, runtimeExamples, client, shutdown>>

(* ... and the select of its goroutine emits it, or gives up. *)
EmissionSelectTimer(f, i) ==
  /\ fire[f].st[i] = "ripe"
  /\ fire' = [fire EXCEPT ![f].st[i] = "emitted"]
  /\ UNCHANGED <<byEvent, jobs, runtimeExamples, client, shutdown>>

(* Gives up as soon as the shutdown begins to cancel jobs. *)
FaultyEmissionGivesUp(f, i) ==
  /\ fire[f].st[i] \in {"timer", "ripe"}
  /\ fire' = [fire EXCEPT ![f].st[i] = "cancelled"]
  /\ UNCHANGED <<byEvent, jobs, runtimeExamples, client, shutdown>>

EmissionSelectDone(f, i) ==
  /\ fire[f].st[i] \in {"timer", "ripe"}
  /\ deliveryDone
  /\ fire' = [fire EXCEPT ![f].st[i] = "cancelled"]
  /\ UNCHANGED <<byEvent, jobs, runtimeExamples, client, shutdown>>

-----------------------------------------------------------------------------
(* eventBus.shutdown: the jobs, the delayed emissions, the delayed fires. *)
ShutdownJobs ==
  /\ shutdown = "running"
  /\ shutdown' = "jobs"
  /\ jobs' = NoJobs
  /\ UNCHANGED <<byEvent, runtimeExamples, client, fire>>

ShutdownDelivery ==
  /\ shutdown = "jobs"
  /\ shutdown' = "delivery"
  /\ UNCHANGED <<byEvent, jobs, runtimeExamples, client, fire>>

StopBroker ==
  /\ shutdown = "delivery"
  /\ shutdown' = "down"
  /\ UNCHANGED <<byEvent, jobs, runtimeExamples, client, fire>>

-----------------------------------------------------------------------------
FireStep(f) ==
  \/ FireResolve(f)
  \/ FireSelectTimer(f)
  \/ FireSelectDone(f)
  \/ DeliverNext(f)
  \/ DeliverEnd(f)

EmissionStep(f, i) == EmissionSelectTimer(f, i) \/ EmissionSelectDone(f, i)

Next ==
  \/ \E x \in Ex : \/ PostRegister(x)
                   \/ PostRecord(x)
                   \/ DeleteRecord(x)
                   \/ DeleteUnregister(x)
                   \/ JobPanics(x)
  \/ \E f \in Fire, call \in Call : FireBegin(f, call)
  \/ \E f \in Fire : FireStep(f) \/ FireTimerElapses(f)
  \/ \E f \in Fire : \E i \in DOMAIN fire[f].st :
       EmissionStep(f, i) \/ EmissionTimerElapses(f, i)
  \/ ShutdownJobs
  \/ ShutdownDelivery
  \/ StopBroker

Spec == Init /\ [][Next]_vars

-----------------------------------------------------------------------------
FireCall == [pc : {"idle", "begun", "timer", "ripe", "delivering", "ended"},
             call : Call, subs : Seq(EventEx),
             st : Seq({"queued", "timer", "ripe"} \cup Settled),
             standing : SUBSET EventEx, gone : SUBSET Ex]

(* Type correctness of the broker, the registries and the fire calls. *)
TypeOK ==
  /\ byEvent \in [Key -> Seq(EventEx)]
  /\ jobs \in [Periodic -> {"none", "running", "panicked"}]
  /\ runtimeExamples \subseteq Ex \ SpecEx
  /\ client \in [Ex -> {"spec", "absent", "posting", "posted", "deleting", "deleted"}]
  /\ shutdown \in {"running", "jobs", "delivery", "down"}
  /\ fire \in [Fire -> FireCall]
  /\ \A f \in Fire : Len(fire[f].subs) = Len(fire[f].st)

(* How often an example is in the broker's table. *)
Occurrences(x) ==
  Cardinality(UNION {{k} \X {i \in DOMAIN byEvent[k] : byEvent[k][i] = x} : k \in Key})

(* POST and DELETE keep the broker, the scheduler and the runtime registry *)
(* in step, however handlers and the shutdown interleave: an example is    *)
(* subscribed exactly once from its POST to the end of its DELETE, the     *)
(* documents' own ones always; what DELETE can find is registered, unless  *)
(* a delivery panicked; no job outlives its DELETE.                        *)
RegistriesInStep ==
  /\ \A x \in EventEx :
       Occurrences(x) = IF client[x] \in {"absent", "deleted"} THEN 0 ELSE 1
  /\ \A x \in Ex \ SpecEx : x \in runtimeExamples <=> client[x] = "posted"
  /\ \A x \in Periodic :
       /\ jobs[x] # "none" => client[x] \notin {"absent", "deleted"}
       /\ client[x] \notin {"absent", "deleted"} /\ jobs[x] = "none" => shutdown # "running"

(* One fire never emits an example twice, whether it is found by name or   *)
(* by wildcard and whichever of the two delays it waits for, and emits     *)
(* only examples of the schemas the event is meant for that ask for this   *)
(* event or for any, and whose DELETE had not returned when it was fired.  *)
(* An event that is itself named like the wildcard is the exception.       *)
EmittedOnceInScope ==
  \A f \in Fire : \A i \in DOMAIN fire[f].st :
    fire[f].st[i] = "emitted" =>
      /\ InScope(fire[f].subs[i], fire[f].call)
      /\ KeyOf(fire[f].subs[i]) \in {fire[f].call.name, AnyEvent}
      /\ fire[f].subs[i] \notin fire[f].gone
      /\ fire[f].call.name # AnyEvent =>
           \A j \in DOMAIN fire[f].st :
             i # j /\ fire[f].st[j] = "emitted" => fire[f].subs[i] # fire[f].subs[j]

(* An event loses no subscriber: when the call and its goroutines are over *)
(* every example that was subscribed all along, in scope and under the     *)
(* event's name or as a wildcard was emitted, unless the shutdown had      *)
(* begun to cancel emissions.                                              *)
NoSubscriberLost ==
  \A f \in Fire :
    LET due == {x \in fire[f].standing :
                  /\ InScope(x, fire[f].call)
                  /\ KeyOf(x) \in {fire[f].call.name, AnyEvent}
                  /\ client[x] \in {"spec", "posting", "posted"}}
    IN fire[f].pc = "ended" /\ (Range(fire[f].st) \subseteq Settled) =>
         \A x \in due : deliveryDone \/ \E i \in DOMAIN fire[f].st :
                          fire[f].subs[i] = x /\ fire[f].st[i] = "emitted"

(* The comment on anyEventIdentity, "match-identified examples never       *)
(* collide with user-chosen event identities": no event finds one example  *)
(* twice.                                                                  *)
WildcardNeverCollides ==
  \A f \in Fire : IsInjective(fire[f].subs)

(* RS.AMG.30 and the comment on shutdown: once it has returned, nothing    *)
(* that was delayed is delivered.                                          *)
NoDelayedDeliveryAfterShutdown ==
  [][shutdown = "down" =>
       \A f \in Fire : \A i \in DOMAIN fire[f].st :
         (fire[f].call.delay \/ fire[f].subs[i] \in Delayed) =>
           (fire'[f].st[i] = "emitted" => fire[f].st[i] = "emitted")]_vars
=============================================================================
