---------------------------- MODULE TriggerSetup -----------------------------
(***************************************************************************)
(* How the examples of AsyncAPI documents become subscriptions and jobs    *)
(* when the server is built: registerEventSubscriptions of                 *)
(* internal/server/event_server.go over ClassifyTrigger of                 *)
(* internal/extensions/classify.go.                                        *)
(*                                                                         *)
(* A document is [prefix, examples]; an example is [address, name, match,  *)
(* interval, delay].  match is a set of conditions [key, val] ({} stands   *)
(* for a match that is absent or no object, not for an empty one),         *)
(* interval and delay are "absent", "good" or a way of being wrong.        *)
(***************************************************************************)
EXTENDS Naturals, Sequences, Functions

CONSTANTS Documents  \* the sequences of documents a server may be given

(* A match is an object: it names the event's name once, if at all.        *)
ASSUME DocumentsAssumption ==
  \A ds \in Documents :
    /\ ds \in Seq(Range(ds))
    /\ \A d \in Range(ds) : d.examples \in Seq(Range(d.examples))
    /\ \A d \in Range(ds) : \A x \in Range(d.examples) :
         /\ \A c \in x.match : c = [key |-> c.key, val |-> c.val]
         /\ \A c, e \in x.match : c.key = "event.name" /\ e.key = "event.name" => c = e

VARIABLES docs,     \* the schemas of this server
          schema,   \* the one that is being registered
          next,     \* the example that is classified next
          subs,     \* classified, not yet committed
          periodic, \* likewise
          pc,       \* "classify", "schedule", "done" or "failed"
          broker,   \* subscriptions: sequence of [ref, identity]
          jobs      \* the scheduler's jobs: id -> example

setupVars == <<docs, schema, next, subs, periodic, pc, broker, jobs>>

(* Keys: the event's name or another field of it, a field of a request,    *)
(* message or channel ("reply"), of the connection or of the state.        *)
(* Values: expressions on one of them, anything else is a literal; "<none>" *)
(* stands for what is no text at all, a number or a schema.                *)
Expression == {"$event", "$reply", "$connection", "$state"}

AnyIdentity == ""  \* the identity of a match that names no event

NoText == {"", "<none>"}

isFullExpression(v) == v \in Expression

ReferencesEvent(cond) == cond.key \in {"event.name", "event"} \/ cond.val = "$event"
ReferencesNonEventContext(cond) == cond.key = "reply" \/ cond.val = "$reply"

MatchReferencesEvent(match) == \E cond \in match : ReferencesEvent(cond)

MatchMixedContext(match) ==
  MatchReferencesEvent(match) /\ \E cond \in match : ReferencesNonEventContext(cond)

EventIdentity(match) ==
  LET named == {cond.val : cond \in {c \in match : c.key = "event.name"}} \ NoText
  IN IF named = {} THEN AnyIdentity ELSE CHOOSE v \in named : TRUE

Trigger(kind, identity) == [kind |-> kind, identity |-> identity]

MisTriggered == Trigger("error", AnyIdentity)

EventTrigger(identity) ==
  IF isFullExpression(identity) THEN MisTriggered ELSE Trigger("event", identity)

(* Takes an invalid interval for no interval. *)
FaultyClassifyTrigger(ex) ==
  IF MatchMixedContext(ex.match) THEN MisTriggered
  ELSE IF ex.interval = "good" THEN
    IF ex.match # {} THEN MisTriggered ELSE Trigger("periodic", AnyIdentity)
  ELSE IF ex.delay \notin {"absent", "good"} THEN MisTriggered
  ELSE IF MatchReferencesEvent(ex.match) THEN EventTrigger(EventIdentity(ex.match))
  ELSE Trigger("reply", AnyIdentity)

(* In the order of the code. *)
ClassifyTrigger(ex) ==
  IF MatchMixedContext(ex.match) THEN MisTriggered
  ELSE IF ex.interval = "good" THEN
    IF ex.match # {} THEN MisTriggered ELSE Trigger("periodic", AnyIdentity)
  ELSE IF ex.interval # "absent" \/ ex.delay \notin {"absent", "good"} THEN MisTriggered
  ELSE IF MatchReferencesEvent(ex.match) THEN EventTrigger(EventIdentity(ex.match))
  ELSE Trigger("reply", AnyIdentity)

-----------------------------------------------------------------------------
SetupInit ==
  /\ docs \in Documents
  /\ schema = 1 /\ next = 1
  /\ subs = <<>> /\ periodic = <<>>
  /\ pc = "classify"
  /\ broker = <<>> /\ jobs = <<>>

Examples == docs[schema].examples
InSchema == schema <= Len(docs)
Ref(i) == <<schema, i>>

(* Subscribes at once. *)
FaultyClassified(i, trigger) ==
  /\ broker' = IF trigger.kind = "event"
               THEN Append(broker, [ref |-> Ref(i), identity |-> trigger.identity]) ELSE broker
  /\ UNCHANGED subs

(* What classifyMessageExample accumulates. *)
Classified(i, trigger) ==
  /\ subs' = IF trigger.kind = "event"
             THEN Append(subs, [ref |-> Ref(i), identity |-> trigger.identity]) ELSE subs
  /\ UNCHANGED broker

(* One example is classified; an error gives up the server. *)
Classify ==
  /\ pc = "classify" /\ InSchema
  /\ next <= Len(Examples)
  /\ LET trigger == ClassifyTrigger(Examples[next])
     IN /\ pc' = IF trigger.kind = "error" THEN "failed" ELSE pc
        /\ IF trigger.kind = "error" THEN UNCHANGED <<subs, broker>> ELSE Classified(next, trigger)
        /\ periodic' = IF trigger.kind = "periodic" THEN Append(periodic, next) ELSE periodic
  /\ next' = next + 1
  /\ UNCHANGED <<docs, schema, jobs>>

(* All passed: the subscriptions are committed ... *)
AddSubscriptions ==
  /\ pc = "classify" /\ InSchema
  /\ next > Len(Examples)
  /\ broker' = broker \o subs
  /\ subs' = <<>>
  /\ pc' = "schedule"
  /\ UNCHANGED <<docs, schema, next, periodic, jobs>>

(* The id of a job: prefix, address and the example's name. *)
JobID(ex) == <<docs[schema].prefix, ex.address, ex.name>>

(* ... then each job, which replaces a job with its id ... *)
registerPeriodic ==
  /\ pc = "schedule"
  /\ periodic # <<>>
  /\ LET id == JobID(Examples[Head(periodic)])
     IN jobs' = [j \in DOMAIN jobs \cup {id} |-> IF j = id THEN Ref(Head(periodic)) ELSE jobs[j]]
  /\ periodic' = Tail(periodic)
  /\ UNCHANGED <<docs, schema, next, subs, pc, broker>>

(* ... and the next schema follows. *)
NextSchema ==
  /\ pc = "schedule"
  /\ periodic = <<>>
  /\ schema' = schema + 1
  /\ next' = 1
  /\ pc' = "classify"
  /\ UNCHANGED <<docs, subs, periodic, broker, jobs>>

Done ==
  /\ pc = "classify" /\ ~InSchema
  /\ pc' = "done"
  /\ UNCHANGED <<docs, schema, next, subs, periodic, broker, jobs>>

SetupNext == Classify \/ AddSubscriptions \/ registerPeriodic \/ NextSchema \/ Done

SetupSpec == SetupInit /\ [][SetupNext]_setupVars

-----------------------------------------------------------------------------
(* RS.EXT.20, 22-23, 28, 33-36, read off the specification: what must be   *)
(* rejected, and what drives an example that is not.                       *)
Contexts(ex) ==
  {IF cond.key = "event.name" THEN "event" ELSE cond.key : cond \in ex.match}
    \cup {"event" : cond \in {c \in ex.match : c.val = "$event"}}
    \cup {"reply" : cond \in {c \in ex.match : c.val = "$reply"}}

IsEvent(ex) == "event" \in Contexts(ex)
IsPeriodic(ex) == ex.interval = "good"

Misdeclared(ex) ==
  \/ {"event", "reply"} \subseteq Contexts(ex)
  \/ IsPeriodic(ex) /\ ex.match # {}
  \/ ex.interval \notin {"absent", "good"}
  \/ \E cond \in ex.match : cond.key = "event.name" /\ cond.val \in Expression

(* RS.EXT.36, of any example. *)
BadDelay(ex) == ex.delay \notin {"absent", "good"}

(* "The identity must be a literal string." *)
NamesNoText(ex) == \E cond \in ex.match : cond.key = "event.name" /\ cond.val \in NoText

Rejected(ex) == Misdeclared(ex) \/ BadDelay(ex) \/ NamesNoText(ex)

Refs == UNION {{s} \X DOMAIN docs[s].examples : s \in DOMAIN docs}
Of(ref) == docs[ref[1]].examples[ref[2]]
IdOf(ref) == <<docs[ref[1]].prefix, Of(ref).address, Of(ref).name>>

SubscribedRefs == {broker[i].ref : i \in DOMAIN broker}
ScheduledRefs == {jobs[j] : j \in DOMAIN jobs}

(* Types of the registration. *)
SetupTypeOK ==
  /\ pc \in {"classify", "schedule", "done", "failed"}
  /\ schema \in 1 .. Len(docs) + 1
  /\ SubscribedRefs \cup ScheduledRefs \subseteq Refs

(* "every example is validated first, and only when all pass are           *)
(* subscriptions and scheduler jobs committed": a schema that is rejected  *)
(* leaves nothing behind, in whichever example the fault is, and the ones  *)
(* before it are complete.  A server that is built has no example that the *)
(* specification rejects, but for two faults: the delay of a periodic      *)
(* example is not looked at, and an event name that is no text counts as   *)
(* none (EveryFaultyExampleRejected).  It subscribes every event-driven    *)
(* example once, under the event it names or under any, and has a job for  *)
(* every periodic example whose name, address and prefix are its own;      *)
(* replies get neither.                                                    *)
TriggersAllOrNothing ==
  /\ pc = "failed" =>
       /\ \E ref \in Refs : ref[1] = schema /\ Rejected(Of(ref))
       /\ \A ref \in SubscribedRefs \cup ScheduledRefs : ref[1] < schema
       /\ \A ref \in Refs : ref[1] < schema /\ IsEvent(Of(ref)) => ref \in SubscribedRefs
  /\ pc = "done" =>
       /\ \A ref \in Refs : ~Misdeclared(Of(ref)) /\ (BadDelay(Of(ref)) => IsPeriodic(Of(ref)))
       /\ SubscribedRefs = {ref \in Refs : IsEvent(Of(ref))}
       /\ \A i, j \in DOMAIN broker : broker[i].ref = broker[j].ref => i = j
       /\ \A i \in DOMAIN broker :
            \/ /\ broker[i].identity \notin NoText
               /\ [key |-> "event.name", val |-> broker[i].identity] \in Of(broker[i].ref).match
            \/ /\ broker[i].identity = AnyIdentity
               /\ \A cond \in Of(broker[i].ref).match : cond.key = "event.name" => cond.val \in NoText
       /\ ScheduledRefs \subseteq {ref \in Refs : IsPeriodic(Of(ref))}
       /\ \A ref \in Refs :
            IsPeriodic(Of(ref)) /\ (\A other \in Refs \ {ref} : IdOf(other) # IdOf(ref)) =>
              ref \in ScheduledRefs

(* Stronger claims that the code refutes.  RS.EXT.33 and RS.EXT.36: every  *)
(* example with a fault is rejected at load.                               *)
EveryFaultyExampleRejected ==
  pc = "done" => \A ref \in Refs : ~Rejected(Of(ref))

(* "The job id is scoped by prefix, address and example identity so        *)
(* distinct examples never collide."                                       *)
DistinctExamplesNeverCollide ==
  pc = "done" => ScheduledRefs = {ref \in Refs : IsPeriodic(Of(ref))}
=============================================================================
