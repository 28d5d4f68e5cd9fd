------------------------ MODULE ServerLifecycleProofs ------------------------
(***************************************************************************)
(* Theorems about the event driver and the life of the process, for every  *)
(* set of examples, events, fire calls and settings; and about the         *)
(* recipients of an event, for every set of consumers, channels, examples  *)
(* and events: exactly the consumers in reach that the match wants are     *)
(* sent it, each once.                                                     *)
(***************************************************************************)
EXTENDS ServerLifecycle, EventDelivery, FilterProofs, FiniteSetTheorems, TLAPS

Registered(x) == client[x] \notin {"absent", "deleted"}

Standing(x) == client[x] \in {"spec", "posting", "posted"}

(* Under each key the broker holds the registered examples of that key,    *)
(* each once.                                                              *)
BrokerInStep ==
  \A k \in Key :
    /\ IsInjective(byEvent[k])
    /\ Range(byEvent[k]) = {x \in EventEx : KeyOf(x) = k /\ Registered(x)}

RuntimeInStep == \A x \in Ex \ SpecEx : x \in runtimeExamples <=> client[x] = "posted"

JobsInStep ==
  \A x \in Periodic :
    /\ jobs[x] # "none" => Registered(x)
    /\ Registered(x) /\ jobs[x] = "none" => shutdown # "running"

SpecInStep == \A x \in SpecEx : client[x] \in {"absent", "spec"}

(* What is asked of an example a call may emit. *)
Asked(call, x) == InScope(x, call) /\ KeyOf(x) \in {call.name, AnyEvent}

(* The snapshot of a call: what it holds was asked for and not gone, what  *)
(* stood all along is in it.                                               *)
FireInStep(f) ==
  LET c == fire[f]
  IN /\ c.pc \in {"idle", "begun"} => c.subs = <<>>
     /\ \A x \in c.gone : client[x] = "deleted"
     /\ \A x \in c.standing : client[x] # "absent"
     /\ \A i \in DOMAIN c.subs : Asked(c.call, c.subs[i]) /\ c.subs[i] \notin c.gone
     /\ c.call.name # AnyEvent => IsInjective(c.subs)
     /\ c.pc \notin {"idle", "begun"} =>
          \A x \in c.standing : Asked(c.call, x) /\ Standing(x) => x \in Range(c.subs)
     /\ \A i \in DOMAIN c.st : c.st[i] = "cancelled" => deliveryDone

FiresInStep == \A f \in Fire : FireInStep(f)

DriverInv ==
  /\ TypeOK
  /\ BrokerInStep
  /\ RuntimeInStep
  /\ JobsInStep
  /\ SpecInStep
  /\ FiresInStep

-----------------------------------------------------------------------------
(* Every event-driven example has a key of the broker. *)
LEMMA KeyOfType == \A x \in EventEx : KeyOf(x) \in Key
BY DriverAssumption DEF KeyOf, sanitizeIdentity, Key

(* registerEventSubscriptions: under each key the examples of the          *)
(* documents that ask for it, each once.                                   *)
LEMMA StartupRegisters ==
  /\ StartupSubscriptions \in [Key -> Seq(EventEx)]
  /\ \A k \in Key :
       /\ IsInjective(StartupSubscriptions[k])
       /\ Range(StartupSubscriptions[k]) = {x \in SpecEx \cap EventEx : KeyOf(x) = k}
<1> SUFFICES ASSUME NEW k \in Key
             PROVE  LET s == Keep(SpecSeq, {x \in EventEx : KeyOf(x) = k})
                    IN /\ s \in Seq(EventEx) /\ IsInjective(s)
                       /\ Range(s) = {x \in SpecEx \cap EventEx : KeyOf(x) = k}
  BY DEF StartupSubscriptions
<1> DEFINE S == {x \in EventEx : KeyOf(x) = k}
<1>1. SpecSeq \in Seq(Ex) /\ IsInjective(SpecSeq)
  BY DriverAssumption
<1>2. Keep(SpecSeq, S) \in Seq(Ex \cap S) /\ Range(Keep(SpecSeq, S)) = Range(SpecSeq) \cap S
  BY <1>1, KeepRange
<1>3. Keep(SpecSeq, S) \in Seq(EventEx)
  <2>1. Ex \cap S \subseteq EventEx
    OBVIOUS
  <2> HIDE DEF S
  <2> QED
    BY <1>2, <2>1, SeqMonotonic
<1>4. IsInjective(Keep(SpecSeq, S))
  BY <1>1, KeepDistinct
<1> QED
  BY <1>2, <1>3, <1>4 DEF SpecEx

(* The broker's table and the client's view after a registration. *)
LEMMA SubscribeInStep ==
  ASSUME TypeOK, BrokerInStep, NEW x \in EventEx, client[x] = "absent",
         client' = [client EXCEPT ![x] = "posting"], byEvent' = Subscribe(x)
  PROVE  byEvent' \in [Key -> Seq(EventEx)] /\ BrokerInStep'
<1>1. KeyOf(x) \in Key /\ x \in Ex
  BY KeyOfType DEF EventEx
<1>2. byEvent \in [Key -> Seq(EventEx)] /\ client \in [Ex -> {"spec", "absent", "posting", "posted", "deleting", "deleted"}]
  BY DEF TypeOK
<1>3. byEvent' = [byEvent EXCEPT ![KeyOf(x)] = Append(byEvent[KeyOf(x)], x)]
  BY DEF Subscribe
<1>4. byEvent' \in [Key -> Seq(EventEx)]
  BY <1>1, <1>2, <1>3, AppendProperties
<1>5. ASSUME NEW k \in Key
      PROVE  /\ IsInjective(byEvent'[k])
             /\ Range(byEvent'[k]) = {y \in EventEx : KeyOf(y) = k /\ Registered(y)'}
  <2>1. byEvent[k] \in Seq(EventEx) /\ IsInjective(byEvent[k])
        /\ Range(byEvent[k]) = {y \in EventEx : KeyOf(y) = k /\ Registered(y)}
    BY <1>2 DEF BrokerInStep
  <2>2. \A y \in EventEx : Registered(y)' <=> Registered(y) \/ y = x
    BY <1>1, <1>2 DEF Registered, EventEx
  <2>3. CASE k = KeyOf(x)
    <3>1. byEvent'[k] = Append(byEvent[k], x)
      BY <2>3, <1>2, <1>3
    <3>2. x \notin Range(byEvent[k])
      BY <2>1 DEF Registered
    <3>3. Range(byEvent'[k]) = Range(byEvent[k]) \cup {x}
      BY <2>1, <3>1, AppendRange
    <3>4. IsInjective(byEvent'[k])
      BY <2>1, <3>1, <3>2, AppendDistinct
    <3> QED
      BY <2>1, <2>2, <2>3, <3>3, <3>4
  <2>4. CASE k # KeyOf(x)
    <3>1. byEvent'[k] = byEvent[k]
      BY <2>4, <1>2, <1>3
    <3> QED
      BY <2>1, <2>2, <2>4, <3>1
  <2> QED
    BY <2>3, <2>4
<1> QED
  BY <1>4, <1>5 DEF BrokerInStep

(* The same after RemoveRuntimeExample. *)
LEMMA UnsubscribeInStep ==
  ASSUME TypeOK, BrokerInStep, NEW x \in EventEx,
         client' = [client EXCEPT ![x] = "deleted"],
         byEvent' = [k \in Key |-> Keep(byEvent[k], EventEx \ {x})]
  PROVE  byEvent' \in [Key -> Seq(EventEx)] /\ BrokerInStep'
<1>1. x \in Ex /\ client \in [Ex -> {"spec", "absent", "posting", "posted", "deleting", "deleted"}]
  BY DEF EventEx, TypeOK
<1>2. ASSUME NEW k \in Key
      PROVE  /\ byEvent'[k] \in Seq(EventEx) /\ IsInjective(byEvent'[k])
             /\ Range(byEvent'[k]) = {y \in EventEx : KeyOf(y) = k /\ Registered(y)'}
  <2>1. byEvent[k] \in Seq(EventEx) /\ IsInjective(byEvent[k])
        /\ Range(byEvent[k]) = {y \in EventEx : KeyOf(y) = k /\ Registered(y)}
    BY DEF BrokerInStep, TypeOK
  <2>2. \A y \in EventEx : Registered(y)' <=> Registered(y) /\ y # x
    BY <1>1 DEF Registered, EventEx
  <2> DEFINE S == EventEx \ {x}
  <2>3. byEvent'[k] = Keep(byEvent[k], S)
    OBVIOUS
  <2>4. Keep(byEvent[k], S) \in Seq(EventEx \cap S) /\ Range(Keep(byEvent[k], S)) = Range(byEvent[k]) \cap S
    BY <2>1, KeepRange
  <2>5. Keep(byEvent[k], S) \in Seq(EventEx)
    <3>1. EventEx \cap S \subseteq EventEx
      OBVIOUS
    <3> HIDE DEF S
    <3> QED
      BY <2>4, <3>1, SeqMonotonic
  <2>6. IsInjective(Keep(byEvent[k], S))
    BY <2>1, KeepDistinct
  <2> QED
    BY <2>1, <2>2, <2>3, <2>4, <2>5, <2>6
<1>3. byEvent' \in [Key -> Seq(EventEx)]
  BY <1>2
<1> QED
  BY <1>2, <1>3 DEF BrokerInStep

(* What a fire call finds: everything that is registered and asked for. *)
LEMMA ResolvesAsked ==
  ASSUME TypeOK, BrokerInStep, NEW call \in Call
  PROVE  LET s == ResolveSubscribers(call)
         IN /\ s \in Seq(EventEx)
            /\ Range(s) = {x \in EventEx : Asked(call, x) /\ Registered(x)}
            /\ call.name # AnyEvent => IsInjective(s)
<1> DEFINE a == byEvent[call.name]
           b == byEvent[AnyEvent]
           S == {x \in EventEx : InScope(x, call)}
<1>1. call.name \in Key /\ AnyEvent \in Key
  BY DriverAssumption DEF Key
<1>2. a \in Seq(EventEx) /\ b \in Seq(EventEx)
  BY <1>1 DEF TypeOK
<1>3. /\ IsInjective(a) /\ Range(a) = {x \in EventEx : KeyOf(x) = call.name /\ Registered(x)}
      /\ IsInjective(b) /\ Range(b) = {x \in EventEx : KeyOf(x) = AnyEvent /\ Registered(x)}
  BY <1>1 DEF BrokerInStep
<1>4. ResolveSubscribers(call) = Keep(a \o b, S)
  BY DEF ResolveSubscribers
<1> HIDE DEF a, b
<1>5. a \o b \in Seq(EventEx) /\ Range(a \o b) = Range(a) \cup Range(b)
  BY <1>2, ConcatProperties, RangeConcatenation
<1>6. Keep(a \o b, S) \in Seq(EventEx \cap S) /\ Range(Keep(a \o b, S)) = (Range(a) \cup Range(b)) \cap S
  BY <1>5, KeepRange
<1>7. Keep(a \o b, S) \in Seq(EventEx)
  <2>1. EventEx \cap S \subseteq EventEx
    OBVIOUS
  <2> HIDE DEF S
  <2> QED
    BY <1>6, <2>1, SeqMonotonic
<1>8. ASSUME call.name # AnyEvent PROVE IsInjective(Keep(a \o b, S))
  <2>1. Range(a) \cap Range(b) = {}
    BY <1>3, <1>8
  <2>2. IsInjective(a \o b)
    BY <1>2, <1>3, <2>1, ConcatDistinct
  <2> QED
    BY <1>5, <2>2, KeepDistinct
<1>9. (Range(a) \cup Range(b)) \cap S = {x \in EventEx : Asked(call, x) /\ Registered(x)}
  BY <1>3 DEF Asked
<1> QED
  BY <1>4, <1>6, <1>7, <1>8, <1>9

(* A step that leaves a call alone and lets clients only go forward. *)
ClientsGoOn ==
  \A x \in Ex : /\ client[x] = "deleted" => client'[x] = "deleted"
                /\ client[x] # "absent" => client'[x] # "absent"
                /\ Standing(x)' => Standing(x) \/ client[x] = "absent"

(* Such a step keeps what is known of the call. *)
LEMMA FireUndisturbed ==
  ASSUME TypeOK, NEW f \in Fire, FireInStep(f), fire'[f] = fire[f],
         ClientsGoOn, deliveryDone => deliveryDone'
  PROVE  FireInStep(f)'
<1>1. fire[f].gone \subseteq Ex /\ fire[f].standing \subseteq Ex
  BY DEF TypeOK, FireCall, EventEx
<1> QED
  BY <1>1 DEF FireInStep, ClientsGoOn

(* The status of one emission changes. *)
LEMMA StatusType ==
  ASSUME NEW V, NEW s \in Seq(V), NEW i, NEW v \in V
  PROVE  LET t == [s EXCEPT ![i] = v]
         IN /\ t \in Seq(V) /\ Len(t) = Len(s) /\ DOMAIN t = DOMAIN s
            /\ \A j \in DOMAIN s : t[j] = s[j] \/ t[j] = v
<1>1. Len(s) \in Nat /\ s \in [1 .. Len(s) -> V]
  BY LenProperties
<1> DEFINE t == [s EXCEPT ![i] = v]
<1>2. t \in [1 .. Len(s) -> V] /\ \A j \in DOMAIN s : t[j] = s[j] \/ t[j] = v
  BY <1>1
<1>3. t \in Seq(V) /\ Len(t) = Len(s)
  <2> HIDE DEF t
  <2> QED
    BY <1>1, <1>2, IsASeq, LenProperties
<1> QED
  BY <1>1, <1>2, <1>3

Status == {"queued", "timer", "ripe"} \cup Settled

Rest == <<byEvent, jobs, runtimeExamples, client, shutdown>>

(* Only the call f changes. *)
LEMMA FireMoves ==
  ASSUME DriverInv, NEW f \in Fire, NEW c \in FireCall, Len(c.subs) = Len(c.st),
         fire' = [fire EXCEPT ![f] = c], UNCHANGED Rest, FireInStep(f)'
  PROVE  DriverInv'
<1> USE DEF Rest
<1>1. fire \in [Fire -> FireCall] /\ TypeOK
  BY DEF DriverInv, TypeOK
<1>2. TypeOK'
  BY <1>1 DEF TypeOK
<1>3. BrokerInStep' /\ RuntimeInStep' /\ JobsInStep' /\ SpecInStep'
  BY DEF DriverInv, BrokerInStep, RuntimeInStep, JobsInStep, SpecInStep, Registered
<1>4. ASSUME NEW g \in Fire PROVE FireInStep(g)'
  <2>1. CASE g = f
    BY <2>1
  <2>2. CASE g # f
    <3>1. fire'[g] = fire[g] /\ FireInStep(g)
      BY <1>1, <2>2 DEF DriverInv, FiresInStep
    <3>2. ClientsGoOn /\ (deliveryDone => deliveryDone')
      BY DEF ClientsGoOn, Standing, deliveryDone
    <3> QED
      BY <1>1, <3>1, <3>2, FireUndisturbed
  <2> QED
    BY <2>1, <2>2
<1> QED
  BY <1>2, <1>3, <1>4 DEF DriverInv, FiresInStep

(* The call goes on with what it resolved. *)
LEMMA FireGoesOn ==
  ASSUME DriverInv, NEW f \in Fire, fire[f].pc \notin {"idle", "begun"},
         NEW pc \in {"timer", "ripe", "delivering", "ended"},
         NEW st \in Seq(Status), Len(st) = Len(fire[f].st),
         \A i \in DOMAIN st : st[i] = "cancelled" => fire[f].st[i] = "cancelled" \/ deliveryDone,
         fire' = [fire EXCEPT ![f] = [fire[f] EXCEPT !.pc = pc, !.st = st]],
         UNCHANGED Rest
  PROVE  DriverInv'
<1> DEFINE c == [fire[f] EXCEPT !.pc = pc, !.st = st]
<1>1. fire \in [Fire -> FireCall] /\ Len(fire[f].subs) = Len(fire[f].st)
  BY DEF DriverInv, TypeOK
<1>2. c \in FireCall /\ c.pc = pc /\ c.st = st /\ c.call = fire[f].call /\ c.subs = fire[f].subs
      /\ c.standing = fire[f].standing /\ c.gone = fire[f].gone
  BY <1>1 DEF FireCall, Status
<1>3. fire' = [fire EXCEPT ![f] = c]
  OBVIOUS
<1>4. fire'[f] = c
  BY <1>1
<1> HIDE DEF c
<1>5. DOMAIN st = DOMAIN fire[f].st
  <2>1. fire[f].st \in Seq(Status)
    BY <1>1 DEF FireCall, Status
  <2> QED
    BY <2>1, LenProperties
<1>6. FireInStep(f)
  BY DEF DriverInv, FiresInStep
<1>7. FireInStep(f)'
  BY <1>2, <1>4, <1>5, <1>6 DEF FireInStep, Rest, deliveryDone, Standing
<1> QED
  BY <1>1, <1>2, <1>3, <1>7, FireMoves

(* The fields of a call. *)
LEMMA FireCallFields ==
  ASSUME DriverInv, NEW f \in Fire
  PROVE  /\ fire[f] \in FireCall /\ fire \in [Fire -> FireCall]
         /\ fire[f].call \in Call /\ fire[f].subs \in Seq(EventEx) /\ fire[f].st \in Seq(Status)
         /\ Len(fire[f].subs) = Len(fire[f].st) /\ FireInStep(f)
BY DEF DriverInv, TypeOK, FireCall, Status, FiresInStep

(* A fire begins: a built-in event that is dropped had nobody to reach. *)
LEMMA FireBeginInStep ==
  ASSUME DriverInv, NEW f \in Fire, NEW call \in Call, FireBegin(f, call)
  PROVE  DriverInv'
<1> DEFINE pc == IF call.builtin /\ ~HasSubscribers(call) THEN "ended" ELSE "begun"
           standing == {x \in EventEx : Subscribed(x)}
           gone == {x \in Ex : client[x] = "deleted"}
           c == [NotFired EXCEPT !.pc = pc, !.call = call, !.standing = standing, !.gone = gone]
<1>1. fire' = [fire EXCEPT ![f] = c] /\ UNCHANGED Rest
  BY DEF FireBegin, Rest
<1>2. /\ c.pc = pc /\ c.call = call /\ c.subs = <<>> /\ c.st = <<>>
      /\ c.standing = standing /\ c.gone = gone
  BY DEF NotFired
<1>3. c \in FireCall
  BY EmptySeq DEF NotFired, FireCall
<1>4. fire'[f] = c
  BY <1>1, FireCallFields
<1>5. \A x \in standing : \E k \in Key : x \in Range(byEvent[k]) /\ KeyOf(x) = k /\ Registered(x)
  BY DEF Subscribed, DriverInv, BrokerInStep
<1>6. ASSUME pc = "ended", NEW x \in standing, Asked(call, x) PROVE FALSE
  <2>1. x \in Range(byEvent[call.name]) \/ x \in Range(byEvent[AnyEvent])
    BY <1>5, <1>6 DEF Asked
  <2>2. byEvent[call.name] \in Seq(EventEx) /\ byEvent[AnyEvent] \in Seq(EventEx)
    BY DriverAssumption DEF DriverInv, TypeOK, Key
  <2>3. x \in Range(byEvent[call.name] \o byEvent[AnyEvent])
    BY <2>1, <2>2, RangeConcatenation
  <2> QED
    BY <1>6, <2>3 DEF HasSubscribers, Asked
<1>7. FireInStep(f)'
  <2> HIDE DEF c, standing, gone
  <2>1. client' = client
    BY <1>1 DEF Rest
  <2>2. \A x \in gone : client[x] = "deleted"
    BY DEF gone
  <2>3. \A x \in standing : client[x] # "absent"
    BY <1>5 DEF Registered
  <2>4. DOMAIN <<>> = {} /\ IsInjective(<<>>)
    BY DEF IsInjective
  <2> QED
    BY <1>2, <1>4, <1>6, <2>1, <2>2, <2>3, <2>4 DEF FireInStep
<1>8. Len(c.subs) = Len(c.st)
  BY <1>2
<1> HIDE DEF c
<1> QED
  BY <1>1, <1>3, <1>7, <1>8, FireMoves

(* A fire takes its snapshot. *)
LEMMA FireResolveInStep ==
  ASSUME DriverInv, NEW f \in Fire, FireResolve(f)
  PROVE  DriverInv'
<1> DEFINE call == fire[f].call
           subs == ResolveSubscribers(call)
           pc == IF subs = <<>> THEN "ended" ELSE IF call.delay THEN "timer" ELSE "delivering"
           st == [i \in 1 .. Len(subs) |-> "queued"]
           c == [fire[f] EXCEPT !.pc = pc, !.subs = subs, !.st = st]
<1>1. fire \in [Fire -> FireCall] /\ fire[f] \in FireCall /\ call \in Call
  BY FireCallFields
<1>2. /\ subs \in Seq(EventEx)
      /\ Range(subs) = {x \in EventEx : Asked(call, x) /\ Registered(x)}
      /\ call.name # AnyEvent => IsInjective(subs)
  BY <1>1, ResolvesAsked DEF DriverInv
<1>3. fire' = [fire EXCEPT ![f] = c] /\ UNCHANGED Rest /\ fire[f].pc = "begun"
  BY <1>1 DEF FireResolve, Rest
<1> HIDE DEF subs
<1>4. Len(subs) \in Nat /\ DOMAIN subs = 1 .. Len(subs)
  BY <1>2, LenProperties
<1>5. st \in Seq(Status) /\ Len(st) = Len(subs)
  BY <1>4 DEF Status
<1>6. c \in FireCall /\ c.pc = pc /\ c.subs = subs /\ c.st = st
      /\ c.call = call /\ c.standing = fire[f].standing /\ c.gone = fire[f].gone
  BY <1>1, <1>2, <1>5 DEF FireCall, Status
<1>7. fire'[f] = c
  BY <1>1, <1>3
<1>8. FireInStep(f) /\ client' = client
  BY <1>3, FireCallFields DEF Rest
<1>9. FireInStep(f)'
  <2>1. \A i \in DOMAIN subs : subs[i] \in Range(subs)
    BY DEF Range
  <2>2. \A i \in DOMAIN subs : Asked(call, subs[i]) /\ subs[i] \notin fire[f].gone
    BY <1>2, <1>8, <2>1 DEF FireInStep, Registered
  <2>3. \A x \in fire[f].standing : Asked(call, x) /\ Standing(x) => x \in Range(subs)
    BY <1>1, <1>2 DEF FireCall, Standing, Registered
  <2>4. \A i \in DOMAIN st : st[i] # "cancelled"
    OBVIOUS
  <2>5. pc \notin {"idle", "begun"}
    OBVIOUS
  <2> HIDE DEF c, st, pc, call
  <2> QED
    BY <1>2, <1>6, <1>7, <1>8, <2>2, <2>3, <2>4, <2>5 DEF FireInStep, Standing
<1> HIDE DEF c
<1> QED
  BY <1>3, <1>5, <1>6, <1>9, FireMoves

(* A step of the goroutine of a call, or of its timer, that emits nothing  *)
(* yet.                                                                    *)
LEMMA FireWaitsInStep ==
  ASSUME DriverInv, NEW f \in Fire,
         FireTimerElapses(f) \/ FireSelectTimer(f) \/ FireSelectDone(f) \/ DeliverEnd(f)
  PROVE  DriverInv'
<1>1. /\ fire \in [Fire -> FireCall] /\ fire[f] \in FireCall
      /\ fire[f].st \in Seq(Status) /\ Len(fire[f].st) \in Nat
      /\ DOMAIN fire[f].st = 1 .. Len(fire[f].st)
  BY FireCallFields, LenProperties
<1>2. ASSUME NEW pc \in {"ripe", "delivering", "ended"}, fire[f].pc \notin {"idle", "begun"},
             fire' = [fire EXCEPT ![f].pc = pc], UNCHANGED Rest
      PROVE  DriverInv'
  <2> DEFINE st == fire[f].st
  <2>1. fire' = [fire EXCEPT ![f] = [fire[f] EXCEPT !.pc = pc, !.st = st]]
    BY <1>1, <1>2 DEF FireCall
  <2>2. pc \in {"timer", "ripe", "delivering", "ended"}
    OBVIOUS
  <2>3. /\ st \in Seq(Status) /\ Len(st) = Len(fire[f].st)
        /\ \A i \in DOMAIN st : st[i] = "cancelled" => fire[f].st[i] = "cancelled" \/ deliveryDone
    BY <1>1
  <2> HIDE DEF st
  <2> QED
    BY <1>2, <2>1, <2>2, <2>3, FireGoesOn
<1>3. CASE FireSelectDone(f)
  <2> DEFINE st == [i \in DOMAIN fire[f].st |-> "cancelled"]
  <2>1. st \in Seq(Status) /\ Len(st) = Len(fire[f].st)
    BY <1>1 DEF Status, Settled
  <2>2. /\ fire' = [fire EXCEPT ![f] = [fire[f] EXCEPT !.pc = "ended", !.st = st]]
        /\ UNCHANGED Rest /\ fire[f].pc \notin {"idle", "begun"} /\ deliveryDone
    BY <1>1, <1>3 DEF FireSelectDone, Rest, brokerDone, deliveryDone
  <2> HIDE DEF st
  <2> QED
    BY <2>1, <2>2, FireGoesOn
<1>4. CASE FireTimerElapses(f) \/ FireSelectTimer(f) \/ DeliverEnd(f)
  BY <1>2, <1>4 DEF FireTimerElapses, FireSelectTimer, DeliverEnd, Rest
<1> QED
  BY <1>3, <1>4

(* A step of one emission of a call. *)
LEMMA EmissionInStep ==
  ASSUME DriverInv, NEW f \in Fire, NEW i,
         \/ DeliverNext(f) /\ i = Reached(f)
         \/ i \in DOMAIN fire[f].st /\ EmissionStep(f, i)
         \/ i \in DOMAIN fire[f].st /\ EmissionTimerElapses(f, i)
  PROVE  DriverInv'
<1>1. /\ fire \in [Fire -> FireCall] /\ fire[f] \in FireCall
      /\ fire[f].subs \in Seq(EventEx) /\ fire[f].st \in Seq(Status)
      /\ Len(fire[f].subs) = Len(fire[f].st)
      /\ FireInStep(f) /\ fire[f].pc \in {"idle", "begun", "timer", "ripe", "delivering", "ended"}
  BY FireCallFields DEF FireCall
<1>2. /\ Len(fire[f].st) \in Nat /\ DOMAIN fire[f].st = 1 .. Len(fire[f].st)
  BY <1>1, LenProperties
<1>3. \E v \in Status :
        /\ fire' = [fire EXCEPT ![f].st[i] = v] /\ UNCHANGED Rest
        /\ v = "cancelled" => deliveryDone
  BY DEF DeliverNext, EmissionStep, EmissionSelectTimer, EmissionSelectDone,
         EmissionTimerElapses, Rest, Status, Settled
<1>4. PICK v \in Status :
        /\ fire' = [fire EXCEPT ![f].st[i] = v] /\ UNCHANGED Rest
        /\ v = "cancelled" => deliveryDone
  BY <1>3
<1>5. fire[f].pc \notin {"idle", "begun"}
  <2>1. fire[f].st # <<>>
    BY <1>2 DEF DeliverNext, Queued
  <2>2. Len(fire[f].st) # 0
    BY <1>1, <2>1, EmptySeq
  <2> QED
    BY <1>1, <2>2 DEF FireInStep
<1> DEFINE st == [fire[f].st EXCEPT ![i] = v]
<1>6. /\ st \in Seq(Status) /\ Len(st) = Len(fire[f].st) /\ DOMAIN st = DOMAIN fire[f].st
      /\ \A j \in DOMAIN fire[f].st : st[j] = fire[f].st[j] \/ st[j] = v
  BY <1>1, StatusType
<1>7. fire' = [fire EXCEPT ![f] = [fire[f] EXCEPT !.pc = fire[f].pc, !.st = st]]
  BY <1>1, <1>4 DEF FireCall
<1> HIDE DEF st
<1>8. fire[f].pc \in {"timer", "ripe", "delivering", "ended"}
  BY <1>1, <1>5
<1>9. \A j \in DOMAIN st : st[j] = "cancelled" => fire[f].st[j] = "cancelled" \/ deliveryDone
  BY <1>4, <1>6
<1> QED
  BY <1>4, <1>5, <1>6, <1>7, <1>8, <1>9, FireGoesOn

(* Every step of the goroutine of a call, and of its timer. *)
LEMMA FireStepInStep ==
  ASSUME DriverInv, NEW f \in Fire, FireStep(f) \/ FireTimerElapses(f)
  PROVE  DriverInv'
BY FireResolveInStep, FireWaitsInStep, EmissionInStep DEF FireStep

(* Clients and the registries change, no call does. *)
LEMMA ClientsMove ==
  ASSUME DriverInv, UNCHANGED fire, ClientsGoOn, deliveryDone => deliveryDone',
         TypeOK', BrokerInStep', RuntimeInStep', JobsInStep', SpecInStep'
  PROVE  DriverInv'
<1>1. ASSUME NEW f \in Fire PROVE FireInStep(f)'
  BY FireUndisturbed DEF DriverInv, FiresInStep
<1> QED
  BY <1>1 DEF DriverInv, FiresInStep

ClientState == {"spec", "absent", "posting", "posted", "deleting", "deleted"}

(* POST /_mock/examples registers. *)
LEMMA PostRegisterInStep ==
  ASSUME DriverInv, NEW x \in Ex \ SpecEx, PostRegister(x)
  PROVE  DriverInv'
<1> USE DEF DriverInv, PostRegister
<1>1. client \in [Ex -> ClientState] /\ TypeOK
  BY DEF TypeOK, ClientState
<1>2. ClientsGoOn /\ (deliveryDone => deliveryDone')
  BY <1>1 DEF ClientsGoOn, Standing, deliveryDone
<1>3. /\ byEvent' \in [Key -> Seq(EventEx)] /\ BrokerInStep'
  <2>1. CASE x \in Periodic
    <3>1. \A y \in EventEx : Registered(y)' <=> Registered(y)
      BY <1>1, <2>1 DEF EventEx, Registered
    <3> QED
      BY <1>1, <2>1, <3>1 DEF BrokerInStep, TypeOK
  <2>2. CASE x \notin Periodic
    BY <2>2, SubscribeInStep DEF EventEx
  <2> QED
    BY <2>1, <2>2
<1>4. TypeOK'
  BY <1>1, <1>3 DEF TypeOK
<1>5. RuntimeInStep' /\ SpecInStep'
  BY <1>1 DEF RuntimeInStep, SpecInStep, TypeOK
<1>6. JobsInStep'
  BY <1>1 DEF JobsInStep, Registered, TypeOK
<1> QED
  BY <1>2, <1>3, <1>4, <1>5, <1>6, ClientsMove

(* POST /_mock/examples records. *)
LEMMA PostRecordInStep ==
  ASSUME DriverInv, NEW x \in Ex, PostRecord(x)
  PROVE  DriverInv'
<1> USE DEF DriverInv, PostRecord
<1>1. client \in [Ex -> ClientState] /\ TypeOK /\ x \notin SpecEx
  BY DEF TypeOK, ClientState, SpecInStep
<1>2. ClientsGoOn /\ (deliveryDone => deliveryDone')
  BY <1>1 DEF ClientsGoOn, Standing, deliveryDone
<1>3. BrokerInStep'
  BY <1>1 DEF BrokerInStep, Registered, EventEx
<1>4. TypeOK'
  BY <1>1 DEF TypeOK
<1>5. RuntimeInStep' /\ SpecInStep'
  BY <1>1 DEF RuntimeInStep, SpecInStep
<1>6. JobsInStep'
  BY <1>1 DEF JobsInStep, Registered
<1> QED
  BY <1>2, <1>3, <1>4, <1>5, <1>6, ClientsMove

(* DELETE /_mock/examples forgets the record. *)
LEMMA DeleteRecordInStep ==
  ASSUME DriverInv, NEW x \in Ex, DeleteRecord(x)
  PROVE  DriverInv'
<1> USE DEF DriverInv, DeleteRecord
<1>1. client \in [Ex -> ClientState] /\ TypeOK /\ x \notin SpecEx
  BY DEF TypeOK, ClientState, SpecInStep
<1>2. ClientsGoOn /\ (deliveryDone => deliveryDone')
  BY <1>1 DEF ClientsGoOn, Standing, deliveryDone
<1>3. BrokerInStep'
  BY <1>1 DEF BrokerInStep, Registered, EventEx
<1>4. TypeOK'
  BY <1>1 DEF TypeOK
<1>5. RuntimeInStep' /\ SpecInStep'
  BY <1>1 DEF RuntimeInStep, SpecInStep
<1>6. JobsInStep'
  BY <1>1 DEF JobsInStep, Registered
<1> QED
  BY <1>2, <1>3, <1>4, <1>5, <1>6, ClientsMove

(* DELETE /_mock/examples unregisters. *)
LEMMA DeleteUnregisterInStep ==
  ASSUME DriverInv, NEW x \in Ex, DeleteUnregister(x)
  PROVE  DriverInv'
<1> USE DEF DriverInv, DeleteUnregister
<1>1. client \in [Ex -> ClientState] /\ TypeOK /\ x \notin SpecEx
  BY DEF TypeOK, ClientState, SpecInStep
<1>2. ClientsGoOn /\ (deliveryDone => deliveryDone')
  BY <1>1 DEF ClientsGoOn, Standing, deliveryDone
<1>3. /\ byEvent' \in [Key -> Seq(EventEx)] /\ BrokerInStep'
  <2>1. CASE x \in Periodic
    <3>1. \A y \in EventEx : Registered(y)' <=> Registered(y)
      BY <1>1, <2>1 DEF EventEx, Registered
    <3> QED
      BY <1>1, <2>1, <3>1 DEF BrokerInStep, TypeOK
  <2>2. CASE x \notin Periodic
    BY <2>2, UnsubscribeInStep DEF EventEx
  <2> QED
    BY <2>1, <2>2
<1>4. TypeOK'
  BY <1>1, <1>3 DEF TypeOK
<1>5. RuntimeInStep' /\ SpecInStep'
  BY <1>1 DEF RuntimeInStep, SpecInStep
<1>6. JobsInStep'
  BY <1>1 DEF JobsInStep, Registered, TypeOK
<1> QED
  BY <1>2, <1>3, <1>4, <1>5, <1>6, ClientsMove

(* A periodic delivery panics. *)
LEMMA JobPanicsInStep ==
  ASSUME DriverInv, NEW x \in Ex, JobPanics(x)
  PROVE  DriverInv'
<1> USE DEF DriverInv, JobPanics
<1>1. ClientsGoOn /\ (deliveryDone => deliveryDone')
  BY DEF ClientsGoOn, Standing, deliveryDone
<1>2. TypeOK'
  BY DEF TypeOK
<1>3. BrokerInStep' /\ RuntimeInStep' /\ SpecInStep'
  BY DEF BrokerInStep, Registered, RuntimeInStep, SpecInStep
<1>4. JobsInStep'
  BY DEF JobsInStep, Registered, TypeOK
<1> QED
  BY <1>1, <1>2, <1>3, <1>4, ClientsMove

(* eventBus.shutdown, in each of its steps. *)
LEMMA ShutdownInStep ==
  ASSUME DriverInv, ShutdownJobs \/ ShutdownDelivery \/ StopBroker
  PROVE  DriverInv'
<1> USE DEF DriverInv, ShutdownJobs, ShutdownDelivery, StopBroker
<1>1. ClientsGoOn /\ (deliveryDone => deliveryDone')
  BY DEF ClientsGoOn, Standing, deliveryDone
<1>2. TypeOK'
  BY DEF TypeOK, NoJobs
<1>3. BrokerInStep'
  BY DEF BrokerInStep, Registered
<1>4. RuntimeInStep' /\ SpecInStep'
  BY DEF RuntimeInStep, SpecInStep
<1>5. JobsInStep'
  BY DEF JobsInStep, Registered, NoJobs
<1> QED
  BY <1>1, <1>2, <1>3, <1>4, <1>5, ClientsMove

(* Nothing of the driver changes. *)
LEMMA DriverStutters == DriverInv /\ UNCHANGED vars => DriverInv'
BY DEF DriverInv, vars, TypeOK, BrokerInStep, RuntimeInStep, JobsInStep, SpecInStep,
       FiresInStep, FireInStep, Registered, Standing, deliveryDone

-----------------------------------------------------------------------------
(* What the lines of runMock before Serve leave untouched, and what every  *)
(* later one may rely on.                                                  *)
ServesNothingYet ==
  /\ slow = "none"
  /\ runtimeExamples = {}
  /\ shutdown = "running"
  /\ \A f \in Fire : fire[f].pc = "idle" /\ fire[f].standing = {} /\ fire[f].gone = {}
  /\ \A x \in Ex : client[x] \in {"absent", "spec"}

StartInStep ==
  /\ main \in {"configure", "load", "construct", "listen"} => serve = "off"
  /\ main \in {"started", "waiting", "stopping", "draining"} => serve # "off"
  /\ main \in {"configure", "load", "construct"} => \A x \in Ex : client[x] = "absent"
  /\ serve # "off" \/ main = "listen" => \A x \in SpecEx : client[x] = "spec"
  /\ serve = "off" => ServesNothingYet
  /\ main = "draining" => shutdown = "down"

(* The exit code and the fault it stands for. *)
ExitInStep ==
  /\ main # "exited" => code = NoCode /\ cause = "none"
  /\ main = "exited" /\ code # Killed =>
       /\ code = 2 <=> cause = "arguments"
       /\ code = 3 <=> cause = "schema"
       /\ code = 4 <=> cause = "port"
       /\ code \in {2, 3, 4} => serve = "off"
       /\ code = 0 => cause = "none" /\ ~handling /\ shutdown = "down"
       /\ code = 1 => cause \in {"flags", "server", "timeout"}

LifeInv == LifeTypeOK /\ DriverInv /\ StartInStep /\ ExitInStep

(* validatePort accepts the ports from 0 to 65535. *)
LEMMA PortRange ==
  ASSUME NEW p \in Int
  PROVE  validatePort(p) <=> ~(p < 0 \/ p > 65535)
<1>1. \A a, b \in Int : p \in a .. b <=> a <= p /\ p <= b
  OBVIOUS
<1>2. minPort \in Int /\ maxPort \in Int
  BY DEF minPort, maxPort
<1>3. validatePort(p) <=> p = 0 \/ (minPort <= p /\ p <= maxPort)
  BY <1>1, <1>2 DEF validatePort
<1>4. validatePort(p) <=> p = 0 \/ (1 <= p /\ p <= 65535)
  BY <1>3 DEF minPort, maxPort
<1>5. (p = 0 \/ (1 <= p /\ p <= 65535)) <=> ~(p < 0 \/ p > 65535)
  OBVIOUS
<1> QED
  BY <1>4, <1>5

(* validateMockConfig refuses exactly what cli/spec.md calls invalid.      *)
LEMMA ValidationIsTheContract ==
  ASSUME NEW s \in Settings
  PROVE  (listError(s) \/ ~validateMockConfig(s)) <=> BadArguments(s)
<1>1. /\ s.from \in Nat /\ s.prefixes \in Nat /\ s.items \in Nat
      /\ s.port \in Int /\ s.delay \in Int /\ s.historySize \in Int
      /\ s.list \in {"none", "bad", "good"}
  BY SettingsAssumption
<1>2. validatePort(s.port) <=> ~(s.port < 0 \/ s.port > 65535)
  BY <1>1, PortRange
<1> DEFINE n == parseSchemaConfig(s)
           fits == n.sources = n.prefixes \/ n.prefixes = 0
<1>3. CASE s.from > 0
  <2>1. n.sources = s.from /\ n.prefixes = s.prefixes
    BY <1>3 DEF parseSchemaConfig
  <2> QED
    BY <1>1, <1>2, <1>3, <2>1 DEF listError, validateMockConfig, BadArguments
<1>4. CASE s.from = 0 /\ s.list = "none"
  <2>1. n.sources = 1 /\ n.prefixes = s.prefixes
    BY <1>4 DEF parseSchemaConfig
  <2> QED
    BY <1>1, <1>2, <1>4, <2>1 DEF listError, validateMockConfig, BadArguments
<1>5. CASE s.from = 0 /\ s.list # "none"
  <2>1. n.sources = s.items /\ n.prefixes = s.items
    BY <1>5 DEF parseSchemaConfig
  <2> QED
    BY <1>1, <1>2, <1>5, <2>1 DEF listError, validateMockConfig, BadArguments
<1> QED
  BY <1>1, <1>3, <1>4, <1>5

(* A process that starts. *)
LEMMA LifeInitInv == LifeInit => LifeInv
<1> SUFFICES ASSUME LifeInit PROVE LifeInv
  OBVIOUS
<1> USE DEF LifeInit
<1>1. NotFired \in FireCall /\ NotFired.subs = <<>> /\ NotFired.st = <<>>
      /\ NotFired.pc = "idle" /\ NotFired.standing = {} /\ NotFired.gone = {}
  BY DriverAssumption, EmptySeq DEF NotFired, FireCall
<1>2. TypeOK
  BY <1>1, EmptySeq DEF TypeOK, NoJobs
<1>3. BrokerInStep
  BY EmptyRange DEF BrokerInStep, Registered, EventEx, IsInjective
<1>4. RuntimeInStep /\ SpecInStep
  BY DriverAssumption, RangeOfSeq DEF RuntimeInStep, SpecInStep, SpecEx
<1>5. JobsInStep
  BY DriverAssumption DEF JobsInStep, NoJobs, Registered
<1>6. FiresInStep
  <2> HIDE DEF LifeInit
  <2>1. fire = [f \in Fire |-> NotFired]
    BY DEF LifeInit
  <2>2. DOMAIN <<>> = {} /\ IsInjective(<<>>)
    BY DEF IsInjective
  <2> QED
    BY <1>1, <2>1, <2>2 DEF FiresInStep, FireInStep
<1>7. LifeTypeOK
  BY <1>2 DEF LifeTypeOK
<1>8. StartInStep /\ ExitInStep
  BY <1>1 DEF StartInStep, ExitInStep, ServesNothingYet
<1> QED
  BY <1>2, <1>3, <1>4, <1>5, <1>6, <1>7, <1>8 DEF LifeInv, DriverInv

(* server.New registers the examples of the documents. *)
LEMMA NewServerRegisters ==
  ASSUME LifeInv, main = "construct", NewServer(TRUE)
  PROVE  DriverInv'
<1> USE DEF NewServer
<1>1. DriverInv /\ ServesNothingYet /\ (\A x \in Ex : client[x] = "absent")
  BY DEF LifeInv, StartInStep
<1>2. /\ byEvent' = StartupSubscriptions /\ jobs' = StartupJobs
      /\ client' = [x \in Ex |-> IF x \in SpecEx THEN "spec" ELSE "absent"]
      /\ UNCHANGED <<runtimeExamples, fire, shutdown>>
  OBVIOUS
<1> HIDE DEF NewServer
<1>3. SpecEx \subseteq Ex
  BY DriverAssumption, RangeOfSeq DEF SpecEx
<1>4. \A x \in Ex : Registered(x)' <=> x \in SpecEx
  BY <1>2 DEF Registered
<1>5. TypeOK'
  BY <1>1, <1>2, StartupRegisters DEF DriverInv, TypeOK, StartupJobs
<1>6. BrokerInStep'
  <2> SUFFICES ASSUME NEW k \in Key
               PROVE  /\ IsInjective(byEvent'[k])
                      /\ Range(byEvent'[k]) = {x \in EventEx : KeyOf(x) = k /\ Registered(x)'}
    BY DEF BrokerInStep
  <2>1. {x \in SpecEx \cap EventEx : KeyOf(x) = k} = {x \in EventEx : KeyOf(x) = k /\ Registered(x)'}
    BY <1>4 DEF EventEx
  <2> QED
    BY <1>2, <2>1, StartupRegisters
<1>7. RuntimeInStep' /\ SpecInStep'
  BY <1>1, <1>2, <1>3 DEF RuntimeInStep, SpecInStep, ServesNothingYet
<1>8. JobsInStep'
  BY <1>2, <1>3, <1>4, DriverAssumption DEF JobsInStep, StartupJobs
<1>9. ASSUME NEW f \in Fire PROVE FireInStep(f)'
  <2>1. /\ fire'[f] = fire[f] /\ fire[f].pc = "idle" /\ fire[f].standing = {} /\ fire[f].gone = {}
        /\ FireInStep(f) /\ (deliveryDone <=> deliveryDone')
    BY <1>1, <1>2 DEF ServesNothingYet, DriverInv, FiresInStep, deliveryDone
  <2> QED
    BY <2>1 DEF FireInStep
<1> QED
  BY <1>5, <1>6, <1>7, <1>8, <1>9 DEF DriverInv, FiresInStep

(* Every step of the process keeps the driver in step. *)
LEMMA LifeKeepsDriver ==
  ASSUME LifeInv, [LifeNext]_allVars
  PROVE  DriverInv'
<1> DriverInv /\ StartInStep /\ LifeTypeOK
  BY DEF LifeInv
<1>1. CASE UNCHANGED vars
  BY <1>1, DriverStutters
<1>2. CASE MainStep
  <2>1. CASE \E ok \in BOOLEAN : NewServer(ok)
    <3>1. CASE NewServer(TRUE)
      BY <3>1, NewServerRegisters DEF NewServer
    <3>2. CASE NewServer(FALSE)
      BY <3>2, DriverStutters DEF NewServer, vars
    <3> QED
      BY <2>1, <3>1, <3>2
  <2>2. CASE StopEvents
    BY <2>2, ShutdownInStep DEF StopEvents
  <2>3. CASE ~StopEvents /\ ~(\E ok \in BOOLEAN : NewServer(ok))
    <3>1. UNCHANGED vars
      BY <1>2, <2>3 DEF MainStep, Configure, LoadSchemas, Listen, Notify, SelectServerError,
                        SelectSignal, StopHTTP, Drained, DrainTimesOut
    <3> QED
      BY <3>1, <1>1
  <2> QED
    BY <2>1, <2>2, <2>3
<1>3. CASE \E x \in Ex : HandlerStep(x)
  BY <1>3, PostRecordInStep, DeleteUnregisterInStep DEF HandlerStep
<1>4. CASE \E f \in Fire : DriverStep(f) \/ DriverTimer(f)
  BY <1>4, FireStepInStep DEF DriverStep, DriverTimer
<1>5. CASE \E f \in Fire : \E i \in DOMAIN fire[f].st :
             DriverEmission(f, i) \/ DriverEmissionTimer(f, i)
  BY <1>5, EmissionInStep DEF DriverEmission, DriverEmissionTimer
<1>6. CASE Request
  <2>1. accepting
    BY <1>6 DEF Request
  <2>2. \A x \in SpecEx : client[x] = "spec"
    BY <2>1 DEF accepting, StartInStep
  <2>3. CASE \E x \in Ex : PostRegister(x)
    <3>1. PICK x \in Ex : PostRegister(x)
      BY <2>3
    <3>2. x \notin SpecEx
      BY <2>2, <3>1 DEF PostRegister
    <3> QED
      BY <3>1, <3>2, PostRegisterInStep
  <2>4. CASE \E x \in Ex : DeleteRecord(x)
    BY <2>4, DeleteRecordInStep
  <2>5. CASE \E f \in Fire, call \in Call : FireBegin(f, call)
    BY <2>5, FireBeginInStep
  <2> QED
    BY <1>6, <2>3, <2>4, <2>5 DEF Request
<1>7. CASE Serve \/ ServeFails \/ Signal \/ SlowBegins \/ SlowEnds
  <2>1. UNCHANGED vars
    BY <1>7 DEF Serve, ServeFails, Signal, SlowBegins, SlowEnds
  <2> QED
    BY <2>1, <1>1
<1>8. CASE \E x \in Ex : DeliveryPanics(x)
  BY <1>8, JobPanicsInStep DEF DeliveryPanics
<1> QED
  BY <1>1, <1>2, <1>3, <1>4, <1>5, <1>6, <1>7, <1>8 DEF LifeNext, ServerStep, allVars

(* Every step of the process is well typed. *)
LEMMA LifeKeepsTypes ==
  ASSUME LifeInv, [LifeNext]_allVars
  PROVE  LifeTypeOK'
<1>1. TypeOK'
  BY LifeKeepsDriver DEF DriverInv
<1>2. LifeTypeOK
  BY DEF LifeInv
<1>3. CASE UNCHANGED life
  BY <1>1, <1>2, <1>3 DEF LifeTypeOK, life
<1>4. CASE MainStep
  <2>1. CASE Configure
    BY <1>1, <1>2, <2>1 DEF LifeTypeOK, Configure, Exit
  <2>2. CASE \E ok \in BOOLEAN : LoadSchemas(ok) \/ NewServer(ok) \/ Listen(ok)
    BY <1>1, <1>2, <2>2 DEF LifeTypeOK, LoadSchemas, NewServer, Listen, Exit
  <2>3. CASE Notify \/ SelectServerError \/ SelectSignal
    BY <1>1, <1>2, <2>3 DEF LifeTypeOK, Notify, SelectServerError, SelectSignal, Exit
  <2>4. CASE StopEvents
    BY <1>3, <2>4 DEF StopEvents
  <2>5. CASE StopHTTP \/ Drained \/ DrainTimesOut
    BY <1>1, <1>2, <2>5 DEF LifeTypeOK, StopHTTP, Drained, DrainTimesOut, Exit
  <2> QED
    BY <1>4, <2>1, <2>2, <2>3, <2>4, <2>5 DEF MainStep
<1>5. CASE Serve \/ ServeFails \/ Signal \/ SlowBegins \/ SlowEnds
  BY <1>1, <1>2, <1>5 DEF LifeTypeOK, Serve, ServeFails, Signal, SlowBegins, SlowEnds, Exit
<1> QED
  BY <1>3, <1>4, <1>5 DEF LifeNext, ServerStep, HandlerStep, DriverStep, DriverTimer,
                          DeliveryPanics, DriverEmission, DriverEmissionTimer, Request, allVars

(* A step of a handler or of a goroutine it left. *)
HandlerOrEmission ==
  \/ Request
  \/ \E x \in Ex : HandlerStep(x)
  \/ \E f \in Fire : DriverStep(f) \/ DriverTimer(f)
  \/ \E f \in Fire : \E i \in DOMAIN fire[f].st : DriverEmission(f, i) \/ DriverEmissionTimer(f, i)

(* Handlers run only once Serve does, and leave the process and the        *)
(* examples of the documents as they are.                                  *)
LEMMA HandlersNeedServe ==
  ASSUME LifeInv, HandlerOrEmission
  PROVE  /\ alive /\ serve # "off" /\ UNCHANGED <<life, shutdown>>
         /\ \A x \in SpecEx : client'[x] = client[x]
<1> StartInStep /\ DriverInv /\ TypeOK
  BY DEF LifeInv, DriverInv
<1>1. client \in [Ex -> ClientState] /\ SpecEx \subseteq Ex
  BY DriverAssumption, RangeOfSeq DEF TypeOK, ClientState, SpecEx
<1>2. \A x \in Ex : serve = "off" => client[x] \notin {"posting", "deleting"}
  BY DEF StartInStep, ServesNothingYet
<1>3. \A f \in Fire : serve = "off" => fire[f].pc = "idle" /\ DOMAIN fire[f].st = {}
  <2> SUFFICES ASSUME NEW f \in Fire, serve = "off"
               PROVE  fire[f].pc = "idle" /\ DOMAIN fire[f].st = {}
    OBVIOUS
  <2>1. fire[f].subs \in Seq(EventEx) /\ fire[f].st \in Seq(Status)
        /\ Len(fire[f].subs) = Len(fire[f].st) /\ FireInStep(f)
    BY FireCallFields
  <2>2. fire[f].pc = "idle" /\ fire[f].subs = <<>>
    BY <2>1 DEF FireInStep, StartInStep, ServesNothingYet
  <2> QED
    BY <2>1, <2>2, EmptySeq
<1>4. CASE Request
  <2>1. accepting /\ UNCHANGED <<life, shutdown>>
    BY <1>4 DEF Request, PostRegister, DeleteRecord, FireBegin
  <2>2. \A x \in SpecEx : client[x] = "spec"
    BY <2>1 DEF accepting, StartInStep
  <2>3. \A x \in SpecEx : client'[x] = client[x]
    BY <1>1, <1>4, <2>2 DEF Request, PostRegister, DeleteRecord, FireBegin
  <2> QED
    BY <2>1, <2>3 DEF accepting
<1>5. CASE \E x \in Ex : HandlerStep(x)
  <2>1. PICK x \in Ex : HandlerStep(x)
    BY <1>5
  <2>2. client[x] \in {"posting", "deleting"} /\ x \notin SpecEx
    BY <2>1 DEF HandlerStep, PostRecord, DeleteUnregister, DriverInv, SpecInStep
  <2> QED
    BY <1>1, <1>2, <2>1, <2>2 DEF HandlerStep, PostRecord, DeleteUnregister
<1>6. CASE \E f \in Fire : DriverStep(f) \/ DriverTimer(f)
  BY <1>3, <1>6 DEF DriverStep, DriverTimer, FireStep, FireResolve, FireSelectTimer,
                    FireSelectDone, DeliverNext, DeliverEnd, FireTimerElapses
<1>7. CASE \E f \in Fire : \E i \in DOMAIN fire[f].st : DriverEmission(f, i) \/ DriverEmissionTimer(f, i)
  BY <1>3, <1>7 DEF DriverEmission, DriverEmissionTimer, EmissionStep, EmissionSelectTimer,
                    EmissionSelectDone, EmissionTimerElapses
<1> QED
  BY <1>4, <1>5, <1>6, <1>7 DEF HandlerOrEmission

(* Nothing is served before Listen has succeeded, in every step. *)
LEMMA LifeKeepsStart ==
  ASSUME LifeInv, [LifeNext]_allVars
  PROVE  StartInStep'
<1> StartInStep /\ LifeTypeOK
  BY DEF LifeInv
<1>1. CASE HandlerOrEmission
  BY <1>1, HandlersNeedServe DEF StartInStep, life
<1>2. CASE StopEvents
  <2>1. /\ serve # "off" /\ main = "stopping" /\ UNCHANGED <<life, client>>
    BY <1>2 DEF StopEvents, ShutdownJobs, ShutdownDelivery, StopBroker, StartInStep
  <2> QED
    BY <2>1 DEF StartInStep, life
<1>3. CASE \E ok \in BOOLEAN : NewServer(ok)
  <2>1. SpecEx \subseteq Ex
    BY DriverAssumption, RangeOfSeq DEF SpecEx
  <2> QED
    BY <1>3, <2>1 DEF NewServer, StartInStep, ServesNothingYet, Exit
<1>4. CASE UNCHANGED vars /\ (MainStep \/ UNCHANGED allVars)
  <2>1. CASE Configure \/ \E ok \in BOOLEAN : LoadSchemas(ok) \/ Listen(ok)
    BY <1>4, <2>1 DEF vars, Configure, LoadSchemas, Listen, Exit, StartInStep, ServesNothingYet
  <2>2. CASE Notify \/ SelectServerError \/ SelectSignal \/ StopHTTP \/ Drained \/ DrainTimesOut
    BY <1>4, <2>2 DEF vars, Notify, SelectServerError, SelectSignal, StopHTTP, Drained,
                      DrainTimesOut, Exit, StartInStep, ServesNothingYet
  <2>3. CASE UNCHANGED allVars
    BY <2>3 DEF allVars, vars, life, StartInStep, ServesNothingYet
  <2> QED
    BY <1>2, <1>3, <1>4, <2>1, <2>2, <2>3 DEF MainStep
<1>5. CASE Serve \/ ServeFails \/ Signal \/ SlowBegins \/ SlowEnds
  BY <1>5 DEF Serve, ServeFails, Signal, SlowBegins, SlowEnds, accepting, Exit, vars,
              StartInStep, ServesNothingYet
<1>6. CASE MainStep
  <2>1. \/ UNCHANGED vars
        \/ StopEvents
        \/ \E ok \in BOOLEAN : NewServer(ok)
    BY <1>6 DEF MainStep, Configure, LoadSchemas, Listen, Notify, SelectServerError,
                SelectSignal, StopHTTP, Drained, DrainTimesOut
  <2> QED
    BY <1>2, <1>3, <1>4, <1>6, <2>1
<1>7. CASE UNCHANGED allVars
  BY <1>4, <1>7 DEF allVars
<1>8. CASE \E x \in Ex : DeliveryPanics(x)
  BY <1>8 DEF DeliveryPanics, JobPanics, life, StartInStep, ServesNothingYet
<1> QED
  BY <1>1, <1>5, <1>6, <1>7, <1>8 DEF LifeNext, ServerStep, HandlerOrEmission

(* The exit code agrees with its cause, in every step. *)
LEMMA LifeKeepsExit ==
  ASSUME LifeInv, [LifeNext]_allVars
  PROVE  ExitInStep'
<1> StartInStep /\ ExitInStep /\ LifeTypeOK
  BY DEF LifeInv
<1>1. CASE HandlerOrEmission
  BY <1>1, HandlersNeedServe DEF ExitInStep, life, alive
<1>2. CASE StopEvents
  BY <1>2 DEF StopEvents, ExitInStep, life
<1>3. CASE Configure
  <2>1. PICK s \in Settings :
          /\ cause' = IF s.flags = "bad" THEN "flags"
                      ELSE IF BadArguments(s) THEN "arguments" ELSE "none"
          /\ IF s.flags = "bad" THEN Exit(1)
             ELSE IF listError(s) \/ ~validateMockConfig(s) THEN Exit(2)
             ELSE main' = "load" /\ UNCHANGED code
    BY <1>3 DEF Configure
  <2>2. (listError(s) \/ ~validateMockConfig(s)) <=> BadArguments(s)
    BY ValidationIsTheContract
  <2>3. main = "configure" /\ serve' = "off"
    BY <1>3 DEF Configure, StartInStep
  <2> QED
    BY <2>1, <2>2, <2>3 DEF ExitInStep, Exit, NoCode, Killed
<1>4. CASE \E ok \in BOOLEAN : LoadSchemas(ok) \/ NewServer(ok) \/ Listen(ok)
  BY <1>4 DEF LoadSchemas, NewServer, Listen, Exit, ExitInStep, StartInStep, NoCode, Killed
<1>5. CASE Notify \/ SelectServerError \/ SelectSignal \/ StopHTTP \/ DrainTimesOut
  BY <1>5 DEF Notify, SelectServerError, SelectSignal, StopHTTP, DrainTimesOut, Exit,
              ExitInStep, NoCode, Killed
<1>6. CASE Drained
  BY <1>6 DEF Drained, Exit, ExitInStep, StartInStep, handling, vars, Killed
<1>7. CASE Serve \/ ServeFails \/ Signal \/ SlowBegins \/ SlowEnds
  BY <1>7 DEF Serve, ServeFails, Signal, SlowBegins, SlowEnds, accepting, alive, Exit,
              ExitInStep, NoCode, Killed
<1>8. CASE UNCHANGED allVars
  BY <1>8 DEF allVars, vars, life, ExitInStep, handling
<1>9. CASE \E x \in Ex : DeliveryPanics(x)
  BY <1>9 DEF DeliveryPanics, JobPanics, life, ExitInStep, alive
<1> QED
  BY <1>1, <1>2, <1>3, <1>4, <1>5, <1>6, <1>7, <1>8, <1>9
  DEF LifeNext, ServerStep, MainStep, HandlerOrEmission

(* The inductive invariant. *)
LEMMA LifeInvariant == LifeSpec => []LifeInv
<1>1. LifeInv /\ [LifeNext]_allVars => LifeInv'
  BY LifeKeepsDriver, LifeKeepsTypes, LifeKeepsStart, LifeKeepsExit DEF LifeInv
<1> QED
  BY <1>1, LifeInitInv, PTL DEF LifeSpec

-----------------------------------------------------------------------------
(* An example is in the table once while it is registered, else not at all. *)
LEMMA OccursOnce ==
  ASSUME DriverInv, NEW x \in EventEx
  PROVE  Occurrences(x) = IF Registered(x) THEN 1 ELSE 0
<1> DEFINE At(k) == {i \in DOMAIN byEvent[k] : byEvent[k][i] = x}
           P == UNION {{k} \X At(k) : k \in Key}
<1>1. \A k \in Key : x \in Range(byEvent[k]) <=> KeyOf(x) = k /\ Registered(x)
  BY DEF DriverInv, BrokerInStep
<1>2. \A k \in Key : x \in Range(byEvent[k]) <=> At(k) # {}
  BY DEF Range
<1>3. Occurrences(x) = Cardinality(P)
  BY DEF Occurrences
<1>4. CASE ~Registered(x)
  <2>1. P = {}
    BY <1>1, <1>2, <1>4
  <2> QED
    BY <1>3, <1>4, <2>1, FS_EmptySet
<1>5. CASE Registered(x)
  <2>1. KeyOf(x) \in Key
    BY KeyOfType
  <2>2. PICK i \in At(KeyOf(x)) : TRUE
    BY <1>1, <1>2, <1>5, <2>1
  <2>3. \A j \in At(KeyOf(x)) : j = i
    BY <2>1, <2>2 DEF DriverInv, BrokerInStep, IsInjective
  <2>4. \A k \in Key : k # KeyOf(x) => At(k) = {}
    BY <1>1, <1>2
  <2> HIDE DEF At
  <2>5. P = {<<KeyOf(x), i>>}
    BY <2>1, <2>2, <2>3, <2>4
  <2> QED
    BY <1>3, <1>5, <2>5, FS_Singleton
<1> QED
  BY <1>4, <1>5

(* Every reachable state is well typed. *)
THEOREM LifeTypes == LifeSpec => []LifeTypeOK
<1>1. LifeInv => LifeTypeOK
  BY DEF LifeInv
<1> QED
  BY <1>1, LifeInvariant, PTL

(* The broker, the scheduler and the runtime registry agree about every    *)
(* example, however POST, DELETE, the fire calls and the shutdown          *)
(* interleave, for any number of examples (broker.go,                      *)
(* server_runtime_example.go).                                             *)
THEOREM RegistriesStayInStep == LifeSpec => []RegistriesInStep
<1>1. LifeInv => RegistriesInStep
  <2> SUFFICES ASSUME LifeInv PROVE RegistriesInStep
    OBVIOUS
  <2>1. \A x \in EventEx : Occurrences(x) = IF client[x] \in {"absent", "deleted"} THEN 0 ELSE 1
    BY OccursOnce DEF LifeInv, Registered
  <2> QED
    BY <2>1 DEF LifeInv, DriverInv, RuntimeInStep, JobsInStep, Registered, RegistriesInStep
<1> QED
  BY <1>1, LifeInvariant, PTL

(* No fire call emits an example twice, out of scope or after its DELETE,  *)
(* for any number of calls and examples (broker.go, message_delivery.go).  *)
THEOREM EmittedAtMostOnce == LifeSpec => []EmittedOnceInScope
<1>1. LifeInv => EmittedOnceInScope
  <2> SUFFICES ASSUME LifeInv, NEW f \in Fire, NEW i \in DOMAIN fire[f].st,
                      fire[f].st[i] = "emitted"
               PROVE  /\ InScope(fire[f].subs[i], fire[f].call)
                      /\ KeyOf(fire[f].subs[i]) \in {fire[f].call.name, AnyEvent}
                      /\ fire[f].subs[i] \notin fire[f].gone
                      /\ fire[f].call.name # AnyEvent =>
                           \A j \in DOMAIN fire[f].st :
                             i # j /\ fire[f].st[j] = "emitted" => fire[f].subs[i] # fire[f].subs[j]
    BY DEF EmittedOnceInScope
  <2>1. FireInStep(f) /\ DOMAIN fire[f].subs = DOMAIN fire[f].st
    BY FireCallFields, LenProperties DEF LifeInv
  <2> QED
    BY <2>1 DEF FireInStep, Asked, IsInjective
<1> QED
  BY <1>1, LifeInvariant, PTL

(* No fire call loses a subscriber that stood all along, unless the        *)
(* shutdown cancels it (broker.go, message_delivery.go).                   *)
THEOREM SubscribersKept == LifeSpec => []NoSubscriberLost
<1>1. LifeInv => NoSubscriberLost
  <2> SUFFICES ASSUME LifeInv, NEW f \in Fire, fire[f].pc = "ended",
                      Range(fire[f].st) \subseteq Settled,
                      NEW x \in fire[f].standing, Asked(fire[f].call, x), Standing(x)
               PROVE  deliveryDone \/ \E i \in DOMAIN fire[f].st :
                        fire[f].subs[i] = x /\ fire[f].st[i] = "emitted"
    BY DEF NoSubscriberLost, Asked, Standing
  <2>1. FireInStep(f) /\ DOMAIN fire[f].subs = DOMAIN fire[f].st
    BY FireCallFields, LenProperties DEF LifeInv
  <2>2. PICK i \in DOMAIN fire[f].subs : fire[f].subs[i] = x
    BY <2>1 DEF FireInStep, Range
  <2>3. fire[f].st[i] \in Settled
    BY <2>1, <2>2 DEF Range
  <2> QED
    BY <2>1, <2>2, <2>3 DEF FireInStep, Settled
<1> QED
  BY <1>1, LifeInvariant, PTL

(* The exit code names the first fault, and 0 means that every request was *)
(* answered, for every setting (mock.go, server.go).                       *)
THEOREM ExitCodesTell == LifeSpec => []ExitCodeTells
<1>1. LifeInv => ExitCodeTells
  BY DEF LifeInv, ExitInStep, StartInStep, ServesNothingYet, ExitCodeTells
<1> QED
  BY <1>1, LifeInvariant, PTL

-----------------------------------------------------------------------------
(* Recipients of an event. *)

EmissionRecord ==
  [pc : {"idle", "copied", "matched", "rendered", "pushing", "ended"},
   x : Example \cup {"none"}, ev : Events \cup {"none"}, target : Conn \cup {NoConn},
   snap : Conn \cup {Nobody}, todo : SUBSET Conn, told : SUBSET Conn, sent : Seq(Conn), begun : SUBSET Conn]

DeliveryTyped ==
  /\ connected \subseteq Conn
  /\ owner \in Conn \cup {Nobody}
  /\ em \in [Emission -> EmissionRecord]
  /\ \A e \in Emission : em[e].pc # "idle" => em[e].x \in Example /\ em[e].ev \in Events

(* Whom an emission may reach by its target or channel. *)
InReach(e, c) ==
  IF em[e].target = NoConn THEN ChannelOf[c] = em[e].x.channel ELSE c = em[e].target

CommonHolds(e) == EvaluateParamsMatch(CommonBucket(em[e].x), em[e].snap, em[e].ev, em[e].target)

(* Nothing is sent before the conditions without a connection hold and the *)
(* payload is rendered; after that everyone in reach who stayed is still   *)
(* to be looked at, or was sent it exactly if the whole match holds.       *)
EmissionAsWanted(e) ==
  /\ em[e].pc \in {"idle", "copied", "matched", "rendered"} => em[e].sent = <<>> /\ em[e].todo = {}
  /\ em[e].pc \in {"matched", "rendered", "pushing"} => CommonHolds(e)
  /\ em[e].pc \in {"rendered", "pushing"} => Renders(e)
  /\ em[e].pc = "pushing" /\ Broadcast(e) => em[e].told = Conn
  /\ \A c \in Range(em[e].sent) : Wanted(e, c) /\ InReach(e, c) /\ c \in em[e].told
  /\ \A c \in em[e].todo : InReach(e, c) /\ c \notin Range(em[e].sent)
  /\ IsInjective(em[e].sent)
  /\ em[e].pc = "pushing" \/ (em[e].pc = "ended" /\ Renders(e)) =>
       \A c \in em[e].begun \cap connected :
         Wanted(e, c) /\ InReach(e, c) => c \in Range(em[e].sent) \/ c \in em[e].todo
  /\ em[e].pc = "ended" => em[e].todo = {}

DeliveryInv == DeliveryTyped /\ \A e \in Emission : EmissionAsWanted(e)

(* A condition without a connection holds for all consumers or for none,   *)
(* so that evaluating the match in two phases is evaluating it whole.      *)
LEMMA TwoPhases ==
  ASSUME NEW x \in Example, NEW snap, NEW ev, NEW t, NEW c
  PROVE  EvaluateParamsMatch(x.match, snap, ev, c) <=>
           /\ EvaluateParamsMatch(CommonBucket(x), snap, ev, t)
           /\ EvaluateParamsMatch(ConnectionBucket(x), snap, ev, c)
<1>1. ASSUME NEW cond \in CommonBucket(x)
      PROVE  Holds(cond, snap, ev, c) <=> Holds(cond, snap, ev, t)
  <2>1. cond.key \in {"event", "state"} /\ cond.val # "connection"
    BY <1>1, DeliveryAssumption DEF CommonBucket, ConnectionBucket, referencesConnection, Source
  <2>2. Available(cond.key, c) /\ Available(cond.key, t)
    BY <2>1 DEF Available
  <2>3. Available(cond.val, c) /\ Available(cond.val, t)
    BY <2>1 DEF Available
  <2>4. Value(cond.key, snap, ev, c) = Value(cond.key, snap, ev, t)
    BY <2>1 DEF Value
  <2>5. cond.val \in Source => Value(cond.val, snap, ev, c) = Value(cond.val, snap, ev, t)
    BY <2>1 DEF Value, Source
  <2> QED
    BY <2>2, <2>3, <2>4, <2>5 DEF Holds
<1>2. x.match = CommonBucket(x) \cup ConnectionBucket(x)
  BY DEF CommonBucket, ConnectionBucket
<1> QED
  BY <1>1, <1>2 DEF EvaluateParamsMatch

(* The elements of a sequence without repetition are as many as it is      *)
(* long.                                                                   *)
LEMMA DistinctCount ==
  ASSUME NEW E, NEW s \in Seq(E), IsInjective(s)
  PROVE  Cardinality(Range(s)) = Len(s)
<1>1. s \in [1 .. Len(s) -> E] /\ Len(s) \in Nat
  BY LenProperties
<1>2. IsFiniteSet(1 .. Len(s)) /\ Cardinality(1 .. Len(s)) = Len(s)
  <2>1. 1 \in Int /\ Len(s) \in Int /\ Len(s) >= 0
    BY <1>1
  <2>2. /\ IsFiniteSet(1 .. Len(s))
        /\ Cardinality(1 .. Len(s)) = IF 1 > Len(s) THEN 0 ELSE Len(s) - 1 + 1
    BY <2>1, FS_Interval
  <2> QED
    BY <2>1, <2>2
<1>3. s \in Bijection(1 .. Len(s), Range(s))
  BY <1>1 DEF Bijection, Injection, Surjection, IsInjective, Range
<1> QED
  BY <1>2, <1>3, FS_Bijection DEF ExistsBijection

(* Nothing is emitted at first. *)
LEMMA DeliveryBegins == DeliveryInit => DeliveryInv
<1> SUFFICES ASSUME DeliveryInit PROVE DeliveryInv
  OBVIOUS
<1>1. DeliveryTyped
  BY DEF DeliveryInit, DeliveryTyped, Idle, EmissionRecord
<1>2. ASSUME NEW e \in Emission PROVE EmissionAsWanted(e)
  <2>1. em[e].pc = "idle" /\ em[e].sent = <<>> /\ em[e].todo = {}
    BY DEF DeliveryInit, Idle
  <2>2. IsInjective(em[e].sent) /\ Range(em[e].sent) = {}
    BY <2>1, EmptyRange DEF IsInjective
  <2> QED
    BY <2>1, <2>2 DEF EmissionAsWanted
<1> QED
  BY <1>1, <1>2 DEF DeliveryInv

(* An emission is not disturbed by others, by the state, nor by consumers  *)
(* that leave or that it has not known.                                    *)
LEMMA EmissionKeeps ==
  ASSUME NEW e \in Emission, EmissionAsWanted(e), em'[e] = em[e],
         connected' \cap em[e].begun \subseteq connected
  PROVE  EmissionAsWanted(e)'
BY DEF EmissionAsWanted, CommonHolds, Renders, Broadcast, Wanted, InReach

(* A step of an emission keeps what holds of it. *)
LEMMA DeliverySteps ==
  ASSUME DeliveryInv, NEW e \in Emission, deliverExample(e)
  PROVE  DeliveryTyped' /\ EmissionAsWanted(e)'
<1>0. /\ DeliveryTyped /\ EmissionAsWanted(e)
      /\ em \in [Emission -> EmissionRecord] /\ em[e] \in EmissionRecord
      /\ em[e].pc # "idle" => em[e].x \in Example /\ em[e].ev \in Events
      /\ em[e].target \in Conn \cup {NoConn}
      /\ em[e].todo \subseteq Conn /\ em[e].begun \subseteq Conn
      /\ em[e].sent \in Seq(Conn)
  BY DEF DeliveryInv, DeliveryTyped, EmissionRecord
<1>1. CASE Common(e)
  <2>1. DeliveryTyped'
    BY <1>0, <1>1 DEF DeliveryTyped, Common, EmissionRecord
  <2>2. em[e].sent = <<>> /\ em[e].todo = {}
    BY <1>0, <1>1 DEF Common, EmissionAsWanted
  <2>3. /\ em'[e].x = em[e].x /\ em'[e].ev = em[e].ev /\ em'[e].target = em[e].target
        /\ em'[e].snap = em[e].snap /\ em'[e].begun = em[e].begun
        /\ em'[e].todo = em[e].todo /\ em'[e].told = em[e].told /\ em'[e].sent = em[e].sent
        /\ em'[e].pc = IF CommonHolds(e) THEN "matched" ELSE "ended"
        /\ connected' = connected
    BY <1>0, <1>1 DEF Common, CommonHolds
  <2>4. IsInjective(em[e].sent) /\ Range(em[e].sent) = {}
    BY <2>2, EmptyRange DEF IsInjective
  <2>5. ~CommonHolds(e) => \A c : ~Wanted(e, c)
    BY <1>0, <1>1, TwoPhases DEF CommonHolds, Wanted, Common
  <2>6. CASE CommonHolds(e)
    <3>1. em'[e].pc = "matched"
      BY <2>3, <2>6
    <3> QED
      BY <2>1, <2>2, <2>3, <2>4, <2>6, <3>1 DEF EmissionAsWanted, CommonHolds, Renders, Broadcast, Wanted, InReach
  <2>7. CASE ~CommonHolds(e)
    <3>1. em'[e].pc = "ended"
      BY <2>3, <2>7
    <3>2. \A c : ~Wanted(e, c)'
      BY <2>3, <2>5, <2>7 DEF Wanted
    <3> QED
      BY <2>1, <2>2, <2>3, <2>4, <3>1, <3>2 DEF EmissionAsWanted
  <2> QED
    BY <2>1, <2>6, <2>7
<1>2. CASE Render(e)
  <2>1. DeliveryTyped'
    BY <1>0, <1>2, DeliveryAssumption DEF DeliveryTyped, Render, EmissionRecord
  <2>2. em[e].sent = <<>> /\ em[e].todo = {} /\ CommonHolds(e)
    BY <1>0, <1>2 DEF Render, EmissionAsWanted
  <2>3. /\ em'[e].x = em[e].x /\ em'[e].ev = em[e].ev /\ em'[e].target = em[e].target
        /\ em'[e].snap = em[e].snap /\ em'[e].begun = em[e].begun
        /\ em'[e].todo = em[e].todo /\ em'[e].told = em[e].told /\ em'[e].sent = em[e].sent
        /\ em'[e].pc = IF Renders(e) THEN "rendered" ELSE "ended"
        /\ connected' = connected
    BY <1>0, <1>2 DEF Render
  <2>4. IsInjective(em[e].sent) /\ Range(em[e].sent) = {}
    BY <2>2, EmptyRange DEF IsInjective
  <2>5. Renders(e)' <=> Renders(e)
    BY <2>3 DEF Renders
  <2>6. CommonHolds(e)'
    BY <2>2, <2>3 DEF CommonHolds
  <2>7. em'[e].sent = <<>> /\ em'[e].todo = {} /\ IsInjective(em'[e].sent) /\ Range(em'[e].sent) = {}
    BY <2>2, <2>3, <2>4
  <2>8. em'[e].pc = "rendered" \/ (em'[e].pc = "ended" /\ ~Renders(e)')
    BY <2>3, <2>5
  <2>9. em'[e].pc = "rendered" => Renders(e)'
    BY <2>3, <2>5
  <2> QED
    BY <2>1, <2>6, <2>7, <2>8, <2>9 DEF EmissionAsWanted
<1>3. CASE Route(e)
  <2>1. /\ em'[e].x = em[e].x /\ em'[e].ev = em[e].ev /\ em'[e].target = em[e].target
        /\ em'[e].snap = em[e].snap /\ em'[e].begun = em[e].begun
        /\ em'[e].sent = em[e].sent
        /\ em'[e].pc = "pushing"
        /\ em'[e].todo = IF em[e].target # NoConn THEN {em[e].target} ELSE Candidates(em[e].x)
        /\ em'[e].told = Told(e)
        /\ connected' = connected /\ owner' = owner /\ DOMAIN em' = Emission
        /\ \A d \in Emission \ {e} : em'[d] = em[d]
    BY <1>0, <1>3 DEF Route
  <2>2. em[e].sent = <<>> /\ CommonHolds(e) /\ Renders(e) /\ em[e].pc # "idle"
    BY <1>0, <1>3 DEF Route, EmissionAsWanted
  <2>3. em'[e].todo \subseteq Conn
    BY <1>0, <2>1 DEF Candidates, DeliveryTyped
  <2>4. DeliveryTyped'
    <3>1. em' \in [Emission -> EmissionRecord]
      BY <1>0, <1>3, <2>1, <2>3 DEF Route, Told, EmissionRecord
    <3> QED
      BY <1>0, <2>1, <2>2, <3>1 DEF DeliveryTyped
  <2>5. em'[e].sent = <<>> /\ IsInjective(em'[e].sent) /\ Range(em'[e].sent) = {}
    BY <2>1, <2>2, EmptyRange DEF IsInjective
  <2>6. CommonHolds(e)' /\ Renders(e)'
    BY <2>1, <2>2 DEF CommonHolds, Renders
  <2>7. Broadcast(e)' => em'[e].told = Conn
    BY <2>1 DEF Broadcast, Told
  <2>8. \A c \in em'[e].todo : InReach(e, c)'
    BY <2>1, DeliveryAssumption DEF InReach, Candidates
  <2>9. \A c \in em'[e].begun \cap connected' : InReach(e, c)' => c \in em'[e].todo
    BY <2>1 DEF InReach, Candidates
  <2> QED
    BY <2>1, <2>4, <2>5, <2>6, <2>7, <2>8, <2>9 DEF EmissionAsWanted
<1>4. ASSUME NEW c \in Conn, Push(e, c) PROVE DeliveryTyped' /\ EmissionAsWanted(e)'
  <2>1. /\ em'[e].x = em[e].x /\ em'[e].ev = em[e].ev /\ em'[e].target = em[e].target
        /\ em'[e].snap = em[e].snap /\ em'[e].begun = em[e].begun
        /\ em'[e].todo = em[e].todo \ {c}
        /\ em'[e].told = IF Chosen(e, c) /\ ~Broadcast(e) THEN em[e].told \cup {c} ELSE em[e].told
        /\ em'[e].sent = IF Chosen(e, c) /\ c \in connected THEN Append(em[e].sent, c) ELSE em[e].sent
        /\ connected' = connected /\ owner' = owner /\ DOMAIN em' = Emission
        /\ \A d \in Emission \ {e} : em'[d] = em[d]
        /\ em[e].pc = "pushing" /\ em'[e].pc = "pushing" /\ c \in em[e].todo
    BY <1>0, <1>4 DEF Push
  <2>2. /\ CommonHolds(e) /\ Renders(e) /\ IsInjective(em[e].sent) /\ (Broadcast(e) => em[e].told = Conn)
        /\ InReach(e, c) /\ c \notin Range(em[e].sent)
    BY <1>0, <2>1 DEF EmissionAsWanted
  <2>3. em'[e].sent \in Seq(Conn)
    BY <1>0, <2>1
  <2>4. DeliveryTyped'
    <3> DEFINE told == IF Chosen(e, c) /\ ~Broadcast(e) THEN em[e].told \cup {c} ELSE em[e].told
               sent == IF Chosen(e, c) /\ c \in connected THEN Append(em[e].sent, c) ELSE em[e].sent
               next == [em[e] EXCEPT !.todo = em[e].todo \ {c}, !.told = told, !.sent = sent]
    <3>2. em' = [em EXCEPT ![e] = next]
      BY <1>0, <1>4 DEF Push, EmissionRecord
    <3>3. told \in SUBSET Conn /\ sent \in Seq(Conn)
      BY <1>0 DEF EmissionRecord
    <3>4. next \in EmissionRecord
      <4> HIDE DEF told, sent
      <4> QED
        BY <1>0, <3>3 DEF EmissionRecord
    <3>1. em' \in [Emission -> EmissionRecord]
      <4> HIDE DEF next
      <4> QED
        BY <1>0, <3>2, <3>4
    <3> QED
      BY <1>0, <2>1, <3>1 DEF DeliveryTyped
  <2>5. /\ Range(em'[e].sent) = Range(em[e].sent) \cup (IF Chosen(e, c) /\ c \in connected THEN {c} ELSE {})
        /\ IsInjective(em'[e].sent)
    BY <1>0, <2>1, <2>2, AppendRange, AppendDistinct
  <2>6. Wanted(e, c) <=> Chosen(e, c)
    BY <1>0, <2>1, <2>2, TwoPhases DEF Wanted, Chosen, CommonHolds
  <2>7. /\ CommonHolds(e)' /\ Renders(e)' /\ (Broadcast(e)' <=> Broadcast(e))
        /\ \A d : (Wanted(e, d)' <=> Wanted(e, d)) /\ (InReach(e, d)' <=> InReach(e, d))
    BY <2>1, <2>2 DEF CommonHolds, Renders, Broadcast, Wanted, InReach
  <2>8. Broadcast(e)' => em'[e].told = Conn
    BY <2>1, <2>2, <2>7
  <2>9. \A d \in Range(em'[e].sent) : Wanted(e, d)' /\ InReach(e, d)' /\ d \in em'[e].told
    <3>1. ASSUME NEW d \in Range(em[e].sent) PROVE Wanted(e, d)' /\ InReach(e, d)' /\ d \in em'[e].told
      BY <1>0, <2>1, <2>7, <3>1 DEF EmissionAsWanted
    <3>2. ASSUME Chosen(e, c) PROVE Wanted(e, c)' /\ InReach(e, c)' /\ c \in em'[e].told
      BY <2>1, <2>2, <2>6, <2>7, <3>2
    <3> QED
      BY <2>5, <3>1, <3>2
  <2>10. \A d \in em'[e].todo : InReach(e, d)' /\ d \notin Range(em'[e].sent)
    BY <1>0, <2>1, <2>5, <2>7 DEF EmissionAsWanted
  <2>11. \A d \in em'[e].begun \cap connected' :
           Wanted(e, d)' /\ InReach(e, d)' => d \in Range(em'[e].sent) \/ d \in em'[e].todo
    <3> TAKE d \in em'[e].begun \cap connected'
    <3>1. d \in em[e].begun \cap connected
      BY <2>1
    <3>2. Wanted(e, d) /\ InReach(e, d) => d \in Range(em[e].sent) \/ d \in em[e].todo
      BY <1>0, <2>1, <3>1 DEF EmissionAsWanted
    <3> QED
      BY <2>1, <2>5, <2>6, <2>7, <3>1, <3>2
  <2> QED
    BY <2>1, <2>4, <2>5, <2>7, <2>8, <2>9, <2>10, <2>11 DEF EmissionAsWanted
<1>5. CASE End(e)
  <2>1. DeliveryTyped'
    BY <1>0, <1>5 DEF DeliveryTyped, End, EmissionRecord
  <2>2. /\ em'[e].x = em[e].x /\ em'[e].ev = em[e].ev /\ em'[e].target = em[e].target
        /\ em'[e].snap = em[e].snap /\ em'[e].begun = em[e].begun
        /\ em'[e].todo = em[e].todo /\ em'[e].told = em[e].told /\ em'[e].sent = em[e].sent
        /\ em'[e].pc = "ended" /\ em[e].pc = "pushing" /\ em[e].todo = {} /\ connected' = connected
    BY <1>0, <1>5 DEF End
  <2>3. /\ em'[e].pc = "ended" /\ em'[e].todo = {} /\ em'[e].sent = em[e].sent
        /\ em'[e].told = em[e].told /\ em'[e].begun = em[e].begun
        /\ \A d : (Wanted(e, d)' <=> Wanted(e, d)) /\ (InReach(e, d)' <=> InReach(e, d))
    BY <2>2 DEF Wanted, InReach
  <2> QED
    BY <1>0, <2>1, <2>2, <2>3 DEF EmissionAsWanted
<1> QED
  BY <1>1, <1>2, <1>3, <1>4, <1>5 DEF deliverExample

(* Every step of the server, its consumers and its emissions. *)
LEMMA DeliveryStep == DeliveryInv /\ [DeliveryNext]_deliveryVars => DeliveryInv'
<1> SUFFICES ASSUME DeliveryInv, [DeliveryNext]_deliveryVars PROVE DeliveryInv'
  OBVIOUS
<1>0. DeliveryTyped /\ \A e \in Emission : EmissionAsWanted(e)
  BY DEF DeliveryInv
<1>1. ASSUME NEW c \in Conn, Connect(c) \/ Disconnect(c) PROVE DeliveryInv'
  <2>1. /\ em' = em /\ owner' = owner
        /\ connected' \subseteq Conn
        /\ \A e \in Emission : connected' \cap em[e].begun \subseteq connected
    BY <1>0, <1>1 DEF Connect, Disconnect, DeliveryTyped
  <2>2. DeliveryTyped'
    BY <1>0, <2>1 DEF DeliveryTyped
  <2> QED
    BY <1>0, <2>1, <2>2, EmissionKeeps DEF DeliveryInv
<1>2. ASSUME NEW v \in Conn \cup {Nobody}, RequestSets(v) PROVE DeliveryInv'
  <2>1. em' = em /\ owner' = v /\ connected' = connected
    BY <1>2 DEF RequestSets
  <2>2. DeliveryTyped'
    BY <1>0, <2>1 DEF DeliveryTyped
  <2> QED
    BY <1>0, <2>1, <2>2, EmissionKeeps DEF DeliveryInv
<1>3. ASSUME NEW e \in Emission, deliverExample(e) PROVE DeliveryInv'
  <2>1. connected' = connected /\ \A d \in Emission \ {e} : em'[d] = em[d]
    BY <1>0, <1>3 DEF deliverExample, Common, Render, Route, Push, End, DeliveryTyped
  <2> QED
    BY <1>0, <1>3, <2>1, DeliverySteps, EmissionKeeps DEF DeliveryInv
<1>4. ASSUME NEW e \in Emission, NEW x \in Example, NEW ev \in Events, NEW t \in Conn \cup {NoConn},
             Begin(e, x, ev, t)
      PROVE  DeliveryInv'
  <2>1. /\ connected' = connected /\ owner' = owner /\ DOMAIN em' = Emission
        /\ \A d \in Emission \ {e} : em'[d] = em[d]
        /\ em'[e] = [Idle EXCEPT !.pc = "copied", !.x = x, !.ev = ev, !.target = t,
                                 !.snap = owner, !.begun = connected]
    BY <1>0, <1>4 DEF Begin, DeliveryTyped
  <2>2. /\ em'[e].pc = "copied" /\ em'[e].x = x /\ em'[e].ev = ev /\ em'[e].target = t
        /\ em'[e].todo = {} /\ em'[e].sent = <<>> /\ em'[e].begun = connected
    BY <2>1 DEF Idle
  <2>3. DeliveryTyped'
    <3> DEFINE next == [Idle EXCEPT !.pc = "copied", !.x = x, !.ev = ev, !.target = t,
                                    !.snap = owner, !.begun = connected]
    <3>2. em' = [em EXCEPT ![e] = next]
      BY <1>4 DEF Begin
    <3>3. next \in EmissionRecord
      <4>1. Idle \in EmissionRecord
        BY DEF Idle, EmissionRecord
      <4>2. owner \in Conn \cup {Nobody} /\ connected \in SUBSET Conn
        BY <1>0 DEF DeliveryTyped
      <4> QED
        BY <4>1, <4>2 DEF EmissionRecord
    <3>1. em' \in [Emission -> EmissionRecord]
      <4> HIDE DEF next
      <4> QED
        BY <1>0, <3>2, <3>3 DEF DeliveryTyped
    <3> QED
      BY <1>0, <2>1, <2>2, <3>1 DEF DeliveryTyped
  <2>4. IsInjective(em'[e].sent) /\ Range(em'[e].sent) = {}
    BY <2>2, EmptyRange DEF IsInjective
  <2>5. EmissionAsWanted(e)'
    BY <2>2, <2>4 DEF EmissionAsWanted
  <2> QED
    BY <1>0, <2>1, <2>3, <2>5, EmissionKeeps DEF DeliveryInv
<1>5. CASE UNCHANGED deliveryVars
  <2>1. em' = em /\ owner' = owner /\ connected' = connected
    BY <1>5 DEF deliveryVars
  <2>2. DeliveryTyped'
    BY <1>0, <2>1 DEF DeliveryTyped
  <2> QED
    BY <1>0, <2>1, <2>2, EmissionKeeps DEF DeliveryInv
<1> QED
  BY <1>1, <1>2, <1>3, <1>4, <1>5 DEF DeliveryNext

(* The inductive invariant of the emissions. *)
LEMMA DeliveryInvariant == DeliverySpec => []DeliveryInv
<1> QED
  BY DeliveryBegins, DeliveryStep, PTL DEF DeliverySpec

(* Type correctness of consumers, state and emissions.                     *)
THEOREM DeliveryTypes == DeliverySpec => []DeliveryTypeOK
<1>1. DeliveryInv => DeliveryTypeOK
  BY DEF DeliveryInv, DeliveryTyped, DeliveryTypeOK, EmissionRecord
<1> QED
  BY <1>1, DeliveryInvariant, PTL

(* RightRecipients: whatever connects, leaves and sets the state meanwhile,*)
(* an emission of deliverExample reaches those for whom the whole match    *)
(* holds, each once, and none who stays is left out.                       *)
THEOREM RecipientsAreRight == DeliverySpec => []RightRecipients
<1>1. ASSUME DeliveryInv PROVE RightRecipients
  <2> SUFFICES ASSUME NEW e \in Emission
               PROVE /\ \A c \in Sent(e) : /\ Wanted(e, c)
                                           /\ IF em[e].target = NoConn THEN ChannelOf[c] = em[e].x.channel
                                              ELSE c = em[e].target
                     /\ Cardinality(Sent(e)) = Len(em[e].sent)
                     /\ Sent(e) \subseteq em[e].told
                     /\ em[e].pc = "ended" /\ Renders(e) =>
                          \A c \in em[e].begun \cap connected :
                            /\ Wanted(e, c)
                            /\ IF em[e].target = NoConn THEN ChannelOf[c] = em[e].x.channel ELSE c = em[e].target
                            => c \in Sent(e)
    BY DEF RightRecipients
  <2>1. Sent(e) = Range(em[e].sent)
    BY DEF Sent, Range
  <2>2. EmissionAsWanted(e) /\ em[e].sent \in Seq(Conn)
    BY <1>1 DEF DeliveryInv, DeliveryTyped, EmissionRecord
  <2>3. Cardinality(Sent(e)) = Len(em[e].sent)
    BY <2>1, <2>2, DistinctCount DEF EmissionAsWanted
  <2> QED
    BY <2>1, <2>2, <2>3 DEF EmissionAsWanted, InReach
<1> QED
  BY <1>1, DeliveryInvariant, PTL
=============================================================================
