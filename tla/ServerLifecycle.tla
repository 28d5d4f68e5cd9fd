--------------------------- MODULE ServerLifecycle ---------------------------
(***************************************************************************)
(* The life of the process: runMock of cmd/oasmock/mock.go, Listen, Serve  *)
(* and Shutdown of internal/server/server.go, composed with the event      *)
(* driver, whose handlers run while the server accepts requests and whose  *)
(* shutdown is a step of the server's.                                     *)
(*                                                                         *)
(* Three goroutines matter: main, the one that serves, and those of the    *)
(* handlers.  net/http is modelled by what Shutdown promises: no listener, *)
(* then a wait for the handlers, as long as the context allows.  A         *)
(* connection that was accepted may still bring its request meanwhile.     *)
(***************************************************************************)
EXTENDS EventDriver, Integers

CONSTANTS Settings  \* the command lines and configuration files

VARIABLES main,     \* where the main goroutine is
          code,     \* the exit code, NoCode before
          cause,    \* history: what was wrong with what the process was given
          serve,    \* the goroutine of Serve
          sigChan,  \* whether a signal waits in the channel
          slow      \* a request whose client takes its time: "none", "open", "over"

life == <<main, code, cause, serve, sigChan, slow>>
allVars == <<vars, life>>

NoCode == -1
Killed == 130  \* the shell's code for a process that SIGINT ends

ASSUME SettingsAssumption ==
  Settings \subseteq [flags : {"ok", "bad"}, from : Nat, prefixes : Nat,
                     list : {"none", "bad", "good"}, items : Nat,
                     port : Int, delay : Int, historySize : Int]

alive == main # "exited"

(* startSweep ends the construction, stopSweep begins the shutdown. *)
sweeping == main \in {"listen", "started", "waiting"}

LifeInit ==
  /\ byEvent = [k \in Key |-> <<>>]
  /\ jobs = NoJobs
  /\ runtimeExamples = {}
  /\ client = [x \in Ex |-> "absent"]
  /\ fire = [f \in Fire |-> NotFired]
  /\ shutdown = "running"
  /\ main = "configure" /\ code = NoCode /\ cause = "none"
  /\ serve = "off" /\ sigChan = FALSE /\ slow = "none"

-----------------------------------------------------------------------------
(* A setting: whether cobra can parse the flags, how many --from and       *)
(* --prefix there are, the file's list of schemas ("none", "bad" or its    *)
(* length) and three numbers.                                              *)

(* parseSchemaConfig: --from hides the list of the file; without either    *)
(* there is the default source.                                            *)
parseSchemaConfig(s) ==
  IF s.from > 0 THEN [sources |-> s.from, prefixes |-> s.prefixes]
  ELSE IF s.list = "none" THEN [sources |-> 1, prefixes |-> s.prefixes]
  ELSE [sources |-> s.items, prefixes |-> s.items]

listError(s) == s.from = 0 /\ s.list = "bad"

minPort == 1
maxPort == 65535

validatePort(port) == port = 0 \/ port \in minPort .. maxPort

validateMockConfig(s) ==
  LET n == parseSchemaConfig(s)
  IN /\ n.sources = n.prefixes \/ n.prefixes = 0
     /\ validatePort(s.port)
     /\ s.delay >= 0
     /\ s.historySize >= 0

Exit(c) == main' = "exited" /\ code' = c

(* What cli/spec.md requires of a command line. *)
BadArguments(s) ==
  \/ s.from > 0 /\ s.prefixes \notin {0, s.from}
  \/ s.from = 0 /\ s.list = "bad"
  \/ s.from = 0 /\ s.list = "none" /\ s.prefixes > 1
  \/ s.port < 0 \/ s.port > 65535
  \/ s.delay < 0 \/ s.historySize < 0

(* Execute and resolveMockConfig.  An error of cobra is no cliError. *)
Configure ==
  /\ main = "configure"
  /\ \E s \in Settings :
       /\ cause' = IF s.flags = "bad" THEN "flags"
                   ELSE IF BadArguments(s) THEN "arguments" ELSE "none"
       /\ IF s.flags = "bad" THEN Exit(1)
          ELSE IF listError(s) \/ ~validateMockConfig(s) THEN Exit(2)
          ELSE main' = "load" /\ UNCHANGED code
  /\ UNCHANGED <<vars, serve, sigChan, slow>>

(* LoadSchemas, which a file may make fail ... *)
LoadSchemas(ok) ==
  /\ main = "load"
  /\ cause' = IF ok THEN cause ELSE "schema"
  /\ IF ok THEN main' = "construct" /\ UNCHANGED code ELSE Exit(3)
  /\ UNCHANGED <<vars, serve, sigChan, slow>>

(* ... server.New, which registers what the documents ask for, and may     *)
(* give up with some of it registered ...                                  *)
NewServer(ok) ==
  /\ main = "construct"
  /\ cause' = IF ok THEN cause ELSE "schema"
  /\ IF ok
     THEN /\ main' = "listen"
          /\ byEvent' = StartupSubscriptions
          /\ jobs' = StartupJobs
          /\ client' = [x \in Ex |-> IF x \in SpecEx THEN "spec" ELSE "absent"]
          /\ UNCHANGED code
     ELSE Exit(3) /\ UNCHANGED <<byEvent, jobs, client>>
  /\ UNCHANGED <<runtimeExamples, fire, shutdown, serve, sigChan, slow>>

(* ... and Listen, whose port may be taken.  Serve runs in a goroutine of  *)
(* its own.                                                                *)
Listen(ok) ==
  /\ main = "listen"
  /\ cause' = IF ok THEN cause ELSE "port"
  /\ IF ok THEN main' = "started" /\ UNCHANGED code ELSE Exit(4)
  /\ serve' = IF ok THEN "ready" ELSE serve
  /\ UNCHANGED <<vars, sigChan, slow>>

(* Serve accepts; if the server was shut down before, it returns at once. *)
Serve ==
  /\ alive /\ main # "draining" /\ serve = "ready"
  /\ serve' = "serving"
  /\ UNCHANGED <<vars, main, code, cause, sigChan, slow>>

(* Accept fails: Serve returns and the error waits in serverErrChan. *)
ServeFails ==
  /\ alive /\ serve = "serving"
  /\ serve' = "failed"
  /\ UNCHANGED <<vars, main, code, cause, sigChan, slow>>

(* After the log line "Mock server started" signals are asked for. *)
Notify ==
  /\ main = "started"
  /\ main' = "waiting"
  /\ UNCHANGED <<vars, code, cause, serve, sigChan, slow>>

(* SIGINT or SIGTERM: before Notify it ends the process; afterwards it     *)
(* waits in the channel, which holds one.                                  *)
Signal ==
  /\ alive
  /\ IF main \in {"waiting", "stopping", "draining"}
     THEN sigChan' = TRUE /\ UNCHANGED <<main, code>>
     ELSE Exit(Killed) /\ UNCHANGED sigChan
  /\ UNCHANGED <<vars, cause, serve, slow>>

-----------------------------------------------------------------------------
(* main's select takes the error of Serve ... *)
SelectServerError ==
  /\ main = "waiting" /\ serve = "failed"
  /\ cause' = "server"
  /\ Exit(1)
  /\ UNCHANGED <<vars, serve, sigChan, slow>>

(* ... or the signal: Shutdown begins with stopSweep. *)
SelectSignal ==
  /\ main = "waiting" /\ sigChan
  /\ sigChan' = FALSE
  /\ main' = "stopping"
  /\ UNCHANGED <<vars, code, cause, serve, slow>>

(* eventDriver.shutdown, step by step. *)
StopEvents ==
  /\ main = "stopping"
  /\ ShutdownJobs \/ ShutdownDelivery \/ StopBroker
  /\ UNCHANGED life

(* httpServer.Shutdown closes the listener ... *)
StopHTTP ==
  /\ main = "stopping" /\ shutdown = "down"
  /\ main' = "draining"
  /\ serve' = IF serve = "serving" THEN "closed" ELSE serve
  /\ UNCHANGED <<vars, code, cause, sigChan, slow>>

(* Handlers in which a connection of net/http is active.  A delayed event  *)
(* is left to a goroutine, and the built-in ones are fired by WebSocket    *)
(* connections, which are hijacked: nobody waits for either.               *)
handling ==
  \/ slow = "open"
  \/ \E x \in Ex : client[x] \in {"posting", "deleting"}
  \/ \E f \in Fire :
       /\ ~fire[f].call.builtin
       /\ fire[f].pc = "begun" \/ (fire[f].pc = "delivering" /\ ~fire[f].call.delay)

(* Closes the connections instead: nobody is waited for. *)
FaultyDrained ==
  /\ main = "draining"
  /\ Exit(0)
  /\ UNCHANGED <<vars, cause, serve, sigChan, slow>>

(* ... and waits until no connection is active ... *)
Drained ==
  /\ main = "draining" /\ ~handling
  /\ Exit(0)
  /\ UNCHANGED <<vars, cause, serve, sigChan, slow>>

(* A context without a deadline. *)
FaultyDrainTimesOut == FALSE /\ UNCHANGED allVars

(* ... or until the context is over, ten seconds after the signal. *)
DrainTimesOut ==
  /\ main = "draining"
  /\ cause' = "timeout"
  /\ Exit(1)
  /\ UNCHANGED <<vars, serve, sigChan, slow>>

-----------------------------------------------------------------------------
(* A request may begin while the server accepts, and on a connection that  *)
(* was accepted before Serve returned.                                     *)
accepting == alive /\ serve \in {"serving", "failed", "closed"}

(* There is no read deadline: a client may take any time. *)
SlowBegins ==
  /\ accepting /\ slow = "none"
  /\ slow' = "open"
  /\ UNCHANGED <<vars, main, code, cause, serve, sigChan>>

SlowEnds ==
  /\ alive /\ slow = "open"
  /\ slow' = "over"
  /\ UNCHANGED <<vars, main, code, cause, serve, sigChan>>

Request ==
  /\ accepting
  /\ \/ \E x \in Ex : PostRegister(x) \/ DeleteRecord(x)
     \/ \E f \in Fire, call \in Call : FireBegin(f, call)
  /\ UNCHANGED life

DeliveryPanics(x) == alive /\ JobPanics(x) /\ UNCHANGED life
HandlerStep(x) == alive /\ (PostRecord(x) \/ DeleteUnregister(x)) /\ UNCHANGED life
DriverStep(f) == alive /\ FireStep(f) /\ UNCHANGED life
DriverTimer(f) == alive /\ FireTimerElapses(f) /\ UNCHANGED life
DriverEmission(f, i) == alive /\ EmissionStep(f, i) /\ UNCHANGED life
DriverEmissionTimer(f, i) == alive /\ EmissionTimerElapses(f, i) /\ UNCHANGED life

MainStep ==
  \/ Configure
  \/ \E ok \in BOOLEAN : LoadSchemas(ok) \/ NewServer(ok) \/ Listen(ok)
  \/ Notify
  \/ SelectServerError \/ SelectSignal
  \/ StopEvents \/ StopHTTP \/ Drained \/ DrainTimesOut

(* What the process does by itself. *)
ServerStep ==
  \/ MainStep
  \/ Serve
  \/ \E x \in Ex : HandlerStep(x)
  \/ \E f \in Fire : DriverStep(f) \/ DriverTimer(f)
  \/ \E f \in Fire : \E i \in DOMAIN fire[f].st :
       DriverEmission(f, i) \/ DriverEmissionTimer(f, i)

LifeNext ==
  \/ ServerStep
  \/ ServeFails \/ Signal
  \/ \E x \in Ex : DeliveryPanics(x)
  \/ SlowBegins \/ SlowEnds \/ Request

(* As long as some goroutine can run or some timer elapse, the ten seconds *)
(* of the drain among them, something of that happens.  No client is       *)
(* obliged to end its request, nobody to send a signal.                    *)
LifeFairness == WF_allVars(ServerStep)

LifeSpec == LifeInit /\ [][LifeNext]_allVars /\ LifeFairness

-----------------------------------------------------------------------------
(* Types of the process. *)
LifeTypeOK ==
  /\ TypeOK
  /\ main \in {"configure", "load", "construct", "listen", "started", "waiting",
               "stopping", "draining", "exited"}
  /\ code \in {NoCode, 0, 1, 2, 3, 4, Killed}
  /\ serve \in {"off", "ready", "serving", "failed", "closed"}
  /\ sigChan \in BOOLEAN /\ slow \in {"none", "open", "over"}

(* RS.CLI.15-18 and the shutdown: the exit code tells what happened.  Code *)
(* 2 to 4 name the first fault among arguments, schemas and port, and the  *)
(* process has served nothing; 0 means that every request that began was   *)
(* answered; a process that served and exits with 1 was given nothing      *)
(* wrong.                                                                  *)
ExitCodeTells ==
  main = "exited" /\ code # Killed =>
    /\ code = 2 <=> cause = "arguments"
    /\ code = 3 <=> cause = "schema"
    /\ code = 4 <=> cause = "port"
    /\ code \in {2, 3, 4} =>
         /\ slow = "none" /\ runtimeExamples = {}
         /\ \A f \in Fire : fire[f].pc = "idle"
    /\ code = 0 => cause = "none" /\ ~handling /\ shutdown = "down"
    /\ code = 1 => cause \in {"flags", "server", "timeout"}

(* A signal that the process listens for ends it, whatever the clients and *)
(* the handlers do: main never waits for the event driver, and the drain   *)
(* has a deadline.                                                         *)
SignalEndsProcess == (main = "waiting" /\ sigChan) ~> (main = "exited")

(* As long as the process lives, every fired event and the goroutines it   *)
(* left behind come to an end, also those that begin while the server      *)
(* drains, when the event driver is already shut down.                     *)
EventsSettle ==
  \A f \in Fire : (fire[f].pc # "idle") ~>
    (main = "exited" \/ (fire[f].pc = "ended" /\ Range(fire[f].st) \subseteq Settled))

(* "so no delivery happens after shutdown": a job that a draining handler  *)
(* registers is never stopped.                                             *)
NoJobAfterShutdown == shutdown = "down" => \A x \in Periodic : jobs[x] # "running"

(* What GET and DELETE of /_mock/examples know is still delivered: not if  *)
(* a delivery panicked.                                                    *)
KnownIsScheduled ==
  \A x \in Periodic \cap runtimeExamples : shutdown = "running" => jobs[x] = "running"

(* "Handle interrupt signals for graceful shutdown", once "Mock server     *)
(* started" is logged.                                                     *)
SignalIsGraceful == code = Killed => serve = "off"

(* RS.CLI.15: "the CLI exits with code 2".  A flag that cobra cannot parse *)
(* is a general error.                                                     *)
InvalidFlagExitsWithTwo == main = "exited" /\ cause = "flags" => code = 2
=============================================================================
