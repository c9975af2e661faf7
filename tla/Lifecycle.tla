------------------------------ MODULE Lifecycle ------------------------------
(***************************************************************************)
(* The life of the meter program: Application.Run (meter/app/app.go), the  *)
(* MQTT client's Run and its OnConnect callback                            *)
(* (common/mqttclient/client.go), one collector per meter                  *)
(* (meter/collector) and the controller (meter/controller), each in a      *)
(* goroutine of its own.  What a worker does on the bus or with a report   *)
(* is abstracted to the stage it is in; PostSession and CommandControl     *)
(* hold the detail.                                                        *)
(***************************************************************************)
EXTENDS Naturals

CONSTANTS Meters,          \* the configured meters
          MaxConnections   \* bound: connections the broker accepts in one run

\* A gateway has at least one connection to wait for.
ASSUME BoundAssumption == MaxConnections \in Nat \ {0}

Controller == "controller"
Workers == Meters \cup {Controller}
Epochs == 1..MaxConnections

\* A meter is not named like the controller.
ASSUME MeterAssumption == Controller \notin Meters

VARIABLES
  app,        \* where Application.Run is
  outcome,    \* what Application.Run returns: "none" so far, "nil", "error"
  port,       \* the serial port
  asked,      \* the caller cancelled the context (a signal arrived)
  cancelled,  \* runCtx is done
  client,     \* where the client's Run is
  verdict,    \* what the client's Run returns
  finished,   \* the channel clientFinished: "empty", "nil" or "error"
  ready,      \* the channel ready is closed
  startup,    \* startupErrors and its Once: "unused", "queued" or "read"
  conn,       \* paho's connection
  epoch,      \* the connections made so far
  topics,     \* external: what the broker has subscribed the newest connection to
  hook,       \* the OnConnect goroutine of each connection
  worker      \* the stage each collector, and the controller, is in

appVars == <<app, outcome, port>>
clientVars == <<client, verdict, startup>>
connVars == <<conn, epoch, topics, hook>>
vars == <<appVars, asked, cancelled, clientVars, finished, ready, connVars, worker>>

\* postReplyTopic and setTopic.
Topics == {"reply", "set"}
HookStates == {"none", "subscribing", "halfway", "granted", "announced", "refused", "reported"}

OnTheBus == {"measuring", "sampling", "executing"}
Stages == OnTheBus \cup {"reporting", "publishing", "acking", "idle", "ended", "unborn"}

TypeOK ==
  /\ app \in {"opening", "opened", "starting", "running", "waiting", "closing", "returned"}
  /\ outcome \in {"none", "nil", "error"}
  /\ port \in {"unopened", "open", "closed"}
  /\ asked \in BOOLEAN /\ cancelled \in BOOLEAN /\ ready \in BOOLEAN
  /\ client \in {"unborn", "connecting", "starting", "serving", "leaving", "ended"}
  /\ verdict \in {"none", "nil", "error"}
  /\ finished \in {"empty", "nil", "error"}
  /\ startup \in {"unused", "queued", "read"}
  /\ conn \in {"down", "dialing", "up", "lost"}
  /\ epoch \in 0..MaxConnections
  /\ topics \subseteq Topics
  /\ hook \in [Epochs -> HookStates]
  /\ worker \in [Workers -> Stages]

Init ==
  /\ app = "opening" /\ outcome = "none" /\ port = "unopened"
  /\ asked = FALSE /\ cancelled = FALSE /\ ready = FALSE
  /\ client = "unborn" /\ verdict = "none" /\ finished = "empty"
  /\ startup = "unused"
  /\ conn = "down" /\ epoch = 0 /\ topics = {}
  /\ hook = [e \in Epochs |-> "none"]
  /\ worker = [w \in Workers |-> "unborn"]

-----------------------------------------------------------------------------
(* The caller and the start of Application.Run *)

\* SIGINT or SIGTERM: signal.NotifyContext cancels ctx, and with it runCtx.
Signal ==
  /\ ~asked /\ app # "returned"
  /\ asked' = TRUE /\ cancelled' = TRUE
  /\ UNCHANGED <<appVars, clientVars, finished, ready, connVars, worker>>

\* The configuration is refused, or openMeters fails and has closed the port
\* it may have opened; the deferred cancel runs.
OpenFails ==
  /\ app = "opening"
  /\ app' = "returned" /\ outcome' = "error" /\ cancelled' = TRUE
  /\ port' \in {"unopened", "closed"}
  /\ UNCHANGED <<asked, clientVars, finished, ready, connVars, worker>>

OpenMeters ==
  /\ app = "opening"
  /\ app' = "opened" /\ port' = "open"
  /\ UNCHANGED <<outcome, asked, cancelled, clientVars, finished, ready, connVars, worker>>

\* newClient fails: Run returns its error through the deferred Close.
NewClientFails ==
  /\ app = "opened"
  /\ app' = "closing" /\ outcome' = "error"
  /\ UNCHANGED <<port, asked, cancelled, clientVars, finished, ready, connVars, worker>>

\* `go client.Run(runCtx)`, whose first call is mqttClient.Connect().
StartClient ==
  /\ app = "opened"
  /\ app' = "starting" /\ client' = "connecting" /\ conn' = "dialing"
  /\ UNCHANGED <<outcome, port, asked, cancelled, verdict, startup, finished, ready,
                 epoch, topics, hook, worker>>

-----------------------------------------------------------------------------
(* The paho connection, and the OnConnect callback of each connection *)

\* CleanSession is set: the broker has forgotten the subscriptions of the connection before.  Each
\* connection gets a callback of its own, and those of earlier ones may still be under way.
ConnectionUp ==
  /\ conn \in {"dialing", "lost"}
  /\ epoch < MaxConnections
  /\ conn' = "up" /\ epoch' = epoch + 1
  /\ topics' = {}
  /\ hook' = [hook EXCEPT ![epoch + 1] = "subscribing"]
  /\ UNCHANGED <<appVars, asked, cancelled, clientVars, finished, ready, worker>>

\* ConnectRetry is off: the first dial is tried once.
DialFails ==
  /\ conn = "dialing"
  /\ conn' = "down"
  /\ UNCHANGED <<appVars, asked, cancelled, clientVars, finished, ready, epoch, topics, hook, worker>>

\* AutoReconnect is on: paho dials again by itself.  The bound leaves it a
\* connection to come back with.
ConnectionLost ==
  /\ conn = "up" /\ epoch < MaxConnections
  /\ conn' = "lost"
  /\ UNCHANGED <<appVars, asked, cancelled, clientVars, finished, ready, epoch, topics, hook, worker>>

\* The topic the callback of connection e is waiting for: subscribe asks for one after the other.
Wanted(e) == IF hook[e] = "subscribing" THEN "reply" ELSE "set"
Subscribing(e) == hook[e] \in {"subscribing", "halfway"}

\* Mutant: the loop of subscribe returns after its first topic.
FirstTopicOnly(e) ==
  /\ Subscribing(e) /\ conn = "up"
  /\ topics' = topics \cup {Wanted(e)}
  /\ hook' = [hook EXCEPT ![e] = "granted"]
  /\ UNCHANGED <<appVars, asked, cancelled, clientVars, finished, ready, conn, epoch, worker>>

\* One topic is acknowledged, on the connection that is open now: not always e, and not always the one
\* on which this callback had its other topic.
TopicGranted(e) ==
  /\ Subscribing(e) /\ conn = "up"
  /\ topics' = topics \cup {Wanted(e)}
  /\ hook' = [hook EXCEPT ![e] = IF @ = "subscribing" THEN "halfway" ELSE "granted"]
  /\ UNCHANGED <<appVars, asked, cancelled, clientVars, finished, ready, conn, epoch, worker>>

\* The topic is refused, no connection is open, or the wait times out, which it may with the topic
\* subscribed to.
SubscribeFails(e) ==
  /\ Subscribing(e)
  /\ \/ UNCHANGED topics
     \/ conn = "up" /\ topics' = topics \cup {Wanted(e)}
  /\ hook' = [hook EXCEPT ![e] = "refused"]
  /\ UNCHANGED <<appVars, asked, cancelled, clientVars, finished, ready, conn, epoch, worker>>

AnnounceReady(e) ==
  /\ hook[e] = "granted"
  /\ hook' = [hook EXCEPT ![e] = "announced"]
  /\ ready' = TRUE
  /\ UNCHANGED <<appVars, asked, cancelled, clientVars, finished, conn, epoch, topics, worker>>

\* reportStartupError: silent once the client is ready, and said once.
reportStartupError(e) ==
  /\ hook[e] = "refused"
  /\ hook' = [hook EXCEPT ![e] = "reported"]
  /\ startup' = IF ~ready /\ startup = "unused" THEN "queued" ELSE startup
  /\ UNCHANGED <<appVars, asked, cancelled, client, verdict, finished, ready, conn, epoch,
                 topics, worker>>

OnConnect ==
  \E e \in Epochs : \/ TopicGranted(e) \/ SubscribeFails(e)
                    \/ AnnounceReady(e) \/ reportStartupError(e)

\* The gateway hears replies and commands: connected, both topics subscribed on that connection.
Listening == conn = "up" /\ topics = Topics

-----------------------------------------------------------------------------
(* The client's Run *)

\* Connect's token completes.
Connected ==
  /\ client = "connecting" /\ conn \in {"up", "lost"}
  /\ client' = "starting"
  /\ UNCHANGED <<appVars, asked, cancelled, verdict, startup, finished, ready, connVars, worker>>

\* The token carries an error, or 12 s pass before it completes.
ConnectFails ==
  /\ client = "connecting"
  /\ client' = "leaving" /\ verdict' = "error"
  /\ UNCHANGED <<appVars, asked, cancelled, startup, finished, ready, connVars, worker>>

SeeReady ==
  /\ client = "starting" /\ ready
  /\ client' = "serving"
  /\ UNCHANGED <<appVars, asked, cancelled, verdict, startup, finished, ready, connVars, worker>>

SeeStartupError ==
  /\ client = "starting" /\ startup = "queued"
  /\ client' = "leaving" /\ verdict' = "error" /\ startup' = "read"
  /\ UNCHANGED <<appVars, asked, cancelled, finished, ready, connVars, worker>>

\* Mutant: the cancelled Run leaves without a result.
LeaveWithoutResult ==
  /\ client \in {"starting", "serving"} /\ cancelled
  /\ client' = "leaving"
  /\ UNCHANGED <<appVars, asked, cancelled, verdict, startup, finished, ready, connVars, worker>>

\* Run sees runCtx done; stop() closes the channel the publishers watch.
SeeCancel ==
  /\ client \in {"starting", "serving"} /\ cancelled
  /\ client' = "leaving" /\ verdict' = "nil"
  /\ UNCHANGED <<appVars, asked, cancelled, startup, finished, ready, connVars, worker>>

\* disconnect does nothing unless the connection is open: a client that is
\* dialing or reconnecting goes on doing so.  Then `clientFinished <- err`.
LeaveRun ==
  /\ client = "leaving"
  /\ client' = "ended" /\ finished' = verdict
  /\ conn' = IF conn = "up" THEN "down" ELSE conn
  /\ UNCHANGED <<appVars, asked, cancelled, verdict, startup, ready, epoch, topics, hook,
                 worker>>

ClientRun == Connected \/ ConnectFails \/ SeeReady \/ SeeStartupError \/ SeeCancel \/ LeaveRun

-----------------------------------------------------------------------------
(* The collectors and the controller *)

Stage(w, from, to) ==
  /\ worker[w] \in from
  /\ \E stage \in to : worker' = [worker EXCEPT ![w] = stage]
  /\ UNCHANGED <<appVars, asked, cancelled, clientVars, finished, ready, connVars>>

\* collectAndPublish: a failed measurement skips its report only, a failed
\* sampling of the switches ends the round.
collectAndPublish(m) ==
  \/ Stage(m, {"measuring"}, {"reporting", "sampling"})
  \/ Stage(m, {"reporting"}, {"sampling"})
  \/ Stage(m, {"sampling"}, {"publishing", "idle"})
  \/ Stage(m, {"publishing"}, {"idle"})

\* Both cases of the collector's select may be ready: Go picks either.
Tick(m) == Stage(m, {"idle"}, {"measuring"})

\* A cached or refused command only has its ACK published; after an executed
\* one the switches are sampled and published.
Control ==
  \/ Stage(Controller, {"executing"}, {"acking"})
  \/ Stage(Controller, {"acking"}, {"sampling", "idle"})
  \/ Stage(Controller, {"sampling"}, {"publishing", "idle"})
  \/ Stage(Controller, {"publishing"}, {"idle"})

CommandArrives == Stage(Controller, {"idle"}, {"executing", "acking"})

End(w) == cancelled /\ Stage(w, {"idle"}, {"ended"})

Busy(w) == IF w = Controller THEN Control ELSE collectAndPublish(w)
Awaken(w) == IF w = Controller THEN CommandArrives ELSE Tick(w)

-----------------------------------------------------------------------------
(* The two selects of Application.Run, and its end *)

\* Ready: one collector per meter, which collects at once, and the controller.
AppReady ==
  /\ app = "starting" /\ ready
  /\ app' = "running"
  /\ worker' = [w \in Workers |-> IF w = Controller THEN "idle" ELSE "measuring"]
  /\ UNCHANGED <<outcome, port, asked, cancelled, clientVars, finished, ready, connVars>>

AppCancelledEarly ==
  /\ app = "starting" /\ cancelled
  /\ app' = "waiting" /\ outcome' = "nil"
  /\ UNCHANGED <<port, asked, cancelled, clientVars, finished, ready, connVars, worker>>

\* Mutant: a client that ended early without an error is always a clean stop.
EarlyEndIsClean ==
  /\ app = "starting" /\ finished # "empty"
  /\ app' = "waiting" /\ finished' = "empty"
  /\ outcome' = "nil"
  /\ UNCHANGED <<port, asked, cancelled, clientVars, ready, connVars, worker>>

\* A client that stopped before it was ready is an error, unless it stopped
\* without one because the context is done.
AppClientEndsEarly ==
  /\ app = "starting" /\ finished # "empty"
  /\ app' = "waiting" /\ finished' = "empty"
  /\ outcome' = IF finished = "nil" /\ cancelled THEN "nil" ELSE "error"
  /\ UNCHANGED <<port, asked, cancelled, clientVars, ready, connVars, worker>>

AppCancelled ==
  /\ app = "running" /\ cancelled
  /\ app' = "waiting" /\ outcome' = "nil"
  /\ UNCHANGED <<port, asked, cancelled, clientVars, finished, ready, connVars, worker>>

\* Mutant: the client's end is noted but the workers are not cancelled.
EndWithoutCancel ==
  /\ app = "running" /\ finished # "empty"
  /\ app' = "waiting" /\ outcome' = "error"
  /\ finished' = "empty"
  /\ UNCHANGED <<port, asked, cancelled, clientVars, ready, connVars, worker>>

\* Whatever the client returned, its end is an error of the application; the
\* other workers are cancelled.
AppClientEnds ==
  /\ app = "running" /\ finished # "empty"
  /\ app' = "waiting" /\ outcome' = "error"
  /\ finished' = "empty" /\ cancelled' = TRUE
  /\ UNCHANGED <<port, asked, clientVars, ready, connVars, worker>>

Gone(w) == worker[w] \in {"unborn", "ended"}

\* Mutant: Run waits for the workers it started last, not for the client.
WaitForWorkersOnly ==
  /\ app = "waiting" /\ \A w \in Workers : Gone(w)
  /\ app' = "closing"
  /\ UNCHANGED <<outcome, port, asked, cancelled, clientVars, finished, ready, connVars, worker>>

\* workers.Wait()
Wait ==
  /\ app = "waiting" /\ client = "ended" /\ \A w \in Workers : Gone(w)
  /\ app' = "closing"
  /\ UNCHANGED <<outcome, port, asked, cancelled, clientVars, finished, ready, connVars, worker>>

\* The deferred set.Close() and cancel().
Close ==
  /\ app = "closing"
  /\ app' = "returned" /\ port' = "closed" /\ cancelled' = TRUE
  /\ UNCHANGED <<outcome, asked, clientVars, finished, ready, connVars, worker>>

AppRun ==
  \/ OpenFails \/ OpenMeters \/ NewClientFails \/ StartClient
  \/ AppReady \/ AppCancelledEarly \/ AppClientEndsEarly
  \/ AppCancelled \/ AppClientEnds \/ Wait \/ Close

Next ==
  \/ Signal \/ AppRun \/ ClientRun \/ OnConnect
  \/ ConnectionUp \/ DialFails \/ ConnectionLost
  \/ \E w \in Workers : Busy(w) \/ Awaken(w) \/ End(w)

Spec == Init /\ [][Next]_vars

\* Mutant: Run leaves without calling stop().
NeverStopped == FALSE

\* stop() has closed Client.stopped: the cancelled Run calls it before it returns nil, the other ways
\* out of Run do not.
Stopped == verdict = "nil"

\* Publish waits for the server, for minutes if need be, unless the client is stopped.
Prompt(w) == Busy(w) /\ (worker[w] \in {"reporting", "publishing"} => Stopped)

(***************************************************************************)
(* Goroutines are scheduled, and the calls they make return: bus reads,    *)
(* Connect, Subscribe, PublishACK and Disconnect all have short timeouts.  *)
(* An upload is owed an end here only once the client is stopped.  A       *)
(* select with two ready cases picks one at random, so a worker whose      *)
(* context is done again and again while it is idle does end (strong       *)
(* fairness).  Signals, commands, ticks and what the network does are owed *)
(* to nobody.                                                              *)
(***************************************************************************)
Fairness ==
  /\ WF_vars(AppRun) /\ WF_vars(ClientRun) /\ WF_vars(OnConnect)
  /\ \A w \in Workers : WF_vars(Prompt(w)) /\ SF_vars(End(w))

FairSpec == Spec /\ Fairness

-----------------------------------------------------------------------------
(* Properties *)

\* Once Run gets to closing the serial port, no goroutine can touch it any
\* more: the client, the collectors and the controller have all ended.
\* (main.go:21, rtu.go:63 and the order Wait, Close in app.go:113-201.)
PortOutlivesItsUsers ==
  app \in {"closing", "returned"} =>
    /\ client \in {"unborn", "ended"}
    /\ \A w \in Workers : Gone(w)

\* A run that nobody asked to stop never returns nil: whichever select saw the
\* client's end, the failure reaches main (app.go:147-155, 192-198).
OnlyAskedStopsAreClean == app = "returned" /\ outcome = "nil" => asked

\* Nothing is collected or executed before some callback had both topics acknowledged, and one whose own
\* connection is still the open one has them both there, whatever callbacks of lost connections subscribe
\* to, or fail to, meanwhile (client.go:125-133, 364-375, app.go:144-146).
WorkAwaitsSubscription ==
  /\ (\E w \in Workers : worker[w] # "unborn") => \E e \in Epochs : hook[e] = "announced"
  /\ conn = "up" /\ hook[epoch] \in {"granted", "announced"} => Listening

\* Once the context is done, or the client has ended of itself, Run returns,
\* provided that uploads end by their reply timers if nothing else ends them: a
\* worker in the middle of a round ends after it, nobody waits for a goroutine
\* that waits for it (app.go:188-201, collector.go:56-64).
EveryStopFinishes ==
  (\A w \in Workers : WF_vars(Busy(w))) => ((cancelled \/ client = "ended") ~> app = "returned")

\* A client that ended because it was asked to has released every upload first:
\* Run returns without waiting for a reply or a reply timer, which may be
\* minutes away (client.go:183-193, 569, 674-676; app.go:201).
StopNeedsNoTimer == verdict = "nil" ~> app = "returned"

\* The contract of transport/client.go:17, and what app_test.go:136-141 expects:
\* a client that returns nil has stopped normally, so a run that was asked to
\* stop and whose client returned nil returns nil.  It does not hold: the
\* second select may find both of its channels ready and take clientFinished.
OrderlyStopIsClean ==
  app = "returned" /\ asked /\ verdict = "nil" => outcome = "nil"

\* client.go:124: after the first connection and after each automatic
\* reconnection the topics are subscribed again, so that a client that stays
\* connected ends up listening.  It does not hold: once the client is ready, a
\* subscription that fails is logged and never tried again.
ReconnectionsListen ==
  <>[](client = "serving" /\ conn = "up") => <>[]Listening
=============================================================================
