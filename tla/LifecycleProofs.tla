--------------------------- MODULE LifecycleProofs ---------------------------
(***************************************************************************)
(* Proofs about Lifecycle, for every set of meters and every number of     *)
(* connections.                                                            *)
(***************************************************************************)
EXTENDS Lifecycle, TLAPS

USE BoundAssumption, MeterAssumption

\* A client that is about to send its result has one.
TypeInv == TypeOK /\ (client = "leaving" => verdict # "none")

LEMMA TypeInductive == TypeInv /\ [Next]_vars => TypeInv'
<1> SUFFICES ASSUME TypeInv, [Next]_vars PROVE TypeInv'
  OBVIOUS
<1> USE DEF TypeInv, TypeOK, appVars, clientVars, connVars, Epochs
<1>1. CASE Signal BY <1>1 DEF Signal
<1>2. CASE AppRun
  <2>1. CASE OpenFails BY <2>1 DEF OpenFails
  <2>2. CASE OpenMeters BY <2>2 DEF OpenMeters
  <2>3. CASE NewClientFails BY <2>3 DEF NewClientFails
  <2>4. CASE StartClient BY <2>4 DEF StartClient
  <2>5. CASE AppReady BY <2>5 DEF AppReady, Stages, OnTheBus
  <2>6. CASE AppCancelledEarly BY <2>6 DEF AppCancelledEarly
  <2>7. CASE AppClientEndsEarly BY <2>7 DEF AppClientEndsEarly
  <2>8. CASE AppCancelled BY <2>8 DEF AppCancelled
  <2>9. CASE AppClientEnds BY <2>9 DEF AppClientEnds
  <2>10. CASE Wait BY <2>10 DEF Wait
  <2>11. CASE Close BY <2>11 DEF Close
  <2> QED BY <1>2, <2>1, <2>2, <2>3, <2>4, <2>5, <2>6, <2>7, <2>8, <2>9, <2>10, <2>11
          DEF AppRun
<1>3. CASE ClientRun
  <2>1. CASE Connected \/ ConnectFails \/ SeeReady \/ SeeStartupError \/ SeeCancel
    BY <2>1 DEF Connected, ConnectFails, SeeReady, SeeStartupError, SeeCancel
  <2>2. CASE LeaveRun BY <2>2 DEF LeaveRun
  <2> QED BY <1>3, <2>1, <2>2 DEF ClientRun
<1>4. CASE OnConnect
  <2> PICK e \in Epochs : \/ TopicGranted(e) \/ SubscribeFails(e)
                          \/ AnnounceReady(e) \/ reportStartupError(e)
    BY <1>4 DEF OnConnect
  <2>1. CASE TopicGranted(e) BY <2>1 DEF TopicGranted, Wanted, Topics, HookStates
  <2>2. CASE SubscribeFails(e)
    <3>1. topics' \subseteq Topics BY <2>2 DEF SubscribeFails, Wanted, Topics
    <3>2. hook' \in [Epochs -> HookStates] BY <2>2 DEF SubscribeFails, HookStates
    <3> QED BY <2>2, <3>1, <3>2 DEF SubscribeFails
  <2>3. CASE AnnounceReady(e) BY <2>3 DEF AnnounceReady, HookStates
  <2>4. CASE reportStartupError(e) BY <2>4 DEF reportStartupError, HookStates
  <2> QED BY <2>1, <2>2, <2>3, <2>4
<1>5. CASE ConnectionUp BY <1>5 DEF ConnectionUp, HookStates
<1>6. CASE DialFails BY <1>6 DEF DialFails
<1>7. CASE ConnectionLost BY <1>7 DEF ConnectionLost
<1>8. CASE \E w \in Workers : Busy(w) \/ Awaken(w) \/ End(w)
  <2> PICK w \in Workers : Busy(w) \/ Awaken(w) \/ End(w) BY <1>8
  <2>1. UNCHANGED <<appVars, asked, cancelled, clientVars, finished, ready, connVars>>
    BY DEF Busy, Awaken, End, Control, CommandArrives, collectAndPublish, Tick, Stage
  <2>2. ASSUME NEW v, NEW from, NEW to \in SUBSET Stages, Stage(v, from, to)
        PROVE  worker' \in [Workers -> Stages]
    BY <2>2 DEF Stage
  <2>3. worker' \in [Workers -> Stages]
    <3>1. {"measuring"} \in SUBSET Stages /\ {"ended"} \in SUBSET Stages
      BY DEF Stages, OnTheBus
    <3>2. /\ {"reporting", "sampling"} \in SUBSET Stages /\ {"sampling"} \in SUBSET Stages
          /\ {"publishing", "idle"} \in SUBSET Stages /\ {"idle"} \in SUBSET Stages
      BY DEF Stages, OnTheBus
    <3>3. /\ {"acking"} \in SUBSET Stages /\ {"sampling", "idle"} \in SUBSET Stages
          /\ {"executing", "acking"} \in SUBSET Stages
      BY DEF Stages, OnTheBus
    <3>4. CASE Control
      BY <2>2, <3>2, <3>3, <3>4 DEF Control
    <3>5. CASE collectAndPublish(w) BY <2>2, <3>2, <3>5 DEF collectAndPublish
    <3>6. CASE CommandArrives BY <2>2, <3>3, <3>6 DEF CommandArrives
    <3>7. CASE Tick(w) BY <2>2, <3>1, <3>7 DEF Tick
    <3>8. CASE End(w) BY <2>2, <3>1, <3>8 DEF End
    <3> QED BY <3>4, <3>5, <3>6, <3>7, <3>8 DEF Busy, Awaken
  <2> QED BY <2>1, <2>3
<1>9. CASE UNCHANGED vars BY <1>9 DEF vars
<1> QED BY <1>1, <1>2, <1>3, <1>4, <1>5, <1>6, <1>7, <1>8, <1>9 DEF Next

\* Type correctness: in particular clientFinished never holds more than the
\* one result the client's goroutine sends.
THEOREM TypeCorrect == Spec => []TypeOK
<1>1. Init => TypeInv
  <2> SUFFICES ASSUME Init PROVE TypeInv
    OBVIOUS
  <2>1. 0 \in 0..MaxConnections BY BoundAssumption
  <2>2. worker \in [Workers -> Stages] BY DEF Init, Stages
  <2>3. hook \in [Epochs -> HookStates]
    BY DEF Init, HookStates
  <2> QED BY <2>1, <2>2, <2>3 DEF Init, TypeInv, TypeOK
<1>2. TypeInv => TypeOK BY DEF TypeInv
<1> QED BY <1>1, <1>2, TypeInductive, PTL DEF Spec

-----------------------------------------------------------------------------
\* A step of a worker that is there changes its own stage, and neither a
\* worker that has ended nor one that was never started takes a step.
LEMMA WorkerStep ==
  ASSUME TypeOK, NEW w \in Workers, Busy(w) \/ Awaken(w) \/ End(w)
  PROVE  /\ ~Gone(w)
         /\ \A v \in Workers : v # w => worker'[v] = worker[v]
         /\ worker'[w] # "unborn"
         /\ UNCHANGED <<appVars, asked, cancelled, clientVars, finished, ready, connVars>>
BY DEF TypeOK, Busy, Awaken, End, Control, CommandArrives, collectAndPublish, Tick, Stage, Gone

\* Where Application.Run is tells who may be running: the client from
\* StartClient to its end, the workers from AppReady to theirs.
Staffed ==
  /\ app \in {"opening", "opened"} => client = "unborn"
  /\ app \in {"opening", "opened", "starting"} => \A w \in Workers : worker[w] = "unborn"
  /\ PortOutlivesItsUsers

LEMMA StaffedInductive == TypeOK /\ Staffed /\ [Next]_vars => Staffed'
<1> SUFFICES ASSUME TypeOK, Staffed, [Next]_vars PROVE Staffed'
  OBVIOUS
<1> USE DEF Staffed, PortOutlivesItsUsers, Gone, appVars, clientVars, connVars
<1>1. CASE Signal BY <1>1 DEF Signal
<1>2. CASE AppRun
  <2>1. CASE OpenFails BY <2>1 DEF OpenFails
  <2>2. CASE OpenMeters BY <2>2 DEF OpenMeters
  <2>3. CASE NewClientFails BY <2>3 DEF NewClientFails
  <2>4. CASE StartClient BY <2>4 DEF StartClient
  <2>5. CASE AppReady BY <2>5 DEF AppReady
  <2>6. CASE AppCancelledEarly BY <2>6 DEF AppCancelledEarly
  <2>7. CASE AppClientEndsEarly BY <2>7 DEF AppClientEndsEarly
  <2>8. CASE AppCancelled BY <2>8 DEF AppCancelled
  <2>9. CASE AppClientEnds BY <2>9 DEF AppClientEnds
  <2>10. CASE Wait BY <2>10 DEF Wait
  <2>11. CASE Close BY <2>11 DEF Close
  <2> QED BY <1>2, <2>1, <2>2, <2>3, <2>4, <2>5, <2>6, <2>7, <2>8, <2>9, <2>10, <2>11
          DEF AppRun
<1>3. CASE ClientRun
  BY <1>3 DEF ClientRun, Connected, ConnectFails, SeeReady, SeeStartupError, SeeCancel,
              LeaveRun
<1>4. CASE OnConnect
  <2> UNCHANGED <<app, client, worker>>
    BY <1>4 DEF OnConnect, TopicGranted, SubscribeFails, AnnounceReady, reportStartupError
  <2> QED OBVIOUS
<1>5. CASE ConnectionUp \/ DialFails \/ ConnectionLost
  BY <1>5 DEF ConnectionUp, DialFails, ConnectionLost
<1>6. CASE \E w \in Workers : Busy(w) \/ Awaken(w) \/ End(w)
  BY <1>6, WorkerStep
<1>7. CASE UNCHANGED vars BY <1>7 DEF vars
<1> QED BY <1>1, <1>2, <1>3, <1>4, <1>5, <1>6, <1>7 DEF Next

\* No goroutine outlives the serial port it uses.
THEOREM PortIsSafe == Spec => []PortOutlivesItsUsers
<1>1. Init => Staffed
  BY DEF Init, Staffed, PortOutlivesItsUsers
<1>2. Staffed => PortOutlivesItsUsers BY DEF Staffed
<1> QED BY <1>1, <1>2, TypeCorrect, StaffedInductive, PTL DEF Spec

-----------------------------------------------------------------------------
\* Before Run decides on its outcome, only the caller can have cancelled.
CancelIsAccounted ==
  /\ cancelled => asked \/ app \in {"waiting", "closing", "returned"}
  /\ outcome = "nil" => asked

LEMMA CancelInductive == CancelIsAccounted /\ [Next]_vars => CancelIsAccounted'
<1> SUFFICES ASSUME CancelIsAccounted, [Next]_vars PROVE CancelIsAccounted'
  OBVIOUS
<1> USE DEF CancelIsAccounted, appVars, clientVars, connVars
<1>1. CASE Signal BY <1>1 DEF Signal
<1>2. CASE AppRun
  BY <1>2 DEF AppRun, OpenFails, OpenMeters, NewClientFails, StartClient, AppReady,
              AppCancelledEarly, AppClientEndsEarly, AppCancelled, AppClientEnds, Wait, Close
<1>3. CASE ClientRun
  BY <1>3 DEF ClientRun, Connected, ConnectFails, SeeReady, SeeStartupError, SeeCancel,
              LeaveRun
<1>4. CASE OnConnect
  BY <1>4 DEF OnConnect, TopicGranted, SubscribeFails, AnnounceReady, reportStartupError
<1>5. CASE ConnectionUp \/ DialFails \/ ConnectionLost
  BY <1>5 DEF ConnectionUp, DialFails, ConnectionLost
<1>6. CASE \E w \in Workers : Busy(w) \/ Awaken(w) \/ End(w)
  BY <1>6 DEF Busy, Awaken, End, Control, CommandArrives, collectAndPublish, Tick, Stage
<1>7. CASE UNCHANGED vars BY <1>7 DEF vars
<1> QED BY <1>1, <1>2, <1>3, <1>4, <1>5, <1>6, <1>7 DEF Next

\* A run that nobody asked to stop never returns nil.
THEOREM CleanStopsAreAsked == Spec => []OnlyAskedStopsAreClean
<1>1. Init => CancelIsAccounted
  BY DEF Init, CancelIsAccounted
<1>2. CancelIsAccounted => OnlyAskedStopsAreClean
  BY DEF CancelIsAccounted, OnlyAskedStopsAreClean
<1> QED BY <1>1, <1>2, CancelInductive, PTL DEF Spec

-----------------------------------------------------------------------------
\* The connections to come have no callback yet, the channel ready was closed by a callback that had
\* its topics, and workers follow ready.
Announced ==
  /\ \A e \in Epochs : e > epoch => hook[e] = "none"
  /\ ready => \E e \in Epochs : hook[e] = "announced"
  /\ (\E w \in Workers : worker[w] # "unborn") => ready

LEMMA AnnouncedInductive == TypeOK /\ Announced /\ [Next]_vars => Announced'
<1> SUFFICES ASSUME TypeOK, Announced, [Next]_vars PROVE Announced'
  OBVIOUS
<1> USE DEF Announced, appVars, clientVars, connVars
<1>1. CASE Signal BY <1>1 DEF Signal
<1>2. CASE AppRun
  BY <1>2 DEF AppRun, OpenFails, OpenMeters, NewClientFails, StartClient, AppReady,
              AppCancelledEarly, AppClientEndsEarly, AppCancelled, AppClientEnds, Wait, Close
<1>3. CASE ClientRun
  BY <1>3 DEF ClientRun, Connected, ConnectFails, SeeReady, SeeStartupError, SeeCancel,
              LeaveRun
<1>4. CASE OnConnect
  <2> PICK e \in Epochs : \/ TopicGranted(e) \/ SubscribeFails(e)
                          \/ AnnounceReady(e) \/ reportStartupError(e)
    BY <1>4 DEF OnConnect
  <2>1. hook[e] # "none" /\ hook[e] # "announced"
    BY DEF TopicGranted, SubscribeFails, Subscribing, AnnounceReady, reportStartupError
  <2>2. \A f \in Epochs : f # e => hook'[f] = hook[f]
    BY DEF TypeOK, TopicGranted, SubscribeFails, AnnounceReady, reportStartupError
  <2>3. epoch' = epoch /\ worker' = worker
    BY DEF TopicGranted, SubscribeFails, AnnounceReady, reportStartupError
  <2>4. ready' => ready \/ hook'[e] = "announced"
    BY DEF TypeOK, TopicGranted, SubscribeFails, AnnounceReady, reportStartupError
  <2>5. ready => ready'
    BY DEF TopicGranted, SubscribeFails, AnnounceReady, reportStartupError
  <2> QED BY <2>1, <2>2, <2>3, <2>4, <2>5
<1>5. CASE ConnectionUp
  <2>1. epoch + 1 \in Epochs /\ hook[epoch + 1] = "none"
    BY <1>5 DEF ConnectionUp, TypeOK, Epochs
  <2>2. \A e \in Epochs : e # epoch + 1 => hook'[e] = hook[e]
    BY <1>5 DEF ConnectionUp, TypeOK
  <2> QED BY <1>5, <2>1, <2>2 DEF ConnectionUp, TypeOK, Epochs
<1>6. CASE DialFails \/ ConnectionLost
  BY <1>6 DEF DialFails, ConnectionLost
<1>7. CASE \E w \in Workers : Busy(w) \/ Awaken(w) \/ End(w)
  BY <1>7, WorkerStep DEF Gone
<1>8. CASE UNCHANGED vars BY <1>8 DEF vars
<1> QED BY <1>1, <1>2, <1>3, <1>4, <1>5, <1>6, <1>7, <1>8 DEF Next

\* The callback of the open connection began after it: what it had acknowledged, the broker still has,
\* for only the next connection takes it away.
OwnTopics ==
  /\ conn = "up" => epoch \in Epochs
  /\ conn = "up" /\ hook[epoch] = "halfway" => "reply" \in topics
  /\ conn = "up" /\ hook[epoch] \in {"granted", "announced"} => topics = Topics

LEMMA OwnInductive == TypeOK /\ Announced /\ OwnTopics /\ [Next]_vars => OwnTopics'
<1> SUFFICES ASSUME TypeOK, Announced, OwnTopics, [Next]_vars PROVE OwnTopics'
  OBVIOUS
<1> USE DEF connVars
<1>1. CASE UNCHANGED connVars BY <1>1 DEF OwnTopics
<1>2. CASE ConnectionUp
  <2>1. epoch' \in Epochs /\ epoch' = epoch + 1 BY <1>2 DEF ConnectionUp, TypeOK, Epochs
  <2>2. hook'[epoch'] = "subscribing" BY <1>2, <2>1 DEF ConnectionUp, TypeOK
  <2> QED BY <2>1, <2>2 DEF OwnTopics
<1>3. CASE DialFails \/ ConnectionLost \/ LeaveRun \/ StartClient
  BY <1>3 DEF DialFails, ConnectionLost, LeaveRun, StartClient, OwnTopics
<1>4. CASE OnConnect
  <2> PICK e \in Epochs : \/ TopicGranted(e) \/ SubscribeFails(e)
                          \/ AnnounceReady(e) \/ reportStartupError(e)
    BY <1>4 DEF OnConnect
  <2>1. /\ UNCHANGED <<conn, epoch>>
        /\ topics \subseteq topics' /\ topics' \subseteq Topics
        /\ \A f \in Epochs : f # e => hook'[f] = hook[f]
    BY DEF TypeOK, TopicGranted, SubscribeFails, AnnounceReady, reportStartupError, Wanted, Topics
  <2>2. CASE TopicGranted(e)
    <3>1. hook[e] = "subscribing" => hook'[e] = "halfway" /\ "reply" \in topics'
      BY <2>2 DEF TypeOK, TopicGranted, Wanted
    <3>2. hook[e] = "halfway" => hook'[e] = "granted" /\ "set" \in topics'
      BY <2>2 DEF TypeOK, TopicGranted, Wanted
    <3>3. hook[e] \in {"subscribing", "halfway"} BY <2>2 DEF TopicGranted, Subscribing
    <3> QED BY <2>1, <3>1, <3>2, <3>3 DEF OwnTopics, Topics
  <2>3. CASE SubscribeFails(e) \/ AnnounceReady(e) \/ reportStartupError(e)
    <3>1. \/ hook'[e] \in {"refused", "reported"}
          \/ hook[e] = "granted" /\ hook'[e] = "announced"
      BY <2>3 DEF TypeOK, SubscribeFails, AnnounceReady, reportStartupError
    <3> QED BY <2>1, <3>1 DEF OwnTopics
  <2> QED BY <2>2, <2>3
<1>5. CASE AppRun /\ ~StartClient
  BY <1>1, <1>5 DEF AppRun, OpenFails, OpenMeters, NewClientFails, AppReady,
     AppCancelledEarly, AppClientEndsEarly, AppCancelled, AppClientEnds, Wait, Close
<1>6. CASE Signal \/ (ClientRun /\ ~LeaveRun)
  BY <1>1, <1>6 DEF Signal, ClientRun, Connected, ConnectFails, SeeReady, SeeStartupError, SeeCancel
<1>7. CASE \E w \in Workers : Busy(w) \/ Awaken(w) \/ End(w)
  BY <1>1, <1>7, WorkerStep
<1>8. CASE UNCHANGED vars BY <1>1, <1>8 DEF vars
<1> QED BY <1>2, <1>3, <1>4, <1>5, <1>6, <1>7, <1>8 DEF Next

\* No work before a callback had both topics; and the callback of the open connection, once through,
\* has both of them there, for every number of connections and of callbacks under way.
THEOREM WorkIsSubscribed == Spec => []WorkAwaitsSubscription
<1>1. Init => Announced /\ OwnTopics
  BY DEF Init, Announced, OwnTopics
<1>2. Announced /\ OwnTopics => WorkAwaitsSubscription
  BY DEF Announced, OwnTopics, WorkAwaitsSubscription, Listening
<1> QED BY <1>1, <1>2, TypeCorrect, AnnouncedInductive, OwnInductive, PTL DEF Spec
=============================================================================
