----------------------------- MODULE PostSession -----------------------------
(***************************************************************************)
(* The upload sessions of common/mqttclient/client.go: publishPost and    *)
(* everything it calls, the post/reply handler, and stop.                 *)
(*                                                                         *)
(* Several goroutines (collectors, the controller) call Publish at once.   *)
(* Each call registers a session in two tables under pendingMu, writes the *)
(* frames of its report one by one, waits for the server's reply on a      *)
(* channel of capacity one, retransmits as the reply asks, and removes     *)
(* itself from the tables when it returns.  The message handler looks a    *)
(* reply up under the lock and sends it after the lock is released, so the *)
(* call it found may be gone by then.                                      *)
(*                                                                         *)
(* The server is not in this repository.  It is modelled from the replies  *)
(* that handlePostReply accepts: it gathers the frames of a session, may   *)
(* say anything about it at any time and any number of times, except that  *)
(* it says "accepted" only of a report whose frames it has all received.   *)
(***************************************************************************)
EXTENDS Integers, FiniteSets

CONSTANTS
  Publishers,      \* the goroutines that call Publish
  SessionCount,    \* how many session ids there are: 2^16 in the code
  FrameCount,      \* frames per report
  MaxRetransmits,  \* MQTTConfig.MaxRetransmits
  Clock,           \* the values time.Now().UnixMilli() may take, in any order
  MaxBusiness,     \* bound: the last business id given out (13 digits in the code)
  Commands,        \* the reply commands the server sends
  LossLists,       \* the loss lists a cmd=2 reply may carry, as sets of indexes
  LateReplies      \* may a reply about a session come after its id went to another report?

\* The clock is past the first 66 seconds of 1970, so that no business id reads as a 16-bit session id.
ASSUME ClockAssumption ==
  /\ SessionCount \in Nat \ {0}
  /\ MaxBusiness \in Nat
  /\ Clock \subseteq SessionCount..MaxBusiness

ASSUME SizeAssumption ==
  /\ FrameCount \in Nat \ {0}
  /\ MaxRetransmits \in Nat
  /\ \A loss \in LossLists : loss \subseteq Int
  /\ Commands \subseteq {0, 1, 2, 3, 5}
  /\ LateReplies \in BOOLEAN

VARIABLES
  nextSession,        \* Client.nextSessionID
  nextBusiness,       \* Client.nextBusinessID
  pendingBySession,   \* the entries of Client.pendingBySession, keyed by their session
  pendingByBusiness,  \* the entries of Client.pendingByBusiness, keyed by their business id
  pc,                 \* where each publisher's call stands
  post,               \* the pendingPost of each publisher's call
  todo,               \* frames of the present round not yet written
  retransmits,        \* publishPost's local counter
  inbox,              \* pendingPost.replies: a channel of capacity one, as a set
  handler,            \* what handlePostReply found and has still to send, as a set
  stopped,            \* Client.stopped is closed
  server              \* external: what the server has of each session

table == <<nextSession, nextBusiness, pendingBySession, pendingByBusiness>>
vars == <<table, pc, post, todo, retransmits, inbox, handler, stopped, server>>

SessionIds == 0..SessionCount-1
Frames == 0..FrameCount-1
NoId == -1
NoPost == [owner |-> NoId, business |-> NoId, session |-> NoId]
NoReport == [business |-> NoId, got |-> {}]

\* A pendingPost; its owner stands for the replies channel only that call reads.
Posts == [owner : Publishers, business : Nat, session : SessionIds]

\* Reply commands: 1 stands for every command that just ends the call (1, 4, unknown).
Accepted == 0
ResendLost == 2
ResendAll == 3
GivenUp == 5

\* The part of a reply that the waiting call looks at.
Answers == [cmd : Commands, loss : LossLists \cup {{}}]

Complete(b, s) == server[s] = [business |-> b, got |-> Frames]

Busy == {p \in Publishers : pc[p] # "idle"}
-----------------------------------------------------------------------------
\* Mutant: the clock's reading is used even when it has not moved or went back.
ClockIsTheId(now) == now

nextBusinessID(now) == IF now <= nextBusiness THEN nextBusiness + 1 ELSE now

\* Mutant: the probe does not look for a free entry.
NextSessionBlindly == {(nextSession + 1) % SessionCount}

\* The session id registerPending's loop stops at: the first one after nextSession with no entry.
FirstFreeSession ==
  LET Free == SessionIds \ {e.session : e \in pendingBySession}
      Distance(s) == (s - nextSession - 1) % SessionCount
  IN  {s \in Free : \A t \in Free : Distance(s) <= Distance(t)}

\* Mutant: an entry is dropped only if its owner was still waiting (an early return leaks it).
RemoveOnlySuccessful(p, entries) ==
  {e \in entries : ~(pc[p] = "ok" /\ e.session = post[p].session)}

\* removePending: the entry under this call's key goes if it is this call's.
Remaining(p, entries) ==
  {e \in entries : ~(e.session = post[p].session /\ e.business = post[p].business)}

\* Mutant: a reply whose ids match nothing goes to whoever waits for one.
FindOrGuess(reply) ==
  LET found == {e \in pendingBySession : e.session \in {reply.session, reply.id} \/ e.business = reply.id}
  IN  IF found # {} THEN found ELSE pendingBySession

\* Requests to resend and "given up" name a session; other replies name a business id, or a
\* session id in either field.
findPending(reply) ==
  LET BySession(s) == {e \in pendingBySession : e.session = s}
      ByBusiness == {e \in pendingByBusiness : e.business = reply.id}
  IN  IF reply.cmd \in {ResendLost, ResendAll, GivenUp} THEN BySession(reply.session)
      ELSE IF ByBusiness # {} THEN ByBusiness
      ELSE IF reply.id \in SessionIds THEN BySession(reply.id)
      ELSE BySession(reply.session)

\* Mutant: an index one past the last frame is let through.
LossOffByOne(loss) == loss # {} /\ loss \subseteq 0..FrameCount

\* validateLossIndexes accepts the list.  (Order and repetitions: module Framing.)
ValidLoss(loss) == loss # {} /\ loss \subseteq Frames
-----------------------------------------------------------------------------
Init ==
  /\ nextSession \in SessionIds
  /\ nextBusiness \in {now - 1 : now \in Clock}
  /\ pendingBySession = {}
  /\ pendingByBusiness = {}
  /\ pc = [p \in Publishers |-> "idle"]
  /\ post = [p \in Publishers |-> NoPost]
  /\ todo = [p \in Publishers |-> {}]
  /\ retransmits = [p \in Publishers |-> 0]
  /\ inbox = [p \in Publishers |-> {}]
  /\ handler = {}
  /\ stopped = FALSE
  /\ server = [s \in SessionIds |-> NoReport]

\* registerPending, then the frames are built.
Begin(p) ==
  /\ pc[p] = "idle"
  /\ \E now \in Clock, s \in FirstFreeSession :
       LET new == [owner |-> p, business |-> nextBusinessID(now), session |-> s] IN
       /\ new.business <= MaxBusiness
       /\ nextBusiness' = new.business
       /\ nextSession' = s
       /\ pendingBySession' = pendingBySession \cup {new}
       /\ pendingByBusiness' = pendingByBusiness \cup {new}
       /\ post' = [post EXCEPT ![p] = new]
  /\ pc' = [pc EXCEPT ![p] = "sending"]
  /\ todo' = [todo EXCEPT ![p] = Frames]
  /\ retransmits' = [retransmits EXCEPT ![p] = 0]
  /\ inbox' = [inbox EXCEPT ![p] = {}]
  /\ UNCHANGED <<handler, stopped, server>>

\* registerPending when every session id is taken: the business id is spent.
Exhausted(p) ==
  /\ pc[p] = "idle"
  /\ FirstFreeSession = {}
  /\ \E now \in Clock :
       /\ nextBusinessID(now) <= MaxBusiness
       /\ nextBusiness' = nextBusinessID(now)
  /\ UNCHANGED <<nextSession, pendingBySession, pendingByBusiness, pc, post, todo, retransmits,
                 inbox, handler, stopped, server>>

\* External: a frame reaches the server, which starts over when a session carries a new report.
Gathered(b, s, i) ==
  IF server[s].business = b THEN [business |-> b, got |-> server[s].got \cup {i}]
  ELSE [business |-> b, got |-> {i}]

\* publishMQTT of one frame: QoS 0, so a frame written may be lost, and one whose write timed out may
\* have arrived.
PublishFrame(p) ==
  /\ pc[p] = "sending"
  /\ \E i \in todo[p], arrived \in BOOLEAN, written \in BOOLEAN :
       /\ todo' = [todo EXCEPT ![p] = IF written THEN @ \ {i} ELSE {}]
       /\ server' = IF arrived /\ i \in Frames
                    THEN [server EXCEPT ![post[p].session] =
                            Gathered(post[p].business, post[p].session, i)]
                    ELSE server
       /\ pc' = [pc EXCEPT ![p] = IF ~written THEN "failed"
                                  ELSE IF todo[p] = {i} THEN "waiting" ELSE "pausing"]
  /\ UNCHANGED <<table, post, retransmits, inbox, handler, stopped>>

\* The pause between two frames ends, by its timer or because the client stops.
NextFrame(p) ==
  /\ pc[p] = "pausing"
  /\ pc' = [pc EXCEPT ![p] = "sending"]
  /\ UNCHANGED <<table, post, todo, retransmits, inbox, handler, stopped, server>>

StopWhilePausing(p) ==
  /\ pc[p] = "pausing"
  /\ stopped
  /\ pc' = [pc EXCEPT ![p] = "failed"]
  /\ todo' = [todo EXCEPT ![p] = {}]
  /\ UNCHANGED <<table, post, retransmits, inbox, handler, stopped, server>>

\* Mutant: "resend all" forgets to count the round.
UncountedRounds(p, answer) ==
  IF answer.cmd = ResendLost THEN 1 ELSE 0

\* How many retransmission rounds this answer adds to the count.
Rounds(p, answer) == IF answer.cmd \in {ResendLost, ResendAll} THEN 1 ELSE 0

\* Mutant: the limit on rounds is not enforced for "resend all".
ResendAllForever(p, answer) ==
  \/ answer.cmd = ResendAll
  \/ answer.cmd = ResendLost /\ retransmits[p] < MaxRetransmits /\ ValidLoss(answer.loss)

\* This answer starts another round.
MayResend(p, answer) ==
  /\ answer.cmd \in {ResendLost, ResendAll}
  /\ retransmits[p] + Rounds(p, answer) <= MaxRetransmits
  /\ answer.cmd = ResendLost => ValidLoss(answer.loss)

\* publishPost's switch on the reply, once waitPostReply has received it.
TakeReply(p) ==
  /\ pc[p] = "waiting"
  /\ \E answer \in inbox[p] :
       /\ inbox' = [inbox EXCEPT ![p] = {}]
       /\ retransmits' = [retransmits EXCEPT ![p] = @ + Rounds(p, answer)]
       /\ pc' = [pc EXCEPT ![p] = IF answer.cmd = Accepted THEN "ok"
                                  ELSE IF MayResend(p, answer) THEN "sending" ELSE "failed"]
       /\ todo' = [todo EXCEPT ![p] = IF ~MayResend(p, answer) THEN {}
                                      ELSE IF answer.cmd = ResendLost THEN answer.loss ELSE Frames]
  /\ UNCHANGED <<table, post, handler, stopped, server>>

\* waitPostReply's other two cases.  With several cases ready, select takes any.
ReplyTimeout(p) ==
  /\ pc[p] = "waiting"
  /\ pc' = [pc EXCEPT ![p] = "failed"]
  /\ UNCHANGED <<table, post, todo, retransmits, inbox, handler, stopped, server>>

\* Mutant: the wait does not watch the stop channel.
NeverWoken(p) == FALSE /\ UNCHANGED vars

StopWhileWaiting(p) ==
  /\ pc[p] = "waiting"
  /\ stopped
  /\ pc' = [pc EXCEPT ![p] = "failed"]
  /\ UNCHANGED <<table, post, todo, retransmits, inbox, handler, stopped, server>>

\* publishPost returns: the deferred removePending.
Return(p) ==
  /\ pc[p] \in {"ok", "failed"}
  /\ pendingBySession' = Remaining(p, pendingBySession)
  /\ pendingByBusiness' = Remaining(p, pendingByBusiness)
  /\ pc' = [pc EXCEPT ![p] = "idle"]
  /\ post' = [post EXCEPT ![p] = NoPost]
  /\ todo' = [todo EXCEPT ![p] = {}]
  /\ retransmits' = [retransmits EXCEPT ![p] = 0]
  /\ inbox' = [inbox EXCEPT ![p] = {}]
  /\ UNCHANGED <<nextSession, nextBusiness, handler, stopped, server>>

\* External: a reply about a report may name it by its business id, by its session id, by both, or
\* by the session id padded into the id field.
Names(b, s) == {<<b, s>>, <<b, NoId>>, <<s, NoId>>, <<NoId, s>>}

\* A call now pending under s is about the report the server holds under s.
Timely(s) == \A e \in pendingBySession : e.session = s => e.business = server[s].business

\* handlePostReply up to the end of findPending, for a reply about session s.
HandlePostReply(s) ==
  /\ handler = {}
  /\ server[s] # NoReport
  /\ LateReplies \/ Timely(s)
  /\ \E answer \in Answers, name \in Names(server[s].business, s) :
       /\ answer.cmd # ResendLost => answer.loss = {}
       /\ answer.cmd = Accepted => Complete(server[s].business, s)
       /\ handler' = {[to |-> e, answer |-> answer] :
                        e \in findPending([cmd |-> answer.cmd, id |-> name[1], session |-> name[2]])}
  /\ UNCHANGED <<table, pc, post, todo, retransmits, inbox, stopped, server>>

\* Mutant: the channel is taken to belong to the goroutine, not to the call found.
ChannelOfTheGoroutine(h) == h.to.owner \in Busy

\* The channel found is still read by somebody.
ChannelIsRead(h) == post[h.to.owner] = h.to

\* The rest of handlePostReply: a send that never blocks; with the channel full, or read by nobody
\* any more, the reply is lost.
DeliverReply ==
  /\ \E h \in handler :
       inbox' = IF ChannelIsRead(h) /\ inbox[h.to.owner] = {}
                THEN [inbox EXCEPT ![h.to.owner] = {h.answer}] ELSE inbox
  /\ handler' = {}
  /\ UNCHANGED <<table, pc, post, todo, retransmits, stopped, server>>

Stop ==
  /\ ~stopped
  /\ stopped' = TRUE
  /\ UNCHANGED <<table, pc, post, todo, retransmits, inbox, handler, server>>

\* What a call does without waiting for its reply timer.
Work(p) ==
  PublishFrame(p) \/ NextFrame(p) \/ StopWhilePausing(p) \/ TakeReply(p) \/ StopWhileWaiting(p) \/ Return(p)

Next ==
  \/ \E p \in Publishers : Begin(p) \/ Exhausted(p) \/ Work(p) \/ ReplyTimeout(p)
  \/ \E s \in SessionIds : HandlePostReply(s)
  \/ DeliverReply
  \/ Stop

Spec == Init /\ [][Next]_vars

\* A goroutine inside a call is scheduled.  Its reply timer is not owed to anybody here: it may be
\* minutes long.
FairSpec == Spec /\ \A p \in Publishers : WF_vars(Work(p))
-----------------------------------------------------------------------------
TypeOK ==
  /\ nextSession \in SessionIds
  /\ nextBusiness \in Nat
  /\ pendingBySession \in SUBSET Posts
  /\ pendingByBusiness \in SUBSET Posts
  /\ pc \in [Publishers -> {"idle", "sending", "pausing", "waiting", "ok", "failed"}]
  /\ post \in [Publishers -> Posts \cup {NoPost}]
  /\ todo \in [Publishers -> SUBSET Frames]
  /\ retransmits \in [Publishers -> 0..MaxRetransmits+1]
  /\ inbox \in [Publishers -> SUBSET Answers]
  /\ handler \in SUBSET [to : Posts, answer : Answers]
  /\ stopped \in BOOLEAN
  /\ server \in [SessionIds -> [business : Nat \cup {NoId}, got : SUBSET Frames]]

\* The two tables of client.go hold the same entries, exactly one per running call, and no two
\* running calls share a session id: nothing leaks on any of publishPost's returns, and no call
\* loses its entry to another's registration or removal.
PendingTablesAgree ==
  /\ pendingBySession = pendingByBusiness
  /\ pendingBySession = {post[p] : p \in Busy}
  /\ \A p, q \in Busy : p # q => post[p].session # post[q].session

\* Publish returns nil only for a report whose every frame is with the server: no reply meant for
\* another call, or for an earlier call under the same session id, confirms this one.
OkMeansAccepted ==
  \A p \in Publishers : pc[p] = "ok" => Complete(post[p].business, post[p].session)

\* A call in progress has resent at most MaxRetransmits rounds, and every frame index it has still to
\* write exists: publishFrames' frames[index] does not panic whatever loss list the server sends.
RetransmissionBounded ==
  \A p \in Publishers : pc[p] \in {"sending", "pausing", "waiting", "ok"} =>
    retransmits[p] <= MaxRetransmits /\ todo[p] \subseteq Frames

\* Every registration takes a business id later than all before it, even when the wall clock is
\* set back between two calls.
BusinessIdsGrow ==
  [][\A e \in pendingByBusiness' \ pendingByBusiness :
       e.business > nextBusiness /\ e.business = nextBusiness']_vars

\* When reply timers do fire, every call to Publish returns, whatever the server answers and however
\* often.
EveryPublishReturns ==
  (\A p \in Publishers : WF_vars(Work(p) \/ ReplyTimeout(p))) =>
    \A p \in Publishers : p \in Busy ~> p \notin Busy

\* Once the client stops, a running call returns without its reply timer having to run out
\* (client_test.go: TestWaitPostReplyStopsWithClient).
StopReleasesPublishers == \A p \in Publishers : (stopped /\ p \in Busy) ~> p \notin Busy
-----------------------------------------------------------------------------
\* How a call here is one of Reporting.
Phase == [p \in Publishers |-> CASE pc[p] = "idle" -> "idle"
                                 [] pc[p] = "ok" -> "accepted"
                                 [] pc[p] = "failed" -> "failed"
                                 [] OTHER -> "open"]
CallId == [p \in Publishers |-> post[p].business]
ServerHasIt == [p \in Publishers |-> p \in Busy /\ Complete(post[p].business, post[p].session)]

Report == INSTANCE Reporting WITH
  phase <- Phase, id <- CallId, received <- ServerHasIt, lastId <- nextBusiness

\* Concurrent calls, retransmissions and matching by two tables do what Reporting promises.
ImplementsReporting == Report!Spec
=============================================================================
