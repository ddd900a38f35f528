------------------------------ MODULE WebClient ------------------------------
(***************************************************************************)
(* ILibWebClient: HTTP requests to many servers over one small pool of     *)
(* sockets.  Every server has one data object (wcdo) with a queue of       *)
(* requests, of which only the first is on the wire; a wcdo without a      *)
(* connection waits in the backlog for a socket of the pool.               *)
(*                                                                         *)
(* A step is one handler of the microstack thread, up to the next callback *)
(* OnResponse that ends a request.  Requests are made on that thread too,  *)
(* between the handlers and in the callbacks; no request is cancelled or   *)
(* deleted, and there are at most MAX_IDLE_SESSIONS servers.  A response   *)
(* is what it means for the client: complete, to be continued, or          *)
(* delimited by the end of the connection.                                 *)
(***************************************************************************)
EXTENDS Integers, Sequences, FiniteSets

CONSTANTS
  Server,          \* endpoints requests are made to
  NoServer,        \* the user of a socket that was never connected
  PoolSize,        \* sockets of the manager
  RETRY_COUNT,     \* HTTP_CONNECT_RETRY_COUNT
  MaxRequests      \* bound: requests made

MAX_IDLE_SESSIONS == 20

ASSUME WebClientAssumption ==
  /\ IsFiniteSet(Server) /\ Cardinality(Server) <= MAX_IDLE_SESSIONS
  /\ NoServer \notin Server
  /\ PoolSize \in Nat \ {0} /\ RETRY_COUNT \in Nat /\ MaxRequests \in Nat

Pool    == 1 .. PoolSize
Request == 1 .. MaxRequests
NULL    == 0

VARIABLES
  DataTable,       \* servers with a wcdo
  RequestQueue, SOCK, PipelineFlag, Closing, DisconnectSent,
  FinHeader, WaitForClose, InitialRequestAnswered, ExponentialBackoff,
  retryTimer, idleTimer,     \* wcdos with a RetrySink, a TimerSink to come
  backlogQueue,
  sock,            \* state of a socket of the pool
  user,            \* the wcdo a socket was connected for
  onWire,          \* requests sent on a connection and not answered
  callback,        \* the callback the microstack thread is in, or "none"
  current,         \* the wcdo that called back
  dying,           \* requests of the wcdo being destroyed
  made,            \* requests made so far
  target,          \* history: the server of a request
  told             \* history: requests whose OnResponse said done

flags   == <<PipelineFlag, Closing, DisconnectSent, FinHeader, WaitForClose,
             InitialRequestAnswered, ExponentialBackoff>>
delays  == <<retryTimer, idleTimer>>
pool    == <<sock, user, onWire>>
control == <<callback, current, dying>>
calls   == <<made, target>>

WCvars == <<DataTable, RequestQueue, SOCK, flags, delays, backlogQueue, pool, control,
            calls, told>>

WCInit ==
  /\ DataTable = {} /\ RequestQueue = [d \in Server |-> <<>>]
  /\ SOCK = [d \in Server |-> NULL]
  /\ PipelineFlag = [d \in Server |-> "unknown"] /\ Closing = [d \in Server |-> FALSE]
  /\ DisconnectSent = [d \in Server |-> FALSE] /\ FinHeader = [d \in Server |-> FALSE]
  /\ WaitForClose = [d \in Server |-> FALSE]
  /\ InitialRequestAnswered = [d \in Server |-> FALSE]
  /\ ExponentialBackoff = [d \in Server |-> 0]
  /\ retryTimer = {} /\ idleTimer = {} /\ backlogQueue = <<>>
  /\ sock = [s \in Pool |-> "free"] /\ user = [s \in Pool |-> NoServer]
  /\ onWire = [s \in Pool |-> <<>>]
  /\ callback = "none" /\ current = NoServer /\ dying = <<>>
  /\ made = 0 /\ target = <<>> /\ told = {}

Unused(s) == sock[s] = "free"

(* Has the wcdo no socket, or one that was closed meanwhile?                *)
Unconnected(d) == IF SOCK[d] = NULL THEN TRUE ELSE Unused(SOCK[d])

(* ILibQueue_DeQueue: a request that is done leaves its queue.              *)
Peeked(q) == q
Dequeued(q) == Tail(q)

(* ILibWebClient_ResetWCDO *)
ResetWCDO(d) ==
  /\ FinHeader' = [FinHeader EXCEPT ![d] = FALSE]
  /\ WaitForClose' = [WaitForClose EXCEPT ![d] = FALSE]
  /\ InitialRequestAnswered' = [InitialRequestAnswered EXCEPT ![d] = TRUE]
  /\ DisconnectSent' = [DisconnectSent EXCEPT ![d] = FALSE]
-----------------------------------------------------------------------------
(* ILibWebClient_PipelineRequestEx2 *)

(* A new server: a wcdo of its own, which waits for a socket.               *)
NewServer(d, r) ==
  /\ d \notin DataTable
  /\ DataTable' = DataTable \cup {d}
  /\ RequestQueue' = [RequestQueue EXCEPT ![d] = <<r>>]
  /\ SOCK' = [SOCK EXCEPT ![d] = NULL]
  /\ PipelineFlag' = [PipelineFlag EXCEPT ![d] = "unknown"]
  /\ Closing' = [Closing EXCEPT ![d] = FALSE]
  /\ DisconnectSent' = [DisconnectSent EXCEPT ![d] = FALSE]
  /\ FinHeader' = [FinHeader EXCEPT ![d] = FALSE]
  /\ WaitForClose' = [WaitForClose EXCEPT ![d] = FALSE]
  /\ InitialRequestAnswered' = [InitialRequestAnswered EXCEPT ![d] = FALSE]
  /\ ExponentialBackoff' = [ExponentialBackoff EXCEPT ![d] = 0]
  /\ backlogQueue' = Append(backlogQueue, d)
  /\ UNCHANGED <<delays, onWire>>

(* Behind other requests it waits for its turn.                             *)
HasTurnAlways(q) == TRUE
HasTurn(q) == q = <<>>

Waits(d, r) ==
  /\ d \in DataTable /\ ~HasTurn(RequestQueue[d])
  /\ RequestQueue' = [RequestQueue EXCEPT ![d] = Append(@, r)]
  /\ UNCHANGED <<DataTable, SOCK, flags, delays, backlogQueue, onWire>>

NeedsSocket(d) == Unconnected(d)
NeedsConnection(d) == ~DisconnectSent[d] /\ Unconnected(d)

(* Without other requests the idle connection takes it, or a new one.       *)
GoesOut(d, r) ==
  /\ d \in DataTable /\ HasTurn(RequestQueue[d])
  /\ RequestQueue' = [RequestQueue EXCEPT ![d] = Append(@, r)]
  /\ idleTimer' = idleTimer \ {d} /\ retryTimer' = retryTimer \ {d}
  /\ IF NeedsConnection(d)
     THEN backlogQueue' = Append(backlogQueue, d) /\ UNCHANGED onWire
     ELSE /\ onWire' = IF SOCK[d] # NULL /\ ~WaitForClose[d]
                       THEN [onWire EXCEPT ![SOCK[d]] = Append(@, r)] ELSE onWire
          /\ UNCHANGED backlogQueue
  /\ UNCHANGED <<DataTable, SOCK, flags>>

PipelineRequest(d) ==
  /\ made < MaxRequests
  /\ made' = made + 1 /\ target' = Append(target, d)
  /\ NewServer(d, made + 1) \/ Waits(d, made + 1) \/ GoesOut(d, made + 1)
  /\ UNCHANGED <<sock, user, control, told>>
-----------------------------------------------------------------------------
(* Connecting *)

(* ILibWebClient_PreProcess: the free sockets, in their order, take the     *)
(* first wcdos of the backlog.                                              *)
Rank(s) == Cardinality({t \in Pool : Unused(t) /\ t <= s})

PreProcess ==
  LET taken == {s \in Pool : Unused(s) /\ Rank(s) <= Len(backlogQueue)}
      For(s) == backlogQueue[Rank(s)]
  IN /\ callback = "none" /\ taken # {}
     /\ backlogQueue' = SubSeq(backlogQueue, Cardinality(taken) + 1, Len(backlogQueue))
     /\ Closing' = [d \in Server |-> Closing[d] /\ \A s \in taken : For(s) # d]
     /\ sock' = [s \in Pool |-> IF s \in taken THEN "connecting" ELSE sock[s]]
     /\ user' = [s \in Pool |-> IF s \in taken THEN For(s) ELSE user[s]]
     /\ UNCHANGED <<DataTable, RequestQueue, SOCK, PipelineFlag, DisconnectSent, FinHeader,
                    WaitForClose, InitialRequestAnswered, ExponentialBackoff, delays, onWire,
                    control, calls, told>>

(* What OnConnect does first, whether or not there is a connection.         *)
Claim(d, s) ==
  /\ SOCK' = [SOCK EXCEPT ![d] = s]
  /\ InitialRequestAnswered' = [InitialRequestAnswered EXCEPT ![d] = FALSE]
  /\ DisconnectSent' = [DisconnectSent EXCEPT ![d] = FALSE]

(* ILibWebClient_OnConnect: the first request of the queue goes out.        *)
Connected(s) ==
  LET d == user[s] IN
  /\ callback = "none" /\ sock[s] = "connecting"
  /\ sock' = [sock EXCEPT ![s] = "open"]
  /\ Claim(d, s)
  /\ ExponentialBackoff' = [ExponentialBackoff EXCEPT ![d] = 1]
  /\ onWire' = [onWire EXCEPT ![s] = IF RequestQueue[d] = <<>> THEN <<>>
                                   ELSE <<Head(RequestQueue[d])>>]
  /\ UNCHANGED <<DataTable, RequestQueue, PipelineFlag, Closing, FinHeader, WaitForClose,
                 delays, backlogQueue, user, control, calls, told>>

GivesUp(backoff) == backoff = 2 ^ RETRY_COUNT

(* A connection failed: a later attempt, or the end of the wcdo.            *)
ConnectFails(s) ==
  LET d == user[s] IN
  /\ callback = "none" /\ sock[s] = "connecting"
  /\ sock' = [sock EXCEPT ![s] = "free"]
  /\ Claim(d, s)
  /\ PipelineFlag' = [PipelineFlag EXCEPT ![d] = "unknown"]
  /\ IF GivesUp(ExponentialBackoff[d])
     THEN /\ DataTable' = DataTable \ {d}
          /\ dying' = RequestQueue[d]
          /\ RequestQueue' = [RequestQueue EXCEPT ![d] = <<>>]
          /\ callback' = IF RequestQueue[d] = <<>> THEN "none" ELSE "destroy"
          /\ idleTimer' = idleTimer \ {d} /\ retryTimer' = retryTimer \ {d}
     ELSE /\ retryTimer' = retryTimer \cup {d}
          /\ UNCHANGED <<DataTable, dying, RequestQueue, callback, idleTimer>>
  /\ UNCHANGED <<Closing, FinHeader, WaitForClose, ExponentialBackoff, backlogQueue,
                 user, onWire, current, calls, told>>

(* ILibWebClient_DestroyWebClientDataObject tells one request after the     *)
(* other WEBCLIENT_DESTROYED.                                               *)
DestroyRequest ==
  /\ callback = "destroy"
  /\ told' = told \cup {Head(dying)}
  /\ dying' = Tail(dying)
  /\ callback' = IF Len(dying) = 1 THEN "none" ELSE "destroy"
  /\ UNCHANGED <<DataTable, RequestQueue, SOCK, flags, delays, backlogQueue, pool,
                 current, calls>>

Doubled(backoff) == backoff * 2
NextBackoff(backoff) == IF backoff = 0 THEN 1 ELSE backoff * 2

(* ILibWebClient_RetrySink *)
RetrySink(d) ==
  /\ callback = "none" /\ d \in retryTimer
  /\ retryTimer' = retryTimer \ {d}
  /\ LET backoff == NextBackoff(ExponentialBackoff[d]) IN
     /\ ExponentialBackoff' = [ExponentialBackoff EXCEPT ![d] = backoff]
     /\ backlogQueue' = IF backoff > 0 THEN Append(backlogQueue, d) ELSE backlogQueue
  /\ UNCHANGED <<DataTable, RequestQueue, SOCK, PipelineFlag, Closing, DisconnectSent,
                 FinHeader, WaitForClose, InitialRequestAnswered, idleTimer, pool,
                 control, calls, told>>
-----------------------------------------------------------------------------
(* Answers *)

(* ILibWebClient_OnData passes what it got to the first request.            *)
OnData(s) ==
  /\ callback = "none" /\ sock[s] = "open" /\ onWire[s] # <<>>
  /\ RequestQueue[user[s]] # <<>>

(* The header came, and a body that is not complete or has no length.       *)
BodyFollows(s) ==
  LET d == user[s] IN
  /\ OnData(s) /\ ~FinHeader[d]
  /\ FinHeader' = [FinHeader EXCEPT ![d] = TRUE]
  /\ \E untilClose \in BOOLEAN : WaitForClose' = [WaitForClose EXCEPT ![d] = untilClose]
  /\ UNCHANGED <<DataTable, RequestQueue, SOCK, PipelineFlag, Closing, DisconnectSent,
                 InitialRequestAnswered, ExponentialBackoff, delays, backlogQueue, pool,
                 control, calls, told>>

(* The response is complete; OnResponse is told that it is done.            *)
ResponseDone(s) ==
  LET d == user[s] IN
  /\ OnData(s) /\ ~(FinHeader[d] /\ WaitForClose[d])
  /\ told' = told \cup {Head(RequestQueue[d])}
  /\ onWire' = [onWire EXCEPT ![s] = Tail(@)]
  /\ FinHeader' = [FinHeader EXCEPT ![d] = TRUE]
  /\ WaitForClose' = [WaitForClose EXCEPT ![d] = FALSE]
  /\ callback' = "answer" /\ current' = d
  /\ UNCHANGED <<DataTable, RequestQueue, SOCK, PipelineFlag, Closing, DisconnectSent,
                 InitialRequestAnswered, ExponentialBackoff, delays,
                 backlogQueue, sock, user, dying, calls>>

(* ILibWebClient_FinishedResponse, on a connection that is open: the next   *)
(* request follows on it, or on a new connection when this server is known  *)
(* to close them; the last one leaves the connection idle.                  *)
FinishedResponse ==
  LET d == current
      q == Dequeued(RequestQueue[d])
      s == SOCK[d]
      closes == PipelineFlag[d] = "no"
  IN /\ callback = "answer" /\ callback' = "none"
     /\ ResetWCDO(d)
     /\ RequestQueue' = [RequestQueue EXCEPT ![d] = q]
     /\ idleTimer' = IF q = <<>> THEN idleTimer \cup {d} ELSE idleTimer \ {d}
     /\ retryTimer' = retryTimer \ {d}
     /\ PipelineFlag' = IF q # <<>> /\ ~closes THEN [PipelineFlag EXCEPT ![d] = "yes"]
                        ELSE PipelineFlag
     /\ sock' = IF closes THEN [sock EXCEPT ![s] = "free"] ELSE sock
     /\ SOCK' = IF closes THEN [SOCK EXCEPT ![d] = NULL] ELSE SOCK
     /\ onWire' = [onWire EXCEPT ![s] = IF closes THEN <<>>
                                      ELSE IF q # <<>> THEN Append(@, Head(q)) ELSE @]
     /\ backlogQueue' = IF closes /\ q # <<>> /\ ~Closing[d] THEN Append(backlogQueue, d)
                        ELSE backlogQueue
     /\ UNCHANGED <<DataTable, Closing, ExponentialBackoff, user, current, dying, calls, told>>
-----------------------------------------------------------------------------
(* ILibWebClient_OnDisconnectSink, when the server ends a connection.       *)
ConnectionEnds(s) ==
  /\ callback = "none" /\ sock[s] = "open"
  /\ sock' = [sock EXCEPT ![s] = "free"]
  /\ onWire' = [onWire EXCEPT ![s] = <<>>]
  /\ SOCK' = [SOCK EXCEPT ![user[s]] = NULL]
  /\ UNCHANGED <<DataTable, Closing, ExponentialBackoff, user, dying, calls>>

Pending(d) == RequestQueue[d] # <<>>

(* A server that leaves requests behind does not keep connections.          *)
NotPersistent(d) ==
  PipelineFlag' = IF Pending(d) /\ ~Closing[d] THEN [PipelineFlag EXCEPT ![d] = "no"]
                  ELSE PipelineFlag

(* The response had no length: it is complete now.                          *)
ResponseEnds(s) ==
  LET d == user[s] IN
  /\ ConnectionEnds(s) /\ WaitForClose[d] /\ Pending(d)
  /\ DisconnectSent' = [DisconnectSent EXCEPT ![d] = TRUE]
  /\ told' = told \cup {Head(RequestQueue[d])}
  /\ RequestQueue' = [RequestQueue EXCEPT ![d] = Dequeued(@)]
  /\ InitialRequestAnswered' = [InitialRequestAnswered EXCEPT ![d] = TRUE]
  /\ PipelineFlag' = [PipelineFlag EXCEPT ![d] = "no"]
  /\ FinHeader' = [FinHeader EXCEPT ![d] = FALSE]
  /\ callback' = "closed" /\ current' = d
  /\ UNCHANGED <<WaitForClose, delays, backlogQueue>>

(* Its callback is over; the other requests need another connection.        *)
ResponseEnded ==
  LET d == current IN
  /\ callback = "closed" /\ callback' = "none"
  /\ ResetWCDO(d)
  /\ idleTimer' = idleTimer \ {d} /\ retryTimer' = retryTimer \ {d}
  /\ backlogQueue' = IF Pending(d) /\ ~Closing[d] THEN Append(backlogQueue, d)
                     ELSE backlogQueue
  /\ UNCHANGED <<DataTable, RequestQueue, SOCK, PipelineFlag, Closing, ExponentialBackoff,
                 pool, current, dying, calls, told>>

(* No request was answered on this connection: the first one has failed.    *)
FirstFails(s) ==
  LET d == user[s] IN
  /\ ConnectionEnds(s) /\ ~WaitForClose[d] /\ ~Closing[d]
  /\ Pending(d) /\ ~InitialRequestAnswered[d]
  /\ NotPersistent(d)
  /\ told' = told \cup {Head(RequestQueue[d])}
  /\ callback' = "error" /\ current' = d
  /\ UNCHANGED <<RequestQueue, DisconnectSent, FinHeader, WaitForClose,
                 InitialRequestAnswered, delays, backlogQueue>>

(* FinishedResponse takes a request off the queue of a wcdo without socket, *)
(* although OnDisconnectSink has already taken off the one that failed.     *)
NextDropped(q) == IF q = <<>> THEN q ELSE Tail(q)

FirstFailed ==
  LET d == current
      q == NextDropped(Dequeued(RequestQueue[d]))
  IN /\ callback = "error" /\ callback' = "none"
     /\ ResetWCDO(d)
     /\ RequestQueue' = [RequestQueue EXCEPT ![d] = q]
     /\ idleTimer' = idleTimer \ {d} /\ retryTimer' = retryTimer \ {d}
     /\ Closing' = IF q # <<>> THEN [Closing EXCEPT ![d] = FALSE] ELSE Closing
     /\ backlogQueue' = IF q # <<>> THEN Append(backlogQueue, d) ELSE backlogQueue
     /\ UNCHANGED <<DataTable, SOCK, PipelineFlag, ExponentialBackoff, pool, current,
                    dying, calls, told>>

(* The connection has answered before: another one, for the same request.   *)
Reconnects(s) ==
  LET d == user[s] IN
  /\ ConnectionEnds(s) /\ ~WaitForClose[d] /\ ~Closing[d]
  /\ Pending(d) /\ InitialRequestAnswered[d]
  /\ NotPersistent(d)
  /\ backlogQueue' = Append(backlogQueue, d)
  /\ UNCHANGED <<RequestQueue, DisconnectSent, FinHeader, WaitForClose,
                 InitialRequestAnswered, delays, callback, current, told>>

NothingPending(s) ==
  LET d == user[s] IN
  /\ ConnectionEnds(s) /\ ~Pending(d)
  /\ UNCHANGED <<RequestQueue, PipelineFlag, DisconnectSent, FinHeader, WaitForClose,
                 InitialRequestAnswered, delays, backlogQueue, callback, current, told>>

OnDisconnect(s) ==
  ResponseEnds(s) \/ FirstFails(s) \/ Reconnects(s) \/ NothingPending(s)

(* ILibWebClient_TimerSink closes the connection of a wcdo that is idle;    *)
(* OnDisconnectSink sees Closing, and leaves all as it is.                  *)
TimerSink(d) ==
  /\ callback = "none" /\ d \in idleTimer
  /\ idleTimer' = idleTimer \ {d}
  /\ IF Pending(d)
     THEN UNCHANGED <<SOCK, Closing, DisconnectSent, sock, onWire>>
     ELSE /\ SOCK' = [SOCK EXCEPT ![d] = NULL]
          /\ DisconnectSent' = [DisconnectSent EXCEPT ![d] = FALSE]
          /\ IF Unconnected(d)
             THEN UNCHANGED <<Closing, sock, onWire>>
             ELSE /\ Closing' = [Closing EXCEPT ![d] = TRUE]
                  /\ sock' = [sock EXCEPT ![SOCK[d]] = "free"]
                  /\ onWire' = [onWire EXCEPT ![SOCK[d]] = <<>>]
  /\ UNCHANGED <<DataTable, RequestQueue, PipelineFlag, FinHeader, WaitForClose,
                 InitialRequestAnswered, ExponentialBackoff, retryTimer, backlogQueue,
                 user, control, calls, told>>
-----------------------------------------------------------------------------
Answer(s) == BodyFollows(s) \/ ResponseDone(s)

CallbackReturns == FinishedResponse \/ ResponseEnded \/ FirstFailed \/ DestroyRequest

WCNext ==
  \/ \E d \in Server : PipelineRequest(d) \/ RetrySink(d) \/ TimerSink(d)
  \/ PreProcess
  \/ \E s \in Pool : Connected(s) \/ ConnectFails(s) \/ Answer(s) \/ OnDisconnect(s)
  \/ CallbackReturns

(* The chain serves its links and timers; a connection attempt ends, after  *)
(* CONNECTTIME if not before; and a server answers what it was sent or ends *)
(* the connection, which the client waits for without a limit of its own.   *)
Fairness ==
  /\ WF_WCvars(PreProcess) /\ WF_WCvars(CallbackReturns)
  /\ \A d \in Server : WF_WCvars(RetrySink(d)) /\ WF_WCvars(TimerSink(d))
  /\ \A s \in Pool : /\ WF_WCvars(Connected(s) \/ ConnectFails(s))
                     /\ WF_WCvars(onWire[s] # <<>> /\ (ResponseDone(s) \/ OnDisconnect(s)))

WCSpec == WCInit /\ [][WCNext]_WCvars /\ Fairness
-----------------------------------------------------------------------------
WCTypeOK ==
  /\ DataTable \subseteq Server /\ RequestQueue \in [Server -> Seq(Request)]
  /\ SOCK \in [Server -> Pool \cup {NULL}]
  /\ PipelineFlag \in [Server -> {"unknown", "yes", "no"}]
  /\ Closing \in [Server -> BOOLEAN] /\ DisconnectSent \in [Server -> BOOLEAN]
  /\ FinHeader \in [Server -> BOOLEAN] /\ WaitForClose \in [Server -> BOOLEAN]
  /\ InitialRequestAnswered \in [Server -> BOOLEAN]
  /\ ExponentialBackoff \in [Server -> 0 .. 2 ^ RETRY_COUNT]
  /\ retryTimer \subseteq DataTable /\ idleTimer \subseteq DataTable
  /\ backlogQueue \in Seq(DataTable)
  /\ sock \in [Pool -> {"free", "connecting", "open"}]
  /\ user \in [Pool -> Server \cup {NoServer}] /\ onWire \in [Pool -> Seq(Request)]
  /\ callback \in {"none", "answer", "closed", "error", "destroy"}
  /\ current \in Server \cup {NoServer} /\ dying \in Seq(Request)
  /\ made \in 0 .. MaxRequests /\ target \in Seq(Server) /\ Len(target) = made
  /\ told \subseteq Request

(* A server has at most one session under way, and one when it has requests *)
(* pending: its wcdo is once in the backlog, on one socket of the pool, or  *)
(* waiting for its retry (the states of PreProcess, OnConnect, RetrySink).  *)
Sockets(d) == {s \in Pool : ~Unused(s) /\ user[s] = d}
Places(d) == {i \in DOMAIN backlogQueue : backlogQueue[i] = d}
Sessions(d) == Cardinality(Sockets(d)) + Cardinality(Places(d))
               + (IF d \in retryTimer THEN 1 ELSE 0)
OneSession ==
  callback = "none" =>
    \A d \in DataTable : Sessions(d) <= 1 /\ (Pending(d) => Sessions(d) = 1)

(* What is unanswered on a connection is the first request of its server,   *)
(* sent once; so OnData hands a response to the request it answers, and no  *)
(* request that was told it is done is sent again.                          *)
AnswersItsRequest ==
  callback = "none" =>
    \A s \in Pool : onWire[s] # <<>> =>
      LET q == RequestQueue[user[s]] IN
      /\ q # <<>> /\ onWire[s] = <<Head(q)>>
      /\ SOCK[user[s]] = s /\ Head(q) \notin told

(* Whatever fails or is asked for in between, a server's requests are told  *)
(* they are done in the order they were made, and none of them twice.       *)
Tells(r) ==
  \/ \E s \in Pool : /\ ResponseDone(s) \/ ResponseEnds(s) \/ FirstFails(s)
                     /\ r = Head(RequestQueue[user[s]])
  \/ DestroyRequest /\ r = Head(dying)
ToldInOrder ==
  [][\A r \in Request : Tells(r) =>
       \A x \in told : target[x] = target[r] => x < r]_WCvars

(* Every request leaves the queues: answered, failed or destroyed, however  *)
(* many servers compete for the pool.                                       *)
InQueue(r) == \/ \E d \in Server : \E i \in DOMAIN RequestQueue[d] : RequestQueue[d][i] = r
              \/ \E i \in DOMAIN dying : dying[i] = r
RequestsLeave == \A r \in Request : InQueue(r) ~> ~InQueue(r)

(* What OnDisconnectSink says of the error path: it takes the failed        *)
(* request off the queue because FinishedResponse will not.  Then a request *)
(* that left the queues was told the outcome.                               *)
NoSilentDrop == \A r \in 1 .. made : r \in told \/ InQueue(r)
=============================================================================
