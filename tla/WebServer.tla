------------------------------ MODULE WebServer ------------------------------
(***************************************************************************)
(* ILibWebServer over ILibAsyncServerSocket: sessions on a pool of         *)
(* sockets.  The microstack thread accepts, reads, fires timers and calls  *)
(* the handler of a request; the handler answers at once, or takes a       *)
(* reference on the session and leaves the request to a thread of the      *)
(* thread pool, which answers and gives the reference back                 *)
(* (_ExecuteCallbackThroughThreadPool, CallMethodThroughThreadPool).       *)
(* Nothing but the reference count has a lock, so a step is one write, or  *)
(* one run of writes that no other thread can tell apart.                  *)
(*                                                                         *)
(* Of the socket module what AsyncSocket promises is used.  A timer that   *)
(* is removed does not fire, and one that runs stands for several.  Left   *)
(* out are the stop of the chain, oversized requests (413), the virtual    *)
(* directories, and DisconnectSession, with which transfers give up.       *)
(***************************************************************************)
EXTENDS Integers, FiniteSets

CONSTANTS
  MaxConnection,  \* sockets of the server
  MaxSessions,    \* bound: connections accepted
  MaxJobs         \* bound: requests left to the pool

ASSUME WebServerAssumption ==
  MaxConnection \in Nat /\ MaxSessions \in Nat /\ MaxJobs \in Nat

Microstack == 0
Job == 1 .. MaxJobs            \* a request in the pool, and the thread that serves it
Thread == Job \cup {Microstack}
Socket == 1 .. MaxConnection
Session == 1 .. MaxSessions
NoSession == 0

VARIABLES
  connection,  \* the session of the connection a socket has, NoSession if it is free
  PAUSE,
  unsent,      \* has a socket data still to send?
  closing,     \* is a Disconnect of the socket on the timers of the server?
  failed,      \* is one on those of the socket, after a failed send?
  opened,      \* connections accepted so far
  Reserved2,   \* the socket a session was accepted on
  Reserved4,   \* the answer has been handed to the socket
  Reserved5,   \* a request has been received and not been answered
  Reserved8,   \* RequestAnswered has run for it
  Reserved12,  \* references
  paused,      \* PAUSE of the data object of the session
  idle,        \* the idle timers of a session
  freed,       \* the sessions freed
  pc, serves,  \* where a thread is, and in which session
  counted,     \* the threads whose handler has a reference on the session
  next,        \* where the microstack thread goes on after an answer
  jobs,        \* requests left to the pool so far
  whole,       \* history: sessions whose last request was received as a whole
  released,    \* history: sessions a handler has released
  disturbed    \* history: sessions whose connection a thread of the pool took for another's

sockets == <<connection, PAUSE, unsent, closing, failed>>
flags == <<Reserved4, Reserved5, Reserved8>>
places == <<pc, serves, counted, next, jobs>>
history == <<whole, released, disturbed>>
vars == <<sockets, opened, Reserved2, flags, Reserved12, paused, idle, freed, places, history>>

Init ==
  /\ connection = [k \in Socket |-> NoSession] /\ PAUSE = [k \in Socket |-> 0]
  /\ unsent = [k \in Socket |-> FALSE]
  /\ closing = [k \in Socket |-> FALSE] /\ failed = [k \in Socket |-> FALSE]
  /\ opened = 0 /\ Reserved2 = [s \in Session |-> 0]
  /\ Reserved4 = [s \in Session |-> FALSE] /\ Reserved5 = [s \in Session |-> FALSE]
  /\ Reserved8 = [s \in Session |-> FALSE] /\ Reserved12 = [s \in Session |-> 0]
  /\ paused = [s \in Session |-> 0] /\ idle = [s \in Session |-> 0] /\ freed = {}
  /\ pc = [t \in Thread |-> IF t = Microstack THEN "ready" ELSE "none"]
  /\ serves = [t \in Thread |-> NoSession] /\ counted = {} /\ next = "ready" /\ jobs = 0
  /\ whole = {} /\ released = {} /\ disturbed = {}

At(t, location) == pc[t] = location
Ready == At(Microstack, "ready")
IsFree(k) == connection[k] = NoSession
Goes(t, location) == pc' = [pc EXCEPT ![t] = location]
End(t) == IF t = Microstack THEN next ELSE "done"
Mine(t) == Reserved2[serves[t]]

(* The microstack thread returns from a session to its loop, or to next.    *)
Returns(t) ==
  /\ Goes(t, End(t))
  /\ serves' = IF End(t) = "ready" THEN [serves EXCEPT ![t] = NoSession] ELSE serves

Disturbs(t, k) ==
  disturbed' = IF t = Microstack THEN disturbed
               ELSE disturbed \cup ({connection[k]} \ {NoSession, serves[t]})
-----------------------------------------------------------------------------
(* The end of a connection and of a session                                 *)

AddRefForgotten(s) == UNCHANGED Reserved12
AddRef(s) == Reserved12' = [Reserved12 EXCEPT ![s] = @ + 1]

(* Is the session without a request under way?                              *)
Waits(s) == Reserved4[s] \/ ~Reserved5[s]

(* ILibWebServer_Release under its lock.                                    *)
ReleaseTestsOld(t, s) ==
  /\ Reserved12' = [Reserved12 EXCEPT ![s] = @ - 1]
  /\ Goes(t, IF Reserved12[s] = 0 THEN "last" ELSE "forget")
Release(t, s) ==
  /\ Reserved12' = [Reserved12 EXCEPT ![s] = @ - 1]
  /\ Goes(t, IF Reserved12[s] = 1 THEN "last" ELSE "forget")

(* The socket is closed and OnDisconnect called, up to the lock of Release. *)
(* The PAUSE of a free socket is not read again.                            *)
Disconnect(t, k, idles) ==
  LET s == connection[k] IN
  /\ connection' = [connection EXCEPT ![k] = NoSession]
  /\ unsent' = [unsent EXCEPT ![k] = FALSE]
  /\ closing' = [closing EXCEPT ![k] = FALSE]
  /\ idle' = IF Waits(s) THEN [idles EXCEPT ![s] = 0] ELSE idles
  /\ Reserved4' = IF Waits(s) THEN [Reserved4 EXCEPT ![s] = FALSE] ELSE Reserved4
  /\ serves' = [serves EXCEPT ![t] = s]
  /\ Release(t, s)

(* The rest of Release: the timers of the session go, and with its last     *)
(* reference the session, ...                                               *)
Forget(t) ==
  /\ At(t, "forget") \/ At(t, "last")
  /\ idle' = [idle EXCEPT ![serves[t]] = 0]
  /\ IF At(t, "last") THEN Goes(t, "free") /\ UNCHANGED serves ELSE Returns(t)
  /\ UNCHANGED <<sockets, opened, Reserved2, flags, Reserved12, paused, freed, counted, next,
                 jobs, history>>

(* ... and with the session the connection its socket has by then.          *)
Free(t) ==
  /\ At(t, "free")
  /\ freed' = freed \cup {serves[t]}
  /\ Disturbs(t, Mine(t))
  /\ \/ /\ IsFree(Mine(t)) /\ Returns(t)
        /\ UNCHANGED <<connection, unsent, closing, idle, Reserved4, Reserved12>>
     \/ ~IsFree(Mine(t)) /\ Disconnect(t, Mine(t), idle)
  /\ UNCHANGED <<PAUSE, failed, opened, Reserved2, Reserved5, Reserved8, paused, counted,
                 next, jobs, whole, released>>

(* The microstack thread disconnects a socket, if it has a connection.      *)
Drops(k, idles, closings) ==
  /\ Ready
  /\ next' = "ready"
  /\ \/ ~IsFree(k) /\ Disconnect(Microstack, k, idles)
     \/ /\ IsFree(k) /\ idle' = idles /\ closing' = closings
        /\ UNCHANGED <<connection, unsent, Reserved4, Reserved12, pc, serves>>
  /\ UNCHANGED <<PAUSE, opened, Reserved2, Reserved5, Reserved8, paused, freed,
                 counted, jobs, history>>

(* A paused connection is not polled.                                       *)
PeerCloses(k) ==
  /\ ~IsFree(k) /\ PAUSE[k] <= 0
  /\ Drops(k, idle, closing)
  /\ UNCHANGED failed

CloseTimer(k) ==
  /\ closing[k]
  /\ Drops(k, idle, [closing EXCEPT ![k] = FALSE])
  /\ UNCHANGED failed

FailTimer(k) ==
  /\ failed[k]
  /\ failed' = [failed EXCEPT ![k] = FALSE]
  /\ Drops(k, idle, closing)

(* The socket is that of the session, the connection need not be.           *)
IdleSink(s) ==
  /\ idle[s] > 0
  /\ Drops(Reserved2[s], [idle EXCEPT ![s] = @ - 1], closing)
  /\ UNCHANGED failed
-----------------------------------------------------------------------------
(* Connections and requests                                                 *)

Accept(k) ==
  /\ Ready /\ opened < MaxSessions
  /\ IsFree(k) /\ \A j \in Socket : j < k => ~IsFree(j)
  /\ opened' = opened + 1
  /\ connection' = [connection EXCEPT ![k] = opened + 1]
  /\ PAUSE' = [PAUSE EXCEPT ![k] = 0]
  /\ Reserved2' = [Reserved2 EXCEPT ![opened + 1] = k]
  /\ Reserved12' = [Reserved12 EXCEPT ![opened + 1] = 1]
  /\ idle' = [idle EXCEPT ![opened + 1] = 1]
  /\ UNCHANGED <<unsent, closing, failed, flags, paused, freed, places, history>>

(* ILibWebServer_OnResponse up to the handler.                              *)
Received(s) ==
  /\ Ready /\ s # NoSession /\ PAUSE[Reserved2[s]] <= 0
  /\ IF Waits(s)
       THEN /\ Reserved4' = [Reserved4 EXCEPT ![s] = FALSE]
            /\ Reserved5' = [Reserved5 EXCEPT ![s] = TRUE]
            /\ Reserved8' = [Reserved8 EXCEPT ![s] = FALSE]
            /\ idle' = [idle EXCEPT ![s] = 0]
       ELSE UNCHANGED <<flags, idle>>
  /\ UNCHANGED <<sockets, opened, Reserved2, paused, freed, released>>

Dispatched(s, location, after) ==
  /\ Goes(Microstack, location)
  /\ next' = after
  /\ serves' = [serves EXCEPT ![Microstack] = s]

(* The body is still to come, and the handler waits for it.                 *)
BodyFollows(k) ==
  /\ Received(connection[k])
  /\ Dispatched(connection[k], "copy", "ready")
  /\ whole' = whole \ {connection[k]}
  /\ UNCHANGED <<Reserved12, counted, jobs, disturbed>>

(* A request without a Host is answered by the server itself, which returns *)
(* before it looks whether the answer was sent.                             *)
Refused(k) ==
  /\ Received(connection[k])
  /\ Dispatched(connection[k], "mark", "copy")
  /\ whole' = whole \ {connection[k]}
  /\ UNCHANGED <<Reserved12, counted, jobs, disturbed>>

(* The handler answers, with a reference on the session or without.         *)
Answered(k) ==
  /\ Received(connection[k])
  /\ Dispatched(connection[k], "mark", "check")
  /\ whole' = whole \cup {connection[k]}
  /\ \/ counted' = counted \cup {Microstack} /\ AddRef(connection[k])
     \/ UNCHANGED <<counted, Reserved12>>
  /\ UNCHANGED <<jobs, disturbed>>

(* The handler takes a reference and leaves the request to the pool.        *)
LeftToPool(k) ==
  /\ jobs < MaxJobs
  /\ Received(connection[k])
  /\ jobs' = jobs + 1
  /\ AddRef(connection[k])
  /\ pc' = [pc EXCEPT ![Microstack] = "check", ![jobs + 1] = "mark"]
  /\ serves' = [serves EXCEPT ![Microstack] = connection[k], ![jobs + 1] = connection[k]]
  /\ next' = "ready"
  /\ counted' = counted \cup {jobs + 1}
  /\ whole' = whole \cup {connection[k]}
  /\ UNCHANGED disturbed

(* The tail of OnResponse: is the request unanswered?  Then no more is read *)
(* from the connection until it is answered.                                *)
CheckOfMark ==
  /\ At(Microstack, "check")
  /\ Goes(Microstack, IF Reserved4[serves[Microstack]] THEN "copy" ELSE "pause")
  /\ UNCHANGED <<sockets, opened, Reserved2, flags, Reserved12, paused, idle, freed, serves,
                 counted, next, jobs, history>>

Check ==
  /\ At(Microstack, "check")
  /\ Goes(Microstack, IF Reserved8[serves[Microstack]] THEN "copy" ELSE "pause")
  /\ UNCHANGED <<sockets, opened, Reserved2, flags, Reserved12, paused, idle, freed, serves,
                 counted, next, jobs, history>>

Pause ==
  /\ At(Microstack, "pause")
  /\ paused' = [paused EXCEPT ![serves[Microstack]] = 1]
  /\ Goes(Microstack, "copy")
  /\ UNCHANGED <<sockets, opened, Reserved2, flags, Reserved12, idle, freed, serves, counted,
                 next, jobs, history>>

(* The tail of ILibWebClient_OnData.                                        *)
Copy ==
  LET k == Mine(Microstack) IN
  /\ At(Microstack, "copy")
  /\ PAUSE' = IF IsFree(k) THEN PAUSE ELSE [PAUSE EXCEPT ![k] = paused[serves[Microstack]]]
  /\ Goes(Microstack, "ready") /\ next' = "ready"
  /\ serves' = [serves EXCEPT ![Microstack] = NoSession]
  /\ UNCHANGED <<connection, unsent, closing, failed, opened, Reserved2, flags, Reserved12,
                 paused, idle, freed, counted, jobs, history>>
-----------------------------------------------------------------------------
(* An answer                                                                *)

(* ILibAsyncSocket_Send on the socket of the session, whoever is connected  *)
(* there: it is closed, or data waits before this, or all of it goes, or    *)
(* some of it, or it fails.                                                 *)
Send(t, sent, otherwise) ==
  LET k == Mine(t) IN
  /\ Disturbs(t, k)
  /\ \/ (IsFree(k) \/ unsent[k]) /\ Goes(t, otherwise) /\ UNCHANGED <<unsent, failed>>
     \/ /\ ~IsFree(k) /\ ~unsent[k]
        /\ \/ Goes(t, sent) /\ UNCHANGED <<unsent, failed>>
           \/ Goes(t, otherwise) /\ unsent' = [unsent EXCEPT ![k] = TRUE] /\ UNCHANGED failed
           \/ Goes(t, otherwise) /\ failed' = [failed EXCEPT ![k] = TRUE] /\ UNCHANGED unsent

(* ILibWebServer_Send_Raw before the last part, ...                         *)
SendPart(t) ==
  /\ At(t, "mark") /\ (t = Microstack => next # "copy")
  /\ Reserved4' = [Reserved4 EXCEPT ![serves[t]] = FALSE]
  /\ Send(t, "mark", "mark")
  /\ UNCHANGED <<connection, PAUSE, closing, opened, Reserved2, Reserved5, Reserved8, Reserved12,
                 paused, idle, freed, serves, counted, next, jobs, whole, released>>

(* ... and with it: the mark, then the data.                                *)
Mark(t) ==
  /\ At(t, "mark")
  /\ Reserved4' = [Reserved4 EXCEPT ![serves[t]] = TRUE]
  /\ Goes(t, "send")
  /\ UNCHANGED <<sockets, opened, Reserved2, Reserved5, Reserved8, Reserved12, paused, idle,
                 freed, serves, counted, next, jobs, history>>

SendLast(t) ==
  /\ At(t, "send")
  /\ Send(t, "answered", "leave")
  /\ UNCHANGED <<connection, PAUSE, closing, opened, Reserved2, flags, Reserved12, paused, idle,
                 freed, serves, counted, next, jobs, whole, released>>

(* ILibWebServer_RequestAnswered: once for a request, ...                   *)
RequestAnswered(t) ==
  /\ At(t, "answered")
  /\ \/ Reserved8[serves[t]] /\ Goes(t, "leave") /\ UNCHANGED <<Reserved5, Reserved8>>
     \/ /\ ~Reserved8[serves[t]]
        /\ Reserved8' = [Reserved8 EXCEPT ![serves[t]] = TRUE]
        /\ Reserved5' = [Reserved5 EXCEPT ![serves[t]] = FALSE]
        /\ Goes(t, "timer")
  /\ UNCHANGED <<sockets, opened, Reserved2, Reserved4, Reserved12, paused, idle, freed, serves,
                 counted, next, jobs, history>>

(* ... it has the connection closed or the session timed, ...               *)
CloseOrKeep(t) ==
  /\ At(t, "timer")
  /\ \/ closing' = [closing EXCEPT ![Mine(t)] = TRUE] /\ Goes(t, "leave")
     \/ Goes(t, "finish") /\ UNCHANGED closing
  /\ UNCHANGED <<connection, PAUSE, unsent, failed, opened, Reserved2, flags, Reserved12, paused,
                 idle, freed, serves, counted, next, jobs, history>>

CloseOrTime(t) ==
  /\ At(t, "timer")
  /\ \/ /\ closing' = [closing EXCEPT ![Mine(t)] = TRUE]
        /\ Goes(t, "leave") /\ UNCHANGED idle
     \/ /\ idle' = [idle EXCEPT ![serves[t]] = @ + 1]
        /\ Goes(t, "finish") /\ UNCHANGED closing
  /\ UNCHANGED <<connection, PAUSE, unsent, failed, opened, Reserved2, flags, Reserved12, paused,
                 freed, serves, counted, next, jobs, history>>

(* ... resets the data object and resumes the socket.                       *)
Finish(t) ==
  /\ At(t, "finish")
  /\ paused' = [paused EXCEPT ![serves[t]] = 0]
  /\ Goes(t, "resume")
  /\ UNCHANGED <<sockets, opened, Reserved2, flags, Reserved12, idle, freed, serves, counted,
                 next, jobs, history>>

Resume(t) ==
  /\ At(t, "resume")
  /\ PAUSE' = [PAUSE EXCEPT ![Mine(t)] = -1]
  /\ Disturbs(t, Mine(t))
  /\ Goes(t, "leave")
  /\ UNCHANGED <<connection, unsent, closing, failed, opened, Reserved2, flags, Reserved12,
                 paused, idle, freed, serves, counted, next, jobs, whole, released>>

(* The handler returns, and gives its reference back if it has one.         *)
Leave(t) ==
  /\ At(t, "leave")
  /\ \/ /\ t \in counted
        /\ counted' = counted \ {t} /\ released' = released \cup {serves[t]}
        /\ Release(t, serves[t]) /\ UNCHANGED serves
     \/ t \notin counted /\ Returns(t) /\ UNCHANGED <<counted, released, Reserved12>>
  /\ UNCHANGED <<sockets, opened, Reserved2, flags, paused, idle, freed, next, jobs, whole,
                 disturbed>>

(* PostSelect sends what waits, and has OnSendOK called when all is gone.   *)
Drained(k) ==
  /\ Ready /\ unsent[k]
  /\ unsent' = [unsent EXCEPT ![k] = FALSE]
  /\ Dispatched(connection[k], "sendok", "ready")
  /\ UNCHANGED <<connection, PAUSE, closing, failed, opened, Reserved2, flags, Reserved12, paused,
                 idle, freed, counted, jobs, history>>

DrainFails(k) ==
  /\ Ready /\ unsent[k]
  /\ unsent' = [unsent EXCEPT ![k] = FALSE]
  /\ failed' = [failed EXCEPT ![k] = TRUE]
  /\ UNCHANGED <<connection, PAUSE, closing, opened, Reserved2, flags, Reserved12, paused,
                 idle, freed, places, history>>

OnSendOKIgnored ==
  /\ At(Microstack, "sendok") /\ Returns(Microstack)
  /\ UNCHANGED <<sockets, opened, Reserved2, flags, Reserved12, paused, idle, freed, counted,
                 next, jobs, history>>

OnSendOK ==
  /\ At(Microstack, "sendok")
  /\ IF Reserved4[serves[Microstack]] THEN Goes(Microstack, "answered") /\ UNCHANGED serves
     ELSE Returns(Microstack)
  /\ UNCHANGED <<sockets, opened, Reserved2, flags, Reserved12, paused, idle, freed, counted,
                 next, jobs, history>>
-----------------------------------------------------------------------------
(* A thread goes on with what it has begun, parts of an answer apart.       *)
Continue(t) ==
  \/ Mark(t) \/ SendLast(t) \/ RequestAnswered(t) \/ CloseOrTime(t) \/ Finish(t)
  \/ Resume(t) \/ Leave(t) \/ Forget(t) \/ Free(t)

Tail == Check \/ Pause \/ Copy \/ OnSendOK

Timers(k) == CloseTimer(k) \/ FailTimer(k)

Idles == \E s \in Session : IdleSink(s)

Drains(k) == Drained(k) \/ DrainFails(k)

Requests(k) == BodyFollows(k) \/ Refused(k) \/ Answered(k) \/ LeftToPool(k)

Next ==
  \/ \E t \in Thread : Continue(t) \/ SendPart(t)
  \/ Tail \/ Idles
  \/ \E k \in Socket : Accept(k) \/ Requests(k) \/ Timers(k) \/ Drains(k) \/ PeerCloses(k)

(* A thread goes on, the pool serves every request, the loop comes round to *)
(* each timer and to each socket with data to send.                         *)
Fairness ==
  /\ \A t \in Thread : WF_vars(Continue(t))
  /\ WF_vars(Tail)
  /\ \A k \in Socket : SF_vars(Timers(k)) /\ SF_vars(Drains(k))

Spec == Init /\ [][Next]_vars /\ Fairness
-----------------------------------------------------------------------------
(* Properties                                                               *)

Location ==
  {"none", "ready", "mark", "send", "answered", "timer", "finish", "resume", "leave", "forget",
   "last", "free", "check", "pause", "copy", "sendok", "done"}

(* The state of the server has the shape ILibWebServer.c and                *)
(* ILibAsyncServerSocket.c declare.                                         *)
TypeOK ==
  /\ connection \in [Socket -> Session \cup {NoSession}] /\ PAUSE \in [Socket -> {-1, 0, 1}]
  /\ unsent \in [Socket -> BOOLEAN] /\ closing \in [Socket -> BOOLEAN]
  /\ failed \in [Socket -> BOOLEAN]
  /\ opened \in 0 .. MaxSessions /\ Reserved2 \in [Session -> Socket \cup {0}]
  /\ Reserved4 \in [Session -> BOOLEAN] /\ Reserved5 \in [Session -> BOOLEAN]
  /\ Reserved8 \in [Session -> BOOLEAN] /\ Reserved12 \in [Session -> Nat]
  /\ paused \in [Session -> {0, 1}] /\ idle \in [Session -> Nat] /\ freed \subseteq Session
  /\ pc \in [Thread -> Location] /\ serves \in [Thread -> Session \cup {NoSession}]
  /\ counted \subseteq Thread /\ next \in {"ready", "check", "copy"} /\ jobs \in 0 .. MaxJobs
  /\ whole \subseteq Session /\ released \subseteq Session /\ disturbed \subseteq Session

Connected(s) == \E k \in Socket : connection[k] = s
Holders(s) == {t \in counted : serves[t] = s}
Freers(s) == {t \in Thread : serves[t] = s /\ pc[t] \in {"last", "free"}}
Pooled == {serves[t] : t \in Job}

(* A session has one reference for its connection and one for every handler *)
(* that took one, on whatever thread; when the last is given back, one      *)
(* thread is about to free it, and once it is freed no timer comes for it.  *)
ReferencesAccounted ==
  /\ \A s \in 1 .. opened :
       Reserved12[s] = Cardinality(Holders(s)) + (IF Connected(s) THEN 1 ELSE 0)
  /\ \A s \in 1 .. opened : Reserved12[s] = 0 /\ s \notin freed => Cardinality(Freers(s)) = 1
  /\ \A s \in freed : Reserved12[s] = 0 /\ Freers(s) = {} /\ (s \in disturbed \/ idle[s] = 0)

(* A session is not freed under a thread that still works on it: the thread *)
(* of the pool that serves its request, however late, or the microstack     *)
(* thread, with a reference or on the strength of the connection.  The tail *)
(* of Release is the exception: it removes the timers of a session when the *)
(* reference is given back, and another thread may have freed it by then.   *)
SessionsOutliveUse ==
  \A t \in Thread : serves[t] \in freed \ disturbed => pc[t] \in {"forget", "done"}

(* Pipelined requests are answered in turn: while the handler has a whole   *)
(* request that is not answered, the connection is not read.  It holds of   *)
(* the sessions that only the microstack thread serves.                     *)
ServedInTurn ==
  \A s \in whole \ (Pooled \cup disturbed) :
    Ready /\ Connected(s) /\ Reserved5[s] => PAUSE[Reserved2[s]] = 1

(* A connection without a request under way is on a timer, so that a peer   *)
(* that goes silent does not hold a socket.  It holds of the sessions that  *)
(* no handler has given a reference back of, for with it goes the timer.    *)
WaitersAreTimed ==
  \A s \in 1 .. opened :
    Ready /\ Connected(s) /\ ~Reserved5[s] /\ s \notin released
      => \/ idle[s] > 0 \/ closing[Reserved2[s]]
         \/ \E t \in Job : At(t, "timer") /\ serves[t] = s

(* A request that was received is answered, or its connection ends.         *)
RequestsSettle ==
  \A s \in Session :
    s \in whole /\ Reserved5[s] ~> ~Reserved5[s] \/ ~Connected(s) \/ s \in Pooled \cup disturbed
=============================================================================
