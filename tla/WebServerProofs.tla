--------------------------- MODULE WebServerProofs ---------------------------
(***************************************************************************)
(* Proofs about WebServer for any number of sockets, sessions and jobs.    *)
(* The inductive invariant comes in layers, each proved with the ones      *)
(* before: Shape (who serves what), Refs (the reference counts), then      *)
(* Turn and Timed, which do not need each other.                           *)
(***************************************************************************)
EXTENDS WebServer, FiniteSetTheorems, TLAPS

Answering == {"mark", "send", "answered", "timer", "finish", "resume", "leave"}
Ending == {"forget", "last", "free"}

(* A session that was not opened yet has nothing; one that has a socket is  *)
(* on the socket it was accepted on, so no session is on two.               *)
Sessions ==
  /\ \A s \in Session : s > opened =>
       Reserved12[s] = 0 /\ idle[s] = 0 /\ ~Reserved5[s] /\ ~Reserved8[s] /\ s \notin freed
  /\ \A s \in 1 .. opened : Reserved2[s] \in Socket
  /\ \A k \in Socket : connection[k] # NoSession =>
       connection[k] \in 1 .. opened /\ Reserved2[connection[k]] = k
  /\ \A k \in Socket : unsent[k] => connection[k] # NoSession

(* A thread that is busy serves a session, and a job has its reference from *)
(* the time it is made until its handler returns.                           *)
Threads ==
  /\ \A t \in Thread : serves[t] \in 0 .. opened
  /\ pc[Microstack] \in Answering \cup Ending \cup {"ready", "check", "pause", "copy", "sendok"}
  /\ pc[Microstack] = "ready" <=> serves[Microstack] = NoSession
  /\ \A t \in Job : pc[t] \in Answering \cup Ending \cup {"none", "done"}
  /\ \A t \in Job : t > jobs <=> pc[t] = "none"
  /\ \A t \in Job : pc[t] = "none" <=> serves[t] = NoSession
  /\ \A t \in counted : pc[t] \in Answering
  /\ \A t \in Job : pc[t] \in Answering => t \in counted

(* No connection is accepted while the microstack thread serves a session,  *)
(* so the socket of that session is its own or free.  Without a reference   *)
(* it answers on the strength of the connection, which only a thread of the *)
(* pool can take away from it.                                              *)
Own ==
  /\ serves[Microstack] # NoSession =>
       connection[Reserved2[serves[Microstack]]] \in {NoSession, serves[Microstack]}
  /\ pc[Microstack] \in Answering \cup {"sendok"} /\ Microstack \notin counted =>
       Connected(serves[Microstack]) \/ serves[Microstack] \in disturbed

Shape == TypeOK /\ Sessions /\ Threads /\ Own

(* A reference that is given back is there.                                 *)
Due ==
  /\ \A k \in Socket : connection[k] # NoSession => Reserved12[connection[k]] > 0
  /\ \A t \in counted : Reserved12[serves[t]] > 0
  /\ \A t \in Thread : pc[t] \in {"last", "free"} => Reserved12[serves[t]] = 0

LEMMA ShapeInit == Init => Shape
<1> SUFFICES ASSUME Init PROVE Shape
  OBVIOUS
<1> USE WebServerAssumption DEF Init, Thread, Job, Microstack, NoSession
<1>1. TypeOK
  BY DEF TypeOK, Location
<1>2. Sessions
  BY DEF Sessions
<1>3. Threads
  BY DEF Threads, Answering, Ending
<1>4. Own
  BY DEF Own, Answering
<1> QED BY <1>1, <1>2, <1>3, <1>4 DEF Shape

(* The steps of a thread that answers leave connections, sessions and       *)
(* threads as they are but for its place.                                   *)
LEMMA AnsweringOn ==
  ASSUME Shape, NEW t \in Thread, NEW l \in Answering, Goes(t, l),
         pc[t] \in Answering \cup {"sendok"},
         UNCHANGED <<connection, opened, Reserved2, serves, counted, jobs>>,
         disturbed \subseteq disturbed'
  PROVE  Threads' /\ Own'
<1> USE DEF Shape, TypeOK, Goes, Answering, Ending, Thread, Job, Microstack
<1>1. Threads'
  BY DEF Threads
<1>2. Own'
  BY DEF Own, Connected
<1> QED BY <1>1, <1>2

LEMMA ShapeMark ==
  ASSUME Shape, NEW t \in Thread, Mark(t)
  PROVE  Shape'
<1> USE DEF Mark, sockets, history
<1>1. TypeOK'
  BY DEF Shape, TypeOK, Goes, Location
<1>2. Sessions'
  BY DEF Shape, Sessions
<1>3. Threads' /\ Own'
  BY AnsweringOn DEF At, Answering, history
<1> QED BY <1>1, <1>2, <1>3 DEF Shape

LEMMA ShapeSend ==
  ASSUME Shape, NEW t \in Thread, SendPart(t) \/ SendLast(t)
  PROVE  Shape'
<1> USE DEF SendPart, SendLast, Send
<1>1. serves[t] \in 1 .. opened /\ Mine(t) \in Socket
  BY DEF Shape, Threads, Sessions, At, NoSession, Thread, Job, Microstack, Mine
<1>2. TypeOK'
  BY <1>1 DEF Shape, TypeOK, Goes, Location, Disturbs, flags
<1>3. Sessions'
  BY <1>1 DEF Shape, Sessions, TypeOK, flags, IsFree
<1>4. Threads' /\ Own'
  BY AnsweringOn DEF At, Answering, Disturbs
<1> QED BY <1>2, <1>3, <1>4 DEF Shape

LEMMA ShapeAnswer ==
  ASSUME Shape, NEW t \in Thread,
         RequestAnswered(t) \/ CloseOrTime(t) \/ Finish(t) \/ Resume(t)
  PROVE  Shape'
<1> USE DEF RequestAnswered, CloseOrTime, Finish, Resume, sockets, history, flags
<1>1. serves[t] \in 1 .. opened /\ Mine(t) \in Socket
  BY DEF Shape, Threads, Sessions, At, NoSession, Thread, Job, Microstack, Mine, Answering
<1>2. TypeOK'
  <2> USE DEF Shape, TypeOK
  <2>1. pc' \in [Thread -> Location]
    BY DEF Goes, Location
  <2>2. PAUSE' \in [Socket -> {-1, 0, 1}]
    BY <1>1
  <2>3. closing' \in [Socket -> BOOLEAN] /\ paused' \in [Session -> {0, 1}]
    BY <1>1
  <2>4. idle' \in [Session -> Nat]
    BY <1>1 DEF Session
  <2>5. /\ Reserved5' \in [Session -> BOOLEAN] /\ Reserved8' \in [Session -> BOOLEAN]
        /\ disturbed' \subseteq Session
    BY <1>1 DEF Disturbs
  <2> QED BY <2>1, <2>2, <2>3, <2>4, <2>5
<1>3. Sessions'
  BY <1>1 DEF Shape, Sessions, TypeOK
<1>4. Threads' /\ Own'
  BY AnsweringOn DEF At, Answering, Disturbs
<1> QED BY <1>2, <1>3, <1>4 DEF Shape

(* A thread that is through goes back to its loop, or is done.              *)
LEMMA GoingOn ==
  ASSUME Shape, NEW t \in Thread, Returns(t), t \notin counted,
         pc[t] \in Answering \cup Ending \cup {"sendok"},
         UNCHANGED <<connection, opened, Reserved2, counted, jobs>>,
         disturbed \subseteq disturbed'
  PROVE  Threads' /\ Own' /\ pc' \in [Thread -> Location]
         /\ serves' \in [Thread -> Session \cup {NoSession}]
<1> USE DEF Shape, TypeOK, Returns, End, Goes, Answering, Ending, Thread, Job, Microstack,
            NoSession
<1>1. Threads'
  BY DEF Threads
<1>2. Own'
  BY DEF Own, Connected, Threads
<1> QED BY <1>1, <1>2 DEF Location

(* A reference is given back: the thread goes on to the end of a session.   *)
LEMMA GivingBack ==
  ASSUME Shape, NEW t \in Thread, NEW s \in 1 .. opened, Release(t, s), Reserved12[s] > 0,
         serves' = [serves EXCEPT ![t] = s], counted' = counted \ {t},
         pc[t] \in {"leave", "free"} \/ (t = Microstack /\ pc[t] = "ready"),
         t = Microstack => connection'[Reserved2[s]] \in {NoSession, s},
         \A k \in Socket : connection'[k] \in {connection[k], NoSession},
         \A k \in Socket :
           connection'[k] # connection[k] /\ t # Microstack => connection[k] \in disturbed',
         UNCHANGED <<opened, Reserved2, jobs>>, disturbed \subseteq disturbed'
  PROVE  /\ Threads' /\ Own' /\ pc' \in [Thread -> Location]
         /\ serves' \in [Thread -> Session \cup {NoSession}]
         /\ Reserved12' \in [Session -> Nat]
         /\ \A r \in Session : r > opened => Reserved12'[r] = Reserved12[r]
<1> USE DEF Shape, TypeOK, Release, Goes, Answering, Ending, Thread, Job, Microstack,
            NoSession
<1>1. Threads'
  BY DEF Threads
<1>2. Own'
  BY DEF Own, Connected, Threads, Sessions
<1>3. s \in Session /\ s <= opened
  BY WebServerAssumption DEF Session
<1>4. pc' \in [Thread -> Location] /\ serves' \in [Thread -> Session \cup {NoSession}]
  BY <1>3 DEF Location
<1>5. /\ Reserved12' \in [Session -> Nat]
      /\ \A r \in Session : r > opened => Reserved12'[r] = Reserved12[r]
  BY <1>3
<1> QED BY <1>1, <1>2, <1>4, <1>5

LEMMA ShapeLeave ==
  ASSUME Shape, Due, NEW t \in Thread, Leave(t)
  PROVE  Shape'
<1> USE DEF Leave, sockets, flags
<1>1. serves[t] \in 1 .. opened /\ pc[t] = "leave"
  BY DEF Shape, Threads, At, NoSession, Thread, Job, Microstack, Answering
<1>2. CASE t \in counted
  <2>1. connection[Reserved2[serves[t]]] \in {NoSession, serves[t]} \/ t # Microstack
    BY <1>1 DEF Shape, Own, NoSession
  <2>2. /\ Threads' /\ Own' /\ pc' \in [Thread -> Location]
        /\ serves' \in [Thread -> Session \cup {NoSession}]
        /\ Reserved12' \in [Session -> Nat]
        /\ \A r \in Session : r > opened => Reserved12'[r] = Reserved12[r]
    BY <1>1, <1>2, <2>1, GivingBack DEF Due, Shape, TypeOK
  <2>3. serves[t] \in Session /\ released' \subseteq Session
    BY <1>1, <1>2 DEF Shape, TypeOK, NoSession
  <2>4. TypeOK'
    BY <1>2, <2>2, <2>3 DEF Shape, TypeOK
  <2>5. Sessions'
    BY <1>2, <2>2 DEF Shape, Sessions
  <2> QED BY <2>2, <2>4, <2>5 DEF Shape
<1>3. CASE t \notin counted
  <2>1. /\ Threads' /\ Own' /\ pc' \in [Thread -> Location]
        /\ serves' \in [Thread -> Session \cup {NoSession}]
    BY <1>1, <1>3, GoingOn DEF Answering
  <2>2. TypeOK' /\ Sessions'
    BY <1>3, <2>1 DEF Shape, TypeOK, Sessions
  <2> QED BY <2>1, <2>2 DEF Shape
<1> QED BY <1>2, <1>3

LEMMA ShapeForget ==
  ASSUME Shape, NEW t \in Thread, Forget(t)
  PROVE  Shape'
<1> USE DEF Forget, sockets, flags, history
<1>1. serves[t] \in 1 .. opened /\ pc[t] \in {"forget", "last"} /\ t \notin counted
  BY DEF Shape, Threads, At, NoSession, Thread, Job, Microstack, Answering
<1>2. idle' \in [Session -> Nat] /\ \A s \in Session : s > opened => idle'[s] = 0
  BY <1>1 DEF Shape, TypeOK, Sessions
<1>3. /\ Threads' /\ Own' /\ pc' \in [Thread -> Location]
      /\ serves' \in [Thread -> Session \cup {NoSession}]
  <2>1. CASE At(t, "last")
    <3> USE DEF Shape, TypeOK, Goes, Answering, Ending, Thread, Job, Microstack
    <3>1. Threads'
      <4>1. /\ pc' = [pc EXCEPT ![t] = "free"] /\ pc[t] = "last"
            /\ UNCHANGED <<serves, opened, counted, jobs>>
        BY <2>1 DEF At
      <4> QED BY <1>1, <4>1 DEF Threads
    <3>2. Own'
      BY <1>1, <2>1 DEF Own, Connected, At
    <3> QED BY <2>1, <3>1, <3>2 DEF Location
  <2>2. CASE ~At(t, "last")
    BY <1>1, <2>2, GoingOn DEF Ending
  <2> QED BY <2>1, <2>2
<1>4. TypeOK' /\ Sessions'
  BY <1>2, <1>3 DEF Shape, TypeOK, Sessions
<1> QED BY <1>3, <1>4 DEF Shape

(* A connection that ends.                                                  *)
LEMMA ShapeDisconnect ==
  ASSUME Shape, Due, NEW t \in Thread, NEW k \in Socket, NEW idles \in [Session -> Nat],
         connection[k] # NoSession, Disconnect(t, k, idles),
         pc[t] = "free" \/ (t = Microstack /\ pc[t] = "ready"),
         t # Microstack => connection[k] \in disturbed',
         UNCHANGED <<opened, Reserved2, counted, jobs>>, disturbed \subseteq disturbed',
         \A s \in Session : s > opened => idles[s] = 0,
         UNCHANGED <<Reserved5, Reserved8>>,
         \A s \in Session : s > opened => s \notin freed'
  PROVE  /\ Threads' /\ Own' /\ Sessions'
         /\ pc' \in [Thread -> Location] /\ serves' \in [Thread -> Session \cup {NoSession}]
         /\ Reserved12' \in [Session -> Nat] /\ Reserved4' \in [Session -> BOOLEAN]
         /\ connection' \in [Socket -> Session \cup {NoSession}]
         /\ unsent' \in [Socket -> BOOLEAN] /\ closing' \in [Socket -> BOOLEAN]
         /\ idle' \in [Session -> Nat]
<1> DEFINE s == connection[k]
<1>1. /\ s \in 1 .. opened /\ Reserved2[s] = k /\ Reserved12[s] > 0 /\ t \notin counted
      /\ s \in Session
  BY DEF Shape, Sessions, Due, Threads, Answering, Microstack, TypeOK, NoSession
<1>2. /\ connection' = [connection EXCEPT ![k] = NoSession]
      /\ connection' \in [Socket -> Session \cup {NoSession}]
  BY DEF Disconnect, Shape, TypeOK
<1>3. /\ Threads' /\ Own' /\ pc' \in [Thread -> Location]
      /\ serves' \in [Thread -> Session \cup {NoSession}]
      /\ Reserved12' \in [Session -> Nat]
      /\ \A r \in Session : r > opened => Reserved12'[r] = Reserved12[r]
  <2>1. Release(t, s) /\ serves' = [serves EXCEPT ![t] = s] /\ counted' = counted \ {t}
    BY <1>1 DEF Disconnect
  <2>2. /\ \A j \in Socket : connection'[j] \in {connection[j], NoSession}
        /\ \A j \in Socket :
             connection'[j] # connection[j] /\ t # Microstack => connection[j] \in disturbed'
        /\ connection'[Reserved2[s]] \in {NoSession, s}
    BY <1>1, <1>2 DEF Shape, TypeOK
  <2> HIDE DEF s
  <2> QED BY <1>1, <2>1, <2>2, GivingBack
<1>4. /\ idle' \in [Session -> Nat] /\ \A r \in Session : r > opened => idle'[r] = 0
  BY <1>1 DEF Disconnect
<1>5. /\ Reserved4' \in [Session -> BOOLEAN] /\ unsent' \in [Socket -> BOOLEAN]
      /\ closing' \in [Socket -> BOOLEAN]
  BY <1>1 DEF Disconnect, Shape, TypeOK
<1>6. Sessions'
  BY <1>1, <1>2, <1>3, <1>4 DEF Disconnect, Shape, Sessions, TypeOK
<1> QED BY <1>2, <1>3, <1>4, <1>5, <1>6

LEMMA ShapeFree ==
  ASSUME Shape, Due, NEW t \in Thread, Free(t)
  PROVE  Shape'
<1> DEFINE k == Mine(t)
<1>1. /\ serves[t] \in 1 .. opened /\ serves[t] \in Session /\ pc[t] = "free" /\ t \notin counted
      /\ k \in Socket /\ Reserved12[serves[t]] = 0
  BY DEF Free, Shape, TypeOK, Threads, Sessions, Due, At, Mine, NoSession, Thread, Job, Microstack,
         Answering
<1>2. /\ freed' \subseteq Session /\ disturbed' \subseteq Session
      /\ disturbed \subseteq disturbed' /\ \A s \in Session : s > opened => s \notin freed'
  BY <1>1 DEF Free, Disturbs, Shape, TypeOK, Sessions
<1>3. CASE IsFree(k) /\ Returns(t)
           /\ UNCHANGED <<connection, unsent, closing, idle, Reserved4, Reserved12>>
  <2>1. /\ Threads' /\ Own' /\ pc' \in [Thread -> Location]
        /\ serves' \in [Thread -> Session \cup {NoSession}]
    BY <1>1, <1>2, <1>3, GoingOn DEF Free, Ending
  <2>2. TypeOK' /\ Sessions'
    BY <1>2, <1>3, <2>1 DEF Free, Shape, TypeOK, Sessions
  <2> QED BY <2>1, <2>2 DEF Shape
<1>4. CASE ~IsFree(k) /\ Disconnect(t, k, idle)
  <2>1. connection[k] # NoSession /\ (t # Microstack => connection[k] \in disturbed')
    BY <1>1, <1>4 DEF Free, Disturbs, IsFree, Due
  <2>2. /\ idle \in [Session -> Nat] /\ \A s \in Session : s > opened => idle[s] = 0
    BY DEF Shape, TypeOK, Sessions
  <2>3. /\ UNCHANGED <<opened, Reserved2, counted, jobs, Reserved5, Reserved8, PAUSE, failed,
                       paused, next, whole, released>>
    BY DEF Free
  <2> HIDE DEF k
  <2>4. /\ Threads' /\ Own' /\ Sessions'
        /\ pc' \in [Thread -> Location] /\ serves' \in [Thread -> Session \cup {NoSession}]
        /\ Reserved12' \in [Session -> Nat] /\ Reserved4' \in [Session -> BOOLEAN]
        /\ connection' \in [Socket -> Session \cup {NoSession}]
        /\ unsent' \in [Socket -> BOOLEAN] /\ closing' \in [Socket -> BOOLEAN]
        /\ idle' \in [Session -> Nat]
    BY <1>1, <1>2, <1>4, <2>1, <2>2, <2>3, ShapeDisconnect
  <2>5. TypeOK'
    BY <1>2, <2>3, <2>4 DEF Shape, TypeOK
  <2> QED BY <2>4, <2>5 DEF Shape
<1> QED BY <1>3, <1>4 DEF Free

LEMMA ShapeDrops ==
  ASSUME Shape, Due, NEW k \in Socket, NEW idles \in [Session -> Nat],
         NEW closings \in [Socket -> BOOLEAN], Drops(k, idles, closings),
         \A s \in Session : s > opened => idles[s] = 0, failed' \in [Socket -> BOOLEAN]
  PROVE  Shape'
<1>1. /\ UNCHANGED <<opened, Reserved2, counted, jobs, Reserved5, Reserved8, PAUSE, paused, freed,
                     whole, released, disturbed>>
      /\ next' = "ready" /\ pc[Microstack] = "ready" /\ Microstack \in Thread
  BY DEF Drops, Ready, At, history, Thread
<1>2. CASE IsFree(k) /\ idle' = idles /\ closing' = closings
           /\ UNCHANGED <<connection, unsent, Reserved4, Reserved12, pc, serves>>
  <2>1. TypeOK'
    BY <1>1, <1>2 DEF Shape, TypeOK
  <2>2. Sessions'
    BY <1>1, <1>2 DEF Shape, Sessions
  <2>3. Threads' /\ Own'
    BY <1>1, <1>2 DEF Shape, Threads, Own, Connected
  <2> QED BY <2>1, <2>2, <2>3 DEF Shape
<1>3. CASE ~IsFree(k) /\ Disconnect(Microstack, k, idles)
  <2>1. connection[k] # NoSession
    BY <1>3 DEF IsFree
  <2>2. \A s \in Session : s > opened => s \notin freed'
    BY <1>1 DEF Shape, Sessions
  <2>3. /\ Threads' /\ Own' /\ Sessions'
        /\ pc' \in [Thread -> Location] /\ serves' \in [Thread -> Session \cup {NoSession}]
        /\ Reserved12' \in [Session -> Nat] /\ Reserved4' \in [Session -> BOOLEAN]
        /\ connection' \in [Socket -> Session \cup {NoSession}]
        /\ unsent' \in [Socket -> BOOLEAN] /\ closing' \in [Socket -> BOOLEAN]
        /\ idle' \in [Session -> Nat]
    BY <1>1, <1>3, <2>1, <2>2, ShapeDisconnect
  <2>4. TypeOK'
    BY <1>1, <2>3 DEF Shape, TypeOK
  <2> QED BY <2>3, <2>4 DEF Shape
<1> QED BY <1>2, <1>3 DEF Drops

LEMMA ShapeEnds ==
  ASSUME Shape, Due, Idles \/ \E k \in Socket : Timers(k) \/ PeerCloses(k)
  PROVE  Shape'
<1>1. /\ idle \in [Session -> Nat] /\ closing \in [Socket -> BOOLEAN]
      /\ failed \in [Socket -> BOOLEAN] /\ \A s \in Session : s > opened => idle[s] = 0
  BY DEF Shape, TypeOK, Sessions
<1>2. ASSUME NEW k \in Socket, PeerCloses(k)
      PROVE  Shape'
  BY <1>1, <1>2, ShapeDrops DEF PeerCloses
<1>3. ASSUME NEW k \in Socket, CloseTimer(k)
      PROVE  Shape'
  BY <1>1, <1>3, ShapeDrops DEF CloseTimer
<1>4. ASSUME NEW k \in Socket, FailTimer(k)
      PROVE  Shape'
  BY <1>1, <1>4, ShapeDrops DEF FailTimer
<1>5. ASSUME NEW s \in Session, IdleSink(s)
      PROVE  Shape'
  <2>1. s \in 1 .. opened /\ Reserved2[s] \in Socket
    BY <1>5 DEF IdleSink, Shape, TypeOK, Sessions, Session
  <2>2. DEFINE idles == [idle EXCEPT ![s] = @ - 1]
  <2>3. idles \in [Session -> Nat] /\ \A r \in Session : r > opened => idles[r] = 0
    BY <1>1, <1>5, <2>1 DEF IdleSink
  <2>4. Drops(Reserved2[s], idles, closing) /\ failed' = failed
    BY <1>5 DEF IdleSink
  <2> HIDE DEF idles
  <2> QED BY <1>1, <2>1, <2>3, <2>4, ShapeDrops
<1> QED BY <1>2, <1>3, <1>4, <1>5 DEF Idles, Timers

LEMMA ShapeAccept ==
  ASSUME Shape, NEW k \in Socket, Accept(k)
  PROVE  Shape'
<1>1. opened + 1 \in Session /\ opened + 1 # NoSession /\ opened \in Nat
  BY WebServerAssumption DEF Accept, Shape, TypeOK, Session, NoSession
<1> USE DEF Accept, flags, history, places
<1>2. TypeOK'
  BY <1>1 DEF Shape, TypeOK, Session
<1>3. Sessions'
  <2> USE DEF Shape, TypeOK
  <2>1. /\ opened' = opened + 1 /\ connection' = [connection EXCEPT ![k] = opened + 1]
        /\ Reserved2' = [Reserved2 EXCEPT ![opened + 1] = k] /\ connection[k] = NoSession
        /\ UNCHANGED <<Reserved5, Reserved8, freed, unsent>>
    BY DEF IsFree
  <2>2. \A s \in Session : s > opened' =>
          Reserved12'[s] = 0 /\ idle'[s] = 0 /\ ~Reserved5'[s] /\ ~Reserved8'[s] /\ s \notin freed'
    BY <1>1, <2>1 DEF Sessions, Session
  <2>3. \A s \in 1 .. opened' : Reserved2'[s] \in Socket
    BY <1>1, <2>1 DEF Sessions, Session
  <2>4. \A j \in Socket : connection'[j] # NoSession =>
          connection'[j] \in 1 .. opened' /\ Reserved2'[connection'[j]] = j
    BY <1>1, <2>1 DEF Sessions
  <2>5. \A j \in Socket : unsent'[j] => connection'[j] # NoSession
    BY <1>1, <2>1 DEF Sessions
  <2> QED BY <2>2, <2>3, <2>4, <2>5 DEF Sessions
<1>4. Threads'
  BY <1>1 DEF Shape, Threads
<1>5. Own'
  BY DEF Shape, Threads, Own, Ready, At, Answering
<1> QED BY <1>2, <1>3, <1>4, <1>5 DEF Shape

(* A request is received on an open connection.                             *)
LEMMA ShapeReceived ==
  ASSUME Shape, NEW k \in Socket, Received(connection[k])
  PROVE  /\ Sessions /\ connection[k] \in 1 .. opened /\ connection[k] \in Session
         /\ Reserved2[connection[k]] = k /\ pc[Microstack] = "ready"
         /\ UNCHANGED <<connection, PAUSE, unsent, closing, failed, opened, Reserved2, paused,
                        freed, released>>
         /\ Reserved4' \in [Session -> BOOLEAN] /\ Reserved5' \in [Session -> BOOLEAN]
         /\ Reserved8' \in [Session -> BOOLEAN] /\ idle' \in [Session -> Nat]
         /\ \A s \in Session : s > opened => idle'[s] = 0 /\ ~Reserved5'[s] /\ ~Reserved8'[s]
<1>1. /\ connection[k] \in 1 .. opened /\ connection[k] \in Session /\ pc[Microstack] = "ready"
      /\ Reserved2[connection[k]] = k
  BY DEF Received, Shape, TypeOK, Sessions, Ready, At, NoSession
<1>2. CASE Waits(connection[k])
  <2> DEFINE s == connection[k]
  <2>1. /\ Reserved4' = [Reserved4 EXCEPT ![s] = FALSE] /\ Reserved5' = [Reserved5 EXCEPT ![s] = TRUE]
        /\ Reserved8' = [Reserved8 EXCEPT ![s] = FALSE] /\ idle' = [idle EXCEPT ![s] = 0]
        /\ UNCHANGED <<connection, PAUSE, unsent, closing, failed, opened, Reserved2, paused,
                       freed, released>>
    BY <1>2 DEF Received, sockets
  <2> HIDE DEF s
  <2>2. s \in Session /\ s <= opened /\ opened \in Nat
    BY <1>1 DEF s, Shape, TypeOK
  <2>3. \A r \in Session : r > opened => idle'[r] = 0 /\ ~Reserved5'[r] /\ ~Reserved8'[r]
    BY <2>1, <2>2 DEF Shape, TypeOK, Sessions, Session
  <2>4. /\ Reserved4' \in [Session -> BOOLEAN] /\ Reserved5' \in [Session -> BOOLEAN]
        /\ Reserved8' \in [Session -> BOOLEAN] /\ idle' \in [Session -> Nat]
    BY <2>1, <2>2 DEF Shape, TypeOK
  <2> QED BY <1>1, <2>1, <2>3, <2>4 DEF Shape
<1>3. CASE ~Waits(connection[k])
  BY <1>1, <1>3 DEF Received, Shape, TypeOK, Sessions, sockets, flags
<1> QED BY <1>1, <1>2, <1>3 DEF Shape

LEMMA ShapeRequest ==
  ASSUME Shape, NEW k \in Socket, BodyFollows(k) \/ Refused(k) \/ Answered(k)
  PROVE  Shape'
<1> DEFINE s == connection[k]
<1>1. /\ Sessions /\ s \in 1 .. opened /\ s \in Session /\ Reserved2[s] = k
      /\ pc[Microstack] = "ready"
      /\ UNCHANGED <<connection, PAUSE, unsent, closing, failed, opened, Reserved2, paused,
                     freed, released>>
      /\ Reserved4' \in [Session -> BOOLEAN] /\ Reserved5' \in [Session -> BOOLEAN]
      /\ Reserved8' \in [Session -> BOOLEAN] /\ idle' \in [Session -> Nat]
      /\ \A r \in Session : r > opened => idle'[r] = 0 /\ ~Reserved5'[r] /\ ~Reserved8'[r]
  BY ShapeReceived DEF BodyFollows, Refused, Answered
<1>2. \E location \in {"copy", "mark"}, after \in {"ready", "copy", "check"} :
        Dispatched(s, location, after)
  BY DEF BodyFollows, Refused, Answered
<1>3. /\ UNCHANGED <<jobs, disturbed>> /\ whole' \subseteq Session
      /\ \/ UNCHANGED <<Reserved12, counted>>
         \/ counted' = counted \cup {Microstack} /\ AddRef(s) /\ Dispatched(s, "mark", "check")
  BY <1>1 DEF BodyFollows, Refused, Answered, Shape, TypeOK
<1> HIDE DEF s
<1>4. TypeOK'
  BY <1>1, <1>2, <1>3 DEF Dispatched, Goes, AddRef, Shape, TypeOK, Location, Thread, Microstack
<1>5. Sessions'
  BY <1>1, <1>3 DEF AddRef, Shape, Sessions, TypeOK
<1>6. Threads'
  <2> PICK location \in {"copy", "mark"} :
        /\ pc' = [pc EXCEPT ![Microstack] = location]
        /\ serves' = [serves EXCEPT ![Microstack] = s]
        /\ counted' = counted \/ (counted' = counted \cup {Microstack} /\ location = "mark")
    BY <1>2, <1>3 DEF Dispatched, Goes, Shape, TypeOK, Thread, Microstack
  <2>1. UNCHANGED <<opened, jobs>> /\ s # NoSession /\ s \in 0 .. opened
    BY <1>1, <1>3 DEF NoSession, Shape, TypeOK
  <2>2. \A t \in counted' : pc'[t] \in Answering
    BY <1>1 DEF Shape, Threads, TypeOK, Thread, Microstack, Answering
  <2>3. \A t \in Job : pc'[t] = pc[t] /\ serves'[t] = serves[t] /\ (t \in counted' <=> t \in counted)
    BY DEF Shape, TypeOK, Thread, Job, Microstack
  <2>4. pc'[Microstack] = location /\ serves'[Microstack] = s
    BY DEF Shape, TypeOK, Thread
  <2> QED BY <2>1, <2>2, <2>3, <2>4 DEF Shape, Threads, Thread, Answering
<1>7. Own'
  <2>1. /\ serves'[Microstack] = s /\ connection'[Reserved2'[s]] = s
        /\ \E j \in Socket : connection'[j] = s
    BY <1>1, <1>2 DEF s, Dispatched, Shape, TypeOK, Thread
  <2> QED BY <2>1 DEF Own, Connected
<1> QED BY <1>4, <1>5, <1>6, <1>7 DEF Shape

LEMMA ShapeLeftToPool ==
  ASSUME Shape, NEW k \in Socket, LeftToPool(k)
  PROVE  Shape'
<1> DEFINE s == connection[k]
<1>1. /\ Sessions /\ s \in 1 .. opened /\ s \in Session /\ Reserved2[s] = k
      /\ pc[Microstack] = "ready"
      /\ UNCHANGED <<connection, PAUSE, unsent, closing, failed, opened, Reserved2, paused,
                     freed, released>>
      /\ Reserved4' \in [Session -> BOOLEAN] /\ Reserved5' \in [Session -> BOOLEAN]
      /\ Reserved8' \in [Session -> BOOLEAN] /\ idle' \in [Session -> Nat]
      /\ \A r \in Session : r > opened => idle'[r] = 0 /\ ~Reserved5'[r] /\ ~Reserved8'[r]
  BY ShapeReceived DEF LeftToPool
<1>2. /\ AddRef(s) /\ jobs' = jobs + 1
      /\ pc' = [pc EXCEPT ![Microstack] = "check", ![jobs + 1] = "mark"]
      /\ serves' = [serves EXCEPT ![Microstack] = s, ![jobs + 1] = s]
      /\ next' = "ready" /\ counted' = counted \cup {jobs + 1}
      /\ whole' = whole \cup {s} /\ UNCHANGED disturbed
      /\ jobs + 1 \in Job /\ jobs \in Nat
  BY WebServerAssumption DEF LeftToPool, Shape, TypeOK, Job
<1>3. Own'
  <2>1. serves'[Microstack] = s /\ pc'[Microstack] = "check" /\ connection'[Reserved2'[s]] = s
    BY <1>1, <1>2 DEF Shape, TypeOK, Thread, Microstack, Job
  <2> QED BY <2>1 DEF Own, Answering
<1> HIDE DEF s
<1>4. TypeOK'
  BY <1>1, <1>2 DEF AddRef, Shape, TypeOK, Location, Thread, Microstack, Job
<1>5. Sessions'
  BY <1>1, <1>2 DEF AddRef, Shape, Sessions, TypeOK
<1>6. Threads'
  BY <1>1, <1>2 DEF Shape, Threads, TypeOK, Thread, Job, Microstack, Answering, NoSession
<1> QED BY <1>3, <1>4, <1>5, <1>6 DEF Shape

(* What the microstack thread does by itself, between two sessions and at   *)
(* the end of one.                                                          *)
LEMMA ShapeTail ==
  ASSUME Shape, Tail \/ \E k \in Socket : Drains(k)
  PROVE  Shape'
<1> USE DEF Shape, TypeOK, Goes, Thread, sockets, flags, history, places
<1>1. ASSUME Check \/ Pause
      PROVE  Shape'
  <2>1. serves[Microstack] \in 1 .. opened
    BY <1>1 DEF Check, Pause, Threads, At, NoSession
  <2>2. TypeOK'
    BY <1>1 DEF Check, Pause, Location
  <2>3. Sessions'
    BY <1>1 DEF Check, Pause, Sessions
  <2>4. Threads'
    <3>1. /\ UNCHANGED <<serves, counted, jobs, opened>> /\ pc[Microstack] \in {"check", "pause"}
          /\ \E l \in {"pause", "copy"} : pc' = [pc EXCEPT ![Microstack] = l]
      BY <1>1 DEF Check, Pause, At
    <3> QED BY <2>1, <3>1 DEF Threads, Job, Microstack, Answering, NoSession
  <2>5. Own'
    BY <1>1 DEF Check, Pause, Own, Connected, At, Answering
  <2> QED BY <2>2, <2>3, <2>4, <2>5
<1>2. ASSUME Copy
      PROVE  Shape'
  <2>1. serves[Microstack] \in 1 .. opened /\ serves[Microstack] \in Session
    BY <1>2 DEF Copy, Threads, At, NoSession
  <2>2. TypeOK'
    BY <1>2, <2>1 DEF Copy, Location
  <2>3. Sessions'
    BY <1>2 DEF Copy, Sessions
  <2>4. Threads'
    <3>1. /\ UNCHANGED <<counted, jobs, opened>> /\ pc[Microstack] = "copy"
          /\ pc' = [pc EXCEPT ![Microstack] = "ready"]
          /\ serves' = [serves EXCEPT ![Microstack] = NoSession]
      BY <1>2 DEF Copy, At
    <3> QED BY <2>1, <3>1 DEF Threads, Job, Microstack, Answering, NoSession
  <2>5. Own'
    BY <1>2 DEF Copy, Own, At, Answering
  <2> QED BY <2>2, <2>3, <2>4, <2>5
<1>3. ASSUME OnSendOK
      PROVE  Shape'
  <2>1. Microstack \in Thread /\ Microstack \notin counted /\ pc[Microstack] = "sendok"
    BY <1>3 DEF OnSendOK, Threads, At, Answering
  <2>2. /\ Threads' /\ Own' /\ pc' \in [Thread -> Location]
        /\ serves' \in [Thread -> Session \cup {NoSession}]
    <3>1. CASE Reserved4[serves[Microstack]]
      BY <1>3, <2>1, <3>1, AnsweringOn DEF OnSendOK, Answering, Location
    <3>2. CASE ~Reserved4[serves[Microstack]]
      BY <1>3, <2>1, <3>2, GoingOn DEF OnSendOK
    <3> QED BY <3>1, <3>2
  <2>3. TypeOK' /\ Sessions'
    BY <1>3, <2>2 DEF OnSendOK, Sessions
  <2> QED BY <2>2, <2>3
<1>4. ASSUME NEW k \in Socket, Drained(k)
      PROVE  Shape'
  <2>1. connection[k] \in 1 .. opened /\ connection[k] \in Session /\ Reserved2[connection[k]] = k
    BY <1>4 DEF Drained, Sessions, NoSession
  <2>2. TypeOK'
    BY <1>4, <2>1 DEF Drained, Dispatched, Location, Microstack
  <2>3. Sessions'
    BY <1>4 DEF Drained, Sessions
  <2>4. Threads'
    BY <1>4, <2>1 DEF Drained, Dispatched, Ready, At, Threads, Job, Microstack, Answering, NoSession
  <2>5. Own'
    BY <1>4, <2>1 DEF Drained, Dispatched, Own, Connected
  <2> QED BY <2>2, <2>3, <2>4, <2>5
<1>5. ASSUME NEW k \in Socket, DrainFails(k)
      PROVE  Shape'
  BY <1>5 DEF DrainFails, Sessions, Threads, Own, Connected
<1> QED BY <1>1, <1>2, <1>3, <1>4, <1>5 DEF Tail, Drains

LEMMA ShapeStep ==
  ASSUME Shape, Due, [Next]_vars
  PROVE  Shape'
<1>1. ASSUME NEW t \in Thread, Continue(t) \/ SendPart(t)
      PROVE  Shape'
  BY <1>1, ShapeMark, ShapeSend, ShapeAnswer, ShapeLeave, ShapeForget, ShapeFree DEF Continue
<1>2. CASE Tail \/ Idles
  BY <1>2, ShapeTail, ShapeEnds
<1>3. ASSUME NEW k \in Socket,
             Accept(k) \/ Requests(k) \/ Timers(k) \/ Drains(k) \/ PeerCloses(k)
      PROVE  Shape'
  <2>1. CASE Accept(k)
    BY <2>1, ShapeAccept
  <2>2. CASE Requests(k)
    BY <2>2, ShapeRequest, ShapeLeftToPool DEF Requests
  <2>3. CASE Timers(k) \/ PeerCloses(k)
    BY <2>3, ShapeEnds
  <2>4. CASE Drains(k)
    BY <2>4, ShapeTail
  <2> QED BY <1>3, <2>1, <2>2, <2>3, <2>4
<1>4. CASE UNCHANGED vars
  BY <1>4 DEF vars, sockets, flags, places, history, Shape, TypeOK, Sessions, Threads, Own,
              Connected
<1> QED BY <1>1, <1>2, <1>3, <1>4 DEF Next
-----------------------------------------------------------------------------
(* The reference counts *)

(* No timer comes for a session, unless its connection was taken for        *)
(* another's.                                                               *)
Quiet(s) == s \in disturbed \/ idle[s] = 0

(* What ReferencesAccounted rests on: who is freed was first brought to no  *)
(* reference by one thread, which then removed the timers.                  *)
Refs ==
  /\ \A s \in 1 .. opened :
       Reserved12[s] = Cardinality(Holders(s)) + (IF Connected(s) THEN 1 ELSE 0)
  /\ \A s \in 1 .. opened :
       IF Reserved12[s] > 0 THEN Freers(s) = {} /\ s \notin freed
       ELSE IF s \in freed THEN Freers(s) = {} ELSE \E t \in Thread : Freers(s) = {t}
  /\ \A t \in Thread : pc[t] = "free" => Quiet(serves[t])
  /\ \A s \in freed : Quiet(s)

LEMMA OpenedSessions ==
  ASSUME Shape
  PROVE  /\ opened \in Nat /\ \A s \in 1 .. opened : s \in Session
         /\ \A s \in freed : s \in 1 .. opened
BY WebServerAssumption DEF Shape, TypeOK, Sessions, Session

LEMMA HoldersFinite ==
  ASSUME Shape, NEW s
  PROVE  IsFiniteSet(Thread) /\ IsFiniteSet(Holders(s)) /\ Cardinality(Holders(s)) \in Nat
<1>1. IsFiniteSet(0 .. MaxJobs) /\ Thread \subseteq 0 .. MaxJobs
  BY FS_Interval, WebServerAssumption DEF Thread, Job, Microstack
<1>2. Holders(s) \subseteq Thread
  BY DEF Holders, Shape, TypeOK
<1> QED BY <1>1, <1>2, FS_Subset, FS_CardinalityType

LEMMA RefsDue == Shape /\ Refs => Due
<1> SUFFICES ASSUME Shape, Refs PROVE Due
  OBVIOUS
<1>1. \A s : Cardinality(Holders(s)) \in Nat /\ IsFiniteSet(Holders(s))
  BY HoldersFinite
<1>2. ASSUME NEW k \in Socket, connection[k] # NoSession
      PROVE  Reserved12[connection[k]] > 0
  BY <1>1, <1>2 DEF Refs, Shape, Sessions, Connected
<1>3. ASSUME NEW t \in counted
      PROVE  Reserved12[serves[t]] > 0
  <2>1. serves[t] \in 1 .. opened
    BY DEF Shape, TypeOK, Threads, Answering, NoSession, Thread, Job, Microstack
  <2>2. t \in Holders(serves[t])
    BY DEF Holders
  <2>3. Cardinality(Holders(serves[t])) # 0
    BY <1>1, <2>2, FS_EmptySet
  <2> QED BY <1>1, <2>1, <2>3 DEF Refs
<1>4. ASSUME NEW t \in Thread, pc[t] \in {"last", "free"}
      PROVE  Reserved12[serves[t]] = 0
  <2>1. serves[t] \in 1 .. opened /\ serves[t] \in Session
    BY <1>4 DEF Shape, TypeOK, Threads, NoSession, Thread, Job, Microstack
  <2>2. t \in Freers(serves[t])
    BY <1>4 DEF Freers
  <2>3. Reserved12[serves[t]] \in Nat
    BY <2>1 DEF Shape, TypeOK
  <2> QED BY <2>1, <2>2, <2>3 DEF Refs
<1> QED BY <1>2, <1>3, <1>4 DEF Due

(* Holders change one thread at a time.                                     *)
LEMMA OneMore ==
  ASSUME Shape, NEW t \in Thread, t \notin counted, counted' = counted \cup {t},
         NEW s, serves'[t] = s, \A u \in counted : serves'[u] = serves[u]
  PROVE  /\ Cardinality(Holders(s)') = Cardinality(Holders(s)) + 1
         /\ \A r : r # s => Holders(r)' = Holders(r)
<1>1. Holders(s)' = Holders(s) \cup {t} /\ t \notin Holders(s)
  BY DEF Holders
<1>2. \A r : r # s => Holders(r)' = Holders(r)
  BY DEF Holders
<1> QED BY <1>1, <1>2, HoldersFinite, FS_AddElement

LEMMA OneLess ==
  ASSUME Shape, NEW t \in counted, counted' = counted \ {t}, serves' = serves
  PROVE  /\ Cardinality(Holders(serves[t])') = Cardinality(Holders(serves[t])) - 1
         /\ \A r : r # serves[t] => Holders(r)' = Holders(r)
<1>1. Holders(serves[t])' = Holders(serves[t]) \ {t} /\ t \in Holders(serves[t])
  BY DEF Holders
<1>2. \A r : r # serves[t] => Holders(r)' = Holders(r)
  BY DEF Holders
<1> QED BY <1>1, <1>2, HoldersFinite, FS_RemoveElement

(* A step that leaves alone connections, references and who is about to     *)
(* free, and sets a timer only for a session that has references.           *)
LEMMA RefsKept ==
  ASSUME Shape, Refs, UNCHANGED <<connection, Reserved12, opened, freed, counted>>,
         \A t \in counted : serves'[t] = serves[t],
         \A t \in Thread : /\ pc'[t] \in {"last", "free"} <=> pc[t] \in {"last", "free"}
                           /\ pc[t] \in {"last", "free"} => serves'[t] = serves[t]
                           /\ pc'[t] = "free" => pc[t] = "free" \/ idle'[serves[t]] = 0,
         disturbed \subseteq disturbed',
         \A s \in 1 .. opened : Quiet(s) => Quiet(s)' \/ Reserved12[s] > 0
  PROVE  Refs'
<1>1. /\ \A s : Holders(s)' = Holders(s) /\ (Connected(s)' <=> Connected(s))
      /\ \A s : Freers(s)' = Freers(s)
  BY DEF Holders, Connected, Freers
<1>2. ASSUME NEW t \in Thread, pc'[t] = "free"
      PROVE  Quiet(serves[t])'
  <2>1. serves'[t] = serves[t] /\ serves[t] \in 1 .. opened /\ t \in Freers(serves[t])
    BY <1>2 DEF Freers, Shape, Threads, NoSession, Thread, Job, Microstack
  <2>2. ~(Reserved12[serves[t]] > 0)
    BY <2>1 DEF Refs
  <2>3. CASE pc[t] = "free"
    BY <2>1, <2>2, <2>3 DEF Refs, Quiet
  <2>4. CASE idle'[serves[t]] = 0
    BY <2>1, <2>4 DEF Quiet
  <2> QED BY <1>2, <2>3, <2>4
<1>3. ASSUME NEW s \in freed
      PROVE  Quiet(s)'
  <2>1. s \in 1 .. opened
    BY DEF Shape, TypeOK, Sessions, Session
  <2> QED BY <2>1 DEF Refs
<1> QED BY <1>1, <1>2, <1>3 DEF Refs

LEMMA RefsAnswer ==
  ASSUME Shape, Refs, NEW t \in Thread,
         \/ Mark(t) \/ SendPart(t) \/ SendLast(t) \/ RequestAnswered(t)
         \/ CloseOrTime(t) \/ Finish(t) \/ Resume(t)
  PROVE  Refs'
<1> USE DEF sockets, flags, history, At
<1>1. /\ UNCHANGED <<connection, Reserved12, opened, freed, counted, serves>>
      /\ disturbed \subseteq disturbed'
  BY DEF Mark, SendPart, SendLast, Send, RequestAnswered, CloseOrTime, Finish, Resume, Disturbs
<1>2. \E l \in Answering : Goes(t, l) /\ pc[t] \in Answering
  BY DEF Mark, SendPart, SendLast, Send, RequestAnswered, CloseOrTime, Finish, Resume, Answering
<1>3. \A u \in Thread : /\ pc'[u] \in {"last", "free"} <=> pc[u] \in {"last", "free"}
                        /\ pc'[u] = "free" => pc[u] = "free"
  BY <1>2 DEF Goes, Shape, TypeOK, Answering
<1>4. ASSUME NEW s \in 1 .. opened, Quiet(s)
      PROVE  Quiet(s)' \/ Reserved12[s] > 0
  <2>1. CASE CloseOrTime(t) /\ s = serves[t]
    <3>1. CASE t \in counted
      BY <2>1, <3>1, RefsDue DEF Due
    <3>2. CASE t \notin counted
      <4>1. t = Microstack /\ (Connected(s) \/ s \in disturbed)
        BY <2>1, <3>2 DEF CloseOrTime, Shape, Threads, Own, Thread, Answering
      <4>2. CASE s \in disturbed
        BY <1>1, <4>2 DEF Quiet
      <4>3. CASE Connected(s)
        <5>1. PICK k \in Socket : connection[k] = s
          BY <4>3 DEF Connected
        <5>2. connection[k] # NoSession
          BY <5>1 DEF NoSession
        <5> QED BY <5>1, <5>2, RefsDue DEF Due
      <4> QED BY <4>1, <4>2, <4>3
    <3> QED BY <3>1, <3>2
  <2>2. CASE ~(CloseOrTime(t) /\ s = serves[t])
    <3>1. idle'[s] = idle[s]
      BY <2>2, OpenedSessions DEF Mark, SendPart, SendLast, RequestAnswered, CloseOrTime, Finish,
                                  Resume, Shape, TypeOK
    <3> QED BY <1>1, <1>4, <3>1 DEF Quiet
  <2> QED BY <2>1, <2>2
<1> QED BY <1>1, <1>3, <1>4, RefsKept

LEMMA RefsForget ==
  ASSUME Shape, Refs, NEW t \in Thread, Forget(t)
  PROVE  Refs'
<1> USE DEF Forget, history, At
<1>1. t \notin counted
  BY DEF Shape, Threads, Answering
<1>2. \A u \in Thread : /\ pc'[u] \in {"last", "free"} <=> pc[u] \in {"last", "free"}
                        /\ pc[u] \in {"last", "free"} => serves'[u] = serves[u]
                        /\ pc'[u] = "free" => pc[u] = "free" \/ idle'[serves[u]] = 0
  <2>1. CASE pc[t] = "last"
    <3>1. idle'[serves[t]] = 0
      BY DEF Shape, TypeOK, Threads, Thread, Job, Microstack, NoSession, Ending, Answering
    <3> QED BY <2>1, <3>1 DEF Goes, Shape, TypeOK
  <2>2. CASE pc[t] = "forget"
    BY <2>2 DEF Returns, Goes, End, Shape, TypeOK
  <2> QED BY <2>1, <2>2
<1>3. \A u \in counted : serves'[u] = serves[u]
  BY <1>1 DEF Returns, Shape, TypeOK
<1>4. \A s \in 1 .. opened : Quiet(s) => Quiet(s)'
  BY WebServerAssumption DEF Quiet, Shape, TypeOK, Session
<1> QED BY <1>2, <1>3, <1>4, RefsKept DEF sockets

LEMMA RefsTail ==
  ASSUME Shape, Refs, Tail \/ \E k \in Socket : Drains(k)
  PROVE  Refs'
<1> USE DEF Shape, TypeOK, history, flags, sockets, At
<1>1. /\ UNCHANGED <<connection, Reserved12, opened, freed, counted, idle, disturbed>>
      /\ pc[Microstack] \in {"ready", "check", "pause", "copy", "sendok"}
      /\ Microstack \notin counted
      /\ \A t \in Thread : t # Microstack => pc'[t] = pc[t] /\ serves'[t] = serves[t]
      /\ pc'[Microstack] \notin {"last", "free"}
  <2>1. CASE Tail
    BY <2>1 DEF Tail, Check, Pause, Copy, OnSendOK, Returns, End, Goes, Threads, Answering, Thread
  <2>2. CASE \E k \in Socket : Drains(k)
    BY <2>2 DEF Drains, Drained, DrainFails, Dispatched, Goes, Ready, places, Threads,
                Answering, Thread
  <2> QED BY <2>1, <2>2
<1>2. /\ \A t \in counted : serves'[t] = serves[t]
      /\ \A t \in Thread : /\ pc'[t] \in {"last", "free"} <=> pc[t] \in {"last", "free"}
                           /\ pc[t] \in {"last", "free"} => serves'[t] = serves[t]
                           /\ pc'[t] = "free" => pc[t] = "free"
  BY <1>1
<1>3. \A s : Quiet(s) => Quiet(s)'
  BY <1>1 DEF Quiet
<1> HIDE DEF Shape
<1> QED BY <1>1, <1>2, <1>3, RefsKept

LEMMA RefsRequest ==
  ASSUME Shape, Refs, NEW k \in Socket, Requests(k)
  PROVE  Refs'
<1> USE DEF Requests, BodyFollows, Refused, Answered, LeftToPool, Dispatched, Goes
<1>0. Received(connection[k])
  OBVIOUS
<1> PICK s \in Session : s = connection[k]
  BY <1>0, ShapeReceived
<1>1. /\ Received(s) /\ UNCHANGED <<connection, opened, freed, disturbed>>
      /\ s \in 1 .. opened /\ pc[Microstack] = "ready"
  BY <1>0, ShapeReceived
<1>2. \A r \in 1 .. opened : Quiet(r) => Quiet(r)'
  <2>1. \A r \in 1 .. opened : idle'[r] = idle[r] \/ idle'[r] = 0
    BY <1>1, OpenedSessions DEF Received, Shape, TypeOK
  <2> QED BY <1>1, <2>1 DEF Quiet
<1>3. Microstack \notin counted /\ Microstack \in Thread
  BY <1>1 DEF Shape, Threads, Answering, Thread
<1>4. /\ \A t \in counted : serves'[t] = serves[t]
      /\ \A t \in Thread : /\ pc'[t] \in {"last", "free"} <=> pc[t] \in {"last", "free"}
                           /\ pc[t] \in {"last", "free"} => serves'[t] = serves[t]
                           /\ pc'[t] = "free" => pc[t] = "free"
  <2>1. CASE BodyFollows(k) \/ Refused(k) \/ Answered(k)
    <3>1. \A t \in Thread : t # Microstack => pc'[t] = pc[t] /\ serves'[t] = serves[t]
      BY <2>1 DEF Shape, TypeOK
    <3>2. pc'[Microstack] \notin {"last", "free"}
      BY <1>3, <2>1 DEF Shape, TypeOK
    <3> QED BY <1>1, <1>3, <3>1, <3>2 DEF Shape, TypeOK
  <2>2. CASE LeftToPool(k)
    <3>1. jobs + 1 \in Job /\ jobs + 1 \notin counted /\ pc[jobs + 1] = "none"
      BY <2>2, WebServerAssumption DEF Shape, TypeOK, Threads, Answering, Job
    <3>2. \A t \in Thread \ {Microstack, jobs + 1} : pc'[t] = pc[t] /\ serves'[t] = serves[t]
      BY <2>2 DEF Shape, TypeOK
    <3>3. pc'[Microstack] = "check" /\ pc'[jobs + 1] = "mark"
      BY <1>3, <2>2, <3>1 DEF Shape, TypeOK, Thread, Job, Microstack
    <3> QED BY <1>1, <1>3, <3>1, <3>2, <3>3 DEF Shape, TypeOK
  <2> QED BY <2>1, <2>2
<1>5. CASE UNCHANGED <<counted, Reserved12>>
  BY <1>1, <1>2, <1>4, <1>5, RefsKept
<1>6. ASSUME NEW t \in Thread, t \notin counted, counted' = counted \cup {t}, serves'[t] = s,
             AddRef(s)
      PROVE  Refs'
  <2>1. /\ Cardinality(Holders(s)') = Cardinality(Holders(s)) + 1
        /\ \A r : r # s => Holders(r)' = Holders(r)
    BY <1>4, <1>6, OneMore
  <2>2. \A r : Connected(r)' <=> Connected(r)
    BY <1>1 DEF Connected
  <2>3. \A r : Freers(r)' = Freers(r)
    BY <1>4 DEF Freers
  <2>4. Reserved12' = [Reserved12 EXCEPT ![s] = @ + 1] /\ Reserved12 \in [Session -> Nat]
    BY <1>6 DEF AddRef, Shape, TypeOK
  <2>5. Reserved12[s] > 0
    BY <1>1, RefsDue DEF Due, NoSession
  <2>6. \A r \in 1 .. opened : r \in Session /\ Reserved12[r] \in Nat
    BY <2>4, WebServerAssumption DEF Shape, TypeOK, Session
  <2>7. \A r \in 1 .. opened :
          Reserved12'[r] = Cardinality(Holders(r)') + (IF Connected(r)' THEN 1 ELSE 0)
    <3>1. \A r \in 1 .. opened :
            Reserved12[r] = Cardinality(Holders(r)) + (IF Connected(r) THEN 1 ELSE 0)
      BY DEF Refs
    <3>2. \A r \in 1 .. opened : Cardinality(Holders(r)) \in Nat
      BY HoldersFinite
    <3> QED BY <1>1, <2>1, <2>2, <2>4, <2>6, <3>1, <3>2
  <2>8. \A r \in 1 .. opened : Reserved12'[r] > 0 <=> Reserved12[r] > 0
    <3> QED BY <1>1, <2>4, <2>5, <2>6
  <2>9. /\ \A u \in Thread : pc'[u] = "free" => Quiet(serves[u])'
        /\ \A r \in freed : Quiet(r)'
    <3>1. \A u \in Thread : pc'[u] = "free" => pc[u] = "free" /\ serves'[u] = serves[u]
                                              /\ serves[u] \in 1 .. opened
      BY <1>4 DEF Shape, Threads, Thread, Job, Microstack, NoSession
    <3>2. \A r \in freed : r \in 1 .. opened
      BY DEF Shape, TypeOK, Sessions, Session
    <3> QED BY <1>1, <1>2, <3>1, <3>2 DEF Refs, Quiet
  <2> QED BY <1>1, <2>2, <2>3, <2>7, <2>8, <2>9 DEF Refs
<1>7. CASE Answered(k)
  <2>1. serves'[Microstack] = s
    BY <1>3, <1>7 DEF Shape, TypeOK
  <2> QED BY <1>3, <1>5, <1>6, <1>7, <2>1
<1>8. CASE LeftToPool(k)
  <2>1. jobs + 1 \in Job /\ jobs + 1 \notin counted
    BY <1>8, WebServerAssumption DEF Shape, TypeOK, Threads, Answering, Job
  <2>2. serves'[jobs + 1] = s /\ jobs + 1 \in Thread
    BY <1>8, <2>1 DEF Shape, TypeOK, Thread
  <2> QED BY <1>6, <1>8, <2>1, <2>2
<1> QED BY <1>5, <1>7, <1>8

(* A reference is given back, and with the last one the thread becomes the  *)
(* one that frees the session; the thread may come from freeing another.    *)
LEMMA RefsRelease ==
  ASSUME Shape, Refs, NEW t \in Thread, NEW s \in 1 .. opened, Release(t, s), Reserved12[s] > 0,
         opened' = opened, serves' = [serves EXCEPT ![t] = s],
         \/ pc[t] \notin {"last", "free"} /\ freed' = freed
         \/ pc[t] = "free" /\ freed' = freed \cup {serves[t]},
         \A r \in 1 .. opened :
           Cardinality(Holders(r)') + (IF Connected(r)' THEN 1 ELSE 0)
             = Cardinality(Holders(r)) + (IF Connected(r) THEN 1 ELSE 0) - (IF r = s THEN 1 ELSE 0),
         \A r \in 1 .. opened : Quiet(r) => Quiet(r)'
  PROVE  Refs'
<1>1. /\ Reserved12' = [Reserved12 EXCEPT ![s] = @ - 1] /\ Reserved12 \in [Session -> Nat]
      /\ pc' = [pc EXCEPT ![t] = IF Reserved12[s] = 1 THEN "last" ELSE "forget"]
      /\ pc \in [Thread -> Location] /\ serves \in [Thread -> Session \cup {NoSession}]
  BY DEF Release, Goes, Shape, TypeOK
<1>2. \A r \in 1 .. opened : r \in Session /\ Reserved12[r] \in Nat
  BY <1>1, OpenedSessions
<1>3. \A r \in 1 .. opened :
        Reserved12[r] = Cardinality(Holders(r)) + (IF Connected(r) THEN 1 ELSE 0)
  BY DEF Refs
<1>4. \A r \in 1 .. opened :
        Reserved12'[r] = Cardinality(Holders(r)') + (IF Connected(r)' THEN 1 ELSE 0)
  <2>1. \A r \in 1 .. opened : Reserved12'[r] = Reserved12[r] - (IF r = s THEN 1 ELSE 0)
    BY <1>1, <1>2
  <2>2. \A r \in 1 .. opened : Cardinality(Holders(r)) \in Nat
    BY HoldersFinite
  <2> QED BY <1>2, <1>3, <2>1, <2>2
<1>5. pc[t] \in {"last", "free"} => /\ serves[t] \in 1 .. opened /\ serves[t] # s
                                    /\ Freers(serves[t]) = {t}
  <2> SUFFICES ASSUME pc[t] \in {"last", "free"}
               PROVE  serves[t] \in 1 .. opened /\ serves[t] # s /\ Freers(serves[t]) = {t}
    OBVIOUS
  <2>1. serves[t] \in 1 .. opened /\ t \in Freers(serves[t])
    BY DEF Freers, Shape, Threads, NoSession, Thread, Job, Microstack
  <2>2. Freers(s) = {}
    BY DEF Refs
  <2> QED BY <2>1, <2>2 DEF Refs
<1>6. \A r \in 1 .. opened :
        IF Reserved12'[r] > 0 THEN Freers(r)' = {} /\ r \notin freed'
        ELSE IF r \in freed' THEN Freers(r)' = {} ELSE \E u \in Thread : Freers(r)' = {u}
  <2> SUFFICES ASSUME NEW r \in 1 .. opened
               PROVE  IF Reserved12'[r] > 0 THEN Freers(r)' = {} /\ r \notin freed'
                      ELSE IF r \in freed' THEN Freers(r)' = {}
                      ELSE \E u \in Thread : Freers(r)' = {u}
    OBVIOUS
  <2>1. CASE r = s
    <3>1. Freers(r) = {} /\ r \notin freed /\ r \notin freed'
      BY <1>5, <2>1 DEF Refs
    <3>2. Freers(r)' = IF Reserved12[s] = 1 THEN {t} ELSE {}
      BY <1>1, <2>1, <3>1 DEF Freers
    <3>3. Reserved12'[r] > 0 <=> Reserved12[s] # 1
      BY <1>1, <1>2, <2>1
    <3> QED BY <3>1, <3>2, <3>3
  <2>2. CASE r # s
    <3>1. Reserved12'[r] = Reserved12[r] /\ Freers(r)' = Freers(r) \ {t}
      BY <1>1, <1>2, <2>2 DEF Freers
    <3>2. CASE pc[t] \in {"last", "free"} /\ serves[t] = r
      <4>1. Freers(r) = {t} /\ ~(Reserved12[r] > 0) /\ r \in freed'
        BY <1>5, <3>2 DEF Refs
      <4> QED BY <3>1, <4>1
    <3>3. CASE ~(pc[t] \in {"last", "free"} /\ serves[t] = r)
      <4>1. Freers(r)' = Freers(r) /\ (r \in freed' <=> r \in freed)
        BY <3>1, <3>3 DEF Freers
      <4> QED BY <3>1, <4>1 DEF Refs
    <3> QED BY <3>2, <3>3
  <2> QED BY <2>1, <2>2
<1>7. \A u \in Thread : pc'[u] = "free" => Quiet(serves[u])'
  <2> SUFFICES ASSUME NEW u \in Thread, pc'[u] = "free" PROVE Quiet(serves[u])'
    OBVIOUS
  <2>1. u # t /\ serves'[u] = serves[u] /\ pc[u] = "free" /\ serves[u] \in 1 .. opened
    BY <1>1 DEF Shape, Threads, NoSession, Thread, Job, Microstack
  <2> QED BY <2>1 DEF Refs, Quiet
<1>8. \A r \in freed' : Quiet(r)'
  <2>1. \A r \in freed : r \in 1 .. opened /\ Quiet(r)
    BY OpenedSessions DEF Refs
  <2>2. pc[t] = "free" => Quiet(serves[t])
    BY DEF Refs
  <2> QED BY <1>5, <2>1, <2>2
<1> QED BY <1>4, <1>6, <1>7, <1>8 DEF Refs

LEMMA RefsLeave ==
  ASSUME Shape, Refs, NEW t \in Thread, Leave(t)
  PROVE  Refs'
<1>1. /\ UNCHANGED <<connection, opened, freed, idle, disturbed>> /\ pc[t] = "leave"
      /\ serves[t] \in 1 .. opened
  BY DEF Leave, sockets, At, Shape, Threads, NoSession, Thread, Job, Microstack, Answering
<1>2. CASE t \in counted
  <2>1. /\ counted' = counted \ {t} /\ Release(t, serves[t]) /\ serves' = serves
        /\ serves' = [serves EXCEPT ![t] = serves[t]] /\ Reserved12[serves[t]] > 0
    BY <1>2, RefsDue DEF Leave, Due, Shape, TypeOK
  <2>2. /\ Cardinality(Holders(serves[t])') = Cardinality(Holders(serves[t])) - 1
        /\ \A r : r # serves[t] => Holders(r)' = Holders(r)
    BY <1>2, <2>1, OneLess
  <2>3. \A r : (Connected(r)' <=> Connected(r)) /\ (Quiet(r) => Quiet(r)')
    BY <1>1 DEF Connected, Quiet
  <2>4. \A r \in 1 .. opened : Cardinality(Holders(r)) \in Nat
    BY HoldersFinite
  <2> PICK s \in 1 .. opened : s = serves[t]
    BY <1>1
  <2>5. \A r \in 1 .. opened :
          Cardinality(Holders(r)') + (IF Connected(r)' THEN 1 ELSE 0)
            = Cardinality(Holders(r)) + (IF Connected(r) THEN 1 ELSE 0) - (IF r = s THEN 1 ELSE 0)
    <3>1. Cardinality(Holders(s)') = Cardinality(Holders(s)) - 1
      <4>1. Holders(serves[t])' = Holders(s)'
        BY <2>1 DEF Holders
      <4> QED BY <2>2, <4>1
    <3> QED BY <2>2, <2>3, <2>4, <3>1
  <2> QED BY <1>1, <2>1, <2>3, <2>5, RefsRelease
<1>3. CASE t \notin counted
  <2>1. Returns(t) /\ UNCHANGED <<counted, Reserved12>>
    BY <1>3 DEF Leave
  <2>2. /\ \A u \in counted : serves'[u] = serves[u]
        /\ \A u \in Thread : /\ pc'[u] \in {"last", "free"} <=> pc[u] \in {"last", "free"}
                             /\ pc[u] \in {"last", "free"} => serves'[u] = serves[u]
                             /\ pc'[u] = "free" => pc[u] = "free"
    BY <1>1, <1>3, <2>1 DEF Returns, Goes, End, Shape, TypeOK
  <2>3. \A r : Quiet(r) => Quiet(r)'
    BY <1>1 DEF Quiet
  <2> QED BY <1>1, <2>1, <2>2, <2>3, RefsKept
<1> QED BY <1>2, <1>3

(* The connection of a socket ends.                                         *)
LEMMA RefsDisconnect ==
  ASSUME Shape, Refs, NEW t \in Thread, t \notin counted, NEW k \in Socket,
         NEW idles, Disconnect(t, k, idles), connection[k] # NoSession,
         \A r \in Session : idle[r] = 0 => idles[r] = 0, idles \in [Session -> Nat],
         UNCHANGED <<opened, counted>>, disturbed \subseteq disturbed',
         \/ pc[t] \notin {"last", "free"} /\ freed' = freed
         \/ pc[t] = "free" /\ freed' = freed \cup {serves[t]}
  PROVE  Refs'
<1> PICK s \in 1 .. opened : s = connection[k]
  BY DEF Shape, Sessions
<1>1. /\ connection' = [connection EXCEPT ![k] = NoSession] /\ Release(t, s)
      /\ serves' = [serves EXCEPT ![t] = s] /\ Reserved12[s] > 0
      /\ idle' = idles \/ idle' = [idles EXCEPT ![s] = 0]
  BY RefsDue DEF Disconnect, Due
<1>2. \A r \in 1 .. opened : Connected(r)' <=> Connected(r) /\ r # s
  BY <1>1 DEF Connected, Shape, TypeOK, Sessions, NoSession
<1>3. \A r : Holders(r)' = Holders(r)
  BY <1>1 DEF Holders, Shape, TypeOK
<1>4. \A r \in 1 .. opened : Quiet(r) => Quiet(r)'
  BY <1>1, OpenedSessions DEF Quiet
<1>5. Connected(s)
  BY DEF Connected
<1>6. \A r \in 1 .. opened : Cardinality(Holders(r)) \in Nat
  BY HoldersFinite
<1>7. \A r \in 1 .. opened :
        Cardinality(Holders(r)') + (IF Connected(r)' THEN 1 ELSE 0)
          = Cardinality(Holders(r)) + (IF Connected(r) THEN 1 ELSE 0) - (IF r = s THEN 1 ELSE 0)
  BY <1>2, <1>3, <1>5, <1>6
<1> QED BY <1>1, <1>4, <1>7, RefsRelease

LEMMA RefsFree ==
  ASSUME Shape, Refs, NEW t \in Thread, Free(t)
  PROVE  Refs'
<1>1. /\ serves[t] \in 1 .. opened /\ Mine(t) \in Socket /\ pc[t] = "free" /\ t \notin counted
      /\ UNCHANGED <<opened, counted>> /\ freed' = freed \cup {serves[t]}
      /\ disturbed \subseteq disturbed'
  BY DEF Free, Disturbs, Shape, TypeOK, Threads, Sessions, At, Mine, NoSession, Thread, Job,
         Microstack, Answering
<1>2. Freers(serves[t]) = {t} /\ ~(Reserved12[serves[t]] > 0)
  <2>1. t \in Freers(serves[t])
    BY <1>1 DEF Freers
  <2> QED BY <1>1, <2>1 DEF Refs
<1>3. CASE ~IsFree(Mine(t)) /\ Disconnect(t, Mine(t), idle)
  <2> DEFINE k == Mine(t)
  <2>1. k \in Socket /\ connection[k] # NoSession /\ Disconnect(t, k, idle)
    BY <1>1, <1>3 DEF IsFree
  <2>2. idle \in [Session -> Nat]
    BY DEF Shape, TypeOK
  <2> HIDE DEF k
  <2> QED BY <1>1, <2>1, <2>2, RefsDisconnect
<1>4. CASE Returns(t) /\ UNCHANGED <<connection, idle, Reserved12>>
  <2>1. /\ pc'[t] \notin {"last", "free"} /\ \A u \in Thread \ {t} : pc'[u] = pc[u]
        /\ \A u \in Thread \ {t} : serves'[u] = serves[u]
    BY <1>4 DEF Returns, Goes, End, Shape, TypeOK
  <2>2. \A r : (Connected(r)' <=> Connected(r)) /\ (Quiet(r) => Quiet(r)') /\ Holders(r)' = Holders(r)
    BY <1>1, <1>4, <2>1 DEF Connected, Quiet, Holders, Shape, TypeOK
  <2>3. /\ \A r : r # serves[t] => Freers(r)' = Freers(r)
        /\ \A r : r = serves[t] => Freers(r)' = {}
    BY <1>2, <2>1 DEF Freers
  <2>4. \A u \in Thread : pc'[u] = "free" => Quiet(serves[u])'
    BY <1>1, <1>4, <2>1 DEF Refs, Quiet
  <2>5. Quiet(serves[t])
    BY <1>1 DEF Refs
  <2>6. \A r \in 1 .. opened :
          IF Reserved12'[r] > 0 THEN Freers(r)' = {} /\ r \notin freed'
          ELSE IF r \in freed' THEN Freers(r)' = {} ELSE \E u \in Thread : Freers(r)' = {u}
    <3> SUFFICES ASSUME NEW r \in 1 .. opened
                 PROVE  IF Reserved12'[r] > 0 THEN Freers(r)' = {} /\ r \notin freed'
                        ELSE IF r \in freed' THEN Freers(r)' = {}
                        ELSE \E u \in Thread : Freers(r)' = {u}
      OBVIOUS
    <3>1. CASE r = serves[t]
      BY <1>1, <1>2, <1>4, <2>3, <3>1
    <3>2. CASE r # serves[t]
      BY <1>1, <1>4, <2>3, <3>2 DEF Refs
    <3> QED BY <3>1, <3>2
  <2>7. \A r \in freed' : Quiet(r)'
    BY <1>1, <2>2, <2>5 DEF Refs
  <2> QED BY <1>1, <1>4, <2>2, <2>4, <2>6, <2>7 DEF Refs
<1> QED BY <1>3, <1>4 DEF Free

LEMMA RefsEnds ==
  ASSUME Shape, Refs, Idles \/ \E k \in Socket : Timers(k) \/ PeerCloses(k)
  PROVE  Refs'
<1>1. ASSUME NEW k \in Socket, NEW idles \in [Session -> Nat], NEW closings,
             Drops(k, idles, closings), \A r \in Session : idle[r] = 0 => idles[r] = 0
      PROVE  Refs'
  <2>1. /\ UNCHANGED <<opened, counted, freed, disturbed>> /\ pc[Microstack] = "ready"
        /\ Microstack \in Thread /\ Microstack \notin counted
    BY <1>1 DEF Drops, Ready, At, history, Thread, Shape, Threads, Answering
  <2>2. CASE ~IsFree(k) /\ Disconnect(Microstack, k, idles)
    <3>1. connection[k] # NoSession
      BY <2>2 DEF IsFree
    <3> QED BY <1>1, <2>1, <2>2, <3>1, RefsDisconnect
  <2>3. CASE idle' = idles /\ UNCHANGED <<connection, Reserved12, pc, serves>>
    <3>1. \A r \in 1 .. opened : Quiet(r) => Quiet(r)'
      BY <1>1, <2>1, <2>3, OpenedSessions DEF Quiet
    <3> QED BY <2>1, <2>3, <3>1, RefsKept
  <2> QED BY <1>1, <2>2, <2>3 DEF Drops
<1>2. idle \in [Session -> Nat]
  BY DEF Shape, TypeOK
<1>3. ASSUME NEW s \in Session, IdleSink(s)
      PROVE  Refs'
  <2>1. s \in 1 .. opened /\ Reserved2[s] \in Socket
    BY <1>3 DEF IdleSink, Shape, TypeOK, Sessions, Session
  <2> DEFINE idles == [idle EXCEPT ![s] = @ - 1]
  <2>2. idles \in [Session -> Nat] /\ \A r \in Session : idle[r] = 0 => idles[r] = 0
    BY <1>2, <1>3 DEF IdleSink
  <2>3. Drops(Reserved2[s], idles, closing)
    BY <1>3 DEF IdleSink
  <2> HIDE DEF idles
  <2> QED BY <1>1, <2>1, <2>2, <2>3
<1>4. ASSUME NEW k \in Socket, Timers(k) \/ PeerCloses(k)
      PROVE  Refs'
  BY <1>1, <1>2, <1>4 DEF Timers, CloseTimer, FailTimer, PeerCloses
<1> QED BY <1>3, <1>4 DEF Idles

LEMMA RefsAccept ==
  ASSUME Shape, Refs, NEW k \in Socket, Accept(k)
  PROVE  Refs'
<1> PICK n \in Session : n = opened + 1
  BY WebServerAssumption DEF Accept, Shape, TypeOK, Session
<1>1. /\ opened' = n /\ connection' = [connection EXCEPT ![k] = n] /\ connection[k] = NoSession
      /\ Reserved12' = [Reserved12 EXCEPT ![n] = 1] /\ idle' = [idle EXCEPT ![n] = 1]
      /\ UNCHANGED <<freed, pc, serves, counted, disturbed>>
  BY DEF Accept, IsFree, places, history
<1>2. \A s : Holders(s)' = Holders(s) /\ Freers(s)' = Freers(s)
  BY <1>1 DEF Holders, Freers
<1>3. Holders(n) = {} /\ Freers(n) = {} /\ n \notin freed
  BY OpenedSessions DEF Holders, Freers, Shape, TypeOK, Threads
<1>4. \A s \in 1 .. n : s = n \/ s \in 1 .. opened
  BY OpenedSessions
<1>5. /\ \A s \in 1 .. opened : (Connected(s)' <=> Connected(s)) /\ Reserved12'[s] = Reserved12[s]
                                 /\ (Quiet(s)' <=> Quiet(s)) /\ s # NoSession
      /\ Connected(n)' /\ Reserved12'[n] = 1
  BY <1>1, OpenedSessions DEF Connected, Quiet, Shape, TypeOK, NoSession
<1>6. Cardinality(Holders(n)) = 0
  BY <1>3, FS_EmptySet
<1>7. \A s \in 1 .. n :
        Reserved12'[s] = Cardinality(Holders(s)') + (IF Connected(s)' THEN 1 ELSE 0)
  BY <1>2, <1>4, <1>5, <1>6 DEF Refs
<1>8. \A s \in 1 .. n :
        IF Reserved12'[s] > 0 THEN Freers(s)' = {} /\ s \notin freed'
        ELSE IF s \in freed' THEN Freers(s)' = {} ELSE \E t \in Thread : Freers(s)' = {t}
  BY <1>1, <1>2, <1>3, <1>4, <1>5 DEF Refs
<1>9. \A t \in Thread : pc'[t] = "free" => Quiet(serves[t])'
  <2> SUFFICES ASSUME NEW t \in Thread, pc'[t] = "free" PROVE Quiet(serves[t])'
    OBVIOUS
  <2>1. serves'[t] = serves[t] /\ pc[t] = "free" /\ serves[t] \in 1 .. opened
    BY <1>1 DEF Shape, Threads, NoSession, Thread, Job, Microstack
  <2> QED BY <1>1, <1>3, <2>1, OpenedSessions DEF Refs, Quiet, Shape, TypeOK
<1>10. \A s \in freed' : Quiet(s)'
  BY <1>1, <1>5, OpenedSessions DEF Refs
<1> QED BY <1>1, <1>7, <1>8, <1>9, <1>10 DEF Refs

LEMMA RefsStep ==
  ASSUME Shape, Refs, [Next]_vars
  PROVE  Refs'
<1>1. ASSUME NEW t \in Thread, Continue(t) \/ SendPart(t)
      PROVE  Refs'
  BY <1>1, RefsAnswer, RefsLeave, RefsForget, RefsFree DEF Continue
<1>2. CASE Tail \/ Idles
  BY <1>2, RefsTail, RefsEnds
<1>3. ASSUME NEW k \in Socket,
             Accept(k) \/ Requests(k) \/ Timers(k) \/ Drains(k) \/ PeerCloses(k)
      PROVE  Refs'
  BY <1>3, RefsAccept, RefsRequest, RefsEnds, RefsTail
<1>4. CASE UNCHANGED vars
  <2>1. \A s : Quiet(s) => Quiet(s)'
    BY <1>4 DEF vars, history, Quiet
  <2> QED BY <1>4, <2>1, RefsKept DEF vars, sockets, places, history
<1> QED BY <1>1, <1>2, <1>3, <1>4 DEF Next

LEMMA RefsInit == Init => Refs
BY DEF Init, Refs, Freers, Thread, Job, Microstack

(* What the server rests on, always.                                        *)
THEOREM Invariance == Spec => [](Shape /\ Refs)
<1>1. Init => Shape /\ Refs
  BY ShapeInit, RefsInit
<1>2. Shape /\ Refs /\ [Next]_vars => Shape' /\ Refs'
  BY RefsDue, ShapeStep, RefsStep
<1> QED BY <1>1, <1>2, PTL DEF Spec

(* The state of the server always has the shape the C code declares; above  *)
(* all, no count of references falls below zero.                            *)
THEOREM TypeCorrect == Spec => []TypeOK
BY Invariance, PTL DEF Shape

(* References add up, whoever took them on whatever thread, and the last    *)
(* one that is given back frees the session once (ILibWebServer_AddRef,     *)
(* ILibWebServer_Release).                                                  *)
THEOREM ReferencesAreAccounted == Spec => []ReferencesAccounted
<1>1. Shape /\ Refs => ReferencesAccounted
  <2> SUFFICES ASSUME Shape, Refs PROVE ReferencesAccounted
    OBVIOUS
  <2>1. ASSUME NEW s \in 1 .. opened, Reserved12[s] = 0, s \notin freed
        PROVE  Cardinality(Freers(s)) = 1
    <3>1. \E t \in Thread : Freers(s) = {t}
      BY <2>1 DEF Refs
    <3> QED BY <3>1, FS_Singleton
  <2>2. ASSUME NEW s \in freed
        PROVE  Reserved12[s] = 0 /\ Freers(s) = {} /\ (s \in disturbed \/ idle[s] = 0)
    <3>1. s \in 1 .. opened /\ Reserved12[s] \in Nat
      BY OpenedSessions DEF Shape, TypeOK
    <3> QED BY <3>1 DEF Refs, Quiet
  <2> QED BY <2>1, <2>2 DEF ReferencesAccounted, Refs
<1> QED BY <1>1, Invariance, PTL
-----------------------------------------------------------------------------
(* Who works on a session finds it there *)

(* The microstack thread is in the middle of a session.  While it is, none  *)
(* but a thread of the pool ends the connection of that session.            *)
Held ==
  \/ pc[Microstack] \in Answering \cup {"sendok", "check", "pause", "copy"}
  \/ pc[Microstack] \in Ending /\ next # "ready"

Lives == Held => Connected(serves[Microstack]) \/ serves[Microstack] \in disturbed

LEMMA LivesInit == Init => Lives
BY DEF Init, Lives, Held, Answering, Ending, Thread, Microstack

(* A step that leaves the microstack thread on its session, or lets go.     *)
LEMMA LivesKept ==
  ASSUME Lives, Held' => Held /\ serves'[Microstack] = serves[Microstack],
         connection' = connection, disturbed \subseteq disturbed'
  PROVE  Lives'
BY DEF Lives, Connected

LEMMA LivesContinue ==
  ASSUME Shape, Due, Lives, NEW t \in Thread, Continue(t) \/ SendPart(t)
  PROVE  Lives'
<1> USE DEF Goes, At, sockets, flags, places, history, Shape, TypeOK
<1>0. Microstack \in Thread
  BY DEF Thread
<1>1. ASSUME \/ Mark(t) \/ SendPart(t) \/ SendLast(t) \/ RequestAnswered(t)
             \/ CloseOrTime(t) \/ Finish(t) \/ Resume(t)
      PROVE  Lives'
  <2>1. UNCHANGED <<connection, serves, next>> /\ disturbed \subseteq disturbed'
    BY <1>1 DEF Mark, SendPart, SendLast, Send, RequestAnswered, CloseOrTime, Finish, Resume,
                Disturbs
  <2>2. pc[t] \in Answering /\ \E l \in Answering : pc' = [pc EXCEPT ![t] = l]
    BY <1>1 DEF Mark, SendPart, SendLast, Send, RequestAnswered, CloseOrTime, Finish, Resume,
                Answering
  <2>3. Held' => Held
    BY <1>0, <2>1, <2>2 DEF Held
  <2> QED BY <2>1, <2>3, LivesKept
<1>2. ASSUME Leave(t) \/ Forget(t)
      PROVE  Lives'
  <2>1. UNCHANGED <<connection, next, disturbed>>
    BY <1>2 DEF Leave, Forget
  <2>2. CASE t = Microstack
    <3>1. \/ Returns(t)
          \/ pc' = [pc EXCEPT ![t] = "last"] /\ serves' = serves
          \/ pc' = [pc EXCEPT ![t] = "forget"] /\ serves' = serves
          \/ pc' = [pc EXCEPT ![t] = "free"] /\ serves' = serves
      BY <1>2 DEF Leave, Forget, Release
    <3>2. pc[t] \in {"leave", "forget", "last"}
      BY <1>2 DEF Leave, Forget
    <3>3. Held' => next # "ready" /\ serves'[t] = serves[t]
      BY <1>0, <2>1, <2>2, <3>1 DEF Held, Returns, End, Answering, Ending
    <3> QED BY <2>1, <2>2, <3>2, <3>3, LivesKept DEF Held, Answering, Ending
  <2>3. CASE t # Microstack
    <3>1. pc'[Microstack] = pc[Microstack] /\ serves'[Microstack] = serves[Microstack]
      <4>1. \E l : pc' = [pc EXCEPT ![t] = l]
        BY <1>2 DEF Leave, Forget, Release, Returns
      <4>2. serves' = serves \/ serves' = [serves EXCEPT ![t] = NoSession]
        BY <1>2 DEF Leave, Forget, Returns
      <4> QED BY <1>0, <2>3, <4>1, <4>2
    <3> QED BY <2>1, <3>1, LivesKept DEF Held
  <2> QED BY <2>2, <2>3
<1>3. ASSUME Free(t)
      PROVE  Lives'
  <2>1. /\ serves[t] \in 1 .. opened /\ Reserved12[serves[t]] = 0 /\ Mine(t) \in Socket
        /\ next' = next /\ disturbed \subseteq disturbed' /\ pc[t] = "free"
    BY <1>3 DEF Free, Disturbs, Threads, Sessions, Due, Mine, NoSession, Job, Microstack, Thread,
                Answering
  <2>2. ASSUME Returns(t), connection' = connection
        PROVE  Lives'
    <3>1. Held' => Held /\ serves'[Microstack] = serves[Microstack]
      <4>1. CASE t = Microstack
        BY <1>0, <2>1, <2>2, <4>1 DEF Returns, End, Held, Answering, Ending
      <4>2. CASE t # Microstack
        BY <2>1, <2>2, <4>2 DEF Returns, Held
      <4> QED BY <4>1, <4>2
    <3> QED BY <2>1, <2>2, <3>1, LivesKept
  <2>3. ASSUME ~IsFree(Mine(t)), Disconnect(t, Mine(t), idle)
        PROVE  Lives'
    <3>1. connection[Mine(t)] # serves[t] /\ connection[Mine(t)] # NoSession
      BY <2>1, <2>3 DEF Due, IsFree
    <3>2. t # Microstack
      BY <2>1, <3>1 DEF Own, Mine, NoSession
    <3>3. connection[Mine(t)] \in disturbed'
      BY <1>3, <3>1, <3>2 DEF Free, Disturbs
    <3>4. /\ pc'[Microstack] = pc[Microstack] /\ serves'[Microstack] = serves[Microstack]
          /\ connection' = [connection EXCEPT ![Mine(t)] = NoSession]
      BY <2>3, <3>2 DEF Disconnect, Release
    <3>5. Held' => Held
      BY <2>1, <3>4 DEF Held
    <3>6. ASSUME Connected(serves[Microstack])
          PROVE  Connected(serves[Microstack])' \/ serves'[Microstack] \in disturbed'
      <4>1. PICK k \in Socket : connection[k] = serves[Microstack]
        BY <3>6 DEF Connected
      <4> QED BY <3>3, <3>4, <4>1 DEF Connected
    <3> QED BY <2>1, <3>4, <3>5, <3>6 DEF Lives
  <2> QED BY <1>3, <2>2, <2>3 DEF Free
<1> QED BY <1>1, <1>2, <1>3 DEF Continue

LEMMA LivesTail ==
  ASSUME Shape, Lives, Tail \/ \E k \in Socket : Drains(k)
  PROVE  Lives'
<1> USE DEF Goes, At, sockets, flags, places, history, Shape, TypeOK
<1>0. Microstack \in Thread
  BY DEF Thread
<1>1. CASE Tail
  <2>1. UNCHANGED <<connection, disturbed>> /\ Held
    BY <1>1 DEF Tail, Check, Pause, Copy, OnSendOK, Held
  <2>2. Held' => serves'[Microstack] = serves[Microstack]
    BY <1>0, <1>1 DEF Tail, Check, Pause, Copy, OnSendOK, Held, Answering, Ending, Returns, End
  <2> QED BY <2>1, <2>2, LivesKept
<1>2. ASSUME NEW k \in Socket, Drained(k)
      PROVE  Lives'
  <2>1. serves'[Microstack] = connection[k] /\ connection' = connection
    BY <1>0, <1>2 DEF Drained, Dispatched
  <2> QED BY <2>1 DEF Lives, Connected
<1>3. ASSUME NEW k \in Socket, DrainFails(k)
      PROVE  Lives'
  BY <1>3, LivesKept DEF DrainFails, Held
<1> QED BY <1>1, <1>2, <1>3 DEF Drains

(* The microstack thread ends a connection when it is in no session, and    *)
(* begins with one that is connected.                                       *)
LEMMA LivesReady ==
  ASSUME Shape, Lives,
         Idles \/ \E k \in Socket : Timers(k) \/ PeerCloses(k) \/ Accept(k) \/ Requests(k)
  PROVE  Lives'
<1> USE DEF Goes, At, sockets, flags, places, history, Shape, TypeOK
<1>0. Microstack \in Thread
  BY DEF Thread
<1>1. ASSUME NEW k, NEW idles, NEW closings, Drops(k, idles, closings)
      PROVE  Lives'
  <2>1. next' = "ready" /\ pc'[Microstack] \in {"ready", "last", "forget"}
    BY <1>0, <1>1 DEF Drops, Disconnect, Release, Ready
  <2> QED BY <2>1 DEF Lives, Held, Answering, Ending
<1>2. CASE Idles \/ \E k \in Socket : Timers(k) \/ PeerCloses(k)
  BY <1>1, <1>2 DEF Idles, IdleSink, Timers, CloseTimer, FailTimer, PeerCloses
<1>3. ASSUME NEW k \in Socket, Accept(k)
      PROVE  Lives'
  <2>1. pc'[Microstack] = "ready"
    BY <1>3 DEF Accept, Ready
  <2> QED BY <2>1 DEF Lives, Held, Answering, Ending
<1>4. ASSUME NEW k \in Socket, Requests(k)
      PROVE  Lives'
  <2>1. connection' = connection
    BY <1>4 DEF Requests, BodyFollows, Refused, Answered, LeftToPool, Received
  <2>2. serves'[Microstack] = connection[k]
    <3>1. CASE BodyFollows(k) \/ Refused(k) \/ Answered(k)
      BY <1>0, <3>1 DEF BodyFollows, Refused, Answered, Dispatched
    <3>2. CASE LeftToPool(k)
      <4>1. jobs + 1 # Microstack
        BY DEF Microstack
      <4> QED BY <1>0, <3>2, <4>1 DEF LeftToPool
    <3> QED BY <1>4, <3>1, <3>2 DEF Requests
  <2> QED BY <2>1, <2>2 DEF Lives, Connected
<1> QED BY <1>2, <1>3, <1>4

LEMMA LivesStep ==
  ASSUME Shape, Due, Lives, [Next]_vars
  PROVE  Lives'
<1>1. ASSUME NEW t \in Thread, Continue(t) \/ SendPart(t)
      PROVE  Lives'
  BY <1>1, LivesContinue
<1>2. CASE Tail \/ Idles
  BY <1>2, LivesTail, LivesReady
<1>3. ASSUME NEW k \in Socket,
             Accept(k) \/ Requests(k) \/ Timers(k) \/ Drains(k) \/ PeerCloses(k)
      PROVE  Lives'
  BY <1>3, LivesTail, LivesReady
<1>4. CASE UNCHANGED vars
  BY <1>4 DEF vars, sockets, places, history, Lives, Held, Connected
<1> QED BY <1>1, <1>2, <1>3, <1>4 DEF Next

(* A freed session has no reference, so neither connection nor handler.     *)
LEMMA FreedIsLoose ==
  ASSUME Shape, Refs, NEW s \in freed
  PROVE  ~Connected(s) /\ Holders(s) = {} /\ Freers(s) = {}
<1>1. s \in 1 .. opened /\ Reserved12[s] = 0
  BY OpenedSessions DEF Refs, Shape, TypeOK
<1>2. 0 = Cardinality(Holders(s)) + (IF Connected(s) THEN 1 ELSE 0)
  BY <1>1 DEF Refs
<1>3. IsFiniteSet(Holders(s)) /\ Cardinality(Holders(s)) \in Nat
  BY HoldersFinite
<1>4. Cardinality(Holders(s)) = 0 /\ ~Connected(s)
  BY <1>2, <1>3
<1> QED BY <1>1, <1>3, <1>4, FS_EmptySet DEF Refs

(* No session is freed under a thread that works on it: a handler in the    *)
(* pool has its reference (ILibWebServer_AddRef), and the microstack thread *)
(* ends no connection in the middle of a session.  Only what Release does   *)
(* after it has given the reference back comes too late.                    *)
THEOREM SessionsOutliveTheirUse == Spec => []SessionsOutliveUse
<1>1. Shape /\ Refs /\ Lives => SessionsOutliveUse
  <2> SUFFICES ASSUME Shape, Refs, Lives, NEW t \in Thread, serves[t] \in freed \ disturbed
               PROVE  pc[t] \in {"forget", "done"}
    BY DEF SessionsOutliveUse
  <2>1. /\ ~Connected(serves[t]) /\ t \notin counted /\ pc[t] \notin {"last", "free"}
        /\ serves[t] # NoSession
    BY FreedIsLoose, OpenedSessions DEF Holders, Freers, NoSession
  <2>2. CASE t \in Job
    BY <2>1, <2>2 DEF Shape, Threads, Ending
  <2>3. CASE t = Microstack
    BY <2>1, <2>3 DEF Shape, Threads, Lives, Held, Ending
  <2> QED BY <2>2, <2>3 DEF Thread
<1>2. Shape /\ Refs /\ Lives /\ [Next]_vars => Lives'
  BY RefsDue, LivesStep
<1> QED BY <1>1, <1>2, LivesInit, Invariance, PTL DEF Spec
-----------------------------------------------------------------------------
(* Requests in turn *)

(* A request that RequestAnswered has run for is answered.                  *)
AnsweredOnce ==
  /\ \A s \in Session : Reserved8[s] => ~Reserved5[s]
  /\ pc[Microstack] \in {"timer", "finish", "resume"} => ~Reserved5[serves[Microstack]]

(* A connection with an unanswered request is paused, or the microstack     *)
(* thread is between the handler and the pause.                             *)
Pausing(s) ==
  IF serves[Microstack] = s /\ pc[Microstack] = "copy" THEN paused[s] = 1
  ELSE \/ PAUSE[Reserved2[s]] = 1
       \/ /\ serves[Microstack] = s
          /\ \/ pc[Microstack] \in Answering \cup Ending /\ next = "check"
             \/ pc[Microstack] \in {"check", "pause"}

(* Only a request the server refused by itself skips the check.             *)
Skips == next = "copy" => serves[Microstack] \notin whole \/ ~Connected(serves[Microstack])

Turns == \A s \in whole \ (Pooled \cup disturbed) : Connected(s) /\ Reserved5[s] => Pausing(s)

Turn == AnsweredOnce /\ Skips /\ Turns

LEMMA TurnInit == Init => Turn
BY DEF Init, Turn, Turns, AnsweredOnce, Skips, Microstack, Thread

LEMMA AnsweredOnceStep ==
  ASSUME Shape, AnsweredOnce, [Next]_vars
  PROVE  AnsweredOnce'
<1> USE DEF AnsweredOnce, Goes, At, sockets, flags, places, history, Shape, TypeOK
<1>1. ASSUME NEW t \in Thread, RequestAnswered(t)
      PROVE  AnsweredOnce'
  <2>1. serves[t] \in Session
    BY <1>1 DEF RequestAnswered, Threads, Thread, Job, Microstack, NoSession, Answering
  <2>2. CASE Reserved8[serves[t]]
    BY <1>1, <2>1, <2>2 DEF RequestAnswered, Microstack, Thread
  <2>3. CASE ~Reserved8[serves[t]]
    <3>1. /\ Reserved8' = [Reserved8 EXCEPT ![serves[t]] = TRUE]
          /\ Reserved5' = [Reserved5 EXCEPT ![serves[t]] = FALSE] /\ serves' = serves
          /\ pc' = [pc EXCEPT ![t] = "timer"]
      BY <1>1, <2>3 DEF RequestAnswered
    <3>2. \A s \in Session : Reserved8'[s] => ~Reserved5'[s]
      BY <2>1, <3>1
    <3>3. ASSUME pc'[Microstack] \in {"timer", "finish", "resume"}
          PROVE  ~Reserved5'[serves[Microstack]]
      <4>1. CASE t = Microstack
        BY <2>1, <3>1, <4>1
      <4>2. CASE t # Microstack
        <5>1. pc'[Microstack] = pc[Microstack] /\ serves[Microstack] \in Session
          BY <3>1, <3>3, <4>2 DEF Threads, NoSession, Thread, Microstack
        <5> QED BY <3>1, <3>3, <5>1
      <4> QED BY <4>1, <4>2
    <3> QED BY <3>1, <3>2, <3>3
  <2> QED BY <2>2, <2>3
<1>2. ASSUME NEW t \in Thread,
             Mark(t) \/ SendPart(t) \/ SendLast(t) \/ CloseOrTime(t) \/ Finish(t) \/ Resume(t)
      PROVE  AnsweredOnce'
  BY <1>2 DEF Mark, SendPart, SendLast, Send, CloseOrTime, Finish, Resume, Microstack, Thread
<1>3. ASSUME NEW t \in Thread, Leave(t) \/ Forget(t) \/ Free(t)
      PROVE  AnsweredOnce'
  <2>1. UNCHANGED <<Reserved5, Reserved8>>
    BY <1>3 DEF Leave, Forget, Free
  <2>2. \/ pc'[Microstack] = pc[Microstack] /\ serves'[Microstack] = serves[Microstack]
        \/ pc'[Microstack] \notin {"timer", "finish", "resume"}
    BY <1>3 DEF Leave, Forget, Free, Returns, End, Release, Disconnect, Microstack, Thread
  <2> QED BY <2>1, <2>2
<1>4. CASE Tail \/ \E k \in Socket : Drains(k)
  <2>1. UNCHANGED <<Reserved5, Reserved8>>
    BY <1>4 DEF Tail, Check, Pause, Copy, OnSendOK, Drains, Drained, DrainFails
  <2>2. \/ pc'[Microstack] = pc[Microstack] /\ serves'[Microstack] = serves[Microstack]
        \/ pc'[Microstack] \notin {"timer", "finish", "resume"}
    BY <1>4 DEF Tail, Check, Pause, Copy, OnSendOK, Drains, Drained, DrainFails, Dispatched,
                Returns, End, Microstack, Thread
  <2> QED BY <2>1, <2>2
<1>5. CASE Idles \/ \E k \in Socket : Timers(k) \/ PeerCloses(k) \/ Accept(k)
  <2>1. UNCHANGED <<Reserved5, Reserved8>>
    BY <1>5 DEF Idles, IdleSink, Timers, CloseTimer, FailTimer, PeerCloses, Accept, Drops
  <2>2. pc[Microstack] = "ready" /\ pc'[Microstack] \notin {"timer", "finish", "resume"}
    <3>1. ASSUME NEW k, NEW idles, NEW closings, Drops(k, idles, closings)
          PROVE  pc[Microstack] = "ready" /\ pc'[Microstack] \in {"ready", "last", "forget"}
      BY <3>1 DEF Drops, Disconnect, Release, Ready, Thread
    <3>2. ASSUME NEW k \in Socket, Accept(k)
          PROVE  pc[Microstack] = "ready" /\ pc'[Microstack] = "ready"
      BY <3>2 DEF Accept, Ready
    <3> QED BY <1>5, <3>1, <3>2 DEF Idles, IdleSink, Timers, CloseTimer, FailTimer, PeerCloses
  <2> QED BY <2>1, <2>2
<1>6. ASSUME NEW k \in Socket, Requests(k)
      PROVE  AnsweredOnce'
  <2>1. Received(connection[k])
    BY <1>6 DEF Requests, BodyFollows, Refused, Answered, LeftToPool
  <2>2. \A s \in Session : Reserved8'[s] => ~Reserved5'[s]
    BY <2>1 DEF Received
  <2>3. pc'[Microstack] \notin {"timer", "finish", "resume"}
    BY <1>6, WebServerAssumption DEF Requests, BodyFollows, Refused, Answered, LeftToPool,
                Dispatched, Microstack, Thread, Job
  <2> QED BY <2>2, <2>3
<1>7. CASE UNCHANGED vars
  BY <1>7 DEF vars
<1> QED BY <1>1, <1>2, <1>3, <1>4, <1>5, <1>6, <1>7 DEF Next, Continue

LEMMA SkipsStep ==
  ASSUME Shape, Skips, [Next]_vars
  PROVE  Skips'
<1> USE DEF Skips, Goes, At, sockets, flags, places, history, Shape, TypeOK
<1>0. Microstack \in Thread /\ NoSession \notin whole
  BY DEF Thread, NoSession, Session
<1>1. ASSUME NEW t \in Thread,
             \/ Mark(t) \/ SendPart(t) \/ SendLast(t) \/ RequestAnswered(t)
             \/ CloseOrTime(t) \/ Finish(t) \/ Resume(t)
      PROVE  Skips'
  BY <1>1 DEF Mark, SendPart, SendLast, Send, RequestAnswered, CloseOrTime, Finish, Resume,
              Connected
<1>2. ASSUME NEW t \in Thread, Leave(t) \/ Forget(t)
      PROVE  Skips'
  <2>1. UNCHANGED <<connection, next, whole>>
    BY <1>2 DEF Leave, Forget
  <2>2. next = "copy" => serves'[Microstack] = serves[Microstack]
    BY <1>0, <1>2 DEF Leave, Forget, Returns, End
  <2> QED BY <2>1, <2>2 DEF Connected
<1>3. ASSUME NEW t \in Thread, Free(t)
      PROVE  Skips'
  <2>1. UNCHANGED <<next, whole>> /\ serves[t] \in 1 .. opened /\ Mine(t) \in Socket
    BY <1>3 DEF Free, Threads, Sessions, Mine, NoSession, Job, Microstack, Thread
  <2>2. CASE Returns(t) /\ UNCHANGED connection
    <3>1. next = "copy" => serves'[Microstack] = serves[Microstack]
      BY <1>0, <2>2 DEF Returns, End
    <3> QED BY <2>1, <2>2, <3>1 DEF Connected
  <2>3. CASE Disconnect(t, Mine(t), idle)
    <3>1. /\ connection' = [connection EXCEPT ![Mine(t)] = NoSession]
          /\ serves' = [serves EXCEPT ![t] = connection[Mine(t)]]
      BY <2>3 DEF Disconnect
    <3>2. CASE t = Microstack
      BY <1>0, <2>1, <3>1, <3>2 DEF Connected, Sessions, NoSession
    <3>3. CASE t # Microstack
      BY <1>0, <2>1, <3>1, <3>3 DEF Connected
    <3> QED BY <3>2, <3>3
  <2> QED BY <1>3, <2>2, <2>3 DEF Free
<1>4. CASE Tail \/ \E k \in Socket : Drains(k)
  <2>1. UNCHANGED <<connection, whole>>
    BY <1>4 DEF Tail, Check, Pause, Copy, OnSendOK, Drains, Drained, DrainFails
  <2>2. next' = "copy" => next = "copy" /\ serves'[Microstack] = serves[Microstack]
    BY <1>0, <1>4 DEF Tail, Check, Pause, Copy, OnSendOK, Drains, Drained, DrainFails, Dispatched,
                Returns, End
  <2> QED BY <2>1, <2>2 DEF Connected
<1>5. CASE Idles \/ \E k \in Socket : Timers(k) \/ PeerCloses(k)
  BY <1>5 DEF Idles, IdleSink, Timers, CloseTimer, FailTimer, PeerCloses, Drops
<1>6. ASSUME NEW k \in Socket, Accept(k)
      PROVE  Skips'
  BY <1>0, <1>6 DEF Accept, Ready, Threads
<1>7. ASSUME NEW k \in Socket, Requests(k)
      PROVE  Skips'
  BY <1>0, <1>7 DEF Requests, BodyFollows, Refused, Answered, LeftToPool, Dispatched
<1>8. CASE UNCHANGED vars
  BY <1>8 DEF vars, Connected
<1> QED BY <1>1, <1>2, <1>3, <1>4, <1>5, <1>6, <1>7, <1>8 DEF Next, Continue

(* A step that receives no request and forgets no job of a connection.      *)
LEMMA TurnKept ==
  ASSUME Shape, Turn, whole' = whole, disturbed \subseteq disturbed',
         \A s \in Session : Reserved5'[s] => Reserved5[s],
         \A s \in Session : Connected(s)' /\ Reserved5[s] => Connected(s),
         \A s \in Session : Connected(s)' /\ s \in Pooled => s \in Pooled',
         \A s \in whole \ (Pooled' \cup disturbed') :
           Connected(s)' /\ Connected(s) /\ Reserved5[s] /\ Reserved5'[s] /\ Pausing(s)
             => Pausing(s)'
  PROVE  Turns'
BY DEF Turn, Turns, Shape, TypeOK

LEMMA TurnAnswer ==
  ASSUME Shape, Turn, NEW t \in Thread,
         \/ Mark(t) \/ SendPart(t) \/ SendLast(t) \/ RequestAnswered(t)
         \/ CloseOrTime(t) \/ Finish(t) \/ Resume(t)
  PROVE  Turns'
<1> USE DEF At, sockets, flags, history
<1>1. /\ UNCHANGED <<connection, opened, Reserved2, serves, next, whole>>
      /\ disturbed \subseteq disturbed' /\ (Resume(t) => Disturbs(t, Mine(t)))
      /\ PAUSE' = PAUSE \/ (Resume(t) /\ PAUSE' = [PAUSE EXCEPT ![Mine(t)] = -1])
      /\ paused' = paused \/ paused' = [paused EXCEPT ![serves[t]] = 0]
  BY DEF Mark, SendPart, SendLast, Send, RequestAnswered, CloseOrTime, Finish, Resume, Disturbs
<1>2. PICK l \in Answering : pc' = [pc EXCEPT ![t] = l] /\ pc[t] \in Answering
  BY DEF Mark, SendPart, SendLast, Send, RequestAnswered, CloseOrTime, Finish, Resume, Answering,
         Goes
<1>3. \A s \in Session : Reserved5'[s] => Reserved5[s]
  BY DEF Mark, SendPart, SendLast, RequestAnswered, CloseOrTime, Finish, Resume, Shape, TypeOK
<1>4. serves[t] \in 1 .. opened /\ serves[t] \in Session
  BY <1>2, OpenedSessions DEF Shape, Threads, Thread, Job, Microstack, NoSession, Answering
<1>5. ASSUME NEW s \in whole \ (Pooled' \cup disturbed'), Connected(s), Reserved5[s], Reserved5'[s],
             Pausing(s)
      PROVE  Pausing(s)'
  <2>1. s \in Session /\ connection[Reserved2[s]] = s /\ Reserved2[s] \in Socket
    BY <1>5 DEF Connected, Shape, TypeOK, Sessions, NoSession, Session
  <2>2. PAUSE'[Reserved2[s]] = PAUSE[Reserved2[s]]
    <3> SUFFICES ASSUME Resume(t), PAUSE' = [PAUSE EXCEPT ![Mine(t)] = -1], Reserved2[s] = Mine(t)
                 PROVE  FALSE
      BY <1>1, <2>1 DEF Shape, TypeOK
    <3>1. CASE t = Microstack
      <4>1. s = serves[Microstack]
        BY <1>4, <2>1, <3>1 DEF Mine, Shape, Own, NoSession, Session
      <4> QED BY <1>5, <3>1, <4>1 DEF Resume, Turn, AnsweredOnce
    <3>2. CASE t # Microstack
      <4>1. s = serves[t]
        BY <1>1, <1>5, <2>1, <3>2 DEF Disturbs, NoSession, Session
      <4> QED BY <1>1, <1>5, <3>2, <4>1 DEF Pooled, Thread
    <3> QED BY <3>1, <3>2
  <2>3. t # Microstack => s # serves[t]
    BY <1>1, <1>5 DEF Pooled, Thread
  <2>4. CASE t # Microstack
    <3>1. pc'[Microstack] = pc[Microstack] /\ paused'[s] = paused[s]
      BY <1>1, <1>2, <1>4, <2>1, <2>3, <2>4 DEF Shape, TypeOK
    <3> QED BY <1>1, <1>5, <2>2, <3>1 DEF Pausing
  <2>5. CASE t = Microstack
    <3>1. pc'[Microstack] = l /\ pc[Microstack] \in Answering
      BY <1>2, <2>5 DEF Shape, TypeOK
    <3> QED BY <1>1, <1>5, <2>2, <3>1 DEF Pausing, Answering, Ending
  <2> QED BY <2>4, <2>5
<1>6. /\ \A s \in Session : Connected(s)' => Connected(s)
      /\ Pooled' = Pooled
  BY <1>1 DEF Connected, Pooled
<1> QED BY <1>1, <1>3, <1>5, <1>6, TurnKept

LEMMA TurnEnd ==
  ASSUME Shape, Turn, Due, NEW t \in Thread, Leave(t) \/ Forget(t) \/ Free(t)
  PROVE  Turns'
<1> USE DEF At, sockets, flags, history
<1>1. /\ UNCHANGED <<opened, Reserved2, Reserved5, next, whole, PAUSE, paused>>
      /\ disturbed \subseteq disturbed'
  BY DEF Leave, Forget, Free, Disturbs
<1>2. /\ serves[t] \in 1 .. opened /\ serves[t] \in Session /\ Mine(t) \in Socket
      /\ pc[t] \in {"leave", "forget", "last", "free"}
  BY OpenedSessions DEF Leave, Forget, Free, Shape, Threads, Sessions, Mine, Thread, Job, Microstack,
                        NoSession
<1>3. CASE Free(t) /\ Disconnect(t, Mine(t), idle) /\ ~IsFree(Mine(t))
  <2>1. /\ connection' = [connection EXCEPT ![Mine(t)] = NoSession]
        /\ serves' = [serves EXCEPT ![t] = connection[Mine(t)]]
        /\ connection[Mine(t)] # NoSession /\ Reserved12[serves[t]] = 0 /\ pc[t] = "free"
    BY <1>3 DEF Disconnect, IsFree, Free, Due
  <2>2. t # Microstack
    <3>1. connection[Mine(t)] # serves[t]
      BY <1>2, <2>1 DEF Due, Shape, TypeOK
    <3> QED BY <1>2, <2>1, <3>1 DEF Mine, Shape, Own, NoSession
  <2>3. pc'[Microstack] = pc[Microstack] /\ serves'[Microstack] = serves[Microstack]
    BY <1>3, <2>1, <2>2 DEF Disconnect, Release, Goes, Shape, TypeOK, Thread
  <2>4. \A s \in Session : Connected(s)' => Connected(s)
    BY <2>1 DEF Connected, Shape, TypeOK, NoSession, Session
  <2>5. \A s \in Session : Connected(s)' /\ s \in Pooled => s \in Pooled'
    <3> SUFFICES ASSUME NEW s \in Session, Connected(s), s \in Pooled PROVE s \in Pooled'
      BY <2>4
    <3>1. Reserved12[s] > 0 /\ s # serves[t]
      BY <2>1 DEF Connected, Due, NoSession, Session
    <3>2. PICK u \in Job : serves[u] = s
      BY DEF Pooled
    <3>3. serves'[u] = s
      BY <2>1, <3>1, <3>2 DEF Shape, TypeOK, Thread
    <3> QED BY <3>3 DEF Pooled
  <2>6. \A s : Pausing(s) => Pausing(s)'
    BY <1>1, <2>3 DEF Pausing
  <2> QED BY <1>1, <2>4, <2>5, <2>6, TurnKept
<1>4. CASE UNCHANGED connection /\ \A u \in Job : serves'[u] = serves[u]
  <2>1. /\ \A s \in Session : Connected(s)' <=> Connected(s)
        /\ Pooled' = Pooled
    BY <1>4 DEF Connected, Pooled
  <2>2. ASSUME NEW s \in Session, Pausing(s), Connected(s), Reserved5[s], s \in whole
        PROVE  Pausing(s)'
    <3>1. CASE t # Microstack
      <4>1. pc'[Microstack] = pc[Microstack] /\ serves'[Microstack] = serves[Microstack]
        BY <3>1 DEF Leave, Forget, Free, Returns, Goes, Release, Disconnect, Shape, TypeOK, Thread,
                    Microstack
      <4> QED BY <1>1, <2>2, <4>1 DEF Pausing
    <3>2. CASE t = Microstack
      <4>1. \/ pc'[Microstack] \in Ending /\ serves'[Microstack] = serves[Microstack]
            \/ pc'[Microstack] = next /\ serves'[Microstack] \in {serves[Microstack], NoSession}
               /\ (next # "ready" => serves'[Microstack] = serves[Microstack])
            \/ Disconnect(t, Mine(t), idle) /\ Free(t) /\ ~IsFree(Mine(t))
        BY <3>2 DEF Leave, Forget, Free, Returns, Goes, Release, End, Ending, Shape, TypeOK
      <4>2. CASE Disconnect(t, Mine(t), idle) /\ Free(t) /\ ~IsFree(Mine(t))
        BY <1>2, <1>4, <4>2 DEF Disconnect, IsFree, Shape, TypeOK
      <4>3. next \in {"ready", "check", "copy"} /\ (next = "copy" => serves[Microstack] # s)
        BY <2>2 DEF Shape, TypeOK, Turn, Skips
      <4> QED BY <1>1, <1>2, <2>2, <3>2, <4>1, <4>2, <4>3 DEF Pausing, Ending, Answering
    <3> QED BY <3>1, <3>2
  <2> QED BY <1>1, <2>1, <2>2, TurnKept DEF Shape, TypeOK
<1>5. CASE ~(Free(t) /\ Disconnect(t, Mine(t), idle) /\ ~IsFree(Mine(t)))
  <2>1. UNCHANGED connection /\ \A u \in Job : serves'[u] = serves[u]
    BY <1>5 DEF Leave, Forget, Free, Returns, End, Thread, Job, Microstack, Shape, TypeOK
  <2> QED BY <1>4, <2>1
<1> QED BY <1>3, <1>5

LEMMA TurnTail ==
  ASSUME Shape, Turn, Tail \/ \E k \in Socket : Drains(k)
  PROVE  Turns'
<1> USE DEF At, sockets, flags, places, history, Goes, Shape, TypeOK
<1>1. /\ UNCHANGED <<connection, opened, Reserved2, Reserved5, Reserved8, whole, disturbed>>
      /\ \A t \in Job : pc'[t] = pc[t] /\ serves'[t] = serves[t]
      /\ Microstack \in Thread
  BY DEF Tail, Check, Pause, Copy, OnSendOK, Drains, Drained, DrainFails, Dispatched, Returns,
         Thread, Job, Microstack
<1>2. /\ \A s \in Session : Connected(s)' <=> Connected(s)
      /\ Pooled' = Pooled
  BY <1>1 DEF Connected, Pooled
<1>3. ASSUME NEW s \in Session, s \in whole, Connected(s), Reserved5[s], Pausing(s)
      PROVE  Pausing(s)'
  <2>1. connection[Reserved2[s]] = s /\ s # NoSession /\ Reserved2[s] \in Socket
    BY <1>3 DEF Connected, Sessions, NoSession, Session
  <2>2. CASE Check
    <3>1. ~Reserved8[s]
      BY <1>3 DEF Turn, AnsweredOnce
    <3>2. /\ UNCHANGED <<PAUSE, serves, next>> /\ pc[Microstack] = "check"
          /\ pc'[Microstack] \in {"copy", "pause"}
          /\ serves[Microstack] = s => pc'[Microstack] = "pause"
      BY <1>1, <2>2, <3>1 DEF Check
    <3> QED BY <1>1, <1>3, <3>2 DEF Pausing
  <2>3. CASE Pause
    <3>1. /\ UNCHANGED <<PAUSE, serves, next>> /\ pc[Microstack] = "pause"
          /\ pc'[Microstack] = "copy" /\ (serves[Microstack] = s => paused'[s] = 1)
      BY <1>1, <2>3 DEF Pause
    <3> QED BY <1>1, <1>3, <3>1 DEF Pausing
  <2>4. CASE Copy
    <3>1. pc[Microstack] = "copy" /\ serves'[Microstack] = NoSession /\ pc'[Microstack] = "ready"
          /\ serves[Microstack] # NoSession
      BY <1>1, <2>4 DEF Copy, Threads
    <3>2. CASE serves[Microstack] = s
      <4>1. PAUSE'[Reserved2[s]] = 1
        BY <1>1, <1>3, <2>1, <2>4, <3>1, <3>2 DEF Copy, Mine, IsFree, Pausing
      <4> QED BY <1>1, <2>1, <3>1, <4>1 DEF Pausing
    <3>3. CASE serves[Microstack] # s
      <4>1. connection[Mine(Microstack)] \in {NoSession, serves[Microstack]}
        BY <3>1 DEF Own, Mine
      <4>2. PAUSE'[Reserved2[s]] = PAUSE[Reserved2[s]]
        BY <2>1, <2>4, <3>3, <4>1 DEF Copy, IsFree
      <4> QED BY <1>1, <1>3, <2>1, <3>1, <3>3, <4>2 DEF Pausing
    <3> QED BY <3>2, <3>3
  <2>5. CASE OnSendOK \/ \E k \in Socket : Drains(k)
    <3>1. UNCHANGED <<PAUSE, paused>> /\ pc[Microstack] \in {"ready", "sendok"}
      BY <2>5 DEF OnSendOK, Drains, Drained, DrainFails, Ready
    <3>2. PAUSE[Reserved2[s]] = 1
      BY <1>3, <3>1 DEF Pausing, Answering, Ending
    <3>3. serves'[Microstack] = s /\ pc'[Microstack] = "copy" => FALSE
      <4>1. CASE OnSendOK
        BY <1>1, <1>3, <4>1 DEF OnSendOK, Returns, End, Turn, Skips
      <4>2. CASE \E k \in Socket : Drains(k)
        BY <1>1, <4>2 DEF Drains, Drained, DrainFails, Dispatched, Ready
      <4> QED BY <2>5, <4>1, <4>2
    <3> QED BY <1>1, <3>1, <3>2, <3>3 DEF Pausing
  <2> QED BY <2>2, <2>3, <2>4, <2>5 DEF Tail
<1> HIDE DEF Shape, TypeOK
<1> QED BY <1>1, <1>2, <1>3, TurnKept DEF Shape, TypeOK

(* What begins in the loop of the microstack thread: every connection with  *)
(* an unanswered request is paused there.                                   *)
LEMMA ReadyTurns ==
  ASSUME Shape, Turn, Ready
  PROVE  /\ serves[Microstack] = NoSession
         /\ \A s \in whole \ (Pooled \cup disturbed) :
              Connected(s) /\ Reserved5[s] => PAUSE[Reserved2[s]] = 1 /\ s \in Session
                                              /\ connection[Reserved2[s]] = s
<1>1. serves[Microstack] = NoSession /\ \A s \in whole : s \in Session /\ s # NoSession
  BY DEF Ready, At, Shape, TypeOK, Threads, NoSession, Session
<1>2. ASSUME NEW s \in whole \ (Pooled \cup disturbed), Connected(s), Reserved5[s]
      PROVE  PAUSE[Reserved2[s]] = 1 /\ connection[Reserved2[s]] = s
  BY <1>1, <1>2 DEF Turn, Turns, Pausing, Connected, Shape, Sessions
<1> QED BY <1>1, <1>2

LEMMA TurnEnds ==
  ASSUME Shape, Turn, Idles \/ \E k \in Socket : Timers(k) \/ PeerCloses(k)
  PROVE  Turns'
<1>1. ASSUME NEW k, NEW idles, NEW closings, Drops(k, idles, closings)
      PROVE  Turns'
  <2>1. /\ UNCHANGED <<PAUSE, Reserved2, Reserved5, whole, disturbed>> /\ Ready /\ next' = "ready"
        /\ Microstack \in Thread
    BY <1>1 DEF Drops, history, Thread
  <2>2. /\ pc'[Microstack] # "copy"
        /\ \A t \in Job : serves'[t] = serves[t]
        /\ \A s \in Session : Connected(s)' => Connected(s)
    <3>1. CASE Disconnect(Microstack, k, idles)
      BY <2>1, <3>1 DEF Disconnect, Release, Goes, Shape, TypeOK, Connected, NoSession, Session,
                        Thread, Job, Microstack
    <3>2. CASE UNCHANGED <<connection, pc, serves>>
      BY <2>1, <3>2 DEF Ready, At, Connected
    <3> QED BY <1>1, <3>1, <3>2 DEF Drops
  <2>3. Pooled' = Pooled
    BY <2>2 DEF Pooled
  <2>4. ASSUME NEW s \in whole \ (Pooled \cup disturbed), Connected(s)', Reserved5[s]
        PROVE  PAUSE[Reserved2[s]] = 1
    <3>1. s \in Session /\ Connected(s)
      BY <2>2, <2>4 DEF Shape, TypeOK
    <3> QED BY <2>1, <2>4, <3>1, ReadyTurns
  <2> QED BY <2>1, <2>2, <2>3, <2>4 DEF Turns, Pausing
<1> QED BY <1>1 DEF Idles, IdleSink, Timers, CloseTimer, FailTimer, PeerCloses

LEMMA TurnAccept ==
  ASSUME Shape, Turn, NEW k \in Socket, Accept(k)
  PROVE  Turns'
<1> PICK n \in Session : n = opened + 1
  BY WebServerAssumption DEF Accept, Shape, TypeOK, Session
<1>1. /\ connection' = [connection EXCEPT ![k] = n] /\ connection[k] = NoSession
      /\ PAUSE' = [PAUSE EXCEPT ![k] = 0] /\ Reserved2' = [Reserved2 EXCEPT ![n] = k]
      /\ UNCHANGED <<Reserved5, whole, disturbed, pc, serves>> /\ Ready
  BY DEF Accept, IsFree, flags, places, history
<1>2. ~Reserved5[n] /\ Pooled' = Pooled
  BY <1>1 DEF Shape, TypeOK, Sessions, Pooled
<1>3. ASSUME NEW s \in whole \ (Pooled \cup disturbed), Connected(s)', Reserved5[s]
      PROVE  PAUSE'[Reserved2'[s]] = 1
  <2>1. s # n /\ Connected(s)
    BY <1>1, <1>2, <1>3 DEF Connected, Shape, TypeOK
  <2>2. /\ PAUSE[Reserved2[s]] = 1 /\ s \in Session /\ connection[Reserved2[s]] = s
        /\ Reserved2'[s] = Reserved2[s] /\ s # NoSession
    BY <1>1, <1>3, <2>1, ReadyTurns DEF Shape, TypeOK, NoSession, Session
  <2> QED BY <1>1, <2>2
<1>4. pc'[Microstack] # "copy"
  BY <1>1 DEF Ready, At
<1> QED BY <1>1, <1>2, <1>3, <1>4 DEF Turns, Pausing

LEMMA TurnRequest ==
  ASSUME Shape, Turn, NEW k \in Socket, Requests(k)
  PROVE  Turns'
<1> USE DEF Requests, BodyFollows, Refused, Answered, LeftToPool, Dispatched, Goes
<1>0. Received(connection[k])
  OBVIOUS
<1> PICK c \in Session : c = connection[k]
  BY <1>0, ShapeReceived
<1>1. /\ UNCHANGED <<connection, PAUSE, Reserved2, disturbed>> /\ Ready /\ Microstack \in Thread
      /\ c \in 1 .. opened /\ Reserved2[c] = k
  BY <1>0, ShapeReceived DEF Ready, At, Thread
<1>2. \A s \in Session : s # c => Reserved5'[s] = Reserved5[s]
  BY <1>0 DEF Received, flags, Shape, TypeOK
<1>3. \A s \in Pooled : s # NoSession => s \in Pooled'
  <2>1. CASE LeftToPool(k)
    <3>1. serves[jobs + 1] = NoSession /\ jobs + 1 \in Job
      BY <2>1, WebServerAssumption DEF Shape, TypeOK, Threads, Job
    <3>2. \A t \in Job \ {jobs + 1} : serves'[t] = serves[t]
      BY <2>1 DEF Shape, TypeOK, Thread, Job, Microstack
    <3> QED BY <3>1, <3>2 DEF Pooled
  <2>2. CASE ~LeftToPool(k)
    <3>1. \A t \in Job : serves'[t] = serves[t]
      BY <2>2 DEF Shape, TypeOK, Thread, Job, Microstack
    <3> QED BY <3>1 DEF Pooled
  <2> QED BY <2>1, <2>2
<1>4. ASSUME NEW s \in whole' \ (Pooled' \cup disturbed'), Connected(s)', Reserved5'[s]
      PROVE  Pausing(s)'
  <2>1. s \in Session /\ s # NoSession
    <3>1. whole' \subseteq whole \cup {c}
      OBVIOUS
    <3> QED BY <1>4, <3>1 DEF Shape, TypeOK, NoSession, Session
  <2>2. CASE s # c
    <3>1. s \in whole \ (Pooled \cup disturbed) /\ Connected(s) /\ Reserved5[s]
      BY <1>1, <1>2, <1>3, <1>4, <2>1, <2>2 DEF Connected
    <3>2. PAUSE'[Reserved2'[s]] = 1
      BY <1>1, <3>1, ReadyTurns
    <3>3. serves'[Microstack] = c
      BY <1>1, WebServerAssumption DEF Shape, TypeOK, Thread, Job, Microstack
    <3> QED BY <2>2, <3>2, <3>3 DEF Pausing
  <2>3. CASE s = c
    <3>1. CASE Answered(k)
      BY <1>1, <2>3, <3>1 DEF Pausing, Answering, Shape, TypeOK
    <3>2. CASE LeftToPool(k)
      <4>1. jobs + 1 \in Job /\ serves'[jobs + 1] = c
        BY <3>2, WebServerAssumption DEF Shape, TypeOK, Thread, Job
      <4> QED BY <1>4, <2>3, <4>1 DEF Pooled
    <3>3. CASE BodyFollows(k) \/ Refused(k)
      BY <1>4, <2>3, <3>3
    <3> QED BY <3>1, <3>2, <3>3
  <2> QED BY <2>2, <2>3
<1> QED BY <1>4 DEF Turns

LEMMA TurnStep ==
  ASSUME Shape, Turn, Due, [Next]_vars
  PROVE  Turn'
<1>1. AnsweredOnce' /\ Skips'
  BY AnsweredOnceStep, SkipsStep DEF Turn
<1>2. Turns'
  <2>1. ASSUME NEW t \in Thread, Continue(t) \/ SendPart(t)
        PROVE  Turns'
    BY <2>1, TurnAnswer, TurnEnd DEF Continue
  <2>2. CASE Tail \/ Idles
    BY <2>2, TurnTail, TurnEnds
  <2>3. ASSUME NEW k \in Socket,
               Accept(k) \/ Requests(k) \/ Timers(k) \/ Drains(k) \/ PeerCloses(k)
        PROVE  Turns'
    BY <2>3, TurnAccept, TurnRequest, TurnEnds, TurnTail
  <2>4. CASE UNCHANGED vars
    BY <2>4 DEF vars, sockets, flags, places, history, Turn, Turns, Pausing, Connected, Pooled
  <2> QED BY <2>1, <2>2, <2>3, <2>4 DEF Next
<1> QED BY <1>1, <1>2 DEF Turn

(* Pipelined requests are answered in turn, on every connection that only   *)
(* the microstack thread serves: ILibWebServer_OnResponse pauses it until   *)
(* the request is answered, however the answer goes out.                    *)
THEOREM RequestsAreServedInTurn == Spec => []ServedInTurn
<1>1. Shape /\ Refs /\ Turn /\ [Next]_vars => Turn'
  BY RefsDue, TurnStep
<1>2. Shape /\ Turn => ServedInTurn
  BY ReadyTurns DEF ServedInTurn
<1> QED BY <1>1, <1>2, TurnInit, Invariance, PTL DEF Spec
-----------------------------------------------------------------------------
(* Waiting connections are timed *)

(* Only a released reference, or the end of the connection, removes the     *)
(* timer of a session that waits for a request.                             *)
Timed ==
  /\ \A t \in Thread : pc[t] \in {"forget", "last"} =>
       serves[t] \in released \/ ~Connected(serves[t])
  /\ \A s \in 1 .. opened :
       Connected(s) /\ ~Reserved5[s] /\ s \notin released =>
         \/ idle[s] > 0 \/ closing[Reserved2[s]]
         \/ \E t \in Thread : pc[t] = "timer" /\ serves[t] = s

Comes(s) ==
  \/ idle[s] > 0 \/ closing[Reserved2[s]]
  \/ \E t \in Thread : pc[t] = "timer" /\ serves[t] = s

(* A step that answers nothing, ends nothing and takes no timer away from a *)
(* connection that stays and waits.                                         *)
LEMMA TimedKept ==
  ASSUME Shape, Timed, opened' = opened, released \subseteq released',
         \A s \in 1 .. opened : Connected(s)' => Connected(s),
         \A t \in Thread : pc'[t] \in {"forget", "last"} =>
           \/ pc[t] \in {"forget", "last"} /\ serves'[t] = serves[t]
           \/ serves'[t] \in released' \/ ~Connected(serves[t])',
         \A s \in 1 .. opened :
           Connected(s)' /\ ~Reserved5'[s] /\ s \notin released' =>
             Comes(s)' \/ (~Reserved5[s] /\ (Comes(s) => Comes(s)'))
  PROVE  Timed'
<1>1. ASSUME NEW t \in Thread, pc'[t] \in {"forget", "last"}
      PROVE  serves'[t] \in released' \/ ~Connected(serves[t])'
  <2>1. CASE pc[t] \in {"forget", "last"} /\ serves'[t] = serves[t]
    <3>1. serves[t] \in 1 .. opened
      BY <2>1 DEF Shape, Threads, Thread, Job, Microstack, NoSession
    <3> QED BY <2>1, <3>1 DEF Timed, Connected
  <2>2. CASE serves'[t] \in released' \/ ~Connected(serves[t])'
    BY <2>2 DEF Connected
  <2> QED BY <1>1, <2>1, <2>2
<1>2. ASSUME NEW s \in 1 .. opened', Connected(s)', ~Reserved5'[s], s \notin released'
      PROVE  Comes(s)'
  BY <1>2 DEF Timed, Comes
<1> QED BY <1>1, <1>2 DEF Timed, Comes

LEMMA TimedAnswer ==
  ASSUME Shape, Timed, NEW t \in Thread,
         \/ Mark(t) \/ SendPart(t) \/ SendLast(t) \/ RequestAnswered(t)
         \/ CloseOrTime(t) \/ Finish(t) \/ Resume(t)
  PROVE  Timed'
<1> USE DEF At, sockets, flags, history
<1>1. UNCHANGED <<connection, opened, Reserved2, serves, released>>
  BY DEF Mark, SendPart, SendLast, Send, RequestAnswered, CloseOrTime, Finish, Resume
<1>2. PICK l \in Answering : pc' = [pc EXCEPT ![t] = l] /\ pc[t] \in Answering
  BY DEF Mark, SendPart, SendLast, Send, RequestAnswered, CloseOrTime, Finish, Resume, Answering,
         Goes
<1>3. serves[t] \in 1 .. opened /\ serves[t] \in Session /\ Mine(t) \in Socket
  BY <1>2, OpenedSessions DEF Shape, Threads, Sessions, Mine, Thread, Job, Microstack, NoSession,
                              Answering
<1>4. \A s \in 1 .. opened : Connected(s)' <=> Connected(s)
  BY <1>1 DEF Connected
<1>5. \A u \in Thread : pc'[u] \in {"forget", "last"} =>
        pc[u] \in {"forget", "last"} /\ serves'[u] = serves[u]
  BY <1>1, <1>2 DEF Answering, Shape, TypeOK
<1>6. ASSUME NEW s \in 1 .. opened, Connected(s), ~Reserved5'[s]
      PROVE  Comes(s)' \/ (~Reserved5[s] /\ (Comes(s) => Comes(s)'))
  <2>1. s \in Session /\ Reserved2[s] \in Socket
    BY OpenedSessions DEF Shape, Sessions
  <2>2. CASE RequestAnswered(t)
    <3>1. UNCHANGED <<idle, closing>> /\ pc[t] = "answered"
      BY <2>2 DEF RequestAnswered
    <3>2. CASE pc'[t] = "timer" /\ serves[t] = s
      BY <1>1, <3>2 DEF Comes
    <3>3. CASE ~(pc'[t] = "timer" /\ serves[t] = s)
      <4>1. Reserved5'[s] = Reserved5[s]
        BY <1>3, <2>1, <2>2, <3>3 DEF RequestAnswered, Goes, Shape, TypeOK
      <4>2. \A u \in Thread : pc[u] = "timer" => pc'[u] = "timer"
        BY <1>2, <3>1 DEF Shape, TypeOK
      <4> QED BY <1>1, <1>6, <3>1, <4>1, <4>2 DEF Comes
    <3> QED BY <3>2, <3>3
  <2>3. CASE CloseOrTime(t)
    <3>1. /\ Reserved5' = Reserved5 /\ pc[t] = "timer"
          /\ \/ closing' = [closing EXCEPT ![Mine(t)] = TRUE] /\ idle' = idle
             \/ idle' = [idle EXCEPT ![serves[t]] = @ + 1] /\ closing' = closing
      BY <2>3 DEF CloseOrTime
    <3>2. CASE serves[t] = s
      BY <1>1, <1>3, <2>1, <3>1, <3>2 DEF Comes, Mine, Shape, TypeOK
    <3>3. CASE serves[t] # s
      <4>1. idle'[s] = idle[s] /\ (closing[Reserved2[s]] => closing'[Reserved2[s]])
        BY <1>3, <2>1, <3>1, <3>3 DEF Shape, TypeOK
      <4>2. \A u \in Thread : u # t => pc'[u] = pc[u]
        BY <1>2 DEF Shape, TypeOK
      <4> QED BY <1>1, <1>6, <3>1, <3>3, <4>1, <4>2 DEF Comes
    <3> QED BY <3>2, <3>3
  <2>4. CASE Mark(t) \/ SendPart(t) \/ SendLast(t) \/ Finish(t) \/ Resume(t)
    <3>1. UNCHANGED <<idle, closing, Reserved5>> /\ pc[t] # "timer"
      BY <2>4 DEF Mark, SendPart, SendLast, Send, Finish, Resume
    <3>2. \A u \in Thread : pc[u] = "timer" => pc'[u] = "timer"
      BY <1>2, <3>1 DEF Shape, TypeOK
    <3> QED BY <1>1, <1>6, <3>1, <3>2 DEF Comes
  <2> QED BY <2>2, <2>3, <2>4
<1> QED BY <1>1, <1>4, <1>5, <1>6, TimedKept

LEMMA TimedLeave ==
  ASSUME Shape, Timed, NEW t \in Thread, Leave(t) \/ Forget(t)
  PROVE  Timed'
<1> USE DEF At, sockets, flags, history
<1>1. /\ UNCHANGED <<connection, opened, Reserved2, Reserved5, closing>>
      /\ released \subseteq released' /\ pc[t] \in {"leave", "forget", "last"}
      /\ serves[t] \in 1 .. opened /\ serves[t] \in Session
  BY OpenedSessions DEF Leave, Forget, Shape, Threads, Thread, Job, Microstack, NoSession, Answering
<1>2. /\ \A u \in Thread : u # t => pc'[u] = pc[u] /\ serves'[u] = serves[u]
      /\ pc'[t] \in {"forget", "last"} => serves'[t] \in released'
  BY DEF Leave, Forget, Returns, End, Goes, Release, Shape, TypeOK
<1>3. \A s \in 1 .. opened : Connected(s)' <=> Connected(s)
  BY <1>1 DEF Connected
<1>4. ASSUME NEW s \in 1 .. opened, Connected(s), s \notin released'
      PROVE  idle'[s] = idle[s]
  <2>1. CASE Leave(t)
    BY <2>1 DEF Leave
  <2>2. CASE Forget(t)
    <3>1. s # serves[t]
      BY <1>1, <1>4, <2>2 DEF Forget, Timed
    <3> QED BY <1>1, <2>2, <3>1, OpenedSessions DEF Forget, Shape, TypeOK
  <2> QED BY <2>1, <2>2
<1>5. ASSUME NEW s \in 1 .. opened, Connected(s), s \notin released', Comes(s)
      PROVE  Comes(s)'
  BY <1>1, <1>2, <1>4, <1>5 DEF Comes
<1> QED BY <1>1, <1>2, <1>3, <1>5, TimedKept

(* The connection of a socket ends, or has ended; only its timers go.       *)
LEMMA TimedDisconnect ==
  ASSUME Shape, Timed, NEW t \in Thread, pc[t] \in {"ready", "free"}, NEW k \in Socket,
         NEW idles,
         \A s \in 1 .. opened : Connected(s) /\ connection[k] # s => idles[s] = idle[s],
         idles \in [Session -> Nat],
         UNCHANGED <<opened, Reserved2, Reserved5, released>>,
         \/ connection[k] # NoSession /\ Disconnect(t, k, idles)
         \/ /\ connection[k] = NoSession /\ idle' = idles
            /\ \A j \in Socket : j # k => closing'[j] = closing[j]
            /\ UNCHANGED connection
            /\ \A u \in Thread : u # t => pc'[u] = pc[u] /\ serves'[u] = serves[u]
            /\ pc'[t] \notin {"forget", "last"}
  PROVE  Timed'
<1>1. CASE connection[k] # NoSession /\ Disconnect(t, k, idles)
  <2> PICK c \in 1 .. opened : c = connection[k]
    BY <1>1 DEF Shape, Sessions
  <2>1. /\ connection' = [connection EXCEPT ![k] = NoSession]
        /\ closing' = [closing EXCEPT ![k] = FALSE]
        /\ idle' = idles \/ idle' = [idles EXCEPT ![c] = 0]
        /\ serves' = [serves EXCEPT ![t] = c]
        /\ \E l : pc' = [pc EXCEPT ![t] = l]
    BY <1>1 DEF Disconnect, Release, Goes
  <2>2. /\ \A u \in Thread : u # t => pc'[u] = pc[u] /\ serves'[u] = serves[u]
        /\ serves'[t] = c
    BY <2>1 DEF Shape, TypeOK
  <2>3. /\ \A s \in 1 .. opened : Connected(s)' => Connected(s) /\ s # c /\ Reserved2[s] # k
    BY <2>1 DEF Connected, Shape, TypeOK, Sessions, NoSession
  <2>4. ~Connected(serves[t])'
    BY <2>2, <2>3
  <2>5. ASSUME NEW s \in 1 .. opened, Connected(s)', Comes(s)
        PROVE  Comes(s)'
    <3>1. idle'[s] = idle[s] /\ closing'[Reserved2[s]] = closing[Reserved2[s]]
      BY <2>1, <2>3, <2>5, OpenedSessions DEF Shape, TypeOK, Sessions
    <3> QED BY <2>2, <2>5, <3>1 DEF Comes
  <2> QED BY <2>2, <2>3, <2>4, <2>5, TimedKept
<1>2. CASE ~(connection[k] # NoSession /\ Disconnect(t, k, idles))
  <2>1. /\ connection[k] = NoSession /\ idle' = idles
        /\ \A j \in Socket : j # k => closing'[j] = closing[j]
        /\ UNCHANGED connection
        /\ \A u \in Thread : u # t => pc'[u] = pc[u] /\ serves'[u] = serves[u]
        /\ pc'[t] \notin {"forget", "last"}
    BY <1>2
  <2>2. \A s \in 1 .. opened : Connected(s)' => Connected(s) /\ Reserved2[s] # k
    BY <2>1 DEF Connected, Shape, TypeOK, Sessions, NoSession
  <2>3. ASSUME NEW s \in 1 .. opened, Connected(s)', Comes(s)
        PROVE  Comes(s)'
    <3>1. idle'[s] = idle[s] /\ closing'[Reserved2[s]] = closing[Reserved2[s]]
      BY <2>1, <2>2, <2>3 DEF Shape, Sessions, NoSession
    <3> QED BY <2>1, <2>3, <3>1 DEF Comes
  <2> QED BY <2>1, <2>2, <2>3, TimedKept
<1> QED BY <1>1, <1>2

LEMMA TimedEnds ==
  ASSUME Shape, Timed,
         \/ \E t \in Thread : Free(t)
         \/ Idles \/ \E k \in Socket : Timers(k) \/ PeerCloses(k)
  PROVE  Timed'
<1>0. idle \in [Session -> Nat] /\ \A s \in 1 .. opened : s \in Session /\ s # NoSession
  BY OpenedSessions DEF Shape, TypeOK, NoSession
<1>1. ASSUME NEW t \in Thread, Free(t)
      PROVE  Timed'
  <2>1. /\ UNCHANGED <<opened, Reserved2, Reserved5, released>> /\ pc[t] = "free"
        /\ Mine(t) \in Socket
    BY <1>1 DEF Free, At, Mine, Shape, Threads, Sessions, Thread, Job, Microstack, NoSession
  <2> PICK k \in Socket : k = Mine(t)
    BY <2>1
  <2>2. \/ connection[k] # NoSession /\ Disconnect(t, k, idle)
        \/ /\ connection[k] = NoSession /\ idle' = idle /\ UNCHANGED <<closing, connection>>
           /\ \A u \in Thread : u # t => pc'[u] = pc[u] /\ serves'[u] = serves[u]
           /\ pc'[t] \notin {"forget", "last"}
    BY <1>1 DEF Free, IsFree, Returns, End, Goes, Shape, TypeOK
  <2> QED BY <1>0, <2>1, <2>2, TimedDisconnect
<1>2. ASSUME NEW k \in Socket, NEW idles \in [Session -> Nat], NEW closings,
             Drops(k, idles, closings), released' = released,
             \A s \in 1 .. opened : Connected(s) /\ connection[k] # s => idles[s] = idle[s],
             \A j \in Socket : j # k => closings[j] = closing[j]
      PROVE  Timed'
  <2>1. /\ UNCHANGED <<opened, Reserved2, Reserved5>> /\ pc[Microstack] = "ready"
        /\ Microstack \in Thread
    BY <1>2 DEF Drops, Ready, At, Thread
  <2>2. \/ connection[k] # NoSession /\ Disconnect(Microstack, k, idles)
        \/ /\ connection[k] = NoSession /\ idle' = idles /\ closing' = closings
           /\ UNCHANGED <<connection, pc, serves>>
    BY <1>2 DEF Drops, IsFree
  <2> QED BY <1>2, <2>1, <2>2, TimedDisconnect
<1>3. ASSUME NEW s \in Session, IdleSink(s)
      PROVE  Timed'
  <2>1. s \in 1 .. opened /\ Reserved2[s] \in Socket
    BY <1>3 DEF IdleSink, Shape, TypeOK, Sessions, Session
  <2> PICK k \in Socket : k = Reserved2[s]
    BY <2>1
  <2>a. idle[s] \in Nat /\ idle[s] > 0
    BY <1>0, <1>3 DEF IdleSink
  <2>b. [idle EXCEPT ![s] = @ - 1] \in [Session -> Nat]
    BY <1>0, <2>a
  <2> PICK idles \in [Session -> Nat] : idles = [idle EXCEPT ![s] = @ - 1]
    BY <2>b
  <2>2. Drops(k, idles, closing) /\ released' = released
    BY <1>3 DEF IdleSink, Drops, history
  <2>3. ASSUME NEW r \in 1 .. opened, Connected(r), connection[k] # r
        PROVE  idles[r] = idle[r]
    <3>1. connection[Reserved2[r]] = r
      BY <1>0, <2>3 DEF Connected, Shape, Sessions
    <3> QED BY <1>0, <2>3, <3>1
  <2> QED BY <1>2, <2>2, <2>3
<1>4. ASSUME NEW k \in Socket, Timers(k) \/ PeerCloses(k)
      PROVE  Timed'
  <2>1. CASE CloseTimer(k)
    <3> PICK closings : closings = [closing EXCEPT ![k] = FALSE]
      OBVIOUS
    <3>1. /\ Drops(k, idle, closings) /\ released' = released
          /\ \A j \in Socket : j # k => closings[j] = closing[j]
      BY <2>1 DEF CloseTimer, Drops, history, Shape, TypeOK
    <3> QED BY <1>0, <1>2, <3>1
  <2>2. CASE FailTimer(k) \/ PeerCloses(k)
    <3>1. Drops(k, idle, closing) /\ released' = released
      BY <2>2 DEF FailTimer, PeerCloses, Drops, history
    <3> QED BY <1>0, <1>2, <3>1
  <2> QED BY <1>4, <2>1, <2>2 DEF Timers
<1> QED BY <1>1, <1>3, <1>4 DEF Idles

LEMMA TimedTail ==
  ASSUME Shape, Timed, Tail \/ \E k \in Socket : Drains(k)
  PROVE  Timed'
<1> USE DEF At, Ready, sockets, flags, places, history, Goes
<1>1. /\ UNCHANGED <<connection, opened, Reserved2, Reserved5, closing, idle, released>>
      /\ pc[Microstack] \in {"ready", "check", "pause", "copy", "sendok"}
      /\ Microstack \in Thread
  BY DEF Tail, Check, Pause, Copy, OnSendOK, Drains, Drained, DrainFails, Dispatched, Returns,
         Thread
<1>2. \A t \in Thread : t # Microstack => pc'[t] = pc[t] /\ serves'[t] = serves[t]
  BY DEF Tail, Check, Pause, Copy, OnSendOK, Drains, Drained, DrainFails, Dispatched, Returns,
         Shape, TypeOK
<1>3. pc'[Microstack] \notin {"forget", "last"}
  BY <1>1 DEF Tail, Check, Pause, Copy, OnSendOK, Drains, Drained, DrainFails, Dispatched,
              Returns, End, Shape, TypeOK
<1>4. \A s \in 1 .. opened : Connected(s)' <=> Connected(s)
  BY <1>1 DEF Connected
<1>5. \A s \in 1 .. opened : Comes(s) => Comes(s)'
  BY <1>1, <1>2 DEF Comes
<1> QED BY <1>1, <1>2, <1>3, <1>4, <1>5, TimedKept

LEMMA TimedAccept ==
  ASSUME Shape, Timed, NEW k \in Socket, Accept(k)
  PROVE  Timed'
<1> PICK n \in Session : n = opened + 1
  BY WebServerAssumption DEF Accept, Shape, TypeOK, Session
<1>1. /\ connection' = [connection EXCEPT ![k] = n] /\ connection[k] = NoSession
      /\ Reserved2' = [Reserved2 EXCEPT ![n] = k] /\ idle' = [idle EXCEPT ![n] = 1]
      /\ UNCHANGED <<Reserved5, released, closing, pc, serves>> /\ opened' = n
  BY DEF Accept, IsFree, flags, places, history
<1>2. /\ \A s \in Session : s # n => (Connected(s)' <=> Connected(s))
      /\ opened \in Nat
  BY <1>1 DEF Connected, Shape, TypeOK, NoSession, Session
<1>3. ASSUME NEW t \in Thread, pc'[t] \in {"forget", "last"}
      PROVE  serves'[t] \in released' \/ ~Connected(serves[t])'
  <2>1. pc[t] \in {"forget", "last"} /\ serves[t] \in 1 .. opened /\ serves'[t] = serves[t]
    BY <1>1, <1>3 DEF Shape, Threads, Thread, Job, Microstack, NoSession
  <2>2. serves[t] # n /\ serves[t] \in Session
    BY <1>2, <2>1, OpenedSessions DEF Shape
  <2> QED BY <1>1, <1>2, <2>1, <2>2 DEF Timed
<1>4. ASSUME NEW s \in 1 .. opened', Connected(s)', ~Reserved5'[s], s \notin released'
      PROVE  Comes(s)'
  <2>1. CASE s = n
    BY <1>1, <2>1 DEF Comes, Shape, TypeOK
  <2>2. CASE s # n
    <3>1. s \in 1 .. opened /\ s \in Session
      BY <1>1, <1>2, <2>2, OpenedSessions DEF Shape
    <3>2. Comes(s)
      BY <1>1, <1>2, <1>4, <2>2, <3>1 DEF Timed, Comes
    <3> QED BY <1>1, <2>2, <3>1, <3>2 DEF Comes, Shape, TypeOK
  <2> QED BY <2>1, <2>2
<1>5. \A t \in Thread : pc'[t] \in {"forget", "last"} =>
        serves'[t] \in released' \/ ~Connected(serves[t])'
  BY <1>3
<1> QED BY <1>1, <1>4, <1>5 DEF Timed, Comes

LEMMA TimedRequest ==
  ASSUME Shape, Timed, NEW k \in Socket, Requests(k)
  PROVE  Timed'
<1> USE DEF Requests, BodyFollows, Refused, Answered, LeftToPool, Dispatched, Goes
<1>0. Received(connection[k])
  OBVIOUS
<1> PICK c \in Session : c = connection[k]
  BY <1>0, ShapeReceived
<1>1. /\ UNCHANGED <<connection, closing, opened, Reserved2, released>>
      /\ pc[Microstack] = "ready" /\ Microstack \in Thread
  BY <1>0 DEF Received, sockets, Ready, At, Thread
<1>2. \A s \in 1 .. opened : Connected(s)' <=> Connected(s)
  BY <1>1 DEF Connected
<1>3. \A t \in Thread :
        \/ pc'[t] = pc[t] /\ serves'[t] = serves[t]
        \/ pc[t] # "timer" /\ pc'[t] \notin {"forget", "last"}
  <2>1. CASE LeftToPool(k)
    <3>1. pc[jobs + 1] = "none" /\ jobs + 1 \in Thread /\ jobs + 1 # Microstack
      BY <2>1, WebServerAssumption DEF Shape, TypeOK, Threads, Job, Thread, Microstack
    <3> QED BY <1>1, <2>1, <3>1 DEF Shape, TypeOK
  <2>2. CASE ~LeftToPool(k)
    BY <1>1, <2>2 DEF Shape, TypeOK
  <2> QED BY <2>1, <2>2
<1>4. ASSUME NEW s \in 1 .. opened, ~Reserved5'[s]
      PROVE  ~Reserved5[s] /\ idle'[s] = idle[s]
  BY <1>0, <1>4, OpenedSessions DEF Received, Waits, flags, Shape, TypeOK
<1>5. ASSUME NEW s \in 1 .. opened, ~Reserved5'[s], Comes(s)
      PROVE  Comes(s)'
  BY <1>1, <1>3, <1>4, <1>5 DEF Comes
<1> QED BY <1>1, <1>2, <1>3, <1>4, <1>5, TimedKept

LEMMA TimedStep ==
  ASSUME Shape, Timed, [Next]_vars
  PROVE  Timed'
<1>1. ASSUME NEW t \in Thread, Continue(t) \/ SendPart(t)
      PROVE  Timed'
  BY <1>1, TimedAnswer, TimedLeave, TimedEnds DEF Continue
<1>2. CASE Tail \/ Idles
  BY <1>2, TimedTail, TimedEnds
<1>3. ASSUME NEW k \in Socket,
             Accept(k) \/ Requests(k) \/ Timers(k) \/ Drains(k) \/ PeerCloses(k)
      PROVE  Timed'
  BY <1>3, TimedAccept, TimedRequest, TimedEnds, TimedTail
<1>4. CASE UNCHANGED vars
  BY <1>4 DEF vars, sockets, flags, places, history, Timed, Connected
<1> QED BY <1>1, <1>2, <1>3, <1>4 DEF Next

LEMMA TimedInit == Init => Timed
BY DEF Init, Timed

(* A connection that waits for a request is on a timer, or about to be, so  *)
(* that a peer that goes silent holds no socket: however the steps of       *)
(* ILibWebServer_RequestAnswered on a thread of the pool fall between those *)
(* of the loop, until a handler gives a reference on the session back.      *)
THEOREM WaitingConnectionsAreTimed == Spec => []WaitersAreTimed
<1>1. Shape /\ Refs /\ Timed /\ [Next]_vars => Timed'
  BY TimedStep
<1>2. ASSUME Shape, Timed
      PROVE  WaitersAreTimed
  <2>1. ASSUME Ready, NEW t \in Thread, pc[t] = "timer"
        PROVE  t \in Job
    BY <2>1 DEF Ready, At, Thread
  <2> QED BY <1>2, <2>1 DEF Timed, WaitersAreTimed, At
<1> QED BY <1>1, <1>2, TimedInit, Invariance, PTL DEF Spec
=============================================================================
