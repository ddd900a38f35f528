---------------------------- MODULE AsyncSocket -----------------------------
(***************************************************************************)
(* ILibAsyncSocket: one socket module of the microstack, reused for one    *)
(* connection after another.  Any thread sends and resumes; connecting,    *)
(* reading, disconnecting and every callback belong to the microstack      *)
(* thread, which serves the module in rounds (module Chain).               *)
(*                                                                         *)
(* A step is one critical section of SendLock with the callback that       *)
(* follows it.  A message is its number, repeated once for every byte; a   *)
(* queue is the bytes still to be sent.  Calls on a closed socket return   *)
(* an error and change nothing, and are not modelled.  The rules of the    *)
(* API are kept: nothing is sent before OnConnect, no message is empty,    *)
(* a connection is resumed only after its OnData paused it, and nothing is *)
(* called once the chain was stopped.                                      *)
(***************************************************************************)
EXTENDS Integers, Sequences, SequencesExt

CONSTANTS
  Client,          \* threads of the application and of the thread pool
  Microstack,      \* the thread that runs the chain
  Size,            \* bytes of a message
  MaxConnections,  \* bound: connections the module is used for
  MaxSends         \* bound: calls of ILibAsyncSocket_Send

ASSUME AsyncSocketAssumption ==
  /\ Microstack \notin Client
  /\ Size \in Nat \ {0} /\ MaxConnections \in Nat /\ MaxSends \in Nat

Thread     == Client \cup {Microstack}
Connection == 1 .. MaxConnections
Message    == 1 .. MaxSends
Bit        == {"read", "write", "error"}

VARIABLES
  socket,              \* internalSocket: a connection, or 0 for ~0
  FinConnect, PAUSE, PendingSend, PendingBytesToSend,
  unread,              \* was OnData paused with data left in the buffer?
  paused,              \* has the application a paused connection to resume?
  scheduled,           \* is a Disconnect on the LifeTime of the module?
  connectTimer,        \* is the ConnectTimeout on its TimeoutTimer?
  pc,                  \* where the microstack thread is
  polled, ready,       \* the bits of the fd sets before and after select
  timed,               \* does the block time of this round end?
  pipe,                \* is a byte in the terminate pipe?
  todo,                \* what a thread does once it has left SendLock
  TerminateFlag,
  opened, sent,        \* connections and sends so far
  accepted, wire,      \* history: bytes Send took, bytes the network took
  broken,              \* history: has a send failed on this connection?
  ended                \* history: connections whose end was reported

queue   == <<PendingSend, PendingBytesToSend>>
reading == <<unread, paused>>
timers  == <<scheduled, connectTimer>>
round   == <<polled, ready, timed>>
history == <<accepted, wire, broken>>

vars == <<socket, FinConnect, PAUSE, queue, reading, timers, pc, round, pipe, todo,
          TerminateFlag, opened, sent, history, ended>>

Location == {"links", "timers", "timeout", "preselect", "select", "write", "sendok",
             "connection", "process", "resume", "ondata", "postlinks", "destroy", "destroyed"}

Init ==
  /\ socket = 0 /\ FinConnect = FALSE /\ PAUSE = 0
  /\ PendingSend = <<>> /\ PendingBytesToSend = 0
  /\ unread = FALSE /\ paused = FALSE
  /\ scheduled = FALSE /\ connectTimer = FALSE
  /\ pc = "links" /\ polled = {} /\ ready = {} /\ timed = FALSE /\ pipe = FALSE
  /\ todo = [t \in Thread |-> "nothing"]
  /\ TerminateFlag = FALSE /\ opened = 0 /\ sent = 0
  /\ accepted = <<>> /\ wire = <<>> /\ broken = FALSE
  /\ ended = <<>>

Callback == {"sendok", "ondata", "links", "timers", "timeout", "postlinks"}

(* The application runs on the microstack thread in the callbacks of the    *)
(* module and in other links.                                               *)
Runs(t) == /\ todo[t] = "nothing" /\ ~TerminateFlag
           /\ t = Microstack => pc \in Callback

Free == todo[Microstack] = "nothing"

IsFree == socket = 0

AnySocket(c) == TRUE
IsOpen(c) == c # 0

(* Is what the buffer holds handed to OnData under this PAUSE?              *)
OnlyIfResumed(p) == p < 0
NotPaused(p) == p <= 0

StillQueued(q) == q
ClearPendingSend(q) == <<>>

Always(q) == TRUE
SendsAtOnce(q) == q = <<>>

AddsLength(n) == n + Size

Never(left) == FALSE
Unblocks(left) == left > 0

Bytes(m) == [i \in 1 .. Size |-> m]
-----------------------------------------------------------------------------
(* Calls of the application                                                 *)

(* Behind data that waits a message waits too.                              *)
SendQueues(t, m) ==
  /\ ~SendsAtOnce(PendingSend)
  /\ PendingSend' = PendingSend \o Bytes(m)
  /\ PendingBytesToSend' = AddsLength(PendingBytesToSend)
  /\ accepted' = accepted \o Bytes(m)
  /\ todo' = [todo EXCEPT ![t] = "unblock"]
  /\ UNCHANGED <<wire, broken>>

(* Otherwise the network takes its first n bytes, and the rest waits.       *)
SendAtOnce(t, m) ==
  /\ SendsAtOnce(PendingSend) /\ ~broken
  /\ \E n \in 0 .. Size :
       /\ wire' = wire \o SubSeq(Bytes(m), 1, n)
       /\ PendingSend' = PendingSend \o SubSeq(Bytes(m), n + 1, Size)
       /\ PendingBytesToSend' = AddsLength(PendingBytesToSend) - n
       /\ todo' = [todo EXCEPT ![t] = IF Unblocks(Size - n) THEN "unblock" ELSE "nothing"]
  /\ accepted' = accepted \o Bytes(m)
  /\ UNCHANGED broken

(* The data is dropped, but PendingBytesToSend keeps its length.            *)
SendFails(t) ==
  /\ SendsAtOnce(PendingSend)
  /\ broken' = TRUE
  /\ PendingBytesToSend' = AddsLength(PendingBytesToSend)
  /\ todo' = [todo EXCEPT ![t] = "disconnect"]
  /\ UNCHANGED <<PendingSend, accepted, wire>>

Send(t) ==
  /\ Runs(t) /\ ~IsFree /\ FinConnect /\ sent < MaxSends
  /\ sent' = sent + 1
  /\ SendQueues(t, sent + 1) \/ SendAtOnce(t, sent + 1) \/ SendFails(t)
  /\ UNCHANGED <<socket, FinConnect, PAUSE, reading, timers, pc, round, pipe,
                 TerminateFlag, opened, ended>>

(* After lock_post: ILibForceUnBlockChain, or a timer of 0 ms that wakes    *)
(* the chain if it is the first.                                            *)
SendReturns(t) ==
  /\ todo[t] \in {"unblock", "disconnect"}
  /\ pipe' = (pipe \/ todo[t] = "unblock" \/ ~scheduled)
  /\ scheduled' = (scheduled \/ todo[t] = "disconnect")
  /\ todo' = [todo EXCEPT ![t] = "nothing"]
  /\ UNCHANGED <<socket, FinConnect, PAUSE, queue, reading, connectTimer, pc, round,
                 TerminateFlag, opened, sent, history, ended>>

Resume(t) ==
  /\ Runs(t) /\ paused
  /\ PAUSE' = -1
  /\ paused' = FALSE
  /\ todo' = [todo EXCEPT ![t] = "unblock"]
  /\ UNCHANGED <<socket, FinConnect, queue, unread, timers, pc, round, pipe,
                 TerminateFlag, opened, sent, history, ended>>

(* The socket is closed, its queue is cleared and OnDisconnect is called.   *)
Close ==
  /\ socket' = 0
  /\ PendingSend' = ClearPendingSend(PendingSend)
  /\ PendingBytesToSend' = 0
  /\ unread' = FALSE
  /\ ended' = Append(ended, socket)

(* A chain that was stopped keeps the connect timer.                        *)
Disconnect ==
  /\ connectTimer' = (connectTimer /\ TerminateFlag)
  /\ \/ IsOpen(socket) /\ Close /\ PAUSE' = 1
     \/ ~IsOpen(socket) /\ UNCHANGED <<socket, queue, unread, ended, PAUSE>>

(* The owner of the module ends the connection.                             *)
OwnerDisconnects ==
  /\ Runs(Microstack) /\ ~IsFree
  /\ Disconnect
  /\ UNCHANGED <<FinConnect, paused, scheduled, pc, round, pipe, todo,
                 TerminateFlag, opened, sent, history>>

Open ==
  /\ IsFree /\ opened < MaxConnections
  /\ opened' = opened + 1
  /\ socket' = opened + 1
  /\ PendingBytesToSend' = 0 /\ PAUSE' = 0
  /\ unread' = FALSE /\ paused' = FALSE
  /\ accepted' = <<>> /\ wire' = <<>> /\ broken' = FALSE
  /\ UNCHANGED <<PendingSend, scheduled, pc, round, todo, TerminateFlag, sent, ended>>

(* A client connects in a PreSelect before that of the module.              *)
ConnectTo ==
  /\ pc = "links" /\ Runs(Microstack) /\ Open
  /\ FinConnect' = FALSE
  /\ connectTimer' = TRUE
  /\ pipe' = TRUE

(* A server accepts in a PostSelect behind that of the module.              *)
UseThisSocket ==
  /\ pc = "postlinks" /\ Runs(Microstack) /\ Open
  /\ FinConnect' = TRUE
  /\ UNCHANGED <<connectTimer, pipe>>

StopChain ==
  /\ ~TerminateFlag /\ \A t \in Thread : todo[t] = "nothing"
  /\ pc \notin {"destroy", "destroyed"}
  /\ TerminateFlag' = TRUE
  /\ pipe' = TRUE
  /\ UNCHANGED <<socket, FinConnect, PAUSE, queue, reading, timers, pc, round, todo,
                 opened, sent, history, ended>>
-----------------------------------------------------------------------------
(* A round of the chain                                                     *)

Goes(from, to) == pc = from /\ Free /\ pc' = to

LinksDone ==
  /\ Goes("links", "timers")
  /\ UNCHANGED <<socket, FinConnect, PAUSE, queue, reading, timers, round, pipe, todo,
                 TerminateFlag, opened, sent, history, ended>>

RunScheduled ==
  /\ Goes("timers", "timeout")
  /\ scheduled' = FALSE
  /\ \/ scheduled /\ Disconnect
     \/ ~scheduled /\ UNCHANGED <<socket, queue, unread, ended, PAUSE, connectTimer>>
  /\ UNCHANGED <<FinConnect, paused, round, pipe, todo, TerminateFlag, opened, sent, history>>

(* 30 s have gone by; the queue is not cleared, and OnConnect reports the   *)
(* end of the connection of the timer, the last one, open or not.           *)
ConnectTimeout ==
  /\ pc = "timeout" /\ Free /\ connectTimer
  /\ connectTimer' = FALSE
  /\ socket' = 0
  /\ ended' = Append(ended, opened)
  /\ UNCHANGED <<FinConnect, PAUSE, queue, reading, scheduled, pc, round, pipe, todo,
                 TerminateFlag, opened, sent, history>>

TimersDone ==
  /\ Goes("timeout", "preselect")
  /\ UNCHANGED <<socket, FinConnect, PAUSE, queue, reading, timers, round, pipe, todo,
                 TerminateFlag, opened, sent, history, ended>>

Interest ==
  UNION { IF ~IsFree /\ ~FinConnect THEN {"write", "error"} ELSE {},
          IF ~IsFree /\ FinConnect /\ PAUSE = 0 THEN {"read", "error"} ELSE {},
          IF PendingSend # <<>> THEN {"write"} ELSE {} }

PreSelect ==
  /\ Goes("preselect", "select")
  /\ polled' = Interest /\ ready' = {}
  /\ timed' = (connectTimer \/ (~IsFree /\ PAUSE < 0))
  /\ UNCHANGED <<socket, FinConnect, PAUSE, queue, reading, timers, pipe, todo,
                 TerminateFlag, opened, sent, history, ended>>

Select(bits) ==
  /\ Goes("select", "write")
  /\ bits # {} \/ pipe \/ timed
  /\ ready' = bits
  /\ pipe' = FALSE
  /\ UNCHANGED <<socket, FinConnect, PAUSE, queue, reading, timers, polled, timed, todo,
                 TerminateFlag, opened, sent, history, ended>>

SelectReturns == \E bits \in SUBSET polled : Select(bits)
SelectWritable == \E bits \in SUBSET polled : "write" \in bits /\ Select(bits)

Writes == FinConnect /\ ~IsFree /\ "write" \in ready

(* The write part of PostSelect: send until all is sent, the network would  *)
(* block, or an error clears the queue and schedules a Disconnect.          *)
WriteAll ==
  /\ Writes /\ Goes("write", "sendok")
  /\ wire' = wire \o PendingSend
  /\ PendingBytesToSend' = PendingBytesToSend - Len(PendingSend)
  /\ PendingSend' = <<>>
  /\ UNCHANGED <<broken, scheduled, pipe>>

WriteSome ==
  /\ Writes /\ Goes("write", "connection")
  /\ \E n \in 1 .. Len(PendingSend) - 1 :
       /\ wire' = wire \o SubSeq(PendingSend, 1, n)
       /\ PendingBytesToSend' = PendingBytesToSend - n
       /\ PendingSend' = SubSeq(PendingSend, n + 1, Len(PendingSend))
  /\ UNCHANGED <<broken, scheduled, pipe>>

WriteFails ==
  /\ Writes /\ Goes("write", "connection")
  /\ \E n \in 0 .. Len(PendingSend) - 1 : wire' = wire \o SubSeq(PendingSend, 1, n)
  /\ PendingSend' = <<>> /\ PendingBytesToSend' = 0
  /\ broken' = TRUE
  /\ pipe' = (pipe \/ ~scheduled)
  /\ scheduled' = TRUE

WriteSkipped ==
  /\ ~Writes /\ Goes("write", "connection")
  /\ UNCHANGED <<queue, wire, broken, scheduled, pipe>>

Write ==
  /\ WriteAll \/ WriteSome \/ WriteFails \/ WriteSkipped
  /\ UNCHANGED <<socket, FinConnect, PAUSE, reading, connectTimer, round, todo,
                 TerminateFlag, opened, sent, accepted, ended>>

SendOKReturns ==
  /\ Goes("sendok", "connection")
  /\ UNCHANGED <<socket, FinConnect, PAUSE, queue, reading, timers, round, pipe, todo,
                 TerminateFlag, opened, sent, history, ended>>

(* The second part of PostSelect, on a socket that connects.  An error wins *)
(* over success: OnConnect is called once.                                  *)
FinishConnect ==
  /\ ~IsFree /\ ~FinConnect /\ Goes("connection", "postlinks")
  /\ connectTimer' = (connectTimer /\ ready \cap {"write", "error"} = {})
  /\ FinConnect' = ("write" \in ready)
  /\ \/ "error" \in ready /\ socket' = 0 /\ ended' = Append(ended, socket)
     \/ "error" \notin ready /\ UNCHANGED <<socket, ended>>
  /\ PAUSE' = IF "write" \in ready THEN 0 ELSE PAUSE
  /\ UNCHANGED <<queue, unread>>

(* On a connected one.  After an error the read bit is tested on the closed *)
(* descriptor ~0, with any result.                                          *)
PeerReset ==
  /\ ~IsFree /\ FinConnect /\ "error" \in ready
  /\ Goes("connection", "process") \/ Goes("connection", "postlinks")
  /\ Close /\ PAUSE' = 1
  /\ UNCHANGED <<FinConnect, connectTimer>>

Readable ==
  /\ ~IsFree /\ FinConnect /\ "error" \notin ready /\ "read" \in ready
  /\ Goes("connection", "process")
  /\ UNCHANGED <<socket, FinConnect, PAUSE, queue, unread, connectTimer, ended>>

Resumed ==
  /\ ~IsFree /\ FinConnect /\ ready \cap {"read", "error"} = {} /\ PAUSE < 0
  /\ Goes("connection", "resume")
  /\ PAUSE' = PAUSE + 1
  /\ UNCHANGED <<socket, FinConnect, queue, unread, connectTimer, ended>>

Idle ==
  /\ IsFree \/ (FinConnect /\ ready \cap {"read", "error"} = {} /\ PAUSE >= 0)
  /\ Goes("connection", "postlinks")
  /\ UNCHANGED <<socket, FinConnect, PAUSE, queue, unread, connectTimer, ended>>

HandleConnection ==
  /\ FinishConnect \/ PeerReset \/ Readable \/ Resumed \/ Idle
  /\ UNCHANGED <<paused, scheduled, round, pipe, todo, TerminateFlag, opened, sent, history>>

(* ILibProcessAsyncSocket with data to read: nothing while paused, the end  *)
(* of the connection, or data for OnData.                                   *)
Receive ==
  /\ \/ /\ PAUSE > 0 /\ Goes("process", "postlinks")
        /\ UNCHANGED <<socket, queue, unread, ended>>
     \/ /\ PAUSE <= 0 /\ Goes("process", "postlinks")
        /\ Close
     \/ /\ PAUSE <= 0 /\ ~IsFree /\ Goes("process", "ondata")
        /\ UNCHANGED <<socket, queue, unread, ended>>
  /\ UNCHANGED <<FinConnect, PAUSE, paused, timers, round, pipe, todo, TerminateFlag,
                 opened, sent, history>>

(* And without: what a pause left in the buffer is offered again.           *)
Offer ==
  /\ \/ unread /\ ~IsFree /\ NotPaused(PAUSE) /\ Goes("resume", "ondata")
     \/ ~(unread /\ ~IsFree /\ NotPaused(PAUSE)) /\ Goes("resume", "postlinks")
  /\ UNCHANGED <<socket, FinConnect, PAUSE, queue, reading, timers, round, pipe, todo,
                 TerminateFlag, opened, sent, history, ended>>

OnDataReturns ==
  /\ Goes("ondata", "postlinks")
  /\ unread' = FALSE
  /\ UNCHANGED <<socket, FinConnect, PAUSE, queue, paused, timers, round, pipe, todo,
                 TerminateFlag, opened, sent, history, ended>>

OnDataPauses ==
  /\ Goes("ondata", "postlinks") /\ ~IsFree
  /\ PAUSE' = 1
  /\ paused' = TRUE
  /\ unread' \in BOOLEAN
  /\ UNCHANGED <<socket, FinConnect, queue, timers, round, pipe, todo,
                 TerminateFlag, opened, sent, history, ended>>

RoundDone ==
  /\ Goes("postlinks", IF TerminateFlag THEN "destroy" ELSE "links")
  /\ polled' = {} /\ ready' = {}
  /\ UNCHANGED <<socket, FinConnect, PAUSE, queue, reading, timers, timed, pipe, todo,
                 TerminateFlag, opened, sent, history, ended>>

(* An open connection is told by OnInterrupt.                               *)
Destroy ==
  /\ Goes("destroy", "destroyed")
  /\ \/ ~IsFree /\ ended' = Append(ended, socket)
     \/ IsFree /\ UNCHANGED ended
  /\ socket' = 0 /\ PendingSend' = <<>> /\ unread' = FALSE
  /\ scheduled' = FALSE /\ connectTimer' = FALSE
  /\ UNCHANGED <<FinConnect, PAUSE, PendingBytesToSend, paused, round, pipe, todo,
                 TerminateFlag, opened, sent, history>>
-----------------------------------------------------------------------------
Application(t) == Send(t) \/ Resume(t)

Owner == OwnerDisconnects \/ ConnectTo \/ UseThisSocket

ChainSteps ==
  \/ LinksDone \/ RunScheduled \/ TimersDone \/ PreSelect
  \/ Write \/ SendOKReturns \/ HandleConnection \/ Receive \/ Offer
  \/ OnDataReturns \/ OnDataPauses \/ RoundDone \/ Destroy

Next ==
  \/ \E t \in Thread : Application(t) \/ SendReturns(t)
  \/ Owner \/ StopChain
  \/ ChainSteps \/ SelectReturns \/ ConnectTimeout

Spec == Init /\ [][Next]_vars

(* Threads run when they can.  select returns when the pipe or the block    *)
(* time wakes it, and a network that is asked for room over and over has    *)
(* some in the end, or fails.                                               *)
FairSpec ==
  /\ Spec
  /\ WF_vars(ChainSteps)
  /\ WF_vars((pipe \/ timed) /\ SelectReturns)
  /\ SF_vars(SelectWritable)
  /\ \A t \in Thread : WF_vars(SendReturns(t))
-----------------------------------------------------------------------------
TypeOK ==
  /\ socket \in 0 .. opened /\ FinConnect \in BOOLEAN /\ PAUSE \in {-1, 0, 1}
  /\ PendingSend \in Seq(Message) /\ PendingBytesToSend \in Nat
  /\ unread \in BOOLEAN /\ paused \in BOOLEAN
  /\ scheduled \in BOOLEAN /\ connectTimer \in BOOLEAN
  /\ pc \in Location /\ polled \subseteq Bit /\ ready \subseteq polled
  /\ timed \in BOOLEAN /\ pipe \in BOOLEAN
  /\ todo \in [Thread -> {"nothing", "unblock", "disconnect"}]
  /\ TerminateFlag \in BOOLEAN
  /\ opened \in 0 .. MaxConnections /\ sent \in 0 .. MaxSends
  /\ accepted \in Seq(Message) /\ wire \in Seq(Message) /\ broken \in BOOLEAN
  /\ ended \in Seq(0 .. opened)

(* Whichever threads send, and however the network cuts what they send, it  *)
(* goes out in the order of the calls, nothing twice and nothing left out,  *)
(* and the count of pending bytes is that of the queue, until a send fails. *)
WireInOrder ==
  ~IsFree /\ ~broken =>
    /\ wire \o PendingSend = accepted
    /\ PendingBytesToSend = Len(PendingSend)

(* Nothing is queued on a closed socket, which PreSelect would put in an fd *)
(* set as ~0, and the write part of PostSelect, which reads the head of the *)
(* queue without a test, never meets an empty one.                          *)
QueueHasSocketAndHead ==
  /\ IsFree => PendingSend = <<>>
  /\ pc = "write" /\ Writes => PendingSend # <<>>

(* On a chain that was stopped, a Disconnect scheduled for an earlier       *)
(* connection ends one that was being made and leaves its timer, which then *)
(* reports the end of that connection once more.                            *)
ReportedAgain ==
  /\ TerminateFlag /\ IsFree /\ ~FinConnect
  /\ ended # <<>> /\ IsInjective(Front(ended)) /\ Last(ended) = opened

(* The end of a connection is reported once, by OnConnect, OnDisconnect or  *)
(* OnInterrupt, whatever ends it and whatever is scheduled to end it again: *)
(* its user frees the data of the connection there.  The only exception is  *)
(* ReportedAgain: nothing else, and nothing before the stop of the chain,   *)
(* reports an end twice.                                                    *)
EndedOnce ==
  /\ Range(ended) = (1 .. opened) \ {socket}
  /\ IsInjective(ended) \/ ReportedAgain

(* select never sleeps over work: whatever came up since PreSelect looked,  *)
(* on this thread or another, is polled, has shortened the block time, has  *)
(* put a byte in the pipe, or its thread is about to.                       *)
Woken == pipe \/ \E t \in Thread : todo[t] = "unblock"

SelectMissesNothing ==
  pc = "select" =>
    /\ PendingSend # <<>> => "write" \in polled \/ Woken
    /\ ~IsFree /\ PAUSE < 0 => timed \/ Woken
    /\ connectTimer => timed
    /\ scheduled \/ TerminateFlag => pipe

(* What Send could only queue goes out, or its connection ends: no thread   *)
(* sends so early or late that select sleeps over its data.                 *)
QueuedDataGoesOut ==
  \A m \in Message : m \in Range(PendingSend) ~> m \notin Range(PendingSend)

(* Resume gets data left in the buffer offered again although no more data  *)
(* comes in.                                                                *)
ResumeDelivers ==
  PAUSE < 0 /\ unread ~> pc = "ondata" \/ ~unread
=============================================================================
